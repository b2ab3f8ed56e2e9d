--------------------------- MODULE DeliveryProofs ---------------------------
(***************************************************************************)
(* Proofs about Delivery and Markup: texts as sequences and the functions  *)
(* of Markup unfolded, the order of what is shown, and what a channel      *)
(* reads of a converted text that was cut into parts.                      *)
(***************************************************************************)
EXTENDS Delivery, SequenceTheorems, WellFoundedInduction, TLAPS

\* The definition is for the facts about it: elsewhere a text is a member of Text,
\* and the provers see \o only through the lemmas below.
Chars == STRING \union {"n", "~", "*", "[", "]", "(", ")", "<", "|", ">", "\\", "broken"}
Text == Seq(Chars)

LEMMA CatType == \A a, b \in Text : a \o b \in Text
  BY ConcatProperties DEF Text

LEMMA CatAssoc == \A a, b, c \in Text : (a \o b) \o c = a \o (b \o c)
  BY ConcatAssociative DEF Text

LEMMA CatEmpty == <<>> \in Text /\ \A a \in Text : a \o <<>> = a /\ <<>> \o a = a
  BY ConcatEmptySeq, EmptySeq DEF Text

LEMMA TextLen ==
    \A a \in Text : /\ Len(a) \in Nat /\ DOMAIN a = 1..Len(a)
                    /\ \A i \in 1..Len(a) : a[i] \in Chars
  BY LenProperties, ElementOfSeq DEF Text

LEMMA EmptyText == Len(<<>>) = 0 /\ \A a \in Text : Len(a) = 0 => a = <<>>
  BY EmptySeq DEF Text

LEMMA TextEqual ==
    \A a, b \in Text :
        Len(a) = Len(b) /\ (\A i \in 1..Len(a) : a[i] = b[i]) => a = b
  BY SeqEqual DEF Text

LEMMA OneText == \A x \in Chars : <<x>> \in Text /\ Len(<<x>>) = 1 /\ <<x>>[1] = x
<1> SUFFICES ASSUME NEW S, NEW x \in S PROVE <<x>> \in Seq(S)
  BY DEF Text
<1> QED OBVIOUS

LEMMA CatLen == \A a, b \in Text : Len(a \o b) = Len(a) + Len(b)
  BY ConcatProperties DEF Text

LEMMA CatAt ==
    \A a, b \in Text : \A i \in 1..(Len(a) + Len(b)) :
        (a \o b)[i] = IF i <= Len(a) THEN a[i] ELSE b[i - Len(a)]
  BY ConcatProperties DEF Text

LEMMA CatCancel ==
    ASSUME NEW a \in Text, NEW b \in Text, NEW c \in Text, NEW d \in Text,
           a \o b = c \o d, Len(a) = Len(c)
    PROVE  a = c /\ b = d
<1>1. Len(b) = Len(d) /\ Len(a) \in Nat /\ Len(b) \in Nat BY CatLen, TextLen
<1>2. ASSUME NEW i \in 1..Len(a) PROVE a[i] = c[i]
  <2>1. i \in 1..(Len(a) + Len(b)) /\ i <= Len(a) BY <1>1
  <2>2. (a \o b)[i] = a[i] BY <2>1, CatAt
  <2>3. (c \o d)[i] = c[i] BY <1>1, <2>1, CatAt
  <2> QED BY <2>2, <2>3
<1>3. ASSUME NEW i \in 1..Len(b) PROVE b[i] = d[i]
  <2>1. PICK j : j = Len(a) + i OBVIOUS
  <2>2. j \in 1..(Len(a) + Len(b)) /\ ~(j <= Len(a)) /\ j - Len(a) = i BY <1>1, <2>1
  <2>3. (a \o b)[j] = b[i] BY <2>2, CatAt
  <2>4. (c \o d)[j] = d[i] BY <1>1, <2>2, CatAt
  <2> QED BY <2>3, <2>4
<1> QED BY <1>1, <1>2, <1>3, TextEqual

LEMMA SubText ==
    \A a \in Text : \A m, n \in Int : 1 <= m /\ n <= Len(a) =>
        /\ SubSeq(a, m, n) \in Text
        /\ Len(SubSeq(a, m, n)) = IF m <= n THEN n - m + 1 ELSE 0
        /\ \A i \in 1..(n - m + 1) : SubSeq(a, m, n)[i] = a[m + i - 1]
<1> SUFFICES ASSUME NEW a \in Text, NEW m \in Int, NEW n \in Int, 1 <= m, n <= Len(a)
             PROVE  /\ SubSeq(a, m, n) \in Text
                    /\ Len(SubSeq(a, m, n)) = IF m <= n THEN n - m + 1 ELSE 0
                    /\ \A i \in 1..(n - m + 1) : SubSeq(a, m, n)[i] = a[m + i - 1]
  OBVIOUS
<1>1. \A i \in m..n : a[i] \in Chars BY TextLen
<1> QED BY <1>1, SubSeqProperties DEF Text

LEMMA CutText ==
    \A a \in Text : \A k \in 0..Len(a) :
        a = SubSeq(a, 1, k) \o SubSeq(a, k + 1, Len(a))
<1> SUFFICES ASSUME NEW a \in Text, NEW k \in 0..Len(a)
             PROVE  a = SubSeq(a, 1, k) \o SubSeq(a, k + 1, Len(a))
  OBVIOUS
<1>1. Len(a) \in Nat BY TextLen
<1>2. PICK b, c : b = SubSeq(a, 1, k) /\ c = SubSeq(a, k + 1, Len(a)) OBVIOUS
<1>3. /\ b \in Text /\ Len(b) = k /\ \A i \in 1..k : b[i] = a[i]
      /\ c \in Text /\ Len(c) = Len(a) - k /\ \A i \in 1..(Len(a) - k) : c[i] = a[k + i]
  BY <1>1, <1>2, SubText
<1>4. b \o c \in Text /\ Len(b \o c) = Len(a) BY <1>1, <1>3, CatType, CatLen
<1>5. ASSUME NEW i \in 1..Len(a) PROVE (b \o c)[i] = a[i]
  <2>1. (b \o c)[i] = IF i <= k THEN b[i] ELSE c[i - k] BY <1>1, <1>3, CatAt
  <2>2. i > k => i - k \in 1..(Len(a) - k) /\ k + (i - k) = i BY <1>1
  <2> QED BY <1>1, <1>3, <2>1, <2>2
<1> QED BY <1>2, <1>4, <1>5, TextEqual

----------------------------------------------------------------------------
(* Recursion.  The functions of Markup and FlattenSeq give each point of a *)
(* finite domain a sequence of its own next to the value of another point  *)
(* that is nearer to the end.                                              *)

\* A set of numbers that is not empty has a least one.
LEMMA LeastOf ==
    ASSUME NEW S \in SUBSET Nat, S # {}
    PROVE  \E i \in S : \A j \in S : i <= j
<1>1. PICK i \in S : \A j \in S : ~(<<j, i>> \in OpToRel(<, Nat))
  BY WFMin, NatLessThanWellFounded, Zenon
<1>2. ASSUME NEW j \in S, ~(i <= j) PROVE FALSE
  <2>1. i \in Nat /\ j \in Nat /\ j < i BY <1>2
  <2>2. <<j, i>> \in OpToRel(<, Nat) BY <2>1 DEF OpToRel
  <2> QED BY <1>1, <2>2
<1> QED BY <1>2

\* A set that has 0, and with each number the next, has them all.
LEMMA Induct ==
    ASSUME NEW P, 0 \in P, \A n \in Nat : n \in P => n + 1 \in P
    PROVE  \A n \in Nat : n \in P
<1> DEFINE Bad == Nat \ P
<1> SUFFICES ASSUME Bad # {} PROVE FALSE
  OBVIOUS
<1>1. PICK n \in Bad : \A m \in Bad : n <= m BY LeastOf
<1>2. n \in Nat /\ n # 0 BY <1>1
<1>3. n - 1 \in Nat /\ ~(n <= n - 1) BY <1>2
<1>4. n - 1 \in P BY <1>1, <1>3
<1>5. (n - 1) + 1 = n BY <1>2
<1> QED BY <1>1, <1>3, <1>4, <1>5

\* The value of f at a point: of the ends it is given, at the left points it
\* follows head, at the others it precedes it.
Chained(ends, left, head, next, f, d) ==
    IF d \in ends THEN head[d]
    ELSE IF d \in left THEN head[d] \o f[next[d]] ELSE f[next[d]] \o head[d]

FunctionOn(D, f) == f = [d \in D |-> f[d]]

\* A recursion that comes to an end: rank, up to N, falls at each step.
Descends(D, ends, left, head, next, rank, N) ==
    /\ N \in Nat /\ \A d \in D : rank[d] \in 0..N
    /\ \A d \in D \ ends : next[d] \in D /\ rank[next[d]] < rank[d]

LEMMA ChainExists ==
    ASSUME NEW D, NEW ends, NEW left, NEW head, NEW next, NEW rank, NEW N,
           Descends(D, ends, left, head, next, rank, N)
    PROVE  \E f : /\ FunctionOn(D, f)
                  /\ \A d \in D : f[d] = Chained(ends, left, head, next, f, d)
<1>0. /\ N \in Nat /\ \A d \in D : rank[d] \in 0..N
      /\ \A d \in D \ ends : next[d] \in D /\ rank[next[d]] < rank[d]
  BY DEF Descends
<1> DEFINE Val(f, d) == Chained(ends, left, head, next, f, d)
           Upto(n, f) == \A d \in D : rank[d] <= n => f[d] = Val(f, d)
           P == {n \in Nat : \E f : FunctionOn(D, f) /\ Upto(n, f)}
<1>1. 0 \in P
  <2> DEFINE f == [d \in D |-> head[d]]
  <2>1. ASSUME NEW d \in D, rank[d] <= 0 PROVE f[d] = Val(f, d)
    <3>1. d \in ends
      <4> SUFFICES ASSUME d \notin ends PROVE FALSE
        OBVIOUS
      <4>1. next[d] \in D /\ rank[next[d]] < rank[d] BY <1>0
      <4>2. rank[d] \in 0..N /\ rank[next[d]] \in 0..N BY <1>0, <4>1
      <4> QED BY <2>1, <4>1, <4>2
    <3> QED BY <3>1 DEF Chained
  <2>2. FunctionOn(D, f) BY DEF FunctionOn
  <2> HIDE DEF f
  <2>3. Upto(0, f) BY <2>1
  <2> QED BY <2>2, <2>3
<1>2. ASSUME NEW n \in Nat, n \in P PROVE n + 1 \in P
  <2>1. PICK g : FunctionOn(D, g) /\ Upto(n, g) BY <1>2
  <2> DEFINE f == [d \in D |-> IF rank[d] <= n THEN g[d] ELSE Val(g, d)]
  <2>2. ASSUME NEW d \in D, rank[d] <= n + 1 PROVE f[d] = Val(f, d)
    <3>1. f[d] = Val(g, d) BY <2>1
    <3>2. ASSUME d \notin ends PROVE f[next[d]] = g[next[d]]
      <4>1. next[d] \in D /\ rank[next[d]] < rank[d] BY <1>0, <3>2
      <4>2. rank[d] \in 0..N /\ rank[next[d]] \in 0..N BY <1>0, <4>1
      <4>3. rank[next[d]] <= n BY <2>2, <4>1, <4>2
      <4> QED BY <4>1, <4>3
    <3>3. Val(f, d) = Val(g, d)
      <4> HIDE DEF f
      <4> QED BY <3>2 DEF Chained
    <3> QED BY <3>1, <3>3
  <2>3. FunctionOn(D, f) BY DEF FunctionOn
  <2> HIDE DEF f
  <2>4. Upto(n + 1, f) BY <2>2
  <2>5. n + 1 \in Nat OBVIOUS
  <2> QED BY <2>3, <2>4, <2>5
<1>3. N \in P
  <2> HIDE DEF P
  <2> QED BY <1>0, <1>1, <1>2, Induct
<1>4. PICK f : FunctionOn(D, f) /\ Upto(N, f) BY <1>3
<1>5. \A d \in D : rank[d] <= N BY <1>0
<1>6. \A d \in D : f[d] = Val(f, d) BY <1>4, <1>5
<1> QED BY <1>4, <1>6

----------------------------------------------------------------------------
(* FlattenSeq.  A function that adds the parts one after the other ends    *)
(* with it, and there is one.                                              *)

LEMMA SumExists ==
    ASSUME NEW N \in Nat, NEW H, NEW q \in [1..N -> H]
    PROVE  \E f : /\ FunctionOn(1..N, f)
                  /\ \A i \in 1..N : f[i] = IF i = 1 THEN q[i] ELSE f[i-1] \o q[i]
<1>1. PICK D, ends, left, next, rank :
        /\ D = 1..N /\ ends = D \intersect {1} /\ left = {}
        /\ next = [i \in D |-> i - 1] /\ rank = [i \in D |-> i]
  OBVIOUS
<1>2. Descends(D, ends, left, q, next, rank, N) BY <1>1 DEF Descends
<1>4. PICK f : /\ FunctionOn(D, f)
               /\ \A i \in D : f[i] = Chained(ends, left, q, next, f, i)
  BY <1>2, ChainExists
<1>5. \A i \in D : f[i] = IF i = 1 THEN q[i] ELSE f[i-1] \o q[i]
  BY <1>1, <1>4 DEF Chained
<1> QED BY <1>1, <1>4, <1>5

LEMMA FlattenUnfolds ==
    ASSUME NEW q \in Seq(Text), Len(q) # 0
    PROVE  \E f : /\ f = [i \in 1..Len(q) |-> IF i = 1 THEN q[i] ELSE f[i-1] \o q[i]]
                  /\ FlattenSeq(q) = f[Len(q)]
<1> DEFINE P(f) == f = [i \in 1..Len(q) |-> IF i = 1 THEN q[i] ELSE f[i-1] \o q[i]]
<1>1. PICK n : n = Len(q) OBVIOUS
<1>2. n \in Nat /\ q \in [1..n -> Text] BY <1>1, LenProperties
<1>3. PICK f : /\ FunctionOn(1..n, f)
               /\ \A i \in 1..n : f[i] = IF i = 1 THEN q[i] ELSE f[i-1] \o q[i]
  BY <1>2, SumExists
<1>4. P(f)
  <2>1. [i \in 1..n |-> f[i]] = [i \in 1..n |-> IF i = 1 THEN q[i] ELSE f[i-1] \o q[i]]
    BY <1>3
  <2> QED BY <1>1, <1>3, <2>1 DEF FunctionOn
<1>5. P(CHOOSE g : P(g)) BY <1>4
<1>6. FlattenSeq(q) = (CHOOSE g : P(g))[Len(q)] BY DEF FlattenSeq
<1> QED BY <1>5, <1>6

LEMMA FlattenFun ==
    ASSUME NEW q \in Seq(Text)
    PROVE  \E f : f[0] = <<>> /\ \A i \in 1..Len(q) : f[i] = f[i-1] \o q[i]
<1>1. Len(q) \in Nat /\ q \in [1..Len(q) -> Text] BY LenProperties
<1>2. PICK f : /\ FunctionOn(1..Len(q), f)
               /\ \A i \in 1..Len(q) : f[i] = IF i = 1 THEN q[i] ELSE f[i-1] \o q[i]
  <2>1. PICK n : n = Len(q) OBVIOUS
  <2>2. n \in Nat /\ q \in [1..n -> Text] BY <1>1, <2>1
  <2>3. \E f : /\ FunctionOn(1..n, f)
               /\ \A i \in 1..n : f[i] = IF i = 1 THEN q[i] ELSE f[i-1] \o q[i]
    BY <2>2, SumExists
  <2> QED BY <2>1, <2>3
<1> DEFINE g == [i \in 0..Len(q) |-> IF i = 0 THEN <<>> ELSE f[i]]
<1>3. g[0] = <<>> BY <1>1
<1>4. ASSUME NEW i \in 1..Len(q) PROVE g[i] = g[i-1] \o q[i]
  <2>1. g[i] = f[i] /\ (i # 1 => g[i-1] = f[i-1]) BY <1>1
  <2>2. CASE i = 1
    <3>1. <<>> \o q[1] = q[1] BY <1>1, <2>2, CatEmpty
    <3>2. g[i] = q[1] /\ g[i-1] = <<>> BY <1>2, <1>3, <2>1, <2>2
    <3> HIDE DEF g
    <3> QED BY <2>2, <3>1, <3>2
  <2>3. CASE i # 1
    <3> HIDE DEF g
    <3> QED BY <1>2, <2>1, <2>3
  <2> QED BY <2>2, <2>3
<1> HIDE DEF g
<1> QED BY <1>3, <1>4

LEMMA FlattenIs ==
    ASSUME NEW q \in Seq(Text), NEW f, f[0] = <<>>,
           \A i \in 1..Len(q) : f[i] = f[i-1] \o q[i]
    PROVE  FlattenSeq(q) = f[Len(q)] /\ \A i \in 0..Len(q) : f[i] \in Text
<1>1. Len(q) \in Nat /\ \A i \in 1..Len(q) : q[i] \in Text
  BY ElementOfSeq, LenProperties
<1> DEFINE T == {n \in Nat : n <= Len(q) => f[n] \in Text}
<1>2. 0 \in T BY CatEmpty
<1>3. ASSUME NEW n \in Nat, n \in T PROVE n + 1 \in T
  <2>1. SUFFICES ASSUME n + 1 <= Len(q) PROVE f[n+1] \in Text
    OBVIOUS
  <2>2. n + 1 \in 1..Len(q) /\ (n + 1) - 1 = n BY <2>1, <1>1
  <2>3. f[n+1] = f[n] \o q[n+1] BY <2>2
  <2>4. f[n] \in Text BY <1>1, <1>3, <2>1
  <2> QED BY <1>1, <2>2, <2>3, <2>4, CatType
<1>4. \A n \in Nat : n \in T
  <2> HIDE DEF T
  <2> QED BY <1>2, <1>3, Induct
<1>5. \A i \in 0..Len(q) : f[i] \in Text BY <1>1, <1>4
<1>6. CASE Len(q) = 0
  <2>1. q = <<>> BY <1>6, EmptySeq
  <2>2. FlattenSeq(q) = <<>> BY <1>6, <2>1 DEF FlattenSeq
  <2> QED BY <1>5, <1>6, <2>2
<1>7. CASE Len(q) # 0
  <2>1. PICK g : /\ g = [i \in 1..Len(q) |-> IF i = 1 THEN q[i] ELSE g[i-1] \o q[i]]
                 /\ FlattenSeq(q) = g[Len(q)]
    BY <1>1, <1>7, FlattenUnfolds
  <2> DEFINE U == {n \in Nat : n + 1 <= Len(q) => g[n+1] = f[n+1]}
  <2>2. 0 \in U
    <3>1. 1 \in 1..Len(q) /\ 1 - 1 = 0 BY <1>1, <1>7
    <3>2. g[1] = q[1] BY <2>1, <3>1
    <3>3. f[1] = <<>> \o q[1] BY <3>1
    <3>4. <<>> \o q[1] = q[1] BY <1>1, <3>1, CatEmpty
    <3> QED BY <3>2, <3>3, <3>4
  <2>3. ASSUME NEW n \in Nat, n \in U PROVE n + 1 \in U
    <3>1. SUFFICES ASSUME (n + 1) + 1 <= Len(q) PROVE g[(n+1)+1] = f[(n+1)+1]
      OBVIOUS
    <3>2. /\ (n+1)+1 \in 1..Len(q) /\ (n+1)+1 # 1
          /\ ((n+1)+1)-1 = n+1 /\ n + 1 <= Len(q)
      BY <1>1, <3>1
    <3>3. g[(n+1)+1] = g[n+1] \o q[(n+1)+1] BY <2>1, <3>2
    <3>4. f[(n+1)+1] = f[n+1] \o q[(n+1)+1] BY <3>2
    <3> QED BY <2>3, <3>2, <3>3, <3>4
  <2>4. \A n \in Nat : n \in U
    <3> HIDE DEF U
    <3> QED BY <2>2, <2>3, Induct
  <2>5. PICK m \in Nat : m + 1 = Len(q)
    <3>1. Len(q) - 1 \in Nat /\ (Len(q) - 1) + 1 = Len(q) BY <1>1, <1>7
    <3> QED BY <3>1
  <2>6. g[m + 1] = f[m + 1] BY <1>1, <2>4, <2>5
  <2> QED BY <1>5, <2>1, <2>5, <2>6
<1> QED BY <1>6, <1>7

LEMMA FlattenType ==
    ASSUME NEW q \in Seq(Text)
    PROVE  FlattenSeq(q) \in Text
<1>1. PICK f : f[0] = <<>> /\ \A i \in 1..Len(q) : f[i] = f[i-1] \o q[i] BY FlattenFun
<1>2. Len(q) \in 0..Len(q) BY LenProperties
<1> QED BY <1>1, <1>2, FlattenIs

LEMMA FlattenEmpty == FlattenSeq(<<>>) = <<>>
  BY EmptySeq DEF FlattenSeq

LEMMA FlattenOne ==
    ASSUME NEW x \in Text
    PROVE  FlattenSeq(<<x>>) = x
<1> DEFINE f == [i \in 0..1 |-> IF i = 0 THEN <<>> ELSE x]
<1>1. <<x>> \in Seq(Text) /\ Len(<<x>>) = 1 /\ <<x>>[1] = x OBVIOUS
<1>2. f[0] = <<>> /\ f[1] = x OBVIOUS
<1>3. \A i \in 1..Len(<<x>>) : f[i] = f[i-1] \o <<x>>[i]
  <2>1. SUFFICES ASSUME NEW i \in {1} PROVE f[i] = f[i-1] \o <<x>>[i]
    BY <1>1
  <2>2. <<>> \o x = x /\ i = 1 /\ i - 1 = 0 BY CatEmpty
  <2> HIDE DEF f
  <2> QED BY <1>1, <1>2, <2>2
<1> HIDE DEF f
<1>4. FlattenSeq(<<x>>) = f[Len(<<x>>)] BY <1>1, <1>2, <1>3, FlattenIs
<1> QED BY <1>1, <1>2, <1>4

LEMMA FlattenCat ==
    ASSUME NEW p \in Seq(Text), NEW q \in Seq(Text)
    PROVE  FlattenSeq(p \o q) = FlattenSeq(p) \o FlattenSeq(q)
<1> DEFINE M == Len(p)
           N == Len(q)
<1>1. M \in Nat /\ N \in Nat BY LenProperties
<1>2. PICK f : f[0] = <<>> /\ \A i \in 1..M : f[i] = f[i-1] \o p[i] BY FlattenFun
<1>3. PICK g : g[0] = <<>> /\ \A i \in 1..N : g[i] = g[i-1] \o q[i] BY FlattenFun
<1>4. FlattenSeq(p) = f[M] /\ \A i \in 0..M : f[i] \in Text BY <1>2, FlattenIs
<1>5. FlattenSeq(q) = g[N] /\ \A i \in 0..N : g[i] \in Text BY <1>3, FlattenIs
<1>6. /\ p \o q \in Seq(Text) /\ Len(p \o q) = M + N
      /\ \A i \in 1..(M + N) : (p \o q)[i] = IF i <= M THEN p[i] ELSE q[i - M]
  BY ConcatProperties
<1> DEFINE h == [i \in 0..(M+N) |-> IF i <= M THEN f[i] ELSE f[M] \o g[i - M]]
<1>7. \A i \in 0..M : h[i] = f[i] BY <1>1
<1>8. ASSUME NEW k \in 0..N PROVE h[M + k] = f[M] \o g[k]
  <2>1. CASE k = 0
    <3>1. M \in 0..M /\ M + k = M BY <1>1, <2>1
    <3>2. f[M] \o <<>> = f[M] BY <1>4, <3>1, CatEmpty
    <3> QED BY <1>3, <1>7, <2>1, <3>1, <3>2
  <2>2. CASE k # 0
    <3>1. M + k \in 0..(M+N) /\ ~(M + k <= M) /\ (M + k) - M = k BY <1>1, <2>2
    <3> QED BY <3>1
  <2> QED BY <2>1, <2>2
<1> HIDE DEF h
<1>9. ASSUME NEW i \in 1..(M + N) PROVE h[i] = h[i-1] \o (p \o q)[i]
  <2>1. CASE i <= M
    <3>1. i \in 1..M /\ i \in 0..M /\ i - 1 \in 0..M BY <1>1, <2>1
    <3> QED BY <1>2, <1>6, <1>7, <2>1, <3>1
  <2>2. CASE ~(i <= M)
    <3>1. PICK k \in 0..(N-1) : i = M + k + 1
      <4>1. i - M - 1 \in 0..(N-1) /\ i = M + (i - M - 1) + 1 BY <1>1, <2>2
      <4> QED BY <4>1
    <3>2. /\ k \in 0..N /\ k + 1 \in 0..N /\ k + 1 \in 1..N /\ (k + 1) - 1 = k
          /\ i = M + (k + 1) /\ i - 1 = M + k /\ i - M = k + 1 /\ M \in 0..M
      BY <1>1, <3>1
    <3>3. h[i] = f[M] \o g[k + 1] /\ h[i-1] = f[M] \o g[k] BY <1>8, <3>2
    <3>4. g[k + 1] = g[k] \o q[k + 1] BY <1>3, <3>2
    <3>5. q[k + 1] \in Text BY <3>2, ElementOfSeq
    <3>6. f[M] \o (g[k] \o q[k + 1]) = (f[M] \o g[k]) \o q[k + 1]
      <4>1. f[M] \in Text /\ g[k] \in Text BY <1>4, <1>5, <3>2
      <4> QED BY <3>5, <4>1, CatAssoc
    <3> QED BY <1>6, <2>2, <3>2, <3>3, <3>4, <3>6
  <2> QED BY <2>1, <2>2
<1>11. h[0] = <<>> /\ h[M + N] = f[M] \o g[N]
  <2>1. 0 \in 0..M /\ N \in 0..N BY <1>1
  <2> QED BY <1>2, <1>7, <1>8, <2>1
<1>10. FlattenSeq(p \o q) = h[M + N] BY <1>6, <1>9, <1>11, FlattenIs
<1> QED BY <1>4, <1>5, <1>10, <1>11

----------------------------------------------------------------------------
(* The greatest of a set of numbers, which is what the selections of       *)
(* SequencesExt return.                                                    *)

LEMMA GreatestOf ==
    ASSUME NEW S \in SUBSET Nat, S # {}, NEW n \in Nat, \A i \in S : i <= n
    PROVE  Max(S) \in S /\ \A i \in S : i <= Max(S)
<1>1. PICK k \in {n - i : i \in S} : \A j \in {n - i : i \in S} : k <= j
  <2>1. {n - i : i \in S} # {} OBVIOUS
  <2>2. \A i \in S : n - i \in Nat OBVIOUS
  <2>3. {n - i : i \in S} \in SUBSET Nat BY <2>2
  <2> QED BY <2>1, <2>3, LeastOf
<1>2. PICK m \in S : k = n - m BY <1>1
<1>3. \A i \in S : n - m <= n - i BY <1>1, <1>2
<1>4. \A i \in S : m >= i BY <1>2, <1>3
<1>5. \E x \in S : \A y \in S : x >= y BY <1>4
<1>6. Max(S) \in S /\ \A y \in S : Max(S) >= y BY <1>5 DEF Max
<1>7. Max(S) \in Nat /\ \A y \in S : y \in Nat BY <1>6
<1> QED BY <1>6, <1>7

LEMMA LeastIs ==
    ASSUME NEW S \in SUBSET Nat, S # {}
    PROVE  Min(S) \in S /\ \A i \in S : Min(S) <= i
<1>1. \E x \in S : \A y \in S : x =< y BY LeastOf
<1> QED BY <1>1 DEF Min

----------------------------------------------------------------------------
(* splitMessage                                                            *)

\* Where a text is cut: after the last newline in reach, or at the limit.
LEMMA CutIs ==
    ASSUME NEW s \in Text, NEW limit \in Nat, limit > 1, Len(s) > limit
    PROVE  /\ Cut(s, limit) \in 1..limit
           /\ \/ Cut(s, limit) \in 2..limit /\ s[Cut(s, limit)] = NewLine
              \/ Cut(s, limit) = limit /\ \A i \in 2..limit : s[i] # NewLine
<1> DEFINE I == {i \in 2..limit : s[i] = NewLine}
<1>1. SelectLastInSubSeq(s, 2, limit, LAMBDA c : c = NewLine) =
        IF I # {} THEN Max(I) ELSE 0
  BY DEF SelectLastInSubSeq
<1>2. CASE I = {}
  <2>1. Cut(s, limit) = limit BY <1>1, <1>2 DEF Cut
  <2> QED BY <1>2, <2>1
<1>3. CASE I # {}
  <2>1. I \in SUBSET Nat /\ \A i \in I : i <= limit OBVIOUS
  <2>2. Max(I) \in I BY <1>3, <2>1, GreatestOf
  <2>3. Max(I) \in 2..limit /\ s[Max(I)] = NewLine BY <2>2
  <2>4. Cut(s, limit) = Max(I) BY <1>1, <1>3, <2>3 DEF Cut
  <2> QED BY <2>3, <2>4
<1> QED BY <1>2, <1>3

LEMMA TrimIs ==
    ASSUME NEW s \in Text
    PROVE  \E e \in 0..Len(s) :
              /\ TrimRight(s) = SubSeq(s, 1, e) /\ TrimRight(s) \in Text
              /\ Len(TrimRight(s)) = e /\ \A i \in (e + 1)..Len(s) : s[i] = NewLine
              /\ e > 0 => s[e] # NewLine
<1> DEFINE I == {i \in 1..Len(s) : s[i] # NewLine}
           e == IF I # {} THEN Max(I) ELSE 0
<1>1. TrimRight(s) = SubSeq(s, 1, e) BY DEF TrimRight, SelectLastInSeq
<1>2. Len(s) \in Nat BY TextLen
<1>3. e \in 0..Len(s) /\ (\A i \in (e + 1)..Len(s) : s[i] = NewLine)
      /\ (e > 0 => s[e] # NewLine)
  <2>1. CASE I = {} BY <1>2, <2>1
  <2>2. CASE I # {}
    <3>1. I \in SUBSET Nat /\ \A i \in I : i <= Len(s) BY <1>2
    <3>2. Max(I) \in I /\ \A i \in I : i <= Max(I) BY <1>2, <2>2, <3>1, GreatestOf
    <3>3. PICK m : m = Max(I) OBVIOUS
    <3>4. /\ m \in 1..Len(s) /\ s[m] # NewLine
          /\ \A i \in 1..Len(s) : s[i] # NewLine => i <= m
      BY <3>2, <3>3
    <3>5. \A i \in (m + 1)..Len(s) : i \in 1..Len(s) /\ ~(i <= m) BY <1>2, <3>4
    <3> QED BY <1>2, <2>2, <3>3, <3>4, <3>5
  <2> QED BY <2>1, <2>2
<1> HIDE DEF e
<1>4. SubSeq(s, 1, e) \in Text /\ Len(SubSeq(s, 1, e)) = e BY <1>2, <1>3, SubText
<1> QED BY <1>1, <1>3, <1>4

Rest(s, i) == SubSeq(s, i, Len(s))

LEMMA RestIs ==
    \A s \in Text : \A i \in 1..(Len(s) + 1) :
        Rest(s, i) \in Text /\ Len(Rest(s, i)) = Len(s) + 1 - i
<1> SUFFICES ASSUME NEW s \in Text, NEW i \in 1..(Len(s) + 1)
             PROVE  Rest(s, i) \in Text /\ Len(Rest(s, i)) = Len(s) + 1 - i
  OBVIOUS
<1>1. Len(s) \in Nat BY TextLen
<1> QED BY <1>1, SubText DEF Rest

\* The parts of what is left of s from i on.
PartsFrom(s, limit, from, i) ==
    IF Len(Rest(s, i)) <= limit
      THEN IF Rest(s, i) = <<>> THEN <<>> ELSE <<Rest(s, i)>>
      ELSE <<TrimRight(SubSeq(Rest(s, i), 1, Cut(Rest(s, i), limit)))>>
             \o from[i + Cut(Rest(s, i), limit)]

LEMMA SplitUnfolds ==
    ASSUME NEW s \in Text, NEW limit \in Nat, limit > 1
    PROVE  \E from :
              /\ \A i \in 1..(Len(s) + 1) : from[i] = PartsFrom(s, limit, from, i)
              /\ SplitMessage(s, limit) = IF Len(s) <= limit THEN <<s>> ELSE from[1]
<1> DEFINE P(from) == from =
            [i \in 1..(Len(s) + 1) |->
                LET rest == SubSeq(s, i, Len(s))
                IN  CASE rest = <<>> -> <<>>
                      [] rest # <<>> /\ Len(rest) <= limit -> <<rest>>
                      [] OTHER ->
                            <<TrimRight(SubSeq(rest, 1, Cut(rest, limit)))>>
                              \o from[i + Cut(rest, limit)]]
<1>1. Len(s) \in Nat BY TextLen
<1>2. PICK D, ends, head, next, rank :
        /\ D = 1..(Len(s) + 1)
        /\ ends = {i \in D : Len(Rest(s, i)) <= limit}
        /\ head = [i \in D |->
              IF Len(Rest(s, i)) <= limit
                THEN IF Rest(s, i) = <<>> THEN <<>> ELSE <<Rest(s, i)>>
                ELSE <<TrimRight(SubSeq(Rest(s, i), 1, Cut(Rest(s, i), limit)))>>]
        /\ next = [i \in D |-> i + Cut(Rest(s, i), limit)]
        /\ rank = [i \in D |-> Len(s) + 1 - i]
  OBVIOUS
<1>3. ASSUME NEW i \in D \ ends PROVE next[i] \in D /\ rank[next[i]] < rank[i]
  <2>1. /\ i \in 1..(Len(s) + 1) /\ Rest(s, i) \in Text
        /\ Len(Rest(s, i)) = Len(s) + 1 - i /\ Len(Rest(s, i)) > limit
    BY <1>1, <1>2, RestIs
  <2>2. PICK k : k = Cut(Rest(s, i), limit) OBVIOUS
  <2>3. k \in 1..limit BY <2>1, <2>2, CutIs
  <2>4. next[i] = i + k BY <1>2, <2>2
  <2>5. i + k \in 1..(Len(s) + 1) BY <1>1, <2>1, <2>3
  <2> QED BY <1>1, <1>2, <2>1, <2>3, <2>4, <2>5
<1>4. Descends(D, ends, D, head, next, rank, Len(s))
  <2>1. \A i \in D : rank[i] \in 0..Len(s) BY <1>1, <1>2
  <2> QED BY <1>1, <1>3, <2>1 DEF Descends
<1>5. PICK f : /\ FunctionOn(D, f)
               /\ \A i \in D : f[i] = Chained(ends, D, head, next, f, i)
  BY <1>4, ChainExists
<1>6. ASSUME NEW i \in 1..(Len(s) + 1) PROVE f[i] = PartsFrom(s, limit, f, i)
  BY <1>2, <1>5 DEF Chained, PartsFrom
<1>7. ASSUME NEW g, NEW i \in 1..(Len(s) + 1)
      PROVE  PartsFrom(s, limit, g, i) =
                LET rest == SubSeq(s, i, Len(s))
                IN  CASE rest = <<>> -> <<>>
                      [] rest # <<>> /\ Len(rest) <= limit -> <<rest>>
                      [] OTHER ->
                            <<TrimRight(SubSeq(rest, 1, Cut(rest, limit)))>>
                              \o g[i + Cut(rest, limit)]
  <2>1. PICK rest : rest = Rest(s, i) OBVIOUS
  <2>2. Len(rest) \in Nat /\ (rest = <<>> => Len(rest) = 0)
    BY <2>1, RestIs, TextLen, EmptyText
  <2> QED BY <2>1, <2>2 DEF PartsFrom, Rest
<1>8. P(f) BY <1>2, <1>5, <1>6, <1>7 DEF FunctionOn
<1>9. P(CHOOSE g : P(g)) BY <1>8
<1>10. SplitMessage(s, limit) =
         IF Len(s) <= limit THEN <<s>> ELSE (CHOOSE g : P(g))[1]
  BY DEF SplitMessage
<1> DEFINE from == CHOOSE g : P(g)
<1>11. \A i \in 1..(Len(s) + 1) : from[i] = PartsFrom(s, limit, from, i)
  BY <1>7, <1>9
<1> QED BY <1>10, <1>11

----------------------------------------------------------------------------
(* The spans of a text.                                                    *)

\* What holds of a place in a text if it holds of all places after it.
LEMMA FromTheEnd ==
    ASSUME NEW n \in Nat, NEW P,
           \A i \in 1..(n + 1) : (\A j \in (i + 1)..(n + 1) : j \in P) => i \in P
    PROVE  \A i \in 1..(n + 1) : i \in P
<1> DEFINE Q == {k \in Nat : \A i \in 1..(n + 1) : n + 1 - i < k => i \in P}
<1>1. 0 \in Q OBVIOUS
<1>2. ASSUME NEW k \in Nat, k \in Q PROVE k + 1 \in Q
  <2>1. ASSUME NEW i \in 1..(n + 1), n + 1 - i < k + 1 PROVE i \in P
    <3>1. ASSUME NEW j \in (i + 1)..(n + 1) PROVE j \in P
      <4>1. j \in 1..(n + 1) /\ n + 1 - j < k BY <2>1
      <4> QED BY <1>2, <4>1
    <3> QED BY <3>1
  <2> QED BY <2>1
<1>3. \A k \in Nat : k \in Q
  <2> HIDE DEF Q
  <2> QED BY <1>1, <1>2, Induct
<1>4. \A i \in 1..(n + 1) : n + 1 - i < n + 1 OBVIOUS
<1> QED BY <1>3, <1>4

LEMMA MarksAreTexts ==
    /\ Fence \in Text /\ Len(Fence) = 3 /\ \A i \in 1..3 : Fence[i] = "~"
    /\ Tick \in Text /\ Len(Tick) = 1 /\ Tick[1] = "~"
    /\ Stars \in Text /\ Len(Stars) = 2
    /\ <<"]">> \in Text /\ <<"(">> \in Text /\ <<")">> \in Text
    /\ Len(<<"]">>) = 1 /\ Len(<<"(">>) = 1 /\ Len(<<")">>) = 1
<1>1. ASSUME NEW S, NEW x \in S
      PROVE  /\ <<x>> \in Seq(S) /\ Len(<<x>>) = 1 /\ <<x>>[1] = x
             /\ <<x, x>> \in Seq(S) /\ Len(<<x, x>>) = 2
             /\ <<x, x, x>> \in Seq(S) /\ Len(<<x, x, x>>) = 3
             /\ \A i \in 1..3 : <<x, x, x>>[i] = x
  <2>1. \A i \in 1..3 : i = 1 \/ i = 2 \/ i = 3 OBVIOUS
  <2> QED BY <2>1
<1>2. /\ "~" \in Chars /\ "*" \in Chars /\ "]" \in Chars
      /\ "(" \in Chars /\ ")" \in Chars
  BY DEF Chars
<1> QED BY <1>1, <1>2 DEF Text, Fence, Tick, Stars

LEMMA IndexIs ==
    ASSUME NEW s \in Text, NEW i \in Nat, i >= 1, NEW sub \in Text
    PROVE  LET j == Index(s, i, sub) IN
           \/ j = 0
           \/ /\ j \in i..(Len(s) - Len(sub) + 1)
              /\ SubSeq(s, j, j + Len(sub) - 1) = sub
              /\ \A k \in i..(j - 1) : SubSeq(s, k, k + Len(sub) - 1) # sub
<1> DEFINE hits == {j \in i..(Len(s) - Len(sub) + 1) :
                       SubSeq(s, j, j + Len(sub) - 1) = sub}
<1>0. Len(s) \in Nat /\ Len(sub) \in Nat BY TextLen
<1>1. Index(s, i, sub) = IF hits = {} THEN 0 ELSE Min(hits) BY DEF Index
<1>2. ASSUME hits # {}
      PROVE  /\ Min(hits) \in i..(Len(s) - Len(sub) + 1)
             /\ SubSeq(s, Min(hits), Min(hits) + Len(sub) - 1) = sub
             /\ \A k \in i..(Min(hits) - 1) : SubSeq(s, k, k + Len(sub) - 1) # sub
  <2>1. hits \in SUBSET Nat BY <1>0
  <2>2. Min(hits) \in hits /\ \A j \in hits : Min(hits) <= j BY <1>2, <2>1, LeastIs
  <2>3. PICK m : m = Min(hits) OBVIOUS
  <2>4. m \in i..(Len(s) - Len(sub) + 1) /\ SubSeq(s, m, m + Len(sub) - 1) = sub
    BY <2>2, <2>3
  <2>5. ASSUME NEW k \in i..(m - 1), SubSeq(s, k, k + Len(sub) - 1) = sub PROVE FALSE
    <3>1. k \in i..(Len(s) - Len(sub) + 1) /\ ~(m <= k) BY <1>0, <2>4
    <3> QED BY <2>2, <2>3, <2>5, <3>1
  <2> QED BY <2>3, <2>4, <2>5
<1> QED BY <1>1, <1>2

\* No mark ends a before the one after it.
Unclosed(a, mark) ==
    \A j \in 1..Len(a) : SubSeq(a \o mark, j, j + Len(mark) - 1) # mark

IsSpan(span) ==
    /\ span.inner \in Text /\ span.url \in Text
    /\ span.kind \in {"block", "code", "bold", "link", "plain"}
    /\ span.kind = "block" => Unclosed(span.inner, Fence)
    /\ span.kind = "code" => Unclosed(span.inner, Tick)
    /\ span.kind = "plain" => Len(span.inner) = 1

LEMMA EnclosedIs ==
    ASSUME NEW s \in Text, NEW i \in 1..Len(s), NEW mark \in Text, Len(mark) > 0,
           NEW kind, NEW span \in Enclosed(s, i, mark, kind)
    PROVE  /\ span.kind = kind /\ span.inner \in Text /\ span.url \in Text
           /\ span.next \in (i + 1)..(Len(s) + 1) /\ Unclosed(span.inner, mark)
<1> DEFINE end == Index(s, i + Len(mark), mark)
<1>0. Len(s) \in Nat /\ Len(mark) \in Nat BY TextLen
<1>1. /\ end # 0
      /\ span = [kind |-> kind, inner |-> SubSeq(s, i + Len(mark), end - 1),
                 url |-> <<>>, next |-> end + Len(mark)]
  BY DEF Enclosed
<1> HIDE DEF end
<1>2. /\ end \in (i + Len(mark))..(Len(s) - Len(mark) + 1)
      /\ SubSeq(s, end, end + Len(mark) - 1) = mark
      /\ \A k \in (i + Len(mark))..(end - 1) : SubSeq(s, k, k + Len(mark) - 1) # mark
  <2>1. i + Len(mark) \in Nat /\ i + Len(mark) >= 1 BY <1>0
  <2> QED BY <1>1, <2>1, IndexIs DEF end
<1>3. PICK n, inner : n = Len(mark) /\ inner = SubSeq(s, i + n, end - 1) OBVIOUS
<1>4. /\ inner \in Text /\ Len(inner) = end - i - n
      /\ \A k \in 1..(end - i - n) : inner[k] = s[i + n + k - 1]
  <2>1. PICK a, b : a = i + n /\ b = end - 1 OBVIOUS
  <2>2. /\ a \in Int /\ b \in Int /\ 1 <= a /\ b <= Len(s)
        /\ b - a + 1 = end - i - n /\ (a > b => end - i - n = 0)
    BY <1>0, <1>2, <1>3, <2>1
  <2>3. /\ SubSeq(s, a, b) \in Text
        /\ Len(SubSeq(s, a, b)) = IF a <= b THEN b - a + 1 ELSE 0
        /\ \A k \in 1..(b - a + 1) : SubSeq(s, a, b)[k] = s[a + k - 1]
    BY <2>2, SubText
  <2>4. Len(SubSeq(s, a, b)) = end - i - n BY <2>2, <2>3
  <2> QED BY <1>3, <2>1, <2>2, <2>3, <2>4
<1>5. /\ inner \o mark \in Text /\ Len(inner \o mark) = end - i
      /\ \A k \in 1..(end - i) : (inner \o mark)[k] = s[i + n + k - 1]
  <2>1. Len(inner \o mark) = end - i BY <1>0, <1>2, <1>3, <1>4, CatLen
  <2>2. ASSUME NEW k \in 1..(end - i) PROVE (inner \o mark)[k] = s[i + n + k - 1]
    <3>1. (inner \o mark)[k] = IF k <= Len(inner) THEN inner[k] ELSE mark[k - Len(inner)]
      <4>1. k \in 1..(Len(inner) + Len(mark)) BY <1>0, <1>2, <1>3, <1>4
      <4> QED BY <1>4, <4>1, CatAt
    <3>2. ASSUME k > Len(inner) PROVE mark[k - Len(inner)] = s[i + n + k - 1]
      <4>1. PICK j : j = k - Len(inner) OBVIOUS
      <4>2. j \in 1..n /\ end + j - 1 = i + n + k - 1 BY <1>0, <1>2, <1>3, <1>4, <3>2, <4>1
      <4>3. \A x \in 1..((end + n - 1) - end + 1) :
                SubSeq(s, end, end + n - 1)[x] = s[end + x - 1]
        BY <1>0, <1>2, <1>3, SubText
      <4>4. (end + n - 1) - end + 1 = n BY <1>0, <1>2, <1>3
      <4> QED BY <1>2, <1>3, <4>1, <4>2, <4>3, <4>4
    <3> QED BY <1>0, <1>2, <1>3, <1>4, <3>1, <3>2
  <2> QED BY <1>4, <2>1, <2>2, CatType
<1>6. ASSUME NEW k \in 1..Len(inner) PROVE SubSeq(inner \o mark, k, k + n - 1) # mark
  <2>1. PICK j, jn, kn, w : /\ j = i + n + k - 1 /\ jn = j + n - 1 /\ kn = k + n - 1
                            /\ w = inner \o mark
    OBVIOUS
  <2>2. /\ j \in (i + n)..(end - 1) /\ jn - j + 1 = n /\ kn - k + 1 = n
        /\ 1 <= j /\ j <= jn /\ jn <= Len(s) /\ 1 <= k /\ k <= kn /\ kn <= end - i
        /\ j \in Int /\ jn \in Int /\ k \in Int /\ kn \in Int
    <3>1. n \in Nat /\ n > 0 /\ k \in 1..(end - i - n) BY <1>0, <1>3, <1>4
    <3>2. end \in (i + n)..(Len(s) - n + 1) BY <1>2, <1>3
    <3>3. end \in Int /\ i + n <= end /\ end <= Len(s) - n + 1 BY <1>0, <3>1, <3>2
    <3>4. k \in Int /\ 1 <= k /\ k <= end - i - n BY <3>1, <3>3
    <3>5. j \in (i + n)..(end - 1) /\ j \in Int /\ jn \in Int /\ kn \in Int
      BY <2>1, <3>1, <3>3, <3>4
    <3>6. jn - j + 1 = n /\ kn - k + 1 = n BY <2>1, <3>1, <3>4, <3>5
    <3>7. 1 <= j /\ j <= jn /\ jn <= Len(s) BY <1>0, <2>1, <3>1, <3>3, <3>4
    <3>8. k <= kn /\ kn <= end - i BY <2>1, <3>1, <3>3, <3>4
    <3> QED BY <3>4, <3>5, <3>6, <3>7, <3>8
  <2>3. /\ SubSeq(s, j, jn) \in Text /\ Len(SubSeq(s, j, jn)) = n
        /\ \A x \in 1..n : SubSeq(s, j, jn)[x] = s[j + x - 1]
    <3>1. j \in Int /\ jn \in Int /\ 1 <= j /\ j <= jn /\ jn <= Len(s) BY <2>2
    <3>2. jn - j + 1 = n BY <2>2
    <3>3. /\ SubSeq(s, j, jn) \in Text /\ Len(SubSeq(s, j, jn)) = jn - j + 1
          /\ \A x \in 1..(jn - j + 1) : SubSeq(s, j, jn)[x] = s[j + x - 1]
      BY <3>1, SubText
    <3> QED BY <3>2, <3>3
  <2>4. /\ SubSeq(w, k, kn) \in Text /\ Len(SubSeq(w, k, kn)) = n
        /\ \A x \in 1..n : SubSeq(w, k, kn)[x] = w[k + x - 1]
    <3>1. w \in Text /\ kn <= Len(w) BY <1>5, <2>1, <2>2
    <3>2. k \in Int /\ kn \in Int /\ 1 <= k /\ k <= kn /\ kn - k + 1 = n BY <2>2
    <3>3. /\ SubSeq(w, k, kn) \in Text /\ Len(SubSeq(w, k, kn)) = kn - k + 1
          /\ \A x \in 1..(kn - k + 1) : SubSeq(w, k, kn)[x] = w[k + x - 1]
      BY <3>1, <3>2, SubText
    <3> QED BY <3>2, <3>3
  <2>5. ASSUME NEW x \in 1..n PROVE w[k + x - 1] = s[j + x - 1]
    <3>1. k + x - 1 \in 1..(end - i) BY <1>0, <1>2, <1>3, <1>4
    <3>2. i + n + (k + x - 1) - 1 = j + x - 1 BY <1>0, <1>2, <1>3, <2>1
    <3> QED BY <1>5, <2>1, <3>1, <3>2
  <2>6. SubSeq(w, k, kn) = SubSeq(s, j, jn) BY <2>3, <2>4, <2>5, TextEqual
  <2>7. SubSeq(s, j, jn) # mark BY <1>2, <1>3, <2>1, <2>2
  <2> QED BY <2>1, <2>6, <2>7
<1>7. end + n \in (i + 1)..(Len(s) + 1) BY <1>0, <1>2, <1>3
<1>8. Unclosed(inner, mark) BY <1>3, <1>6 DEF Unclosed
<1> QED BY <1>1, <1>3, <1>4, <1>7, <1>8, CatEmpty

LEMMA LinkIs ==
    ASSUME NEW s \in Text, NEW i \in 1..Len(s), NEW span \in Link(s, i)
    PROVE  /\ span.kind = "link" /\ span.inner \in Text /\ span.url \in Text
           /\ span.next \in (i + 1)..(Len(s) + 1)
<1>1. PICK bracket, paren :
        /\ bracket = Index(s, i + 1, <<"]">>) /\ paren = Index(s, bracket + 2, <<")">>)
        /\ bracket # 0 /\ paren # 0
        /\ span = [kind |-> "link", inner |-> SubSeq(s, i + 1, bracket - 1),
                   url |-> SubSeq(s, bracket + 2, paren - 1), next |-> paren + 1]
  BY DEF Link
<1>2. Len(s) \in Nat BY TextLen
<1>3. bracket \in (i + 1)..Len(s)
  <2>1. i + 1 \in Nat /\ i + 1 >= 1 BY <1>2
  <2>2. PICK mark : mark = <<"]">> /\ mark \in Text /\ Len(mark) = 1 BY MarksAreTexts
  <2>3. bracket = Index(s, i + 1, mark) /\ bracket # 0 BY <1>1, <2>2
  <2>4. bracket \in (i + 1)..(Len(s) - Len(mark) + 1) BY <2>1, <2>2, <2>3, IndexIs
  <2> QED BY <1>2, <2>2, <2>4
<1>4. paren \in (bracket + 2)..Len(s)
  <2>1. bracket + 2 \in Nat /\ bracket + 2 >= 1 BY <1>2, <1>3
  <2>2. PICK mark : mark = <<")">> /\ mark \in Text /\ Len(mark) = 1 BY MarksAreTexts
  <2>3. paren = Index(s, bracket + 2, mark) /\ paren # 0 BY <1>1, <2>2
  <2>4. paren \in (bracket + 2)..(Len(s) - Len(mark) + 1) BY <2>1, <2>2, <2>3, IndexIs
  <2> QED BY <1>2, <2>2, <2>4
<1>5. SubSeq(s, i + 1, bracket - 1) \in Text /\ SubSeq(s, bracket + 2, paren - 1) \in Text
  BY <1>2, <1>3, <1>4, SubText
<1>6. paren + 1 \in (i + 1)..(Len(s) + 1) BY <1>2, <1>3, <1>4
<1> QED BY <1>1, <1>5, <1>6

LEMMA SpanAtIs ==
    ASSUME NEW s \in Text, NEW i \in 1..Len(s), NEW links
    PROVE  /\ IsSpan(SpanAt(s, i, links))
           /\ SpanAt(s, i, links).next \in (i + 1)..(Len(s) + 1)
           /\ SpanAt(s, i, links).kind = "link" => links
<1>1. PICK block, code, bold, link, plain :
        /\ block = Enclosed(s, i, Fence, "block") /\ code = Enclosed(s, i, Tick, "code")
        /\ bold = Enclosed(s, i, Stars, "bold")
        /\ link = (IF links THEN Link(s, i) ELSE {}) /\ plain = Plain(s, i)
  OBVIOUS
<1>2. PICK tries : tries = <<block, code, bold, link, plain>> OBVIOUS
<1>3. PICK k : k = SelectInSeq(tries, LAMBDA t : t # {}) OBVIOUS
<1>4. SpanAt(s, i, links) = CHOOSE span \in tries[k] : TRUE
  BY <1>1, <1>2, <1>3 DEF SpanAt
<1>5. k \in 1..5 /\ tries[k] # {}
  <2> DEFINE I == {j \in 1..Len(tries) : tries[j] # {}}
  <2>1. Len(tries) = 5 /\ tries[5] = plain /\ plain # {} BY <1>1, <1>2 DEF Plain
  <2>2. 5 \in I /\ I \in SUBSET Nat BY <2>1
  <2>3. k = Min(I) BY <1>3, <2>2 DEF SelectInSeq
  <2>4. k \in I BY <2>2, <2>3, LeastIs
  <2> QED BY <2>1, <2>4
<1>6. PICK span : span = SpanAt(s, i, links) /\ span \in tries[k] BY <1>4, <1>5
<1>7. \/ span \in block \/ span \in code \/ span \in bold \/ span \in link \/ span \in plain
  <2>1. k = 1 \/ k = 2 \/ k = 3 \/ k = 4 \/ k = 5 BY <1>5
  <2> QED BY <1>2, <1>6, <2>1
<1>8. Len(s) \in Nat /\ s[i] \in Chars /\ <<>> \in Text BY TextLen, CatEmpty
<1> DEFINE Fits == IsSpan(span) /\ span.next \in (i + 1)..(Len(s) + 1)
                   /\ (span.kind = "link" => links)
<1>9. CASE span \in block
  <2>1. PICK kind : kind = "block" OBVIOUS
  <2>2. span \in Enclosed(s, i, Fence, kind) /\ Fence \in Text /\ Len(Fence) > 0
    BY <1>1, <1>9, <2>1, MarksAreTexts
  <2>3. /\ span.kind = kind /\ span.inner \in Text /\ span.url \in Text
        /\ span.next \in (i + 1)..(Len(s) + 1) /\ Unclosed(span.inner, Fence)
    BY <2>2, EnclosedIs
  <2>4. Fits BY <2>1, <2>3 DEF IsSpan
  <2> QED BY <1>6, <2>4
<1>10. CASE span \in code
  <2>1. PICK kind : kind = "code" OBVIOUS
  <2>2. span \in Enclosed(s, i, Tick, kind) /\ Tick \in Text /\ Len(Tick) > 0
    BY <1>1, <1>10, <2>1, MarksAreTexts
  <2>3. /\ span.kind = kind /\ span.inner \in Text /\ span.url \in Text
        /\ span.next \in (i + 1)..(Len(s) + 1) /\ Unclosed(span.inner, Tick)
    BY <2>2, EnclosedIs
  <2>4. Fits BY <2>1, <2>3 DEF IsSpan
  <2> QED BY <1>6, <2>4
<1>11. CASE span \in bold
  <2>1. PICK kind : kind = "bold" OBVIOUS
  <2>2. span \in Enclosed(s, i, Stars, kind) /\ Stars \in Text /\ Len(Stars) > 0
    BY <1>1, <1>11, <2>1, MarksAreTexts
  <2>3. /\ span.kind = kind /\ span.inner \in Text /\ span.url \in Text
        /\ span.next \in (i + 1)..(Len(s) + 1) /\ Unclosed(span.inner, Stars)
    BY <2>2, EnclosedIs
  <2>4. Fits BY <2>1, <2>3 DEF IsSpan
  <2> QED BY <1>6, <2>4
<1>12. CASE span \in link
  <2>1. /\ span.kind = "link" /\ span.inner \in Text /\ span.url \in Text
        /\ span.next \in (i + 1)..(Len(s) + 1) /\ links
    BY <1>1, <1>12, LinkIs
  <2>2. Fits BY <1>8, <2>1 DEF IsSpan
  <2> QED BY <1>6, <2>2
<1>13. CASE span \in plain
  <2>1. span = [kind |-> "plain", inner |-> <<s[i]>>, url |-> <<>>, next |-> i + 1]
    BY <1>1, <1>13 DEF Plain
  <2>2. <<s[i]>> \in Text /\ Len(<<s[i]>>) = 1 BY <1>8, OneText
  <2>3. i + 1 \in (i + 1)..(Len(s) + 1) BY <1>8
  <2>4. Fits BY <1>8, <2>1, <2>2, <2>3 DEF IsSpan
  <2> QED BY <1>6, <2>4
<1> QED BY <1>7, <1>9, <1>10, <1>11, <1>12, <1>13

\* Every span of a text is one that begins somewhere in it.
LEMMA SpansAre ==
    ASSUME NEW s \in Text, NEW links
    PROVE  Spans(s, links) \in Seq({SpanAt(s, i, links) : i \in 1..Len(s)})
<1> DEFINE X == {SpanAt(s, i, links) : i \in 1..Len(s)}
           P(from) == from =
             [i \in 1..(Len(s) + 1) |->
                IF i > Len(s) THEN <<>>
                ELSE LET span == SpanAt(s, i, links) IN <<span>> \o from[span.next]]
<1>1. Len(s) \in Nat BY TextLen
<1>2. PICK D, ends, head, next, rank :
        /\ D = 1..(Len(s) + 1) /\ ends = {Len(s) + 1}
        /\ head = [i \in D |-> IF i > Len(s) THEN <<>> ELSE <<SpanAt(s, i, links)>>]
        /\ next = [i \in D |-> SpanAt(s, i, links).next]
        /\ rank = [i \in D |-> Len(s) + 1 - i]
  OBVIOUS
<1>3. ASSUME NEW i \in D \ ends PROVE next[i] \in D /\ rank[next[i]] < rank[i]
  <2>1. i \in 1..Len(s) BY <1>1, <1>2
  <2>2. next[i] \in (i + 1)..(Len(s) + 1) BY <1>2, <2>1, SpanAtIs
  <2> QED BY <1>1, <1>2, <2>1, <2>2
<1>4. Descends(D, ends, D, head, next, rank, Len(s))
  <2>1. \A i \in D : rank[i] \in 0..Len(s) BY <1>1, <1>2
  <2> QED BY <1>1, <1>3, <2>1 DEF Descends
<1>5. PICK f : /\ FunctionOn(D, f)
               /\ \A i \in D : f[i] = Chained(ends, D, head, next, f, i)
  BY <1>4, ChainExists
<1>6. ASSUME NEW i \in 1..(Len(s) + 1)
      PROVE  f[i] = IF i > Len(s) THEN <<>>
                    ELSE LET span == SpanAt(s, i, links) IN <<span>> \o f[span.next]
  <2>1. i \in ends <=> i > Len(s) BY <1>1, <1>2
  <2> QED BY <1>2, <1>5, <2>1 DEF Chained
<1>7. P(f) BY <1>2, <1>5, <1>6 DEF FunctionOn
<1>8. P(CHOOSE g : P(g)) BY <1>7
<1>9. Spans(s, links) = (CHOOSE g : P(g))[1] BY DEF Spans
<1>10. PICK from : P(from) /\ Spans(s, links) = from[1] BY <1>8, <1>9
<1>11. \A i \in 1..(Len(s) + 1) :
         from[i] = IF i > Len(s) THEN <<>>
                   ELSE <<SpanAt(s, i, links)>> \o from[SpanAt(s, i, links).next]
  BY <1>10
<1> DEFINE Q == {i \in 1..(Len(s) + 1) : from[i] \in Seq(X)}
<1>12. ASSUME NEW i \in 1..(Len(s) + 1), \A j \in (i + 1)..(Len(s) + 1) : j \in Q
       PROVE  i \in Q
  <2>1. CASE i > Len(s)
    <3>1. from[i] = <<>> BY <1>11, <2>1
    <3> QED BY <3>1, EmptySeq
  <2>2. CASE ~(i > Len(s))
    <3>1. i \in 1..Len(s) BY <1>1, <2>2
    <3>2. PICK x, r : x = SpanAt(s, i, links) /\ r = from[x.next] OBVIOUS
    <3>3. x \in X BY <3>1, <3>2
    <3>4. r \in Seq(X) BY <1>12, <3>1, <3>2, SpanAtIs
    <3>5. from[i] = <<x>> \o r BY <1>11, <2>2, <3>2
    <3>6. <<x>> \in Seq(X) BY <3>3
    <3> HIDE DEF X
    <3>7. <<x>> \o r \in Seq(X) BY <3>4, <3>6, ConcatProperties
    <3> QED BY <3>5, <3>7
  <2> QED BY <2>1, <2>2
<1>13. \A i \in 1..(Len(s) + 1) : i \in Q
  <2> HIDE DEF Q
  <2> QED BY <1>1, <1>12, FromTheEnd
<1>14. 1 \in 1..(Len(s) + 1) BY <1>1
<1>15. from[1] \in Seq(X) BY <1>13, <1>14
<1> QED BY <1>10, <1>15

LEMMA CharsAre ==
    /\ "~" \in Chars /\ "*" \in Chars /\ "[" \in Chars /\ "]" \in Chars /\ "(" \in Chars
    /\ ")" \in Chars /\ "<" \in Chars /\ "|" \in Chars /\ ">" \in Chars
    /\ "\\" \in Chars /\ "broken" \in Chars
  BY DEF Chars

\* What stripDataURIs leaves is a text.
LEMMA StripIs ==
    ASSUME NEW s \in Text
    PROVE  StripDataURIs(s) \in Text
<1> DEFINE AsLink(i) == {l \in Link(s, i) : Len(l.url) > 1 /\ l.url[1] = "d"}
           P(from) == from =
             [i \in 1..(Len(s) + 1) |->
                CASE i > Len(s) -> <<>>
                  [] i <= Len(s) /\ AsLink(i) = {} -> <<s[i]>> \o from[i + 1]
                  [] OTHER ->
                        LET link == CHOOSE l \in AsLink(i) : TRUE
                        IN  <<"[">> \o link.inner \o <<"]">> \o from[link.next]]
           link(i) == CHOOSE l \in AsLink(i) : TRUE
<1>1. Len(s) \in Nat BY TextLen
<1>2. PICK D, ends, head, next, rank :
        /\ D = 1..(Len(s) + 1) /\ ends = {Len(s) + 1}
        /\ head = [i \in D |-> IF i > Len(s) THEN <<>>
                               ELSE IF AsLink(i) = {} THEN <<s[i]>>
                               ELSE <<"[">> \o link(i).inner \o <<"]">>]
        /\ next = [i \in D |-> IF AsLink(i) = {} THEN i + 1 ELSE link(i).next]
        /\ rank = [i \in D |-> Len(s) + 1 - i]
  OBVIOUS
<1>3. ASSUME NEW i \in 1..Len(s), AsLink(i) # {}
      PROVE  link(i).inner \in Text /\ link(i).next \in (i + 1)..(Len(s) + 1)
  <2>1. link(i) \in AsLink(i) BY <1>3
  <2>2. PICK l : l = link(i) /\ l \in Link(s, i) BY <2>1
  <2>3. l.inner \in Text /\ l.next \in (i + 1)..(Len(s) + 1) BY <2>2, LinkIs
  <2> QED BY <2>2, <2>3
<1> HIDE DEF AsLink, link
<1>4. ASSUME NEW i \in D \ ends PROVE next[i] \in D /\ rank[next[i]] < rank[i]
  <2>1. i \in 1..Len(s) BY <1>1, <1>2
  <2>2. next[i] \in (i + 1)..(Len(s) + 1) BY <1>1, <1>2, <1>3, <2>1
  <2> QED BY <1>1, <1>2, <2>1, <2>2
<1>5. Descends(D, ends, D, head, next, rank, Len(s))
  <2>1. \A i \in D : rank[i] \in 0..Len(s) BY <1>1, <1>2
  <2> QED BY <1>1, <1>4, <2>1 DEF Descends
<1>6. PICK f : /\ FunctionOn(D, f)
               /\ \A i \in D : f[i] = Chained(ends, D, head, next, f, i)
  BY <1>5, ChainExists
<1> DEFINE Body(g, i) ==
             CASE i > Len(s) -> <<>>
               [] i <= Len(s) /\ AsLink(i) = {} -> <<s[i]>> \o g[i + 1]
               [] OTHER -> <<"[">> \o link(i).inner \o <<"]">> \o g[link(i).next]
<1>a. ASSUME NEW g, NEW i \in 1..(Len(s) + 1), i > Len(s) PROVE Body(g, i) = <<>>
  BY <1>a
<1>b. ASSUME NEW g, NEW i \in 1..Len(s), AsLink(i) = {}
       PROVE  Body(g, i) = <<s[i]>> \o g[i + 1]
  <2>1. ~(i > Len(s)) /\ i <= Len(s) BY <1>1
  <2> QED BY <1>b, <2>1
<1>c. ASSUME NEW g, NEW i \in 1..Len(s), AsLink(i) # {}
       PROVE  Body(g, i) = <<"[">> \o link(i).inner \o <<"]">> \o g[link(i).next]
  <2>1. ~(i > Len(s)) BY <1>1
  <2> QED BY <1>c, <2>1
<1>7. ASSUME NEW i \in 1..(Len(s) + 1) PROVE f[i] = Body(f, i)
  <2> HIDE DEF Body
  <2>1. i \in ends <=> i > Len(s) BY <1>1, <1>2
  <2>2. CASE i > Len(s)
    <3>1. f[i] = head[i] /\ head[i] = <<>> BY <1>2, <1>6, <2>1, <2>2 DEF Chained
    <3> QED BY <1>a, <2>2, <3>1
  <2>3. CASE ~(i > Len(s)) /\ AsLink(i) = {}
    <3>1. head[i] = <<s[i]>> /\ next[i] = i + 1 /\ i \in 1..Len(s) BY <1>1, <1>2, <2>3
    <3>2. f[i] = head[i] \o f[next[i]] BY <1>2, <1>6, <2>1, <2>3 DEF Chained
    <3> QED BY <1>b, <2>3, <3>1, <3>2
  <2>4. CASE ~(i > Len(s)) /\ AsLink(i) # {}
    <3>1. /\ head[i] = <<"[">> \o link(i).inner \o <<"]">> /\ next[i] = link(i).next
          /\ i \in 1..Len(s)
      BY <1>1, <1>2, <2>4
    <3>2. f[i] = head[i] \o f[next[i]] BY <1>2, <1>6, <2>1, <2>4 DEF Chained
    <3> QED BY <1>c, <2>4, <3>1, <3>2
  <2> QED BY <2>2, <2>3, <2>4
<1>8. P(f) BY <1>2, <1>6, <1>7 DEF FunctionOn, link
<1>9. P(CHOOSE g : P(g)) BY <1>8
<1>10. StripDataURIs(s) = (CHOOSE g : P(g))[1] BY DEF StripDataURIs, AsLink
<1>11. PICK from : P(from) /\ StripDataURIs(s) = from[1] BY <1>9, <1>10
<1>12. \A i \in 1..(Len(s) + 1) : from[i] = Body(from, i) BY <1>11 DEF link
<1> HIDE DEF Body
<1> DEFINE Q == {i \in 1..(Len(s) + 1) : from[i] \in Text}
<1>13. ASSUME NEW i \in 1..(Len(s) + 1), \A j \in (i + 1)..(Len(s) + 1) : j \in Q
       PROVE  i \in Q
  <2>1. CASE i > Len(s)
    <3>1. from[i] = <<>> BY <1>12, <1>a, <2>1
    <3> QED BY <3>1, CatEmpty
  <2>2. CASE ~(i > Len(s)) /\ AsLink(i) = {}
    <3>1. i \in 1..Len(s) /\ i + 1 \in (i + 1)..(Len(s) + 1) BY <1>1, <2>2
    <3>2. from[i] = <<s[i]>> \o from[i + 1] BY <1>12, <1>b, <2>2, <3>1
    <3>3. <<s[i]>> \in Text /\ from[i + 1] \in Text BY <1>13, <3>1, TextLen, OneText
    <3>4. <<s[i]>> \o from[i + 1] \in Text BY <3>3, CatType
    <3> QED BY <3>2, <3>4
  <2>3. CASE ~(i > Len(s)) /\ AsLink(i) # {}
    <3>1. i \in 1..Len(s) BY <1>1, <2>3
    <3>2. PICK x, r, a, b : /\ x = link(i).inner /\ r = from[link(i).next]
                            /\ a = <<"[">> /\ b = <<"]">>
      OBVIOUS
    <3>3. from[i] = a \o x \o b \o r BY <1>12, <1>c, <2>3, <3>1, <3>2
    <3>4. x \in Text /\ r \in Text BY <1>3, <1>13, <2>3, <3>1, <3>2
    <3>5. a \in Text /\ b \in Text BY <3>2, CharsAre, OneText
    <3>6. a \o x \in Text BY <3>4, <3>5, CatType
    <3>7. a \o x \o b \in Text BY <3>5, <3>6, CatType
    <3>8. a \o x \o b \o r \in Text BY <3>4, <3>7, CatType
    <3> QED BY <3>3, <3>8
  <2> QED BY <2>1, <2>2, <2>3
<1>14. \A i \in 1..(Len(s) + 1) : i \in Q
  <2> HIDE DEF Q
  <2> QED BY <1>1, <1>13, FromTheEnd
<1>15. 1 \in 1..(Len(s) + 1) BY <1>1
<1> QED BY <1>11, <1>14, <1>15

----------------------------------------------------------------------------
(* How a channel reads.                                                    *)

LEMMA AtFence ==
    ASSUME NEW s \in Text, NEW i \in 1..Len(s)
    PROVE  At(s, i, Fence) <=>
              i + 2 <= Len(s) /\ s[i] = "~" /\ s[i + 1] = "~" /\ s[i + 2] = "~"
<1>1. Len(s) \in Nat /\ Fence \in Text /\ Len(Fence) = 3 BY TextLen, MarksAreTexts
<1>2. PICK e : e = i + 2 OBVIOUS
<1>3. i + Len(Fence) - 1 = e /\ e - i + 1 = 3 /\ e \in Nat BY <1>1, <1>2
<1>4. ASSUME e <= Len(s)
      PROVE  SubSeq(s, i, e) = Fence <=>
                s[i] = "~" /\ s[i + 1] = "~" /\ s[i + 2] = "~"
  <2>1. /\ SubSeq(s, i, e) \in Text /\ Len(SubSeq(s, i, e)) = 3
        /\ \A x \in 1..3 : SubSeq(s, i, e)[x] = s[i + x - 1]
    BY <1>1, <1>3, <1>4, SubText
  <2>2. SubSeq(s, i, e) = Fence <=> \A x \in 1..3 : s[i + x - 1] = "~"
    <3>1. ASSUME \A x \in 1..3 : s[i + x - 1] = "~" PROVE SubSeq(s, i, e) = Fence
      <4>1. \A x \in 1..3 : SubSeq(s, i, e)[x] = Fence[x] BY <2>1, <3>1, MarksAreTexts
      <4> QED BY <1>1, <2>1, <4>1, TextEqual
    <3>2. ASSUME SubSeq(s, i, e) = Fence PROVE \A x \in 1..3 : s[i + x - 1] = "~"
      BY <2>1, <3>2, MarksAreTexts
    <3> QED BY <3>1, <3>2
  <2>3. i + 1 - 1 = i /\ i + 2 - 1 = i + 1 /\ i + 3 - 1 = i + 2 OBVIOUS
  <2>4. \A x \in 1..3 : x = 1 \/ x = 2 \/ x = 3 OBVIOUS
  <2>5. 1 \in 1..3 /\ 2 \in 1..3 /\ 3 \in 1..3 OBVIOUS
  <2> QED BY <2>2, <2>3, <2>4, <2>5
<1>5. At(s, i, Fence) <=> e <= Len(s) /\ SubSeq(s, i, e) = Fence
  <2> DEFINE j == Index(s, i, Fence)
             hits == {k \in i..(Len(s) - Len(Fence) + 1) :
                         SubSeq(s, k, k + Len(Fence) - 1) = Fence}
  <2>1. ASSUME e <= Len(s), SubSeq(s, i, e) = Fence PROVE j = i
    <3>1. i \in hits BY <1>1, <1>2, <1>3, <2>1
    <3>2. hits \in SUBSET Nat BY <1>1
    <3>3. j = Min(hits) BY <3>1 DEF Index
    <3>4. Min(hits) \in hits /\ Min(hits) <= i BY <3>1, <3>2, LeastIs
    <3>5. Min(hits) \in Nat /\ Min(hits) >= i BY <1>1, <3>4
    <3> QED BY <3>3, <3>4, <3>5
  <2>2. ASSUME j = i PROVE e <= Len(s) /\ SubSeq(s, i, e) = Fence
    <3>1. hits # {} BY <2>2 DEF Index
    <3>2. hits \in SUBSET Nat BY <1>1
    <3>3. j = Min(hits) BY <3>1 DEF Index
    <3>4. i \in hits BY <2>2, <3>1, <3>2, <3>3, LeastIs
    <3> QED BY <1>1, <1>2, <1>3, <3>4
  <2> QED BY <2>1, <2>2 DEF At
<1> QED BY <1>2, <1>4, <1>5

\* The steps, mode by mode.
Step(shows, next, mode) == [shows |-> shows, next |-> next, mode |-> mode]

LEMMA StepInside ==
    ASSUME NEW channel, NEW s \in Text, NEW i \in 1..Len(s), NEW mode,
           mode \in {"block", "code"}
    PROVE  LET r == ReadsAt(channel, s, i, mode)
               ends == IF mode = "block" THEN At(s, i, Fence) ELSE s[i] = "~"
               escapes == channel = "telegram" /\ s[i] = "\\"
           IN  /\ ends /\ mode = "block" => r = Step(<<>>, i + 3, "plain")
               /\ ends /\ mode = "code" => r = Step(<<>>, i + 1, "plain")
               /\ ~ends /\ ~escapes => r = Step(<<s[i]>>, i + 1, mode)
               /\ escapes /\ i = Len(s) => r = Step(<<Broken>>, i + 1, "plain")
               /\ escapes /\ i # Len(s) => r = Step(<<s[i + 1]>>, i + 2, mode)
<1>1. At(s, i, Fence) => s[i] = "~" BY AtFence
<1>2. CASE mode = "block" BY <1>1, <1>2 DEF ReadsAt, Step
<1>3. CASE mode = "code" BY <1>1, <1>3 DEF ReadsAt, Step
<1> QED BY <1>2, <1>3

LEMMA StepInLink ==
    ASSUME NEW channel, NEW s \in Text, NEW i \in 1..Len(s), NEW mode,
           mode \in {"url", "link"}
    PROVE  LET r == ReadsAt(channel, s, i, mode)
           IN  /\ mode = "url" /\ s[i] = "|" => r = Step(<<>>, i + 1, "link")
               /\ mode = "url" /\ s[i] # "|" => r = Step(<<>>, i + 1, "url")
               /\ mode = "link" /\ s[i] = ">" => r = Step(<<>>, i + 1, "plain")
               /\ mode = "link" /\ s[i] # ">" => r = Step(<<s[i]>>, i + 1, "link")
<1>1. CASE mode = "url" BY <1>1 DEF ReadsAt, Step
<1>2. CASE mode = "link" BY <1>2 DEF ReadsAt, Step
<1> QED BY <1>1, <1>2

LEMMA StepOutside ==
    ASSUME NEW channel, NEW s \in Text, NEW i \in 1..Len(s), NEW mode,
           mode \in {"plain", "bold"}
    PROVE  LET r == ReadsAt(channel, s, i, mode)
               strict == channel = "telegram"
           IN  /\ strict /\ s[i] = "\\" /\ i = Len(s) =>
                    r = Step(<<Broken>>, i + 1, "plain")
               /\ strict /\ s[i] = "\\" /\ i # Len(s) =>
                    r = Step(<<s[i + 1]>>, i + 2, mode)
               /\ s[i] = "*" =>
                    r = Step(<<>>, i + 1, IF mode = "bold" THEN "plain" ELSE "bold")
               /\ mode = "plain" /\ At(s, i, Fence) => r = Step(<<>>, i + 3, "block")
               /\ mode = "plain" /\ s[i] = "~" /\ ~At(s, i, Fence) =>
                    r = Step(<<>>, i + 1, "code")
               /\ mode = "plain" /\ ~strict /\ s[i] = "<" => r = Step(<<>>, i + 1, "url")
               /\ strict /\ s[i] \in Special \ {"*", "\\"} =>
                    r = Step(<<Broken>>, i + (Len(s) + 1 - i), "plain")
               /\ /\ strict => s[i] \notin Special
                  /\ s[i] # "*" /\ (mode = "plain" => s[i] # "~")
                  /\ mode = "plain" /\ ~strict => s[i] # "<"
                  => r = Step(<<s[i]>>, i + 1, mode)
<1>1. At(s, i, Fence) => s[i] = "~" BY AtFence
<1>2. CASE mode = "plain" BY <1>1, <1>2 DEF ReadsAt, Step, Special
<1>3. CASE mode = "bold" BY <1>1, <1>3 DEF ReadsAt, Step, Special
<1> QED BY <1>2, <1>3

\* One step goes forward and stays in the modes.
LEMMA ReadsAtIs ==
    ASSUME NEW channel, NEW s \in Text, NEW i \in 1..Len(s), NEW mode \in Modes
    PROVE  LET r == ReadsAt(channel, s, i, mode) IN
           /\ r.shows \in Text /\ r.mode \in Modes
           /\ r.next \in (i + 1)..(Len(s) + 3)
<1>1. Len(s) \in Nat BY TextLen
<1>2. /\ <<>> \in Text /\ <<Broken>> \in Text /\ <<s[i]>> \in Text
      /\ i # Len(s) => <<s[i + 1]>> \in Text
  BY <1>1, CatEmpty, OneText, TextLen, CharsAre DEF Broken
<1> DEFINE r == ReadsAt(channel, s, i, mode)
           Fits(x) == /\ x.shows \in Text /\ x.mode \in Modes
                      /\ x.next \in (i + 1)..(Len(s) + 3)
<1>3. ASSUME NEW shows \in Text, NEW next \in (i + 1)..(Len(s) + 3), NEW to \in Modes
      PROVE  Fits(Step(shows, next, to))
  BY DEF Step
<1>4. /\ i + 1 \in (i + 1)..(Len(s) + 3) /\ i + 3 \in (i + 1)..(Len(s) + 3)
      /\ i + (Len(s) + 1 - i) \in (i + 1)..(Len(s) + 3)
      /\ i # Len(s) => i + 2 \in (i + 1)..(Len(s) + 3)
  BY <1>1
<1>5. {"plain", "bold", "code", "block", "url", "link"} \subseteq Modes BY DEF Modes
<1> HIDE DEF Fits
<1>6. ASSUME mode \in {"block", "code"} PROVE Fits(r)
  <2>1. \/ r = Step(<<>>, i + 3, "plain") \/ r = Step(<<>>, i + 1, "plain")
        \/ r = Step(<<s[i]>>, i + 1, mode) \/ r = Step(<<Broken>>, i + 1, "plain")
        \/ i # Len(s) /\ r = Step(<<s[i + 1]>>, i + 2, mode)
    <3>1. CASE mode = "block" BY <3>1, StepInside
    <3>2. CASE mode = "code" BY <3>2, StepInside
    <3> QED BY <1>6, <3>1, <3>2
  <2> HIDE DEF r
  <2> QED BY <1>2, <1>3, <1>4, <1>5, <2>1
<1>7. ASSUME mode \in {"url", "link"} PROVE Fits(r)
  <2>1. \/ r = Step(<<>>, i + 1, "link") \/ r = Step(<<>>, i + 1, "url")
        \/ r = Step(<<>>, i + 1, "plain") \/ r = Step(<<s[i]>>, i + 1, "link")
    BY <1>7, StepInLink
  <2> HIDE DEF r
  <2> QED BY <1>2, <1>3, <1>4, <1>5, <2>1
<1>8. ASSUME mode \in {"plain", "bold"} PROVE Fits(r)
  <2>1. \/ r = Step(<<Broken>>, i + 1, "plain")
        \/ i # Len(s) /\ r = Step(<<s[i + 1]>>, i + 2, mode)
        \/ \E to \in {"plain", "bold"} : r = Step(<<>>, i + 1, to)
        \/ r = Step(<<>>, i + 3, "block") \/ r = Step(<<>>, i + 1, "code")
        \/ r = Step(<<>>, i + 1, "url")
        \/ r = Step(<<Broken>>, i + (Len(s) + 1 - i), "plain")
        \/ r = Step(<<s[i]>>, i + 1, mode)
    <3>1. (IF mode = "bold" THEN "plain" ELSE "bold") \in {"plain", "bold"} OBVIOUS
    <3> QED BY <1>8, <3>1, StepOutside
  <2> HIDE DEF r
  <2> QED BY <1>2, <1>3, <1>4, <1>5, <2>1
<1>9. Fits(r) BY <1>6, <1>7, <1>8 DEF Modes
<1> QED BY <1>9 DEF Fits

Places(s) == (1..(Len(s) + 3)) \X Modes

ReadFrom(channel, s, read, i, mode) ==
    IF i > Len(s)
      THEN IF mode = "plain" \/ channel # "telegram" THEN <<>> ELSE <<Broken>>
      ELSE ReadsAt(channel, s, i, mode).shows
             \o read[<<ReadsAt(channel, s, i, mode).next, ReadsAt(channel, s, i, mode).mode>>]

\* What the channel shows of s from a place on.
Read(channel, s) ==
    CHOOSE read : read = [p \in Places(s) |-> ReadFrom(channel, s, read, p[1], p[2])]

LEMMA ReadUnfolds ==
    ASSUME NEW channel, NEW s \in Text
    PROVE  /\ \A i \in 1..(Len(s) + 3), mode \in Modes :
                Read(channel, s)[<<i, mode>>] =
                    ReadFrom(channel, s, Read(channel, s), i, mode)
           /\ Reads(channel, s) = Read(channel, s)[<<1, "plain">>]
<1> DEFINE P(read) == read = [p \in Places(s) |-> ReadFrom(channel, s, read, p[1], p[2])]
           go(p) == ReadsAt(channel, s, p[1], p[2])
<1>1. Len(s) \in Nat BY TextLen
<1>2. PICK D, ends, head, next, rank :
        /\ D = Places(s) /\ ends = {p \in D : p[1] > Len(s)}
        /\ head = [p \in D |->
              IF p[1] > Len(s)
                THEN IF p[2] = "plain" \/ channel # "telegram" THEN <<>> ELSE <<Broken>>
                ELSE go(p).shows]
        /\ next = [p \in D |-> <<go(p).next, go(p).mode>>]
        /\ rank = [p \in D |-> Len(s) + 3 - p[1]]
  OBVIOUS
<1>3. \A p \in D : p[1] \in 1..(Len(s) + 3) /\ p[2] \in Modes /\ p = <<p[1], p[2]>>
  BY <1>2 DEF Places
<1>4. ASSUME NEW p \in D \ ends PROVE next[p] \in D /\ rank[next[p]] < rank[p]
  <2>1. PICK i, mode : i = p[1] /\ mode = p[2] OBVIOUS
  <2>2. i \in 1..Len(s) /\ mode \in Modes BY <1>1, <1>2, <1>3, <2>1
  <2>3. PICK j, m : /\ j = go(p).next /\ m = go(p).mode
                    /\ j \in (i + 1)..(Len(s) + 3) /\ m \in Modes
    BY <2>1, <2>2, ReadsAtIs
  <2>4. next[p] = <<j, m>> BY <1>2, <2>3
  <2>5. j \in 1..(Len(s) + 3) BY <1>1, <2>2, <2>3
  <2>6. <<j, m>> \in D BY <1>2, <2>3, <2>5 DEF Places
  <2>7. rank[<<j, m>>] = Len(s) + 3 - j BY <1>2, <2>6
  <2>8. rank[p] = Len(s) + 3 - i BY <1>2, <2>1
  <2> QED BY <1>1, <2>2, <2>3, <2>4, <2>6, <2>7, <2>8
<1>5. Descends(D, ends, D, head, next, rank, Len(s) + 2)
  <2>1. \A p \in D : rank[p] \in 0..(Len(s) + 2) BY <1>1, <1>2, <1>3
  <2> QED BY <1>1, <1>4, <2>1 DEF Descends
<1>6. PICK f : /\ FunctionOn(D, f)
               /\ \A p \in D : f[p] = Chained(ends, D, head, next, f, p)
  BY <1>5, ChainExists
<1>7. ASSUME NEW p \in D PROVE f[p] = ReadFrom(channel, s, f, p[1], p[2])
  BY <1>2, <1>6 DEF Chained, ReadFrom
<1>8. P(f) BY <1>2, <1>6, <1>7 DEF FunctionOn
<1>9. P(Read(channel, s)) BY <1>8 DEF Read
<1>10. ASSUME NEW i \in 1..(Len(s) + 3), NEW mode \in Modes
       PROVE  Read(channel, s)[<<i, mode>>] =
                ReadFrom(channel, s, Read(channel, s), i, mode)
  <2>1. <<i, mode>> \in Places(s) BY DEF Places
  <2> QED BY <1>9, <2>1
<1>11. Reads(channel, s) = Read(channel, s)[<<1, "plain">>]
  BY DEF Reads, Read, ReadFrom, Places
<1> QED BY <1>10, <1>11

LEMMA ReadIs ==
    ASSUME NEW channel, NEW s \in Text
    PROVE  \A i \in 1..(Len(s) + 3), mode \in Modes :
                Read(channel, s)[<<i, mode>>] \in Text
<1>1. Len(s) \in Nat BY TextLen
<1> DEFINE P == {i \in 1..(Len(s) + 3) :
                    \A mode \in Modes : Read(channel, s)[<<i, mode>>] \in Text}
<1>2. PICK n \in Nat : n + 1 = Len(s) + 3
  <2>1. Len(s) + 2 \in Nat /\ (Len(s) + 2) + 1 = Len(s) + 3 BY <1>1
  <2> QED BY <2>1
<1>3. ASSUME NEW i \in 1..(n + 1), \A j \in (i + 1)..(n + 1) : j \in P
      PROVE  i \in P
  <2>1. ASSUME NEW mode \in Modes PROVE Read(channel, s)[<<i, mode>>] \in Text
    <3>1. Read(channel, s)[<<i, mode>>] =
            ReadFrom(channel, s, Read(channel, s), i, mode)
      BY <1>2, ReadUnfolds
    <3>2. CASE i > Len(s)
      <4>1. <<>> \in Text /\ <<Broken>> \in Text
        BY CatEmpty, OneText, CharsAre DEF Broken
      <4> QED BY <3>1, <3>2, <4>1 DEF ReadFrom
    <3>3. CASE ~(i > Len(s))
      <4>1. i \in 1..Len(s) BY <1>1, <3>3
      <4>2. PICK shows, next, to :
              /\ shows = ReadsAt(channel, s, i, mode).shows
              /\ next = ReadsAt(channel, s, i, mode).next
              /\ to = ReadsAt(channel, s, i, mode).mode
        OBVIOUS
      <4>3. shows \in Text /\ next \in (i + 1)..(Len(s) + 3) /\ to \in Modes
        BY <4>1, <4>2, ReadsAtIs
      <4>4. Read(channel, s)[<<next, to>>] \in Text BY <1>2, <1>3, <4>3
      <4>5. Read(channel, s)[<<i, mode>>] = shows \o Read(channel, s)[<<next, to>>]
        BY <3>1, <3>3, <4>2 DEF ReadFrom
      <4> QED BY <4>3, <4>4, <4>5, CatType
    <3> QED BY <3>2, <3>3
  <2> QED BY <1>2, <2>1
<1>4. \A i \in 1..(n + 1) : i \in P
  <2> HIDE DEF P
  <2> QED BY <1>3, FromTheEnd
<1> QED BY <1>2, <1>4

----------------------------------------------------------------------------
(* The texts and the parts a channel is sent.                              *)

LEMMA MapIs ==
    ASSUME NEW n \in Nat, NEW f, \A i \in 1..n : f[i] \in Text
    PROVE  [i \in 1..n |-> f[i]] \in Seq(Text)
  BY IsASeq

LEMMA EscapeIs ==
    ASSUME NEW s \in Text, NEW chars
    PROVE  Escape(s, chars) \in Text
<1> DEFINE f == [i \in DOMAIN s |-> IF s[i] \in chars THEN <<"\\", s[i]>> ELSE <<s[i]>>]
<1>1. Len(s) \in Nat /\ DOMAIN s = 1..Len(s) BY TextLen
<1>2. ASSUME NEW i \in 1..Len(s) PROVE <<"\\", s[i]>> \in Text /\ <<s[i]>> \in Text
  <2>1. ASSUME NEW S, NEW x \in S, NEW y \in S PROVE <<x, y>> \in Seq(S) /\ <<y>> \in Seq(S)
    OBVIOUS
  <2>2. "\\" \in Chars /\ s[i] \in Chars BY TextLen, CharsAre
  <2> QED BY <2>1, <2>2 DEF Text
<1>3. \A i \in 1..Len(s) : f[i] \in Text BY <1>1, <1>2
<1>4. f = [i \in 1..Len(s) |-> f[i]] BY <1>1
<1>5. f \in Seq(Text)
  <2> HIDE DEF f
  <2> QED BY <1>1, <1>3, <1>4, MapIs
<1> QED BY <1>5, FlattenType DEF Escape

\* The text whose spans the converter of the channel looks for.
Written(channel, s) == IF channel = "telegram" THEN s ELSE StripDataURIs(s)

Image(channel, span) == IF channel = "telegram" THEN ForTelegram(span) ELSE ForSlack(span)

\* The spans of a text, as the converter of the channel meets them.
IsSpanFor(channel, span) == IsSpan(span) /\ (span.kind = "link" => channel # "telegram")

LEMMA SpansForAre ==
    ASSUME NEW channel, NEW s \in Text
    PROVE  /\ Len(SpansFor(channel, s)) \in Nat
           /\ DOMAIN SpansFor(channel, s) = 1..Len(SpansFor(channel, s))
           /\ \A i \in 1..Len(SpansFor(channel, s)) :
                 IsSpanFor(channel, SpansFor(channel, s)[i])
<1>1. PICK t, links : /\ t = Written(channel, s) /\ links = (channel # "telegram")
                      /\ SpansFor(channel, s) = Spans(t, links)
  BY DEF SpansFor, Written
<1>2. t \in Text BY <1>1, StripIs DEF Written
<1>3. PICK spans, X : /\ spans = Spans(t, links) /\ spans \in Seq(X)
                      /\ X = {SpanAt(t, i, links) : i \in 1..Len(t)}
  BY <1>2, SpansAre
<1>4. /\ Len(spans) \in Nat /\ DOMAIN spans = 1..Len(spans)
      /\ \A i \in 1..Len(spans) : spans[i] \in X
  BY <1>3, LenProperties, ElementOfSeq
<1>5. ASSUME NEW span \in X PROVE IsSpanFor(channel, span)
  <2>1. PICK i \in 1..Len(t) : span = SpanAt(t, i, links) BY <1>3
  <2> QED BY <1>1, <1>2, <2>1, SpanAtIs DEF IsSpanFor
<1> QED BY <1>1, <1>3, <1>4, <1>5

LEMMA ImageIs ==
    ASSUME NEW channel, NEW span, IsSpanFor(channel, span)
    PROVE  Image(channel, span) \in Text
<1>1. PICK a, b, star, lt, bar, gt :
        /\ a = span.inner /\ b = span.url /\ star = <<"*">> /\ lt = <<"<">>
        /\ bar = <<"|">> /\ gt = <<">">>
  OBVIOUS
<1>2. a \in Text /\ b \in Text BY <1>1 DEF IsSpanFor, IsSpan
<1>3. star \in Text /\ lt \in Text /\ bar \in Text /\ gt \in Text
  BY <1>1, CharsAre, OneText
<1>4. Fence \in Text /\ Tick \in Text BY MarksAreTexts
<1>5. PICK e, p : e = Escape(a, BoldSafe) /\ p = Escape(a, Special) /\ e \in Text /\ p \in Text
  BY <1>2, EscapeIs
<1>6. /\ Fence \o a \o Fence \in Text /\ Tick \o a \o Tick \in Text
      /\ star \o e \o star \in Text /\ star \o a \o star \in Text
      /\ lt \o b \o bar \o a \o gt \in Text
  <2>1. ASSUME NEW x \in Text, NEW y \in Text, NEW z \in Text PROVE x \o y \o z \in Text
    <3>1. x \o y \in Text BY CatType
    <3> QED BY <3>1, CatType
  <2>2. lt \o b \o bar \in Text BY <1>2, <1>3, <2>1
  <2>3. lt \o b \o bar \o a \o gt \in Text BY <1>2, <1>3, <2>1, <2>2
  <2> QED BY <1>2, <1>3, <1>4, <1>5, <2>1, <2>3
<1>7. CASE span.kind = "block" BY <1>1, <1>6, <1>7 DEF Image, ForTelegram, ForSlack
<1>8. CASE span.kind = "code" BY <1>1, <1>6, <1>8 DEF Image, ForTelegram, ForSlack
<1>9. CASE span.kind = "bold" BY <1>1, <1>5, <1>6, <1>9 DEF Image, ForTelegram, ForSlack
<1>10. CASE span.kind = "link"
  BY <1>1, <1>6, <1>10 DEF Image, ForSlack, IsSpanFor
<1>11. CASE span.kind = "plain"
  BY <1>1, <1>2, <1>5, <1>11 DEF Image, ForTelegram, ForSlack
<1> QED BY <1>7, <1>8, <1>9, <1>10, <1>11 DEF IsSpanFor, IsSpan

\* The images of the spans of a text.
ImagesOf(channel, s) ==
    [i \in DOMAIN SpansFor(channel, s) |-> Image(channel, SpansFor(channel, s)[i])]

LEMMA ConvertedIs ==
    ASSUME NEW channel, NEW s \in Text
    PROVE  /\ ImagesOf(channel, s) \in Seq(Text)
           /\ Converted(channel, s) = FlattenSeq(ImagesOf(channel, s))
           /\ Converted(channel, s) \in Text
<1>1. PICK spans, f : /\ spans = SpansFor(channel, s)
                      /\ f = [i \in DOMAIN spans |-> Image(channel, spans[i])]
  OBVIOUS
<1>2. /\ Len(spans) \in Nat /\ DOMAIN spans = 1..Len(spans)
      /\ \A i \in 1..Len(spans) : IsSpanFor(channel, spans[i])
  BY <1>1, SpansForAre
<1>3. \A i \in 1..Len(spans) : f[i] \in Text BY <1>1, <1>2, ImageIs
<1>4. f \in Seq(Text)
  <2>1. f = [i \in 1..Len(spans) |-> f[i]] BY <1>1, <1>2
  <2> QED BY <1>2, <1>3, <2>1, MapIs
<1>5. Converted(channel, s) = FlattenSeq(f)
  BY <1>1 DEF Converted, Rewrite, SpansFor, Image
<1>6. ImagesOf(channel, s) = f BY <1>1 DEF ImagesOf
<1> QED BY <1>4, <1>5, <1>6, FlattenType

\* What is sent is one part at least, and no part is longer than the limit.
LEMMA SplitIs ==
    ASSUME NEW s \in Text, NEW limit \in Nat, limit > 1
    PROVE  /\ SplitMessage(s, limit) \in Seq({p \in Text : Len(p) <= limit})
           /\ SplitMessage(s, limit) \in Seq(Text)
           /\ Len(SplitMessage(s, limit)) > 0
<1>1. PICK Fit : Fit = {p \in Text : Len(p) <= limit} OBVIOUS
<1>2. PICK from :
        /\ \A i \in 1..(Len(s) + 1) : from[i] = PartsFrom(s, limit, from, i)
        /\ SplitMessage(s, limit) = IF Len(s) <= limit THEN <<s>> ELSE from[1]
  BY SplitUnfolds
<1>3. Len(s) \in Nat BY TextLen
<1>4. ASSUME NEW p \in Fit PROVE <<p>> \in Seq(Fit) /\ Len(<<p>>) = 1 OBVIOUS
<1>5. ASSUME NEW i \in 1..(Len(s) + 1), Len(Rest(s, i)) > limit
      PROVE  \E p \in Fit, j \in (i + 1)..(Len(s) + 1) : from[i] = <<p>> \o from[j]
  <2>1. PICK rest, k : rest = Rest(s, i) /\ k = Cut(rest, limit) OBVIOUS
  <2>2. rest \in Text /\ Len(rest) = Len(s) + 1 - i BY <2>1, RestIs
  <2>3. k \in 1..limit BY <1>5, <2>1, <2>2, CutIs
  <2>4. PICK w : w = SubSeq(rest, 1, k) /\ w \in Text /\ Len(w) = k
    <3>1. k <= Len(rest) /\ 1 <= k /\ k - 1 + 1 = k BY <1>3, <1>5, <2>1, <2>2, <2>3
    <3>2. k \in Int /\ 1 \in Int BY <2>3
    <3>3. SubSeq(rest, 1, k) \in Text /\ Len(SubSeq(rest, 1, k)) = k
      BY <2>2, <3>1, <3>2, SubText
    <3> QED BY <3>3
  <2>5. TrimRight(w) \in Text /\ Len(TrimRight(w)) <= k
    <3>1. PICK e \in 0..Len(w) : TrimRight(w) \in Text /\ Len(TrimRight(w)) = e
      BY <2>4, TrimIs
    <3> QED BY <2>3, <2>4, <3>1
  <2>6. TrimRight(w) \in Fit
    <3>1. Len(TrimRight(w)) \in Nat BY <2>5, TextLen
    <3> QED BY <1>1, <2>3, <2>5, <3>1
  <2>7. i + k \in (i + 1)..(Len(s) + 1) BY <1>3, <1>5, <2>1, <2>2, <2>3
  <2>8. from[i] = <<TrimRight(w)>> \o from[i + k]
    <3>1. ~(Len(rest) <= limit) BY <1>3, <1>5, <2>1, <2>2
    <3> QED BY <1>2, <2>1, <2>4, <3>1 DEF PartsFrom
  <2> QED BY <2>6, <2>7, <2>8
<1> DEFINE Q == {i \in 1..(Len(s) + 1) : from[i] \in Seq(Fit)}
<1>6. ASSUME NEW i \in 1..(Len(s) + 1), \A j \in (i + 1)..(Len(s) + 1) : j \in Q
      PROVE  i \in Q
  <2>1. Rest(s, i) \in Text /\ Len(Rest(s, i)) \in Nat BY RestIs, TextLen
  <2>2. CASE Len(Rest(s, i)) <= limit
    <3>1. from[i] = <<>> \/ from[i] = <<Rest(s, i)>> BY <1>2, <2>2 DEF PartsFrom
    <3>2. Rest(s, i) \in Fit BY <1>1, <2>1, <2>2
    <3>3. <<>> \in Seq(Fit) BY EmptySeq
    <3> QED BY <1>4, <3>1, <3>2, <3>3
  <2>3. CASE Len(Rest(s, i)) > limit
    <3>1. PICK p \in Fit, j \in (i + 1)..(Len(s) + 1) : from[i] = <<p>> \o from[j]
      BY <1>5, <2>3
    <3>2. from[j] \in Seq(Fit) /\ <<p>> \in Seq(Fit) BY <1>4, <1>6
    <3>3. <<p>> \o from[j] \in Seq(Fit) BY <3>2, ConcatProperties
    <3> QED BY <3>1, <3>3
  <2> QED BY <2>1, <2>2, <2>3
<1>7. \A i \in 1..(Len(s) + 1) : from[i] \in Seq(Fit)
  <2>1. \A i \in 1..(Len(s) + 1) : i \in Q
    <3> HIDE DEF Q
    <3> QED BY <1>3, <1>6, FromTheEnd
  <2> QED BY <2>1
<1>8. 1 \in 1..(Len(s) + 1) BY <1>3
<1>9. SplitMessage(s, limit) \in Seq(Fit) /\ Len(SplitMessage(s, limit)) > 0
  <2>1. CASE Len(s) <= limit
    <3>1. s \in Fit BY <1>1, <2>1
    <3> QED BY <1>2, <1>4, <2>1, <3>1
  <2>2. CASE ~(Len(s) <= limit)
    <3>1. Len(Rest(s, 1)) > limit BY <1>3, <1>8, <2>2, RestIs
    <3>2. PICK p \in Fit, j \in (1 + 1)..(Len(s) + 1) : from[1] = <<p>> \o from[j]
      BY <1>5, <1>8, <3>1
    <3>3. from[j] \in Seq(Fit) /\ <<p>> \in Seq(Fit) /\ Len(<<p>>) = 1
      BY <1>3, <1>4, <1>7, <3>2
    <3>4. Len(<<p>> \o from[j]) = 1 + Len(from[j]) /\ Len(from[j]) \in Nat
      BY <3>3, ConcatProperties, LenProperties
    <3> QED BY <1>2, <1>7, <1>8, <2>2, <3>2, <3>4
  <2> QED BY <2>1, <2>2
<1>10. Fit \subseteq Text BY <1>1
<1> QED BY <1>1, <1>9, <1>10, SeqMonotonic

----------------------------------------------------------------------------
(* The order of what is shown.  The invariant follows the position: what a *)
(* channel shows is a beginning of its parts and some of the files of the  *)
(* tasks that are behind it, each where its task met no error.             *)

Cuts(c) == SplitMessage(Converted(c, text), Limit)

Shapes == {"part", "file"} \X Nat

Shape ==
    /\ text \in Texts
    /\ dest \in [Names -> {"none", "good", "bad"}]
    /\ at \in 1..3 /\ task \in 1..LastTask /\ step \in Nat
    /\ chunks \in [Names -> Seq(Text)]
    /\ stored \in SUBSET Nat
    /\ shown \in [Names -> Seq(Shapes)]
    /\ failed \in [Names -> SUBSET Nat]

\* The summary of channel i has been cut.
Begun(i) == dest[Channels[i]] # "none" /\ (i < at \/ (i = at /\ step > 0))

Ready(i) ==
    LET c == Channels[i]
    IN  IF Begun(i) THEN chunks[c] = Cuts(c) ELSE chunks[c] = <<>> /\ shown[c] = <<>>

Items(m, F) == {<<"part", n>> : n \in 1..m} \union {<<"file", t>> : t \in F}

\* The channel shows the first m parts and the files of F.
ShowsJust(c, m, F) ==
    /\ ToSet(shown[c]) = Items(m, F)
    /\ \A i, j \in DOMAIN shown[c] : i < j => Precedes(shown[c][i], shown[c][j])

\* The tasks before t are done.
Served(c, t) ==
    \E m \in 0..Len(chunks[c]), F \in SUBSET (2..(t - 1)) :
        /\ ShowsJust(c, m, F)
        /\ 1 \notin failed[c] => m = Len(chunks[c])
        /\ \A k \in 2..(t - 1) : k \notin failed[c] => k \in F
        /\ c = "slack" => F \subseteq stored

Current(i) ==
    LET c == Channels[i]
    IN  /\ step = 0 => task = 1
        /\ dest[c] = "none" => step = 0
        /\ step > 0 /\ task = 1 => step <= Len(chunks[c]) /\ ShowsJust(c, step - 1, {})
        /\ task > 1 => Served(c, task)
        /\ task > 1 /\ c = "slack" /\ step = 3 => task \in stored

Position(i) ==
    /\ Ready(i)
    /\ i = at => Current(i)
    /\ i < at /\ dest[Channels[i]] # "none" => Served(Channels[i], LastTask + 1)

InOrderInv == Shape /\ \A i \in DOMAIN Channels : Position(i)

LEMMA ChannelsAre ==
    /\ DOMAIN Channels = 1..2 /\ Channels[1] = "telegram" /\ Channels[2] = "slack"
    /\ Names = {"telegram", "slack"}
    /\ \A i \in 1..2 : Channels[i] \in Names
    /\ \A i, j \in 1..2 : Channels[i] = Channels[j] => i = j
    /\ \A c \in Names : \E i \in 1..2 : c = Channels[i]
<1>1. DOMAIN Channels = 1..2 /\ Channels[1] = "telegram" /\ Channels[2] = "slack"
  BY DEF Channels
<1>2. \A i \in 1..2 : i = 1 \/ i = 2 OBVIOUS
<1>3. Names = {"telegram", "slack"} BY <1>1, <1>2 DEF Names
<1> QED BY <1>1, <1>2, <1>3

LEMMA CutsAre ==
    ASSUME text \in Texts, NEW c
    PROVE  /\ text \in Text /\ Converted(c, text) \in Text
           /\ Cuts(c) \in Seq(Text) /\ Len(Cuts(c)) > 0
           /\ DOMAIN Cuts(c) = 1..Len(Cuts(c))
           /\ \A i \in DOMAIN Cuts(c) : Len(Cuts(c)[i]) <= Limit
<1>1. text \in Seq(STRING) BY DeliveryConstants
<1>2. STRING \subseteq Chars BY DEF Chars
<1>3. text \in Text BY <1>1, <1>2, SeqMonotonic DEF Text
<1>4. Converted(c, text) \in Text BY <1>3, ConvertedIs
<1>5. Limit \in Nat /\ Limit > 1 BY DeliveryConstants
<1>6. PICK Fit, cuts : /\ Fit = {p \in Text : Len(p) <= Limit} /\ cuts = Cuts(c)
                       /\ cuts \in Seq(Fit) /\ cuts \in Seq(Text) /\ Len(cuts) > 0
  BY <1>4, <1>5, SplitIs DEF Cuts
<1>7. DOMAIN cuts = 1..Len(cuts) /\ \A i \in 1..Len(cuts) : cuts[i] \in Fit
  BY <1>6, LenProperties, ElementOfSeq
<1> QED BY <1>3, <1>4, <1>6, <1>7

\* What is added at the end comes after the rest.
LEMMA ShowsMore ==
    ASSUME NEW q \in Seq(Shapes), NEW x \in Shapes,
           \A i, j \in DOMAIN q : i < j => Precedes(q[i], q[j]),
           \A y \in ToSet(q) : Precedes(y, x)
    PROVE  /\ ToSet(Append(q, x)) = ToSet(q) \union {x}
           /\ \A i, j \in DOMAIN Append(q, x) :
                 i < j => Precedes(Append(q, x)[i], Append(q, x)[j])
<1>1. Len(q) \in Nat /\ DOMAIN q = 1..Len(q) BY LenProperties
<1>2. PICK r : r = Append(q, x) OBVIOUS
<1>3. /\ DOMAIN r = 1..(Len(q) + 1) /\ r[Len(q) + 1] = x
      /\ \A i \in 1..Len(q) : r[i] = q[i]
  BY <1>2, AppendProperties, LenProperties
<1>4. \A i \in DOMAIN r : i \in 1..Len(q) \/ i = Len(q) + 1 BY <1>1, <1>3
<1>5. ToSet(r) = ToSet(q) \union {x} BY <1>1, <1>3, <1>4 DEF ToSet
<1>6. ASSUME NEW i \in DOMAIN r, NEW j \in DOMAIN r, i < j PROVE Precedes(r[i], r[j])
  <2>1. i \in 1..Len(q) /\ r[i] = q[i] BY <1>1, <1>3, <1>6
  <2>2. q[i] \in ToSet(q) BY <1>1, <2>1 DEF ToSet
  <2>3. CASE j = Len(q) + 1 BY <1>3, <2>1, <2>2, <2>3
  <2>4. CASE j \in 1..Len(q) BY <1>1, <1>3, <1>6, <2>1, <2>4
  <2> QED BY <1>4, <2>3, <2>4
<1> QED BY <1>2, <1>5, <1>6

\* One more part, or the file of a task that is behind the others.
LEMMA ShowsPart ==
    ASSUME Shape, NEW c \in Names, NEW n \in Nat, n > 0, ShowsJust(c, n - 1, {}),
           shown'[c] = Append(shown[c], <<"part", n>>)
    PROVE  ShowsJust(c, n, {})'
<1>0. shown[c] \in Seq(Shapes) BY DEF Shape
<1>a. <<"part", n>> \in Shapes BY DEF Shapes
<1>1. PICK q, x : /\ q = shown[c] /\ x = <<"part", n>>
                  /\ q \in Seq(Shapes) /\ x \in Shapes
  BY <1>0, <1>a
<1>2. ToSet(q) = {<<"part", k>> : k \in 1..(n - 1)} BY <1>1 DEF ShowsJust, Items
<1>3. \A y \in ToSet(q) : Precedes(y, x) BY <1>1, <1>2 DEF Precedes
<1>4. \A i, j \in DOMAIN q : i < j => Precedes(q[i], q[j]) BY <1>1 DEF ShowsJust
<1>5. /\ ToSet(Append(q, x)) = ToSet(q) \union {x}
      /\ \A i, j \in DOMAIN Append(q, x) :
            i < j => Precedes(Append(q, x)[i], Append(q, x)[j])
  BY <1>1, <1>3, <1>4, ShowsMore
<1>6. ToSet(q) \union {x} = Items(n, {})
  <2>1. \A k : k \in 1..n <=> k \in 1..(n - 1) \/ k = n OBVIOUS
  <2> QED BY <1>1, <1>2, <2>1 DEF Items
<1> QED BY <1>1, <1>5, <1>6 DEF ShowsJust

LEMMA ShowsFile ==
    ASSUME Shape, NEW c \in Names, NEW m, NEW t \in Nat, NEW F \in SUBSET (2..(t - 1)),
           m \in Nat, ShowsJust(c, m, F),
           shown'[c] = Append(shown[c], <<"file", t>>)
    PROVE  ShowsJust(c, m, F \union {t})'
<1>0. shown[c] \in Seq(Shapes) BY DEF Shape
<1>a. <<"file", t>> \in Shapes BY DEF Shapes
<1>1. PICK q, x : /\ q = shown[c] /\ x = <<"file", t>>
                  /\ q \in Seq(Shapes) /\ x \in Shapes
  BY <1>0, <1>a
<1>2. ToSet(q) = Items(m, F) BY <1>1 DEF ShowsJust
<1>3. \A y \in ToSet(q) : Precedes(y, x)
  <2>1. \A k \in F : k < t OBVIOUS
  <2> QED BY <1>1, <1>2, <2>1 DEF Precedes, Items
<1>4. \A i, j \in DOMAIN q : i < j => Precedes(q[i], q[j]) BY <1>1 DEF ShowsJust
<1>5. /\ ToSet(Append(q, x)) = ToSet(q) \union {x}
      /\ \A i, j \in DOMAIN Append(q, x) :
            i < j => Precedes(Append(q, x)[i], Append(q, x)[j])
  BY <1>1, <1>3, <1>4, ShowsMore
<1>6. ToSet(q) \union {x} = Items(m, F \union {t}) BY <1>1, <1>2 DEF Items
<1> QED BY <1>1, <1>5, <1>6 DEF ShowsJust

\* The channels that are not being served keep what they have.
LEMMA OthersKept ==
    ASSUME Shape, NEW i \in 1..2, i # at, Position(i),
           UNCHANGED chosen, chunks'[Channels[i]] = chunks[Channels[i]],
           shown'[Channels[i]] = shown[Channels[i]],
           failed'[Channels[i]] = failed[Channels[i]], stored \subseteq stored',
           \/ at' = at
           \/ at' = at + 1 /\ task' = 1 /\ step' = 0
    PROVE  Position(i)'
<1>1. PICK c : c = Channels[i] OBVIOUS
<1>2. at \in Nat /\ i \in Nat /\ text' = text /\ dest' = dest
  BY DEF Shape, chosen
<1>3. Begun(i)' = Begun(i) BY <1>2 DEF Begun
<1>4. Cuts(c)' = Cuts(c) BY <1>2 DEF Cuts
<1>5. Ready(i)' BY <1>1, <1>3, <1>4 DEF Position, Ready
<1>6. ASSUME i = at' PROVE Current(i)'
  <2>1. task' = 1 /\ step' = 0 BY <1>6
  <2> QED BY <2>1 DEF Current
<1>7. ASSUME i < at', dest'[c] # "none" PROVE Served(c, LastTask + 1)'
  <2>1. i < at BY <1>2, <1>7
  <2>2. Served(c, LastTask + 1) BY <1>1, <1>2, <1>7, <2>1 DEF Position
  <2> QED BY <1>1, <2>2 DEF Served, ShowsJust
<1> QED BY <1>1, <1>5, <1>6, <1>7 DEF Position

\* The task is done and the next one begins.
LEMMA TaskDone ==
    ASSUME Shape, NEW i \in 1..2, i = at, step > 0, dest[Channels[i]] # "none", Ready(i),
           UNCHANGED chosen, chunks' = chunks,
           NEW t, t = task + 1, Served(Channels[i], t)', NextTask
    PROVE  Position(i)'
<1>1. PICK c : c = Channels[i] OBVIOUS
<1>2. /\ at \in Nat /\ i \in Nat /\ text' = text /\ dest' = dest
      /\ task \in 1..LastTask /\ LastTask \in Nat /\ step \in Nat
  BY DeliveryConstants DEF Shape, chosen, LastTask
<1>3. Cuts(c)' = Cuts(c) BY <1>2 DEF Cuts
<1>4. Begun(i) BY <1>2 DEF Begun
<1>5. CASE task < LastTask
  <2>1. task' = t /\ step' = 1 /\ at' = at /\ t > 1 BY <1>2, <1>5 DEF NextTask
  <2>2. Begun(i)' BY <1>2, <2>1 DEF Begun
  <2>3. Ready(i)' BY <1>1, <1>3, <1>4, <2>2 DEF Ready
  <2>4. Current(i)'
    <3>1. Served(Channels[i], task)' BY <2>1 DEF Served
    <3>2. step' # 0 /\ dest'[c] # "none" /\ task' # 1 /\ step' # 3
      BY <1>1, <1>2, <2>1
    <3> QED BY <1>1, <2>1, <3>1, <3>2 DEF Current
  <2> QED BY <1>2, <2>1, <2>3, <2>4 DEF Position
<1>6. CASE ~(task < LastTask)
  <2>1. at' = at + 1 /\ step' = 0 /\ t = LastTask + 1 BY <1>2, <1>6 DEF NextTask
  <2>2. Begun(i)' BY <1>2, <2>1 DEF Begun
  <2>3. Ready(i)' BY <1>1, <1>3, <1>4, <2>2 DEF Ready
  <2>4. Served(Channels[i], LastTask + 1)' BY <2>1
  <2> QED BY <1>2, <2>1, <2>3, <2>4 DEF Position
<1> QED BY <1>5, <1>6

\* A task goes on.
LEMMA TaskGoesOn ==
    ASSUME Shape, NEW i \in 1..2, i = at, dest[Channels[i]] # "none", Ready(i), step > 0,
           UNCHANGED chosen, chunks' = chunks, GoesOn,
           task = 1 =>
             step' <= Len(chunks[Channels[i]]) /\ ShowsJust(Channels[i], step - 1, {})',
           task > 1 => Served(Channels[i], task)',
           task > 1 /\ Channels[i] = "slack" /\ step = 2 => task \in stored'
    PROVE  Position(i)'
<1>1. PICK c : c = Channels[i] OBVIOUS
<1>2. /\ at \in Nat /\ i \in Nat /\ text' = text /\ dest' = dest /\ step \in Nat
      /\ task' = task /\ at' = at /\ step' = step + 1 /\ step' > 0 /\ step' # 0
  BY DEF Shape, chosen, GoesOn
<1>3. Cuts(c)' = Cuts(c) BY <1>2 DEF Cuts
<1>4. Begun(i) /\ Begun(i)' BY <1>2 DEF Begun
<1>5. Ready(i)' BY <1>1, <1>3, <1>4 DEF Ready
<1>6. Current(i)'
  <2>1. task = 1 => ShowsJust(c, step - 1, {})' BY <1>1
  <2>2. task > 1 => Served(c, task)' BY <1>1
  <2>3. step' = 3 => step = 2 BY <1>2
  <2> QED BY <1>1, <1>2, <2>1, <2>2, <2>3 DEF Current
<1> QED BY <1>2, <1>5, <1>6 DEF Position

\* The parts end here: all of them are shown, or the task has failed.
LEMMA PartsDone ==
    ASSUME Shape, NEW c \in Names, NEW m \in 0..Len(chunks[c]), chunks' = chunks,
           ShowsJust(c, m, {})', m = Len(chunks[c]) \/ 1 \in failed'[c]
    PROVE  Served(c, 2)'
<1>1. PICK F : F = {} /\ F \in SUBSET (2..(2 - 1)) OBVIOUS
<1>2. \A k \in 2..(2 - 1) : FALSE OBVIOUS
<1>3. ShowsJust(c, m, F)' BY <1>1
<1> QED BY <1>1, <1>2, <1>3 DEF Served

\* The file of the task is shown, or the task has failed.
LEMMA FileDone ==
    ASSUME Shape, NEW c \in Names, NEW t \in Nat, t > 1, Served(c, t), chunks' = chunks,
           failed[c] \subseteq failed'[c], stored \subseteq stored',
           \/ shown'[c] = shown[c] /\ t \in failed'[c]
           \/ /\ shown'[c] = Append(shown[c], <<"file", t>>)
              /\ c = "slack" => t \in stored'
    PROVE  Served(c, t + 1)'
<1>1. PICK m \in 0..Len(chunks[c]), F \in SUBSET (2..(t - 1)) :
        /\ ShowsJust(c, m, F)
        /\ 1 \notin failed[c] => m = Len(chunks[c])
        /\ \A k \in 2..(t - 1) : k \notin failed[c] => k \in F
        /\ c = "slack" => F \subseteq stored
  BY DEF Served
<1>2. \A k \in 2..((t + 1) - 1) : k \in 2..(t - 1) \/ k = t OBVIOUS
<1>3. m \in Nat BY <1>1
<1>4. CASE shown'[c] = shown[c] /\ t \in failed'[c]
  <2>1. ShowsJust(c, m, F)' BY <1>1, <1>4 DEF ShowsJust
  <2>2. F \in SUBSET (2..((t + 1) - 1)) BY <1>1
  <2>3. \A k \in 2..((t + 1) - 1) : k \notin failed'[c] => k \in F BY <1>1, <1>2, <1>4
  <2> QED BY <1>1, <2>1, <2>2, <2>3 DEF Served
<1>5. CASE /\ shown'[c] = Append(shown[c], <<"file", t>>)
           /\ c = "slack" => t \in stored'
  <2>1. PICK G : G = F \union {t} OBVIOUS
  <2>2. ShowsJust(c, m, G)' BY <1>1, <1>3, <1>5, <2>1, ShowsFile
  <2>3. G \in SUBSET (2..((t + 1) - 1))
    <3>1. t \in 2..((t + 1) - 1) /\ \A k \in 2..(t - 1) : k \in 2..((t + 1) - 1) OBVIOUS
    <3>2. \A k \in F : k \in 2..(t - 1) BY <1>1
    <3> QED BY <2>1, <3>1, <3>2
  <2>4. \A k \in 2..((t + 1) - 1) : k \notin failed'[c] => k \in G
    BY <1>1, <1>2, <2>1
  <2>5. c = "slack" => G \subseteq stored' BY <1>1, <1>5, <2>1
  <2> QED BY <1>1, <2>2, <2>3, <2>4, <2>5 DEF Served
<1> QED BY <1>4, <1>5

LEMMA ShapeStep ==
    ASSUME Shape, [Next]_vars
    PROVE  Shape'
<1> USE ChannelsAre
<1>0. LastTask \in Nat /\ LastTask > 1 BY DeliveryConstants DEF LastTask
<1>1. ASSUME NEW x \in Shapes, NEW c \in Names, Show(c, x)
      PROVE  shown' \in [Names -> Seq(Shapes)]
  <2>1. Append(shown[c], x) \in Seq(Shapes) BY AppendProperties DEF Shape
  <2> QED BY <1>1, <2>1 DEF Shape, Show
<1>2. ASSUME NEW x \in Shapes, NEW c \in Names, NEW refused, MayShow(c, refused, x)
      PROVE  shown' \in [Names -> Seq(Shapes)]
  BY <1>1, <1>2 DEF MayShow, Shape
<1>3. ASSUME NEW c \in Names, NEW refused,
             Answered(c, refused) \/ Errs(c, refused)
      PROVE  failed' \in [Names -> SUBSET Nat]
  <2>1. task \in Nat BY <1>0 DEF Shape
  <2> QED BY <1>3, <2>1 DEF Answered, Errs, Shape, outcome
<1>4. ASSUME NextTask, at \in DOMAIN Channels
      PROVE  at' \in 1..3 /\ task' \in 1..LastTask /\ step' \in Nat
  BY <1>0, <1>4 DEF NextTask, Shape
<1>5. ASSUME GoesOn
      PROVE  at' \in 1..3 /\ task' \in 1..LastTask /\ step' \in Nat
  BY <1>5 DEF GoesOn, Shape
<1>6. <<"part", step>> \in Shapes /\ <<"file", task>> \in Shapes
  BY <1>0 DEF Shape, Shapes
<1>7. "telegram" \in Names /\ "slack" \in Names OBVIOUS
<1>8. CASE Skip
  BY <1>8 DEF Skip, Shape, chosen, outcome
<1>9. CASE Expire
  BY <1>9 DEF Expire, Shape, chosen, position, outcome
<1>10. ASSUME NEW c \in Names, Convert(c) PROVE Shape'
  <2>1. SplitMessage(Converted(c, text), Limit) \in Seq(Text)
    BY CutsAre DEF Shape, Cuts
  <2>2. chunks' \in [Names -> Seq(Text)] BY <1>10, <2>1 DEF Convert, Shape
  <2> QED BY <1>5, <1>10, <2>2 DEF Convert, Shape, chosen, outcome
<1>11. ASSUME NEW c \in Names, SendPart(c) PROVE Shape'
  <2>1. PICK refused : \/ Answered(c, refused) /\ Show(c, <<"part", step>>)
                          /\ (GoesOn \/ NextTask)
                       \/ Errs(c, refused) /\ MayShow(c, refused, <<"part", step>>)
                          /\ NextTask
    BY <1>11 DEF SendPart, AfterError
  <2>2. failed' \in [Names -> SUBSET Nat] BY <1>3, <2>1
  <2>3. shown' \in [Names -> Seq(Shapes)] BY <1>1, <1>2, <1>6, <2>1
  <2>4. at' \in 1..3 /\ task' \in 1..LastTask /\ step' \in Nat
    BY <1>4, <1>5, <1>11, <2>1 DEF SendPart, Serving
  <2> QED BY <1>11, <2>2, <2>3, <2>4 DEF SendPart, Shape, chosen
<1>12. CASE SendFile
  <2>1. \/ Answered("telegram", FALSE) /\ Show("telegram", <<"file", task>>)
        \/ Errs("telegram", FALSE) /\ MayShow("telegram", FALSE, <<"file", task>>)
    BY <1>12 DEF SendFile
  <2>2. failed' \in [Names -> SUBSET Nat] BY <1>3, <1>7, <2>1
  <2>3. shown' \in [Names -> Seq(Shapes)] BY <1>1, <1>2, <1>6, <1>7, <2>1
  <2>4. at' \in 1..3 /\ task' \in 1..LastTask /\ step' \in Nat
    BY <1>4, <1>12 DEF SendFile, Serving
  <2> QED BY <1>12, <2>2, <2>3, <2>4 DEF SendFile, Shape, chosen
<1>13. CASE GetUploadURL
  <2>1. Answered("slack", FALSE) \/ Errs("slack", FALSE) BY <1>13 DEF GetUploadURL
  <2>2. failed' \in [Names -> SUBSET Nat] BY <1>3, <1>7, <2>1
  <2>4. at' \in 1..3 /\ task' \in 1..LastTask /\ step' \in Nat
    BY <1>4, <1>5, <1>13 DEF GetUploadURL, Serving
  <2> QED BY <1>13, <2>2, <2>4 DEF GetUploadURL, Shape, chosen
<1>14. CASE PostContent
  <2>1. Answered("slack", FALSE) \/ Errs("slack", FALSE) BY <1>14 DEF PostContent
  <2>2. failed' \in [Names -> SUBSET Nat] BY <1>3, <1>7, <2>1
  <2>3. stored' \in SUBSET Nat
    <3>1. task \in Nat BY <1>0 DEF Shape
    <3>2. stored' = stored \/ stored' = stored \union {task} BY <1>14 DEF PostContent
    <3>3. stored \in SUBSET Nat BY DEF Shape
    <3> QED BY <3>1, <3>2, <3>3
  <2>4. at' \in 1..3 /\ task' \in 1..LastTask /\ step' \in Nat
    BY <1>4, <1>5, <1>14 DEF PostContent, Serving
  <2> QED BY <1>14, <2>2, <2>3, <2>4 DEF PostContent, Shape, chosen
<1>15. CASE CompleteUpload
  <2>1. PICK refused :
          \/ Answered("slack", refused) /\ Show("slack", <<"file", task>>)
          \/ Errs("slack", refused) /\ MayShow("slack", refused, <<"file", task>>)
    BY <1>15 DEF CompleteUpload
  <2>2. failed' \in [Names -> SUBSET Nat] BY <1>3, <1>7, <2>1
  <2>3. shown' \in [Names -> Seq(Shapes)] BY <1>1, <1>2, <1>6, <1>7, <2>1
  <2>4. at' \in 1..3 /\ task' \in 1..LastTask /\ step' \in Nat
    BY <1>4, <1>15 DEF CompleteUpload, Serving
  <2> QED BY <1>15, <2>2, <2>3, <2>4 DEF CompleteUpload, Shape, chosen
<1>16. CASE UNCHANGED vars
  BY <1>16 DEF vars, Shape, chosen, position, outcome
<1> QED BY <1>8, <1>9, <1>10, <1>11, <1>12, <1>13, <1>14, <1>15, <1>16 DEF Next

\* A step of the channel that is being served.
LEMMA Serves ==
    ASSUME Shape, NEW i \in 1..2, i = at, dest[Channels[i]] # "none", Position(i)
    PROVE  /\ \A c \in Names : Serving(c) <=> c = Channels[i]
           /\ Channels[i] \in Names /\ Channels[i] \in {"telegram", "slack"}
           /\ Ready(i) /\ Current(i) /\ (step > 0 => Begun(i))
<1>1. \A c \in Names : Serving(c) <=> c = Channels[i] BY ChannelsAre DEF Serving
<1>2. step > 0 => Begun(i) BY DEF Begun
<1> QED BY <1>1, <1>2, ChannelsAre DEF Position

\* What an answer or an error leaves in the records of the channels.
LEMMA RequestKeeps ==
    ASSUME Shape, NEW c \in Names, NEW refused, Answered(c, refused) \/ Errs(c, refused)
    PROVE  /\ failed[c] \subseteq failed'[c]
           /\ Errs(c, refused) => task \in failed'[c]
           /\ \A d \in Names : d # c => failed'[d] = failed[d]
  BY DEF Shape, Answered, Errs, outcome

LEMMA ShowKeeps ==
    ASSUME Shape, NEW c \in Names, NEW refused, NEW x,
           Show(c, x) \/ MayShow(c, refused, x)
    PROVE  /\ Show(c, x) => shown'[c] = Append(shown[c], x)
           /\ shown'[c] = shown[c] \/ shown'[c] = Append(shown[c], x)
           /\ \A d \in Names : d # c => shown'[d] = shown[d]
  BY DEF Shape, Show, MayShow

LEMMA OneServes ==
    ASSUME Shape, \A i \in 1..2 : Position(i), NEW k \in 1..2, k = at, Position(k)',
           UNCHANGED chosen, NextTask \/ GoesOn, stored \subseteq stored',
           \A d \in Names : d # Channels[k] => /\ chunks'[d] = chunks[d]
                                               /\ shown'[d] = shown[d]
                                               /\ failed'[d] = failed[d]
    PROVE  \A i \in 1..2 : Position(i)'
<1> SUFFICES ASSUME NEW i \in 1..2, i # k PROVE Position(i)'
  OBVIOUS
<1>1. Channels[i] \in Names /\ Channels[i] # Channels[k] BY ChannelsAre
<1>2. \/ at' = at
      \/ at' = at + 1 /\ task' = 1 /\ step' = 0
  BY DEF NextTask, GoesOn
<1> QED BY <1>1, <1>2, OthersKept

LEMMA ConvertStep ==
    ASSUME Shape, \A i \in 1..2 : Position(i), NEW c \in Names, Convert(c)
    PROVE  \A i \in 1..2 : Position(i)'
<1>1. PICK k \in 1..2 : k = at /\ Channels[k] = c /\ dest[c] # "none"
  BY ChannelsAre DEF Convert, Serving
<1>2. /\ task = 1 /\ step = 0 /\ chunks' = [chunks EXCEPT ![c] = Cuts(c)] /\ GoesOn
      /\ UNCHANGED <<chosen, stored, shown, outcome>>
  BY DEF Convert, Cuts
<1>3. Ready(k) /\ Current(k) BY <1>1, Serves
<1>4. /\ at' = at /\ task' = 1 /\ step' = 1 /\ text' = text /\ dest' = dest
      /\ failed' = failed
  BY <1>2 DEF GoesOn, chosen, outcome
<1>5. chunks'[c] = Cuts(c) /\ \A d \in Names : d # c => chunks'[d] = chunks[d]
  BY <1>2 DEF Shape
<1>6. Cuts(c)' = Cuts(c) BY <1>4 DEF Cuts
<1>7. shown'[c] = <<>>
  <2>1. ~Begun(k) BY <1>1, <1>2 DEF Begun
  <2> QED BY <1>1, <1>2, <1>3, <2>1 DEF Ready
<1>8. Len(Cuts(c)) \in Nat /\ Len(Cuts(c)) > 0
  BY CutsAre, LenProperties DEF Shape
<1>9. Position(k)'
  <2>1. Begun(k)' BY <1>1, <1>4 DEF Begun
  <2>2. Ready(k)' BY <1>1, <1>5, <1>6, <2>1 DEF Ready
  <2>3. ShowsJust(c, 0, {})'
    <3>1. DOMAIN shown'[c] = {} /\ ToSet(shown'[c]) = {}
      <4>1. DOMAIN <<>> = {} BY EmptySeq
      <4> QED BY <1>7, <4>1 DEF ToSet
    <3>2. Items(0, {}) = {} BY DEF Items
    <3> QED BY <3>1, <3>2 DEF ShowsJust
  <2>4. ShowsJust(c, step - 1, {})'
    <3>1. step' - 1 = 0 BY <1>4
    <3> QED BY <2>3, <3>1 DEF ShowsJust
  <2>5. Current(k)' BY <1>1, <1>4, <1>5, <1>8, <2>4 DEF Current
  <2>6. ~(k < at') BY <1>1, <1>4
  <2> QED BY <2>2, <2>5, <2>6 DEF Position
<1>10. stored \subseteq stored' /\ UNCHANGED chosen BY <1>2
<1>11. \A d \in Names : d # Channels[k] => /\ chunks'[d] = chunks[d]
                                           /\ shown'[d] = shown[d]
                                           /\ failed'[d] = failed[d]
  BY <1>1, <1>2, <1>4, <1>5
<1> QED BY <1>1, <1>2, <1>9, <1>10, <1>11, OneServes

LEMMA PartStep ==
    ASSUME Shape, \A i \in 1..2 : Position(i), NEW c \in Names, SendPart(c)
    PROVE  \A i \in 1..2 : Position(i)'
<1>1. PICK k \in 1..2 : k = at /\ Channels[k] = c /\ dest[c] # "none"
  BY ChannelsAre DEF SendPart, Serving
<1>2. task = 1 /\ step > 0 /\ UNCHANGED <<chosen, chunks, over, stored>> BY DEF SendPart
<1>3. PICK refused, n :
        /\ n = step
        /\ \/ /\ Answered(c, refused) /\ Show(c, <<"part", n>>)
              /\ IF step < Len(chunks[c]) THEN GoesOn ELSE NextTask
           \/ Errs(c, refused) /\ MayShow(c, refused, <<"part", n>>) /\ NextTask
  BY DEF SendPart, AfterError
<1>4. Ready(k) /\ Current(k) BY <1>1, Serves
<1>5. n \in Nat /\ n > 0 /\ n <= Len(chunks[c]) /\ ShowsJust(c, n - 1, {})
  BY <1>1, <1>2, <1>3, <1>4 DEF Current, Shape
<1>6. Len(chunks[c]) \in Nat /\ task = 1 BY <1>2, LenProperties DEF Shape
<1>7. /\ Errs(c, refused) => 1 \in failed'[c]
      /\ \A d \in Names : d # c => failed'[d] = failed[d]
  BY <1>2, <1>3, RequestKeeps
<1>8. /\ Show(c, <<"part", n>>) => shown'[c] = Append(shown[c], <<"part", n>>)
      /\ shown'[c] = shown[c] \/ shown'[c] = Append(shown[c], <<"part", n>>)
      /\ \A d \in Names : d # c => shown'[d] = shown[d]
  <2>1. PICK x : x = <<"part", n>> OBVIOUS
  <2>2. Show(c, x) \/ MayShow(c, refused, x) BY <1>3, <2>1
  <2> QED BY <2>1, <2>2, ShowKeeps
<1>9. shown'[c] = Append(shown[c], <<"part", n>>) => ShowsJust(c, n, {})'
  BY <1>5, ShowsPart
<1>10. shown'[c] = shown[c] => ShowsJust(c, n - 1, {})' BY <1>5 DEF ShowsJust
<1>11. Position(k)'
  <2>1. CASE GoesOn /\ Answered(c, refused) /\ Show(c, <<"part", n>>)
             /\ step < Len(chunks[c])
    <3>1. step' = n + 1 /\ step' - 1 = n BY <1>3, <1>5, <2>1 DEF GoesOn
    <3>2. ShowsJust(c, n, {})' BY <1>8, <1>9, <2>1
    <3>3. ShowsJust(c, step - 1, {})' BY <3>1, <3>2 DEF ShowsJust
    <3>4. step' <= Len(chunks[c]) BY <1>3, <1>5, <1>6, <2>1, <3>1
    <3>5. ~(task > 1) BY <1>2
    <3> QED BY <1>1, <1>2, <1>4, <2>1, <3>3, <3>4, <3>5, TaskGoesOn
  <2>2. CASE NextTask /\ (Errs(c, refused) \/ (/\ Show(c, <<"part", n>>)
                                               /\ ~(step < Len(chunks[c]))))
    <3>1. Served(c, 2)'
      <4>1. CASE shown'[c] = Append(shown[c], <<"part", n>>)
        <5>1. n \in 0..Len(chunks[c]) BY <1>5, <1>6
        <5>2. n = Len(chunks[c]) \/ 1 \in failed'[c] BY <1>3, <1>5, <1>6, <1>7, <2>2
        <5>3. ShowsJust(c, n, {})' BY <1>9, <4>1
        <5> QED BY <1>2, <5>1, <5>2, <5>3, PartsDone
      <4>2. CASE shown'[c] = shown[c] /\ Errs(c, refused)
        <5>1. n - 1 \in 0..Len(chunks[c]) BY <1>5, <1>6
        <5>2. ShowsJust(c, n - 1, {})' BY <1>10, <4>2
        <5>3. 1 \in failed'[c] BY <1>7, <4>2
        <5> QED BY <1>2, <5>1, <5>2, <5>3, PartsDone
      <4> QED BY <1>8, <2>2, <4>1, <4>2
    <3>2. PICK t : t = 2 OBVIOUS
    <3>3. t = task + 1 /\ Served(Channels[k], t)' BY <1>1, <1>2, <3>1, <3>2
    <3> QED BY <1>1, <1>2, <1>4, <2>2, <3>3, TaskDone
  <2> QED BY <1>3, <2>1, <2>2
<1>12. NextTask \/ GoesOn BY <1>3
<1>13. stored \subseteq stored' /\ UNCHANGED chosen BY <1>2
<1>14. \A d \in Names : d # Channels[k] => /\ chunks'[d] = chunks[d]
                                           /\ shown'[d] = shown[d]
                                           /\ failed'[d] = failed[d]
  BY <1>1, <1>2, <1>7, <1>8
<1> QED BY <1>1, <1>11, <1>12, <1>13, <1>14, OneServes

LEMMA FileEnds ==
    ASSUME Shape, \A i \in 1..2 : Position(i), NEW k \in 1..2, k = at,
           NEW c \in Names, c = Channels[k], dest[c] # "none", task > 1,
           UNCHANGED chosen, chunks' = chunks, stored \subseteq stored', NextTask,
           NEW refused, Answered(c, refused) \/ Errs(c, refused),
           \A d \in Names : d # c => shown'[d] = shown[d],
           \/ shown'[c] = shown[c] /\ Errs(c, refused)
           \/ /\ shown'[c] = Append(shown[c], <<"file", task>>)
              /\ c = "slack" => task \in stored'
    PROVE  \A i \in 1..2 : Position(i)'
<1>1. Ready(k) /\ Current(k) BY Serves
<1>2. step > 0 /\ Served(c, task) BY <1>1 DEF Current, Shape
<1>3. PICK n, t : n = task /\ t = n + 1 /\ n \in Nat /\ n > 1
  <2>1. task \in Nat BY DeliveryConstants DEF Shape, LastTask
  <2> QED BY <2>1
<1>4. /\ failed[c] \subseteq failed'[c]
      /\ Errs(c, refused) => task \in failed'[c]
      /\ \A d \in Names : d # c => failed'[d] = failed[d]
  BY RequestKeeps
<1>5. Served(c, n) BY <1>2, <1>3
<1>6. Served(c, n + 1)' BY <1>3, <1>4, <1>5, FileDone
<1>7. Served(Channels[k], t)' /\ t = task + 1 BY <1>3, <1>6
<1>8. Position(k)' BY <1>1, <1>2, <1>7, TaskDone
<1> QED BY <1>4, <1>8, OneServes

\* The file goes on to its next request.
LEMMA FileGoesOn ==
    ASSUME Shape, \A i \in 1..2 : Position(i), NEW k \in 1..2, k = at,
           NEW c \in Names, c = Channels[k], dest[c] # "none", task > 1,
           UNCHANGED chosen, chunks' = chunks, stored \subseteq stored', GoesOn,
           shown' = shown, failed' = failed, step = 2 => task \in stored'
    PROVE  \A i \in 1..2 : Position(i)'
<1>1. Ready(k) /\ Current(k) BY Serves
<1>2. step > 0 /\ Served(c, task) BY <1>1 DEF Current, Shape
<1>3. task' = task /\ task # 1
  <2>1. task \in Nat BY DeliveryConstants DEF Shape, LastTask
  <2> QED BY <2>1 DEF GoesOn
<1>4. Served(c, task)' BY <1>2, <1>3 DEF Served, ShowsJust
<1>5. Position(k)' BY <1>1, <1>2, <1>3, <1>4, TaskGoesOn
<1> QED BY <1>5, OneServes

LEMMA FileStep ==
    ASSUME Shape, \A i \in 1..2 : Position(i),
           SendFile \/ GetUploadURL \/ PostContent \/ CompleteUpload
    PROVE  \A i \in 1..2 : Position(i)'
<1>1. "telegram" \in Names /\ "slack" \in Names BY ChannelsAre
<1>2. ASSUME SendFile PROVE \A i \in 1..2 : Position(i)'
  <2>1. PICK c : c = "telegram" OBVIOUS
  <2>2. PICK k \in 1..2 : k = at /\ Channels[k] = c /\ dest[c] # "none"
    BY <1>2, <2>1, ChannelsAre DEF SendFile, Serving
  <2>3. /\ task > 1 /\ NextTask /\ UNCHANGED <<chosen, chunks, over, stored>>
        /\ \/ Answered(c, FALSE) /\ Show(c, <<"file", task>>)
           \/ Errs(c, FALSE) /\ MayShow(c, FALSE, <<"file", task>>)
    BY <1>2, <2>1 DEF SendFile
  <2>4. /\ Show(c, <<"file", task>>) => shown'[c] = Append(shown[c], <<"file", task>>)
        /\ shown'[c] = shown[c] \/ shown'[c] = Append(shown[c], <<"file", task>>)
        /\ \A d \in Names : d # c => shown'[d] = shown[d]
    <3>1. PICK x, refused : x = <<"file", task>> /\ refused = FALSE OBVIOUS
    <3>2. Show(c, x) \/ MayShow(c, refused, x) BY <2>3, <3>1
    <3> QED BY <1>1, <2>1, <3>1, <3>2, ShowKeeps
  <2>5. c # "slack" BY <2>1
  <2>6. PICK refused : /\ Answered(c, refused) \/ Errs(c, refused)
                       /\ \/ shown'[c] = shown[c] /\ Errs(c, refused)
                          \/ shown'[c] = Append(shown[c], <<"file", task>>)
    BY <2>3, <2>4
  <2> QED BY <1>1, <2>1, <2>2, <2>3, <2>4, <2>5, <2>6, FileEnds
<1>3. ASSUME GetUploadURL \/ PostContent \/ CompleteUpload
      PROVE  \A i \in 1..2 : Position(i)'
  <2>1. PICK c : c = "slack" OBVIOUS
  <2>2. PICK k \in 1..2 : k = at /\ Channels[k] = c /\ dest[c] # "none"
    BY <1>3, <2>1, ChannelsAre DEF GetUploadURL, PostContent, CompleteUpload, Serving
  <2>3. task > 1 /\ UNCHANGED <<chosen, chunks>>
    BY <1>3 DEF GetUploadURL, PostContent, CompleteUpload
  <2>4. CASE GetUploadURL
    <3>1. UNCHANGED <<stored, shown>> /\ step = 1 BY <2>4 DEF GetUploadURL
    <3>2. CASE Answered(c, FALSE) /\ GoesOn
      <4>1. failed' = failed BY <3>2 DEF Answered, outcome
      <4> QED BY <1>1, <2>1, <2>2, <2>3, <3>1, <3>2, <4>1, FileGoesOn
    <3>3. CASE Errs(c, FALSE) /\ NextTask
      <4>1. PICK refused : Errs(c, refused) BY <3>3
      <4>2. \A d \in Names : d # c => shown'[d] = shown[d] BY <3>1
      <4>3. stored \subseteq stored' /\ shown'[c] = shown[c] BY <3>1
      <4> QED BY <1>1, <2>1, <2>2, <2>3, <3>3, <4>1, <4>2, <4>3, FileEnds
    <3> QED BY <2>1, <2>4, <3>2, <3>3 DEF GetUploadURL
  <2>5. CASE PostContent
    <3>1. UNCHANGED shown /\ step = 2 /\ stored \subseteq stored' BY <2>5 DEF PostContent
    <3>2. CASE Answered(c, FALSE) /\ GoesOn /\ stored' = stored \union {task}
      <4>1. failed' = failed BY <3>2 DEF Answered, outcome
      <4>2. task \in stored' BY <3>2
      <4> QED BY <1>1, <2>1, <2>2, <2>3, <3>1, <3>2, <4>1, <4>2, FileGoesOn
    <3>3. CASE Errs(c, FALSE) /\ NextTask
      <4>1. PICK refused : Errs(c, refused) BY <3>3
      <4>2. \A d \in Names : d # c => shown'[d] = shown[d] BY <3>1
      <4>3. stored \subseteq stored' /\ shown'[c] = shown[c] BY <3>1
      <4> QED BY <1>1, <2>1, <2>2, <2>3, <3>3, <4>1, <4>2, <4>3, FileEnds
    <3> QED BY <2>1, <2>5, <3>2, <3>3 DEF PostContent
  <2>6. CASE CompleteUpload
    <3>1. UNCHANGED stored /\ step = 3 /\ NextTask BY <2>6 DEF CompleteUpload
    <3>2. PICK refused :
            \/ Answered(c, refused) /\ Show(c, <<"file", task>>)
            \/ Errs(c, refused) /\ MayShow(c, refused, <<"file", task>>)
      BY <2>1, <2>6 DEF CompleteUpload
    <3>3. /\ Show(c, <<"file", task>>) => shown'[c] = Append(shown[c], <<"file", task>>)
          /\ shown'[c] = shown[c] \/ shown'[c] = Append(shown[c], <<"file", task>>)
          /\ \A d \in Names : d # c => shown'[d] = shown[d]
      <4>1. PICK x : x = <<"file", task>> OBVIOUS
      <4>2. Show(c, x) \/ MayShow(c, refused, x) BY <3>2, <4>1
      <4> QED BY <1>1, <2>1, <4>1, <4>2, ShowKeeps
    <3>4. task \in stored
      <4>1. Current(k) BY <2>2, Serves
      <4> QED BY <2>1, <2>2, <2>3, <3>1, <4>1 DEF Current
    <3>5. /\ Answered(c, refused) \/ Errs(c, refused)
          /\ \/ shown'[c] = shown[c] /\ Errs(c, refused)
             \/ /\ shown'[c] = Append(shown[c], <<"file", task>>)
                /\ c = "slack" => task \in stored'
      BY <3>1, <3>2, <3>3, <3>4
    <3>6. stored \subseteq stored' BY <3>1
    <3> QED BY <1>1, <2>1, <2>2, <2>3, <3>1, <3>3, <3>5, <3>6, FileEnds
  <2> QED BY <1>3, <2>4, <2>5, <2>6
<1> QED BY <1>2, <1>3

LEMMA SkipStep ==
    ASSUME Shape, \A i \in 1..2 : Position(i), Skip
    PROVE  \A i \in 1..2 : Position(i)'
<1>1. PICK k \in 1..2 : k = at /\ dest[Channels[k]] = "none" BY ChannelsAre DEF Skip
<1>2. /\ at' = at + 1 /\ step' = 0 /\ task' = task
      /\ UNCHANGED <<chosen, chunks, stored, shown, failed>>
  BY DEF Skip, outcome
<1>3. task = 1 BY <1>1 DEF Position, Current
<1>4. Position(k)'
  <2>1. ~Begun(k) /\ ~Begun(k)' BY <1>1, <1>2 DEF Begun, chosen
  <2>2. Ready(k) BY <1>1 DEF Position
  <2>3. Ready(k)' BY <1>2, <2>1, <2>2 DEF Ready
  <2>4. k # at' /\ dest'[Channels[k]] = "none" BY <1>1, <1>2 DEF chosen
  <2> QED BY <2>3, <2>4 DEF Position
<1>5. ASSUME NEW i \in 1..2, i # k PROVE Position(i)'
  <2>1. stored \subseteq stored' BY <1>2
  <2> QED BY <1>1, <1>2, <1>3, <1>5, <2>1, OthersKept
<1> QED BY <1>4, <1>5

LEMMA OrderStep ==
    ASSUME InOrderInv, [Next]_vars
    PROVE  InOrderInv'
<1>1. DOMAIN Channels = 1..2 BY ChannelsAre
<1>2. Shape /\ \A i \in 1..2 : Position(i) BY <1>1 DEF InOrderInv
<1>3. Shape' BY <1>2, ShapeStep
<1>4. ASSUME Expire \/ UNCHANGED vars PROVE \A i \in 1..2 : Position(i)'
  <2>1. UNCHANGED <<text, dest, at, task, step, chunks, stored, shown, failed>>
    BY <1>4 DEF Expire, vars, chosen, position, outcome
  <2>2. ASSUME NEW i \in 1..2 PROVE Position(i)'
    <3>1. Position(i) BY <1>2
    <3> QED BY <2>1, <3>1
          DEF Position, Ready, Begun, Cuts, Current, Served, ShowsJust
  <2> QED BY <2>2
<1>5. ASSUME NEW c \in Names, Convert(c) \/ SendPart(c)
      PROVE  \A i \in 1..2 : Position(i)'
  BY <1>2, <1>5, ConvertStep, PartStep
<1>6. \A i \in 1..2 : Position(i)'
  BY <1>2, <1>4, <1>5, SkipStep, FileStep DEF Next
<1> QED BY <1>1, <1>3, <1>6 DEF InOrderInv

LEMMA OrderStart == Init => InOrderInv
<1> SUFFICES ASSUME Init PROVE InOrderInv
  OBVIOUS
<1>1. /\ DOMAIN Channels = 1..2 /\ LastTask \in Nat /\ LastTask > 1
      /\ \A i \in 1..2 : Channels[i] \in Names
  BY ChannelsAre, DeliveryConstants DEF LastTask
<1>2. Shape
  <2>1. \A S : <<>> \in Seq(S) BY EmptySeq
  <2> QED BY <1>1, <2>1 DEF Init, Shape
<1>3. ASSUME NEW i \in 1..2 PROVE Position(i)
  <2>1. ~Begun(i) BY <1>1 DEF Init, Begun
  <2>2. Ready(i) BY <1>1, <2>1 DEF Init, Ready
  <2>3. Current(i) BY DEF Init, Current
  <2>4. ~(i < at) BY DEF Init
  <2> QED BY <2>2, <2>3, <2>4 DEF Position
<1> QED BY <1>1, <1>2, <1>3 DEF InOrderInv

LEMMA OrderAlways == Spec => []InOrderInv
  BY OrderStart, OrderStep, PTL DEF Spec

LEMMA ServedShows ==
    ASSUME Shape, NEW c \in Names, Served(c, LastTask + 1)
    PROVE  InOrder(c) /\ Complete(c)
<1>1. LastTask \in Nat /\ (LastTask + 1) - 1 = LastTask BY DeliveryConstants DEF LastTask
<1>2. PICK m \in 0..Len(chunks[c]), F \in SUBSET (2..LastTask) :
        /\ ShowsJust(c, m, F)
        /\ 1 \notin failed[c] => m = Len(chunks[c])
        /\ \A k \in 2..LastTask : k \notin failed[c] => k \in F
        /\ c = "slack" => F \subseteq stored
  BY <1>1 DEF Served
<1>3. Len(chunks[c]) \in Nat /\ DOMAIN chunks[c] = 1..Len(chunks[c])
  BY LenProperties DEF Shape
<1>4. ToSet(shown[c]) = Items(m, F) BY <1>2 DEF ShowsJust
<1>5. /\ \A n : <<"part", n>> \in Items(m, F) <=> n \in 1..m
      /\ \A t : <<"file", t>> \in Items(m, F) <=> t \in F
  BY DEF Items
<1>6. 1..m \subseteq 1..Len(chunks[c]) BY <1>2, <1>3
<1>7. InOrder(c)
  <2>1. ToSet(shown[c]) \subseteq Parts(c) \union Files
    BY <1>2, <1>3, <1>4, <1>6 DEF Items, Parts, Files
  <2>2. \A i, j \in DOMAIN shown[c] : i < j => Precedes(shown[c][i], shown[c][j])
    BY <1>2 DEF ShowsJust
  <2>3. \A n \in DOMAIN chunks[c] : <<"part", n>> \in ToSet(shown[c]) =>
          \A k \in 1..n : <<"part", k>> \in ToSet(shown[c])
    <3>1. \A n \in 1..m : 1..n \subseteq 1..m BY <1>2
    <3> QED BY <1>4, <1>5, <3>1
  <2> QED BY <2>1, <2>2, <2>3 DEF InOrder
<1>8. Complete(c)
  <2>1. 1 \notin failed[c] => Parts(c) \subseteq ToSet(shown[c])
    BY <1>2, <1>3, <1>4, <1>5 DEF Parts
  <2>2. \A t \in 2..LastTask : t \notin failed[c] => <<"file", t>> \in ToSet(shown[c])
    BY <1>2, <1>4, <1>5
  <2>3. c = "slack" =>
          \A t \in 2..LastTask : <<"file", t>> \in ToSet(shown[c]) => t \in stored
    BY <1>2, <1>4, <1>5
  <2> QED BY <2>1, <2>2, <2>3 DEF Complete
<1> QED BY <1>7, <1>8

\* A channel that has been served shows the summary up to some part and then files,
\* in order and once; what met no error it shows whole, and Slack shares no file
\* without its content (sendReport, SendMessage and uploadFile).
THEOREM ShownInOrderAlways == Spec => []ShownInOrder
<1>1. InOrderInv => ShownInOrder
  <2>1. SUFFICES ASSUME InOrderInv, NEW i \in 1..2, at > i, dest[Channels[i]] # "none"
                 PROVE  InOrder(Channels[i]) /\ Complete(Channels[i])
    BY ChannelsAre DEF ShownInOrder
  <2>2. Shape /\ Position(i) /\ Channels[i] \in Names BY <2>1, ChannelsAre DEF InOrderInv
  <2>3. i < at BY <2>1, <2>2 DEF Shape
  <2>4. Served(Channels[i], LastTask + 1) BY <2>1, <2>2, <2>3 DEF Position
  <2> QED BY <2>2, <2>4, ServedShows
<1> QED BY <1>1, OrderAlways, PTL

\* No part of any text is longer than the channel takes (splitMessage).
THEOREM WithinLimitAlways == Spec => []WithinLimit
<1>1. InOrderInv => WithinLimit
  <2>1. SUFFICES ASSUME InOrderInv, NEW c \in Names, NEW n \in DOMAIN chunks[c]
                 PROVE  Len(chunks[c][n]) <= Limit
    BY DEF WithinLimit
  <2>2. PICK i \in 1..2 : c = Channels[i] BY ChannelsAre
  <2>3. text \in Texts /\ Ready(i) BY <2>1, ChannelsAre DEF InOrderInv, Shape, Position
  <2>4. DOMAIN <<>> = {} BY EmptySeq
  <2>5. chunks[c] = Cuts(c) BY <2>1, <2>2, <2>3, <2>4 DEF Ready
  <2> QED BY <2>1, <2>3, <2>5, CutsAre
<1> QED BY <1>1, OrderAlways, PTL

----------------------------------------------------------------------------
(* What a channel shows of a text in a larger one.  & is \o, which the     *)
(* provers see only through these lemmas.                                  *)

a & b == a \o b

LEMMA JoinType == \A a, b \in Text : a & b \in Text
  BY CatType DEF &

LEMMA JoinAssoc == \A a, b, c \in Text : (a & b) & c = a & (b & c)
  BY CatAssoc DEF &

LEMMA JoinEmpty == <<>> \in Text /\ \A a \in Text : a & <<>> = a /\ <<>> & a = a
  BY CatEmpty DEF &

LEMMA JoinLen == \A a, b \in Text : Len(a & b) = Len(a) + Len(b)
  BY CatLen DEF &

LEMMA JoinAt ==
    \A a, b \in Text : \A i \in 1..(Len(a) + Len(b)) :
        (a & b)[i] = IF i <= Len(a) THEN a[i] ELSE b[i - Len(a)]
  BY CatAt DEF &

LEMMA JoinCancel ==
    ASSUME NEW a \in Text, NEW b \in Text, NEW c \in Text, NEW d \in Text,
           a & b = c & d, Len(a) = Len(c)
    PROVE  a = c /\ b = d
  BY CatCancel DEF &

LEMMA JoinCut ==
    \A a \in Text : \A k \in 0..Len(a) :
        a = SubSeq(a, 1, k) & SubSeq(a, k + 1, Len(a))
  BY CutText DEF &

LEMMA JoinFlat ==
    ASSUME NEW p \in Seq(Text), NEW q \in Seq(Text)
    PROVE  FlattenSeq(p \o q) = FlattenSeq(p) & FlattenSeq(q)
  BY FlattenCat DEF &

\* A character of the middle one of three.
LEMMA InMiddle ==
    ASSUME NEW pre \in Text, NEW a \in Text, NEW post \in Text, NEW k \in 1..Len(a)
    PROVE  /\ pre & (a & post) \in Text
           /\ Len(pre) + k \in 1..Len(pre & (a & post))
           /\ (pre & (a & post))[Len(pre) + k] = a[k]
<1>1. a & post \in Text /\ Len(a & post) = Len(a) + Len(post) BY JoinType, JoinLen
<1>2. Len(pre) \in Nat /\ Len(a) \in Nat /\ Len(post) \in Nat BY TextLen
<1>3. PICK s, j : s = pre & (a & post) /\ j = Len(pre) + k OBVIOUS
<1>4. s \in Text /\ Len(s) = Len(pre) + Len(a & post) BY <1>1, <1>3, JoinType, JoinLen
<1>5. j \in 1..(Len(pre) + Len(a & post)) /\ ~(j <= Len(pre)) /\ j - Len(pre) = k
  BY <1>1, <1>2, <1>3
<1>6. s[j] = (a & post)[k] BY <1>1, <1>3, <1>5, JoinAt
<1>7. (a & post)[k] = a[k]
  <2>1. k \in 1..(Len(a) + Len(post)) /\ k <= Len(a) BY <1>2
  <2> QED BY <2>1, JoinAt
<1> QED BY <1>3, <1>4, <1>5, <1>6, <1>7

\* What the channel shows of rest when it has read pre.
Shows(channel, pre, rest, mode) == Read(channel, pre & rest)[<<Len(pre) + 1, mode>>]

\* Whatever surrounds it, the channel reads img as inn.
Carries(channel, from, img, inn, to) ==
    \A pre, post \in Text :
        Shows(channel, pre, img & post, from) =
            inn & Shows(channel, pre & img, post, to)

LEMMA ShowsIs ==
    \A channel : \A pre, rest \in Text : \A mode \in Modes :
        Shows(channel, pre, rest, mode) \in Text
<1> SUFFICES ASSUME NEW channel, NEW pre \in Text, NEW rest \in Text, NEW mode \in Modes
             PROVE  Shows(channel, pre, rest, mode) \in Text
  OBVIOUS
<1>1. PICK s : s = pre & rest OBVIOUS
<1>2. s \in Text /\ Len(pre) + 1 \in 1..(Len(s) + 3)
  <2>1. s \in Text /\ Len(s) = Len(pre) + Len(rest) BY <1>1, JoinType, JoinLen
  <2>2. Len(pre) \in Nat /\ Len(rest) \in Nat BY TextLen
  <2> QED BY <2>1, <2>2
<1>3. Read(channel, s)[<<Len(pre) + 1, mode>>] \in Text BY <1>2, ReadIs
<1> QED BY <1>1, <1>3 DEF Shows

\* One step over a.
LEMMA OneStep ==
    ASSUME NEW channel, NEW pre \in Text, NEW a \in Text, Len(a) > 0, NEW post \in Text,
           NEW mode \in Modes, NEW shows \in Text, NEW to,
           ReadsAt(channel, pre & (a & post), Len(pre) + 1, mode) =
               Step(shows, Len(pre) + 1 + Len(a), to)
    PROVE  Shows(channel, pre, a & post, mode) = shows & Shows(channel, pre & a, post, to)
<1>1. PICK s, i, j : s = pre & (a & post) /\ i = Len(pre) + 1 /\ j = i + Len(a) OBVIOUS
<1>2. Len(pre) \in Nat /\ Len(a) \in Nat BY TextLen
<1>3. 1 \in 1..Len(a) BY <1>2
<1>4. s \in Text /\ i \in 1..Len(s) BY <1>1, <1>3, InMiddle
<1>5. Len(s) \in Nat BY <1>4, TextLen
<1>6. i \in 1..(Len(s) + 3) /\ ~(i > Len(s)) BY <1>4, <1>5
<1>7. Read(channel, s)[<<i, mode>>] = ReadFrom(channel, s, Read(channel, s), i, mode)
  BY <1>4, <1>6, ReadUnfolds
<1>8. ReadFrom(channel, s, Read(channel, s), i, mode) =
        shows & Read(channel, s)[<<j, to>>]
  <2>1. /\ ReadsAt(channel, s, i, mode).shows = shows
        /\ ReadsAt(channel, s, i, mode).next = j
        /\ ReadsAt(channel, s, i, mode).mode = to
    BY <1>1 DEF Step
  <2> QED BY <1>6, <2>1 DEF ReadFrom, &
<1>9. s = (pre & a) & post BY <1>1, JoinAssoc
<1>10. Len(pre & a) + 1 = j
  <2>1. Len(pre & a) = Len(pre) + Len(a) BY JoinLen
  <2> QED BY <1>1, <1>2, <2>1
<1>11. Shows(channel, pre, a & post, mode) = Read(channel, s)[<<i, mode>>]
  BY <1>1 DEF Shows
<1>12. Shows(channel, pre & a, post, to) = Read(channel, s)[<<j, to>>]
  BY <1>9, <1>10 DEF Shows
<1> QED BY <1>7, <1>8, <1>11, <1>12

LEMMA CarriesCat ==
    ASSUME NEW channel, NEW from \in Modes, NEW via \in Modes, NEW to \in Modes,
           NEW a \in Text, NEW x \in Text, NEW b \in Text, NEW y \in Text,
           Carries(channel, from, a, x, via), Carries(channel, via, b, y, to)
    PROVE  Carries(channel, from, a & b, x & y, to)
<1> SUFFICES ASSUME NEW pre \in Text, NEW post \in Text
             PROVE  Shows(channel, pre, (a & b) & post, from) =
                        (x & y) & Shows(channel, pre & (a & b), post, to)
  BY DEF Carries
<1>1. b & post \in Text /\ pre & a \in Text /\ a & b \in Text BY JoinType
<1>2. (a & b) & post = a & (b & post) /\ pre & (a & b) = (pre & a) & b BY JoinAssoc
<1>3. Shows(channel, pre, a & (b & post), from) =
        x & Shows(channel, pre & a, b & post, via)
  BY <1>1 DEF Carries
<1>4. Shows(channel, pre & a, b & post, via) =
        y & Shows(channel, (pre & a) & b, post, to)
  BY <1>1 DEF Carries
<1>5. PICK z : z = Shows(channel, (pre & a) & b, post, to) /\ z \in Text
  BY <1>1, JoinType, ShowsIs
<1>6. x & (y & z) = (x & y) & z BY <1>5, JoinAssoc
<1> QED BY <1>2, <1>3, <1>4, <1>5, <1>6

LEMMA CarriesNothing ==
    ASSUME NEW channel, NEW mode \in Modes
    PROVE  Carries(channel, mode, <<>>, <<>>, mode)
<1> SUFFICES ASSUME NEW pre \in Text, NEW post \in Text
             PROVE  Shows(channel, pre, <<>> & post, mode) =
                        <<>> & Shows(channel, pre & <<>>, post, mode)
  BY DEF Carries
<1>1. <<>> & post = post /\ pre & <<>> = pre BY JoinEmpty
<1>2. Shows(channel, pre, post, mode) \in Text BY ShowsIs
<1>3. <<>> & Shows(channel, pre, post, mode) = Shows(channel, pre, post, mode)
  BY <1>2, JoinEmpty
<1> QED BY <1>1, <1>3

\* A text that is carried is what the channel shows of it.
LEMMA CarriesReads ==
    ASSUME NEW channel, NEW s \in Text, NEW v \in Text,
           Carries(channel, "plain", s, v, "plain")
    PROVE  Reads(channel, s) = v
<1>1. "plain" \in Modes BY DEF Modes
<1>2. /\ <<>> \in Text /\ Len(<<>>) = 0 /\ <<>> & (s & <<>>) = s /\ <<>> & s = s
      /\ s & <<>> = s
  BY JoinEmpty, EmptyText
<1>3. Shows(channel, <<>>, s, "plain") = v & Shows(channel, s, <<>>, "plain")
  BY <1>2 DEF Carries
<1>4. Shows(channel, <<>>, s, "plain") = Reads(channel, s)
  <2>1. Len(<<>>) + 1 = 1 BY <1>2
  <2> QED BY <1>2, <2>1, ReadUnfolds DEF Shows
<1>5. Shows(channel, s, <<>>, "plain") = <<>>
  <2>1. Len(s) \in Nat BY TextLen
  <2>2. Len(s) + 1 \in 1..(Len(s) + 3) /\ Len(s) + 1 > Len(s) BY <2>1
  <2>3. Read(channel, s)[<<Len(s) + 1, "plain">>] =
          ReadFrom(channel, s, Read(channel, s), Len(s) + 1, "plain")
    BY <1>1, <2>2, ReadUnfolds
  <2>4. ReadFrom(channel, s, Read(channel, s), Len(s) + 1, "plain") = <<>>
    BY <2>2 DEF ReadFrom
  <2> QED BY <1>2, <2>3, <2>4 DEF Shows
<1> QED BY <1>3, <1>4, <1>5, JoinEmpty

\* Texts that are carried, one after the other.
LEMMA CarriesFlat ==
    ASSUME NEW channel, NEW mode \in Modes, NEW p \in Seq(Text), NEW q \in Seq(Text),
           Len(p) = Len(q), \A i \in 1..Len(p) : Carries(channel, mode, p[i], q[i], mode)
    PROVE  Carries(channel, mode, FlattenSeq(p), FlattenSeq(q), mode)
<1>1. PICK n : n = Len(p) /\ n \in Nat BY LenProperties
<1>2. PICK f : f[0] = <<>> /\ \A i \in 1..n : f[i] = f[i-1] \o p[i] BY <1>1, FlattenFun
<1>3. PICK g : g[0] = <<>> /\ \A i \in 1..n : g[i] = g[i-1] \o q[i] BY <1>1, FlattenFun
<1>4. FlattenSeq(p) = f[n] /\ \A i \in 0..n : f[i] \in Text BY <1>1, <1>2, FlattenIs
<1>5. FlattenSeq(q) = g[n] /\ \A i \in 0..n : g[i] \in Text BY <1>1, <1>3, FlattenIs
<1> DEFINE P == {i \in Nat : i <= n => Carries(channel, mode, f[i], g[i], mode)}
<1>6. 0 \in P BY <1>2, <1>3, CarriesNothing
<1>7. ASSUME NEW i \in Nat, i \in P PROVE i + 1 \in P
  <2>1. SUFFICES ASSUME i + 1 <= n PROVE Carries(channel, mode, f[i+1], g[i+1], mode)
    OBVIOUS
  <2>2. i + 1 \in 1..n /\ i \in 0..n /\ (i + 1) - 1 = i BY <1>1, <2>1
  <2>3. f[i+1] = f[i] & p[i+1] /\ g[i+1] = g[i] & q[i+1] BY <1>2, <1>3, <2>2 DEF &
  <2>4. Carries(channel, mode, f[i], g[i], mode) BY <1>1, <1>7, <2>1
  <2>5. p[i+1] \in Text /\ q[i+1] \in Text BY <1>1, <2>2, ElementOfSeq
  <2>6. Carries(channel, mode, p[i+1], q[i+1], mode) BY <1>1, <2>2
  <2>7. Carries(channel, mode, f[i] & p[i+1], g[i] & q[i+1], mode)
    BY <1>4, <1>5, <2>2, <2>4, <2>5, <2>6, CarriesCat
  <2> QED BY <2>3, <2>7
<1>8. \A i \in Nat : i \in P
  <2> HIDE DEF P
  <2> QED BY <1>6, <1>7, Induct
<1>9. Carries(channel, mode, f[n], g[n], mode) BY <1>1, <1>8
<1> QED BY <1>4, <1>5, <1>9

\* Where the characters of a are in a larger text.
Begins(s, i, a) ==
    /\ i \in 1..Len(s) /\ i + Len(a) - 1 <= Len(s)
    /\ \A k \in 1..Len(a) : s[i + k - 1] = a[k]

LEMMA BeginsInMiddle ==
    ASSUME NEW pre \in Text, NEW a \in Text, Len(a) > 0, NEW post \in Text
    PROVE  pre & (a & post) \in Text /\ Begins(pre & (a & post), Len(pre) + 1, a)
<1>1. PICK s, i : s = pre & (a & post) /\ i = Len(pre) + 1 OBVIOUS
<1>2. /\ s \in Text
      /\ \A k \in 1..Len(a) : Len(pre) + k \in 1..Len(s) /\ s[Len(pre) + k] = a[k]
  <2>1. s \in Text BY <1>1, JoinType
  <2>2. ASSUME NEW k \in 1..Len(a)
        PROVE  Len(pre) + k \in 1..Len(s) /\ s[Len(pre) + k] = a[k]
    <3>1. /\ Len(pre) + k \in 1..Len(pre & (a & post))
          /\ (pre & (a & post))[Len(pre) + k] = a[k]
      BY InMiddle
    <3> QED BY <1>1, <3>1
  <2> QED BY <2>1, <2>2
<1>3. Len(pre) \in Nat /\ Len(a) \in Nat /\ Len(s) \in Nat BY <1>2, TextLen
<1>4. \A k \in 1..Len(a) : Len(pre) + k = i + k - 1 BY <1>1, <1>3
<1>5. \A k \in 1..Len(a) : i + k - 1 \in 1..Len(s) /\ s[i + k - 1] = a[k]
  BY <1>2, <1>4
<1>6. 1 \in 1..Len(a) /\ Len(a) \in 1..Len(a) BY <1>3
<1>7. i \in 1..Len(s) /\ i + Len(a) - 1 \in 1..Len(s)
  <2>1. i + 1 - 1 = i BY <1>1, <1>3
  <2>2. i + 1 - 1 \in 1..Len(s) BY <1>5, <1>6
  <2> QED BY <1>5, <1>6, <2>1, <2>2
<1>8. Begins(s, i, a) BY <1>3, <1>5, <1>7 DEF Begins
<1> QED BY <1>1, <1>2, <1>8

\* What leads to the same step wherever it is.
LEMMA StepCarries ==
    ASSUME NEW channel, NEW mode \in Modes, NEW a \in Text, Len(a) > 0,
           NEW shows \in Text, NEW to,
           \A s \in Text, i \in Nat :
              Begins(s, i, a) =>
                ReadsAt(channel, s, i, mode) = Step(shows, i + Len(a), to)
    PROVE  Carries(channel, mode, a, shows, to)
<1>1. ASSUME NEW pre \in Text, NEW post \in Text
      PROVE  Shows(channel, pre, a & post, mode) = shows & Shows(channel, pre & a, post, to)
  <2>1. PICK s, i : s = pre & (a & post) /\ i = Len(pre) + 1 OBVIOUS
  <2>2. s \in Text /\ Begins(s, i, a) BY <2>1, BeginsInMiddle
  <2>3. i \in Nat BY <2>1, TextLen
  <2>4. ReadsAt(channel, s, i, mode) = Step(shows, i + Len(a), to) BY <2>2, <2>3
  <2> QED BY <2>1, <2>4, OneStep
<1> QED BY <1>1 DEF Carries

LEMMA CharCarries ==
    ASSUME NEW channel, NEW mode \in Modes, NEW x \in Chars, NEW shows \in Text, NEW to,
           \A s \in Text : \A i \in 1..Len(s) :
              s[i] = x => ReadsAt(channel, s, i, mode) = Step(shows, i + 1, to)
    PROVE  Carries(channel, mode, <<x>>, shows, to)
<1>1. PICK a : a = <<x>> /\ a \in Text /\ Len(a) = 1 /\ a[1] = x BY OneText
<1>2. ASSUME NEW s \in Text, NEW i \in Nat, Begins(s, i, a)
      PROVE  ReadsAt(channel, s, i, mode) = Step(shows, i + Len(a), to)
  <2>1. 1 \in 1..Len(a) /\ i + 1 - 1 = i BY <1>1
  <2>2. i \in 1..Len(s) /\ s[i] = x BY <1>1, <1>2, <2>1 DEF Begins
  <2> QED BY <1>1, <2>2
<1>3. Len(a) > 0 BY <1>1
<1>4. Carries(channel, mode, a, shows, to) BY <1>1, <1>2, <1>3, StepCarries
<1> QED BY <1>1, <1>4

\* The characters that the channel reads as themselves.
Safe(channel, mode, x) ==
    \/ mode = "code" /\ x \notin {"~", "\\"}
    \/ mode = "link" /\ x # ">"
    \/ mode = "bold" /\ x # "*" /\ (channel = "telegram" => x \notin Special)
    \/ /\ mode = "plain" /\ x \notin {"~", "*"}
       /\ IF channel = "telegram" THEN x \notin Special ELSE x # "<"

LEMMA SafeCarried ==
    ASSUME NEW channel, NEW mode \in Modes, NEW x \in Chars, Safe(channel, mode, x)
    PROVE  Carries(channel, mode, <<x>>, <<x>>, mode)
<1>1. PICK shows : shows = <<x>> /\ shows \in Text BY OneText
<1>2. ASSUME NEW s \in Text, NEW i \in 1..Len(s), s[i] = x
      PROVE  ReadsAt(channel, s, i, mode) = Step(<<s[i]>>, i + 1, mode)
  <2>1. CASE mode = "code" BY <1>2, <2>1, StepInside DEF Safe
  <2>2. CASE mode = "link" BY <1>2, <2>2, StepInLink DEF Safe
  <2>3. CASE mode \in {"plain", "bold"}
    <3>1. /\ channel = "telegram" => s[i] \notin Special
          /\ s[i] # "*" /\ (mode = "plain" => s[i] # "~")
          /\ mode = "plain" /\ channel # "telegram" => s[i] # "<"
      BY <1>2, <2>3 DEF Safe
    <3>2. CASE mode = "plain" BY <3>1, <3>2, StepOutside
    <3>3. CASE mode = "bold" BY <3>1, <3>3, StepOutside
    <3> QED BY <2>3, <3>2, <3>3
  <2> QED BY <2>1, <2>2, <2>3 DEF Safe
<1>3. \A s \in Text : \A i \in 1..Len(s) :
        s[i] = x => ReadsAt(channel, s, i, mode) = Step(shows, i + 1, mode)
  BY <1>1, <1>2
<1> QED BY <1>1, <1>3, CharCarries

LEMMA EscapedCarried ==
    ASSUME NEW channel, channel = "telegram", NEW mode, mode \in {"plain", "bold"},
           NEW x \in Chars
    PROVE  Carries(channel, mode, <<"\\", x>>, <<x>>, mode)
<1>0. mode \in Modes BY DEF Modes
<1>1. PICK a : /\ a = <<"\\", x>> /\ a \in Text /\ Len(a) = 2 /\ Len(a) > 0
               /\ a[1] = "\\" /\ a[2] = x
  <2>1. ASSUME NEW S, NEW y \in S, NEW z \in S
        PROVE  <<y, z>> \in Seq(S) /\ Len(<<y, z>>) = 2 /\ <<y, z>>[1] = y /\ <<y, z>>[2] = z
    OBVIOUS
  <2>2. "\\" \in Chars BY CharsAre
  <2>3. PICK a : a = <<"\\", x>> OBVIOUS
  <2>4. a \in Text /\ Len(a) = 2 /\ a[1] = "\\" /\ a[2] = x BY <2>1, <2>2, <2>3 DEF Text
  <2> QED BY <2>3, <2>4
<1>2. PICK shows : shows = <<x>> /\ shows \in Text BY OneText
<1>3. ASSUME NEW s \in Text, NEW i \in Nat, Begins(s, i, a)
      PROVE  ReadsAt(channel, s, i, mode) = Step(shows, i + Len(a), mode)
  <2>1. 1 \in 1..Len(a) /\ 2 \in 1..Len(a) /\ i + 1 - 1 = i /\ i + 2 - 1 = i + 1 BY <1>1
  <2>2. i \in 1..Len(s) /\ i + 1 <= Len(s) /\ s[i] = "\\" /\ s[i + 1] = x
    BY <1>1, <1>3, <2>1 DEF Begins
  <2>3. i # Len(s) BY <2>2, TextLen
  <2>4. i \in 1..Len(s) BY <2>2
  <2>5. channel = "telegram" /\ s[i] = "\\" /\ i # Len(s) =>
          ReadsAt(channel, s, i, mode) = Step(<<s[i + 1]>>, i + 2, mode)
    <3>1. CASE mode = "plain" BY <2>4, <3>1, StepOutside
    <3>2. CASE mode = "bold" BY <2>4, <3>2, StepOutside
    <3> QED BY <3>1, <3>2
  <2> QED BY <1>1, <1>2, <2>2, <2>3, <2>5
<1> QED BY <1>0, <1>1, <1>2, <1>3, StepCarries

\* The marks of one character.
LEMMA MarkCarried ==
    ASSUME NEW channel
    PROVE  /\ Carries(channel, "plain", <<"*">>, <<>>, "bold")
           /\ Carries(channel, "bold", <<"*">>, <<>>, "plain")
           /\ Carries(channel, "code", Tick, <<>>, "plain")
           /\ channel # "telegram" => Carries(channel, "plain", <<"<">>, <<>>, "url")
           /\ Carries(channel, "url", <<"|">>, <<>>, "link")
           /\ \A x \in Chars : x # "|" => Carries(channel, "url", <<x>>, <<>>, "url")
           /\ Carries(channel, "link", <<">">>, <<>>, "plain")
<1>1. PICK shows : shows = <<>> /\ shows \in Text BY JoinEmpty
<1>2. ASSUME NEW mode \in Modes, NEW x \in Chars, NEW to,
             \A s \in Text : \A i \in 1..Len(s) :
                s[i] = x => ReadsAt(channel, s, i, mode) = Step(<<>>, i + 1, to)
      PROVE  Carries(channel, mode, <<x>>, <<>>, to)
  BY <1>1, <1>2, CharCarries
<1>3. /\ "plain" \in Modes /\ "bold" \in Modes /\ "code" \in Modes /\ "url" \in Modes
      /\ "link" \in Modes
  BY DEF Modes
<1>4. Carries(channel, "plain", <<"*">>, <<>>, "bold")
  <2>1. \A s \in Text : \A i \in 1..Len(s) :
          s[i] = "*" => ReadsAt(channel, s, i, "plain") = Step(<<>>, i + 1, "bold")
    BY StepOutside
  <2> QED BY <1>2, <1>3, <2>1, CharsAre
<1>5. Carries(channel, "bold", <<"*">>, <<>>, "plain")
  <2>1. \A s \in Text : \A i \in 1..Len(s) :
          s[i] = "*" => ReadsAt(channel, s, i, "bold") = Step(<<>>, i + 1, "plain")
    BY StepOutside
  <2> QED BY <1>2, <1>3, <2>1, CharsAre
<1>6. Carries(channel, "code", Tick, <<>>, "plain")
  <2>1. \A s \in Text : \A i \in 1..Len(s) :
          s[i] = "~" => ReadsAt(channel, s, i, "code") = Step(<<>>, i + 1, "plain")
    BY StepInside
  <2> QED BY <1>2, <1>3, <2>1, CharsAre DEF Tick
<1>7. ASSUME channel # "telegram" PROVE Carries(channel, "plain", <<"<">>, <<>>, "url")
  <2>1. \A s \in Text : \A i \in 1..Len(s) :
          s[i] = "<" => ReadsAt(channel, s, i, "plain") = Step(<<>>, i + 1, "url")
    BY <1>7, StepOutside
  <2> QED BY <1>2, <1>3, <2>1, CharsAre
<1>8. Carries(channel, "url", <<"|">>, <<>>, "link")
  <2>1. \A s \in Text : \A i \in 1..Len(s) :
          s[i] = "|" => ReadsAt(channel, s, i, "url") = Step(<<>>, i + 1, "link")
    BY StepInLink
  <2> QED BY <1>2, <1>3, <2>1, CharsAre
<1>9. ASSUME NEW x \in Chars, x # "|" PROVE Carries(channel, "url", <<x>>, <<>>, "url")
  <2>1. \A s \in Text : \A i \in 1..Len(s) :
          s[i] = x => ReadsAt(channel, s, i, "url") = Step(<<>>, i + 1, "url")
    BY <1>9, StepInLink
  <2> QED BY <1>2, <1>3, <2>1
<1>10. Carries(channel, "link", <<">">>, <<>>, "plain")
  <2>1. \A s \in Text : \A i \in 1..Len(s) :
          s[i] = ">" => ReadsAt(channel, s, i, "link") = Step(<<>>, i + 1, "plain")
    BY StepInLink
  <2> QED BY <1>2, <1>3, <2>1, CharsAre
<1> QED BY <1>4, <1>5, <1>6, <1>7, <1>8, <1>9, <1>10

LEMMA FenceCarried ==
    ASSUME NEW channel
    PROVE  /\ Carries(channel, "plain", Fence, <<>>, "block")
           /\ Carries(channel, "block", Fence, <<>>, "plain")
<1>1. PICK shows : shows = <<>> /\ shows \in Text BY JoinEmpty
<1>2. PICK a : a = Fence /\ a \in Text /\ Len(a) = 3 /\ Len(a) > 0 /\ \A k \in 1..3 : a[k] = "~"
  BY MarksAreTexts
<1>3. ASSUME NEW s \in Text, NEW i \in Nat, Begins(s, i, a)
      PROVE  i \in 1..Len(s) /\ At(s, i, Fence)
  <2>1. /\ 1 \in 1..Len(a) /\ 2 \in 1..Len(a) /\ 3 \in 1..Len(a)
        /\ i + 1 - 1 = i /\ i + 2 - 1 = i + 1 /\ i + 3 - 1 = i + 2
    BY <1>2
  <2>2. /\ i \in 1..Len(s) /\ i + 2 <= Len(s)
        /\ s[i] = "~" /\ s[i + 1] = "~" /\ s[i + 2] = "~"
    BY <1>2, <1>3, <2>1 DEF Begins
  <2> QED BY <2>2, AtFence
<1>4. Carries(channel, "plain", a, shows, "block")
  <2>1. \A s \in Text, i \in Nat :
          Begins(s, i, a) => ReadsAt(channel, s, i, "plain") = Step(<<>>, i + 3, "block")
    BY <1>3, StepOutside
  <2>2. PICK mode, to : mode = "plain" /\ to = "block" /\ mode \in Modes BY DEF Modes
  <2>3. \A s \in Text, i \in Nat :
          Begins(s, i, a) => ReadsAt(channel, s, i, mode) = Step(shows, i + Len(a), to)
    BY <1>1, <1>2, <2>1, <2>2
  <2> QED BY <1>1, <1>2, <2>2, <2>3, StepCarries
<1>5. Carries(channel, "block", a, shows, "plain")
  <2>1. \A s \in Text, i \in Nat :
          Begins(s, i, a) => ReadsAt(channel, s, i, "block") = Step(<<>>, i + 3, "plain")
    BY <1>3, StepInside
  <2>2. PICK mode, to : mode = "block" /\ to = "plain" /\ mode \in Modes BY DEF Modes
  <2>3. \A s \in Text, i \in Nat :
          Begins(s, i, a) => ReadsAt(channel, s, i, mode) = Step(shows, i + Len(a), to)
    BY <1>1, <1>2, <2>1, <2>2
  <2> QED BY <1>1, <1>2, <2>2, <2>3, StepCarries
<1> QED BY <1>1, <1>2, <1>4, <1>5

\* A text is its characters one after the other.
LEMMA CharsOf ==
    ASSUME NEW s \in Text
    PROVE  \E p \in Seq(Text) : /\ Len(p) = Len(s) /\ FlattenSeq(p) = s
                                /\ \A i \in 1..Len(s) : p[i] = <<s[i]>>
<1>1. Len(s) \in Nat BY TextLen
<1>2. PICK p, f : /\ p = [i \in 1..Len(s) |-> <<s[i]>>]
                  /\ f = [i \in 0..Len(s) |-> SubSeq(s, 1, i)]
  OBVIOUS
<1>3. \A i \in 1..Len(s) : p[i] = <<s[i]>> /\ p[i] \in Text BY <1>2, TextLen, OneText
<1>4. p \in Seq(Text) /\ Len(p) = Len(s)
  <2>1. p = [i \in 1..Len(s) |-> p[i]] BY <1>2
  <2>2. p \in Seq(Text) BY <1>1, <1>3, <2>1, MapIs
  <2>3. DOMAIN p = 1..Len(s) /\ DOMAIN p = 1..Len(p) /\ Len(p) \in Nat
    BY <1>2, <2>2, LenProperties
  <2> QED BY <1>1, <2>2, <2>3
<1>5. f[0] = <<>>
  <2>1. f[0] = SubSeq(s, 1, 0) BY <1>1, <1>2
  <2> QED BY <2>1, SubSeqEmpty
<1>6. ASSUME NEW i \in 1..Len(s) PROVE f[i] = f[i-1] \o p[i]
  <2>1. 1 \in 1..Len(s) /\ i \in 1..Len(s) BY <1>1
  <2>2. SubSeq(s, 1, i) = SubSeq(s, 1, i - 1) \o <<s[i]>>
    BY <2>1, SubSeqRecursiveSecond DEF Text
  <2>3. f[i] = SubSeq(s, 1, i) /\ f[i-1] = SubSeq(s, 1, i - 1)
    <3>1. i \in 0..Len(s) /\ i - 1 \in 0..Len(s) BY <1>1
    <3> QED BY <1>2, <3>1
  <2> QED BY <1>3, <2>2, <2>3
<1>7. FlattenSeq(p) = f[Len(p)] BY <1>4, <1>5, <1>6, FlattenIs
<1>8. f[Len(s)] = SubSeq(s, 1, Len(s)) BY <1>1, <1>2
<1>9. SubSeq(s, 1, Len(s)) = s BY SubSeqFull DEF Text
<1> QED BY <1>3, <1>4, <1>7, <1>8, <1>9

LEMMA SafeText ==
    ASSUME NEW channel, NEW mode \in Modes, NEW s \in Text,
           \A x \in ToSet(s) : Safe(channel, mode, x)
    PROVE  Carries(channel, mode, s, s, mode)
<1>1. PICK p \in Seq(Text) : /\ Len(p) = Len(s) /\ FlattenSeq(p) = s
                             /\ \A i \in 1..Len(s) : p[i] = <<s[i]>>
  BY CharsOf
<1>2. ASSUME NEW i \in 1..Len(p) PROVE Carries(channel, mode, p[i], p[i], mode)
  <2>1. s[i] \in Chars /\ s[i] \in ToSet(s) BY <1>1, TextLen DEF ToSet
  <2>2. Carries(channel, mode, <<s[i]>>, <<s[i]>>, mode) BY <2>1, SafeCarried
  <2> QED BY <1>1, <2>2
<1>3. Carries(channel, mode, FlattenSeq(p), FlattenSeq(p), mode) BY <1>2, CarriesFlat
<1> QED BY <1>1, <1>3

LEMMA UrlText ==
    ASSUME NEW channel, NEW s \in Text, "|" \notin ToSet(s)
    PROVE  Carries(channel, "url", s, <<>>, "url")
<1>1. PICK p \in Seq(Text) : /\ Len(p) = Len(s) /\ FlattenSeq(p) = s
                             /\ \A i \in 1..Len(s) : p[i] = <<s[i]>>
  BY CharsOf
<1>2. PICK url : url = "url" /\ url \in Modes BY DEF Modes
<1>3. Len(s) \in Nat BY TextLen
<1>4. PICK q, f : q = [i \in 1..Len(s) |-> <<>>] /\ f = [i \in 0..Len(s) |-> <<>>]
  OBVIOUS
<1>5. q \in Seq(Text) /\ Len(q) = Len(s)
  <2>1. \A i \in 1..Len(s) : q[i] \in Text BY <1>4, JoinEmpty
  <2>2. q = [i \in 1..Len(s) |-> q[i]] BY <1>4
  <2>3. q \in Seq(Text) BY <1>3, <2>1, <2>2, MapIs
  <2>4. DOMAIN q = 1..Len(s) /\ DOMAIN q = 1..Len(q) /\ Len(q) \in Nat
    BY <1>4, <2>3, LenProperties
  <2> QED BY <1>3, <2>3, <2>4
<1>6. FlattenSeq(q) = <<>>
  <2>1. \A i \in 0..Len(s) : f[i] = <<>> BY <1>4
  <2>2. f[0] = <<>> /\ f[Len(s)] = <<>> BY <1>3, <2>1
  <2>3. \A i \in 1..Len(s) : f[i] = f[i-1] \o q[i]
    <3>1. SUFFICES ASSUME NEW i \in 1..Len(s) PROVE f[i] = f[i-1] \o q[i]
      OBVIOUS
    <3>2. f[i] = <<>> /\ f[i-1] = <<>> /\ q[i] = <<>> BY <1>3, <1>4, <2>1
    <3>3. <<>> \o <<>> = <<>> BY CatEmpty
    <3> QED BY <3>2, <3>3
  <2>4. FlattenSeq(q) = f[Len(q)] BY <1>5, <2>2, <2>3, FlattenIs
  <2> QED BY <1>5, <2>2, <2>4
<1>7. ASSUME NEW i \in 1..Len(p) PROVE Carries(channel, url, p[i], q[i], url)
  <2>1. s[i] \in Chars /\ s[i] # "|" BY <1>1, TextLen DEF ToSet
  <2>2. Carries(channel, url, <<s[i]>>, <<>>, url) BY <1>2, <2>1, MarkCarried
  <2> QED BY <1>1, <1>4, <2>2
<1>8. Carries(channel, url, FlattenSeq(p), FlattenSeq(q), url)
  BY <1>1, <1>2, <1>5, <1>7, CarriesFlat
<1> QED BY <1>1, <1>2, <1>6, <1>8

LEMMA EscapedText ==
    ASSUME NEW channel, channel = "telegram", NEW mode, mode \in {"plain", "bold"},
           NEW chars, NEW s \in Text,
           \A x \in ToSet(s) : x \in chars \/ Safe(channel, mode, x)
    PROVE  Carries(channel, mode, Escape(s, chars), s, mode)
<1>1. PICK p \in Seq(Text) : /\ Len(p) = Len(s) /\ FlattenSeq(p) = s
                             /\ \A i \in 1..Len(s) : p[i] = <<s[i]>>
  BY CharsOf
<1>2. PICK q : q = [i \in DOMAIN s |->
                       IF s[i] \in chars THEN <<"\\", s[i]>> ELSE <<s[i]>>]
  OBVIOUS
<1>3. mode \in Modes BY DEF Modes
<1>4. Len(s) \in Nat /\ DOMAIN s = 1..Len(s) /\ \A i \in 1..Len(s) : s[i] \in Chars
  BY TextLen
<1>5. ASSUME NEW i \in 1..Len(s)
      PROVE  q[i] \in Text /\ Carries(channel, mode, q[i], p[i], mode)
  <2>1. p[i] = <<s[i]>> /\ s[i] \in ToSet(s) BY <1>1, <1>4 DEF ToSet
  <2>2. CASE s[i] \in chars
    <3>1. q[i] = <<"\\", s[i]>> BY <1>2, <1>4, <2>2
    <3>2. <<"\\", s[i]>> \in Text
      <4>1. ASSUME NEW S, NEW x \in S, NEW y \in S PROVE <<x, y>> \in Seq(S)
        OBVIOUS
      <4> QED BY <1>4, <4>1, CharsAre DEF Text
    <3>3. Carries(channel, mode, <<"\\", s[i]>>, <<s[i]>>, mode)
      BY <1>4, EscapedCarried
    <3> QED BY <2>1, <3>1, <3>2, <3>3
  <2>3. CASE s[i] \notin chars
    <3>1. q[i] = <<s[i]>> BY <1>2, <1>4, <2>3
    <3>2. Safe(channel, mode, s[i]) BY <2>1, <2>3
    <3>3. Carries(channel, mode, <<s[i]>>, <<s[i]>>, mode)
      BY <1>3, <1>4, <3>2, SafeCarried
    <3>4. <<s[i]>> \in Text BY <1>4, OneText
    <3> QED BY <2>1, <3>1, <3>3, <3>4
  <2> QED BY <2>2, <2>3
<1>6. q \in Seq(Text) /\ Len(q) = Len(s)
  <2>1. \A i \in 1..Len(s) : q[i] \in Text BY <1>5
  <2>2. q = [i \in 1..Len(s) |-> q[i]] BY <1>2, <1>4
  <2>3. q \in Seq(Text) BY <1>4, <2>1, <2>2, MapIs
  <2>4. DOMAIN q = 1..Len(s) /\ DOMAIN q = 1..Len(q) /\ Len(q) \in Nat
    BY <1>2, <1>4, <2>3, LenProperties
  <2> QED BY <1>4, <2>3, <2>4
<1>7. Carries(channel, mode, FlattenSeq(q), FlattenSeq(p), mode)
  BY <1>1, <1>3, <1>5, <1>6, CarriesFlat
<1>8. Escape(s, chars) = FlattenSeq(q) BY <1>2 DEF Escape
<1> QED BY <1>1, <1>7, <1>8

\* A text whose characters are read as themselves where it is.
AsItself(channel, mode, pre, s, post) ==
    \A k \in 1..Len(s) :
        ReadsAt(channel, pre & (s & post), Len(pre) + k, mode) =
            Step(<<s[k]>>, Len(pre) + k + 1, mode)

LEMMA ReadsOn ==
    ASSUME NEW channel, NEW mode \in Modes, NEW pre \in Text, NEW s \in Text,
           NEW post \in Text, AsItself(channel, mode, pre, s, post)
    PROVE  Shows(channel, pre, s & post, mode) = s & Shows(channel, pre & s, post, mode)
<1> DEFINE Begin(k) == SubSeq(s, 1, k)
           End(k) == SubSeq(s, k + 1, Len(s))
           P == {k \in Nat : k <= Len(s) =>
                    Shows(channel, pre, s & post, mode) =
                       Begin(k) & Shows(channel, pre & Begin(k), End(k) & post, mode)}
<1>1. Len(s) \in Nat /\ Len(pre) \in Nat BY TextLen
<1>2. ASSUME NEW k \in 0..Len(s)
      PROVE  Begin(k) \in Text /\ End(k) \in Text /\ Len(Begin(k)) = k /\ s = Begin(k) & End(k)
  <2>1. Begin(k) \in Text /\ Len(Begin(k)) = k BY <1>1, SubText
  <2>2. End(k) \in Text BY <1>1, SubText
  <2> QED BY <2>1, <2>2, JoinCut
<1>3. ASSUME NEW k \in 1..Len(s)
      PROVE  Begin(k) = Begin(k - 1) & <<s[k]>> /\ End(k - 1) = <<s[k]>> & End(k)
  <2>1. 1 \in 1..Len(s) /\ k \in 1..Len(s) /\ Len(s) \in k..Len(s) BY <1>1
  <2>2. SubSeq(s, 1, k) = SubSeq(s, 1, k - 1) \o <<s[k]>>
    BY <2>1, SubSeqRecursiveSecond DEF Text
  <2>3. SubSeq(s, k, Len(s)) = <<s[k]>> \o SubSeq(s, k + 1, Len(s))
    BY <2>1, SubSeqRecursiveFirst DEF Text
  <2>4. (k - 1) + 1 = k BY <2>1
  <2> QED BY <2>2, <2>3, <2>4 DEF &
<1> HIDE DEF Begin, End
<1>4. 0 \in P
  <2>1. Begin(0) = <<>> /\ End(0) = s
    <3>1. Begin(0) = <<>> BY SubSeqEmpty DEF Begin
    <3>2. SubSeq(s, 1, Len(s)) = s BY SubSeqFull DEF Text
    <3> QED BY <3>1, <3>2 DEF End
  <2>2. pre & <<>> = pre /\ s & post \in Text BY JoinEmpty, JoinType
  <2>3. Shows(channel, pre, s & post, mode) \in Text BY <2>2, ShowsIs
  <2>4. <<>> & Shows(channel, pre, s & post, mode) = Shows(channel, pre, s & post, mode)
    BY <2>3, JoinEmpty
  <2> QED BY <2>1, <2>2, <2>4
<1>5. ASSUME NEW n \in Nat, n \in P PROVE n + 1 \in P
  <2>1. SUFFICES ASSUME n + 1 <= Len(s)
                 PROVE  Shows(channel, pre, s & post, mode) =
                           Begin(n + 1) & Shows(channel, pre & Begin(n + 1),
                                               End(n + 1) & post, mode)
    OBVIOUS
  <2>2. PICK k : k = n + 1 /\ k \in 1..Len(s) /\ n = k - 1 BY <1>1, <2>1
  <2>3. PICK h, t, a, hh, tt :
          /\ h = Begin(n) /\ t = End(n) /\ a = <<s[k]>> /\ hh = Begin(k) /\ tt = End(k)
    OBVIOUS
  <2>4. /\ h \in Text /\ t \in Text /\ hh \in Text /\ tt \in Text /\ Len(h) = n
        /\ s = h & t
    <3>1. n \in 0..Len(s) /\ k \in 0..Len(s) BY <1>1, <2>2
    <3> QED BY <1>2, <2>3, <3>1
  <2>5. hh = h & a /\ t = a & tt BY <1>3, <2>2, <2>3
  <2>6. a \in Text /\ Len(a) = 1 BY <2>2, <2>3, TextLen, OneText
  <2>7. pre & h \in Text /\ tt & post \in Text BY <2>4, JoinType
  <2>8. (pre & h) & (a & (tt & post)) = pre & (s & post)
    <3>1. a & (tt & post) = (a & tt) & post BY <2>4, <2>6, JoinAssoc
    <3>2. t & post \in Text BY <2>4, JoinType
    <3>3. (pre & h) & (t & post) = pre & (h & (t & post)) BY <2>4, <3>2, JoinAssoc
    <3>4. h & (t & post) = (h & t) & post BY <2>4, JoinAssoc
    <3> QED BY <2>4, <2>5, <3>1, <3>3, <3>4
  <2>9. Len(pre & h) + 1 = Len(pre) + k /\ Len(pre & h) + 1 + Len(a) = Len(pre) + k + 1
    <3>1. Len(pre & h) = Len(pre) + n BY <2>4, JoinLen
    <3> QED BY <1>1, <2>2, <2>6, <3>1
  <2>10. ReadsAt(channel, (pre & h) & (a & (tt & post)), Len(pre & h) + 1, mode) =
           Step(a, Len(pre & h) + 1 + Len(a), mode)
    BY <2>2, <2>3, <2>8, <2>9 DEF AsItself
  <2>11. Shows(channel, pre & h, a & (tt & post), mode) =
           a & Shows(channel, (pre & h) & a, tt & post, mode)
    <3>1. Len(a) > 0 /\ a \in Text BY <2>6
    <3>2. PICK b, c : b = pre & h /\ c = tt & post OBVIOUS
    <3>3. b \in Text /\ c \in Text BY <2>7, <3>2
    <3>4. PICK shows, to : shows = a /\ to = mode OBVIOUS
    <3>5. PICK w, i : /\ w = b & (a & c) /\ i = Len(b) + 1
                      /\ ReadsAt(channel, w, i, mode) = Step(shows, i + Len(a), to)
      BY <2>10, <3>2, <3>4
    <3>6. shows \in Text BY <2>6, <3>4
    <3> HIDE DEF P
    <3>7. Shows(channel, b, a & c, mode) = shows & Shows(channel, b & a, c, to)
      BY <3>1, <3>3, <3>5, <3>6, OneStep
    <3> QED BY <3>2, <3>4, <3>7
  <2>12. a & (tt & post) = t & post /\ (pre & h) & a = pre & hh
    BY <2>4, <2>5, <2>6, JoinAssoc
  <2>13. Shows(channel, pre, s & post, mode) = h & Shows(channel, pre & h, t & post, mode)
    BY <1>1, <1>5, <2>1, <2>3
  <2>14. PICK z : z = Shows(channel, pre & hh, tt & post, mode) /\ z \in Text
    BY <2>4, <2>7, JoinType, ShowsIs
  <2>15. h & (a & z) = hh & z BY <2>4, <2>5, <2>6, <2>14, JoinAssoc
  <2>16. Shows(channel, pre, s & post, mode) = hh & z
    BY <2>11, <2>12, <2>13, <2>14, <2>15
  <2> QED BY <2>2, <2>3, <2>14, <2>16
<1>6. \A n \in Nat : n \in P
  <2> HIDE DEF P
  <2> QED BY <1>4, <1>5, Induct
<1>7. Begin(Len(s)) = s /\ End(Len(s)) = <<>>
  <2>1. SubSeq(s, 1, Len(s)) = s BY SubSeqFull DEF Text
  <2>2. Len(s) + 1 \in Int /\ Len(s) \in Int /\ Len(s) < Len(s) + 1 BY <1>1
  <2>3. SubSeq(s, Len(s) + 1, Len(s)) = <<>> BY <2>2, SubSeqEmpty
  <2> QED BY <2>1, <2>3 DEF Begin, End
<1>8. Shows(channel, pre, s & post, mode) =
        Begin(Len(s)) & Shows(channel, pre & Begin(Len(s)), End(Len(s)) & post, mode)
  BY <1>1, <1>6
<1>9. <<>> & post = post BY JoinEmpty
<1> QED BY <1>7, <1>8, <1>9

LEMMA MiddleIs ==
    ASSUME NEW pre \in Text, NEW a \in Text, NEW post \in Text
    PROVE  /\ pre & (a & post) \in Text
           /\ \A k \in 1..Len(a) :
                 /\ Len(pre) + k \in 1..Len(pre & (a & post))
                 /\ (pre & (a & post))[Len(pre) + k] = a[k]
<1>1. a & post \in Text BY JoinType
<1>2. pre & (a & post) \in Text BY <1>1, JoinType
<1> QED BY <1>2, InMiddle

\* A block reads as what is in it.
LEMMA BlockEnds ==
    ASSUME NEW channel, NEW s \in Text, Unclosed(s, Fence), "\\" \notin ToSet(s)
    PROVE  Carries(channel, "block", s & Fence, s, "plain")
<1>1. PICK mode, to, f :
        /\ mode = "block" /\ mode \in Modes /\ to = "plain" /\ to \in Modes
        /\ f = Fence /\ f \in Text /\ Len(f) = 3
  BY MarksAreTexts DEF Modes
<1>2. PICK r : r = s & f /\ r \in Text /\ Len(r) = Len(s) + 3
  <2>1. s & f \in Text /\ Len(s & f) = Len(s) + Len(f) BY <1>1, JoinType, JoinLen
  <2> QED BY <1>1, <2>1
<1>3. Len(s) \in Nat BY TextLen
<1>4. ASSUME NEW k \in 1..Len(s)
      PROVE  ~(r[k] = "~" /\ r[k + 1] = "~" /\ r[k + 2] = "~")
  <2>1. k \in 1..Len(r) /\ k + 2 <= Len(r) BY <1>2, <1>3
  <2>2. SUFFICES ASSUME At(r, k, Fence) PROVE FALSE BY <1>2, <2>1, AtFence
  <2>3. PICK j : j = Index(r, k, Fence) OBVIOUS
  <2>4. j = k BY <2>2, <2>3 DEF At
  <2>5. k \in Nat /\ k >= 1 /\ k # 0 OBVIOUS
  <2>6. SubSeq(r, k, k + Len(Fence) - 1) = Fence
    <3>1. r \in Text /\ Fence \in Text BY <1>2, MarksAreTexts
    <3>2. j = 0 \/ SubSeq(r, j, j + Len(Fence) - 1) = Fence BY <2>3, <2>5, <3>1, IndexIs
    <3> QED BY <2>4, <2>5, <3>2
  <2>7. SubSeq(s \o Fence, k, k + Len(Fence) - 1) # Fence BY DEF Unclosed
  <2> QED BY <1>1, <1>2, <2>6, <2>7 DEF &
<1>5. ASSUME NEW pre \in Text, NEW post \in Text
      PROVE  AsItself(channel, mode, pre, s, f & post)
  <2>1. PICK w, c : w = pre & (s & c) /\ c = f & post /\ c \in Text BY <1>1, JoinType
  <2>2. w = pre & (r & post) BY <1>1, <1>2, <2>1, JoinAssoc
  <2>3. ASSUME NEW k \in 1..Len(s)
        PROVE  ReadsAt(channel, w, Len(pre) + k, mode) = Step(<<s[k]>>, Len(pre) + k + 1, mode)
    <3>1. PICK i : i = Len(pre) + k OBVIOUS
    <3>2. w \in Text /\ i \in 1..Len(w) /\ w[i] = s[k]
      <4>1. c \in Text BY <2>1
      <4>2. /\ pre & (s & c) \in Text
            /\ \A n \in 1..Len(s) :
                  /\ Len(pre) + n \in 1..Len(pre & (s & c))
                  /\ (pre & (s & c))[Len(pre) + n] = s[n]
        BY <4>1, MiddleIs
      <4> QED BY <2>1, <3>1, <4>2
    <3>3. k \in 1..Len(r) /\ k + 1 \in 1..Len(r) /\ k + 2 \in 1..Len(r) BY <1>2, <1>3
    <3>4. \A n \in 1..Len(r) : w[Len(pre) + n] = r[n]
      <4>1. r \in Text BY <1>2
      <4>2. \A n \in 1..Len(r) : (pre & (r & post))[Len(pre) + n] = r[n] BY <4>1, MiddleIs
      <4> QED BY <2>2, <4>2
    <3>5. w[i] = r[k] /\ w[i + 1] = r[k + 1] /\ w[i + 2] = r[k + 2]
      <4>1. Len(pre) + (k + 1) = i + 1 /\ Len(pre) + (k + 2) = i + 2 BY <3>1, TextLen
      <4>2. /\ w[Len(pre) + k] = r[k] /\ w[Len(pre) + (k + 1)] = r[k + 1]
            /\ w[Len(pre) + (k + 2)] = r[k + 2]
        BY <3>3, <3>4
      <4> QED BY <3>1, <4>1, <4>2
    <3>6. ~At(w, i, Fence) BY <1>4, <3>2, <3>5, AtFence
    <3>7. w[i] # "\\" BY <3>2, TextLen DEF ToSet
    <3>8. ReadsAt(channel, w, i, "block") = Step(<<w[i]>>, i + 1, "block")
      BY <3>2, <3>6, <3>7, StepInside
    <3> QED BY <1>1, <3>1, <3>2, <3>8
  <2> QED BY <2>1, <2>3 DEF AsItself
<1>6. ASSUME NEW pre \in Text, NEW post \in Text
      PROVE  Shows(channel, pre, (s & f) & post, mode) =
                s & Shows(channel, pre & (s & f), post, to)
  <2>1. PICK c : c = f & post /\ c \in Text BY <1>1, JoinType
  <2>2. Shows(channel, pre, s & c, mode) = s & Shows(channel, pre & s, c, mode)
    BY <1>1, <1>5, <2>1, ReadsOn
  <2>3. PICK h : h = pre & s /\ h \in Text BY JoinType
  <2>4. Carries(channel, mode, f, <<>>, to) BY <1>1, FenceCarried
  <2>5. Shows(channel, h, f & post, mode) = <<>> & Shows(channel, h & f, post, to)
    BY <2>3, <2>4 DEF Carries
  <2>6. Shows(channel, h & f, post, to) \in Text BY <1>1, <2>3, JoinType, ShowsIs
  <2>7. (s & f) & post = s & c /\ pre & (s & f) = h & f BY <1>1, <2>1, <2>3, JoinAssoc
  <2>8. Shows(channel, h, c, mode) = Shows(channel, h & f, post, to)
    BY <2>1, <2>5, <2>6, JoinEmpty
  <2> QED BY <2>2, <2>3, <2>7, <2>8
<1>7. Carries(channel, mode, s & f, s, to) BY <1>6 DEF Carries
<1> QED BY <1>1, <1>7

LEMMA BlockText ==
    ASSUME NEW channel, NEW s \in Text, Unclosed(s, Fence), "\\" \notin ToSet(s)
    PROVE  Carries(channel, "plain", (Fence & s) & Fence, s, "plain")
<1>1. PICK from, via, to, f, z, r :
        /\ from = "plain" /\ from \in Modes /\ via = "block" /\ via \in Modes
        /\ to = "plain" /\ to \in Modes
        /\ f = Fence /\ f \in Text /\ z = <<>> /\ z \in Text /\ r = s & f /\ r \in Text
  BY MarksAreTexts, JoinEmpty, JoinType DEF Modes
<1>2. Carries(channel, from, f, z, via) BY <1>1, FenceCarried
<1>3. Carries(channel, via, r, s, to) BY <1>1, BlockEnds
<1>4. Carries(channel, from, f & r, z & s, to) BY <1>1, <1>2, <1>3, CarriesCat
<1>5. f & r = (f & s) & f BY <1>1, JoinAssoc
<1>6. z & s = s BY <1>1, JoinEmpty
<1> QED BY <1>1, <1>4, <1>5, <1>6

\* And so does code, unless it is empty.
LEMMA NoTick ==
    ASSUME NEW s \in Text, Unclosed(s, Tick)
    PROVE  "~" \notin ToSet(s)
<1>1. Len(s) \in Nat /\ DOMAIN s = 1..Len(s) BY TextLen
<1>2. SUFFICES ASSUME NEW k \in 1..Len(s), s[k] = "~" PROVE FALSE
  BY <1>1 DEF ToSet
<1>3. PICK t, r : t = Tick /\ t \in Text /\ Len(t) = 1 /\ t[1] = "~"
                  /\ r = s & t /\ r \in Text /\ Len(r) = Len(s) + 1
  <2>1. PICK t : t = Tick /\ t \in Text /\ Len(t) = 1 /\ t[1] = "~" BY MarksAreTexts
  <2>2. s & t \in Text /\ Len(s & t) = Len(s) + Len(t) BY <2>1, JoinType, JoinLen
  <2> QED BY <2>1, <2>2
<1>4. k \in 1..Len(r) /\ k <= Len(s) BY <1>1, <1>3
<1>5. r[k] = s[k]
  <2>1. k \in 1..(Len(s) + Len(t)) BY <1>1, <1>3
  <2> QED BY <1>3, <1>4, <2>1, JoinAt
<1>6. PICK e : e = SubSeq(r, k, k) /\ e \in Text /\ Len(e) = 1 /\ e[1] = "~"
  <2>1. PICK e : e = SubSeq(r, k, k) OBVIOUS
  <2>2. e \in Text /\ Len(e) = k - k + 1 /\ \A x \in 1..(k - k + 1) : e[x] = r[k + x - 1]
    BY <1>3, <1>4, <2>1, SubText
  <2>3. k - k + 1 = 1 /\ k + 1 - 1 = k /\ 1 \in 1..1 OBVIOUS
  <2> QED BY <1>2, <1>5, <2>1, <2>2, <2>3
<1>7. e = t
  <2>1. \A x \in 1..1 : e[x] = t[x] BY <1>3, <1>6
  <2> QED BY <1>3, <1>6, <2>1, TextEqual
<1>8. SubSeq(s \o Tick, k, k + Len(Tick) - 1) # Tick BY DEF Unclosed
<1>9. k + Len(Tick) - 1 = k BY <1>3
<1> QED BY <1>3, <1>6, <1>7, <1>8, <1>9 DEF &

LEMMA CodeText ==
    ASSUME NEW channel, NEW s \in Text, Len(s) > 0, Unclosed(s, Tick), "\\" \notin ToSet(s)
    PROVE  Carries(channel, "plain", (Tick & s) & Tick, s, "plain")
<1>1. PICK from, via, to, t, z, r :
        /\ from = "plain" /\ from \in Modes /\ via = "code" /\ via \in Modes
        /\ to = "plain" /\ to \in Modes
        /\ t = Tick /\ t \in Text /\ Len(t) = 1 /\ t[1] = "~" /\ z = <<>> /\ z \in Text
        /\ r = s & t /\ r \in Text
  BY MarksAreTexts, JoinEmpty, JoinType DEF Modes
<1>2. Carries(channel, via, r, s, to)
  <2>1. \A x \in ToSet(s) : Safe(channel, via, x) BY <1>1, NoTick DEF Safe
  <2>2. Carries(channel, via, s, s, via) BY <1>1, <2>1, SafeText
  <2>3. Carries(channel, via, t, z, to) BY <1>1, MarkCarried
  <2>4. Carries(channel, via, s & t, s & z, to) BY <1>1, <2>2, <2>3, CarriesCat
  <2> QED BY <1>1, <2>4, JoinEmpty
<1>3. Len(s) \in Nat /\ Len(r) = Len(s) + 1 /\ r[1] # "~"
  <2>1. Len(s) \in Nat /\ 1 \in 1..Len(s) BY TextLen
  <2>2. 1 \in 1..(Len(s) + Len(t)) /\ 1 <= Len(s) BY <1>1, <2>1
  <2>3. r[1] = s[1] BY <1>1, <2>2, JoinAt
  <2>4. s[1] # "~" BY <2>1, NoTick, TextLen DEF ToSet
  <2> QED BY <1>1, <2>1, <2>3, <2>4, JoinLen
<1>4. PICK a : a = t & r /\ a \in Text /\ Len(a) = Len(s) + 2 /\ a[1] = "~" /\ a[2] # "~"
  <2>1. PICK a : a = t & r OBVIOUS
  <2>2. a \in Text /\ Len(a) = Len(t) + Len(r) BY <1>1, <2>1, JoinType, JoinLen
  <2>3. 1 \in 1..(Len(t) + Len(r)) /\ 2 \in 1..(Len(t) + Len(r)) BY <1>1, <1>3
  <2>4. 1 <= Len(t) /\ ~(2 <= Len(t)) /\ 2 - Len(t) = 1 BY <1>1
  <2>5. a[1] = t[1] BY <1>1, <2>1, <2>3, <2>4, JoinAt
  <2>6. a[2] = r[1]
    <3>1. PICK k : k = 2 OBVIOUS
    <3>2. t \in Text /\ r \in Text BY <1>1
    <3>3. k \in 1..(Len(t) + Len(r)) /\ ~(k <= Len(t)) BY <2>3, <2>4, <3>1
    <3>4. a[k] = r[k - Len(t)] BY <2>1, <3>2, <3>3, JoinAt
    <3> QED BY <2>4, <3>1, <3>4
  <2> QED BY <1>1, <1>3, <2>1, <2>2, <2>5, <2>6
<1>5. ASSUME NEW pre \in Text, NEW post \in Text
      PROVE  Shows(channel, pre, (t & r) & post, from) =
                s & Shows(channel, pre & (t & r), post, to)
  <2>1. PICK c, h : c = r & post /\ c \in Text /\ h = pre & t /\ h \in Text BY <1>1, JoinType
  <2>2. PICK w, i : w = pre & (t & c) /\ i = Len(pre) + 1 OBVIOUS
  <2>3. w = pre & (a & post) BY <1>1, <1>4, <2>1, <2>2, JoinAssoc
  <2>4. w \in Text /\ i \in 1..Len(w) /\ w[i] = "~" /\ w[i + 1] # "~"
    <3>1. 1 \in 1..Len(a) /\ 2 \in 1..Len(a) BY <1>3, <1>4
    <3>2. /\ w \in Text /\ Len(pre) + 1 \in 1..Len(w)
          /\ w[Len(pre) + 1] = a[1] /\ w[Len(pre) + 2] = a[2]
      <4>1. a \in Text BY <1>4
      <4>2. /\ pre & (a & post) \in Text
            /\ \A k \in 1..Len(a) :
                  /\ Len(pre) + k \in 1..Len(pre & (a & post))
                  /\ (pre & (a & post))[Len(pre) + k] = a[k]
        BY <4>1, MiddleIs
      <4> QED BY <2>3, <3>1, <4>2
    <3>3. Len(pre) + 2 = i + 1 BY <2>2, TextLen
    <3> QED BY <1>4, <2>2, <3>2, <3>3
  <2>5. ~At(w, i, Fence) BY <2>4, AtFence
  <2>6. ReadsAt(channel, w, i, "plain") = Step(<<>>, i + 1, "code")
    BY <2>4, <2>5, StepOutside
  <2>7. ReadsAt(channel, w, i, from) = Step(z, i + Len(t), via) BY <1>1, <2>6
  <2>8. t \in Text /\ z \in Text /\ from \in Modes BY <1>1
  <2>9. Len(t) > 0 BY <1>1
  <2>10. Shows(channel, pre, t & c, from) = z & Shows(channel, h, c, via)
    BY <2>1, <2>2, <2>7, <2>8, <2>9, OneStep
  <2>11. Shows(channel, h, c, via) = s & Shows(channel, h & r, post, to)
    BY <1>2, <2>1 DEF Carries
  <2>12. Shows(channel, h & r, post, to) \in Text BY <1>1, <2>1, JoinType, ShowsIs
  <2>13. z & Shows(channel, h, c, via) = Shows(channel, h, c, via)
    BY <1>1, <2>11, <2>12, JoinType, JoinEmpty
  <2>14. (t & r) & post = t & c /\ pre & (t & r) = h & r BY <1>1, <2>1, JoinAssoc
  <2> QED BY <2>10, <2>11, <2>13, <2>14
<1>6. Carries(channel, from, t & r, s, to) BY <1>5 DEF Carries
<1>7. t & r = (t & s) & t BY <1>1, JoinAssoc
<1> QED BY <1>1, <1>6, <1>7

\* What Regular says of one span.
RegularSpan(channel, span) ==
    /\ span.kind = "plain" =>
          /\ "~" \notin ToSet(span.inner) /\ "*" \notin ToSet(span.inner)
          /\ channel = "slack" => "<" \notin ToSet(span.inner)
    /\ span.kind = "bold" => "~" \notin ToSet(span.inner) /\ "*" \notin ToSet(span.inner)
    /\ span.kind \in {"code", "block"} =>
          ToSet(span.inner) # {} /\ "\\" \notin ToSet(span.inner)
    /\ span.kind = "link" =>
          ">" \notin ToSet(span.inner) /\ "|" \notin ToSet(span.url)

LEMMA RegularIs ==
    ASSUME NEW channel, NEW s, Regular(channel, s), NEW i \in DOMAIN SpansFor(channel, s)
    PROVE  RegularSpan(channel, SpansFor(channel, s)[i])
<1>1. PICK spans, span : spans = SpansFor(channel, s) /\ span = spans[i] OBVIOUS
<1>2. span \in ToSet(spans) BY <1>1 DEF ToSet
<1>3. LET inner == ToSet(span.inner)
      IN  CASE span.kind = "plain" ->
                  /\ inner \intersect {"~", "*"} = {}
                  /\ channel = "slack" => "<" \notin inner
            [] span.kind = "bold" -> inner # {} /\ inner \intersect {"~", "*"} = {}
            [] span.kind \in {"code", "block"} -> inner # {} /\ "\\" \notin inner
            [] OTHER -> /\ inner \intersect {"~", "*", ">"} = {}
                        /\ "|" \notin ToSet(span.url)
  BY <1>1, <1>2 DEF Regular
<1>4. RegularSpan(channel, span)
  <2>1. CASE span.kind = "plain" BY <1>3, <2>1 DEF RegularSpan
  <2>2. CASE span.kind = "bold" BY <1>3, <2>2 DEF RegularSpan
  <2>3. CASE span.kind = "code" BY <1>3, <2>3 DEF RegularSpan
  <2>4. CASE span.kind = "block" BY <1>3, <2>4 DEF RegularSpan
  <2>5. CASE span.kind = "link" BY <1>3, <2>5 DEF RegularSpan
  <2>6. CASE span.kind \notin {"plain", "bold", "code", "block", "link"}
    BY <2>6 DEF RegularSpan
  <2> QED BY <2>1, <2>2, <2>3, <2>4, <2>5, <2>6
<1> QED BY <1>1, <1>4

LEMMA NotEmpty == \A s \in Text : ToSet(s) # {} => Len(s) > 0
<1> SUFFICES ASSUME NEW s \in Text, ToSet(s) # {} PROVE Len(s) > 0 OBVIOUS
<1>1. Len(s) \in Nat /\ DOMAIN s = 1..Len(s) BY TextLen
<1>2. PICK i \in 1..Len(s) : TRUE BY <1>1 DEF ToSet
<1> QED BY <1>1, <1>2

\* What is between two stars.
LEMMA BoldText ==
    ASSUME NEW channel, NEW img \in Text, NEW inn \in Text,
           Carries(channel, "bold", img, inn, "bold")
    PROVE  Carries(channel, "plain", (<<"*">> & img) & <<"*">>, inn, "plain")
<1>1. PICK from, via, star, z :
        /\ from = "plain" /\ from \in Modes /\ via = "bold" /\ via \in Modes
        /\ star = <<"*">> /\ star \in Text /\ z = <<>> /\ z \in Text
  BY JoinEmpty, OneText, CharsAre DEF Modes
<1>2. Carries(channel, from, star, z, via) /\ Carries(channel, via, star, z, from)
  BY <1>1, MarkCarried
<1>3. Carries(channel, via, img, inn, via) BY <1>1
<1>4. PICK a, b : a = star & img /\ b = z & inn /\ a \in Text /\ b \in Text
  BY <1>1, JoinType
<1>5. Carries(channel, from, a, b, via) BY <1>1, <1>2, <1>3, <1>4, CarriesCat
<1>6. Carries(channel, from, a & star, b & z, from)
  BY <1>1, <1>2, <1>4, <1>5, CarriesCat
<1>7. b & z = inn BY <1>1, <1>4, JoinEmpty
<1> QED BY <1>1, <1>4, <1>6, <1>7

\* A link of Slack: its target is not shown.
LEMMA LinkText ==
    ASSUME NEW channel, channel # "telegram", NEW url \in Text, NEW s \in Text,
           "|" \notin ToSet(url), ">" \notin ToSet(s)
    PROVE  Carries(channel, "plain",
                   (((<<"<">> & url) & <<"|">>) & s) & <<">">>, s, "plain")
<1>1. PICK p, u, l, lt, bar, gt, z :
        /\ p = "plain" /\ p \in Modes /\ u = "url" /\ u \in Modes /\ l = "link" /\ l \in Modes
        /\ lt = <<"<">> /\ lt \in Text /\ bar = <<"|">> /\ bar \in Text
        /\ gt = <<">">> /\ gt \in Text /\ z = <<>> /\ z \in Text
  BY JoinEmpty, OneText, CharsAre DEF Modes
<1>2. /\ Carries(channel, p, lt, z, u) /\ Carries(channel, u, bar, z, l)
      /\ Carries(channel, l, gt, z, p)
  BY <1>1, MarkCarried
<1>3. Carries(channel, u, url, z, u) BY <1>1, UrlText
<1>4. Carries(channel, l, s, s, l)
  <2>1. \A x \in ToSet(s) : Safe(channel, l, x) BY <1>1 DEF Safe
  <2> QED BY <1>1, <2>1, SafeText
<1>5. z & z = z /\ z & s = s /\ s & z = s BY <1>1, JoinEmpty
<1>6. PICK a : a = lt & url /\ a \in Text BY <1>1, JoinType
<1>7. PICK b : b = a & bar /\ b \in Text BY <1>1, <1>6, JoinType
<1>8. PICK c : c = b & s /\ c \in Text BY <1>1, <1>7, JoinType
<1>9. Carries(channel, p, a, z & z, u) BY <1>1, <1>2, <1>3, <1>6, CarriesCat
<1>10. Carries(channel, p, a, z, u) BY <1>5, <1>9
<1>11. Carries(channel, p, b, z & z, l) BY <1>1, <1>2, <1>6, <1>7, <1>10, CarriesCat
<1>12. Carries(channel, p, b, z, l) BY <1>5, <1>11
<1>13. Carries(channel, p, c, z & s, l) BY <1>1, <1>4, <1>7, <1>8, <1>12, CarriesCat
<1>14. Carries(channel, p, c, s, l) BY <1>5, <1>13
<1>15. Carries(channel, p, c & gt, s & z, p) BY <1>1, <1>2, <1>8, <1>14, CarriesCat
<1> QED BY <1>1, <1>5, <1>6, <1>7, <1>8, <1>15

\* The image of a regular span reads as what is in it.
LEMMA SpanCarried ==
    ASSUME NEW channel \in {"telegram", "slack"}, NEW span,
           IsSpanFor(channel, span), RegularSpan(channel, span)
    PROVE  Carries(channel, "plain", Image(channel, span), span.inner, "plain")
<1>1. PICK s, url, plain, bold :
        /\ s = span.inner /\ url = span.url /\ s \in Text /\ url \in Text
        /\ plain = "plain" /\ bold = "bold" /\ plain \in Modes /\ bold \in Modes
  BY DEF IsSpanFor, IsSpan, Modes
<1>2. CASE span.kind = "block"
  <2>1. Image(channel, span) = (Fence & s) & Fence
    BY <1>1, <1>2 DEF Image, ForTelegram, ForSlack, &
  <2>2. Unclosed(s, Fence) /\ "\\" \notin ToSet(s)
    BY <1>1, <1>2 DEF IsSpanFor, IsSpan, RegularSpan
  <2> QED BY <1>1, <2>1, <2>2, BlockText
<1>3. CASE span.kind = "code"
  <2>1. Image(channel, span) = (Tick & s) & Tick
    BY <1>1, <1>3 DEF Image, ForTelegram, ForSlack, &
  <2>2. Unclosed(s, Tick) /\ "\\" \notin ToSet(s) /\ Len(s) > 0
    BY <1>1, <1>3, NotEmpty DEF IsSpanFor, IsSpan, RegularSpan
  <2> QED BY <1>1, <2>1, <2>2, CodeText
<1>4. CASE span.kind = "bold"
  <2>1. "~" \notin ToSet(s) /\ "*" \notin ToSet(s) BY <1>1, <1>4 DEF RegularSpan
  <2>2. PICK img :
          /\ img = IF channel = "telegram" THEN Escape(s, BoldSafe) ELSE s
          /\ img \in Text
    BY <1>1, EscapeIs
  <2>3. Image(channel, span) = (<<"*">> & img) & <<"*">>
    BY <1>1, <1>4, <2>2 DEF Image, ForTelegram, ForSlack, &
  <2>4. CASE channel = "telegram"
    <3>1. \A x \in ToSet(s) : x \in BoldSafe \/ Safe(channel, bold, x)
      BY <1>1, <2>1 DEF Safe, BoldSafe
    <3>2. Carries(channel, bold, img, s, bold)
      BY <1>1, <2>2, <2>4, <3>1, EscapedText
    <3> QED BY <1>1, <2>2, <2>3, <3>2, BoldText
  <2>5. CASE channel # "telegram"
    <3>1. \A x \in ToSet(s) : Safe(channel, bold, x) BY <1>1, <2>1, <2>5 DEF Safe
    <3>2. Carries(channel, bold, s, s, bold) BY <1>1, <3>1, SafeText
    <3> QED BY <1>1, <2>2, <2>3, <2>5, <3>2, BoldText
  <2> QED BY <2>4, <2>5
<1>5. CASE span.kind = "link"
  <2>1. channel # "telegram" BY <1>5 DEF IsSpanFor
  <2>2. Image(channel, span) = (((<<"<">> & url) & <<"|">>) & s) & <<">">>
    BY <1>1, <1>5, <2>1 DEF Image, ForSlack, &
  <2>3. "|" \notin ToSet(url) /\ ">" \notin ToSet(s) BY <1>1, <1>5 DEF RegularSpan
  <2> QED BY <1>1, <2>1, <2>2, <2>3, LinkText
<1>6. CASE span.kind = "plain"
  <2>1. /\ "~" \notin ToSet(s) /\ "*" \notin ToSet(s)
        /\ channel = "slack" => "<" \notin ToSet(s)
    BY <1>1, <1>6 DEF RegularSpan
  <2>2. CASE channel = "telegram"
    <3>1. Image(channel, span) = Escape(s, Special)
      BY <1>1, <1>6, <2>2 DEF Image, ForTelegram
    <3>2. \A x \in ToSet(s) : x \in Special \/ Safe(channel, plain, x)
      BY <1>1, <2>1 DEF Safe
    <3>3. Carries(channel, plain, Escape(s, Special), s, plain)
      BY <1>1, <2>2, <3>2, EscapedText
    <3> QED BY <1>1, <3>1, <3>3
  <2>3. CASE channel = "slack"
    <3>1. Image(channel, span) = s BY <1>1, <1>6, <2>3 DEF Image, ForSlack
    <3>2. \A x \in ToSet(s) : Safe(channel, plain, x) BY <1>1, <2>1, <2>3 DEF Safe
    <3>3. Carries(channel, plain, s, s, plain) BY <1>1, <3>2, SafeText
    <3> QED BY <1>1, <3>1, <3>3
  <2> QED BY <2>2, <2>3
<1> QED BY <1>2, <1>3, <1>4, <1>5, <1>6 DEF IsSpanFor, IsSpan

----------------------------------------------------------------------------
(* What a text says, whatever its lines.                                   *)

Kept(s) == [i \in DOMAIN s |-> IF s[i] = NewLine THEN <<>> ELSE <<s[i]>>]

LEMMA KeptIs ==
    ASSUME NEW s \in Text
    PROVE  /\ Kept(s) \in Seq(Text) /\ Len(Kept(s)) = Len(s)
           /\ \A i \in 1..Len(s) :
                 Kept(s)[i] = IF s[i] = NewLine THEN <<>> ELSE <<s[i]>>
           /\ WithoutBreaks(s) = FlattenSeq(Kept(s)) /\ WithoutBreaks(s) \in Text
<1>1. Len(s) \in Nat /\ DOMAIN s = 1..Len(s) BY TextLen
<1>2. PICK q : q = Kept(s) OBVIOUS
<1>3. ASSUME NEW i \in 1..Len(s)
      PROVE  q[i] = (IF s[i] = NewLine THEN <<>> ELSE <<s[i]>>) /\ q[i] \in Text
  <2>1. q[i] = IF s[i] = NewLine THEN <<>> ELSE <<s[i]>> BY <1>1, <1>2 DEF Kept
  <2>2. <<>> \in Text /\ <<s[i]>> \in Text BY JoinEmpty, OneText, TextLen
  <2> QED BY <2>1, <2>2
<1>4. q = [i \in 1..Len(s) |-> q[i]] BY <1>1, <1>2 DEF Kept
<1>5. q \in Seq(Text) BY <1>1, <1>3, <1>4, MapIs
<1>6. Len(q) = Len(s)
  <2>1. DOMAIN q = 1..Len(s) BY <1>4
  <2>2. DOMAIN q = 1..Len(q) /\ Len(q) \in Nat BY <1>5, LenProperties
  <2> QED BY <1>1, <2>1, <2>2
<1>7. WithoutBreaks(s) = FlattenSeq(q) BY <1>2 DEF WithoutBreaks, Kept
<1> QED BY <1>2, <1>3, <1>5, <1>6, <1>7, FlattenType

LEMMA KeptCat ==
    ASSUME NEW a \in Text, NEW b \in Text
    PROVE  Kept(a & b) = Kept(a) \o Kept(b)
<1>1. PICK c, p, q, r : /\ c = a & b /\ p = Kept(a) /\ q = Kept(b) /\ r = Kept(c) OBVIOUS
<1>2. c \in Text /\ Len(c) = Len(a) + Len(b) BY <1>1, JoinType, JoinLen
<1>3. Len(a) \in Nat /\ Len(b) \in Nat BY TextLen
<1>4. p \in Seq(Text) /\ q \in Seq(Text) /\ r \in Seq(Text) BY <1>1, <1>2, KeptIs
<1>5. Len(p) = Len(a) /\ Len(q) = Len(b) /\ Len(r) = Len(c) BY <1>1, <1>2, KeptIs
<1>6. /\ p \o q \in Seq(Text) /\ Len(p \o q) = Len(p) + Len(q)
      /\ \A i \in 1..(Len(p) + Len(q)) :
            (p \o q)[i] = IF i <= Len(p) THEN p[i] ELSE q[i - Len(p)]
  BY <1>4, ConcatProperties
<1>7. ASSUME NEW i \in 1..Len(r) PROVE r[i] = (p \o q)[i]
  <2>1. i \in 1..Len(c) /\ i \in 1..(Len(a) + Len(b)) BY <1>2, <1>5
  <2>2. r[i] = IF c[i] = NewLine THEN <<>> ELSE <<c[i]>> BY <1>1, <1>2, <2>1, KeptIs
  <2>3. c[i] = IF i <= Len(a) THEN a[i] ELSE b[i - Len(a)] BY <1>1, <2>1, JoinAt
  <2>4. (p \o q)[i] = IF i <= Len(a) THEN p[i] ELSE q[i - Len(a)] BY <1>5, <1>6, <2>1
  <2>5. CASE i <= Len(a)
    <3>1. i \in 1..Len(a) BY <2>5
    <3>2. p[i] = IF a[i] = NewLine THEN <<>> ELSE <<a[i]>> BY <1>1, <3>1, KeptIs
    <3> QED BY <2>2, <2>3, <2>4, <2>5, <3>2
  <2>6. CASE ~(i <= Len(a))
    <3>1. PICK j : j = i - Len(a) /\ j \in 1..Len(b) BY <1>3, <2>1, <2>6
    <3>2. q[j] = IF b[j] = NewLine THEN <<>> ELSE <<b[j]>> BY <1>1, <3>1, KeptIs
    <3> QED BY <2>2, <2>3, <2>4, <2>6, <3>1, <3>2
  <2> QED BY <2>5, <2>6
<1>8. Len(r) = Len(p \o q) BY <1>2, <1>5, <1>6
<1>9. r = p \o q BY <1>4, <1>6, <1>7, <1>8, SeqEqual
<1> QED BY <1>1, <1>9

LEMMA BreaksCat ==
    ASSUME NEW a \in Text, NEW b \in Text
    PROVE  WithoutBreaks(a & b) = WithoutBreaks(a) & WithoutBreaks(b)
<1>1. PICK c : c = a & b /\ c \in Text BY JoinType
<1>2. PICK p, q : p = Kept(a) /\ q = Kept(b) /\ p \in Seq(Text) /\ q \in Seq(Text)
  BY KeptIs
<1>3. Kept(c) = p \o q BY <1>1, <1>2, KeptCat
<1>4. FlattenSeq(p \o q) = FlattenSeq(p) & FlattenSeq(q) BY <1>2, JoinFlat
<1>5. WithoutBreaks(c) = FlattenSeq(Kept(c)) BY <1>1, KeptIs
<1>6. WithoutBreaks(a) = FlattenSeq(p) /\ WithoutBreaks(b) = FlattenSeq(q) BY <1>2, KeptIs
<1> QED BY <1>1, <1>3, <1>4, <1>5, <1>6

LEMMA BreaksOne ==
    /\ <<>> \in Text /\ WithoutBreaks(<<>>) = <<>>
    /\ <<NewLine>> \in Text /\ WithoutBreaks(<<NewLine>>) = <<>>
<1>1. PICK z : z = <<>> /\ z \in Text /\ Len(z) = 0 BY JoinEmpty, EmptyText
<1>2. NewLine \in Chars BY DEF Chars, NewLine
<1>3. PICK n : n = <<NewLine>> /\ n \in Text /\ Len(n) = 1 /\ n[1] = NewLine
  BY <1>2, OneText
<1>4. WithoutBreaks(z) = <<>>
  <2>1. PICK q : q = Kept(z) OBVIOUS
  <2>2. q \in Seq(Text) /\ Len(q) = 0 /\ WithoutBreaks(z) = FlattenSeq(q)
    BY <1>1, <2>1, KeptIs
  <2>3. q = <<>> BY <2>2, EmptySeq
  <2> QED BY <2>2, <2>3, FlattenEmpty
<1>5. WithoutBreaks(n) = <<>>
  <2>1. PICK q : q = Kept(n) OBVIOUS
  <2>2. /\ q \in Seq(Text) /\ Len(q) = Len(n) /\ WithoutBreaks(n) = FlattenSeq(q)
        /\ \A i \in 1..Len(n) : q[i] = IF n[i] = NewLine THEN <<>> ELSE <<n[i]>>
    BY <1>3, <2>1, KeptIs
  <2>3. Len(q) = 1 /\ q[1] = z
    <3>1. 1 \in 1..Len(n) BY <1>3
    <3> QED BY <1>1, <1>3, <2>2, <3>1
  <2>4. <<z>> \in Seq(Text) /\ Len(<<z>>) = 1 /\ <<z>>[1] = z BY <1>1
  <2>5. \A i \in 1..Len(q) : q[i] = <<z>>[i]
    <3>1. \A i \in 1..1 : i = 1 OBVIOUS
    <3> QED BY <2>3, <2>4, <3>1
  <2>6. q = <<z>> BY <2>2, <2>3, <2>4, <2>5, SeqEqual
  <2>7. FlattenSeq(<<z>>) = z BY <1>1, FlattenOne
  <2> QED BY <1>1, <2>2, <2>6, <2>7
<1> QED BY <1>1, <1>3, <1>4, <1>5

\* The two halves of a sequence.
Halved(q, m, a, b) ==
    /\ q = a \o b /\ Len(a) = m /\ Len(b) = Len(q) - m
    /\ \A i \in 1..m : a[i] = q[i]
    /\ \A i \in 1..(Len(q) - m) : b[i] = q[m + i]

LEMMA Halves ==
    ASSUME NEW S, NEW q \in Seq(S), NEW m \in 0..Len(q)
    PROVE  \E a, b : a \in Seq(S) /\ b \in Seq(S) /\ Halved(q, m, a, b)
<1>1. Len(q) \in Nat BY LenProperties
<1>2. PICK a, b : a = SubSeq(q, 1, m) /\ b = SubSeq(q, m + 1, Len(q)) OBVIOUS
<1>3. a \in Seq(S) /\ Len(a) = m /\ \A i \in 1..m : a[i] = q[i]
  <2>1. 1 \in Int /\ m \in Int /\ \A i \in 1..m : q[i] \in S BY <1>1, ElementOfSeq
  <2>2. /\ a \in Seq(S) /\ Len(a) = IF 1 <= m THEN m - 1 + 1 ELSE 0
        /\ \A i \in 1..(m - 1 + 1) : a[i] = q[1 + i - 1]
    BY <1>2, <2>1, SubSeqProperties
  <2>3. m - 1 + 1 = m /\ \A i \in 1..m : 1 + i - 1 = i OBVIOUS
  <2> QED BY <2>2, <2>3
<1>4. b \in Seq(S) /\ Len(b) = Len(q) - m /\ \A i \in 1..(Len(q) - m) : b[i] = q[m + i]
  <2>1. m + 1 \in Int /\ Len(q) \in Int /\ \A i \in (m + 1)..Len(q) : q[i] \in S
    <3>1. \A i \in (m + 1)..Len(q) : i \in 1..Len(q) BY <1>1
    <3> QED BY <1>1, <3>1, ElementOfSeq
  <2>2. /\ b \in Seq(S)
        /\ Len(b) = IF m + 1 <= Len(q) THEN Len(q) - (m + 1) + 1 ELSE 0
        /\ \A i \in 1..(Len(q) - (m + 1) + 1) : b[i] = q[(m + 1) + i - 1]
    BY <1>2, <2>1, SubSeqProperties
  <2>3. /\ Len(q) - (m + 1) + 1 = Len(q) - m
        /\ \A i \in 1..(Len(q) - m) : (m + 1) + i - 1 = m + i
        /\ m + 1 <= Len(q) \/ Len(q) - m = 0
    BY <1>1
  <2> QED BY <2>2, <2>3
<1>5. q = a \o b
  <2>1. /\ 1 \in 1..(Len(q) + 1) /\ m \in (1 - 1)..Len(q) /\ Len(q) \in m..Len(q) BY <1>1
  <2>2. a \o b = SubSeq(q, 1, Len(q)) BY <1>2, <2>1, ConcatAdjacentSubSeq
  <2> QED BY <2>2, SubSeqFull
<1>6. Halved(q, m, a, b) BY <1>3, <1>4, <1>5 DEF Halved
<1> QED BY <1>3, <1>4, <1>6

----------------------------------------------------------------------------
(* Texts the channel reads piece by piece: they may be cut at a newline.   *)

IsPiece(channel, img, inn) ==
    /\ Carries(channel, "plain", img, inn, "plain")
    /\ img = <<NewLine>> \/ NewLine \notin ToSet(img)

AreSaid(channel, imgs, inns) ==
    /\ imgs \in Seq(Text) /\ inns \in Seq(Text) /\ Len(imgs) = Len(inns)
    /\ \A i \in 1..Len(imgs) : IsPiece(channel, imgs[i], inns[i])

\* The channel shows v of w.
Sayable(channel, w, v) ==
    \E imgs, inns :
        AreSaid(channel, imgs, inns) /\ w = FlattenSeq(imgs) /\ v = FlattenSeq(inns)

LEMMA SayableReads ==
    ASSUME NEW channel, NEW w, NEW v, Sayable(channel, w, v)
    PROVE  w \in Text /\ v \in Text /\ Reads(channel, w) = v
<1>1. PICK imgs, inns :
        AreSaid(channel, imgs, inns) /\ w = FlattenSeq(imgs) /\ v = FlattenSeq(inns)
  BY DEF Sayable
<1>2. /\ imgs \in Seq(Text) /\ inns \in Seq(Text) /\ Len(imgs) = Len(inns)
      /\ \A i \in 1..Len(imgs) : Carries(channel, "plain", imgs[i], inns[i], "plain")
  BY <1>1 DEF AreSaid, IsPiece
<1>3. w \in Text /\ v \in Text BY <1>1, <1>2, FlattenType
<1>4. PICK plain : plain = "plain" /\ plain \in Modes BY DEF Modes
<1>5. \A i \in 1..Len(imgs) : Carries(channel, plain, imgs[i], inns[i], plain)
  BY <1>2, <1>4
<1>6. Carries(channel, plain, w, v, plain) BY <1>1, <1>2, <1>4, <1>5, CarriesFlat
<1> QED BY <1>3, <1>4, <1>6, CarriesReads

\* The sums of a sequence of texts.
Sums(f, q) == f[0] = <<>> /\ \A i \in 1..Len(q) : f[i] = f[i-1] \o q[i]

\* The pieces may be shared out.
LEMMA SayableHalves ==
    ASSUME NEW channel, NEW imgs, NEW inns, AreSaid(channel, imgs, inns),
           NEW f, Sums(f, imgs),
           NEW m \in 0..Len(imgs)
    PROVE  \E b, x, y :
              /\ FlattenSeq(imgs) = f[m] & b /\ FlattenSeq(inns) = x & y
              /\ Sayable(channel, f[m], x) /\ Sayable(channel, b, y)
<1>1. /\ imgs \in Seq(Text) /\ inns \in Seq(Text) /\ Len(imgs) = Len(inns)
      /\ \A i \in 1..Len(imgs) : IsPiece(channel, imgs[i], inns[i])
      /\ Len(imgs) \in Nat
  BY LenProperties DEF AreSaid
<1>2. PICK p, q :
        /\ p \in Seq(Text) /\ q \in Seq(Text)
        /\ imgs = p \o q /\ Len(p) = m /\ Len(q) = Len(imgs) - m
        /\ \A i \in 1..m : p[i] = imgs[i]
        /\ \A i \in 1..(Len(imgs) - m) : q[i] = imgs[m + i]
  <2>1. m \in 0..Len(imgs) BY <1>1
  <2>2. \E a, b : a \in Seq(Text) /\ b \in Seq(Text) /\ Halved(imgs, m, a, b)
    BY <1>1, <2>1, Halves
  <2> QED BY <1>1, <2>2 DEF Halved
<1>3. PICK r, t :
        /\ r \in Seq(Text) /\ t \in Seq(Text)
        /\ inns = r \o t /\ Len(r) = m /\ Len(t) = Len(inns) - m
        /\ \A i \in 1..m : r[i] = inns[i]
        /\ \A i \in 1..(Len(inns) - m) : t[i] = inns[m + i]
  <2>1. m \in 0..Len(inns) BY <1>1
  <2>2. \E a, b : a \in Seq(Text) /\ b \in Seq(Text) /\ Halved(inns, m, a, b)
    BY <1>1, <2>1, Halves
  <2> QED BY <2>2 DEF Halved
<1>4. AreSaid(channel, p, r)
  <2>1. ASSUME NEW i \in 1..Len(p) PROVE IsPiece(channel, p[i], r[i])
    <3>1. i \in 1..m /\ i \in 1..Len(imgs) BY <1>1, <1>2, <2>1
    <3> QED BY <1>1, <1>2, <1>3, <3>1
  <2> QED BY <1>2, <1>3, <2>1 DEF AreSaid
<1>5. AreSaid(channel, q, t)
  <2>1. ASSUME NEW i \in 1..Len(q) PROVE IsPiece(channel, q[i], t[i])
    <3>1. i \in 1..(Len(imgs) - m) /\ m + i \in 1..Len(imgs) BY <1>1, <1>2, <2>1
    <3> QED BY <1>1, <1>2, <1>3, <3>1
  <2> QED BY <1>2, <1>3, <2>1 DEF AreSaid
<1>6. PICK a, b, x, y : /\ a = FlattenSeq(p) /\ b = FlattenSeq(q)
                        /\ x = FlattenSeq(r) /\ y = FlattenSeq(t)
  OBVIOUS
<1>7. Sayable(channel, a, x) /\ Sayable(channel, b, y)
  BY <1>4, <1>5, <1>6 DEF Sayable
<1>8. FlattenSeq(imgs) = a & b /\ FlattenSeq(inns) = x & y
  BY <1>2, <1>3, <1>6, JoinFlat
<1>9. a = f[m]
  <2>0. f[0] = <<>> /\ \A i \in 1..Len(imgs) : f[i] = f[i-1] \o imgs[i] BY DEF Sums
  <2>1. \A i \in 1..Len(p) : f[i] = f[i-1] \o p[i]
    <3>1. SUFFICES ASSUME NEW i \in 1..Len(p) PROVE f[i] = f[i-1] \o p[i] OBVIOUS
    <3>2. i \in 1..m /\ i \in 1..Len(imgs) BY <1>1, <1>2
    <3> QED BY <1>2, <2>0, <3>2
  <2>2. FlattenSeq(p) = f[Len(p)] BY <1>2, <2>0, <2>1, FlattenIs
  <2> QED BY <1>2, <1>6, <2>2
<1> QED BY <1>7, <1>8, <1>9

\* A newline is a piece of its own.
LEMMA NewLineIsPiece ==
    ASSUME NEW channel, NEW imgs, NEW inns, AreSaid(channel, imgs, inns),
           NEW f, Sums(f, imgs),
           NEW p \in 1..Len(FlattenSeq(imgs)), FlattenSeq(imgs)[p] = NewLine
    PROVE  \E k \in 1..Len(imgs) : Len(f[k-1]) = p - 1 /\ Len(f[k]) = p
<1>1. /\ imgs \in Seq(Text) /\ Len(imgs) \in Nat
      /\ \A i \in 1..Len(imgs) : imgs[i] = <<NewLine>> \/ NewLine \notin ToSet(imgs[i])
  BY LenProperties DEF AreSaid, IsPiece
<1>2. PICK n : n = Len(imgs) /\ n \in Nat BY <1>1
<1> f[0] = <<>> /\ \A i \in 1..n : f[i] = f[i-1] \o imgs[i] BY <1>2 DEF Sums
<1>3. FlattenSeq(imgs) = f[n] /\ \A i \in 0..n : f[i] \in Text BY <1>1, <1>2, FlattenIs
<1>4. \A i \in 1..n : imgs[i] \in Text BY <1>1, <1>2, ElementOfSeq
<1> DEFINE P == {i \in Nat : i <= n =>
                    \A j \in 1..Len(f[i]) : f[i][j] = NewLine =>
                        \E k \in 1..n : Len(f[k-1]) = j - 1 /\ Len(f[k]) = j}
<1>5. 0 \in P
  <2>1. Len(f[0]) = 0 BY EmptyText
  <2> QED BY <2>1
<1>6. ASSUME NEW i \in Nat, i \in P PROVE i + 1 \in P
  <2>1. SUFFICES ASSUME i + 1 <= n, NEW j \in 1..Len(f[i+1]), f[i+1][j] = NewLine
                 PROVE  \E k \in 1..n : Len(f[k-1]) = j - 1 /\ Len(f[k]) = j
    OBVIOUS
  <2>2. i + 1 \in 1..n /\ i \in 0..n /\ (i + 1) - 1 = i BY <1>2, <2>1
  <2>3. PICK a, b, c : a = f[i] /\ b = imgs[i+1] /\ c = f[i+1] OBVIOUS
  <2>4. a \in Text /\ b \in Text /\ c = a & b
    <3>1. c = a \o b BY <1>2, <2>2, <2>3
    <3> QED BY <1>3, <1>4, <2>2, <2>3, <3>1 DEF &
  <2>5. Len(c) = Len(a) + Len(b) /\ Len(a) \in Nat /\ Len(b) \in Nat
    BY <2>4, JoinLen, TextLen
  <2>6. j \in 1..(Len(a) + Len(b)) BY <2>3, <2>5
  <2>7. c[j] = IF j <= Len(a) THEN a[j] ELSE b[j - Len(a)] BY <2>4, <2>6, JoinAt
  <2>8. CASE j <= Len(a)
    <3>1. j \in 1..Len(f[i]) /\ f[i][j] = NewLine BY <2>1, <2>3, <2>6, <2>7, <2>8
    <3>2. i <= n BY <2>2
    <3> QED BY <1>6, <3>1, <3>2
  <2>9. CASE ~(j <= Len(a))
    <3>1. PICK m : m = j - Len(a) /\ m \in 1..Len(b) BY <2>5, <2>6, <2>9
    <3>2. b[m] = NewLine BY <2>1, <2>3, <2>7, <2>9, <3>1
    <3>3. NewLine \in ToSet(b) BY <2>4, <3>1, <3>2, TextLen DEF ToSet
    <3>4. b = <<NewLine>> BY <1>1, <1>2, <2>2, <2>3, <3>3
    <3>5. Len(b) = 1
      <4>1. NewLine \in Chars BY DEF Chars, NewLine
      <4> QED BY <3>4, <4>1, OneText
    <3>6. Len(a) = j - 1 /\ Len(c) = j BY <2>5, <3>1, <3>5
    <3> QED BY <2>2, <2>3, <3>6
  <2> QED BY <2>8, <2>9
<1>7. \A i \in Nat : i \in P
  <2> HIDE DEF P
  <2> QED BY <1>5, <1>6, Induct
<1>8. n \in P /\ n <= n BY <1>2, <1>7
<1>9. p \in 1..Len(f[n]) /\ f[n][p] = NewLine BY <1>3
<1> QED BY <1>2, <1>8, <1>9

\* Before or after it, a newline is a place to cut.
LEMMA SayableCut ==
    ASSUME NEW channel, NEW w, NEW v, Sayable(channel, w, v),
           NEW p \in 1..Len(w), w[p] = NewLine, NEW q \in {p - 1, p}
    PROVE  \E x, y : /\ v = x & y
                     /\ Sayable(channel, SubSeq(w, 1, q), x)
                     /\ Sayable(channel, SubSeq(w, q + 1, Len(w)), y)
<1>1. PICK imgs, inns :
        AreSaid(channel, imgs, inns) /\ w = FlattenSeq(imgs) /\ v = FlattenSeq(inns)
  BY DEF Sayable
<1>2. imgs \in Seq(Text) /\ Len(imgs) \in Nat BY <1>1, LenProperties DEF AreSaid
<1>3. PICK f : Sums(f, imgs)
  <2>1. \E f : f[0] = <<>> /\ \A i \in 1..Len(imgs) : f[i] = f[i-1] \o imgs[i]
    BY <1>2, FlattenFun
  <2> QED BY <2>1 DEF Sums
<1>4. PICK k \in 1..Len(imgs) : Len(f[k-1]) = p - 1 /\ Len(f[k]) = p
  <2>1. p \in 1..Len(FlattenSeq(imgs)) /\ FlattenSeq(imgs)[p] = NewLine BY <1>1
  <2> QED BY <1>1, <1>3, <2>1, NewLineIsPiece
<1>5. PICK m \in 0..Len(imgs) : Len(f[m]) = q
  <2>1. k - 1 \in 0..Len(imgs) /\ k \in 0..Len(imgs) BY <1>2
  <2> QED BY <1>4, <2>1
<1>6. PICK b, x, y :
        /\ w = f[m] & b /\ v = x & y
        /\ Sayable(channel, f[m], x) /\ Sayable(channel, b, y)
  <2>2. \E b, x, y :
              /\ FlattenSeq(imgs) = f[m] & b /\ FlattenSeq(inns) = x & y
              /\ Sayable(channel, f[m], x) /\ Sayable(channel, b, y)
    BY <1>1, <1>3, SayableHalves
  <2> QED BY <1>1, <2>2
<1>7. PICK a : a = f[m] OBVIOUS
<1>8. Len(a) = q BY <1>5, <1>7
<1>9. a \in Text /\ b \in Text /\ w \in Text BY <1>6, <1>7, JoinType, SayableReads
<1>10. q \in 0..Len(w)
  <2>1. Len(w) \in Nat BY <1>9, TextLen
  <2> QED BY <2>1
<1>11. PICK c, d : /\ c = SubSeq(w, 1, q) /\ d = SubSeq(w, q + 1, Len(w)) OBVIOUS
<1>12. c \in Text /\ d \in Text /\ Len(c) = q
  <2>1. Len(w) \in Nat BY <1>9, TextLen
  <2>2. /\ 1 \in Int /\ q \in Int /\ q <= Len(w) /\ q + 1 \in Int /\ Len(w) \in Int
        /\ 1 <= q + 1 /\ Len(w) <= Len(w) /\ (IF 1 <= q THEN q - 1 + 1 ELSE 0) = q
    BY <1>10, <2>1
  <2>3. c \in Text /\ Len(c) = IF 1 <= q THEN q - 1 + 1 ELSE 0
    BY <1>9, <1>11, <2>2, SubText
  <2>4. d \in Text BY <1>9, <1>11, <2>2, SubText
  <2> QED BY <2>2, <2>3, <2>4
<1>13. w = c & d BY <1>9, <1>10, <1>11, JoinCut
<1>14. c = a /\ d = b
  <2>1. c & d = a & b /\ Len(c) = Len(a) BY <1>6, <1>7, <1>8, <1>12, <1>13
  <2> QED BY <1>9, <1>12, <2>1, JoinCancel
<1> QED BY <1>6, <1>7, <1>11, <1>14

LEMMA PartIs ==
    \A s \in Text : \A m \in 0..Len(s) :
        /\ SubSeq(s, 1, m) \in Text /\ Len(SubSeq(s, 1, m)) = m
        /\ \A i \in 1..m : SubSeq(s, 1, m)[i] = s[i]
<1> SUFFICES ASSUME NEW s \in Text, NEW m \in 0..Len(s)
             PROVE  /\ SubSeq(s, 1, m) \in Text /\ Len(SubSeq(s, 1, m)) = m
                    /\ \A i \in 1..m : SubSeq(s, 1, m)[i] = s[i]
  OBVIOUS
<1>1. Len(s) \in Nat BY TextLen
<1>2. PICK t : t = SubSeq(s, 1, m) OBVIOUS
<1>3. /\ t \in Text /\ Len(t) = IF 1 <= m THEN m - 1 + 1 ELSE 0
      /\ \A i \in 1..(m - 1 + 1) : t[i] = s[1 + i - 1]
  BY <1>1, <1>2, SubText
<1>4. m - 1 + 1 = m /\ \A i \in 1..m : 1 + i - 1 = i BY <1>1
<1> QED BY <1>2, <1>3, <1>4

LEMMA PrefixOf ==
    ASSUME NEW s \in Text, NEW m \in 0..Len(s), NEW q \in 0..m
    PROVE  SubSeq(SubSeq(s, 1, m), 1, q) = SubSeq(s, 1, q)
<1>1. Len(s) \in Nat BY TextLen
<1>2. PICK t, a, b : t = SubSeq(s, 1, m) /\ a = SubSeq(t, 1, q) /\ b = SubSeq(s, 1, q)
  OBVIOUS
<1>3. t \in Text /\ Len(t) = m /\ \A i \in 1..m : t[i] = s[i] BY <1>1, <1>2, PartIs
<1>4. a \in Text /\ Len(a) = q /\ \A i \in 1..q : a[i] = t[i] BY <1>2, <1>3, PartIs
<1>5. q \in 0..Len(s) BY <1>1
<1>6. b \in Text /\ Len(b) = q /\ \A i \in 1..q : b[i] = s[i] BY <1>2, <1>5, PartIs
<1>7. \A i \in 1..Len(a) : a[i] = b[i]
  <2>1. \A i \in 1..q : i \in 1..m OBVIOUS
  <2> QED BY <1>3, <1>4, <1>6, <2>1
<1>8. a = b BY <1>4, <1>6, <1>7, TextEqual
<1> QED BY <1>2, <1>8

\* A newline says nothing.
LEMMA NewLineSaid ==
    ASSUME NEW channel, NEW v, Sayable(channel, <<NewLine>>, v)
    PROVE  WithoutBreaks(v) = <<>>
<1>1. PICK plain, x : plain = "plain" /\ plain \in Modes /\ x = NewLine /\ x \in Chars
  BY DEF Modes, Chars, NewLine
<1>2. Safe(channel, plain, x) BY <1>1 DEF Safe, Special, NewLine
<1>3. Carries(channel, plain, <<x>>, <<x>>, plain) BY <1>1, <1>2, SafeCarried
<1>4. PICK n : n = <<x>> /\ n \in Text BY <1>1, OneText
<1>5. Carries(channel, "plain", n, n, "plain") BY <1>1, <1>3, <1>4
<1>6. Reads(channel, n) = n BY <1>4, <1>5, CarriesReads
<1>7. Reads(channel, n) = v BY <1>1, <1>4, SayableReads
<1> QED BY <1>1, <1>4, <1>6, <1>7, BreaksOne

\* And so the newlines at the end of a part may go.
LEMMA SayableTrim ==
    ASSUME NEW channel, NEW s, NEW v, Sayable(channel, s, v)
    PROVE  \E u : /\ Sayable(channel, TrimRight(s), u)
                  /\ WithoutBreaks(u) = WithoutBreaks(v)
<1>1. s \in Text /\ v \in Text BY SayableReads
<1>2. PICK e \in 0..Len(s) : /\ TrimRight(s) = SubSeq(s, 1, e)
                             /\ \A i \in (e + 1)..Len(s) : s[i] = NewLine
  BY <1>1, TrimIs
<1>3. Len(s) \in Nat BY <1>1, TextLen
<1> DEFINE Left(k) == SubSeq(s, 1, Len(s) - k)
           P == {k \in Nat : k <= Len(s) - e =>
                    \E u : /\ Sayable(channel, Left(k), u)
                           /\ WithoutBreaks(u) = WithoutBreaks(v)}
<1>4. 0 \in P
  <2>1. Len(s) - 0 = Len(s) BY <1>3
  <2>2. SubSeq(s, 1, Len(s)) = s BY <1>1, SubSeqFull DEF Text
  <2> QED BY <2>1, <2>2
<1>5. ASSUME NEW k \in Nat, k \in P PROVE k + 1 \in P
  <2>1. SUFFICES ASSUME k + 1 <= Len(s) - e
                 PROVE  \E u : /\ Sayable(channel, Left(k + 1), u)
                               /\ WithoutBreaks(u) = WithoutBreaks(v)
    OBVIOUS
  <2>2. PICK m : m = Len(s) - k OBVIOUS
  <2>3. /\ m \in (e + 1)..Len(s) /\ m \in 0..Len(s) /\ m \in 1..m /\ m - 1 \in 0..m
        /\ Len(s) - (k + 1) = m - 1 /\ k <= Len(s) - e
    BY <1>2, <1>3, <2>1, <2>2
  <2>4. PICK t : t = SubSeq(s, 1, m) OBVIOUS
  <2>5. PICK u : Sayable(channel, t, u) /\ WithoutBreaks(u) = WithoutBreaks(v)
    BY <1>5, <2>2, <2>3, <2>4
  <2>6. t \in Text /\ Len(t) = m /\ \A i \in 1..m : t[i] = s[i]
    BY <1>1, <2>3, <2>4, PartIs
  <2>7. m \in 1..Len(t) /\ t[m] = NewLine BY <1>2, <2>3, <2>6
  <2>8. PICK q : q = m - 1 /\ q \in {m - 1, m} OBVIOUS
  <2>9. PICK x, y : /\ u = x & y
                    /\ Sayable(channel, SubSeq(t, 1, q), x)
                    /\ Sayable(channel, SubSeq(t, q + 1, Len(t)), y)
    BY <2>5, <2>7, <2>8, SayableCut
  <2>10. SubSeq(t, q + 1, Len(t)) = <<NewLine>>
    <3>1. PICK b : b = SubSeq(t, m, m) OBVIOUS
    <3>2. b \in Text /\ Len(b) = m - m + 1 /\ \A i \in 1..(m - m + 1) : b[i] = t[m + i - 1]
      BY <2>6, <2>7, <3>1, SubText
    <3>3. m - m + 1 = 1 /\ m + 1 - 1 = m /\ 1 \in 1..1 BY <2>3
    <3>4. Len(b) = 1 /\ b[1] = NewLine BY <2>7, <3>2, <3>3
    <3>5. NewLine \in Chars BY DEF Chars, NewLine
    <3>6. PICK n : n = <<NewLine>> /\ n \in Text /\ Len(n) = 1 /\ n[1] = NewLine
      BY <3>5, OneText
    <3>7. \A i \in 1..Len(b) : b[i] = n[i] BY <3>4, <3>6
    <3>8. b = n BY <3>2, <3>4, <3>6, <3>7, TextEqual
    <3>9. q + 1 = m BY <2>3, <2>8
    <3> QED BY <2>6, <3>1, <3>6, <3>8, <3>9
  <2>11. WithoutBreaks(y) = <<>> BY <2>9, <2>10, NewLineSaid
  <2>12. x \in Text /\ y \in Text BY <2>9, SayableReads
  <2>13. WithoutBreaks(u) = WithoutBreaks(x) & WithoutBreaks(y) BY <2>9, <2>12, BreaksCat
  <2>14. WithoutBreaks(x) \in Text BY <2>12, KeptIs
  <2>15. WithoutBreaks(x) = WithoutBreaks(v) BY <2>5, <2>11, <2>13, <2>14, JoinEmpty
  <2>16. SubSeq(t, 1, q) = SubSeq(s, 1, m - 1) BY <1>1, <2>3, <2>4, <2>8, PrefixOf
  <2> QED BY <2>3, <2>9, <2>15, <2>16
<1>6. \A k \in Nat : k \in P
  <2> HIDE DEF P
  <2> QED BY <1>4, <1>5, Induct
<1>7. PICK k : k = Len(s) - e /\ k \in Nat /\ k <= Len(s) - e /\ Len(s) - k = e
  BY <1>2, <1>3
<1>8. k \in P BY <1>6, <1>7
<1> QED BY <1>2, <1>7, <1>8

LEMMA NothingRead ==
    ASSUME NEW channel
    PROVE  Reads(channel, <<>>) = <<>> /\ \A s \in Text : Reads(channel, s) \in Text
<1>1. PICK plain, z : plain = "plain" /\ plain \in Modes /\ z = <<>> /\ z \in Text
  BY JoinEmpty DEF Modes
<1>2. Carries(channel, plain, z, z, plain) BY <1>1, CarriesNothing
<1>3. Reads(channel, z) = z BY <1>1, <1>2, CarriesReads
<1>4. ASSUME NEW s \in Text PROVE Reads(channel, s) \in Text
  <2>1. 1 \in 1..(Len(s) + 3) BY TextLen
  <2>2. Read(channel, s)[<<1, plain>>] \in Text BY <1>1, <2>1, ReadIs
  <2> QED BY <1>1, <2>2, ReadUnfolds
<1> QED BY <1>1, <1>3, <1>4

\* What a channel shows of the parts it is sent.
Said(channel, q) == FlattenSeq([i \in DOMAIN q |-> Reads(channel, q[i])])

LEMMA SaidMore ==
    ASSUME NEW channel, NEW p \in Text, NEW r \in Seq(Text)
    PROVE  /\ <<p>> \o r \in Seq(Text) /\ Said(channel, r) \in Text
           /\ Said(channel, <<p>> \o r) = Reads(channel, p) & Said(channel, r)
<1>1. \A s \in Text : Reads(channel, s) \in Text BY NothingRead
<1> DEFINE Map(q) == [i \in DOMAIN q |-> Reads(channel, q[i])]
<1>2. ASSUME NEW q \in Seq(Text)
      PROVE  /\ Map(q) \in Seq(Text) /\ Len(Map(q)) = Len(q)
             /\ \A i \in 1..Len(q) : Map(q)[i] = Reads(channel, q[i])
  <2>1. PICK m : m = Map(q) OBVIOUS
  <2>2. Len(q) \in Nat /\ DOMAIN q = 1..Len(q) BY LenProperties
  <2>3. ASSUME NEW i \in 1..Len(q) PROVE m[i] = Reads(channel, q[i]) /\ m[i] \in Text
    <3>1. q[i] \in Text BY ElementOfSeq
    <3> QED BY <1>1, <2>1, <2>2, <3>1
  <2>4. m = [i \in 1..Len(q) |-> m[i]] BY <2>1, <2>2
  <2>5. m \in Seq(Text) BY <2>2, <2>3, <2>4, MapIs
  <2>6. DOMAIN m = 1..Len(q) /\ DOMAIN m = 1..Len(m) /\ Len(m) \in Nat
    BY <2>4, <2>5, LenProperties
  <2> QED BY <2>1, <2>2, <2>3, <2>5, <2>6
<1>3. \A q : Said(channel, q) = FlattenSeq(Map(q)) BY DEF Said
<1> HIDE DEF Map
<1>0. \A y \in Text : <<y>> \in Seq(Text) /\ Len(<<y>>) = 1 /\ <<y>>[1] = y OBVIOUS
<1>4. PICK o : o = <<p>> /\ o \in Seq(Text) /\ Len(o) = 1 /\ o[1] = p
  <2>1. PICK o : o = <<p>> OBVIOUS
  <2> QED BY <1>0, <2>1
<1>5. PICK x : x = Reads(channel, p) /\ x \in Text BY <1>1
<1>6. PICK z : z = <<x>> /\ z \in Seq(Text) /\ Len(z) = 1 /\ z[1] = x
  <2>1. PICK z : z = <<x>> OBVIOUS
  <2> QED BY <1>0, <1>5, <2>1
<1>7. PICK a : a = o \o r OBVIOUS
<1>8. /\ a \in Seq(Text) /\ Len(a) = 1 + Len(r) /\ Len(r) \in Nat
      /\ \A i \in 1..(1 + Len(r)) : a[i] = IF i <= 1 THEN o[i] ELSE r[i - 1]
  BY <1>4, <1>7, ConcatProperties, LenProperties
<1>9. Map(r) \in Seq(Text) /\ Len(Map(r)) = Len(r) BY <1>2
<1>10. PICK b : b = z \o Map(r) OBVIOUS
<1>11. /\ b \in Seq(Text) /\ Len(b) = 1 + Len(r)
       /\ \A i \in 1..(1 + Len(r)) : b[i] = IF i <= 1 THEN z[i] ELSE Map(r)[i - 1]
  BY <1>6, <1>9, <1>10, ConcatProperties
<1>12. Map(a) = b
  <2>1. PICK m : m = Map(a) OBVIOUS
  <2>2. /\ m \in Seq(Text) /\ Len(m) = Len(a)
        /\ \A i \in 1..Len(a) : m[i] = Reads(channel, a[i])
    BY <1>2, <1>8, <2>1
  <2>3. ASSUME NEW i \in 1..Len(m) PROVE m[i] = b[i]
    <3>1. i \in 1..(1 + Len(r)) /\ i \in 1..Len(a) BY <1>8, <2>2
    <3>2. m[i] = Reads(channel, a[i]) BY <2>2, <3>1
    <3>3. CASE i = 1 BY <1>4, <1>5, <1>6, <1>8, <1>11, <3>1, <3>2, <3>3
    <3>4. CASE i # 1
      <4>1. PICK j : j = i - 1 /\ j \in 1..Len(r) /\ ~(i <= 1) BY <1>8, <3>1, <3>4
      <4>2. a[i] = r[j] /\ b[i] = Map(r)[j] BY <1>8, <1>11, <3>1, <4>1
      <4>3. Map(r)[j] = Reads(channel, r[j]) BY <1>2, <4>1
      <4> QED BY <3>2, <4>2, <4>3
    <3> QED BY <3>3, <3>4
  <2>4. Len(m) = Len(b) BY <1>8, <1>11, <2>2
  <2>5. m = b BY <1>11, <2>2, <2>3, <2>4, SeqEqual
  <2> QED BY <2>1, <2>5
<1>13. FlattenSeq(b) = FlattenSeq(z) & FlattenSeq(Map(r)) BY <1>6, <1>9, <1>10, JoinFlat
<1>14. FlattenSeq(z) = x BY <1>5, <1>6, FlattenOne
<1>15. Said(channel, a) = x & Said(channel, r) BY <1>3, <1>12, <1>13, <1>14
<1>16. Said(channel, r) \in Text BY <1>3, <1>9, FlattenType
<1> QED BY <1>4, <1>5, <1>7, <1>8, <1>15, <1>16

LEMMA NothingSaid ==
    ASSUME NEW channel
    PROVE  <<>> \in Seq(Text) /\ Said(channel, <<>>) = <<>>
<1>1. PICK q : q = [i \in DOMAIN <<>> |-> Reads(channel, <<>>[i])] OBVIOUS
<1>2. \A x : x \notin DOMAIN <<>> BY EmptySeq, LenProperties
<1>3. q = <<>> BY <1>1, <1>2
<1>4. Said(channel, <<>>) = FlattenSeq(q) BY <1>1 DEF Said
<1> QED BY <1>3, <1>4, FlattenEmpty, EmptySeq

\* A part that is cut at a newline, and what is left to say.
LEMMA PartSaid ==
    ASSUME NEW channel, NEW s, NEW v, Sayable(channel, s, v),
           NEW p \in 1..Len(s), s[p] = NewLine, NEW q \in {p - 1, p}
    PROVE  LET part == TrimRight(SubSeq(s, 1, q))
           IN  /\ part \in Text
               /\ \E y : /\ Sayable(channel, SubSeq(s, q + 1, Len(s)), y)
                         /\ WithoutBreaks(v) =
                              WithoutBreaks(Reads(channel, part)) & WithoutBreaks(y)
<1>1. PICK x, y : /\ v = x & y
                  /\ Sayable(channel, SubSeq(s, 1, q), x)
                  /\ Sayable(channel, SubSeq(s, q + 1, Len(s)), y)
  BY SayableCut
<1>2. PICK part : part = TrimRight(SubSeq(s, 1, q)) OBVIOUS
<1>3. PICK u : Sayable(channel, part, u) /\ WithoutBreaks(u) = WithoutBreaks(x)
  BY <1>1, <1>2, SayableTrim
<1>4. part \in Text /\ Reads(channel, part) = u BY <1>3, SayableReads
<1>5. x \in Text /\ y \in Text BY <1>1, SayableReads
<1>6. WithoutBreaks(v) = WithoutBreaks(x) & WithoutBreaks(y) BY <1>1, <1>5, BreaksCat
<1> QED BY <1>1, <1>2, <1>3, <1>4, <1>6

LEMMA RestOfRest ==
    ASSUME NEW w \in Text, NEW i \in 1..Len(w), NEW q \in Nat, q < Len(Rest(w, i))
    PROVE  /\ SubSeq(Rest(w, i), q + 1, Len(Rest(w, i))) = Rest(w, i + q)
           /\ \A k \in 1..Len(Rest(w, i)) : Rest(w, i)[k] = w[i + k - 1]
<1>1. Len(w) \in Nat BY TextLen
<1>2. PICK r : r = Rest(w, i) OBVIOUS
<1>3. i \in 1..(Len(w) + 1) BY <1>1
<1>4. r \in Text /\ Len(r) = Len(w) + 1 - i BY <1>2, <1>3, RestIs
<1>5. SubSeq(r, q + 1, Len(r)) = Rest(w, i + q)
  <2>1. PICK j, m, n : j = Len(w) /\ m = q + 1 /\ n = Len(r) OBVIOUS
  <2>2. /\ j \in 1..Len(w) /\ m \in 1..(j - i + 1) /\ n \in 1..(j - i + 1)
        /\ i + m - 1 = i + q /\ i + n - 1 = j
    BY <1>1, <1>2, <1>4, <2>1
  <2>3. SubSeq(SubSeq(w, i, j), m, n) = SubSeq(w, i + m - 1, i + n - 1)
    BY <2>2, SubSeqOfSubSeq DEF Text
  <2> QED BY <1>2, <2>1, <2>2, <2>3 DEF Rest
<1>6. \A k \in 1..Len(r) : r[k] = w[i + k - 1]
  <2>1. i \in Int /\ Len(w) \in Int /\ 1 <= i /\ Len(w) <= Len(w) BY <1>1
  <2>2. \A k \in 1..(Len(w) - i + 1) : SubSeq(w, i, Len(w))[k] = w[i + k - 1]
    BY <2>1, SubText
  <2>3. Len(w) - i + 1 = Len(r) BY <1>1, <1>4
  <2> QED BY <1>2, <2>2, <2>3 DEF Rest
<1> QED BY <1>2, <1>5, <1>6

\* What Lined says of the lines.
HasLines(w, limit) ==
    LET end == Len(w) + 1
        breaks == {0, end} \union {i \in DOMAIN w : w[i] = NewLine}
    IN  \A i \in breaks \ {end} : \E j \in breaks : i < j /\ j - i <= limit

\* Where a part may begin.
IsCut(w, i) == i = 1 \/ i = Len(w) + 1 \/ w[i - 1] = NewLine \/ w[i] = NewLine

\* Where no newline is in reach, one comes next.
LEMMA LineEnds ==
    ASSUME NEW w \in Text, NEW limit \in Nat, limit > 1, HasLines(w, limit),
           NEW i \in 1..Len(w), Len(w) + 1 - i > limit, IsCut(w, i),
           \A k \in 2..limit : w[i + k - 1] # NewLine
    PROVE  w[i + limit] = NewLine
<1>1. Len(w) \in Nat /\ DOMAIN w = 1..Len(w) BY TextLen
<1>2. ASSUME NEW b \in 0..Len(w), b = 0 \/ w[b] = NewLine, b + limit < Len(w) + 1
      PROVE  \E j \in 1..Len(w) : w[j] = NewLine /\ b < j /\ j - b <= limit
  <2>1. PICK end, breaks : /\ end = Len(w) + 1
                           /\ breaks = {0, end} \union {j \in 1..Len(w) : w[j] = NewLine}
    OBVIOUS
  <2>2. b \in breaks \ {end} BY <1>1, <1>2, <2>1
  <2>3. PICK j \in breaks : b < j /\ j - b <= limit BY <1>1, <2>1, <2>2 DEF HasLines
  <2>4. j # 0 /\ j # end BY <1>1, <1>2, <2>1, <2>3
  <2> QED BY <2>1, <2>3, <2>4
<1>3. ASSUME NEW j \in Nat, i < j, j - i < limit PROVE w[j] # NewLine
  <2>1. PICK k : k = j - i + 1 /\ k \in 2..limit /\ i + k - 1 = j BY <1>3
  <2> QED BY <2>1
<1>4. w[i] = NewLine
  <2>1. CASE w[i] = NewLine BY <2>1
  <2>2. CASE i = 1 \/ w[i - 1] = NewLine
    <3>1. PICK b : b = i - 1 /\ b \in 0..Len(w) /\ b + limit < Len(w) + 1
      BY <1>1
    <3>2. b = 0 \/ w[b] = NewLine BY <2>2, <3>1
    <3>3. PICK j \in 1..Len(w) : w[j] = NewLine /\ b < j /\ j - b <= limit
      BY <1>2, <3>1, <3>2
    <3>4. j \in Nat /\ (i < j => j - i < limit) /\ ~(j < i) BY <1>1, <3>1, <3>3
    <3>5. j = i BY <1>3, <3>3, <3>4
    <3> QED BY <3>3, <3>5
  <2> QED BY <1>1, <2>1, <2>2 DEF IsCut
<1>5. PICK j \in 1..Len(w) : w[j] = NewLine /\ i < j /\ j - i <= limit
  <2>1. i \in 0..Len(w) /\ i + limit < Len(w) + 1 BY <1>1
  <2> QED BY <1>2, <1>4, <2>1
<1>6. j = i + limit
  <2>1. j \in Nat /\ ~(j - i < limit) BY <1>1, <1>3, <1>5
  <2> QED BY <1>1, <1>5, <2>1
<1> QED BY <1>5, <1>6

\* However it is cut, a text in short lines says the same.
LEMMA SplitSaid ==
    ASSUME NEW channel, NEW w, NEW v, Sayable(channel, w, v),
           NEW limit \in Nat, limit > 1, HasLines(w, limit)
    PROVE  WithoutBreaks(Said(channel, SplitMessage(w, limit))) = WithoutBreaks(v)
<1>1. w \in Text /\ v \in Text /\ Len(w) \in Nat BY SayableReads, TextLen
<1>2. PICK from :
        /\ \A i \in 1..(Len(w) + 1) : from[i] = PartsFrom(w, limit, from, i)
        /\ SplitMessage(w, limit) = IF Len(w) <= limit THEN <<w>> ELSE from[1]
  BY <1>1, SplitUnfolds
<1>3. <<>> \in Seq(Text) /\ Said(channel, <<>>) = <<>> BY NothingSaid
<1>4. ASSUME NEW s, NEW u, Sayable(channel, s, u)
      PROVE  <<s>> \in Seq(Text) /\ Said(channel, <<s>>) = u
  <2>1. s \in Text /\ u \in Text /\ Reads(channel, s) = u BY <1>4, SayableReads
  <2>2. PICK z : z = <<>> /\ z \in Seq(Text) /\ Said(channel, z) = <<>> BY <1>3
  <2>3. <<s>> \o z \in Seq(Text) /\ Said(channel, <<s>> \o z) = u & Said(channel, z)
    BY <2>1, <2>2, SaidMore
  <2>4. <<s>> \o <<>> = <<s>>
    <3>1. <<s>> \in Seq(Text) BY <2>1
    <3> QED BY <3>1, ConcatEmptySeq
  <2> QED BY <2>1, <2>2, <2>3, <2>4, JoinEmpty
<1> DEFINE P == {i \in 1..(Len(w) + 1) : IsCut(w, i) =>
                    \A u : Sayable(channel, Rest(w, i), u) =>
                       /\ from[i] \in Seq(Text)
                       /\ WithoutBreaks(Said(channel, from[i])) = WithoutBreaks(u)}
<1>5. ASSUME NEW i \in 1..(Len(w) + 1), \A j \in (i + 1)..(Len(w) + 1) : j \in P
      PROVE  i \in P
  <2>1. SUFFICES ASSUME IsCut(w, i), NEW u, Sayable(channel, Rest(w, i), u)
                 PROVE  /\ from[i] \in Seq(Text)
                        /\ WithoutBreaks(Said(channel, from[i])) = WithoutBreaks(u)
    OBVIOUS
  <2>2. PICK rest : rest = Rest(w, i) OBVIOUS
  <2>3. rest \in Text /\ u \in Text /\ Reads(channel, rest) = u
        /\ Len(rest) = Len(w) + 1 - i /\ Len(rest) \in Nat
    BY <1>1, <2>1, <2>2, SayableReads, RestIs, TextLen
  <2>4. from[i] = PartsFrom(w, limit, from, i) BY <1>2
  <2>5. CASE Len(rest) <= limit /\ rest = <<>>
    <3>1. from[i] = <<>> BY <2>2, <2>4, <2>5 DEF PartsFrom
    <3>2. Said(channel, <<rest>>) = u BY <1>4, <2>1, <2>2
    <3>3. u = <<>> BY <2>3, <2>5, NothingRead
    <3> QED BY <1>3, <3>1, <3>3
  <2>6. CASE Len(rest) <= limit /\ rest # <<>>
    <3>1. from[i] = <<rest>> BY <2>2, <2>4, <2>6 DEF PartsFrom
    <3> QED BY <1>4, <2>1, <2>2, <3>1
  <2>7. CASE Len(rest) > limit
    <3>1. PICK k : k = Cut(rest, limit) OBVIOUS
    <3>2. /\ k \in 1..limit
          /\ \/ k \in 2..limit /\ rest[k] = NewLine
             \/ k = limit /\ \A n \in 2..limit : rest[n] # NewLine
      BY <2>3, <2>7, <3>1, CutIs
    <3>3. i \in 1..Len(w) /\ k < Len(rest) /\ k \in Nat BY <1>1, <2>3, <2>7, <3>2
    <3>4. /\ SubSeq(rest, k + 1, Len(rest)) = Rest(w, i + k)
          /\ \A n \in 1..Len(rest) : rest[n] = w[i + n - 1]
      BY <1>1, <2>2, <3>3, RestOfRest
    <3>5. PICK p \in 1..Len(rest) :
             rest[p] = NewLine /\ k \in {p - 1, p} /\ IsCut(w, i + k)
      <4>1. CASE k \in 2..limit /\ rest[k] = NewLine
        <5>1. k \in 1..Len(rest) /\ i + k - 1 = (i + k) - 1 BY <3>2, <3>3
        <5>2. w[(i + k) - 1] = NewLine BY <3>4, <4>1, <5>1
        <5> QED BY <4>1, <5>1, <5>2 DEF IsCut
      <4>2. CASE k = limit /\ \A n \in 2..limit : rest[n] # NewLine
        <5>1. ASSUME NEW n \in 2..limit PROVE w[i + n - 1] # NewLine
          <6>1. n \in 1..Len(rest) BY <2>3, <2>7
          <6> QED BY <3>4, <4>2, <6>1
        <5>2. Len(w) + 1 - i > limit BY <2>3, <2>7
        <5>3. w[i + limit] = NewLine BY <1>1, <2>1, <3>3, <5>1, <5>2, LineEnds
        <5>4. PICK p : p = k + 1 /\ p \in 1..Len(rest) /\ i + p - 1 = i + k /\ k = p - 1
          BY <2>3, <3>3
        <5>5. rest[p] = w[i + p - 1] BY <3>4, <5>4
        <5> QED BY <4>2, <5>3, <5>4, <5>5 DEF IsCut
      <4> QED BY <3>2, <4>1, <4>2
    <3>6. PICK part : part = TrimRight(SubSeq(rest, 1, k)) OBVIOUS
    <3>7. part \in Text /\ \E y : /\ Sayable(channel, SubSeq(rest, k + 1, Len(rest)), y)
                                  /\ WithoutBreaks(u) =
                                       WithoutBreaks(Reads(channel, part)) & WithoutBreaks(y)
      BY <2>1, <2>2, <3>5, <3>6, PartSaid
    <3>8. PICK y : /\ Sayable(channel, Rest(w, i + k), y)
                   /\ WithoutBreaks(u) =
                        WithoutBreaks(Reads(channel, part)) & WithoutBreaks(y)
      BY <3>4, <3>7
    <3>9. PICK j : j = i + k /\ j \in (i + 1)..(Len(w) + 1) /\ j \in P
      <4>1. i + k \in (i + 1)..(Len(w) + 1) BY <1>1, <2>3, <3>2, <3>3
      <4> QED BY <1>5, <4>1
    <3>10. /\ from[j] \in Seq(Text)
           /\ WithoutBreaks(Said(channel, from[j])) = WithoutBreaks(y)
      BY <3>5, <3>8, <3>9
    <3>11. from[i] = <<part>> \o from[j]
      <4>1. Rest(w, i) = rest /\ Cut(rest, limit) = k BY <2>2, <3>1
      <4>2. ~(Len(rest) <= limit) BY <2>3, <2>7
      <4>3. PartsFrom(w, limit, from, i) =
               <<TrimRight(SubSeq(rest, 1, k))>> \o from[i + k]
        BY <4>1, <4>2 DEF PartsFrom
      <4> QED BY <2>4, <3>6, <3>9, <4>3
    <3>12. /\ from[i] \in Seq(Text)
           /\ Said(channel, from[i]) = Reads(channel, part) & Said(channel, from[j])
           /\ Said(channel, from[j]) \in Text
      BY <3>7, <3>10, <3>11, SaidMore
    <3>13. Reads(channel, part) \in Text BY <3>7, NothingRead
    <3>14. WithoutBreaks(Said(channel, from[i])) =
             WithoutBreaks(Reads(channel, part)) & WithoutBreaks(Said(channel, from[j]))
      BY <3>12, <3>13, BreaksCat
    <3> QED BY <3>8, <3>10, <3>12, <3>14
  <2> QED BY <2>3, <2>5, <2>6, <2>7
<1>6. \A i \in 1..(Len(w) + 1) : i \in P
  <2> HIDE DEF P
  <2> QED BY <1>1, <1>5, FromTheEnd
<1>7. Rest(w, 1) = w BY <1>1, SubSeqFull DEF Rest, Text
<1>8. CASE Len(w) <= limit BY <1>2, <1>4, <1>8
<1>9. CASE Len(w) > limit
  <2>1. 1 \in P /\ IsCut(w, 1) BY <1>1, <1>6 DEF IsCut
  <2>2. WithoutBreaks(Said(channel, from[1])) = WithoutBreaks(v) BY <1>7, <2>1
  <2> QED BY <1>1, <1>2, <1>9, <2>2
<1> QED BY <1>1, <1>8, <1>9

----------------------------------------------------------------------------
(* The converted text, piece by piece.                                     *)

OneLine(s) == NewLine \notin ToSet(s)

LEMMA OneLineCat ==
    ASSUME NEW a \in Text, NEW b \in Text, OneLine(a), OneLine(b)
    PROVE  OneLine(a & b)
<1>1. PICK c : c = a & b OBVIOUS
<1>2. c \in Text /\ Len(c) = Len(a) + Len(b) /\ Len(a) \in Nat /\ Len(b) \in Nat
  BY <1>1, JoinType, JoinLen, TextLen
<1>3. DOMAIN c = 1..Len(c) /\ DOMAIN a = 1..Len(a) /\ DOMAIN b = 1..Len(b)
  BY <1>2, TextLen
<1>4. ASSUME NEW i \in 1..Len(c) PROVE c[i] # NewLine
  <2>1. i \in 1..(Len(a) + Len(b)) BY <1>2
  <2>2. c[i] = IF i <= Len(a) THEN a[i] ELSE b[i - Len(a)] BY <1>1, <2>1, JoinAt
  <2>3. CASE i <= Len(a)
    <3>1. i \in DOMAIN a BY <1>3, <2>1, <2>3
    <3> QED BY <2>2, <2>3, <3>1 DEF OneLine, ToSet
  <2>4. CASE ~(i <= Len(a))
    <3>1. i - Len(a) \in DOMAIN b BY <1>2, <1>3, <2>1, <2>4
    <3> QED BY <2>2, <2>4, <3>1 DEF OneLine, ToSet
  <2> QED BY <2>3, <2>4
<1>5. OneLine(c) BY <1>3, <1>4 DEF OneLine, ToSet
<1> QED BY <1>1, <1>5

LEMMA OneLineMarks ==
    /\ \A x \in Chars : x # NewLine => OneLine(<<x>>)
    /\ OneLine(Fence) /\ OneLine(Tick) /\ OneLine(<<"*">>) /\ OneLine(<<"<">>)
    /\ OneLine(<<"|">>) /\ OneLine(<<">">>) /\ OneLine(<<>>)
<1>1. ASSUME NEW x \in Chars, x # NewLine PROVE OneLine(<<x>>)
  <2>1. PICK s : s = <<x>> OBVIOUS
  <2>2. s \in Text /\ Len(s) = 1 /\ s[1] = x BY <2>1, OneText
  <2>3. \A i \in DOMAIN s : s[i] = x
    <3>1. DOMAIN s = 1..1 BY <2>2, TextLen
    <3>2. \A i \in 1..1 : i = 1 OBVIOUS
    <3> QED BY <2>2, <3>1, <3>2
  <2>4. OneLine(s) BY <1>1, <2>3 DEF OneLine, ToSet
  <2> QED BY <2>1, <2>4
<1>2. OneLine(Fence)
  <2>1. DOMAIN Fence = 1..3 BY MarksAreTexts, TextLen
  <2>2. \A i \in DOMAIN Fence : Fence[i] # NewLine BY <2>1, MarksAreTexts DEF NewLine
  <2> QED BY <2>2 DEF OneLine, ToSet
<1>3. OneLine(Tick)
  <2>1. "~" # NewLine BY DEF NewLine
  <2> QED BY <1>1, <2>1, CharsAre DEF Tick
<1>4. OneLine(<<"*">>) /\ OneLine(<<"<">>) /\ OneLine(<<"|">>) /\ OneLine(<<">">>)
  <2>1. "*" # NewLine /\ "<" # NewLine /\ "|" # NewLine /\ ">" # NewLine BY DEF NewLine
  <2> QED BY <1>1, <2>1, CharsAre
<1>5. OneLine(<<>>)
  <2>1. PICK z : z = <<>> /\ z \in Text /\ Len(z) = 0 BY JoinEmpty, EmptyText
  <2>2. \A i : i \notin DOMAIN z BY <2>1, TextLen
  <2>3. OneLine(z) BY <2>2 DEF OneLine, ToSet
  <2> QED BY <2>1, <2>3
<1> QED BY <1>1, <1>2, <1>3, <1>4, <1>5

LEMMA OneLineFlat ==
    ASSUME NEW p \in Seq(Text), \A i \in 1..Len(p) : OneLine(p[i])
    PROVE  OneLine(FlattenSeq(p))
<1>1. PICK n : n = Len(p) /\ n \in Nat BY LenProperties
<1>2. PICK f : f[0] = <<>> /\ \A i \in 1..n : f[i] = f[i-1] \o p[i] BY <1>1, FlattenFun
<1>3. FlattenSeq(p) = f[n] /\ \A i \in 0..n : f[i] \in Text BY <1>1, <1>2, FlattenIs
<1> DEFINE P == {i \in Nat : i <= n => OneLine(f[i])}
<1>4. 0 \in P BY <1>2, OneLineMarks
<1>5. ASSUME NEW i \in Nat, i \in P PROVE i + 1 \in P
  <2>1. SUFFICES ASSUME i + 1 <= n PROVE OneLine(f[i+1]) OBVIOUS
  <2>2. i + 1 \in 1..n /\ i \in 0..n /\ (i + 1) - 1 = i BY <1>1, <2>1
  <2>3. f[i+1] = f[i] & p[i+1] BY <1>2, <2>2 DEF &
  <2>4. OneLine(f[i]) BY <1>5, <2>2
  <2>5. p[i+1] \in Text /\ OneLine(p[i+1]) BY <1>1, <2>2, ElementOfSeq
  <2>6. OneLine(f[i] & p[i+1]) BY <1>3, <2>2, <2>4, <2>5, OneLineCat
  <2> QED BY <2>3, <2>6
<1>6. \A i \in Nat : i \in P
  <2> HIDE DEF P
  <2> QED BY <1>4, <1>5, Induct
<1> QED BY <1>1, <1>3, <1>6

LEMMA OneLineEscape ==
    ASSUME NEW s \in Text, NEW chars, OneLine(s)
    PROVE  OneLine(Escape(s, chars))
<1>1. PICK q : q = [i \in DOMAIN s |->
                       IF s[i] \in chars THEN <<"\\", s[i]>> ELSE <<s[i]>>]
  OBVIOUS
<1>2. Len(s) \in Nat /\ DOMAIN s = 1..Len(s) /\ \A i \in 1..Len(s) : s[i] \in Chars
  BY TextLen
<1>3. ASSUME NEW i \in 1..Len(s) PROVE q[i] \in Text /\ OneLine(q[i])
  <2>1. PICK a, b : a = <<"\\", s[i]>> /\ b = <<s[i]>> OBVIOUS
  <2>2. s[i] # NewLine /\ "\\" # NewLine BY <1>2 DEF OneLine, ToSet, NewLine
  <2>3. a \in Text /\ Len(a) = 2 /\ a[1] = "\\" /\ a[2] = s[i]
    <3>1. ASSUME NEW S, NEW y \in S, NEW z \in S
          PROVE  <<y, z>> \in Seq(S) /\ Len(<<y, z>>) = 2 /\ <<y, z>>[1] = y /\ <<y, z>>[2] = z
      OBVIOUS
    <3> QED BY <1>2, <2>1, <3>1, CharsAre DEF Text
  <2>4. OneLine(a)
    <3>1. DOMAIN a = 1..2 BY <2>3, TextLen
    <3>2. \A k \in 1..2 : k = 1 \/ k = 2 OBVIOUS
    <3>3. \A k \in DOMAIN a : a[k] # NewLine BY <2>2, <2>3, <3>1, <3>2
    <3> QED BY <3>3 DEF OneLine, ToSet
  <2>5. b \in Text /\ OneLine(b) BY <1>2, <2>1, <2>2, OneText, OneLineMarks
  <2>6. q[i] = b \/ q[i] = a
    <3>1. q[i] = IF s[i] \in chars THEN <<"\\", s[i]>> ELSE <<s[i]>> BY <1>1, <1>2
    <3> QED BY <2>1, <3>1
  <2> QED BY <2>3, <2>4, <2>5, <2>6
<1>4. q \in Seq(Text) /\ Len(q) = Len(s)
  <2>1. q = [i \in 1..Len(s) |-> q[i]] BY <1>1, <1>2
  <2>2. q \in Seq(Text) BY <1>2, <1>3, <2>1, MapIs
  <2>3. DOMAIN q = 1..Len(s) /\ DOMAIN q = 1..Len(q) /\ Len(q) \in Nat
    BY <1>1, <1>2, <2>2, LenProperties
  <2> QED BY <1>2, <2>2, <2>3
<1>5. OneLine(FlattenSeq(q)) BY <1>3, <1>4, OneLineFlat
<1>6. Escape(s, chars) = FlattenSeq(q) BY <1>1 DEF Escape
<1> QED BY <1>5, <1>6

LEMMA EscapeOne ==
    ASSUME NEW x \in Chars, NEW chars, x \notin chars
    PROVE  Escape(<<x>>, chars) = <<x>>
<1>1. PICK s : s = <<x>> /\ s \in Text /\ Len(s) = 1 /\ s[1] = x BY OneText
<1>2. PICK q : q = [i \in DOMAIN s |->
                       IF s[i] \in chars THEN <<"\\", s[i]>> ELSE <<s[i]>>]
  OBVIOUS
<1>3. DOMAIN s = 1..1 BY <1>1, TextLen
<1>4. q[1] = s
  <2>1. 1 \in DOMAIN s BY <1>3
  <2>2. q[1] = IF s[1] \in chars THEN <<"\\", s[1]>> ELSE <<s[1]>> BY <1>2, <2>1
  <2> QED BY <1>1, <2>2
<1>5. \A y \in Text : <<y>> \in Seq(Text) /\ Len(<<y>>) = 1 /\ <<y>>[1] = y OBVIOUS
<1>6. q = <<s>>
  <2>1. q = [i \in 1..1 |-> q[i]] BY <1>2, <1>3
  <2>2. \A i \in 1..1 : q[i] \in Text
    <3>1. \A i \in 1..1 : i = 1 OBVIOUS
    <3> QED BY <1>1, <1>4, <3>1
  <2>3. q \in Seq(Text) BY <2>1, <2>2, MapIs
  <2>4. Len(q) = 1
    <3>1. DOMAIN q = 1..1 /\ DOMAIN q = 1..Len(q) /\ Len(q) \in Nat
      BY <1>2, <1>3, <2>3, LenProperties
    <3> QED BY <3>1
  <2>5. PICK o : o = <<s>> OBVIOUS
  <2>6. o \in Seq(Text) /\ Len(o) = 1 /\ o[1] = s BY <1>1, <1>5, <2>5
  <2>7. \A i \in 1..Len(q) : q[i] = o[i]
    <3>1. \A i \in 1..1 : i = 1 OBVIOUS
    <3> QED BY <1>4, <2>4, <2>6, <3>1
  <2>8. q = o BY <2>3, <2>4, <2>6, <2>7, SeqEqual
  <2> QED BY <2>5, <2>8
<1>7. FlattenSeq(<<s>>) = s BY <1>1, FlattenOne
<1>8. Escape(s, chars) = FlattenSeq(q) BY <1>2 DEF Escape
<1> QED BY <1>1, <1>6, <1>7, <1>8

\* A span of one line has an image of one line; a newline is its own image.
LEMMA ImageLines ==
    ASSUME NEW channel \in {"telegram", "slack"}, NEW span, IsSpanFor(channel, span),
           span.kind # "plain" => OneLine(span.inner) /\ OneLine(span.url)
    PROVE  Image(channel, span) = <<NewLine>> \/ OneLine(Image(channel, span))
<1>1. PICK s, url : s = span.inner /\ url = span.url /\ s \in Text /\ url \in Text
  BY DEF IsSpanFor, IsSpan
<1>2. ASSUME NEW a \in Text, NEW b \in Text, NEW c \in Text,
             OneLine(a), OneLine(b), OneLine(c)
      PROVE  (a & b) & c \in Text /\ OneLine((a & b) & c)
  <2>1. PICK d : d = a & b /\ d \in Text BY JoinType
  <2>2. OneLine(d) BY <1>2, <2>1, OneLineCat
  <2>3. d & c \in Text /\ OneLine(d & c) BY <1>2, <2>1, <2>2, JoinType, OneLineCat
  <2> QED BY <2>1, <2>3
<1>3. PICK star, lt, bar, gt :
        /\ star = <<"*">> /\ lt = <<"<">> /\ bar = <<"|">> /\ gt = <<">">>
        /\ star \in Text /\ lt \in Text /\ bar \in Text /\ gt \in Text
        /\ OneLine(star) /\ OneLine(lt) /\ OneLine(bar) /\ OneLine(gt)
  BY OneText, CharsAre, OneLineMarks
<1>4. Fence \in Text /\ Tick \in Text /\ OneLine(Fence) /\ OneLine(Tick)
  BY MarksAreTexts, OneLineMarks
<1>5. CASE span.kind = "block"
  <2>1. Image(channel, span) = (Fence & s) & Fence
    BY <1>1, <1>5 DEF Image, ForTelegram, ForSlack, &
  <2>2. OneLine(s) BY <1>1, <1>5
  <2> QED BY <1>1, <1>2, <1>4, <2>1, <2>2
<1>6. CASE span.kind = "code"
  <2>1. Image(channel, span) = (Tick & s) & Tick
    BY <1>1, <1>6 DEF Image, ForTelegram, ForSlack, &
  <2>2. OneLine(s) BY <1>1, <1>6
  <2> QED BY <1>1, <1>2, <1>4, <2>1, <2>2
<1>7. CASE span.kind = "bold"
  <2>1. PICK img : img = IF channel = "telegram" THEN Escape(s, BoldSafe) ELSE s OBVIOUS
  <2>2. Image(channel, span) = (star & img) & star
    BY <1>1, <1>3, <1>7, <2>1 DEF Image, ForTelegram, ForSlack, &
  <2>3. OneLine(s) BY <1>1, <1>7
  <2>4. img \in Text /\ OneLine(img) BY <1>1, <2>1, <2>3, EscapeIs, OneLineEscape
  <2> QED BY <1>2, <1>3, <2>2, <2>4
<1>8. CASE span.kind = "link"
  <2>1. channel # "telegram" BY <1>8 DEF IsSpanFor
  <2>2. PICK a : a = (lt & url) & bar OBVIOUS
  <2>3. Image(channel, span) = (a & s) & gt
    BY <1>1, <1>3, <1>8, <2>1, <2>2 DEF Image, ForSlack, &
  <2>4. OneLine(s) /\ OneLine(url) BY <1>1, <1>8
  <2>5. a \in Text /\ OneLine(a) BY <1>1, <1>2, <1>3, <2>2, <2>4
  <2> QED BY <1>1, <1>2, <1>3, <2>3, <2>4, <2>5
<1>9. CASE span.kind = "plain"
  <2>1. Image(channel, span) = IF channel = "telegram" THEN Escape(s, Special) ELSE s
    BY <1>1, <1>9 DEF Image, ForTelegram, ForSlack
  <2>2. Len(s) = 1 BY <1>1, <1>9 DEF IsSpanFor, IsSpan
  <2>3. PICK x : x = s[1] /\ x \in Chars /\ s = <<x>>
    <3>1. PICK x : x = s[1] OBVIOUS
    <3>2. 1 \in 1..Len(s) BY <2>2
    <3>3. x \in Chars BY <1>1, <3>1, <3>2, TextLen
    <3>4. PICK o : o = <<x>> /\ o \in Text /\ Len(o) = 1 /\ o[1] = x BY <3>3, OneText
    <3>5. \A i \in 1..Len(s) : s[i] = o[i]
      <4>1. \A i \in 1..1 : i = 1 OBVIOUS
      <4> QED BY <2>2, <3>1, <3>4, <4>1
    <3>6. s = o BY <1>1, <2>2, <3>4, <3>5, TextEqual
    <3> QED BY <3>1, <3>3, <3>4, <3>6
  <2>4. CASE x = NewLine
    <3>1. NewLine \notin Special BY DEF NewLine, Special
    <3>2. Escape(<<x>>, Special) = <<x>> BY <2>3, <2>4, <3>1, EscapeOne
    <3> QED BY <2>1, <2>3, <2>4, <3>2
  <2>5. CASE x # NewLine
    <3>1. OneLine(s) BY <2>3, <2>5, OneLineMarks
    <3> QED BY <1>1, <2>1, <3>1, OneLineEscape
  <2> QED BY <2>4, <2>5
<1> QED BY <1>5, <1>6, <1>7, <1>8, <1>9 DEF IsSpanFor, IsSpan

LEMMA LinedIs ==
    ASSUME NEW channel, NEW s \in Text, NEW limit, Lined(channel, s, limit)
    PROVE  /\ HasLines(Converted(channel, s), limit)
           /\ \A i \in DOMAIN SpansFor(channel, s) :
                 LET span == SpansFor(channel, s)[i]
                 IN  span.kind # "plain" => OneLine(span.inner) /\ OneLine(span.url)
<1>1. HasLines(Converted(channel, s), limit) BY DEF Lined, HasLines
<1>2. ASSUME NEW i \in DOMAIN SpansFor(channel, s)
      PROVE  LET span == SpansFor(channel, s)[i]
             IN  span.kind # "plain" => OneLine(span.inner) /\ OneLine(span.url)
  <2>1. PICK spans, span : spans = SpansFor(channel, s) /\ span = spans[i] OBVIOUS
  <2>2. span \in ToSet(spans) BY <2>1 DEF ToSet
  <2>3. span.kind # "plain" =>
          NewLine \notin ToSet(span.inner) \union ToSet(span.url)
    BY <2>1, <2>2 DEF Lined
  <2> QED BY <2>1, <2>3 DEF OneLine
<1> QED BY <1>1, <1>2

LEMMA SameLength == \A m, n \in Nat : 1..m = 1..n => m = n
<1> SUFFICES ASSUME NEW m \in Nat, NEW n \in Nat, 1..m = 1..n PROVE m = n
  OBVIOUS
<1>1. m > 0 => m \in 1..n OBVIOUS
<1>2. n > 0 => n \in 1..m OBVIOUS
<1> QED BY <1>1, <1>2

LEMMA ConvertedSaid ==
    ASSUME NEW channel \in {"telegram", "slack"}, NEW s \in Text, NEW limit,
           Regular(channel, s), Lined(channel, s, limit)
    PROVE  Sayable(channel, Converted(channel, s), Content(channel, s))
<1>1. PICK spans, imgs, inns :
        /\ spans = SpansFor(channel, s) /\ imgs = ImagesOf(channel, s)
        /\ inns = [i \in DOMAIN spans |-> spans[i].inner]
  OBVIOUS
<1>2. /\ Len(spans) \in Nat /\ DOMAIN spans = 1..Len(spans)
      /\ \A i \in 1..Len(spans) : IsSpanFor(channel, spans[i])
  BY <1>1, SpansForAre
<1>3. imgs \in Seq(Text) /\ Converted(channel, s) = FlattenSeq(imgs)
  BY <1>1, ConvertedIs
<1>4. imgs = [i \in DOMAIN spans |-> Image(channel, spans[i])] BY <1>1 DEF ImagesOf
<1>5. Len(imgs) = Len(spans)
  <2>1. DOMAIN imgs = 1..Len(imgs) /\ Len(imgs) \in Nat BY <1>3, LenProperties
  <2>2. DOMAIN imgs = 1..Len(spans) BY <1>2, <1>4
  <2>3. 1..Len(imgs) = 1..Len(spans) BY <2>1, <2>2
  <2> QED BY <1>2, <2>1, <2>3, SameLength
<1>6. inns \in Seq(Text) /\ Len(inns) = Len(spans)
  <2>1. \A i \in 1..Len(spans) : inns[i] \in Text BY <1>1, <1>2 DEF IsSpanFor, IsSpan
  <2>2. inns = [i \in 1..Len(spans) |-> inns[i]] BY <1>1, <1>2
  <2>3. inns \in Seq(Text) BY <1>2, <2>1, <2>2, MapIs
  <2>4. DOMAIN inns = 1..Len(inns) /\ Len(inns) \in Nat BY <2>3, LenProperties
  <2>5. DOMAIN inns = 1..Len(spans) BY <1>1, <1>2
  <2>6. 1..Len(inns) = 1..Len(spans) BY <2>4, <2>5
  <2>7. Len(inns) = Len(spans) BY <1>2, <2>4, <2>6, SameLength
  <2> QED BY <2>3, <2>7
<1>7. ASSUME NEW i \in 1..Len(imgs) PROVE IsPiece(channel, imgs[i], inns[i])
  <2>1. PICK span : span = spans[i] OBVIOUS
  <2>2. i \in DOMAIN spans /\ IsSpanFor(channel, span) BY <1>2, <1>5, <2>1
  <2>3. imgs[i] = Image(channel, span) /\ inns[i] = span.inner BY <1>1, <1>4, <2>1, <2>2
  <2>4. RegularSpan(channel, span) BY <1>1, <2>1, <2>2, RegularIs
  <2>5. Carries(channel, "plain", Image(channel, span), span.inner, "plain")
    BY <2>2, <2>4, SpanCarried
  <2>6. span.kind # "plain" => OneLine(span.inner) /\ OneLine(span.url)
    BY <1>1, <2>1, <2>2, LinedIs
  <2>7. Image(channel, span) = <<NewLine>> \/ OneLine(Image(channel, span))
    BY <2>2, <2>6, ImageLines
  <2> QED BY <2>3, <2>5, <2>7 DEF IsPiece, OneLine
<1>8. AreSaid(channel, imgs, inns) BY <1>3, <1>5, <1>6, <1>7 DEF AreSaid
<1>9. Content(channel, s) = FlattenSeq(inns) BY <1>1 DEF Content
<1> QED BY <1>3, <1>8, <1>9 DEF Sayable

\* What arrives is what the text says (escapeMarkdownV2, ConvertMarkdown,
\* splitMessage): of a text of a regular kind in short lines the parts of its summary,
\* read one by one, show its content but for newlines; and no part is too long.
THEOREM ReadsBackAlways == Spec => []ReadsBack
<1>1. InOrderInv /\ WithinLimit => ReadsBack
  <2>1. SUFFICES ASSUME InOrderInv, NEW c \in Names, Serving(c), task = 1, step = 1,
                        Regular(c, text), Lined(c, text, Limit)
                 PROVE  WithoutBreaks(Said(c, chunks[c])) = WithoutBreaks(Content(c, text))
    BY DEF ReadsBack, Said
  <2>2. at \in 1..2 /\ Channels[at] = c /\ dest[c] # "none"
    BY <2>1, ChannelsAre DEF Serving
  <2>3. text \in Texts /\ Ready(at)
    BY <2>1, <2>2, ChannelsAre DEF InOrderInv, Shape, Position
  <2>4. Begun(at) BY <2>1, <2>2 DEF Begun
  <2>5. chunks[c] = Cuts(c) BY <2>2, <2>3, <2>4 DEF Ready
  <2>6. PICK s, w : s = text /\ w = Converted(c, s) /\ s \in Text
    BY <2>3, CutsAre
  <2>7. c \in {"telegram", "slack"} BY ChannelsAre
  <2>8. Sayable(c, w, Content(c, s)) BY <2>1, <2>6, <2>7, ConvertedSaid
  <2>9. HasLines(w, Limit) BY <2>1, <2>6, LinedIs
  <2>10. Limit \in Nat /\ Limit > 1 BY DeliveryConstants
  <2>11. WithoutBreaks(Said(c, SplitMessage(w, Limit))) = WithoutBreaks(Content(c, s))
    BY <2>8, <2>9, <2>10, SplitSaid
  <2>12. chunks[c] = SplitMessage(w, Limit) BY <2>5, <2>6 DEF Cuts
  <2> QED BY <2>6, <2>11, <2>12
<1> QED BY <1>1, OrderAlways, WithinLimitAlways, PTL
=============================================================================
