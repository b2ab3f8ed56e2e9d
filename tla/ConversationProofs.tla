-------------------------- MODULE ConversationProofs --------------------------
(***************************************************************************)
(* Proofs about Conversation, for any number of turns, of blocks of an     *)
(* answer and of calls the agent keeps: the APIs accept every request, the *)
(* LLM sees its own turns again, and no call that may be cut off is made.  *)
(*                                                                         *)
(* What a request holds is picked from the messages in their order, by     *)
(* Picked; its laws come first: the picked elements are those at the       *)
(* numbers of a set, in order (PickedAt), and picking goes through an      *)
(* append, a concatenation and another picking.                            *)
(*                                                                         *)
(* TalkInv is what holds of the messages of the agent at every moment: the *)
(* results of a turn follow it, one for each call, the calls still to be   *)
(* made are those without one (Answers), ids only rise (IdInv), and each   *)
(* turn has the text, the reasoning and the calls kept of its answer       *)
(* (TurnInv).  When a request is made no call is open, and TurnsEchoed and *)
(* what Accepted says of results (Placed) follow from what the conversions *)
(* make of such messages.  That turns alternate needs one thing more, where*)
(* the user's messages are (RoleInv).                                      *)
(***************************************************************************)
EXTENDS Conversation, SequenceTheorems, WellFoundedInduction, TLAPS

\* Blocks of answers, messages of the agent and of a request.
ToolUses == BlocksOf({"tool_use"})
Answering(a) == BlocksOf(Kinds(a))
AnyKind == {"text", "tool_use", "tool_result"} \union Thinking
Msg == [role : {"user", "assistant", "tool"}, text : BOOLEAN,
        thinking : Seq(BlocksOf(Thinking)), calls : Seq(ToolUses), of : Nat]
Req == [role : {"system", "user", "assistant", "tool"}, blocks : Seq(BlocksOf(AnyKind))]

TalkTypes ==
    /\ api \in {"anthropic", "openai"}
    /\ pc \in {"ask", "answer", "tools", "report", "error"}
    /\ offered \in BOOLEAN
    /\ messages \in Seq(Msg) /\ request \in Seq(Req)
    /\ stream \in Seq(Answering(api)) /\ turns \in Seq(Seq(Answering(api)))
    /\ todo \in Seq(ToolUses)
    /\ pc = "tools" <=> todo # <<>>

Whole(blocks) == \A i \in DOMAIN blocks : ~blocks[i].cut
WholeInv == Whole(stream) /\ OnlyWholeCalls

\* Ids: those of an answer follow those of the answers before it.
Used == MaxBlocks * Len(turns)
Rising(blocks) == \A i, j \in DOMAIN blocks : i < j => blocks[i].id < blocks[j].id
StreamInv ==
    /\ Len(stream) <= MaxBlocks
    /\ \A k \in DOMAIN stream : stream[k].id = Used + k

ToolAt(ms) == {i \in DOMAIN ms : ms[i].role = "tool"}
ToolsRise(ms) == \A i, j \in ToolAt(ms) : i < j => ms[i].of < ms[j].of
IdInv ==
    /\ ToolsRise(messages) /\ Rising(todo)
    /\ \A k \in DOMAIN todo : todo[k].id <= Used
    /\ \A i \in ToolAt(messages) :
          /\ messages[i].of <= Used
          /\ \A k \in DOMAIN todo : messages[i].of < todo[k].id

\* Every call of a turn has its result in its place after the turn, except that
\* those of rest come next; results stand nowhere else.
Answers(ms, rest) ==
    /\ \A i \in DOMAIN ms : ms[i].role = "assistant" =>
          /\ ms[i].calls # <<>>
          /\ \A k \in DOMAIN ms[i].calls :
                IF i + k <= Len(ms)
                  THEN ms[i + k].role = "tool" /\ ms[i + k].of = ms[i].calls[k].id
                  ELSE i + k - Len(ms) \in DOMAIN rest
                       /\ rest[i + k - Len(ms)] = ms[i].calls[k]
    /\ \A j \in ToolAt(ms) :
          \E i \in 1..(j - 1) :
              ms[i].role = "assistant" /\ j <= i + Len(ms[i].calls)
    /\ rest # <<>> =>
          \E i \in DOMAIN ms :
              ms[i].role = "assistant" /\ i + Len(ms[i].calls) = Len(ms) + Len(rest)

\* The turns of the conversation are the answers that called tools.
TurnsOf(ms) == Picked(ms, {m \in Msg : m.role = "assistant"})
Records(m, blocks) ==
    /\ m.text = TextOf(blocks) /\ m.thinking = ThinkingOf(blocks)
    /\ m.calls = Kept(CallsOf(blocks))
TurnInv ==
    /\ Len(TurnsOf(messages)) = Len(turns)
    /\ \A k \in DOMAIN turns : Records(TurnsOf(messages)[k], turns[k])

Placed ==
    pc = "answer" => (\A i \in DOMAIN request : request[i].blocks # <<>>) /\ InPlace

TalkInv ==
    /\ TalkTypes /\ WholeInv /\ StreamInv /\ IdInv
    /\ Answers(messages, todo) /\ TurnInv /\ Placed /\ TurnsEchoed

----------------------------------------------------------------------------
(* Picked.  Its function has a value for every prefix: each depends on the *)
(* one before, so there is such a function, and prefixes that agree have   *)
(* the same values.                                                        *)

Pick(s, S, n, g) == IF n = 0 THEN <<>>
                    ELSE IF s[n] \in S THEN Append(g[n - 1], s[n]) ELSE g[n - 1]
Picks(s, S, N, g) == g = [n \in 0..N |-> Pick(s, S, n, g)]

\* The value of the function in Picked, named so that the next lemmas can say
\* which function it is.
LEMMA PickedUnfolds ==
    ASSUME NEW s, NEW S
    PROVE  Picked(s, S) = (CHOOSE g : Picks(s, S, Len(s), g))[Len(s)]
  BY DEF Picked, Picks, Pick

\* A set of numbers that is not empty has a least one.
LEMMA LeastOf ==
    ASSUME NEW S \in SUBSET Nat, S # {}
    PROVE  \E i \in S : \A j \in S : i <= j
<1>1. PICK i \in S : \A j \in S : ~(<<j, i>> \in OpToRel(<, Nat))
  BY WFMin, NatLessThanWellFounded, Zenon
<1>2. ASSUME NEW j \in S, ~(i <= j) PROVE FALSE
  <2>1. i \in Nat /\ j \in Nat /\ j < i BY <1>2
  <2>2. <<j, i>> \in OpToRel(<, Nat) BY <2>1 DEF OpToRel
  <2> QED BY <1>1, <2>2
<1> QED BY <1>2

\* Sequences with a common prefix: the functions agree on it.
LEMMA PicksAgree ==
    ASSUME NEW s, NEW t, NEW S, NEW M \in Nat, NEW N \in Nat, M <= N,
           NEW g, NEW h, Picks(s, S, M, g), Picks(t, S, N, h),
           \A i \in 1..M : s[i] = t[i]
    PROVE  g[M] = h[M]
<1> DEFINE Bad == {n \in 0..M : g[n] # h[n]}
<1> SUFFICES ASSUME Bad # {} PROVE FALSE
  OBVIOUS
<1>1. Bad \in SUBSET Nat OBVIOUS
<1> HIDE DEF Bad
<1>2. PICK n \in Bad : \A m \in Bad : n <= m BY <1>1, LeastOf
<1>3. n \in 0..M /\ n \in 0..N /\ g[n] # h[n] BY <1>2 DEF Bad
<1>4. g[n] = Pick(s, S, n, g) /\ h[n] = Pick(t, S, n, h) BY <1>3 DEF Picks
<1>5. n # 0 BY <1>3, <1>4 DEF Pick
<1>6. n \in 1..M /\ n - 1 \in 0..M /\ ~(n <= n - 1) BY <1>3, <1>5
<1>7. g[n - 1] = h[n - 1] BY <1>2, <1>6 DEF Bad
<1> QED BY <1>3, <1>4, <1>5, <1>6, <1>7 DEF Pick

\* There is such a function, of every length.
LEMMA PicksExist ==
    ASSUME NEW s, NEW S, NEW N \in Nat
    PROVE  \E g : Picks(s, S, N, g)
<1> DEFINE Bad == {n \in Nat : ~ \E g : Picks(s, S, n, g)}
<1> SUFFICES ASSUME Bad # {} PROVE FALSE
  OBVIOUS
<1>1. Bad \in SUBSET Nat OBVIOUS
<1> HIDE DEF Bad
<1>2. PICK n \in Bad : \A m \in Bad : n <= m BY <1>1, LeastOf
<1>3. n \in Nat /\ ~ \E g : Picks(s, S, n, g) BY <1>2 DEF Bad
<1>4. CASE n = 0
  <2> DEFINE g == [m \in 0..0 |-> <<>>]
  <2>1. \A m \in 0..0 : Pick(s, S, m, g) = <<>> BY DEF Pick
  <2>2. Picks(s, S, 0, g) BY <2>1 DEF Picks
  <2> QED BY <1>3, <1>4, <2>2
<1>5. CASE n # 0
  <2>1. n - 1 \in Nat /\ ~(n <= n - 1) BY <1>3, <1>5
  <2>2. PICK h : Picks(s, S, n - 1, h) BY <1>2, <2>1 DEF Bad
  <2> DEFINE g == [m \in 0..n |-> IF m = n THEN Pick(s, S, n, h) ELSE h[m]]
  <2>3. ASSUME NEW m \in 0..n PROVE g[m] = Pick(s, S, m, g)
    <3>1. m # 0 => g[m - 1] = h[m - 1]
      <4>1. m # 0 => m - 1 \in 0..n /\ m - 1 # n BY <1>3
      <4> QED BY <4>1
    <3>2. Pick(s, S, m, g) = Pick(s, S, m, h) BY <3>1 DEF Pick
    <3>3. m # n => m \in 0..(n - 1) BY <1>3
    <3>4. m # n => h[m] = Pick(s, S, m, h) BY <2>2, <3>3 DEF Picks
    <3> QED BY <3>2, <3>4
  <2>4. g = [m \in 0..n |-> g[m]] OBVIOUS
  <2> HIDE DEF g
  <2>5. Picks(s, S, n, g) BY <2>3, <2>4 DEF Picks
  <2> QED BY <1>3, <2>5
<1> QED BY <1>4, <1>5

\* The definition, element by element.
LEMMA PickedEmpty ==
    ASSUME NEW S
    PROVE  Picked(<<>>, S) = <<>>
<1> DEFINE g == CHOOSE g : Picks(<<>>, S, 0, g)
<1>1. Len(<<>>) = 0 OBVIOUS
<1>2. Picks(<<>>, S, 0, g) BY PicksExist
<1>3. Picked(<<>>, S) = g[0] BY <1>1, PickedUnfolds
<1> HIDE DEF g
<1> QED BY <1>2, <1>3 DEF Picks, Pick

\* One more element.
LEMMA PickedAppend ==
    ASSUME NEW T, NEW s \in Seq(T), NEW x \in T, NEW S
    PROVE  Picked(Append(s, x), S) =
              IF x \in S THEN Append(Picked(s, S), x) ELSE Picked(s, S)
<1> DEFINE n == Len(s)
           t == Append(s, x)
           g == CHOOSE g : Picks(s, S, n, g)
           h == CHOOSE h : Picks(t, S, n + 1, h)
<1>1. n \in Nat /\ Len(t) = n + 1 /\ t[n + 1] = x /\ \A i \in 1..n : s[i] = t[i]
  BY AppendProperties, LenProperties
<1>2. Picks(s, S, n, g) BY <1>1, PicksExist
<1>3. Picks(t, S, n + 1, h)
  <2>1. n + 1 \in Nat BY <1>1
  <2> HIDE DEF n, t
  <2> QED BY <2>1, PicksExist
<1>4. Picked(s, S) = g[n] BY PickedUnfolds
<1>5. Picked(t, S) = h[n + 1] BY <1>1, PickedUnfolds
<1> HIDE DEF g, h, t, n
<1>6. n + 1 \in Nat /\ n <= n + 1 /\ n + 1 \in 0..(n + 1) /\ n + 1 # 0 /\ (n + 1) - 1 = n
  BY <1>1
<1>7. g[n] = h[n] BY <1>1, <1>2, <1>3, <1>6, PicksAgree
<1>8. h[n + 1] = Pick(t, S, n + 1, h) BY <1>3, <1>6 DEF Picks
<1> QED BY <1>1, <1>4, <1>5, <1>6, <1>7, <1>8 DEF Pick, t

\* What holds of the empty prefix and of each prefix after the one before.
LEMMA PrefixGrows ==
    ASSUME NEW T, NEW s \in Seq(T), NEW n \in Nat, n < Len(s)
    PROVE  /\ SubSeq(s, 1, n) \in Seq(T) /\ s[n + 1] \in T
           /\ SubSeq(s, 1, n + 1) = Append(SubSeq(s, 1, n), s[n + 1])
<1> DEFINE p == SubSeq(s, 1, n)
           q == SubSeq(s, 1, n + 1)
           r == Append(p, s[n + 1])
<1>1. Len(s) \in Nat /\ n + 1 \in 1..Len(s) /\ n \in 0..Len(s) BY LenProperties
<1>2. s[n + 1] \in T BY <1>1, ElementOfSeq
<1>3. /\ p \in Seq(T) /\ Len(p) = n /\ \A i \in 1..n : p[i] = s[i]
  BY <1>1, SubSeqProperties
<1>4. /\ q \in Seq(T) /\ Len(q) = n + 1 /\ \A i \in 1..(n + 1) : q[i] = s[i]
  BY <1>1, SubSeqProperties
<1> HIDE DEF p, q
<1>5. /\ r \in Seq(T) /\ Len(r) = n + 1 /\ r[n + 1] = s[n + 1]
      /\ \A i \in 1..n : r[i] = p[i]
  BY <1>2, <1>3, AppendProperties
<1> HIDE DEF r
<1>6. \A i \in 1..(n + 1) : q[i] = r[i]
  <2> SUFFICES ASSUME NEW i \in 1..(n + 1) PROVE q[i] = r[i]
    OBVIOUS
  <2>1. i = n + 1 \/ i \in 1..n BY <1>1
  <2> QED BY <1>3, <1>4, <1>5, <2>1
<1>7. q = r BY <1>4, <1>5, <1>6, SeqEqual
<1> QED BY <1>2, <1>3, <1>7 DEF p, q, r

\* The empty prefix and the whole of a sequence.
LEMMA WholePrefix ==
    ASSUME NEW T, NEW s \in Seq(T)
    PROVE  SubSeq(s, 1, 0) = <<>> /\ SubSeq(s, 1, Len(s)) = s
<1> DEFINE q == SubSeq(s, 1, Len(s))
           e == SubSeq(s, 1, 0)
<1>1. Len(s) \in Nat BY LenProperties
<1>2. q \in Seq(T) /\ Len(q) = Len(s) /\ \A i \in 1..Len(s) : q[i] = s[i]
  BY <1>1, SubSeqProperties
<1>3. e \in Seq(T) /\ Len(e) = 0 BY <1>1, SubSeqProperties
<1> HIDE DEF q, e
<1>4. q = s BY <1>1, <1>2, SeqEqual
<1>5. e = <<>> BY <1>3, EmptySeq
<1> QED BY <1>4, <1>5 DEF q, e

\* The numbers of a set, in order.
At(n, S) == Picked([i \in 1..n |-> i], S)
InOrder(q) == \A k, l \in DOMAIN q : k < l => q[k] < q[l]

\* They are found one after the other.
LEMMA AtStep ==
    ASSUME NEW S, NEW n \in Nat
    PROVE  /\ At(0, S) = <<>>
           /\ At(n + 1, S) = IF n + 1 \in S THEN Append(At(n, S), n + 1) ELSE At(n, S)
<1> DEFINE s == [i \in 1..n |-> i]
           t == [i \in 1..(n + 1) |-> i]
<1>1. [i \in 1..0 |-> i] = <<>> OBVIOUS
<1>2. At(0, S) = <<>> BY <1>1, PickedEmpty DEF At
<1>3. s \in Seq(Nat) /\ n + 1 \in Nat /\ t = Append(s, n + 1)
  <2> DEFINE r == Append(s, n + 1)
  <2>1. s \in Seq(Nat) /\ Len(s) = n /\ \A i \in 1..n : s[i] = i OBVIOUS
  <2>2. t \in Seq(Nat) /\ Len(t) = n + 1 /\ \A i \in 1..(n + 1) : t[i] = i OBVIOUS
  <2>3. n + 1 \in Nat OBVIOUS
  <2> HIDE DEF s, t
  <2>4. /\ r \in Seq(Nat) /\ Len(r) = n + 1 /\ r[n + 1] = n + 1
        /\ \A i \in 1..n : r[i] = s[i]
    BY <2>1, <2>3, AppendProperties
  <2> HIDE DEF r
  <2>5. \A i \in 1..(n + 1) : r[i] = t[i]
    <3> SUFFICES ASSUME NEW i \in 1..(n + 1) PROVE r[i] = t[i]
      OBVIOUS
    <3>1. CASE i \in 1..n BY <2>1, <2>2, <2>4, <3>1
    <3>2. CASE i = n + 1 BY <2>2, <2>4, <3>2
    <3> QED BY <3>1, <3>2
  <2>6. t = r BY <2>2, <2>4, <2>5, SeqEqual
  <2> QED BY <2>1, <2>3, <2>6 DEF r
<1> HIDE DEF s, t
<1>4. Picked(t, S) = IF n + 1 \in S THEN Append(Picked(s, S), n + 1) ELSE Picked(s, S)
  <2> DEFINE x == n + 1
  <2>1. s \in Seq(Nat) /\ x \in Nat /\ t = Append(s, x) BY <1>3
  <2> HIDE DEF x
  <2>2. Picked(Append(s, x), S) = IF x \in S THEN Append(Picked(s, S), x) ELSE Picked(s, S)
    BY <2>1, PickedAppend
  <2> QED BY <2>1, <2>2 DEF x
<1> QED BY <1>2, <1>4 DEF At, s, t

\* They are the numbers of the set up to n, each once, in order.
LEMMA AtFacts ==
    ASSUME NEW S, NEW n \in Nat
    PROVE  /\ At(n, S) \in Seq(Nat) /\ InOrder(At(n, S))
           /\ \A k \in DOMAIN At(n, S) : At(n, S)[k] \in S \intersect 1..n
           /\ \A i \in S \intersect 1..n : \E k \in DOMAIN At(n, S) : At(n, S)[k] = i
<1> DEFINE Good(m) == /\ At(m, S) \in Seq(Nat) /\ InOrder(At(m, S))
                      /\ \A k \in DOMAIN At(m, S) : At(m, S)[k] \in S \intersect 1..m
                      /\ \A i \in S \intersect 1..m :
                            \E k \in DOMAIN At(m, S) : At(m, S)[k] = i
           Bad == {m \in Nat : ~Good(m)}
<1> SUFFICES ASSUME Bad # {} PROVE FALSE
  OBVIOUS
<1>1. Bad \in SUBSET Nat OBVIOUS
<1> HIDE DEF Bad
<1>2. PICK m \in Bad : \A j \in Bad : m <= j BY <1>1, LeastOf
<1>3. m \in Nat /\ ~Good(m) BY <1>2 DEF Bad
<1>4. m # 0
  <2> SUFFICES ASSUME m = 0 PROVE FALSE
    OBVIOUS
  <2>1. At(0, S) = <<>> BY AtStep
  <2>2. <<>> \in Seq(Nat) /\ DOMAIN <<>> = {} /\ 1..0 = {} OBVIOUS
  <2>3. InOrder(<<>>) BY <2>2 DEF InOrder
  <2> QED BY <1>3, <2>1, <2>2, <2>3
<1> DEFINE j == m - 1
           q == At(j, S)
           l == Len(q)
<1>5. j \in Nat /\ j + 1 = m /\ ~(m <= j) BY <1>3, <1>4
<1>6. Good(j) BY <1>2, <1>5 DEF Bad
<1>7. /\ q \in Seq(Nat) /\ InOrder(q) /\ l \in Nat /\ DOMAIN q = 1..l
      /\ \A k \in 1..l : q[k] \in S \intersect 1..j
      /\ \A i \in S \intersect 1..j : \E k \in 1..l : q[k] = i
  <2>1. q \in Seq(Nat) BY <1>6
  <2>2. l \in Nat /\ DOMAIN q = 1..l BY <2>1, LenProperties
  <2> QED BY <1>6, <2>1, <2>2
<1>8. At(m, S) = IF m \in S THEN Append(q, m) ELSE q BY <1>5, AtStep
<1>9. 1..m = 1..j \union {m} BY <1>3, <1>5
<1>10. CASE m \notin S
  <2>1. At(m, S) = q /\ S \intersect 1..m = S \intersect 1..j BY <1>8, <1>9, <1>10
  <2> HIDE DEF q, j
  <2> QED BY <1>3, <1>7, <2>1
<1>11. CASE m \in S
  <2> DEFINE t == Append(q, m)
  <2>1. At(m, S) = t BY <1>8, <1>11
  <2> HIDE DEF q, j
  <2>2. /\ t \in Seq(Nat) /\ DOMAIN t = 1..(l + 1) /\ t[l + 1] = m
        /\ \A k \in 1..l : t[k] = q[k]
    BY <1>3, <1>7, AppendProperties, LenProperties
  <2> HIDE DEF t, l
  <2>3. \A k \in 1..(l + 1) : k = l + 1 \/ k \in 1..l BY <1>7
  <2>4. InOrder(t)
    <3> SUFFICES ASSUME NEW a \in 1..(l + 1), NEW b \in 1..(l + 1), a < b
                 PROVE  t[a] < t[b]
      BY <2>2 DEF InOrder
    <3>1. a \in 1..l BY <1>7
    <3>2. CASE b = l + 1
      <4>1. q[a] \in 1..j BY <1>7, <3>1
      <4> QED BY <1>5, <2>2, <3>1, <3>2, <4>1
    <3>3. CASE b \in 1..l BY <1>7, <2>2, <3>1, <3>3 DEF InOrder
    <3> QED BY <2>3, <3>2, <3>3
  <2>5. \A k \in 1..(l + 1) : t[k] \in S \intersect 1..m
    BY <1>7, <1>9, <1>11, <2>2, <2>3
  <2>6. ASSUME NEW i \in S \intersect 1..m PROVE \E k \in 1..(l + 1) : t[k] = i
    <3>1. CASE i = m
      <4>1. l + 1 \in 1..(l + 1) BY <1>7
      <4> QED BY <2>2, <3>1, <4>1
    <3>2. CASE i \in 1..j
      <4>1. PICK k \in 1..l : q[k] = i BY <1>7, <3>2
      <4>2. k \in 1..(l + 1) BY <1>7
      <4> QED BY <2>2, <4>1, <4>2
    <3> QED BY <1>9, <3>1, <3>2
  <2> QED BY <1>3, <2>1, <2>2, <2>4, <2>5, <2>6
<1> QED BY <1>10, <1>11

\* The picked elements stand at the numbers of those picked.
LEMMA PickedAt ==
    ASSUME NEW T, NEW s \in Seq(T), NEW S, NEW P,
           \A i \in 1..Len(s) : i \in P <=> s[i] \in S
    PROVE  Picked(s, S) = [k \in DOMAIN At(Len(s), P) |-> s[At(Len(s), P)[k]]]
<1> DEFINE N == Len(s)
           Good(m) == Picked(SubSeq(s, 1, m), S) = [k \in DOMAIN At(m, P) |-> s[At(m, P)[k]]]
           Bad == {m \in 0..N : ~Good(m)}
<1>0. N \in Nat BY LenProperties
<1>1. ASSUME Bad = {} PROVE Picked(s, S) = [k \in DOMAIN At(N, P) |-> s[At(N, P)[k]]]
  <2>1. Good(N) BY <1>0, <1>1
  <2> QED BY <2>1, WholePrefix
<1>2. ASSUME Bad # {} PROVE FALSE
  <2>1. Bad \in SUBSET Nat BY <1>0
  <2> HIDE DEF Bad
  <2>2. PICK m \in Bad : \A i \in Bad : m <= i BY <1>2, <2>1, LeastOf
  <2>3. m \in 0..N /\ ~Good(m) BY <2>2 DEF Bad
  <2>4. m # 0
    <3> SUFFICES ASSUME m = 0 PROVE FALSE
      OBVIOUS
    <3>1. Picked(SubSeq(s, 1, 0), S) = <<>> BY WholePrefix, PickedEmpty
    <3>2. At(0, P) = <<>> BY AtStep
    <3> QED BY <2>3, <3>1, <3>2
  <2> DEFINE j == m - 1
             p == SubSeq(s, 1, j)
             q == At(j, P)
             l == Len(q)
  <2>5. j \in Nat /\ j \in 0..N /\ j < N /\ j + 1 = m /\ ~(m <= j) /\ m \in 1..N
    BY <1>0, <2>3, <2>4
  <2>6. Picked(p, S) = [k \in DOMAIN q |-> s[q[k]]] BY <2>2, <2>5 DEF Bad
  <2>7. p \in Seq(T) /\ s[m] \in T /\ SubSeq(s, 1, m) = Append(p, s[m])
    BY <2>5, PrefixGrows
  <2>8. Picked(SubSeq(s, 1, m), S) =
          IF s[m] \in S THEN Append(Picked(p, S), s[m]) ELSE Picked(p, S)
    <3> HIDE DEF p, j
    <3> DEFINE x == s[m]
    <3>1. p \in Seq(T) /\ x \in T BY <2>7
    <3> HIDE DEF x
    <3>2. Picked(Append(p, x), S) = IF x \in S THEN Append(Picked(p, S), x) ELSE Picked(p, S)
      BY <3>1, PickedAppend
    <3> QED BY <2>7, <3>2 DEF x
  <2>9. At(m, P) = IF m \in P THEN Append(q, m) ELSE q BY <2>5, AtStep
  <2>10. q \in Seq(Nat) BY <2>5, AtFacts
  <2> HIDE DEF q, p, j
  <2>11. l \in Nat /\ DOMAIN q = 1..l BY <2>10, LenProperties
  <2>12. CASE m \notin P
    <3>1. s[m] \notin S BY <2>5, <2>12
    <3> QED BY <2>3, <2>6, <2>8, <2>9, <2>12, <3>1
  <2>13. CASE m \in P
    <3> DEFINE t == Append(q, m)
    <3>1. s[m] \in S BY <2>5, <2>13
    <3>2. m \in Nat BY <2>5
    <3>3. /\ DOMAIN t = 1..(l + 1) /\ t[l + 1] = m /\ \A k \in 1..l : t[k] = q[k]
      BY <2>10, <2>11, <3>2, AppendProperties, LenProperties
    <3> HIDE DEF t, l
    <3>4. Append([k \in 1..l |-> s[q[k]]], s[m]) = [k \in 1..(l + 1) |-> s[t[k]]]
      <4> DEFINE f == [k \in 1..l |-> s[q[k]]]
      <4>1. Len(f) = l BY <2>11
      <4>2. Append(f, s[m]) = [k \in 1..(l + 1) |-> IF k = l + 1 THEN s[m] ELSE f[k]]
        BY <2>11, <4>1
      <4>3. \A k \in 1..(l + 1) : k # l + 1 => k \in 1..l BY <2>11
      <4> QED BY <3>3, <4>2, <4>3
    <3>5. At(m, P) = t BY <2>9, <2>13 DEF t
    <3>6. Picked(p, S) = [k \in 1..l |-> s[q[k]]] BY <2>6, <2>11
    <3>7. Picked(SubSeq(s, 1, m), S) = [k \in 1..(l + 1) |-> s[t[k]]]
      BY <2>8, <3>1, <3>4, <3>6
    <3>8. Picked(SubSeq(s, 1, m), S) = [k \in DOMAIN t |-> s[t[k]]] BY <3>3, <3>7
    <3> QED BY <2>3, <3>5, <3>8
  <2> QED BY <2>12, <2>13
<1> QED BY <1>1, <1>2

\* What is picked comes from the sequence and is in the set.
LEMMA PickedFacts ==
    ASSUME NEW T, NEW s \in Seq(T), NEW S
    PROVE  /\ Picked(s, S) \in Seq(T) /\ Picked(s, S) \in Seq(S)
           /\ \A k \in DOMAIN Picked(s, S) : \E i \in DOMAIN s : Picked(s, S)[k] = s[i]
<1> DEFINE n == Len(s)
           P == {i \in 1..n : s[i] \in S}
           q == At(n, P)
<1>1. n \in Nat /\ DOMAIN s = 1..n BY LenProperties
<1>2. Picked(s, S) = [k \in DOMAIN q |-> s[q[k]]] BY PickedAt
<1>3. q \in Seq(Nat) /\ \A k \in DOMAIN q : q[k] \in P /\ q[k] \in 1..n
  BY <1>1, AtFacts
<1> HIDE DEF q
<1>4. DOMAIN q = 1..Len(q) /\ Len(q) \in Nat BY <1>3, LenProperties
<1>5. \A k \in DOMAIN q : s[q[k]] \in T /\ s[q[k]] \in S BY <1>3, ElementOfSeq
<1> HIDE DEF n
<1> QED BY <1>1, <1>2, <1>3, <1>4, <1>5

\* Nothing is picked of a sequence that has no element of the set.
LEMMA PickedNone ==
    ASSUME NEW T, NEW s \in Seq(T), NEW S, \A i \in DOMAIN s : s[i] \notin S
    PROVE  Picked(s, S) = <<>>
<1> DEFINE q == Picked(s, S)
<1>1. /\ q \in Seq(T) /\ q \in Seq(S)
      /\ \A k \in DOMAIN q : \E i \in DOMAIN s : q[k] = s[i]
  BY PickedFacts
<1> HIDE DEF q
<1>2. Len(q) \in Nat /\ DOMAIN q = 1..Len(q) BY <1>1, LenProperties
<1>3. \A k \in DOMAIN q : q[k] \in S BY <1>1, <1>2, ElementOfSeq
<1>4. DOMAIN q = {} BY <1>1, <1>3
<1>5. Len(q) = 0 BY <1>2, <1>4
<1> QED BY <1>1, <1>5, EmptySeq DEF q

\* Everything is picked of a sequence of its elements.
LEMMA PickedAll ==
    ASSUME NEW S, NEW s \in Seq(S)
    PROVE  Picked(s, S) = s
<1> DEFINE N == Len(s)
           Good(m) == Picked(SubSeq(s, 1, m), S) = SubSeq(s, 1, m)
           Bad == {m \in 0..N : ~Good(m)}
<1>0. N \in Nat BY LenProperties
<1>1. ASSUME Bad = {} PROVE Picked(s, S) = s
  <2>1. Good(N) BY <1>0, <1>1
  <2> QED BY <2>1, WholePrefix
<1>2. ASSUME Bad # {} PROVE FALSE
  <2>1. Bad \in SUBSET Nat BY <1>0
  <2> HIDE DEF Bad
  <2>2. PICK m \in Bad : \A i \in Bad : m <= i BY <1>2, <2>1, LeastOf
  <2>3. m \in 0..N /\ ~Good(m) BY <2>2 DEF Bad
  <2>4. m # 0 BY <2>3, WholePrefix, PickedEmpty
  <2> DEFINE j == m - 1
             p == SubSeq(s, 1, j)
             x == s[m]
  <2>5. j \in Nat /\ j \in 0..N /\ j < N /\ j + 1 = m /\ ~(m <= j)
    BY <1>0, <2>3, <2>4
  <2>6. Picked(p, S) = p BY <2>2, <2>5 DEF Bad
  <2>7. p \in Seq(S) /\ x \in S /\ SubSeq(s, 1, m) = Append(p, x)
    BY <2>5, PrefixGrows
  <2> HIDE DEF p, x
  <2>8. Picked(Append(p, x), S) = Append(Picked(p, S), x) BY <2>7, PickedAppend
  <2> QED BY <2>3, <2>6, <2>7, <2>8
<1> QED BY <1>1, <1>2

\* To append to the second part is to append to the whole.
LEMMA ConcatAppend ==
    ASSUME NEW T, NEW s \in Seq(T), NEW t \in Seq(T), NEW x \in T
    PROVE  s \o Append(t, x) = Append(s \o t, x)
<1>1. <<x>> \in Seq(T) /\ s \o t \in Seq(T) BY ConcatProperties
<1>2. Append(t, x) = t \o <<x>> /\ Append(s \o t, x) = (s \o t) \o <<x>>
  BY <1>1, AppendIsConcat
<1> QED BY <1>1, <1>2, ConcatAssociative

\* What is picked of two sequences in a row.
LEMMA PickedConcat ==
    ASSUME NEW T, NEW s \in Seq(T), NEW t \in Seq(T), NEW S
    PROVE  Picked(s \o t, S) = Picked(s, S) \o Picked(t, S)
<1> DEFINE N == Len(t)
           Good(m) == Picked(s \o SubSeq(t, 1, m), S)
                        = Picked(s, S) \o Picked(SubSeq(t, 1, m), S)
           Bad == {m \in 0..N : ~Good(m)}
<1>0. N \in Nat BY LenProperties
<1>1. ASSUME Bad = {} PROVE Picked(s \o t, S) = Picked(s, S) \o Picked(t, S)
  <2>1. Good(N) BY <1>0, <1>1
  <2> QED BY <2>1, WholePrefix
<1>2. ASSUME Bad # {} PROVE FALSE
  <2>1. Bad \in SUBSET Nat BY <1>0
  <2> HIDE DEF Bad
  <2>2. PICK m \in Bad : \A i \in Bad : m <= i BY <1>2, <2>1, LeastOf
  <2>3. m \in 0..N /\ ~Good(m) BY <2>2 DEF Bad
  <2> DEFINE a == Picked(s, S)
  <2>4. a \in Seq(T) BY PickedFacts
  <2>5. m # 0
    <3> SUFFICES ASSUME m = 0 PROVE FALSE
      OBVIOUS
    <3>1. SubSeq(t, 1, 0) = <<>> BY WholePrefix
    <3>2. Picked(<<>>, S) = <<>> BY PickedEmpty
    <3>3. s \o <<>> = s /\ a \o <<>> = a BY <2>4, ConcatEmptySeq
    <3> QED BY <2>3, <3>1, <3>2, <3>3
  <2> DEFINE j == m - 1
             p == SubSeq(t, 1, j)
             x == t[m]
             b == Picked(p, S)
             c == s \o p
  <2>6. j \in Nat /\ j \in 0..N /\ j < N /\ j + 1 = m /\ ~(m <= j)
    BY <1>0, <2>3, <2>5
  <2>7. Picked(c, S) = a \o b BY <2>2, <2>6 DEF Bad
  <2>8. p \in Seq(T) /\ x \in T /\ SubSeq(t, 1, m) = Append(p, x)
    BY <2>6, PrefixGrows
  <2>9. ~(Picked(s \o Append(p, x), S) = a \o Picked(Append(p, x), S))
    BY <2>3, <2>8
  <2> HIDE DEF p, x, a
  <2>10. b \in Seq(T) BY <2>8, PickedFacts
  <2>11. c \in Seq(T) BY <2>8, ConcatProperties
  <2>12. s \o Append(p, x) = Append(c, x) BY <2>8, ConcatAppend
  <2>13. Picked(Append(p, x), S) = IF x \in S THEN Append(b, x) ELSE b
    BY <2>8, PickedAppend
  <2> HIDE DEF b, c
  <2>14. Picked(Append(c, x), S) = IF x \in S THEN Append(Picked(c, S), x) ELSE Picked(c, S)
    BY <2>8, <2>11, PickedAppend
  <2>15. a \o Append(b, x) = Append(a \o b, x)
    <3>1. a \in Seq(T) /\ b \in Seq(T) /\ x \in T BY <2>4, <2>8, <2>10
    <3> QED BY <3>1, ConcatAppend
  <2> QED BY <2>7, <2>9, <2>12, <2>13, <2>14, <2>15
<1> QED BY <1>1, <1>2

\* Of the numbers of a set, those of a smaller one.
LEMMA AtTwice ==
    ASSUME NEW A, NEW B, A \subseteq B, NEW n \in Nat
    PROVE  Picked(At(n, B), A) = At(n, A)
<1> DEFINE Good(m) == Picked(At(m, B), A) = At(m, A)
           Bad == {m \in Nat : ~Good(m)}
<1> SUFFICES ASSUME Bad # {} PROVE FALSE
  OBVIOUS
<1>1. Bad \in SUBSET Nat OBVIOUS
<1> HIDE DEF Bad
<1>2. PICK m \in Bad : \A i \in Bad : m <= i BY <1>1, LeastOf
<1>3. m \in Nat /\ ~Good(m) BY <1>2 DEF Bad
<1>4. m # 0
  <2>1. At(0, B) = <<>> /\ At(0, A) = <<>> BY AtStep
  <2> QED BY <1>3, <2>1, PickedEmpty
<1> DEFINE j == m - 1
           q == At(j, B)
<1>5. j \in Nat /\ j + 1 = m /\ ~(m <= j) BY <1>3, <1>4
<1>6. Picked(q, A) = At(j, A) BY <1>2, <1>5 DEF Bad
<1>7. q \in Seq(Nat) BY <1>5, AtFacts
<1>8. /\ At(m, B) = IF m \in B THEN Append(q, m) ELSE q
      /\ At(m, A) = IF m \in A THEN Append(At(j, A), m) ELSE At(j, A)
  <2>1. j \in Nat /\ j + 1 = m BY <1>5
  <2> HIDE DEF j
  <2>2. At(j + 1, B) = IF j + 1 \in B THEN Append(q, j + 1) ELSE q BY <2>1, AtStep
  <2>3. At(j + 1, A) = IF j + 1 \in A THEN Append(At(j, A), j + 1) ELSE At(j, A)
    BY <2>1, AtStep
  <2> QED BY <2>1, <2>2, <2>3
<1> HIDE DEF q, j
<1>9. Picked(Append(q, m), A) = IF m \in A THEN Append(Picked(q, A), m) ELSE Picked(q, A)
  BY <1>3, <1>7, PickedAppend
<1> QED BY <1>3, <1>6, <1>8, <1>9

\* Ids that rise do so also where some blocks are left out.
LEMMA PickedRising ==
    ASSUME NEW T, NEW s \in Seq(T), NEW S, Rising(s)
    PROVE  Rising(Picked(s, S))
<1> DEFINE n == Len(s)
           P == {i \in 1..n : s[i] \in S}
           q == At(n, P)
<1>1. n \in Nat /\ DOMAIN s = 1..n BY LenProperties
<1>2. Picked(s, S) = [k \in DOMAIN q |-> s[q[k]]] BY PickedAt
<1>3. q \in Seq(Nat) /\ InOrder(q) /\ \A k \in DOMAIN q : q[k] \in 1..n
  BY <1>1, AtFacts
<1> HIDE DEF q, n
<1> QED BY <1>1, <1>2, <1>3 DEF Rising, InOrder

----------------------------------------------------------------------------
(* The conversation of the agent.                                          *)

\* The fields of a message of the agent.
LEMMA MsgFields ==
    ASSUME NEW m \in Msg
    PROVE  /\ m.role \in {"user", "assistant", "tool"} /\ m.text \in BOOLEAN
           /\ m.thinking \in Seq(BlocksOf(Thinking)) /\ m.calls \in Seq(ToolUses)
           /\ m.of \in Nat
  BY DEF Msg

\* The message that starts a run, or asks for the report.
LEMMA UserMessage == User \in Msg /\ User.role = "user"
<1>1. <<>> \in Seq(BlocksOf(Thinking)) /\ <<>> \in Seq(ToolUses) OBVIOUS
<1> QED BY <1>1 DEF User, Message, Msg

\* A message of the user, or a turn: its calls are the open ones then.
LEMMA AppendedMessage ==
    ASSUME NEW ms \in Seq(Msg), Answers(ms, <<>>),
           NEW m \in Msg, NEW cs \in Seq(ToolUses),
           \/ m.role = "user" /\ cs = <<>>
           \/ m.role = "assistant" /\ cs = m.calls /\ cs # <<>>
    PROVE  Append(ms, m) \in Seq(Msg) /\ Answers(Append(ms, m), cs)
<1> DEFINE ns == Append(ms, m)
           n == Len(ms)
<1>1. /\ ns \in Seq(Msg) /\ Len(ns) = n + 1 /\ n \in Nat
      /\ DOMAIN ms = 1..n /\ DOMAIN ns = 1..(n + 1)
      /\ \A i \in 1..n : ns[i] = ms[i]
      /\ ns[n + 1] = m
  BY AppendProperties, LenProperties
<1>2. Len(cs) \in Nat /\ DOMAIN cs = 1..Len(cs) BY LenProperties
<1> HIDE DEF ns
<1>3. ASSUME NEW i \in DOMAIN ns, ns[i].role = "assistant", NEW k \in DOMAIN ns[i].calls
      PROVE  IF i + k <= Len(ns)
               THEN ns[i + k].role = "tool" /\ ns[i + k].of = ns[i].calls[k].id
               ELSE i + k - Len(ns) \in DOMAIN cs /\ cs[i + k - Len(ns)] = ns[i].calls[k]
  <2>1. CASE i = n + 1
    <3>0. ns[i].calls = cs BY <1>1, <1>3, <2>1
    <3>1. k \in 1..Len(cs) /\ i + k - Len(ns) = k /\ ~(i + k <= Len(ns))
      BY <1>1, <1>2, <1>3, <2>1, <3>0
    <3> QED BY <1>1, <1>2, <2>1, <3>0, <3>1
  <2>2. CASE i # n + 1
    <3>1. i \in 1..n /\ ms[i].role = "assistant" /\ ns[i].calls = ms[i].calls
      BY <1>1, <1>3, <2>2
    <3>2. ms[i].calls \in Seq(ToolUses) BY <3>1, ElementOfSeq, MsgFields
    <3>3. k \in Nat \ {0} BY <1>3, <3>1, <3>2, LenProperties
    <3>4. /\ i + k <= n /\ ms[i + k].role = "tool"
          /\ ms[i + k].of = ms[i].calls[k].id
      BY <1>1, <1>3, <3>1 DEF Answers
    <3>5. i + k \in 1..n /\ i + k <= Len(ns) BY <1>1, <3>1, <3>3, <3>4
    <3> QED BY <1>1, <3>1, <3>4, <3>5
  <2> QED BY <2>1, <2>2
<1>4. ASSUME NEW j \in ToolAt(ns)
      PROVE  \E i \in 1..(j - 1) : ns[i].role = "assistant" /\ j <= i + Len(ns[i].calls)
  <2>1. j \in 1..n /\ j \in ToolAt(ms)
    <3>1. j \in DOMAIN ns /\ ns[j].role = "tool" BY DEF ToolAt
    <3>2. j # n + 1 BY <1>1, <3>1
    <3> QED BY <1>1, <3>1, <3>2 DEF ToolAt
  <2>2. PICK i \in 1..(j - 1) : ms[i].role = "assistant" /\ j <= i + Len(ms[i].calls)
    BY <2>1 DEF Answers
  <2>3. i \in 1..n BY <1>1, <2>1
  <2> QED BY <1>1, <2>2, <2>3
<1>5. cs # <<>> => /\ n + 1 \in DOMAIN ns /\ ns[n + 1].role = "assistant"
                   /\ n + 1 + Len(ns[n + 1].calls) = Len(ns) + Len(cs)
  <2> SUFFICES ASSUME cs # <<>>
               PROVE  /\ n + 1 \in DOMAIN ns /\ ns[n + 1].role = "assistant"
                      /\ n + 1 + Len(ns[n + 1].calls) = Len(ns) + Len(cs)
    OBVIOUS
  <2>1. ns[n + 1].role = "assistant" /\ ns[n + 1].calls = cs BY <1>1
  <2>2. n + 1 \in DOMAIN ns BY <1>1
  <2> QED BY <1>1, <1>2, <2>1, <2>2
<1>6. ASSUME NEW i \in DOMAIN ns, ns[i].role = "assistant" PROVE ns[i].calls # <<>>
  <2>1. i = n + 1 \/ i \in 1..n BY <1>1
  <2> QED BY <1>1, <1>6, <2>1 DEF Answers
<1>7. Answers(ns, cs) BY <1>1, <1>3, <1>4, <1>5, <1>6 DEF Answers
<1> QED BY <1>1, <1>7 DEF ns

\* The result of the first open call: those after it stay open.
LEMMA AppendedResult ==
    ASSUME NEW ms \in Seq(Msg), NEW rest \in Seq(ToolUses), rest # <<>>,
           Answers(ms, rest), NEW m \in Msg, m.role = "tool", m.of = Head(rest).id
    PROVE  Append(ms, m) \in Seq(Msg) /\ Answers(Append(ms, m), Tail(rest))
<1> DEFINE ns == Append(ms, m)
           n == Len(ms)
           t == Tail(rest)
<1>1. /\ Head(rest) = rest[1]
      /\ t \in Seq(ToolUses) /\ Len(t) = Len(rest) - 1 /\ Len(rest) \in Nat \ {0}
      /\ DOMAIN rest = 1..Len(rest) /\ DOMAIN t = 1..Len(t)
      /\ \A i \in 1..Len(t) : t[i] = rest[i + 1]
  BY HeadTailProperties, LenProperties, EmptySeq
<1>2. /\ ns \in Seq(Msg) /\ Len(ns) = n + 1 /\ n \in Nat
      /\ DOMAIN ms = 1..n /\ DOMAIN ns = 1..(n + 1)
      /\ \A i \in 1..n : ns[i] = ms[i]
      /\ ns[n + 1].role = "tool" /\ ns[n + 1].of = rest[1].id
  BY <1>1, AppendProperties, LenProperties
<1> HIDE DEF ns, t
<1>3. ASSUME NEW i \in DOMAIN ns, ns[i].role = "assistant"
      PROVE  i \in 1..n /\ ms[i].role = "assistant" /\ ns[i].calls = ms[i].calls
  BY <1>2, <1>3
<1>4. ASSUME NEW i \in DOMAIN ns, ns[i].role = "assistant", NEW k \in DOMAIN ns[i].calls
      PROVE  IF i + k <= Len(ns)
               THEN ns[i + k].role = "tool" /\ ns[i + k].of = ns[i].calls[k].id
               ELSE i + k - Len(ns) \in DOMAIN t /\ t[i + k - Len(ns)] = ns[i].calls[k]
  <2>2. i \in 1..n /\ ms[i].role = "assistant" /\ ns[i].calls = ms[i].calls
    BY <1>3, <1>4
  <2>3. ms[i].calls \in Seq(ToolUses) BY <2>2, ElementOfSeq, MsgFields
  <2>4. k \in Nat \ {0} BY <1>4, <2>2, <2>3, LenProperties
  <2>5. IF i + k <= n
          THEN ms[i + k].role = "tool" /\ ms[i + k].of = ms[i].calls[k].id
          ELSE i + k - n \in DOMAIN rest /\ rest[i + k - n] = ms[i].calls[k]
    BY <1>2, <1>4, <2>2 DEF Answers
  <2>6. CASE i + k <= n
    <3>1. i + k \in 1..n /\ i + k <= Len(ns) BY <1>2, <2>2, <2>4, <2>6
    <3> QED BY <1>2, <2>2, <2>5, <2>6, <3>1
  <2>7. CASE i + k = n + 1
    <3>1. ~(i + k <= n) /\ i + k <= Len(ns) /\ i + k - n = 1 BY <1>2, <2>2, <2>4, <2>7
    <3>2. rest[1] = ms[i].calls[k] BY <2>5, <3>1
    <3> QED BY <1>2, <2>2, <2>7, <3>1, <3>2
  <2>8. CASE i + k > n + 1
    <3> DEFINE q == i + k - Len(ns)
    <3>0. i \in Nat /\ k \in Nat /\ n \in Nat /\ Len(ns) = n + 1 BY <1>2, <2>2, <2>4
    <3>1. /\ ~(i + k <= n) /\ ~(i + k <= Len(ns))
          /\ q \in Nat \ {0} /\ q + 1 = i + k - n
      BY <2>8, <3>0
    <3> HIDE DEF q
    <3>2. q + 1 \in 1..Len(rest) /\ rest[q + 1] = ms[i].calls[k]
      BY <1>1, <2>5, <3>1
    <3>3. q \in 1..Len(t) BY <1>1, <3>1, <3>2
    <3>4. q \in DOMAIN t /\ t[q] = ns[i].calls[k] BY <1>1, <2>2, <3>2, <3>3
    <3> QED BY <3>1, <3>4 DEF q
  <2> QED BY <1>2, <2>2, <2>4, <2>6, <2>7, <2>8
<1>5. PICK a \in DOMAIN ms : ms[a].role = "assistant" /\ a + Len(ms[a].calls) = n + Len(rest)
  BY DEF Answers
<1>6. /\ a \in 1..n /\ a \in DOMAIN ns /\ ns[a] = ms[a]
      /\ a + Len(ns[a].calls) = Len(ns) + Len(t)
      /\ n + 1 <= a + Len(ns[a].calls)
  BY <1>1, <1>2, <1>5
<1>7. ASSUME NEW j \in ToolAt(ns)
      PROVE  \E i \in 1..(j - 1) : ns[i].role = "assistant" /\ j <= i + Len(ns[i].calls)
  <2>1. j \in 1..(n + 1) /\ ns[j].role = "tool" BY <1>2 DEF ToolAt
  <2>2. CASE j = n + 1
    <3>1. a \in 1..(j - 1) BY <1>2, <1>6, <2>2
    <3> QED BY <1>5, <1>6, <2>2, <3>1
  <2>3. CASE j # n + 1
    <3>1. j \in 1..n /\ j \in ToolAt(ms) BY <1>2, <2>1, <2>3 DEF ToolAt
    <3>2. PICK i \in 1..(j - 1) : ms[i].role = "assistant" /\ j <= i + Len(ms[i].calls)
      BY <3>1 DEF Answers
    <3>3. i \in 1..n BY <1>2, <3>1
    <3> QED BY <1>2, <3>2, <3>3
  <2> QED BY <2>2, <2>3
<1>8. ASSUME NEW i \in DOMAIN ns, ns[i].role = "assistant" PROVE ns[i].calls # <<>>
  <2>1. i \in DOMAIN ms /\ ms[i].role = "assistant" /\ ns[i].calls = ms[i].calls
    BY <1>2, <1>3, <1>8
  <2> QED BY <2>1 DEF Answers
<1>9. Answers(ns, t) BY <1>4, <1>5, <1>6, <1>7, <1>8 DEF Answers
<1> QED BY <1>2, <1>9 DEF ns, t

\* The calls of a turn that the agent keeps.
LEMMA KeptFacts ==
    ASSUME NEW T, NEW cs \in Seq(T)
    PROVE  /\ Kept(cs) \in Seq(T)
           /\ cs # <<>> => Kept(cs) # <<>>
           /\ DOMAIN Kept(cs) \subseteq DOMAIN cs
           /\ \A k \in DOMAIN Kept(cs) : Kept(cs)[k] = cs[k]
<1> DEFINE top == IF Len(cs) > MaxToolCalls THEN MaxToolCalls ELSE Len(cs)
           kept == SubSeq(cs, 1, top)
<1>1. MaxToolCalls \in Nat \ {0} BY ConversationConstants
<1>2. Len(cs) \in Nat /\ DOMAIN cs = 1..Len(cs) BY LenProperties
<1>3. top \in Nat /\ top <= Len(cs) /\ (Len(cs) > 0 => top > 0) BY <1>1, <1>2
<1>4. Kept(cs) = kept BY DEF Kept
<1> HIDE DEF top
<1>5. kept \in Seq(T) /\ Len(kept) = top /\ \A k \in 1..top : kept[k] = cs[k]
  BY <1>2, <1>3, SubSeqProperties
<1> HIDE DEF kept
<1>6. DOMAIN kept = 1..top BY <1>5, LenProperties
<1>7. cs # <<>> => Len(cs) > 0 BY <1>2, EmptySeq
<1>8. cs # <<>> => kept # <<>> BY <1>3, <1>5, <1>7, EmptySeq
<1>9. 1..top \subseteq 1..Len(cs) BY <1>2, <1>3
<1> QED BY <1>2, <1>4, <1>5, <1>6, <1>8, <1>9

----------------------------------------------------------------------------
(* Requests.                                                               *)

\* A block is of the kinds that its set names.
LEMMA KindOfBlock ==
    ASSUME NEW K, NEW b \in BlocksOf(K), NEW L
    PROVE  b.kind \in K /\ b.id \in Nat /\ (b \in BlocksOf(L) <=> b.kind \in L)
  BY DEF BlocksOf

\* All blocks are of the kinds they are made of.
LEMMA OfKindAll ==
    ASSUME NEW K, NEW L, K \subseteq L, NEW bs \in Seq(BlocksOf(K))
    PROVE  bs \in Seq(BlocksOf(L)) /\ OfKind(bs, L) = bs
<1>1. BlocksOf(K) \subseteq BlocksOf(L) BY KindOfBlock
<1>2. bs \in Seq(BlocksOf(L)) BY <1>1
<1> QED BY <1>2, PickedAll DEF OfKind

\* No block is of a kind it is not made of.
LEMMA OfKindNone ==
    ASSUME NEW K, NEW L, K \intersect L = {}, NEW bs \in Seq(BlocksOf(K))
    PROVE  OfKind(bs, L) = <<>>
<1>1. DOMAIN bs = 1..Len(bs) BY LenProperties
<1>2. \A i \in DOMAIN bs : bs[i] \in BlocksOf(K) BY <1>1, ElementOfSeq
<1>3. \A i \in DOMAIN bs : bs[i] \notin BlocksOf(L) BY <1>2, KindOfBlock
<1> QED BY <1>3, PickedNone DEF OfKind

\* A text that is there is one block.
LEMMA TextBlocks ==
    ASSUME NEW b \in BOOLEAN
    PROVE  TextBlock(b) \in Seq(BlocksOf({"text"})) /\ (TextBlock(b) # <<>> <=> b)
<1> DEFINE t == [kind |-> "text", id |-> 0, cut |-> FALSE]
<1>1. t \in BlocksOf({"text"}) BY DEF BlocksOf
<1> HIDE DEF t
<1>2. TextBlock(b) = IF b THEN <<t>> ELSE <<>> BY DEF TextBlock, t
<1>3. CASE b
  <2>1. <<t>> # <<>> /\ <<t>> \in Seq(BlocksOf({"text"})) BY <1>1
  <2> QED BY <1>2, <1>3, <2>1
<1>4. CASE ~b
  <2>1. <<>> \in Seq(BlocksOf({"text"})) OBVIOUS
  <2> QED BY <1>2, <1>4, <2>1
<1> QED BY <1>3, <1>4

\* A turn as Anthropic's request has it.
LEMMA TurnBlocks ==
    ASSUME NEW th \in Seq(BlocksOf(Thinking)), NEW b \in BOOLEAN, NEW cs \in Seq(ToolUses)
    PROVE  LET bs == th \o TextBlock(b) \o cs IN
           /\ bs \in Seq(BlocksOf(AnyKind \ {"tool_result"}))
           /\ CallsOf(bs) = cs /\ TextOf(bs) = b
           /\ IsPrefix(th, bs)
           /\ cs # <<>> => bs # <<>>
<1> DEFINE K == AnyKind \ {"tool_result"}
           B == BlocksOf(K)
           t == TextBlock(b)
           a == th \o t
           bs == a \o cs
           UseKind == {"tool_use"}
           TextKind == {"text"}
<1>0. /\ Thinking \subseteq K /\ TextKind \subseteq K /\ UseKind \subseteq K
      /\ Thinking \intersect UseKind = {} /\ TextKind \intersect UseKind = {}
      /\ Thinking \intersect TextKind = {} /\ UseKind \intersect TextKind = {}
  BY DEF AnyKind, Thinking
<1>1. t \in Seq(BlocksOf(TextKind)) /\ (t # <<>> <=> b) BY TextBlocks
<1>2. cs \in Seq(BlocksOf(UseKind)) BY DEF ToolUses
<1> HIDE DEF t, UseKind, TextKind, K
<1>3. th \in Seq(B) /\ t \in Seq(B) /\ cs \in Seq(B) BY <1>0, <1>1, <1>2, OfKindAll
<1> HIDE DEF B
<1>4. a \in Seq(B) BY <1>3, ConcatProperties
<1> HIDE DEF a
<1>5. bs \in Seq(B) /\ Len(bs) = Len(a) + Len(cs) /\ Len(cs) \in Nat /\ Len(a) \in Nat
  BY <1>3, <1>4, ConcatProperties
<1>6. ASSUME NEW L
      PROVE  OfKind(bs, L) = (OfKind(th, L) \o OfKind(t, L)) \o OfKind(cs, L)
  <2> DEFINE S == BlocksOf(L)
  <2> HIDE DEF S
  <2>1. Picked(a, S) = Picked(th, S) \o Picked(t, S) BY <1>3, PickedConcat DEF a
  <2>2. Picked(bs, S) = Picked(a, S) \o Picked(cs, S)
    <3>1. a \in Seq(B) /\ cs \in Seq(B) BY <1>3, <1>4
    <3> QED BY <3>1, PickedConcat
  <2> QED BY <2>1, <2>2 DEF OfKind, S
<1>7. CallsOf(bs) = cs
  <2>1. OfKind(th, UseKind) = <<>> /\ OfKind(t, UseKind) = <<>> /\ OfKind(cs, UseKind) = cs
    BY <1>0, <1>1, <1>2, OfKindNone, OfKindAll
  <2>2. (<<>> \o <<>>) \o cs = cs BY <1>3, ConcatEmptySeq
  <2>3. OfKind(bs, UseKind) = cs BY <1>6, <2>1, <2>2
  <2> QED BY <2>3 DEF CallsOf, UseKind
<1>8. TextOf(bs) = b
  <2>1. OfKind(th, TextKind) = <<>> /\ OfKind(t, TextKind) = t /\ OfKind(cs, TextKind) = <<>>
    BY <1>0, <1>1, <1>2, OfKindNone, OfKindAll
  <2>2. (<<>> \o t) \o <<>> = t BY <1>3, ConcatEmptySeq
  <2>3. OfKind(bs, TextKind) = t BY <1>6, <2>1, <2>2
  <2>4. t # <<>> <=> b BY <1>1
  <2> QED BY <2>3, <2>4 DEF TextOf, TextKind
<1>9. IsPrefix(th, bs)
  <2> DEFINE l == Len(th)
             p == SubSeq(th, 1, l)
             q == SubSeq(bs, 1, l)
  <2>1. /\ l \in Nat /\ Len(a) = l + Len(t) /\ Len(t) \in Nat
        /\ \A i \in 1..l : a[i] = th[i]
    <3>1. l \in Nat /\ Len(t) \in Nat BY <1>3, LenProperties
    <3>2. Len(a) = l + Len(t) BY <1>3, ConcatProperties DEF a
    <3>3. \A i \in 1..(l + Len(t)) : a[i] = IF i <= l THEN th[i] ELSE t[i - l]
      BY <1>3, ConcatProperties DEF a
    <3> QED BY <3>1, <3>2, <3>3
  <2>2. \A i \in 1..(Len(a) + Len(cs)) : bs[i] = IF i <= Len(a) THEN a[i] ELSE cs[i - Len(a)]
    BY <1>3, <1>4, ConcatProperties
  <2> HIDE DEF bs
  <2>3. l <= Len(bs) /\ \A i \in 1..l : bs[i] = th[i]
    BY <1>5, <2>1, <2>2
  <2>4. p \in Seq(B) /\ Len(p) = l /\ \A i \in 1..l : p[i] = th[i]
    BY <1>3, <2>1, SubSeqProperties
  <2>5. q \in Seq(B) /\ Len(q) = l /\ \A i \in 1..l : q[i] = bs[i]
    BY <1>5, <2>1, <2>3, SubSeqProperties
  <2> HIDE DEF p, q, l
  <2>6. p = q BY <2>3, <2>4, <2>5, SeqEqual
  <2> QED BY <2>3, <2>6 DEF IsPrefix, p, q, l
<1>10. cs # <<>> => bs # <<>>
  <2> HIDE DEF bs
  <2>1. cs # <<>> => Len(cs) > 0 BY <1>3, <1>5, EmptySeq
  <2> QED BY <1>5, <2>1, EmptySeq
<1> QED BY <1>5, <1>7, <1>8, <1>9, <1>10 DEF B, K, a, t

\* A run of results ends before a message that is none.
LEMMA RunOfResults ==
    ASSUME NEW ms \in Seq(Msg), NEW i \in DOMAIN ms, ms[i].role = "tool"
    PROVE  \E e \in i..Len(ms) :
              /\ e = Len(ms) \/ ms[e + 1].role # "tool"
              /\ \A j \in i..e : ms[j].role = "tool"
              /\ RunFrom(ms, i) \in Seq(Msg) /\ Len(RunFrom(ms, i)) = e - i + 1
              /\ \A k \in 1..(e - i + 1) : RunFrom(ms, i)[k] = ms[i + k - 1]
<1> DEFINE n == Len(ms)
           S == {j \in i..n : j = n \/ ms[j + 1].role # "tool"}
           e == Min(S)
<1>1. n \in Nat /\ i \in 1..n /\ i \in Nat BY LenProperties
<1>2. n \in S /\ S \subseteq Nat BY <1>1
<1> HIDE DEF S, n
<1>3. \E j \in S : \A k \in S : j <= k BY <1>2, LeastOf
<1>4. e \in S /\ \A k \in S : e <= k BY <1>3 DEF Min
<1>5. RunFrom(ms, i) = SubSeq(ms, i, e) BY DEF RunFrom, S, n
<1> HIDE DEF e
<1>6. e \in i..n /\ (e = n \/ ms[e + 1].role # "tool") BY <1>4 DEF S
<1>7. ASSUME NEW j \in i..e PROVE ms[j].role = "tool"
  <2>1. CASE j = i BY <2>1
  <2>2. CASE j # i
    <3> DEFINE k == j - 1
    <3>1. k \in i..n /\ ~(e <= k) /\ k # n /\ k + 1 = j BY <1>1, <1>6, <2>2
    <3>2. k \notin S BY <1>4, <3>1
    <3> HIDE DEF k
    <3> QED BY <3>1, <3>2 DEF S
  <2> QED BY <2>1, <2>2
<1>8. /\ SubSeq(ms, i, e) \in Seq(Msg) /\ Len(SubSeq(ms, i, e)) = e - i + 1
      /\ \A k \in 1..(e - i + 1) : SubSeq(ms, i, e)[k] = ms[i + k - 1]
  <2>0. i <= e /\ e \in Nat /\ i \in Nat /\ i >= 1 /\ e <= n BY <1>1, <1>6
  <2>1. i <= e /\ e \in Int /\ i \in Int /\ \A j \in i..e : ms[j] \in Msg
    <3>1. \A j \in i..e : j \in 1..n BY <1>1, <2>0
    <3> QED BY <2>0, <3>1, ElementOfSeq DEF n
  <2> DEFINE q == SubSeq(ms, i, e)
  <2>2. /\ q \in Seq(Msg)
        /\ Len(q) = IF i <= e THEN e - i + 1 ELSE 0
        /\ \A k \in 1..(e - i + 1) : q[k] = ms[i + k - 1]
    BY <2>1, SubSeqProperties
  <2> HIDE DEF q
  <2>3. Len(q) = e - i + 1 BY <2>1, <2>2
  <2> QED BY <2>2, <2>3 DEF q
<1> QED BY <1>5, <1>6, <1>7, <1>8 DEF n

\* The results of a run of messages as blocks.
LEMMA ResultBlocks ==
    ASSUME NEW run \in Seq(Msg)
    PROVE  LET bs == [k \in DOMAIN run |-> ResultBlock(run[k])] IN
           /\ bs \in Seq(BlocksOf({"tool_result"})) /\ Len(bs) = Len(run)
           /\ \A k \in 1..Len(run) : bs[k].id = run[k].of
<1> DEFINE bs == [k \in DOMAIN run |-> ResultBlock(run[k])]
           l == Len(run)
<1>1. l \in Nat /\ DOMAIN run = 1..l BY LenProperties
<1>2. \A k \in 1..l : run[k].of \in Nat BY ElementOfSeq, MsgFields
<1>3. \A k \in 1..l : ResultBlock(run[k]) \in BlocksOf({"tool_result"})
                      /\ ResultBlock(run[k]).id = run[k].of
  BY <1>2 DEF ResultBlock, BlocksOf
<1>4. bs = [k \in 1..l |-> ResultBlock(run[k])] BY <1>1
<1> HIDE DEF l
<1>5. bs \in Seq(BlocksOf({"tool_result"})) /\ Len(bs) = l BY <1>1, <1>3, <1>4
<1>6. \A k \in 1..l : bs[k].id = run[k].of BY <1>3, <1>4
<1> QED BY <1>5, <1>6 DEF l

\* A message of Anthropic's request, by what it is made of.
LEMMA AnthropicForms ==
    ASSUME NEW ms \in Seq(Msg), Answers(ms, <<>>), NEW i \in DOMAIN ms
    PROVE  LET rq == AnthropicMessage(ms, i) IN
           /\ rq \in Req /\ rq.blocks # <<>>
           /\ rq.role = "assistant" <=> ms[i].role = "assistant"
           /\ ms[i].role = "assistant" =>
                /\ rq.blocks = ms[i].thinking \o TextBlock(ms[i].text) \o ms[i].calls
                /\ rq.blocks \in Seq(BlocksOf(AnyKind \ {"tool_result"}))
           /\ ms[i].role = "tool" =>
                /\ rq.blocks = [k \in DOMAIN RunFrom(ms, i) |-> ResultBlock(RunFrom(ms, i)[k])]
                /\ rq.blocks \in Seq(BlocksOf({"tool_result"}))
           /\ ms[i].role = "user" => rq.blocks \in Seq(BlocksOf({"text"}))
<1> DEFINE rq == AnthropicMessage(ms, i)
           bt == ms[i].thinking \o TextBlock(ms[i].text) \o ms[i].calls
           run == RunFrom(ms, i)
           br == [k \in DOMAIN run |-> ResultBlock(run[k])]
           K == AnyKind \ {"tool_result"}
<1>1. ms[i] \in Msg /\ i \in 1..Len(ms) BY ElementOfSeq, LenProperties
<1>2. ms[i].role \in {"user", "assistant", "tool"} BY <1>1, MsgFields
<1>3. /\ {"text"} \subseteq AnyKind /\ {"tool_result"} \subseteq AnyKind /\ K \subseteq AnyKind
  BY DEF AnyKind
<1> DEFINE Forms ==
           /\ rq \in Req /\ rq.blocks # <<>>
           /\ rq.role = "assistant" <=> ms[i].role = "assistant"
           /\ ms[i].role = "assistant" =>
                rq.blocks = bt /\ rq.blocks \in Seq(BlocksOf(K))
           /\ ms[i].role = "tool" =>
                rq.blocks = br /\ rq.blocks \in Seq(BlocksOf({"tool_result"}))
           /\ ms[i].role = "user" => rq.blocks \in Seq(BlocksOf({"text"}))
<1>4. ASSUME ms[i].role = "user" PROVE Forms
  <2>1. rq = [role |-> "user", blocks |-> TextBlock(TRUE)] BY <1>4 DEF AnthropicMessage
  <2>2. TextBlock(TRUE) \in Seq(BlocksOf({"text"})) /\ TextBlock(TRUE) # <<>> BY TextBlocks
  <2>3. TextBlock(TRUE) \in Seq(BlocksOf(AnyKind)) BY <1>3, <2>2, OfKindAll
  <2> HIDE DEF rq
  <2>4. rq \in Req BY <2>1, <2>3 DEF Req
  <2> QED BY <1>4, <2>1, <2>2, <2>4
<1>5. ASSUME ms[i].role = "assistant" PROVE Forms
  <2>1. rq = [role |-> "assistant", blocks |-> bt] BY <1>5 DEF AnthropicMessage
  <2>2. ms[i].calls # <<>> BY <1>5 DEF Answers
  <2> DEFINE th == ms[i].thinking
             b == ms[i].text
             cs == ms[i].calls
  <2>3. bt \in Seq(BlocksOf(K)) /\ bt # <<>>
    <3>1. th \in Seq(BlocksOf(Thinking)) /\ b \in BOOLEAN /\ cs \in Seq(ToolUses)
      BY <1>1, MsgFields
    <3>2. bt = th \o TextBlock(b) \o cs OBVIOUS
    <3> HIDE DEF th, b, cs, bt
    <3> QED BY <2>2, <3>1, <3>2, TurnBlocks DEF cs
  <2> HIDE DEF bt, K, rq
  <2>4. bt \in Seq(BlocksOf(AnyKind)) BY <1>3, <2>3, OfKindAll
  <2>5. rq \in Req BY <2>1, <2>4 DEF Req
  <2> QED BY <1>5, <2>1, <2>3, <2>5
<1>6. ASSUME ms[i].role = "tool" PROVE Forms
  <2>1. rq = [role |-> "user", blocks |-> br] BY <1>6 DEF AnthropicMessage
  <2>2. PICK e \in i..Len(ms) : run \in Seq(Msg) /\ Len(run) = e - i + 1
    BY <1>6, RunOfResults
  <2>3. Len(run) > 0 BY <1>1, <2>2, LenProperties
  <2> HIDE DEF run
  <2>4. br \in Seq(BlocksOf({"tool_result"})) /\ Len(br) = Len(run)
    BY <2>2, ResultBlocks
  <2> HIDE DEF br, rq
  <2>5. br # <<>> BY <2>3, <2>4, EmptySeq
  <2>6. br \in Seq(BlocksOf(AnyKind)) BY <1>3, <2>4, OfKindAll
  <2>7. rq \in Req BY <2>1, <2>6 DEF Req
  <2> QED BY <1>6, <2>1, <2>4, <2>5, <2>7
<1>7. Forms BY <1>2, <1>4, <1>5, <1>6
<1> QED BY <1>7

\* Where the messages of the request begin.
LEMMA AnthropicAt ==
    ASSUME NEW ms \in Seq(Msg)
    PROVE  LET at == At(Len(ms), Begins(ms))
               rq == ForAnthropic(ms)
           IN  /\ at \in Seq(Nat) /\ InOrder(at)
               /\ \A k \in DOMAIN at : at[k] \in Begins(ms) /\ at[k] \in DOMAIN ms
               /\ \A i \in Begins(ms) : \E k \in DOMAIN at : at[k] = i
               /\ rq = [k \in 1..Len(at) |-> AnthropicMessage(ms, at[k])]
               /\ DOMAIN at = 1..Len(at) /\ Len(at) \in Nat
<1> DEFINE n == Len(ms)
           B == Begins(ms)
           at == At(n, B)
<1>1. n \in Nat /\ DOMAIN ms = 1..n BY LenProperties
<1>2. B \subseteq 1..n BY <1>1 DEF Begins
<1>3. ForAnthropic(ms) = [k \in DOMAIN at |-> AnthropicMessage(ms, at[k])]
  BY <1>1 DEF ForAnthropic, At
<1> HIDE DEF B, n
<1>4. /\ at \in Seq(Nat) /\ InOrder(at)
      /\ \A k \in DOMAIN at : at[k] \in B \intersect 1..n
      /\ \A i \in B \intersect 1..n : \E k \in DOMAIN at : at[k] = i
  BY <1>1, AtFacts
<1> HIDE DEF at
<1>5. DOMAIN at = 1..Len(at) /\ Len(at) \in Nat BY <1>4, LenProperties
<1> QED BY <1>1, <1>2, <1>3, <1>4, <1>5 DEF at, B, n

\* A result stands in one message of the request, at one place.
LEMMA AnthropicResults ==
    ASSUME NEW ms \in Seq(Msg), Answers(ms, <<>>), ToolsRise(ms),
           NEW i \in Begins(ms), NEW j \in Begins(ms), i <= j,
           NEW k, NEW l,
           k \in DOMAIN AnthropicMessage(ms, i).blocks,
           l \in DOMAIN AnthropicMessage(ms, j).blocks,
           AnthropicMessage(ms, i).blocks[k].kind = "tool_result",
           AnthropicMessage(ms, j).blocks[l].kind = "tool_result",
           AnthropicMessage(ms, i).blocks[k].id = AnthropicMessage(ms, j).blocks[l].id
    PROVE  i = j /\ k = l
<1> DEFINE n == Len(ms)
           bi == AnthropicMessage(ms, i).blocks
           bj == AnthropicMessage(ms, j).blocks
<1>1. n \in Nat /\ DOMAIN ms = 1..n /\ i \in DOMAIN ms /\ j \in DOMAIN ms
  BY LenProperties DEF Begins
<1>2. ASSUME NEW a \in DOMAIN ms, NEW q, q \in DOMAIN AnthropicMessage(ms, a).blocks,
             AnthropicMessage(ms, a).blocks[q].kind = "tool_result"
      PROVE  /\ ms[a].role = "tool" /\ q \in Nat /\ q >= 1
             /\ a + q - 1 \in DOMAIN ms
             /\ \A p \in a..(a + q - 1) : ms[p].role = "tool"
             /\ AnthropicMessage(ms, a).blocks[q].id = ms[a + q - 1].of
  <2> DEFINE bs == AnthropicMessage(ms, a).blocks
             run == RunFrom(ms, a)
  <2>1. ms[a] \in Msg BY <1>1, ElementOfSeq
  <2>2. ms[a].role \in {"user", "assistant", "tool"} BY <2>1, MsgFields
  <2>3. ms[a].role # "user"
    <3> SUFFICES ASSUME ms[a].role = "user" PROVE FALSE
      OBVIOUS
    <3>1. bs \in Seq(BlocksOf({"text"})) BY AnthropicForms
    <3> HIDE DEF bs
    <3>2. bs[q] \in BlocksOf({"text"}) BY <1>2, <3>1, ElementOfSeq, LenProperties DEF bs
    <3> QED BY <1>2, <3>2, KindOfBlock DEF bs
  <2>4. ms[a].role # "assistant"
    <3> SUFFICES ASSUME ms[a].role = "assistant" PROVE FALSE
      OBVIOUS
    <3> DEFINE K == AnyKind \ {"tool_result"}
    <3>1. bs \in Seq(BlocksOf(K)) BY AnthropicForms
    <3> HIDE DEF bs, K
    <3>2. bs[q] \in BlocksOf(K) BY <1>2, <3>1, ElementOfSeq, LenProperties DEF bs
    <3> QED BY <1>2, <3>2, KindOfBlock DEF bs, K
  <2>5. ms[a].role = "tool" BY <2>2, <2>3, <2>4
  <2>6. bs = [r \in DOMAIN run |-> ResultBlock(run[r])] BY <2>5, AnthropicForms
  <2>7. PICK e \in a..n :
           /\ \A p \in a..e : ms[p].role = "tool"
           /\ run \in Seq(Msg) /\ Len(run) = e - a + 1
           /\ \A r \in 1..(e - a + 1) : run[r] = ms[a + r - 1]
    BY <2>5, RunOfResults
  <2> HIDE DEF run
  <2>8. /\ bs \in Seq(BlocksOf({"tool_result"})) /\ Len(bs) = Len(run)
        /\ \A r \in 1..Len(run) : bs[r].id = run[r].of
    BY <2>6, <2>7, ResultBlocks
  <2>9. q \in 1..(e - a + 1)
    <3>1. DOMAIN bs = 1..Len(bs) BY <2>8, LenProperties
    <3> QED BY <1>2, <2>7, <2>8, <3>1
  <2>10. bs[q].id = ms[a + q - 1].of BY <2>7, <2>8, <2>9
  <2>11. /\ a \in Nat /\ e \in Nat /\ q \in Nat /\ q >= 1 /\ a + q - 1 <= e
         /\ a + q - 1 \in 1..n
    BY <1>1, <2>7, <2>9
  <2>12. \A p \in a..(a + q - 1) : p \in a..e BY <2>11
  <2> QED BY <1>1, <2>5, <2>7, <2>10, <2>11, <2>12
<1> DEFINE x == i + k - 1
           y == j + l - 1
<1>3. /\ x \in DOMAIN ms /\ y \in DOMAIN ms /\ k \in Nat /\ l \in Nat /\ k >= 1 /\ l >= 1
      /\ \A p \in i..x : ms[p].role = "tool"
      /\ \A p \in j..y : ms[p].role = "tool"
      /\ ms[x].of = ms[y].of
  <2>1. /\ x \in DOMAIN ms /\ k \in Nat /\ k >= 1 /\ bi[k].id = ms[x].of
        /\ \A p \in i..x : ms[p].role = "tool"
    BY <1>1, <1>2
  <2>2. /\ y \in DOMAIN ms /\ l \in Nat /\ l >= 1 /\ bj[l].id = ms[y].of
        /\ \A p \in j..y : ms[p].role = "tool"
    BY <1>1, <1>2
  <2> QED BY <2>1, <2>2
<1>4. x = y
  <2>1. x \in i..x /\ y \in j..y /\ x \in Nat /\ y \in Nat BY <1>1, <1>3
  <2>2. x \in ToolAt(ms) /\ y \in ToolAt(ms) BY <1>3, <2>1 DEF ToolAt
  <2>3. x < y => ms[x].of < ms[y].of BY <2>2 DEF ToolsRise
  <2>4. y < x => ms[y].of < ms[x].of BY <2>2 DEF ToolsRise
  <2>5. ms[x].of \in Nat /\ ms[y].of \in Nat BY <1>1, <1>3, ElementOfSeq, MsgFields
  <2> HIDE DEF x, y
  <2> QED BY <1>3, <2>1, <2>3, <2>4, <2>5
<1>5. i = j
  <2> SUFFICES ASSUME i < j PROVE FALSE
    BY <1>1
  <2>1. j \in i..x /\ j - 1 \in i..x /\ j # 1 BY <1>1, <1>3, <1>4
  <2>2. ms[j].role = "tool" /\ ms[j - 1].role = "tool" BY <1>3, <2>1
  <2> QED BY <2>1, <2>2 DEF Begins
<1> QED BY <1>1, <1>3, <1>4, <1>5

----------------------------------------------------------------------------
(* What Anthropic's API asks of a request.                                 *)

\* Anthropic's request of messages whose calls are answered is accepted: the
\* message after a turn is the run of its results, which ends with the last of them.
LEMMA AnthropicAccepted ==
    ASSUME messages \in Seq(Msg), Answers(messages, <<>>), ToolsRise(messages),
           api' = "anthropic", request' = ForAnthropic(messages)
    PROVE  request' \in Seq(Req) /\ Placed'
<1> DEFINE ms == messages
           n == Len(ms)
           at == At(n, Begins(ms))
           rq == request'
           M(i) == AnthropicMessage(ms, i)
<1>1. /\ at \in Seq(Nat) /\ InOrder(at)
      /\ \A k \in DOMAIN at : at[k] \in Begins(ms) /\ at[k] \in DOMAIN ms
      /\ \A i \in Begins(ms) : \E k \in DOMAIN at : at[k] = i
      /\ rq = [k \in 1..Len(at) |-> M(at[k])]
      /\ DOMAIN at = 1..Len(at) /\ Len(at) \in Nat
  BY AnthropicAt
<1>2. n \in Nat /\ DOMAIN ms = 1..n BY LenProperties
<1> HIDE DEF at
<1>3. /\ DOMAIN rq = DOMAIN at
      /\ \A k \in DOMAIN at : rq[k] = M(at[k]) /\ rq[k] \in Req /\ rq[k].blocks # <<>>
  <2>1. \A i \in DOMAIN ms : M(i) \in Req /\ M(i).blocks # <<>> BY AnthropicForms
  <2> QED BY <1>1, <2>1
<1>4. rq \in Seq(Req) /\ Len(rq) = Len(at) BY <1>1, <1>3
<1>5. ASSUME NEW k \in DOMAIN at, CallsOf(rq[k].blocks) # <<>>
      PROVE  /\ k < Len(at)
             /\ Ids(ResultsOf(rq[k + 1].blocks)) = Ids(CallsOf(rq[k].blocks))
  <2> DEFINE p == at[k]
             cs == ms[p].calls
             l == Len(cs)
  <2>1. p \in DOMAIN ms /\ p \in 1..n /\ ms[p] \in Msg /\ k \in 1..Len(at)
    BY <1>1, <1>2, ElementOfSeq
  <2>2. ms[p].role = "assistant"
    <3>1. ms[p].role \in {"user", "assistant", "tool"} BY <2>1, MsgFields
    <3> DEFINE bs == M(p).blocks
    <3>2. ms[p].role = "user" => bs \in Seq(BlocksOf({"text"})) BY <2>1, AnthropicForms
    <3>3. ms[p].role = "tool" => bs \in Seq(BlocksOf({"tool_result"})) BY <2>1, AnthropicForms
    <3>4. rq[k].blocks = bs BY <1>3
    <3> HIDE DEF bs
    <3>5. ms[p].role = "user" => CallsOf(bs) = <<>> BY <3>2, OfKindNone DEF CallsOf
    <3>6. ms[p].role = "tool" => CallsOf(bs) = <<>> BY <3>3, OfKindNone DEF CallsOf
    <3> QED BY <1>5, <3>1, <3>4, <3>5, <3>6
  <2>3. CallsOf(rq[k].blocks) = cs
    <3> DEFINE th == ms[p].thinking
               b == ms[p].text
    <3>1. th \in Seq(BlocksOf(Thinking)) /\ b \in BOOLEAN /\ cs \in Seq(ToolUses)
      BY <2>1, MsgFields
    <3>2. rq[k].blocks = th \o TextBlock(b) \o cs
      <4>1. M(p).blocks = ms[p].thinking \o TextBlock(ms[p].text) \o ms[p].calls
        <5> HIDE DEF p
        <5> QED BY <2>1, <2>2, AnthropicForms
      <4>2. rq[k] = M(p) BY <1>3
      <4> QED BY <4>1, <4>2
    <3> HIDE DEF th, b, cs
    <3> QED BY <3>1, <3>2, TurnBlocks
  <2>4. cs \in Seq(ToolUses) /\ l \in Nat /\ l > 0 /\ DOMAIN cs = 1..l
    <3>1. cs \in Seq(ToolUses) BY <2>1, MsgFields
    <3> HIDE DEF cs
    <3> QED BY <1>5, <2>3, <3>1, LenProperties, EmptySeq
  <2>5. \A q \in 1..l : p + q <= n /\ ms[p + q].role = "tool" /\ ms[p + q].of = cs[q].id
    <3>1. \A q \in DOMAIN cs : ~(p + q - n \in DOMAIN <<>>) OBVIOUS
    <3> QED BY <2>1, <2>2, <2>4, <3>1 DEF Answers
  <2> DEFINE s == p + 1
  <2>6. s \in 1..n /\ ms[s].role = "tool" /\ s # 1 /\ s - 1 = p
    <3>1. 1 \in 1..l BY <2>4
    <3> QED BY <1>2, <2>1, <2>5, <3>1
  <2>7. s \in Begins(ms) /\ s \in DOMAIN ms BY <1>2, <2>2, <2>6 DEF Begins
  <2>8. PICK a \in DOMAIN at : at[a] = s BY <1>1, <2>7
  <2>9. a = k + 1
    <3>1. a \in 1..Len(at) /\ a \in Nat /\ k \in Nat /\ Len(at) \in Nat BY <1>1, <2>1, <2>8
    <3>2. ~(a < k) /\ a # k
      <4>1. a < k => at[a] < at[k] BY <1>1, <2>8 DEF InOrder
      <4> QED BY <2>1, <2>8, <4>1
    <3>3. ~(k + 1 < a)
      <4> SUFFICES ASSUME k + 1 < a PROVE FALSE
        OBVIOUS
      <4>1. k + 1 \in DOMAIN at BY <1>1, <3>1
      <4>2. at[k] < at[k + 1] /\ at[k + 1] < at[a]
        <5>1. k \in DOMAIN at /\ a \in DOMAIN at /\ k < k + 1 BY <2>8, <3>1
        <5> QED BY <1>1, <4>1, <5>1 DEF InOrder
      <4>3. at[k + 1] \in Nat BY <1>1, <1>2, <4>1
      <4> QED BY <2>1, <2>8, <4>2, <4>3
    <3> QED BY <3>1, <3>2, <3>3
  <2>10. k + 1 \in DOMAIN at /\ at[k + 1] = s /\ k < Len(at) BY <1>1, <2>1, <2>8, <2>9
  <2> DEFINE run == RunFrom(ms, s)
             bs == [r \in DOMAIN run |-> ResultBlock(run[r])]
  <2>11. rq[k + 1].blocks = bs
    <3>1. rq[k + 1] = M(s) BY <1>3, <2>10
    <3>2. M(s).blocks = bs BY <2>6, <2>7, AnthropicForms
    <3> QED BY <3>1, <3>2
  <2>12. PICK e \in s..n :
           /\ e = n \/ ms[e + 1].role # "tool"
           /\ \A j \in s..e : ms[j].role = "tool"
           /\ run \in Seq(Msg) /\ Len(run) = e - s + 1
           /\ \A r \in 1..(e - s + 1) : run[r] = ms[s + r - 1]
    BY <2>6, <2>7, RunOfResults
  <2> HIDE DEF run, s
  <2>13. e = p + l
    <3>0. p \in Nat /\ l \in Nat /\ n \in Nat /\ s = p + 1
      BY <1>2, <2>1, <2>4, <2>6 DEF s
    <3> HIDE DEF p, l
    <3>1. e \in Nat /\ e <= n /\ s <= e /\ p \in Nat /\ l \in Nat /\ n \in Nat /\ s = p + 1
      BY <2>12, <3>0
    <3>2. ~(e < p + l)
      <4> SUFFICES ASSUME e < p + l PROVE FALSE
        OBVIOUS
      <4> DEFINE q == e + 1 - p
      <4>1. q \in 1..l /\ p + q = e + 1 BY <3>1
      <4> HIDE DEF q
      <4>2. e + 1 <= n /\ ms[e + 1].role = "tool" BY <2>5, <4>1
      <4> QED BY <2>12, <3>1, <4>2
    <3>3. ~(e > p + l)
      <4> SUFFICES ASSUME e > p + l PROVE FALSE
        OBVIOUS
      <4> DEFINE j == p + l + 1
      <4>1. j \in s..e /\ j \in 1..n /\ j \in Nat
        <5>1. p + l + 1 \in Nat /\ s <= p + l + 1 /\ p + l + 1 <= e /\ 1 <= p + l + 1
          BY <3>1
        <5> QED BY <3>1, <5>1
      <4>2. j \in ToolAt(ms) BY <1>2, <2>12, <4>1 DEF ToolAt
      <4> HIDE DEF j
      <4>3. PICK i \in 1..(j - 1) : ms[i].role = "assistant" /\ j <= i + Len(ms[i].calls)
        BY <4>2 DEF Answers
      <4>4. i \in 1..n /\ i < j /\ i \in Nat BY <1>2, <4>1, <4>3
      <4>5. i <= p
        <5>1. ~(i \in s..e) BY <2>12, <4>3
        <5> QED BY <3>1, <4>1, <4>4, <5>1
      <4>6. i # p
        <5> SUFFICES ASSUME i = p PROVE FALSE
          OBVIOUS
        <5>1. p + l + 1 <= p + l BY <4>3 DEF j, l
        <5> QED BY <3>1, <5>1
      <4> DEFINE ci == ms[i].calls
                 q == p - i
      <4>7. ci \in Seq(ToolUses) BY <4>4, ElementOfSeq, MsgFields
      <4>8. Len(ci) \in Nat /\ DOMAIN ci = 1..Len(ci) BY <4>7, LenProperties
      <4>9. q \in DOMAIN ci /\ i + q = p /\ p <= n
        <5>1. i < p /\ p <= n BY <2>1, <3>1, <4>4, <4>5, <4>6
        <5>2. p + l + 1 <= i + Len(ci) BY <4>3 DEF j
        <5> HIDE DEF p, l, ci
        <5>3. q \in 1..Len(ci) /\ i + q = p BY <3>1, <4>4, <4>8, <5>1, <5>2
        <5> QED BY <4>8, <5>1, <5>3
      <4> HIDE DEF q
      <4>10. ms[p].role = "tool" BY <1>2, <4>3, <4>4, <4>9 DEF Answers
      <4> QED BY <2>2, <4>10
    <3> QED BY <3>1, <3>2, <3>3
  <2>14. Len(run) = l /\ \A r \in 1..l : run[r].of = cs[r].id
    <3>1. p \in Nat /\ l \in Nat BY <1>2, <2>1, <2>4
    <3> HIDE DEF p, l
    <3>2. e - s + 1 = l /\ \A r \in 1..l : s + r - 1 = p + r BY <2>13, <3>1 DEF s
    <3>3. \A r \in 1..l : run[r] = ms[p + r] BY <2>12, <3>2
    <3> QED BY <2>5, <2>12, <3>2, <3>3
  <2>15. /\ bs \in Seq(BlocksOf({"tool_result"})) /\ Len(bs) = l
         /\ \A r \in 1..l : bs[r].id = cs[r].id
    BY <2>12, <2>14, ResultBlocks
  <2> HIDE DEF bs, cs
  <2>16. ResultsOf(bs) = bs BY <2>15, OfKindAll DEF ResultsOf
  <2>17. DOMAIN bs = 1..l BY <2>15, LenProperties
  <2>18. Ids(bs) = Ids(cs) BY <2>4, <2>15, <2>17 DEF Ids
  <2> QED BY <2>3, <2>10, <2>11, <2>16, <2>18
<1>6. ASSUME NEW i \in DOMAIN at, NEW j \in DOMAIN at,
             NEW k \in DOMAIN rq[i].blocks, NEW l \in DOMAIN rq[j].blocks,
             rq[i].blocks[k].kind = "tool_result", rq[j].blocks[l].kind = "tool_result",
             rq[i].blocks[k].id = rq[j].blocks[l].id
      PROVE  i = j /\ k = l
  <2>1. at[i] \in Begins(ms) /\ at[j] \in Begins(ms) /\ at[i] \in Nat /\ at[j] \in Nat
    BY <1>1, <1>2
  <2>2. rq[i].blocks = M(at[i]).blocks /\ rq[j].blocks = M(at[j]).blocks BY <1>3
  <2>3. at[i] = at[j] /\ k = l
    <3>1. at[i] <= at[j] \/ at[j] <= at[i] BY <2>1
    <3>2. CASE at[i] <= at[j] BY <1>6, <2>1, <2>2, <3>2, AnthropicResults
    <3>3. CASE at[j] <= at[i] BY <1>6, <2>1, <2>2, <3>3, AnthropicResults
    <3> QED BY <3>1, <3>2, <3>3
  <2>4. i = j
    <3>1. i < j => at[i] < at[j] BY <1>1 DEF InOrder
    <3>2. j < i => at[j] < at[i] BY <1>1 DEF InOrder
    <3>3. i \in Nat /\ j \in Nat BY <1>1
    <3> QED BY <2>1, <2>3, <3>1, <3>2, <3>3
  <2> QED BY <2>3, <2>4
<1> HIDE DEF rq
<1>7. Placed' BY <1>3, <1>4, <1>5, <1>6 DEF Placed, InPlace, rq
<1> QED BY <1>4, <1>7 DEF rq

----------------------------------------------------------------------------
(* The same of OpenAI's.                                                   *)

\* A message of OpenAI's request.
LEMMA OpenAIForms ==
    ASSUME NEW m \in Msg, m.role = "assistant" => m.calls # <<>>
    PROVE  LET rq == OpenAIMessage(m) IN
           /\ rq \in Req /\ rq.blocks # <<>>
           /\ rq.role = "assistant" <=> m.role = "assistant"
           /\ m.role = "assistant" =>
                rq.blocks = m.calls /\ rq.blocks \in Seq(BlocksOf({"tool_use"}))
           /\ m.role = "tool" =>
                rq.blocks = <<ResultBlock(m)>> /\ rq.blocks \in Seq(BlocksOf({"tool_result"}))
           /\ m.role = "user" => rq.blocks \in Seq(BlocksOf({"text"}))
<1> DEFINE rq == OpenAIMessage(m)
           Forms ==
           /\ rq \in Req /\ rq.blocks # <<>>
           /\ rq.role = "assistant" <=> m.role = "assistant"
           /\ m.role = "assistant" =>
                rq.blocks = m.calls /\ rq.blocks \in Seq(BlocksOf({"tool_use"}))
           /\ m.role = "tool" =>
                rq.blocks = <<ResultBlock(m)>> /\ rq.blocks \in Seq(BlocksOf({"tool_result"}))
           /\ m.role = "user" => rq.blocks \in Seq(BlocksOf({"text"}))
<1>1. m.role \in {"user", "assistant", "tool"} BY MsgFields
<1>2. {"text"} \subseteq AnyKind /\ {"tool_result"} \subseteq AnyKind /\ {"tool_use"} \subseteq AnyKind
  BY DEF AnyKind
<1>3. ASSUME m.role = "user" PROVE Forms
  <2>1. rq = [role |-> "user", blocks |-> TextBlock(TRUE)] BY <1>3 DEF OpenAIMessage
  <2>2. TextBlock(TRUE) \in Seq(BlocksOf({"text"})) /\ TextBlock(TRUE) # <<>> BY TextBlocks
  <2>3. TextBlock(TRUE) \in Seq(BlocksOf(AnyKind)) BY <1>2, <2>2, OfKindAll
  <2> HIDE DEF rq
  <2>4. rq \in Req BY <2>1, <2>3 DEF Req
  <2> QED BY <1>3, <2>1, <2>2, <2>4
<1>4. ASSUME m.role = "assistant" PROVE Forms
  <2> DEFINE cs == m.calls
  <2>1. rq = [role |-> "assistant", blocks |-> cs] BY <1>4 DEF OpenAIMessage
  <2>2. cs \in Seq(BlocksOf({"tool_use"})) /\ cs # <<>> BY <1>4, MsgFields DEF ToolUses
  <2>3. cs \in Seq(BlocksOf(AnyKind)) BY <1>2, <2>2, OfKindAll
  <2> HIDE DEF rq
  <2>4. rq \in Req BY <2>1, <2>3 DEF Req
  <2> QED BY <1>4, <2>1, <2>2, <2>4
<1>5. ASSUME m.role = "tool" PROVE Forms
  <2> DEFINE r == ResultBlock(m)
  <2>1. rq = [role |-> "tool", blocks |-> <<r>>] BY <1>5 DEF OpenAIMessage
  <2>2. r \in BlocksOf({"tool_result"}) BY MsgFields DEF ResultBlock, BlocksOf
  <2> HIDE DEF rq, r
  <2>3. <<r>> \in Seq(BlocksOf({"tool_result"})) /\ <<r>> # <<>> BY <2>2
  <2>4. <<r>> \in Seq(BlocksOf(AnyKind)) BY <1>2, <2>3, OfKindAll
  <2>5. rq \in Req BY <2>1, <2>4 DEF Req
  <2> QED BY <1>5, <2>1, <2>3, <2>5 DEF r
<1>6. Forms BY <1>1, <1>3, <1>4, <1>5
<1> QED BY <1>6

\* The request begins with the system prompt.
LEMMA OpenAIAt ==
    ASSUME NEW ms \in Seq(Msg), Answers(ms, <<>>)
    PROVE  LET rq == ForOpenAI(ms)
               system == [role |-> "system", blocks |-> TextBlock(TRUE)]
               rest == [i \in DOMAIN ms |-> OpenAIMessage(ms[i])]
           IN  /\ rq = <<system>> \o rest
               /\ system \in Req /\ rest \in Seq(Req) /\ Len(rest) = Len(ms)
               /\ rq \in Seq(Req) /\ Len(rq) = Len(ms) + 1
               /\ rq[1] = system
               /\ \A i \in DOMAIN ms : rq[i + 1] = OpenAIMessage(ms[i])
<1> DEFINE rq == ForOpenAI(ms)
           system == [role |-> "system", blocks |-> TextBlock(TRUE)]
           rest == [i \in DOMAIN ms |-> OpenAIMessage(ms[i])]
           n == Len(ms)
<1>1. rq = <<system>> \o rest BY DEF ForOpenAI
<1>2. n \in Nat /\ DOMAIN ms = 1..n BY LenProperties
<1>3. system \in Req
  <2>1. {"text"} \subseteq AnyKind BY DEF AnyKind
  <2>2. TextBlock(TRUE) \in Seq(BlocksOf({"text"})) BY TextBlocks
  <2>3. TextBlock(TRUE) \in Seq(BlocksOf(AnyKind)) BY <2>1, <2>2, OfKindAll
  <2> QED BY <2>3 DEF Req
<1>4. \A i \in DOMAIN ms : OpenAIMessage(ms[i]) \in Req
  <2> SUFFICES ASSUME NEW i \in DOMAIN ms PROVE OpenAIMessage(ms[i]) \in Req
    OBVIOUS
  <2> DEFINE m == ms[i]
  <2>1. m \in Msg BY <1>2, ElementOfSeq
  <2>2. m.role = "assistant" => m.calls # <<>> BY DEF Answers
  <2> HIDE DEF m
  <2>3. OpenAIMessage(m) \in Req BY <2>1, <2>2, OpenAIForms
  <2> QED BY <2>3 DEF m
<1>5. rest \in Seq(Req) /\ Len(rest) = n /\ \A i \in 1..n : rest[i] = OpenAIMessage(ms[i])
  <2> HIDE DEF n
  <2> QED BY <1>2, <1>4
<1> HIDE DEF system, rest, rq, n
<1>6. <<system>> \in Seq(Req) /\ Len(<<system>>) = 1 /\ <<system>>[1] = system BY <1>3
<1> DEFINE first == <<system>>
<1> HIDE DEF first
<1>7. /\ rq \in Seq(Req) /\ Len(rq) = 1 + n
      /\ \A i \in 1..(1 + n) : rq[i] = IF i <= 1 THEN first[i] ELSE rest[i - 1]
  <2>1. first \in Seq(Req) /\ Len(first) = 1 /\ rq = first \o rest BY <1>1, <1>6 DEF first
  <2>2. rest \in Seq(Req) /\ Len(rest) = n BY <1>5
  <2>3. /\ first \o rest \in Seq(Req) /\ Len(first \o rest) = Len(first) + Len(rest)
        /\ \A i \in 1..(Len(first) + Len(rest)) :
              (first \o rest)[i] = IF i <= Len(first) THEN first[i] ELSE rest[i - Len(first)]
    BY <2>1, <2>2, ConcatProperties
  <2> QED BY <2>1, <2>2, <2>3
<1>8. rq[1] = system
  <2>1. 1 \in 1..(1 + n) BY <1>2
  <2>2. rq[1] = first[1] BY <1>7, <2>1
  <2> QED BY <1>6, <2>2 DEF first
<1>9. \A i \in DOMAIN ms : rq[i + 1] = OpenAIMessage(ms[i])
  <2> SUFFICES ASSUME NEW i \in 1..n PROVE rq[i + 1] = OpenAIMessage(ms[i])
    BY <1>2
  <2>1. i + 1 \in 1..(1 + n) /\ ~(i + 1 <= 1) /\ (i + 1) - 1 = i BY <1>2
  <2>2. rq[i + 1] = rest[(i + 1) - 1] BY <1>7, <2>1
  <2> QED BY <1>5, <2>1, <2>2
<1> QED BY <1>1, <1>2, <1>3, <1>5, <1>7, <1>8, <1>9 DEF rq, system, rest, n

\* OpenAI's request of such messages is accepted: each result is a message of its
\* own, in the place of its call after the turn.
LEMMA OpenAIAccepted ==
    ASSUME messages \in Seq(Msg), Answers(messages, <<>>), ToolsRise(messages),
           api' = "openai", request' = ForOpenAI(messages)
    PROVE  request' \in Seq(Req) /\ Placed'
<1> DEFINE ms == messages
           n == Len(ms)
           rq == request'
           system == [role |-> "system", blocks |-> TextBlock(TRUE)]
<1>1. /\ rq \in Seq(Req) /\ Len(rq) = n + 1 /\ rq[1] = system
      /\ \A i \in DOMAIN ms : rq[i + 1] = OpenAIMessage(ms[i])
  BY OpenAIAt
<1>2. n \in Nat /\ DOMAIN ms = 1..n /\ DOMAIN rq = 1..(n + 1)
  BY <1>1, LenProperties
<1>3. \A i \in DOMAIN ms : ms[i] \in Msg /\ (ms[i].role = "assistant" => ms[i].calls # <<>>)
  BY <1>2, ElementOfSeq DEF Answers
<1>4. system.blocks \in Seq(BlocksOf({"text"})) /\ system.blocks # <<>> BY TextBlocks
<1> HIDE DEF n, rq, system
<1>5. ASSUME NEW k \in DOMAIN rq PROVE k = 1 \/ k - 1 \in DOMAIN ms
  BY <1>2
<1>6. ASSUME NEW k \in DOMAIN rq PROVE rq[k].blocks # <<>>
  <2>1. CASE k = 1 BY <1>1, <1>4, <2>1
  <2>2. CASE k - 1 \in DOMAIN ms
    <3> DEFINE m == ms[k - 1]
    <3>1. m \in Msg /\ (m.role = "assistant" => m.calls # <<>>) BY <1>3, <2>2
    <3>2. rq[k] = OpenAIMessage(m)
      <4>1. (k - 1) + 1 = k BY <1>2
      <4> QED BY <1>1, <2>2, <4>1
    <3> HIDE DEF m
    <3> QED BY <3>1, <3>2, OpenAIForms
  <2> QED BY <1>5, <2>1, <2>2
\* What a block of tool use, or a result, says of its message.
<1>7. ASSUME NEW k \in DOMAIN rq, NEW a \in DOMAIN rq[k].blocks
      PROVE  /\ rq[k].blocks[a].kind = "tool_use" =>
                  k - 1 \in DOMAIN ms /\ ms[k - 1].role = "assistant"
             /\ rq[k].blocks[a].kind = "tool_result" =>
                  /\ k - 1 \in DOMAIN ms /\ ms[k - 1].role = "tool"
                  /\ a = 1 /\ rq[k].blocks[a].id = ms[k - 1].of
  <2> DEFINE bs == rq[k].blocks
  <2>1. CASE k = 1
    <3>1. bs \in Seq(BlocksOf({"text"})) BY <1>1, <1>4, <2>1
    <3> HIDE DEF bs
    <3>2. bs[a] \in BlocksOf({"text"}) BY <3>1, ElementOfSeq, LenProperties DEF bs
    <3>3. bs[a].kind \in {"text"} BY <3>2, KindOfBlock
    <3> QED BY <3>3 DEF bs
  <2>2. CASE k - 1 \in DOMAIN ms
    <3> DEFINE m == ms[k - 1]
    <3>1. m \in Msg /\ (m.role = "assistant" => m.calls # <<>>) BY <1>3, <2>2
    <3>2. rq[k] = OpenAIMessage(m)
      <4>1. (k - 1) + 1 = k BY <1>2
      <4> QED BY <1>1, <2>2, <4>1
    <3> HIDE DEF m
    <3>3. /\ m.role = "user" => bs \in Seq(BlocksOf({"text"}))
          /\ m.role = "assistant" => bs \in Seq(BlocksOf({"tool_use"}))
          /\ m.role = "tool" => bs = <<ResultBlock(m)>>
      BY <3>1, <3>2, OpenAIForms
    <3>4. m.role \in {"user", "assistant", "tool"} BY <3>1, MsgFields
    <3>5. m.role = "user" => bs[a].kind = "text"
      <4> HIDE DEF bs
      <4>1. m.role = "user" => bs[a] \in BlocksOf({"text"})
        BY <3>3, ElementOfSeq, LenProperties DEF bs
      <4> QED BY <4>1, KindOfBlock
    <3>6. m.role = "assistant" => bs[a].kind = "tool_use"
      <4> HIDE DEF bs
      <4>1. m.role = "assistant" => bs[a] \in BlocksOf({"tool_use"})
        BY <3>3, ElementOfSeq, LenProperties DEF bs
      <4> QED BY <4>1, KindOfBlock
    <3>7. m.role = "tool" => a = 1 /\ bs[a] = ResultBlock(m)
      <4>1. DOMAIN <<ResultBlock(m)>> = {1} /\ <<ResultBlock(m)>>[1] = ResultBlock(m) OBVIOUS
      <4> QED BY <3>3, <4>1
    <3>8. ResultBlock(m).kind = "tool_result" /\ ResultBlock(m).id = m.of BY DEF ResultBlock
    <3> QED BY <2>2, <3>4, <3>5, <3>6, <3>7, <3>8 DEF m
  <2> QED BY <1>5, <2>1, <2>2
<1>8. ASSUME NEW k \in DOMAIN rq, CallsOf(rq[k].blocks) # <<>>,
             NEW a \in DOMAIN CallsOf(rq[k].blocks)
      PROVE  /\ k + a <= Len(rq)
             /\ Ids(ResultsOf(rq[k + a].blocks)) = <<CallsOf(rq[k].blocks)[a].id>>
  <2>1. k # 1
    <3> SUFFICES ASSUME k = 1 PROVE FALSE
      OBVIOUS
    <3>1. CallsOf(system.blocks) = <<>> BY <1>4, OfKindNone DEF CallsOf
    <3> QED BY <1>1, <1>8, <3>1
  <2> DEFINE p == k - 1
             m == ms[p]
             cs == m.calls
             bs == rq[k].blocks
  <2>2. p \in DOMAIN ms /\ p + 1 = k /\ p \in Nat BY <1>2, <2>1
  <2>3. m \in Msg /\ (m.role = "assistant" => m.calls # <<>>) BY <1>3, <2>2
  <2>4. rq[k] = OpenAIMessage(m) BY <1>1, <2>2
  <2>5. /\ m.role = "user" => bs \in Seq(BlocksOf({"text"}))
        /\ m.role = "assistant" => bs = cs
        /\ m.role = "tool" => bs \in Seq(BlocksOf({"tool_result"}))
    <3> HIDE DEF m
    <3> QED BY <2>3, <2>4, OpenAIForms
  <2>6. m.role = "assistant" /\ CallsOf(bs) = cs
    <3>1. m.role \in {"user", "assistant", "tool"} /\ cs \in Seq(BlocksOf({"tool_use"}))
      BY <2>3, MsgFields DEF ToolUses
    <3> HIDE DEF m, cs
    <3>2. CallsOf(cs) = cs BY <3>1, OfKindAll DEF CallsOf
    <3> HIDE DEF bs
    <3>3. m.role # "user" /\ m.role # "tool"
      <4>1. m.role = "user" => CallsOf(bs) = <<>> BY <2>5, OfKindNone DEF CallsOf
      <4>2. m.role = "tool" => CallsOf(bs) = <<>> BY <2>5, OfKindNone DEF CallsOf
      <4> QED BY <1>8, <4>1, <4>2 DEF bs
    <3> QED BY <2>5, <3>1, <3>2, <3>3
  <2>7. a \in DOMAIN cs /\ a \in Nat \ {0}
    <3>1. cs \in Seq(ToolUses) BY <2>3, MsgFields
    <3>2. a \in DOMAIN cs BY <1>8, <2>6
    <3> HIDE DEF cs
    <3> QED BY <3>1, <3>2, LenProperties
  <2>8. p + a <= n /\ ms[p + a].role = "tool" /\ ms[p + a].of = cs[a].id
    <3>1. ~(p + a - n \in DOMAIN <<>>) OBVIOUS
    <3> QED BY <2>2, <2>6, <2>7, <3>1 DEF Answers, n
  <2> DEFINE r == ms[p + a]
             q == OpenAIMessage(r)
  <2>9. p + a \in DOMAIN ms /\ (p + a) + 1 = k + a /\ k + a <= n + 1
    <3> DEFINE s == p + a
    <3>1. n \in Nat /\ p \in Nat /\ a \in Nat /\ a # 0 /\ p + 1 = k /\ s <= n
      BY <1>2, <2>2, <2>7, <2>8
    <3> HIDE DEF p
    <3>2. s \in 1..n /\ s + 1 = k + a /\ k + a <= n + 1 BY <3>1
    <3> QED BY <1>2, <3>2
  <2>10. rq[k + a] = q
    <3> HIDE DEF p, q
    <3>1. rq[(p + a) + 1] = OpenAIMessage(ms[p + a]) BY <1>1, <2>9
    <3> QED BY <2>9, <3>1 DEF q
  <2>11. r \in Msg /\ r.role = "tool" /\ r.of = cs[a].id BY <1>3, <2>8, <2>9
  <2> HIDE DEF r
  <2>12. q.blocks = <<ResultBlock(r)>> /\ q.blocks \in Seq(BlocksOf({"tool_result"}))
    BY <2>11, OpenAIForms
  <2>13. ResultsOf(q.blocks) = <<ResultBlock(r)>>
    <3> HIDE DEF q
    <3> QED BY <2>12, OfKindAll DEF ResultsOf
  <2>14. Ids(<<ResultBlock(r)>>) = <<r.of>> BY DEF Ids, ResultBlock
  <2>15. Ids(ResultsOf(rq[k + a].blocks)) = <<cs[a].id>>
    <3> HIDE DEF q, p, cs
    <3> QED BY <2>10, <2>11, <2>13, <2>14
  <2> QED BY <1>1, <2>6, <2>9, <2>15
<1>9. ASSUME NEW i \in DOMAIN rq, NEW j \in DOMAIN rq,
             NEW k \in DOMAIN rq[i].blocks, NEW l \in DOMAIN rq[j].blocks,
             rq[i].blocks[k].kind = "tool_result", rq[j].blocks[l].kind = "tool_result",
             rq[i].blocks[k].id = rq[j].blocks[l].id
      PROVE  i = j /\ k = l
  <2> DEFINE x == i - 1
             y == j - 1
  <2>1. /\ x \in DOMAIN ms /\ y \in DOMAIN ms /\ k = 1 /\ l = 1
        /\ ms[x].role = "tool" /\ ms[y].role = "tool" /\ ms[x].of = ms[y].of
    BY <1>7, <1>9
  <2>2. x \in ToolAt(ms) /\ y \in ToolAt(ms) BY <2>1 DEF ToolAt
  <2>3. (x < y => ms[x].of < ms[y].of) /\ (y < x => ms[y].of < ms[x].of)
    BY <2>2 DEF ToolsRise
  <2>4. ms[x].of \in Nat /\ ms[y].of \in Nat /\ x \in Nat /\ y \in Nat
    BY <1>2, <1>3, <2>1, MsgFields
  <2>5. x = y
    <3> HIDE DEF x, y
    <3> QED BY <2>1, <2>3, <2>4
  <2> QED BY <1>2, <2>1, <2>5
<1>10. Placed' BY <1>1, <1>6, <1>8, <1>9 DEF Placed, InPlace, rq
<1> QED BY <1>1, <1>10 DEF rq

----------------------------------------------------------------------------
(* The turns of a request are those of the conversation.                   *)

\* The turns are the messages with the role of the assistant.
Speaking(ms) == {i \in DOMAIN ms : ms[i].role = "assistant"}
TurnsOfRequest(rq) == Picked(rq, {m \in ToSet(rq) : m.role = "assistant"})

\* They stand in the messages at the numbers of Speaking.
LEMMA TurnsAt ==
    ASSUME NEW ms \in Seq(Msg)
    PROVE  LET c == At(Len(ms), Speaking(ms)) IN
           /\ TurnsOf(ms) = [k \in DOMAIN c |-> ms[c[k]]]
           /\ c \in Seq(Nat) /\ DOMAIN c = 1..Len(c) /\ Len(c) \in Nat
           /\ \A k \in DOMAIN c : c[k] \in Speaking(ms)
<1> DEFINE n == Len(ms)
           A == Speaking(ms)
           c == At(n, A)
           S == {m \in Msg : m.role = "assistant"}
<1>1. n \in Nat /\ DOMAIN ms = 1..n BY LenProperties
<1>2. \A i \in 1..n : i \in A <=> ms[i] \in S BY <1>1, ElementOfSeq DEF Speaking
<1> HIDE DEF S
<1>3. Picked(ms, S) = [k \in DOMAIN c |-> ms[c[k]]] BY <1>2, PickedAt
<1>4. c \in Seq(Nat) /\ \A k \in DOMAIN c : c[k] \in A BY <1>1, AtFacts
<1> HIDE DEF c
<1>5. DOMAIN c = 1..Len(c) /\ Len(c) \in Nat BY <1>4, LenProperties
<1> QED BY <1>3, <1>4, <1>5 DEF c, S, TurnsOf

\* Anthropic's request has a message for each of them, in their order: picking
\* among the messages that begin one is picking among all.
LEMMA AnthropicTurns ==
    ASSUME NEW ms \in Seq(Msg), Answers(ms, <<>>), ForAnthropic(ms) \in Seq(Req)
    PROVE  LET c == At(Len(ms), Speaking(ms)) IN
           TurnsOfRequest(ForAnthropic(ms)) = [k \in DOMAIN c |-> AnthropicMessage(ms, c[k])]
<1> DEFINE n == Len(ms)
           A == Speaking(ms)
           B == Begins(ms)
           c == At(n, A)
           at == At(n, B)
           rq == ForAnthropic(ms)
           S == {m \in ToSet(rq) : m.role = "assistant"}
           P == {k \in DOMAIN at : at[k] \in A}
           d == At(Len(rq), P)
<1>1. n \in Nat /\ DOMAIN ms = 1..n BY LenProperties
<1>2. /\ at \in Seq(Nat) /\ DOMAIN at = 1..Len(at) /\ Len(at) \in Nat
      /\ \A k \in DOMAIN at : at[k] \in DOMAIN ms
      /\ rq = [k \in 1..Len(at) |-> AnthropicMessage(ms, at[k])]
  BY AnthropicAt
<1>3. A \subseteq B BY DEF Speaking, Begins
<1> HIDE DEF at, c, rq
<1>4. rq \in Seq(Req) /\ DOMAIN rq = DOMAIN at /\ Len(rq) = Len(at)
  <2>1. rq \in Seq(Req) BY DEF rq
  <2> QED BY <1>2, <2>1, LenProperties
<1>5. \A k \in DOMAIN rq : rq[k].role = "assistant" <=> at[k] \in A
  <2> SUFFICES ASSUME NEW k \in DOMAIN rq PROVE rq[k].role = "assistant" <=> at[k] \in A
    OBVIOUS
  <2> DEFINE i == at[k]
  <2>1. i \in DOMAIN ms /\ rq[k] = AnthropicMessage(ms, i) BY <1>2, <1>4
  <2> HIDE DEF i
  <2>2. AnthropicMessage(ms, i).role = "assistant" <=> ms[i].role = "assistant"
    BY <2>1, AnthropicForms
  <2>3. rq[k].role = "assistant" <=> ms[i].role = "assistant" BY <2>1, <2>2
  <2> QED BY <2>1, <2>3 DEF Speaking, i
<1>6. \A k \in 1..Len(rq) : k \in P <=> rq[k] \in S
  <2>1. \A k \in DOMAIN rq : rq[k] \in ToSet(rq) BY DEF ToSet
  <2> QED BY <1>2, <1>4, <1>5, <2>1
<1>7. \A k \in 1..Len(at) : k \in P <=> at[k] \in A BY <1>2
<1> HIDE DEF P, S, A
<1>8. Picked(rq, S) = [k \in DOMAIN d |-> rq[d[k]]] BY <1>4, <1>6, PickedAt
<1>9. Picked(at, A) = [k \in DOMAIN d |-> at[d[k]]]
  <2>1. Picked(at, A) = [k \in DOMAIN At(Len(at), P) |-> at[At(Len(at), P)[k]]]
    <3>1. at \in Seq(Nat) BY <1>2
    <3> QED BY <1>7, <3>1, PickedAt
  <2> QED BY <1>4, <2>1
<1>10. Picked(at, A) = c BY <1>1, <1>3, AtTwice DEF A, at, c
<1>11. \A k \in DOMAIN d : d[k] \in 1..Len(at) BY <1>2, <1>4, AtFacts
<1> HIDE DEF d
<1>12. DOMAIN c = DOMAIN d /\ \A k \in DOMAIN d : c[k] = at[d[k]] BY <1>9, <1>10
<1>13. \A k \in DOMAIN d : rq[d[k]] = AnthropicMessage(ms, c[k]) BY <1>2, <1>11, <1>12
<1>14. Picked(rq, S) = [k \in DOMAIN c |-> AnthropicMessage(ms, c[k])] BY <1>8, <1>12, <1>13
<1> QED BY <1>14 DEF rq, S, TurnsOfRequest, c, A

\* So has OpenAI's, whose system prompt is none of them.
LEMMA OpenAITurns ==
    ASSUME NEW ms \in Seq(Msg), Answers(ms, <<>>)
    PROVE  LET c == At(Len(ms), Speaking(ms)) IN
           TurnsOfRequest(ForOpenAI(ms)) = [k \in DOMAIN c |-> OpenAIMessage(ms[c[k]])]
<1> DEFINE n == Len(ms)
           A == Speaking(ms)
           c == At(n, A)
           rq == ForOpenAI(ms)
           system == [role |-> "system", blocks |-> TextBlock(TRUE)]
           rest == [i \in DOMAIN ms |-> OpenAIMessage(ms[i])]
           S == {m \in ToSet(rq) : m.role = "assistant"}
<1>1. n \in Nat /\ DOMAIN ms = 1..n BY LenProperties
<1>2. /\ rq = <<system>> \o rest
      /\ system \in Req /\ rest \in Seq(Req) /\ Len(rest) = n
      /\ rq \in Seq(Req) /\ Len(rq) = n + 1
      /\ \A i \in DOMAIN ms : rq[i + 1] = OpenAIMessage(ms[i])
  BY OpenAIAt
<1>3. system \notin S OBVIOUS
<1>4. \A i \in 1..n : i \in A <=> rest[i] \in S
  <2> SUFFICES ASSUME NEW i \in 1..n PROVE i \in A <=> rest[i] \in S
    OBVIOUS
  <2> DEFINE m == ms[i]
             q == OpenAIMessage(m)
  <2>1. m \in Msg /\ (m.role = "assistant" => m.calls # <<>>)
    BY <1>1, ElementOfSeq DEF Answers
  <2> HIDE DEF m
  <2>2. q.role = "assistant" <=> m.role = "assistant" BY <2>1, OpenAIForms
  <2> HIDE DEF q
  <2>3. rest[i] = q BY <1>1 DEF m, q
  <2>4. q \in ToSet(rq)
    <3> HIDE DEF rq, n
    <3>1. i + 1 \in DOMAIN rq /\ rq[i + 1] = q
      <4>1. DOMAIN rq = 1..(n + 1) BY <1>2, LenProperties
      <4>2. i + 1 \in 1..(n + 1) BY <1>1
      <4> QED BY <1>1, <1>2, <4>1, <4>2 DEF m, q
    <3> QED BY <3>1 DEF ToSet
  <2>5. q \in S <=> q.role = "assistant" BY <2>4
  <2>6. i \in A <=> m.role = "assistant" BY <1>1 DEF Speaking, m
  <2> QED BY <2>2, <2>3, <2>5, <2>6
<1> HIDE DEF rq, rest, system, S, A
<1>5. Picked(<<system>>, S) = <<>>
  <2>1. <<system>> \in Seq(Req) BY <1>2
  <2>2. DOMAIN <<system>> = {1} /\ <<system>>[1] = system OBVIOUS
  <2>3. \A i \in DOMAIN <<system>> : <<system>>[i] \notin S BY <1>3, <2>2
  <2> QED BY <2>1, <2>3, PickedNone
<1>6. Picked(rest, S) = [k \in DOMAIN c |-> rest[c[k]]]
  <2>1. Picked(rest, S) = [k \in DOMAIN At(Len(rest), A) |-> rest[At(Len(rest), A)[k]]]
    <3>1. \A i \in 1..Len(rest) : i \in A <=> rest[i] \in S BY <1>2, <1>4
    <3> QED BY <1>2, <3>1, PickedAt
  <2> QED BY <1>2, <2>1
<1>7. Picked(rq, S) = Picked(rest, S)
  <2>1. <<system>> \in Seq(Req) /\ rest \in Seq(Req) BY <1>2
  <2>2. Picked(<<system>> \o rest, S) = Picked(<<system>>, S) \o Picked(rest, S)
    <3> DEFINE first == <<system>>
    <3>1. first \in Seq(Req) BY <2>1
    <3> HIDE DEF first
    <3>2. Picked(first \o rest, S) = Picked(first, S) \o Picked(rest, S)
      BY <2>1, <3>1, PickedConcat
    <3> QED BY <3>2 DEF first
  <2>3. Picked(rest, S) \in Seq(Req) BY <1>2, PickedFacts
  <2> DEFINE p == Picked(rest, S)
  <2> HIDE DEF p
  <2>4. <<>> \o p = p BY <2>3, ConcatEmptySeq DEF p
  <2> QED BY <1>2, <1>5, <2>2, <2>4 DEF p
<1>8. \A k \in DOMAIN c : c[k] \in 1..n BY <1>1, AtFacts
<1> HIDE DEF c
<1>9. \A k \in DOMAIN c : rest[c[k]] = OpenAIMessage(ms[c[k]]) BY <1>1, <1>8 DEF rest
<1>10. Picked(rq, S) = [k \in DOMAIN c |-> OpenAIMessage(ms[c[k]])] BY <1>6, <1>7, <1>9
<1> QED BY <1>10 DEF rq, S, TurnsOfRequest, c, A

\* What a turn recorded of its answer is in Anthropic's request.
LEMMA AnthropicEchoed ==
    ASSUME messages \in Seq(Msg), Answers(messages, <<>>), TurnInv,
           turns \in Seq(Seq(Answering("anthropic"))), turns' = turns,
           api' = "anthropic", request' = ForAnthropic(messages), request' \in Seq(Req)
    PROVE  TurnsEchoed'
<1> DEFINE ms == messages
           c == At(Len(ms), Speaking(ms))
           as == Assistants'
           ts == TurnsOf(ms)
<1>1. as = [k \in DOMAIN c |-> AnthropicMessage(ms, c[k])]
  <2>1. as = TurnsOfRequest(ForAnthropic(ms)) BY DEF Assistants, TurnsOfRequest
  <2> QED BY <2>1, AnthropicTurns
<1>2. /\ ts = [k \in DOMAIN c |-> ms[c[k]]]
      /\ DOMAIN c = 1..Len(c) /\ Len(c) \in Nat
      /\ \A k \in DOMAIN c : c[k] \in Speaking(ms)
  BY TurnsAt
<1>3. Len(ts) = Len(turns) /\ \A k \in DOMAIN turns : Records(ts[k], turns[k]) BY DEF TurnInv
<1> HIDE DEF as, ts, c
<1>4. Len(as) = Len(c) /\ Len(ts) = Len(c) /\ DOMAIN turns = DOMAIN c
  <2>1. Len(as) = Len(c) /\ Len(ts) = Len(c) BY <1>1, <1>2
  <2>2. DOMAIN turns = 1..Len(turns) BY LenProperties
  <2> QED BY <1>2, <1>3, <2>1, <2>2
<1>5. ASSUME NEW k \in DOMAIN turns
      PROVE  /\ IsPrefix(OfKind(turns[k], Thinking), as[k].blocks)
             /\ CallsOf(as[k].blocks) = Kept(CallsOf(turns[k]))
             /\ TextOf(as[k].blocks) = TextOf(turns[k])
  <2> DEFINE i == c[k]
             m == ms[i]
             th == m.thinking
             b == m.text
             cs == m.calls
             bs == th \o TextBlock(b) \o cs
  <2>1. i \in DOMAIN ms /\ m.role = "assistant" /\ as[k] = AnthropicMessage(ms, i) /\ ts[k] = m
    BY <1>1, <1>2, <1>4 DEF Speaking
  <2>2. m \in Msg
    <3> HIDE DEF i
    <3> QED BY <2>1, ElementOfSeq, LenProperties DEF m
  <2>3. as[k].blocks = bs
    <3> HIDE DEF i
    <3> QED BY <2>1, AnthropicForms
  <2>4. Records(m, turns[k]) BY <1>3, <2>1
  <2>5. th = OfKind(turns[k], Thinking) /\ b = TextOf(turns[k]) /\ cs = Kept(CallsOf(turns[k]))
    <3> HIDE DEF m
    <3> QED BY <2>4 DEF Records, ThinkingOf
  <2>6. th \in Seq(BlocksOf(Thinking)) /\ b \in BOOLEAN /\ cs \in Seq(ToolUses)
    <3> HIDE DEF m
    <3> QED BY <2>2, MsgFields
  <2> HIDE DEF th, b, cs
  <2>7. CallsOf(bs) = cs /\ TextOf(bs) = b /\ IsPrefix(th, bs) BY <2>6, TurnBlocks
  <2> HIDE DEF bs
  <2> QED BY <2>3, <2>5, <2>7
<1> QED BY <1>3, <1>4, <1>5 DEF TurnsEchoed, as

\* Its calls are in OpenAI's; of reasoning there was none.
LEMMA OpenAIEchoed ==
    ASSUME messages \in Seq(Msg), Answers(messages, <<>>), TurnInv,
           turns \in Seq(Seq(Answering("openai"))), turns' = turns,
           api' = "openai", request' = ForOpenAI(messages)
    PROVE  TurnsEchoed'
<1> DEFINE ms == messages
           c == At(Len(ms), Speaking(ms))
           as == Assistants'
           ts == TurnsOf(ms)
<1>1. as = [k \in DOMAIN c |-> OpenAIMessage(ms[c[k]])]
  <2>1. as = TurnsOfRequest(ForOpenAI(ms)) BY DEF Assistants, TurnsOfRequest
  <2> QED BY <2>1, OpenAITurns
<1>2. /\ ts = [k \in DOMAIN c |-> ms[c[k]]]
      /\ DOMAIN c = 1..Len(c) /\ Len(c) \in Nat
      /\ \A k \in DOMAIN c : c[k] \in Speaking(ms)
  BY TurnsAt
<1>3. Len(ts) = Len(turns) /\ \A k \in DOMAIN turns : Records(ts[k], turns[k]) BY DEF TurnInv
<1> HIDE DEF as, ts, c
<1>4. Len(as) = Len(c) /\ Len(ts) = Len(c) /\ DOMAIN turns = DOMAIN c
  <2>1. Len(as) = Len(c) /\ Len(ts) = Len(c) BY <1>1, <1>2
  <2>2. DOMAIN turns = 1..Len(turns) BY LenProperties
  <2> QED BY <1>2, <1>3, <2>1, <2>2
<1>5. ASSUME NEW k \in DOMAIN turns
      PROVE  /\ IsPrefix(OfKind(turns[k], Thinking), as[k].blocks)
             /\ CallsOf(as[k].blocks) = Kept(CallsOf(turns[k]))
  <2> DEFINE i == c[k]
             m == ms[i]
             cs == m.calls
  <2>1. i \in DOMAIN ms /\ m.role = "assistant" /\ as[k] = OpenAIMessage(m) /\ ts[k] = m
    BY <1>1, <1>2, <1>4 DEF Speaking
  <2>2. m \in Msg /\ m.calls # <<>>
    <3> HIDE DEF i
    <3> QED BY <2>1, ElementOfSeq, LenProperties DEF m, Answers
  <2> HIDE DEF m
  <2>3. as[k].blocks = cs /\ cs \in Seq(BlocksOf({"tool_use"})) BY <2>1, <2>2, OpenAIForms
  <2>4. cs = Kept(CallsOf(turns[k])) BY <1>3, <2>1 DEF Records
  <2> HIDE DEF cs
  <2>5. CallsOf(cs) = cs BY <2>3, OfKindAll DEF CallsOf
  <2>6. OfKind(turns[k], Thinking) = <<>>
    <3> DEFINE t == turns[k]
    <3>1. t \in Seq(BlocksOf(Kinds("openai"))) BY ElementOfSeq, LenProperties DEF Answering
    <3>2. Kinds("openai") \intersect Thinking = {} BY DEF Kinds, Thinking
    <3> HIDE DEF t
    <3>3. OfKind(t, Thinking) = <<>> BY <3>1, <3>2, OfKindNone
    <3> QED BY <3>3 DEF t
  <2>7. IsPrefix(<<>>, cs)
    <3>1. SubSeq(cs, 1, 0) = <<>> /\ Len(cs) \in Nat BY <2>3, WholePrefix, LenProperties
    <3> QED BY <3>1 DEF IsPrefix
  <2> QED BY <2>3, <2>4, <2>5, <2>6, <2>7
<1> QED BY <1>3, <1>4, <1>5 DEF TurnsEchoed, as

----------------------------------------------------------------------------
(* Steps.                                                                  *)

\* A run starts with the message of the user.
LEMMA InitHolds == Init => TalkInv
<1> SUFFICES ASSUME Init PROVE TalkInv
  OBVIOUS
<1>1. /\ api \in {"anthropic", "openai"} /\ pc = "ask" /\ offered = TRUE
      /\ messages = <<User>> /\ request = <<>> /\ stream = <<>>
      /\ todo = <<>> /\ turns = <<>>
  BY DEF Init
<1>2. User \in Msg /\ User.role = "user" BY UserMessage
<1> DEFINE u == User
<1> HIDE DEF u
<1>3. <<>> \in Seq(Msg) /\ Append(<<>>, u) = <<u>> OBVIOUS
<1>4. Answers(<<>>, <<>>) /\ <<>> \in Seq(ToolUses)
  BY DEF Answers, ToolAt
<1>5. messages \in Seq(Msg) /\ Answers(messages, todo)
  <2>1. u \in Msg /\ u.role = "user" BY <1>2 DEF u
  <2>2. Append(<<>>, u) \in Seq(Msg) /\ Answers(Append(<<>>, u), <<>>)
    BY <1>3, <1>4, <2>1, AppendedMessage
  <2> QED BY <1>1, <1>3, <2>2 DEF u
<1>6. TalkTypes
  <2>1. /\ request \in Seq(Req) /\ stream \in Seq(Answering(api))
        /\ turns \in Seq(Seq(Answering(api))) /\ todo \in Seq(ToolUses)
    BY <1>1
  <2> QED BY <1>1, <1>5, <2>1 DEF TalkTypes
<1>7. messages[1] = u /\ DOMAIN messages = {1} BY <1>1 DEF u
<1>8. DOMAIN u.calls = {} /\ u.role = "user" BY DEF u, User, Message
<1>9. WholeInv
  BY <1>1, <1>7, <1>8 DEF WholeInv, Whole, OnlyWholeCalls
<1>10. StreamInv
  BY <1>1, ConversationConstants DEF StreamInv
<1>11. IdInv
  <2>1. ToolAt(messages) = {} BY <1>7, <1>8 DEF ToolAt
  <2> QED BY <1>1, <2>1 DEF IdInv, ToolsRise, Rising
<1>12. TurnInv
  <2> DEFINE S == {m \in Msg : m.role = "assistant"}
  <2>1. u \notin S BY <1>8
  <2>2. u \in Msg BY <1>2 DEF u
  <2> HIDE DEF S
  <2>3. Picked(Append(<<>>, u), S) = Picked(<<>>, S) BY <1>3, <2>1, <2>2, PickedAppend
  <2>4. Picked(<<>>, S) = <<>> BY PickedEmpty
  <2>5. TurnsOf(messages) = <<>> BY <1>1, <1>3, <2>3, <2>4 DEF TurnsOf, S, u
  <2> QED BY <1>1, <2>5 DEF TurnInv
<1>13. Placed /\ TurnsEchoed BY <1>1 DEF Placed, InPlace, TurnsEchoed
<1> QED BY <1>5, <1>6, <1>9, <1>10, <1>11, <1>12, <1>13 DEF TalkInv

\* What one more message does to the ids of the results.
LEMMA AppendedIds ==
    ASSUME NEW ms \in Seq(Msg), NEW m \in Msg, ToolsRise(ms),
           m.role = "tool" => \A i \in ToolAt(ms) : ms[i].of < m.of
    PROVE  /\ ToolsRise(Append(ms, m))
           /\ \A i \in ToolAt(Append(ms, m)) :
                 \/ i \in ToolAt(ms) /\ Append(ms, m)[i] = ms[i]
                 \/ m.role = "tool" /\ Append(ms, m)[i] = m
<1> DEFINE ns == Append(ms, m)
           n == Len(ms)
<1>1. /\ n \in Nat /\ DOMAIN ms = 1..n /\ DOMAIN ns = 1..(n + 1)
      /\ \A i \in 1..n : ns[i] = ms[i]
      /\ ns[n + 1] = m
  BY AppendProperties, LenProperties
<1> HIDE DEF ns, n
<1>2. ASSUME NEW i \in ToolAt(ns)
      PROVE  \/ i \in ToolAt(ms) /\ ns[i] = ms[i] /\ i \in 1..n
             \/ m.role = "tool" /\ ns[i] = m /\ i = n + 1
  <2>1. i \in 1..(n + 1) /\ ns[i].role = "tool" BY <1>1, <1>2 DEF ToolAt
  <2>2. CASE i \in 1..n BY <1>1, <2>1, <2>2 DEF ToolAt
  <2>3. CASE i = n + 1 BY <1>1, <2>1, <2>3
  <2> QED BY <1>1, <2>1, <2>2, <2>3
<1>3. ToolsRise(ns)
  <2> SUFFICES ASSUME NEW i \in ToolAt(ns), NEW j \in ToolAt(ns), i < j
               PROVE  ns[i].of < ns[j].of
    BY DEF ToolsRise
  <2>1. i \in ToolAt(ms) /\ ns[i] = ms[i]
    <3>1. ~(i = n + 1)
      <4>1. j \in 1..(n + 1) BY <1>1 DEF ToolAt
      <4> QED BY <1>1, <4>1
    <3> QED BY <1>2, <3>1
  <2>2. CASE j \in ToolAt(ms) /\ ns[j] = ms[j] BY <2>1, <2>2 DEF ToolsRise
  <2>3. CASE m.role = "tool" /\ ns[j] = m BY <2>1, <2>3
  <2> QED BY <1>2, <2>2, <2>3
<1> QED BY <1>2, <1>3 DEF ns

\* What one more message does to the turns.
LEMMA AppendedTurn ==
    ASSUME NEW ms \in Seq(Msg), NEW m \in Msg
    PROVE  /\ TurnsOf(ms) \in Seq(Msg)
           /\ TurnsOf(Append(ms, m)) =
                IF m.role = "assistant" THEN Append(TurnsOf(ms), m) ELSE TurnsOf(ms)
<1> DEFINE S == {x \in Msg : x.role = "assistant"}
<1>1. m \in S <=> m.role = "assistant" OBVIOUS
<1> HIDE DEF S
<1>2. Picked(ms, S) \in Seq(Msg) BY PickedFacts
<1>3. Picked(Append(ms, m), S) = IF m \in S THEN Append(Picked(ms, S), m) ELSE Picked(ms, S)
  BY PickedAppend
<1> QED BY <1>1, <1>2, <1>3 DEF TurnsOf, S

\* No call of a message is cut when none was before and none of the new one's is.
LEMMA AppendedCalls ==
    ASSUME NEW ms \in Seq(Msg), NEW m \in Msg, Whole(m.calls),
           \A i \in DOMAIN ms : Whole(ms[i].calls)
    PROVE  \A i \in DOMAIN Append(ms, m) : Whole(Append(ms, m)[i].calls)
<1> DEFINE ns == Append(ms, m)
           n == Len(ms)
<1>1. /\ n \in Nat /\ DOMAIN ms = 1..n /\ DOMAIN ns = 1..(n + 1)
      /\ \A i \in 1..n : ns[i] = ms[i]
      /\ ns[n + 1] = m
  BY AppendProperties, LenProperties
<1> HIDE DEF ns, n
<1>2. ASSUME NEW i \in DOMAIN ns PROVE Whole(ns[i].calls)
  <2>1. CASE i \in 1..n BY <1>1, <2>1
  <2>2. CASE i = n + 1 BY <1>1, <2>2
  <2> QED BY <1>1, <2>1, <2>2
<1> QED BY <1>2 DEF ns

\* A message of the user asks for the report when no call is open.
LEMMA UserAdded ==
    ASSUME TalkInv, todo = <<>>, messages' = Append(messages, User),
           todo' = todo, turns' = turns
    PROVE  /\ messages' \in Seq(Msg) /\ OnlyWholeCalls' /\ IdInv'
           /\ Answers(messages', todo') /\ TurnInv'
<1> DEFINE u == User
<1>1. u \in Msg /\ u.role = "user" /\ Whole(u.calls)
  BY UserMessage DEF User, Message, Whole
<1>2. messages \in Seq(Msg) /\ Answers(messages, <<>>) BY DEF TalkInv, TalkTypes
<1>3. <<>> \in Seq(ToolUses) OBVIOUS
<1>4. messages' = Append(messages, u) OBVIOUS
<1> HIDE DEF u
<1>5. messages' \in Seq(Msg) /\ Answers(messages', todo')
  BY <1>1, <1>2, <1>3, <1>4, AppendedMessage
<1>6. OnlyWholeCalls'
  <2>1. \A i \in DOMAIN messages : Whole(messages[i].calls)
    BY DEF TalkInv, WholeInv, OnlyWholeCalls, Whole
  <2>2. \A i \in DOMAIN messages' : Whole(messages'[i].calls)
    BY <1>1, <1>2, <1>4, <2>1, AppendedCalls
  <2> QED BY <2>2 DEF OnlyWholeCalls, Whole
<1>7. IdInv'
  <2>1. IdInv /\ Used' = Used BY DEF TalkInv, Used
  <2>2. ToolsRise(messages) BY <2>1 DEF IdInv
  <2>3. /\ ToolsRise(messages')
        /\ \A i \in ToolAt(messages') : i \in ToolAt(messages) /\ messages'[i] = messages[i]
    <3>1. u.role # "tool" /\ u \in Msg BY <1>1
    <3>2. /\ ToolsRise(Append(messages, u))
          /\ \A i \in ToolAt(Append(messages, u)) :
                i \in ToolAt(messages) /\ Append(messages, u)[i] = messages[i]
      BY <1>2, <2>2, <3>1, AppendedIds
    <3> QED BY <1>4, <3>2
  <2>4. DOMAIN todo' = {} OBVIOUS
  <2>5. \A i \in ToolAt(messages') : messages'[i].of <= Used' BY <2>1, <2>3 DEF IdInv
  <2> QED BY <2>3, <2>4, <2>5 DEF IdInv, Rising
<1>8. TurnInv'
  <2>1. TurnsOf(messages') = TurnsOf(messages) BY <1>1, <1>2, <1>4, AppendedTurn
  <2>2. TurnInv BY DEF TalkInv
  <2> QED BY <2>1, <2>2 DEF TurnInv, Records
<1> QED BY <1>5, <1>6, <1>7, <1>8

\* The request is made of messages whose calls are all answered.
LEMMA AskKeeps == TalkInv /\ Ask => TalkInv'
<1> SUFFICES ASSUME TalkInv, Ask PROVE TalkInv'
  OBVIOUS
<1>1. /\ pc = "ask" /\ request' = Convert(messages) /\ stream' = <<>> /\ pc' = "answer"
      /\ api' = api /\ messages' = messages /\ offered' = offered
      /\ todo' = todo /\ turns' = turns
  BY DEF Ask
<1>2. TalkTypes /\ IdInv /\ TurnInv /\ WholeInv BY DEF TalkInv
<1>3. todo = <<>> /\ messages \in Seq(Msg) /\ turns \in Seq(Seq(Answering(api)))
  BY <1>1, <1>2 DEF TalkTypes
<1>4. Answers(messages, <<>>) /\ ToolsRise(messages) BY <1>3 DEF TalkInv, IdInv
<1>5. request' \in Seq(Req) /\ Placed' /\ TurnsEchoed'
  <2>1. ASSUME api = "anthropic" PROVE request' \in Seq(Req) /\ Placed' /\ TurnsEchoed'
    <3>1. request' = ForAnthropic(messages) /\ api' = "anthropic" BY <1>1, <2>1 DEF Convert
    <3>2. request' \in Seq(Req) /\ Placed' BY <1>3, <1>4, <3>1, AnthropicAccepted
    <3>3. TurnsEchoed' BY <1>1, <1>2, <1>3, <1>4, <2>1, <3>1, <3>2, AnthropicEchoed
    <3> QED BY <3>2, <3>3
  <2>2. ASSUME api = "openai" PROVE request' \in Seq(Req) /\ Placed' /\ TurnsEchoed'
    <3>1. request' = ForOpenAI(messages) /\ api' = "openai" BY <1>1, <2>2 DEF Convert
    <3>2. request' \in Seq(Req) /\ Placed' BY <1>3, <1>4, <3>1, OpenAIAccepted
    <3>3. TurnsEchoed' BY <1>1, <1>2, <1>3, <1>4, <2>2, <3>1, OpenAIEchoed
    <3> QED BY <3>2, <3>3
  <2> QED BY <1>2, <2>1, <2>2 DEF TalkTypes
<1>6. TalkTypes'
  <2>1. stream' \in Seq(Answering(api')) BY <1>1
  <2> QED BY <1>1, <1>2, <1>3, <1>5, <2>1 DEF TalkTypes
<1>7. WholeInv' BY <1>1, <1>2 DEF WholeInv, OnlyWholeCalls, Whole
<1>8. StreamInv' BY <1>1, ConversationConstants DEF StreamInv
<1>9. IdInv' BY <1>1, <1>2 DEF IdInv, Used
<1>10. TurnInv' BY <1>1, <1>2 DEF TurnInv
<1>11. Answers(messages', todo') BY <1>1 DEF TalkInv
<1> QED BY <1>5, <1>6, <1>7, <1>8, <1>9, <1>10, <1>11 DEF TalkInv

\* A block has the next id and is whole.
LEMMA BlockKeeps == TalkInv /\ Block => TalkInv'
<1> SUFFICES ASSUME TalkInv, Block PROVE TalkInv'
  OBVIOUS
<1>1. PICK kind \in Kinds(api) :
         stream' = Append(stream, [kind |-> kind, id |-> Fresh, cut |-> FALSE])
  BY DEF Block
<1>2. /\ pc = "answer" /\ Len(stream) < MaxBlocks
      /\ api' = api /\ pc' = pc /\ messages' = messages /\ request' = request
      /\ offered' = offered /\ todo' = todo /\ turns' = turns
  BY DEF Block
<1>3. TalkTypes /\ IdInv /\ TurnInv /\ WholeInv /\ StreamInv /\ Placed /\ TurnsEchoed
  BY DEF TalkInv
<1> DEFINE b == [kind |-> kind, id |-> Fresh, cut |-> FALSE]
           n == Len(stream)
<1>4. stream \in Seq(Answering(api)) /\ n \in Nat /\ DOMAIN stream = 1..n
  <2>1. stream \in Seq(Answering(api)) BY <1>3 DEF TalkTypes
  <2> QED BY <2>1, LenProperties
<1>5. Len(turns) \in Nat /\ MaxBlocks \in Nat /\ Used \in Nat
  <2>1. Len(turns) \in Nat
    <3>1. turns \in Seq(Seq(Answering(api))) BY <1>3 DEF TalkTypes
    <3> QED BY <3>1, LenProperties
  <2> QED BY <2>1, ConversationConstants DEF Used
<1>6. Fresh = Used + (n + 1) /\ Fresh \in Nat
  <2>1. Fresh = 1 + Used + n BY DEF Fresh, Used
  <2> QED BY <1>4, <1>5, <2>1
<1>7. b \in Answering(api) /\ ~b.cut /\ b.id = Used + (n + 1)
  BY <1>6 DEF Answering, BlocksOf
<1> HIDE DEF b
<1>8. /\ stream' \in Seq(Answering(api)) /\ Len(stream') = n + 1
      /\ DOMAIN stream' = 1..(n + 1)
      /\ \A k \in 1..n : stream'[k] = stream[k]
      /\ stream'[n + 1] = b
  <2>1. stream' = Append(stream, b) BY <1>1 DEF b
  <2> QED BY <1>4, <1>7, <2>1, AppendProperties, LenProperties
<1> HIDE DEF n
<1>9. TalkTypes' BY <1>2, <1>3, <1>8 DEF TalkTypes
<1>10. ASSUME NEW k \in DOMAIN stream' PROVE k \in DOMAIN stream \/ k = n + 1
  BY <1>4, <1>8
<1>11. WholeInv'
  <2>1. Whole(stream')
    <3> SUFFICES ASSUME NEW k \in DOMAIN stream' PROVE ~stream'[k].cut
      BY DEF Whole
    <3>1. CASE k \in DOMAIN stream BY <1>3, <1>4, <1>8, <3>1 DEF WholeInv, Whole
    <3>2. CASE k = n + 1 BY <1>7, <1>8, <3>2
    <3> QED BY <1>10, <3>1, <3>2
  <2> QED BY <1>2, <1>3, <2>1 DEF WholeInv, OnlyWholeCalls
<1>12. StreamInv'
  <2>1. Used' = Used BY <1>2 DEF Used
  <2>2. Len(stream') <= MaxBlocks BY <1>2, <1>4, <1>5, <1>8 DEF n
  <2>3. ASSUME NEW k \in DOMAIN stream' PROVE stream'[k].id = Used + k
    <3>1. CASE k \in DOMAIN stream BY <1>3, <1>4, <1>8, <3>1 DEF StreamInv
    <3>2. CASE k = n + 1 BY <1>7, <1>8, <3>2
    <3> QED BY <1>10, <3>1, <3>2
  <2> QED BY <2>1, <2>2, <2>3 DEF StreamInv
<1>13. IdInv' BY <1>2, <1>3 DEF IdInv, Used
<1>14. TurnInv' BY <1>2, <1>3 DEF TurnInv
<1>15. Answers(messages', todo') BY <1>2 DEF TalkInv
<1>16. Placed' BY <1>2, <1>3 DEF Placed, InPlace
<1>17. TurnsEchoed' BY <1>2, <1>3 DEF TurnsEchoed, Assistants
<1> QED BY <1>9, <1>11, <1>12, <1>13, <1>14, <1>15, <1>16, <1>17 DEF TalkInv

\* After an error the messages are as before, or ask for the report.
LEMMA FailKeeps == TalkInv /\ Fail => TalkInv'
<1> SUFFICES ASSUME TalkInv, Fail PROVE TalkInv'
  OBVIOUS
<1>1. /\ pc = "answer" /\ stream' = <<>> /\ api' = api /\ request' = request
      /\ todo' = todo /\ turns' = turns
  BY DEF Fail
<1>2. TalkTypes /\ IdInv /\ TurnInv /\ WholeInv /\ StreamInv BY DEF TalkInv
<1>3. todo = <<>> BY <1>1, <1>2 DEF TalkTypes
<1>4. /\ pc' \in {"ask", "error"} /\ offered' \in BOOLEAN
      /\ messages' = Append(messages, User) \/ messages' = messages
  BY <1>2 DEF Fail, TalkTypes
<1>5. /\ messages' \in Seq(Msg) /\ OnlyWholeCalls' /\ IdInv'
      /\ Answers(messages', todo') /\ TurnInv'
  <2>1. CASE messages' = Append(messages, User) BY <1>1, <1>3, <2>1, UserAdded
  <2>2. CASE messages' = messages
    <3>1. messages' \in Seq(Msg) BY <1>2, <2>2 DEF TalkTypes
    <3>2. OnlyWholeCalls' BY <1>1, <1>2, <2>2 DEF WholeInv, OnlyWholeCalls
    <3>3. IdInv' BY <1>1, <1>2, <2>2 DEF IdInv, Used
    <3>4. Answers(messages', todo') BY <1>1, <2>2 DEF TalkInv
    <3>5. TurnInv' BY <1>1, <1>2, <2>2 DEF TurnInv
    <3> QED BY <3>1, <3>2, <3>3, <3>4, <3>5
  <2> QED BY <1>4, <2>1, <2>2
<1>6. TalkTypes'
  <2>1. stream' \in Seq(Answering(api')) BY <1>1
  <2>2. pc' = "tools" <=> todo' # <<>> BY <1>1, <1>3, <1>4
  <2> QED BY <1>1, <1>2, <1>4, <1>5, <2>1, <2>2 DEF TalkTypes
<1>7. WholeInv' BY <1>1, <1>5 DEF WholeInv, Whole
<1>8. StreamInv' BY <1>1, ConversationConstants DEF StreamInv
<1>9. Placed' /\ TurnsEchoed' BY <1>4 DEF Placed, InPlace, TurnsEchoed
<1> QED BY <1>5, <1>6, <1>7, <1>8, <1>9 DEF TalkInv

\* The agent asks for the report between two turns.
LEMMA WrapUpKeeps == TalkInv /\ WrapUp => TalkInv'
<1> SUFFICES ASSUME TalkInv, WrapUp PROVE TalkInv'
  OBVIOUS
<1>1. /\ pc = "ask" /\ messages' = Append(messages, User) /\ offered' = FALSE
      /\ api' = api /\ pc' = pc /\ request' = request /\ stream' = stream
      /\ todo' = todo /\ turns' = turns
  BY DEF WrapUp
<1>2. TalkTypes /\ WholeInv /\ StreamInv BY DEF TalkInv
<1>3. todo = <<>> BY <1>1, <1>2 DEF TalkTypes
<1>4. /\ messages' \in Seq(Msg) /\ OnlyWholeCalls' /\ IdInv'
      /\ Answers(messages', todo') /\ TurnInv'
  BY <1>1, <1>3, UserAdded
<1>5. TalkTypes' BY <1>1, <1>2, <1>4 DEF TalkTypes
<1>6. WholeInv' BY <1>1, <1>2, <1>4 DEF WholeInv, Whole
<1>7. StreamInv' BY <1>1, <1>2 DEF StreamInv, Used
<1>8. Placed' /\ TurnsEchoed' BY <1>1 DEF Placed, InPlace, TurnsEchoed
<1> QED BY <1>4, <1>5, <1>6, <1>7, <1>8 DEF TalkInv

\* The calls of an answer: whole, in the order of their ids, all new.
LEMMA CallsOfAnswer ==
    ASSUME TalkInv, CallsOf(stream) # <<>>
    PROVE  LET cs == Kept(CallsOf(stream)) IN
           /\ cs \in Seq(ToolUses) /\ cs # <<>> /\ Whole(cs) /\ Rising(cs)
           /\ \A k \in DOMAIN cs : Used < cs[k].id /\ cs[k].id <= Used + MaxBlocks
<1> DEFINE all == CallsOf(stream)
           cs == Kept(all)
           n == Len(stream)
<1>1. stream \in Seq(Answering(api)) /\ turns \in Seq(Seq(Answering(api)))
  BY DEF TalkInv, TalkTypes
<1>2. n \in Nat /\ DOMAIN stream = 1..n /\ Len(turns) \in Nat BY <1>1, LenProperties
<1>3. MaxBlocks \in Nat /\ Used \in Nat BY <1>2, ConversationConstants DEF Used
<1>4. n <= MaxBlocks /\ \A k \in DOMAIN stream : stream[k].id = Used + k /\ ~stream[k].cut
  BY DEF TalkInv, StreamInv, WholeInv, Whole
<1>5. Rising(stream)
  <2> SUFFICES ASSUME NEW i \in 1..n, NEW j \in 1..n, i < j
               PROVE  stream[i].id < stream[j].id
    BY <1>2 DEF Rising
  <2>1. stream[i].id = Used + i /\ stream[j].id = Used + j BY <1>2, <1>4
  <2> QED BY <1>2, <1>3, <2>1
<1>6. /\ all \in Seq(ToolUses)
      /\ \A k \in DOMAIN all : \E i \in DOMAIN stream : all[k] = stream[i]
  BY <1>1, PickedFacts DEF CallsOf, OfKind, ToolUses
<1>7. Rising(all) BY <1>1, <1>5, PickedRising DEF CallsOf, OfKind
<1>8. all # <<>> OBVIOUS
<1> HIDE DEF all, n
<1>9. /\ cs \in Seq(ToolUses) /\ cs # <<>> /\ DOMAIN cs \subseteq DOMAIN all
      /\ \A k \in DOMAIN cs : cs[k] = all[k]
  BY <1>6, <1>8, KeptFacts
<1> HIDE DEF cs
<1>10. Rising(cs) BY <1>7, <1>9 DEF Rising
<1>11. ASSUME NEW k \in DOMAIN cs
       PROVE  ~cs[k].cut /\ Used < cs[k].id /\ cs[k].id <= Used + MaxBlocks
  <2>1. PICK i \in DOMAIN stream : cs[k] = stream[i] BY <1>6, <1>9
  <2>2. i \in Nat /\ 1 <= i /\ i <= n BY <1>2
  <2>3. cs[k].id = Used + i /\ ~cs[k].cut BY <1>4, <2>1
  <2> QED BY <1>2, <1>3, <1>4, <2>2, <2>3
<1> QED BY <1>9, <1>10, <1>11 DEF Whole, cs, all

\* Reasons that mean calls are none of those that may cut one.
LEMMA CutsAreNoCalls ==
    ASSUME NEW reason, FinishReason(reason) = "tool_call"
    PROVE  Ended(reason) = {stream}
  BY DEF FinishReason, Ended

\* A report leaves the conversation alone; calls are put down with their turn.
LEMMA CompleteKeeps == TalkInv /\ Complete => TalkInv'
<1> SUFFICES ASSUME TalkInv, Complete PROVE TalkInv'
  OBVIOUS
<1>1. /\ pc = "answer" /\ stream' = <<>> /\ api' = api /\ request' = request
      /\ offered' = offered
  BY DEF Complete
<1>2. TalkTypes /\ IdInv /\ TurnInv /\ WholeInv /\ StreamInv BY DEF TalkInv
<1>3. todo = <<>> /\ messages \in Seq(Msg) BY <1>1, <1>2 DEF TalkTypes
<1>4. stream \in Seq(Answering(api)) /\ turns \in Seq(Seq(Answering(api))) BY <1>2 DEF TalkTypes
<1> DEFINE m == Message("assistant", TextOf(stream), ThinkingOf(stream),
                        Kept(CallsOf(stream)), 0)
           cs == Kept(CallsOf(stream))
           Report == /\ pc' = "report" /\ messages' = messages
                     /\ todo' = todo /\ turns' = turns
           Calls == /\ pc' = "tools" /\ CallsOf(stream) # <<>> /\ todo' = cs
                    /\ messages' = Append(messages, m) /\ turns' = Append(turns, stream)
<1>5. Report \/ Calls
  <2>1. PICK reason \in Reasons(api) : \E blocks \in Ended(reason) :
           IF FinishReason(reason) = "stop" \/ CallsOf(blocks) = <<>>
             THEN Report
             ELSE /\ pc' = "tools" /\ todo' = Kept(CallsOf(blocks))
                  /\ messages' = Append(messages, Message("assistant", TextOf(blocks),
                         ThinkingOf(blocks), Kept(CallsOf(blocks)), 0))
                  /\ turns' = Append(turns, blocks)
    BY DEF Complete
  <2>2. CASE FinishReason(reason) = "stop" BY <2>1, <2>2
  <2>3. CASE FinishReason(reason) # "stop"
    <3>1. FinishReason(reason) = "tool_call" BY <2>3 DEF FinishReason
    <3>2. Ended(reason) = {stream} BY <3>1, CutsAreNoCalls
    <3> HIDE DEF Report
    <3> QED BY <2>1, <2>3, <3>2
  <2> QED BY <2>2, <2>3
<1>6. ASSUME Report PROVE TalkInv'
  <2>1. TalkTypes'
    <3>1. stream' \in Seq(Answering(api')) BY <1>1
    <3> QED BY <1>1, <1>2, <1>3, <1>6, <3>1 DEF TalkTypes
  <2>2. WholeInv' BY <1>1, <1>2, <1>6 DEF WholeInv, OnlyWholeCalls, Whole
  <2>3. StreamInv' BY <1>1, ConversationConstants DEF StreamInv
  <2>4. IdInv' BY <1>2, <1>6 DEF IdInv, Used
  <2>5. TurnInv' BY <1>2, <1>6 DEF TurnInv
  <2>6. Answers(messages', todo') BY <1>6 DEF TalkInv
  <2>7. Placed' /\ TurnsEchoed' BY <1>6 DEF Placed, InPlace, TurnsEchoed
  <2> QED BY <2>1, <2>2, <2>3, <2>4, <2>5, <2>6, <2>7 DEF TalkInv
<1>7. ASSUME Calls PROVE TalkInv'
  <2>1. /\ cs \in Seq(ToolUses) /\ cs # <<>> /\ Whole(cs) /\ Rising(cs)
        /\ \A k \in DOMAIN cs : Used < cs[k].id /\ cs[k].id <= Used + MaxBlocks
    BY <1>7, CallsOfAnswer
  <2>2. m.role = "assistant" /\ m.calls = cs /\ Records(m, stream)
    BY DEF Message, Records
  <2>3. m \in Msg
    <3>1. TextOf(stream) \in BOOLEAN BY DEF TextOf
    <3>2. ThinkingOf(stream) \in Seq(BlocksOf(Thinking))
      BY <1>4, PickedFacts DEF ThinkingOf, OfKind
    <3> HIDE DEF cs
    <3> QED BY <2>1, <3>1, <3>2 DEF Message, Msg, cs
  <2>4. messages' = Append(messages, m) /\ todo' = cs /\ turns' = Append(turns, stream)
        /\ pc' = "tools"
    BY <1>7
  <2> HIDE DEF m, cs
  <2>5. Answers(messages, <<>>) BY <1>3 DEF TalkInv
  <2>6. messages' \in Seq(Msg) /\ Answers(messages', todo')
    BY <1>3, <2>1, <2>2, <2>3, <2>4, <2>5, AppendedMessage
  <2>7. turns' \in Seq(Seq(Answering(api))) /\ Len(turns') = Len(turns) + 1
        /\ Len(turns) \in Nat /\ DOMAIN turns = 1..Len(turns)
        /\ DOMAIN turns' = 1..(Len(turns) + 1)
        /\ turns'[Len(turns) + 1] = stream
        /\ \A k \in 1..Len(turns) : turns'[k] = turns[k]
    BY <1>4, <2>4, AppendProperties, LenProperties
  <2>8. Used' = Used + MaxBlocks /\ Used \in Nat /\ MaxBlocks \in Nat
    <3>1. Used' = MaxBlocks * (Len(turns) + 1) BY <2>7 DEF Used
    <3>2. MaxBlocks \in Nat BY ConversationConstants
    <3>3. MaxBlocks * (Len(turns) + 1) = MaxBlocks * Len(turns) + MaxBlocks BY <2>7, <3>2
    <3>4. MaxBlocks * Len(turns) \in Nat BY <2>7, <3>2
    <3> QED BY <3>1, <3>2, <3>3, <3>4 DEF Used
  <2>9. TalkTypes'
    <3>1. stream' \in Seq(Answering(api')) BY <1>1
    <3> QED BY <1>1, <1>2, <2>1, <2>4, <2>6, <2>7, <3>1 DEF TalkTypes
  <2>10. WholeInv'
    <3>1. \A i \in DOMAIN messages : Whole(messages[i].calls)
      BY <1>2 DEF WholeInv, OnlyWholeCalls, Whole
    <3>2. \A i \in DOMAIN messages' : Whole(messages'[i].calls)
      BY <1>3, <2>1, <2>2, <2>3, <2>4, <3>1, AppendedCalls
    <3> QED BY <1>1, <2>1, <2>4, <3>2 DEF WholeInv, OnlyWholeCalls, Whole
  <2>11. StreamInv' BY <1>1, ConversationConstants DEF StreamInv
  <2>12. IdInv'
    <3>1. /\ ToolsRise(messages)
          /\ \A i \in ToolAt(messages) : messages[i].of <= Used /\ messages[i].of \in Nat
      <4>1. \A i \in ToolAt(messages) : messages[i] \in Msg
        BY <1>3, ElementOfSeq, LenProperties DEF ToolAt
      <4> QED BY <1>2, <4>1, MsgFields DEF IdInv
    <3>2. /\ ToolsRise(messages')
          /\ \A i \in ToolAt(messages') : i \in ToolAt(messages) /\ messages'[i] = messages[i]
      BY <1>3, <2>2, <2>3, <2>4, <3>1, AppendedIds
    <3>3. \A k \in DOMAIN cs : cs[k].id \in Nat
      <4>1. \A k \in DOMAIN cs : cs[k] \in BlocksOf({"tool_use"})
        BY <2>1, ElementOfSeq, LenProperties DEF ToolUses
      <4> QED BY <4>1, KindOfBlock
    <3>4. \A i \in ToolAt(messages') :
             /\ messages'[i].of <= Used'
             /\ \A k \in DOMAIN cs : messages'[i].of < cs[k].id
      <4> SUFFICES ASSUME NEW i \in ToolAt(messages')
                   PROVE  /\ messages'[i].of <= Used'
                          /\ \A k \in DOMAIN cs : messages'[i].of < cs[k].id
        OBVIOUS
      <4> DEFINE o == messages'[i].of
      <4>1. o <= Used /\ o \in Nat BY <3>1, <3>2
      <4> HIDE DEF o
      <4>2. o <= Used' BY <2>8, <4>1
      <4>3. \A k \in DOMAIN cs : o < cs[k].id BY <2>1, <2>8, <3>3, <4>1
      <4> QED BY <4>2, <4>3 DEF o
    <3>5. \A k \in DOMAIN cs : cs[k].id <= Used' BY <2>1, <2>8
    <3> QED BY <2>1, <2>4, <3>2, <3>4, <3>5 DEF IdInv
  <2>13. TurnInv'
    <3> DEFINE ts == TurnsOf(messages)
    <3>1. ts \in Seq(Msg) /\ TurnsOf(messages') = Append(ts, m)
      BY <1>3, <2>2, <2>3, <2>4, AppendedTurn
    <3>2. Len(ts) = Len(turns) /\ \A k \in DOMAIN turns : Records(ts[k], turns[k])
      BY <1>2 DEF TurnInv
    <3> HIDE DEF ts
    <3>3. /\ Len(Append(ts, m)) = Len(turns) + 1
          /\ Append(ts, m)[Len(turns) + 1] = m
          /\ \A k \in 1..Len(turns) : Append(ts, m)[k] = ts[k]
      BY <2>3, <3>1, <3>2, AppendProperties
    <3>4. ASSUME NEW k \in DOMAIN turns' PROVE Records(Append(ts, m)[k], turns'[k])
      <4>1. CASE k \in 1..Len(turns)
        <5>1. Append(ts, m)[k] = ts[k] /\ turns'[k] = turns[k] BY <2>7, <3>3, <4>1
        <5>2. Records(ts[k], turns[k]) BY <2>7, <3>2, <4>1
        <5> QED BY <5>1, <5>2
      <4>2. CASE k = Len(turns) + 1
        <5>1. Append(ts, m)[k] = m /\ turns'[k] = stream BY <2>7, <3>3, <4>2
        <5> DEFINE x == Append(ts, m)[k]
                   y == turns'[k]
        <5>2. x = m /\ y = stream BY <5>1
        <5> HIDE DEF x, y
        <5>3. Records(x, y) BY <2>2, <5>2
        <5> QED BY <5>3 DEF x, y
      <4>3. k \in 1..Len(turns) \/ k = Len(turns) + 1 BY <2>7
      <4> QED BY <4>1, <4>2, <4>3
    <3> QED BY <2>7, <3>1, <3>3, <3>4 DEF TurnInv, Records
  <2>14. Placed' /\ TurnsEchoed' BY <2>4 DEF Placed, InPlace, TurnsEchoed
  <2> QED BY <2>6, <2>9, <2>10, <2>11, <2>12, <2>13, <2>14 DEF TalkInv
<1> QED BY <1>5, <1>6, <1>7

\* A result closes the first open call, whose id is above all before it.
LEMMA CallToolKeeps == TalkInv /\ CallTool => TalkInv'
<1> SUFFICES ASSUME TalkInv, CallTool PROVE TalkInv'
  OBVIOUS
<1> DEFINE m == Message("tool", TRUE, <<>>, <<>>, Head(todo).id)
           t == Tail(todo)
<1>1. /\ pc = "tools" /\ messages' = Append(messages, m) /\ todo' = t
      /\ pc' = IF Len(todo) > 1 THEN "tools" ELSE "ask"
      /\ api' = api /\ request' = request /\ offered' = offered
      /\ stream' = stream /\ turns' = turns
  BY DEF CallTool
<1>2. TalkTypes /\ IdInv /\ TurnInv /\ WholeInv /\ StreamInv /\ Answers(messages, todo)
  BY DEF TalkInv
<1>3. todo \in Seq(ToolUses) /\ todo # <<>> /\ messages \in Seq(Msg) BY <1>1, <1>2 DEF TalkTypes
<1>4. /\ Head(todo) = todo[1] /\ Len(todo) \in Nat \ {0} /\ DOMAIN todo = 1..Len(todo)
      /\ t \in Seq(ToolUses) /\ Len(t) = Len(todo) - 1 /\ DOMAIN t = 1..Len(t)
      /\ \A k \in 1..Len(t) : t[k] = todo[k + 1]
  BY <1>3, HeadTailProperties, LenProperties, EmptySeq
<1>5. todo[1].id \in Nat /\ todo[1].id <= Used
  <2>1. todo[1] \in ToolUses BY <1>3, <1>4, ElementOfSeq
  <2> QED BY <1>2, <1>4, <2>1, KindOfBlock DEF ToolUses, IdInv
<1>6. m.role = "tool" /\ m.of = todo[1].id /\ m.calls = <<>> BY <1>4 DEF Message
<1>7. m \in Msg
  <2>1. <<>> \in Seq(BlocksOf(Thinking)) /\ <<>> \in Seq(ToolUses) OBVIOUS
  <2> QED BY <1>4, <1>5, <2>1 DEF Message, Msg
<1> HIDE DEF m
<1>8. messages' \in Seq(Msg) /\ Answers(messages', t)
  BY <1>1, <1>2, <1>3, <1>4, <1>6, <1>7, AppendedResult
<1>9. t # <<>> <=> Len(todo) > 1
  <2> HIDE DEF t
  <2>1. t = <<>> <=> Len(t) = 0 BY <1>4, EmptySeq
  <2> QED BY <1>4, <2>1
<1> HIDE DEF t
<1>10. ASSUME NEW k \in DOMAIN t
       PROVE  /\ k + 1 \in DOMAIN todo /\ t[k] = todo[k + 1] /\ 1 < k + 1 /\ 1 \in DOMAIN todo
              /\ k \in Nat
  BY <1>4
<1>11. TalkTypes'
  <2>1. pc' \in {"tools", "ask"} /\ (pc' = "tools" <=> t # <<>>) BY <1>1, <1>9
  <2> QED BY <1>1, <1>2, <1>4, <1>8, <2>1 DEF TalkTypes
<1>12. WholeInv'
  <2>1. \A i \in DOMAIN messages : Whole(messages[i].calls)
    BY <1>2 DEF WholeInv, OnlyWholeCalls, Whole
  <2>2. Whole(m.calls) BY <1>6 DEF Whole
  <2>3. \A i \in DOMAIN messages' : Whole(messages'[i].calls)
    BY <1>1, <1>3, <1>7, <2>1, <2>2, AppendedCalls
  <2>4. \A k \in DOMAIN t : ~t[k].cut BY <1>2, <1>10 DEF WholeInv, OnlyWholeCalls
  <2>5. Whole(stream') BY <1>1, <1>2 DEF WholeInv
  <2> QED BY <1>1, <2>3, <2>4, <2>5 DEF WholeInv, OnlyWholeCalls, Whole
<1>13. StreamInv' BY <1>1, <1>2 DEF StreamInv, Used
<1>14. IdInv'
  <2>1. Used' = Used BY <1>1 DEF Used
  <2>2. /\ ToolsRise(messages) /\ Rising(todo)
        /\ \A k \in DOMAIN todo : todo[k].id <= Used
        /\ \A i \in ToolAt(messages) :
              /\ messages[i].of <= Used
              /\ \A k \in DOMAIN todo : messages[i].of < todo[k].id
    BY <1>2 DEF IdInv
  <2>3. \A i \in ToolAt(messages) : messages[i].of < m.of BY <1>4, <1>6, <2>2
  <2>4. /\ ToolsRise(messages')
        /\ \A i \in ToolAt(messages') :
              \/ i \in ToolAt(messages) /\ messages'[i] = messages[i]
              \/ messages'[i] = m
    BY <1>1, <1>3, <1>7, <2>2, <2>3, AppendedIds
  <2>5. \A k \in DOMAIN t : t[k].id <= Used /\ todo[1].id < t[k].id
    BY <1>10, <2>2 DEF Rising
  <2>6. Rising(t)
    <3> SUFFICES ASSUME NEW i \in DOMAIN t, NEW j \in DOMAIN t, i < j
                 PROVE  t[i].id < t[j].id
      BY DEF Rising
    <3>1. i + 1 < j + 1 BY <1>10
    <3> QED BY <1>10, <2>2, <3>1 DEF Rising
  <2>7. ASSUME NEW i \in ToolAt(messages')
        PROVE  messages'[i].of <= Used /\ \A k \in DOMAIN t : messages'[i].of < t[k].id
    <3>1. CASE i \in ToolAt(messages) /\ messages'[i] = messages[i] BY <1>10, <2>2, <3>1
    <3>2. CASE messages'[i] = m BY <1>5, <1>6, <2>5, <3>2
    <3> QED BY <2>4, <3>1, <3>2
  <2> QED BY <1>1, <2>1, <2>4, <2>5, <2>6, <2>7 DEF IdInv
<1>15. TurnInv'
  <2>1. TurnsOf(messages') = TurnsOf(messages) BY <1>1, <1>3, <1>6, <1>7, AppendedTurn
  <2> QED BY <1>1, <1>2, <2>1 DEF TurnInv, Records
<1>16. Placed' /\ TurnsEchoed' BY <1>1 DEF Placed, InPlace, TurnsEchoed
<1> QED BY <1>1, <1>8, <1>11, <1>12, <1>13, <1>14, <1>15, <1>16 DEF TalkInv

\* Nothing changes.
LEMMA StutterKeeps == TalkInv /\ UNCHANGED vars => TalkInv'
<1> SUFFICES ASSUME TalkInv, UNCHANGED vars PROVE TalkInv'
  OBVIOUS
<1>1. /\ api' = api /\ pc' = pc /\ messages' = messages /\ request' = request
      /\ offered' = offered /\ stream' = stream /\ todo' = todo /\ turns' = turns
  BY DEF vars
<1>2. TalkTypes' BY <1>1 DEF TalkInv, TalkTypes
<1>3. WholeInv' /\ StreamInv' BY <1>1 DEF TalkInv, WholeInv, OnlyWholeCalls, StreamInv, Used
<1>4. IdInv' BY <1>1 DEF TalkInv, IdInv, Used
<1>5. TurnInv' /\ Answers(messages', todo') BY <1>1 DEF TalkInv, TurnInv
<1>6. Placed' BY <1>1 DEF TalkInv, Placed, InPlace
<1>7. TurnsEchoed' BY <1>1 DEF TalkInv, TurnsEchoed, Assistants
<1> QED BY <1>2, <1>3, <1>4, <1>5, <1>6, <1>7 DEF TalkInv

\* Every step keeps the invariant.
LEMMA StepKeeps == TalkInv /\ [Next]_vars => TalkInv'
<1>1. TalkInv /\ Next => TalkInv'
  BY AskKeeps, BlockKeeps, FailKeeps, CompleteKeeps, CallToolKeeps, WrapUpKeeps DEF Next
<1> QED BY <1>1, StutterKeeps

\* So it always holds.
LEMMA TalkHolds == Spec => []TalkInv
  BY InitHolds, StepKeeps, PTL DEF Spec

----------------------------------------------------------------------------
(* Turns alternate, but for the message that wraps up.                     *)

\* User messages: the first of the run, and the last once the agent wraps up,
\* after which no call is made.
RoleInv ==
    /\ \A i \in DOMAIN messages : messages[i].role = "user" =>
          i = 1 \/ (i = Len(messages) /\ ~offered)
    /\ pc = "tools" => offered
    /\ pc = "answer" /\ ~offered => \A k \in DOMAIN stream : stream[k].kind # "tool_use"

TurnsAlternate == pc = "answer" => Alternates

\* Two messages of a request in a row with the same role: both are made of the
\* agent's user messages or of results, and results come after their turn only.
LEMMA AskAlternates ==
    ASSUME messages \in Seq(Msg), Answers(messages, <<>>), RoleInv,
           api' = "anthropic", request' = ForAnthropic(messages), offered' = offered
    PROVE  Alternates'
<1> DEFINE ms == messages
           n == Len(ms)
           at == At(n, Begins(ms))
           rq == request'
<1>1. /\ at \in Seq(Nat) /\ InOrder(at)
      /\ \A k \in DOMAIN at : at[k] \in Begins(ms) /\ at[k] \in DOMAIN ms
      /\ \A i \in Begins(ms) : \E k \in DOMAIN at : at[k] = i
      /\ rq = [k \in 1..Len(at) |-> AnthropicMessage(ms, at[k])]
      /\ DOMAIN at = 1..Len(at) /\ Len(at) \in Nat
  BY AnthropicAt
<1>2. n \in Nat /\ DOMAIN ms = 1..n BY LenProperties
<1> HIDE DEF at
<1>3. /\ Len(rq) = Len(at)
      /\ \A k \in DOMAIN at :
            rq[k].role = "assistant" <=> ms[at[k]].role = "assistant"
  <2>1. rq = [k \in 1..Len(at) |-> AnthropicMessage(ms, at[k])] /\ Len(at) \in Nat BY <1>1
  <2> HIDE DEF rq
  <2>2. Len(rq) = Len(at) BY <2>1
  <2>3. ASSUME NEW k \in DOMAIN at
        PROVE  rq[k].role = "assistant" <=> ms[at[k]].role = "assistant"
    <3>1. at[k] \in DOMAIN ms /\ rq[k] = AnthropicMessage(ms, at[k]) BY <1>1, <2>1
    <3>2. ms \in Seq(Msg) /\ Answers(ms, <<>>) OBVIOUS
    <3> HIDE DEF ms
    <3>3. AnthropicMessage(ms, at[k]).role = "assistant" <=> ms[at[k]].role = "assistant"
      BY <3>1, <3>2, AnthropicForms
    <3> QED BY <3>1, <3>3
  <2> QED BY <2>2, <2>3
<1> HIDE DEF rq, n
<1> SUFFICES ASSUME NEW i \in 2..Len(at), rq[i].role = rq[i - 1].role
             PROVE  ~offered /\ i = Len(at)
  BY <1>3 DEF Alternates, WrapUpMessage, rq
<1> DEFINE p == at[i - 1]
           q == at[i]
<1>4. /\ i \in DOMAIN at /\ i - 1 \in DOMAIN at /\ i \in Nat /\ i - 1 < i
      /\ p \in 1..n /\ q \in 1..n /\ p < q /\ p \in Begins(ms) /\ q \in Begins(ms)
  <2>1. i \in DOMAIN at /\ i - 1 \in DOMAIN at /\ i \in Nat /\ i - 1 < i BY <1>1
  <2> QED BY <1>1, <1>2, <2>1 DEF InOrder
<1>5. ASSUME NEW b \in Begins(ms), b < q PROVE b <= p
  <2>1. PICK k \in DOMAIN at : at[k] = b BY <1>1
  <2>2. k \in Nat /\ b \in Nat /\ p \in Nat /\ q \in Nat BY <1>1, <1>2, <1>4, <2>1
  <2>3. k < i
    <3>1. k # i BY <1>5, <2>1, <2>2
    <3>2. ~(i < k)
      <4> SUFFICES ASSUME i < k PROVE FALSE OBVIOUS
      <4>1. q < b BY <1>1, <1>4, <2>1 DEF InOrder
      <4> HIDE DEF q
      <4> QED BY <1>5, <2>2, <4>1
    <3> QED BY <1>4, <2>2, <3>1, <3>2
  <2>4. k = i - 1 \/ k < i - 1 BY <1>4, <2>2, <2>3
  <2>5. CASE k = i - 1 BY <2>1, <2>2, <2>5
  <2>6. CASE k < i - 1
    <3>1. b < p BY <1>1, <1>4, <2>1, <2>6 DEF InOrder
    <3> HIDE DEF p
    <3> QED BY <2>2, <3>1
  <2> QED BY <2>4, <2>5, <2>6
<1>6. ms[p].role = "assistant" <=> ms[q].role = "assistant" BY <1>3, <1>4
<1>7. \A x \in 1..n : ms[x] \in Msg /\ ms[x].role \in {"user", "assistant", "tool"}
  BY <1>2, ElementOfSeq, MsgFields DEF n
<1> HIDE DEF p, q
\* The results of a turn come right after it.
<1>8. ms[p].role # "assistant"
  <2> SUFFICES ASSUME ms[p].role = "assistant" PROVE FALSE
    OBVIOUS
  <2>1. ms[p].calls # <<>> /\ ms[p].calls \in Seq(ToolUses)
    BY <1>2, <1>4, <1>7, MsgFields DEF Answers
  <2>2. 1 \in DOMAIN ms[p].calls BY <2>1, EmptySeq, LenProperties
  <2>3. p + 1 \in 1..n /\ p + 1 <= n BY <1>2, <1>4
  <2>4. ms[p + 1].role = "tool" BY <1>2, <1>4, <2>2, <2>3 DEF Answers, n
  <2>5. p + 1 # q BY <1>6, <2>4
  <2>6. p + 1 < q BY <1>2, <1>4, <2>5
  <2>7. p + 1 \in Begins(ms)
    <3>1. (p + 1) - 1 = p BY <1>2, <1>4
    <3> QED BY <1>2, <2>3, <3>1 DEF Begins
  <2>8. p + 1 <= p BY <1>5, <2>6, <2>7
  <2> QED BY <1>2, <1>4, <2>8
<1>9. ms[q].role # "tool"
  <2> SUFFICES ASSUME ms[q].role = "tool" PROVE FALSE
    OBVIOUS
  <2>1. q \in ToolAt(ms) BY <1>2, <1>4 DEF ToolAt
  <2>2. PICK x \in 1..(q - 1) :
           ms[x].role = "assistant" /\ q <= x + Len(ms[x].calls)
    BY <2>1 DEF Answers
  <2>3. x \in Nat /\ q \in Nat /\ x \in 1..n /\ x < q BY <1>2, <1>4, <2>2
  <2>4. ms[x].calls \in Seq(ToolUses) BY <1>7, <2>3, MsgFields
  <2>5. Len(ms[x].calls) \in Nat /\ DOMAIN ms[x].calls = 1..Len(ms[x].calls)
    BY <2>4, LenProperties
  <2>6. x = q - 1
    <3> SUFFICES ASSUME x # q - 1 PROVE FALSE
      OBVIOUS
    <3> DEFINE k == q - 1 - x
    <3>1. k \in DOMAIN ms[x].calls /\ x + k = q - 1 /\ x + k <= n
      BY <1>2, <1>4, <2>2, <2>3, <2>5
    <3> HIDE DEF k
    <3>2. ms[x + k].role = "tool" BY <1>2, <2>2, <2>3, <3>1 DEF Answers, n
    <3>3. ms[q - 1].role = "tool" /\ q # 1 BY <2>3, <3>1, <3>2
    <3> QED BY <1>4, <2>1, <3>3 DEF Begins, ToolAt
  <2>7. x \in Begins(ms) BY <1>2, <2>2, <2>3 DEF Begins
  <2>8. x <= p BY <1>5, <2>3, <2>7
  <2>9. x = p BY <1>2, <1>4, <2>3, <2>6, <2>8
  <2> QED BY <1>8, <2>2, <2>9
<1>10. ms[q].role = "user" BY <1>4, <1>6, <1>7, <1>8, <1>9
<1>11. q # 1 BY <1>2, <1>4
<1>12. q = n /\ ~offered BY <1>2, <1>4, <1>10, <1>11 DEF RoleInv, n
<1>13. i = Len(at)
  <2> SUFFICES ASSUME i # Len(at) PROVE FALSE
    OBVIOUS
  <2>1. i + 1 \in DOMAIN at /\ i < i + 1
    <3>1. DOMAIN at = 1..Len(at) /\ Len(at) \in Nat BY <1>1
    <3> DEFINE l == Len(at)
    <3>2. l \in Nat /\ i \in 2..l /\ i # l BY <3>1
    <3> HIDE DEF l
    <3>3. i + 1 \in 1..l /\ i < i + 1 BY <3>2
    <3> QED BY <3>1, <3>3 DEF l
  <2>2. q < at[i + 1] /\ at[i + 1] \in 1..n BY <1>1, <1>2, <1>4, <2>1 DEF InOrder, q
  <2> QED BY <1>2, <1>12, <2>2
<1> QED BY <1>12, <1>13

\* Appending a message that is not the user's.
LEMMA RolesKept ==
    ASSUME messages \in Seq(Msg), NEW m, m.role # "user",
           RoleInv, offered, messages' = Append(messages, m)
    PROVE  \A i \in DOMAIN messages' : messages'[i].role = "user" => i = 1
<1>1. /\ DOMAIN messages' = 1..(Len(messages) + 1)
      /\ \A i \in 1..Len(messages) : messages'[i] = messages[i]
      /\ messages'[Len(messages) + 1] = m
      /\ Len(messages) \in Nat /\ DOMAIN messages = 1..Len(messages)
  BY LenProperties
<1> SUFFICES ASSUME NEW i \in DOMAIN messages', messages'[i].role = "user"
             PROVE  i = 1
  OBVIOUS
<1>2. CASE i \in 1..Len(messages) BY <1>1, <1>2 DEF RoleInv
<1>3. CASE i = Len(messages) + 1 BY <1>1, <1>3
<1> QED BY <1>1, <1>2, <1>3

\* Appending the message that wraps up.
LEMMA RolesEnd ==
    ASSUME messages \in Seq(Msg), RoleInv, offered,
           messages' = Append(messages, User), ~offered'
    PROVE  \A i \in DOMAIN messages' : messages'[i].role = "user" =>
              i = 1 \/ (i = Len(messages') /\ ~offered')
<1>1. /\ Len(messages') = Len(messages) + 1 /\ DOMAIN messages' = 1..(Len(messages) + 1)
      /\ \A i \in 1..Len(messages) : messages'[i] = messages[i]
      /\ Len(messages) \in Nat /\ DOMAIN messages = 1..Len(messages)
  BY UserMessage, AppendProperties, LenProperties
<1> SUFFICES ASSUME NEW i \in DOMAIN messages', messages'[i].role = "user",
                    i # Len(messages')
             PROVE  i = 1
  OBVIOUS
<1>2. i \in 1..Len(messages) BY <1>1
<1> QED BY <1>1, <1>2 DEF RoleInv

LEMMA RolesStep == TalkInv /\ RoleInv /\ [Next]_vars => RoleInv'
<1> SUFFICES ASSUME TalkInv, RoleInv, [Next]_vars PROVE RoleInv'
  OBVIOUS
<1>1. messages \in Seq(Msg) /\ stream \in Seq(Answering(api)) /\ offered \in BOOLEAN
  BY DEF TalkInv, TalkTypes
<1>2. CASE Ask \/ UNCHANGED vars
  BY <1>2 DEF Ask, vars, RoleInv
<1>3. CASE Block
  <2>1. PICK kind \in Kinds(api) :
           /\ kind = "tool_use" => offered
           /\ stream' = Append(stream, [kind |-> kind, id |-> Fresh, cut |-> FALSE])
    BY <1>3 DEF Block
  <2>2. UNCHANGED <<pc, messages, offered>> /\ pc = "answer" BY <1>3 DEF Block
  <2>3. ASSUME ~offered, NEW k \in DOMAIN stream' PROVE stream'[k].kind # "tool_use"
    <3> DEFINE b == [kind |-> kind, id |-> Fresh, cut |-> FALSE]
    <3>1. b.kind # "tool_use" BY <2>1, <2>3
    <3> HIDE DEF b
    <3>2. stream' = Append(stream, b) BY <2>1 DEF b
    <3>3. /\ DOMAIN stream' = 1..(Len(stream) + 1) /\ Len(stream) \in Nat
          /\ \A i \in 1..Len(stream) : stream'[i] = stream[i]
          /\ stream'[Len(stream) + 1] = b /\ DOMAIN stream = 1..Len(stream)
      BY <1>1, <3>2, LenProperties
    <3>4. CASE k \in 1..Len(stream) BY <2>2, <2>3, <3>3, <3>4 DEF RoleInv
    <3>5. CASE k = Len(stream) + 1 BY <3>1, <3>3, <3>5
    <3> QED BY <3>3, <3>4, <3>5
  <2> QED BY <2>2, <2>3 DEF RoleInv
<1>4. CASE Fail \/ WrapUp
  <2>1. pc' # "answer" /\ pc' # "tools" BY <1>4 DEF Fail, WrapUp
  <2>2. \/ UNCHANGED <<messages, offered>>
        \/ offered /\ ~offered' /\ messages' = Append(messages, User)
    BY <1>4 DEF Fail, WrapUp
  <2>3. CASE UNCHANGED <<messages, offered>> BY <2>1, <2>3 DEF RoleInv
  <2>4. CASE offered /\ ~offered' /\ messages' = Append(messages, User)
    BY <1>1, <2>1, <2>4, RolesEnd DEF RoleInv
  <2> QED BY <2>2, <2>3, <2>4
<1>5. CASE Complete
  <2>1. PICK reason \in Reasons(api) : \E blocks \in Ended(reason) :
           IF FinishReason(reason) = "stop" \/ CallsOf(blocks) = <<>>
             THEN pc' = "report" /\ messages' = messages
             ELSE /\ pc' = "tools"
                  /\ messages' = Append(messages, Message("assistant", TextOf(blocks),
                         ThinkingOf(blocks), Kept(CallsOf(blocks)), 0))
    BY <1>5 DEF Complete
  <2>2. pc = "answer" /\ offered' = offered BY <1>5 DEF Complete
  <2>3. CASE pc' = "report" /\ messages' = messages BY <2>2, <2>3 DEF RoleInv
  <2>4. CASE /\ FinishReason(reason) = "tool_call" /\ CallsOf(stream) # <<>> /\ pc' = "tools"
             /\ messages' = Append(messages, Message("assistant", TextOf(stream),
                    ThinkingOf(stream), Kept(CallsOf(stream)), 0))
    <3>1. offered
      <4> SUFFICES ASSUME ~offered PROVE FALSE
        BY <1>1
      <4>1. \A k \in DOMAIN stream : stream[k] \notin BlocksOf({"tool_use"})
        BY <2>2 DEF RoleInv, BlocksOf
      <4> QED BY <1>1, <2>4, <4>1, PickedNone DEF CallsOf, OfKind
    <3> DEFINE m == Message("assistant", TextOf(stream), ThinkingOf(stream),
                            Kept(CallsOf(stream)), 0)
    <3>2. m.role # "user" BY DEF Message
    <3> HIDE DEF m
    <3>3. messages' = Append(messages, m) BY <2>4 DEF m
    <3>4. \A i \in DOMAIN messages' : messages'[i].role = "user" => i = 1
      BY <1>1, <3>1, <3>2, <3>3, RolesKept
    <3> QED BY <2>2, <2>4, <3>1, <3>4 DEF RoleInv
  <2>5. FinishReason(reason) \in {"stop", "tool_call"} BY DEF FinishReason
  <2>6. FinishReason(reason) = "tool_call" => Ended(reason) = {stream}
    BY CutsAreNoCalls
  <2> QED BY <2>1, <2>3, <2>4, <2>5, <2>6
<1>6. CASE CallTool
  <2> DEFINE m == Message("tool", TRUE, <<>>, <<>>, Head(todo).id)
  <2>1. /\ pc = "tools" /\ offered' = offered /\ messages' = Append(messages, m)
        /\ pc' # "answer"
    BY <1>6 DEF CallTool
  <2>2. m.role # "user" BY DEF Message
  <2> HIDE DEF m
  <2>3. offered BY <2>1 DEF RoleInv
  <2>4. \A i \in DOMAIN messages' : messages'[i].role = "user" => i = 1
    BY <1>1, <2>1, <2>2, <2>3, RolesKept
  <2> QED BY <2>1, <2>3, <2>4 DEF RoleInv
<1> QED BY <1>2, <1>3, <1>4, <1>5, <1>6 DEF Next

LEMMA AlternateStep ==
    TalkInv /\ RoleInv /\ TurnsAlternate /\ [Next]_vars => TurnsAlternate'
<1> SUFFICES ASSUME TalkInv, RoleInv, TurnsAlternate, [Next]_vars PROVE TurnsAlternate'
  OBVIOUS
<1>1. CASE Ask
  <2>1. /\ request' = Convert(messages) /\ api' = api /\ offered' = offered
        /\ todo = <<>> /\ messages \in Seq(Msg) /\ Answers(messages, <<>>)
    <3>1. /\ request' = Convert(messages) /\ api' = api /\ offered' = offered
          /\ pc = "ask"
      BY <1>1 DEF Ask
    <3>2. todo = <<>> /\ messages \in Seq(Msg) BY <3>1 DEF TalkInv, TalkTypes
    <3> QED BY <3>1, <3>2 DEF TalkInv
  <2>2. CASE api = "anthropic"
    <3>1. request' = ForAnthropic(messages) BY <2>1, <2>2 DEF Convert
    <3>2. Alternates' BY <2>1, <2>2, <3>1, AskAlternates
    <3> QED BY <3>2 DEF TurnsAlternate
  <2>3. CASE api # "anthropic" BY <2>1, <2>3 DEF TurnsAlternate, Alternates
  <2> QED BY <2>2, <2>3
<1>2. CASE Block \/ UNCHANGED vars
  BY <1>2 DEF Block, vars, TurnsAlternate, Alternates, WrapUpMessage
<1>3. CASE Fail \/ Complete \/ CallTool \/ WrapUp
  BY <1>3 DEF Fail, Complete, CallTool, WrapUp, TurnsAlternate
<1> QED BY <1>1, <1>2, <1>3 DEF Next

LEMMA RolesInit == Init => RoleInv /\ TurnsAlternate
<1> SUFFICES ASSUME Init PROVE RoleInv /\ TurnsAlternate
  OBVIOUS
<1>1. messages = <<User>> /\ pc = "ask" BY DEF Init
<1>2. \A i \in DOMAIN messages : i = 1 BY <1>1
<1> QED BY <1>1, <1>2 DEF RoleInv, TurnsAlternate

LEMMA RolesHold == Spec => [](TalkInv /\ RoleInv /\ TurnsAlternate)
  BY InitHolds, StepKeeps, RolesInit, RolesStep, AlternateStep, PTL DEF Spec

----------------------------------------------------------------------------
(* Theorems.                                                               *)

\* Every request has the form the code and the docs say the APIs ask for: no
\* message is empty, the results that follow a turn are those of its calls, each
\* once and in their places, and in Anthropic's user and assistant take turns but
\* for the message that wraps up (convertMessages of Anthropic, convertMessage of
\* OpenAI, and the loop of the agent).
THEOREM EveryRequestAccepted == Spec => []Accepted
<1>1. TalkInv /\ TurnsAlternate => Accepted
  BY DEF TalkInv, Placed, TurnsAlternate, Accepted
<1> QED BY <1>1, RolesHold, PTL

\* Every request of a run has all turns that called tools, with their reasoning
\* first and unchanged and with the calls that were made (ThinkingBlock in llm.go).
THEOREM TurnsComeBack == Spec => []TurnsEchoed
<1>1. TalkInv => TurnsEchoed BY DEF TalkInv
<1> QED BY <1>1, TalkHolds, PTL

\* A call whose arguments may have been cut off is never made nor sent back: an
\* answer that ran out of tokens, or whose stream broke, leads to none
\* (mapStopReason, mapFinishReason).
THEOREM NoCutCall == Spec => []OnlyWholeCalls
<1>1. TalkInv => OnlyWholeCalls BY DEF TalkInv, WholeInv
<1> QED BY <1>1, TalkHolds, PTL
=============================================================================
