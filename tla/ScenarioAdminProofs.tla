------------------------ MODULE ScenarioAdminProofs ------------------------
(***************************************************************************)
(* Proofs about ScenarioAdmin, for any number of editors, scenarios,       *)
(* labels, requests and failing queries.                                   *)
(*                                                                         *)
(* The operators come first: least and greatest positions, the name of a   *)
(* copy, Listings, Pick (elements of a sequence by their rank) and Reorder. *)
(* Then four invariants, each with what its properties need:               *)
(*                                                                         *)
(* TypeInv   the table, the cache and what each request has in hand; an    *)
(*           entry of a file has an id only from its lookup to its update  *)
(* CaughtInv a fresh cache that has missed no write lists the table, and   *)
(*           an answer to a probe from such a cache was right for the      *)
(*           table that a quiet request began with                         *)
(* LoadInv   an import has loaded the entries it has come past             *)
(* OrderInv  a move has written the first rows of its plan and has the     *)
(*           others in hand                                                *)
(*                                                                         *)
(* HistoryInv, what op, before, quiet, clean and misled say, is part of    *)
(* the last three.  A step is one of a handler (Acts) or of the cache      *)
(* alone (Stir); Bystander and HistoryWithin deal once with the requests   *)
(* that a handler's step is not about.                                     *)
(***************************************************************************)
EXTENDS ScenarioAdmin, SequenceTheorems, FiniteSetTheorems,
        WellFoundedInduction, TLAPS

\* Rows of a file have no id yet; rows that a handler has read, or has made, have
\* none or one that was given out.
Entry == {r \in Row : r.id = 0}
Known == {r \in Row : r.id < nextId}

TableInv ==
    /\ IsFiniteSet(table)
    /\ nextId \in Nat \ {0}
    /\ \A r \in table : r \in Row /\ r.id \in 1..(nextId - 1)
    /\ \A r, s \in table : r.id = s.id \/ r.name = s.name => r = s

\* Places: of those in Holding the handler has rows in hand.
Holding == {"form", "save", "find", "lookup", "update", "create"}
Places == Holding \union {"idle", "resolve", "answer"}
CacheTypes ==
    /\ cache \in Seq(Row) /\ loading \in SUBSET Seq(Row)
    /\ fresh \in BOOLEAN /\ missed \in BOOLEAN
    /\ unsaid \in SUBSET (Editors \ away)
    /\ troubles \in 0..MaxTroubles
HandlerTypes ==
    /\ file \in Seq(Entry)
    /\ pc \in [Editors -> Places]
    /\ todo \in [Editors -> Seq(Known)]
    /\ requests \in 0..MaxRequests

\* What an editor has in hand: an entry of a file gets an id only at its update.
HandOK(place, rows) ==
    /\ place \in Holding => rows # <<>>
    /\ place \in {"find", "lookup", "create"} => rows \in Seq(Entry)
    /\ place = "update" => Tail(rows) \in Seq(Entry)
HandInv == \A e \in Editors : HandOK(pc[e], todo[e])

TypeInv == TableInv /\ CacheTypes /\ HandlerTypes /\ HandInv

----------------------------------------------------------------------------
(* Rows and their names.                                                   *)

\* A row with another id has everything else as it was.
LEMMA IdOfRow ==
    ASSUME NEW r \in Row, NEW n \in Nat
    PROVE  LET s == [r EXCEPT !.id = n] IN
           /\ s \in Row /\ s.id = n /\ s.name = r.name /\ s.match = r.match
           /\ s.body = r.body /\ s.order = r.order
  BY DEF Row

LEMMA OrderOfRow ==
    ASSUME NEW r \in Row, NEW n \in Nat
    PROVE  LET s == [r EXCEPT !.order = n] IN
           /\ s \in Row /\ s.id = r.id /\ s.name = r.name /\ s.match = r.match
           /\ s.body = r.body /\ s.order = n
  BY DEF Row

\* A set of numbers that is not empty has a least one.
LEMMA LeastOf ==
    ASSUME NEW S \in SUBSET Nat, S # {}
    PROVE  Min(S) \in S /\ \A j \in S : Min(S) <= j
<1>1. PICK i \in S : \A j \in S : ~(<<j, i>> \in OpToRel(<, Nat))
  BY WFMin, NatLessThanWellFounded, Zenon
<1>2. ASSUME NEW j \in S, ~(i <= j) PROVE FALSE
  <2>1. i \in Nat /\ j \in Nat /\ j < i BY <1>2
  <2>2. <<j, i>> \in OpToRel(<, Nat) BY <2>1 DEF OpToRel
  <2> QED BY <1>1, <2>2
<1>3. \E x \in S : \A y \in S : x <= y BY <1>2
<1> QED BY <1>3 DEF Min

\* A set of numbers up to n that is not empty has a greatest one.
LEMMA GreatestOf ==
    ASSUME NEW n \in Nat, NEW S \in SUBSET (0..n), S # {}
    PROVE  Max(S) \in S /\ \A j \in S : j <= Max(S)
<1> DEFINE T == {n - i : i \in S}
<1>1. T \in SUBSET Nat /\ T # {}
  <2>1. \A i \in S : n - i \in Nat OBVIOUS
  <2> QED BY <2>1
<1>2. PICK t \in T : \A u \in T : t <= u BY <1>1, LeastOf
<1>3. PICK m \in S : t = n - m BY <1>2
<1>4. \A j \in S : j <= m
  <2> SUFFICES ASSUME NEW j \in S PROVE j <= m OBVIOUS
  <2>1. t <= n - j BY <1>2
  <2> QED BY <1>3, <2>1
<1>5. \E x \in S : \A y \in S : x >= y BY <1>3, <1>4
<1> QED BY <1>5 DEF Max

\* Of the numbers that copyName tries, one more than there are rows, one is free.
LEMMA CopyIsName ==
    ASSUME NEW rows, IsFiniteSet(rows), NEW base \in Seq(Nat)
    PROVE  /\ CopyName(base, rows) \in Seq(Nat)
           /\ Named(rows, CopyName(base, rows)) = {}
<1> DEFINE n == Cardinality(rows)
           K == 1..(n + 1)
           Free == {k \in K : Named(rows, Append(base, k)) = {}}
<1>1. n \in Nat BY FS_CardinalityType
<1> HIDE DEF n
<1>2. Free # {}
  <2> SUFFICES ASSUME Free = {} PROVE FALSE OBVIOUS
  <2>1. \A k \in K : \E r \in rows : r.name = Append(base, k) BY DEF Named
  <2> DEFINE f == [k \in K |-> CHOOSE r \in rows : r.name = Append(base, k)]
  <2>2. \A k \in K : f[k] \in rows /\ f[k].name = Append(base, k) BY <2>1
  <2>3. f \in [K -> rows] BY <2>2
  <2> HIDE DEF f
  <2>4. IsFiniteSet(K) /\ Cardinality(K) = n + 1 BY <1>1, FS_Interval
  <2>5. n < Cardinality(K) BY <1>1, <2>4
  <2> HIDE DEF K
  <2>6. PICK i, j \in K : i # j /\ f[i] = f[j]
    <3>1. IsFiniteSet(rows) /\ Cardinality(rows) < Cardinality(K) BY <2>5 DEF n
    <3> QED BY <2>3, <2>4, <3>1, FS_PigeonHole
  <2>7. Append(base, i) = Append(base, j) BY <2>2, <2>6
  <2>8. i \in Nat /\ j \in Nat BY <1>1 DEF K
  <2> QED BY <2>6, <2>7, <2>8, AppendInjective
<1>3. Min(Free) \in Free
  <2>1. Free \in SUBSET Nat BY <1>1
  <2> HIDE DEF Free
  <2> QED BY <1>2, <2>1, LeastOf
<1>4. CopyName(base, rows) = Append(base, Min(Free)) BY DEF CopyName, n
<1>5. Min(Free) \in Nat /\ Named(rows, Append(base, Min(Free))) = {}
  <2>1. \A k \in Free : k \in Nat /\ Named(rows, Append(base, k)) = {} BY <1>1
  <2> HIDE DEF Free
  <2> QED BY <1>3, <2>1
<1> HIDE DEF Free
<1>6. Append(base, Min(Free)) \in Seq(Nat) BY <1>5, AppendProperties
<1> QED BY <1>4, <1>5, <1>6

----------------------------------------------------------------------------
(* Listings, and picking from them.                                        *)

\* A listing holds each row of the table once, in the order of the positions.
LEMMA ListingFacts ==
    ASSUME NEW rows, IsFiniteSet(rows), \A r \in rows : r \in Row,
           NEW q \in Listings(rows)
    PROVE  /\ q \in Seq(rows) /\ q \in Seq(Row)
           /\ Len(q) = Cardinality(rows) /\ Len(q) \in Nat
           /\ \A r \in rows : \E i \in DOMAIN q : q[i] = r
           /\ \A i, j \in DOMAIN q : q[i] = q[j] => i = j
           /\ \A i, j \in DOMAIN q : i <= j => q[i].order <= q[j].order
<1> DEFINE n == Cardinality(rows)
<1>1. n \in Nat BY FS_CardinalityType
<1>2. /\ q \in [1..n -> rows]
      /\ \A i, j \in 1..n : i # j => q[i] # q[j]
      /\ \A i \in 1..(Len(q) - 1) : q[i].order <= q[i + 1].order
  BY DEF Listings, SetToSeqs
<1> HIDE DEF n
<1>3. q \in Seq(rows) /\ Len(q) = n BY <1>1, <1>2
<1>4. q \in Seq(Row) BY <1>3
<1>5. q \in Injection(1..n, rows) BY <1>2 DEF Injection, IsInjective
<1>6. Cardinality(1..n) = n BY <1>1, FS_Interval
<1>7. q \in Surjection(1..n, rows) BY <1>5, <1>6, FS_Injection DEF n
<1>8. \A r \in rows : \E i \in 1..n : q[i] = r BY <1>7 DEF Surjection
<1>9. ASSUME NEW i \in 1..n, NEW j \in 1..n, i <= j
      PROVE  q[i].order <= q[j].order
  <2> DEFINE Bad == {k \in 1..n : i <= k /\ ~(q[i].order <= q[k].order)}
  <2> SUFFICES ASSUME Bad # {} PROVE FALSE BY <1>9
  <2>1. Bad \in SUBSET Nat BY <1>1
  <2>2. PICK k \in Bad : \A l \in Bad : k <= l
    <3> HIDE DEF Bad
    <3> QED BY <2>1, LeastOf
  <2>3. \A l \in 1..n : q[l].order \in Nat BY <1>2 DEF Row
  <2>4. k # i BY <2>2, <2>3
  <2>5. k - 1 \in 1..n /\ i <= k - 1 /\ k - 1 \notin Bad BY <1>1, <2>2, <2>4
  <2>6. q[i].order <= q[k - 1].order BY <2>5
  <2>7. q[k - 1].order <= q[(k - 1) + 1].order BY <1>1, <1>2, <1>3, <2>2, <2>5
  <2>8. (k - 1) + 1 = k BY <1>1, <2>2
  <2>9. k \in 1..n BY <2>2
  <2> QED BY <2>2, <2>3, <2>5, <2>6, <2>7, <2>8, <2>9
<1>10. DOMAIN q = 1..n BY <1>2
<1> QED BY <1>1, <1>2, <1>3, <1>4, <1>8, <1>9, <1>10 DEF n

\* The number of i in S, and the k-th number of S.
Rank(S, i) == Cardinality({x \in S : x <= i})
Nth(S, k) == CHOOSE i \in S : Rank(S, i) = k

\* Numbers of S and their ranks correspond, in order.
LEMMA RankFacts ==
    ASSUME NEW n \in Nat, NEW S \in SUBSET (1..n)
    PROVE  /\ IsFiniteSet(S) /\ Cardinality(S) \in 0..n
           /\ \A i \in S : Rank(S, i) \in 1..Cardinality(S)
           /\ \A i, j \in S : i < j => Rank(S, i) < Rank(S, j)
           /\ \A k \in 1..Cardinality(S) : Nth(S, k) \in S /\ Rank(S, Nth(S, k)) = k
           /\ \A i \in S : Nth(S, Rank(S, i)) = i
           /\ \A k, l \in 1..Cardinality(S) : k < l => Nth(S, k) < Nth(S, l)
<1>1. IsFiniteSet(1..n) /\ Cardinality(1..n) = n BY FS_Interval
<1>2. IsFiniteSet(S) /\ Cardinality(S) <= n BY <1>1, FS_Subset
<1> DEFINE m == Cardinality(S)
           Upto(i) == {x \in S : x <= i}
<1>3. m \in Nat BY <1>2, FS_CardinalityType
<1>4. ASSUME NEW i \in S
      PROVE  IsFiniteSet(Upto(i)) /\ Rank(S, i) \in Nat /\ Rank(S, i) <= m
  <2>1. Upto(i) \subseteq S OBVIOUS
  <2>2. IsFiniteSet(Upto(i)) /\ Cardinality(Upto(i)) <= m BY <1>2, <2>1, FS_Subset
  <2> QED BY <2>2, FS_CardinalityType DEF Rank
<1>5. \A i \in S : Rank(S, i) >= 1
  <2> SUFFICES ASSUME NEW i \in S PROVE Rank(S, i) >= 1 OBVIOUS
  <2>1. i \in Upto(i) OBVIOUS
  <2>2. IsFiniteSet(Upto(i)) /\ Rank(S, i) \in Nat BY <1>4
  <2>3. Rank(S, i) # 0 BY <2>1, <2>2, FS_EmptySet DEF Rank
  <2> QED BY <2>2, <2>3
<1>6. ASSUME NEW i \in S, NEW j \in S, i < j PROVE Rank(S, i) < Rank(S, j)
  <2>1. /\ IsFiniteSet(Upto(i)) /\ IsFiniteSet(Upto(j))
        /\ Rank(S, i) \in Nat /\ Rank(S, j) \in Nat
    BY <1>4
  <2>2. \A x \in S : x \in Nat OBVIOUS
  <2>3. j \notin Upto(i) BY <1>6, <2>2
  <2>4. Cardinality(Upto(i) \union {j}) = Rank(S, i) + 1
    BY <2>1, <2>3, FS_AddElement DEF Rank
  <2>5. Upto(i) \union {j} \subseteq Upto(j)
    <3>1. \A x \in S : x <= i => x <= j BY <1>6, <2>2
    <3>2. j <= j BY <2>2
    <3> QED BY <3>1, <3>2
  <2>6. Cardinality(Upto(i) \union {j}) <= Rank(S, j)
    BY <2>1, <2>5, FS_Subset DEF Rank
  <2> QED BY <2>1, <2>4, <2>6
<1> DEFINE r == [i \in S |-> Rank(S, i)]
<1> HIDE DEF m, Upto
<1>7. \A i \in S : Rank(S, i) \in 1..m
  <2> SUFFICES ASSUME NEW i \in S PROVE Rank(S, i) \in 1..m OBVIOUS
  <2>1. Rank(S, i) \in Nat /\ Rank(S, i) <= m BY <1>4
  <2> QED BY <1>3, <1>5, <2>1
<1>8. \A i, j \in S : Rank(S, i) = Rank(S, j) => i = j
  <2> SUFFICES ASSUME NEW i \in S, NEW j \in S, i # j PROVE Rank(S, i) # Rank(S, j)
    OBVIOUS
  <2>1. i < j \/ j < i OBVIOUS
  <2>2. Rank(S, i) \in Nat /\ Rank(S, j) \in Nat BY <1>7
  <2> QED BY <1>6, <2>1, <2>2
<1>9. r \in Injection(S, 1..m) BY <1>7, <1>8 DEF Injection, IsInjective
<1>10. IsFiniteSet(1..m) /\ Cardinality(1..m) = m BY <1>3, FS_Interval
<1>11. r \in Surjection(S, 1..m) BY <1>9, <1>10, FS_Injection DEF m
<1>12. \A k \in 1..m : \E i \in S : Rank(S, i) = k BY <1>11 DEF Surjection
<1>13. \A k \in 1..m : Nth(S, k) \in S /\ Rank(S, Nth(S, k)) = k BY <1>12 DEF Nth
<1>14. \A i \in S : Nth(S, Rank(S, i)) = i BY <1>7, <1>8, <1>13
<1>15. ASSUME NEW k \in 1..m, NEW l \in 1..m, k < l PROVE Nth(S, k) < Nth(S, l)
  <2> DEFINE i == Nth(S, k)
             j == Nth(S, l)
  <2>1. i \in S /\ j \in S /\ Rank(S, i) = k /\ Rank(S, j) = l BY <1>13
  <2> HIDE DEF i, j
  <2>2. i # j BY <1>15, <2>1
  <2>3. ~(j < i) BY <1>6, <1>15, <2>1
  <2>4. i < j BY <2>1, <2>2, <2>3
  <2> QED BY <2>4 DEF i, j
<1> QED BY <1>2, <1>3, <1>6, <1>7, <1>13, <1>14, <1>15 DEF m

\* What is picked from q: the k-th is that with the k-th number.
LEMMA PickFacts ==
    ASSUME NEW T, NEW q \in Seq(T), NEW S \in SUBSET (DOMAIN q)
    PROVE  /\ Pick(q, S) \in Seq(T)
           /\ Len(Pick(q, S)) = Cardinality(S) /\ Cardinality(S) \in Nat
           /\ \A k \in 1..Cardinality(S) : Pick(q, S)[k] = q[Nth(S, k)]
<1>1. Len(q) \in Nat /\ DOMAIN q = 1..Len(q) OBVIOUS
<1>2. /\ Cardinality(S) \in Nat
      /\ \A k \in 1..Cardinality(S) : Nth(S, k) \in DOMAIN q
  BY <1>1, RankFacts
<1> DEFINE m == Cardinality(S)
           p == [k \in 1..m |-> q[Nth(S, k)]]
<1>3. Pick(q, S) = p BY DEF Pick, Nth, Rank
<1> HIDE DEF m
<1>4. \A k \in 1..m : q[Nth(S, k)] \in T BY <1>2 DEF m
<1>5. p \in [1..m -> T] BY <1>4
<1>6. m \in Nat BY <1>2 DEF m
<1>7. p \in Seq(T) /\ Len(p) = m BY <1>5, <1>6
<1>8. \A k \in 1..m : p[k] = q[Nth(S, k)] OBVIOUS
<1> HIDE DEF p
<1> QED BY <1>3, <1>6, <1>7, <1>8 DEF m

----------------------------------------------------------------------------
(* The order that a move makes.                                            *)

\* The parts of Reorder: where the row is, where it goes, and the rows as they
\* will be.
Where(q, id) == {i \in 1..Cardinality(Labelled(q)) : LabelledFirst(q)[i].id = id}
Whither(q, id, up) ==
    {IF up THEN i - 1 ELSE i + 1 : i \in Where(q, id)}
    \intersect 1..Cardinality(Labelled(q))
Moved(q, id, up) == Swap(LabelledFirst(q), Max(Where(q, id)), Max(Whither(q, id, up)))
Numbered(s) == [i \in DOMAIN s |-> [s[i] EXCEPT !.order = i]]
Changed(q, s) == {i \in DOMAIN s : Numbered(s)[i] \notin ToSet(q)}

LEMMA ReorderUnfolds ==
    ASSUME NEW q, NEW id, NEW up
    PROVE  Reorder(q, id, up) =
               IF Whither(q, id, up) = {} THEN <<>>
               ELSE Pick(Numbered(Moved(q, id, up)), Changed(q, Moved(q, id, up)))
  BY DEF Reorder, Where, Whither, Moved, Numbered, Changed, ToSet, Swap

\* The labelled rows first: a sequence as long, of the same rows.
LEMMA LabelledFirstFacts ==
    ASSUME NEW T, NEW q \in Seq(T)
    PROVE  LET all == LabelledFirst(q)
               L == Labelled(q)
               C == DOMAIN q \ L
               l == Cardinality(L)
               c == Cardinality(C)
           IN  /\ all \in Seq(T) /\ l \in Nat /\ c \in Nat
               /\ Len(all) = l + c /\ Len(q) = l + c
               /\ \A i \in 1..l : all[i] = q[Nth(L, i)]
               /\ \A i \in 1..c : all[l + i] = q[Nth(C, i)]
<1> DEFINE all == LabelledFirst(q)
           L == Labelled(q)
           C == DOMAIN q \ L
           l == Cardinality(L)
           c == Cardinality(C)
           n == Len(q)
<1>1. n \in Nat /\ DOMAIN q = 1..n OBVIOUS
<1>2. L \subseteq DOMAIN q /\ C \subseteq DOMAIN q BY DEF Labelled
<1>3. /\ Pick(q, L) \in Seq(T) /\ Len(Pick(q, L)) = l /\ l \in Nat
      /\ \A i \in 1..l : Pick(q, L)[i] = q[Nth(L, i)]
  <2> HIDE DEF L
  <2> QED BY <1>2, PickFacts
<1>4. /\ Pick(q, C) \in Seq(T) /\ Len(Pick(q, C)) = c /\ c \in Nat
      /\ \A i \in 1..c : Pick(q, C)[i] = q[Nth(C, i)]
  <2> HIDE DEF C
  <2> QED BY <1>2, PickFacts
<1>5. all = Pick(q, L) \o Pick(q, C) BY DEF LabelledFirst
<1>6. n = l + c
  <2>1. IsFiniteSet(1..n) /\ Cardinality(1..n) = n BY <1>1, FS_Interval
  <2>2. IsFiniteSet(L) /\ IsFiniteSet(C)
    BY <1>1, <1>2, <2>1, FS_Subset
  <2> HIDE DEF L
  <2>3. L \union C = 1..n /\ L \intersect C = {} BY <1>1, <1>2
  <2>4. Cardinality(L \union C) = l + c - Cardinality(L \intersect C)
    BY <2>2, FS_Union
  <2>5. Cardinality(L \intersect C) = 0 BY <2>3, FS_EmptySet
  <2>6. Cardinality(1..n) = l + c - 0 BY <2>3, <2>4, <2>5
  <2> HIDE DEF l, c
  <2> QED BY <1>3, <1>4, <2>1, <2>6
<1> HIDE DEF L, C, l, c, all
<1>7. all \in Seq(T) /\ Len(all) = l + c BY <1>3, <1>4, <1>5, ConcatProperties
<1>8. \A i \in 1..l : all[i] = Pick(q, L)[i]
  BY <1>3, <1>4, <1>5, ConcatProperties
<1>9. ASSUME NEW i \in 1..c PROVE all[l + i] = Pick(q, C)[i]
  <2>1. l + i \in 1..(l + c) /\ ~(l + i <= l) /\ (l + i) - l = i BY <1>3, <1>4
  <2> QED BY <1>3, <1>4, <1>5, <2>1, ConcatProperties
<1> QED BY <1>3, <1>4, <1>6, <1>7, <1>8, <1>9 DEF all, L, C, l, c, n

\* What a move writes are rows of the listing with other positions.
LEMMA ReorderTypes ==
    ASSUME NEW T, NEW q \in Seq(T), NEW id, NEW up \in BOOLEAN,
           \A r \in T, n \in Nat : [r EXCEPT !.order = n] \in T
    PROVE  Reorder(q, id, up) \in Seq(T)
<1> DEFINE all == LabelledFirst(q)
           l == Cardinality(Labelled(q))
           s == Moved(q, id, up)
<1>1. all \in Seq(T) /\ l \in Nat /\ l <= Len(all)
  <2> DEFINE c == Cardinality(DOMAIN q \ Labelled(q))
  <2>1. all \in Seq(T) /\ l \in Nat /\ c \in Nat /\ Len(all) = l + c
    BY LabelledFirstFacts, Zenon
  <2> HIDE DEF all, l, c
  <2> QED BY <2>1
<1>2. CASE Whither(q, id, up) = {}
  <2>1. Reorder(q, id, up) = <<>> BY <1>2, ReorderUnfolds
  <2> QED BY <2>1
<1>3. CASE Whither(q, id, up) # {}
  <2>1. Where(q, id) \in SUBSET (0..l) /\ Where(q, id) # {} BY <1>1, <1>3 DEF Where, Whither
  <2>2. Whither(q, id, up) \in SUBSET (0..l) BY <1>1 DEF Whither
  <2> DEFINE i == Max(Where(q, id))
             j == Max(Whither(q, id, up))
  <2>3. i \in Where(q, id) BY <1>1, <2>1, GreatestOf
  <2>4. j \in Whither(q, id, up) BY <1>1, <1>3, <2>2, GreatestOf
  <2>5. i \in 1..l /\ j \in 1..l BY <2>3, <2>4 DEF Where, Whither
  <2> HIDE DEF i, j, l, all
  <2>6. i \in DOMAIN all /\ j \in DOMAIN all /\ all[i] \in T /\ all[j] \in T BY <1>1, <2>5
  <2>7. s = [all EXCEPT ![i] = all[j], ![j] = all[i]] BY DEF Moved, Swap, i, j, all
  <2> HIDE DEF s
  <2>8. s \in Seq(T) BY <1>1, <2>6, <2>7
  <2>9. Numbered(s) \in Seq(T)
    <3>1. ASSUME NEW k \in DOMAIN s PROVE [s[k] EXCEPT !.order = k] \in T
      <4>1. s[k] \in T /\ k \in Nat BY <2>8
      <4> QED BY <4>1, Zenon
    <3>2. DOMAIN s = 1..Len(s) /\ Len(s) \in Nat BY <2>8
    <3>3. Numbered(s) \in [1..Len(s) -> T] BY <3>1, <3>2 DEF Numbered
    <3> QED BY <3>2, <3>3
  <2>10. Changed(q, s) \subseteq DOMAIN Numbered(s) BY DEF Changed, Numbered
  <2>11. Pick(Numbered(s), Changed(q, s)) \in Seq(T) BY <2>9, <2>10, PickFacts
  <2> QED BY <1>3, <2>11, ReorderUnfolds DEF s
<1> QED BY <1>2, <1>3

----------------------------------------------------------------------------
(* Types: what the repository's operations keep.                           *)

LEMMA EntriesAreKnown ==
    ASSUME TableInv
    PROVE  Seq(Entry) \subseteq Seq(Known)
<1>1. Entry \subseteq Known BY DEF TableInv, Entry, Known
<1> QED BY <1>1

\* An insert: a free name and the next id.
LEMMA InsertKeeps ==
    ASSUME TableInv, NEW e \in Editors, NEW row \in Row, row.id = 0, Insert(e, row)
    PROVE  TableInv' /\ nextId' = nextId + 1 /\ Wrote(e)
<1> DEFINE new == [row EXCEPT !.id = nextId]
<1>1. /\ TakenBy(row) = {} /\ Wrote(e)
      /\ table' = table \union {new} /\ nextId' = nextId + 1
  BY DEF Insert
<1>2. nextId \in Nat \ {0} BY DEF TableInv
<1>3. new \in Row /\ new.id = nextId /\ new.name = row.name BY <1>2, IdOfRow
<1> HIDE DEF new
<1>4. IsFiniteSet(table') BY <1>1, FS_AddElement DEF TableInv
<1>5. \A r \in table : r \in Row /\ r.id \in 1..(nextId - 1) BY DEF TableInv
<1>6. \A r \in table' : r \in Row /\ r.id \in 1..(nextId' - 1) BY <1>1, <1>2, <1>3, <1>5
<1>7. \A r \in table : r.name # row.name /\ r.id # nextId
  <2>1. \A r \in table : r.name = row.name => r.id = row.id BY <1>1 DEF TakenBy
  <2> QED BY <1>2, <1>5, <2>1
<1>8. \A r, s \in table' : r.id = s.id \/ r.name = s.name => r = s
  BY <1>1, <1>3, <1>7 DEF TableInv
<1> QED BY <1>1, <1>2, <1>4, <1>6, <1>8 DEF TableInv

\* A save: also of a row that another handler has deleted or changed.
LEMMA SaveKeeps ==
    ASSUME TableInv, NEW e \in Editors, NEW row \in Known, Save(e, row)
    PROVE  TableInv' /\ nextId' \in {nextId, nextId + 1} /\ Wrote(e)
<1>1. row \in Row /\ row.id \in Nat /\ row.id < nextId /\ nextId \in Nat
  BY DEF Known, Row, TableInv
<1>2. CASE row.id = 0
  <2>1. Insert(e, row) BY <1>2 DEF Save
  <2> QED BY <1>1, <1>2, <2>1, InsertKeeps
<1>3. CASE row.id # 0
  <2> DEFINE others == {r \in table : r.id # row.id}
  <2>1. /\ TakenBy(row) = {} /\ Wrote(e) /\ nextId' = nextId
        /\ table' = others \union {row}
    BY <1>3 DEF Save
  <2>2. IsFiniteSet(others) BY FS_Subset DEF TableInv
  <2>3. IsFiniteSet(table') BY <2>1, <2>2, FS_AddElement
  <2>4. \A r \in table' : r \in Row /\ r.id \in 1..(nextId' - 1)
    BY <1>1, <1>3, <2>1 DEF TableInv
  <2>5. \A r \in others : r.name # row.name /\ r.id # row.id BY <2>1 DEF TakenBy
  <2>6. \A r, s \in others : r.id = s.id \/ r.name = s.name => r = s BY DEF TableInv
  <2>7. \A r, s \in table' : r.id = s.id \/ r.name = s.name => r = s
    BY <2>1, <2>5, <2>6
  <2> QED BY <1>1, <2>1, <2>3, <2>4, <2>7 DEF TableInv
<1> QED BY <1>2, <1>3

LEMMA WroteKeeps ==
    ASSUME CacheTypes, NEW e \in Editors, Wrote(e)
    PROVE  CacheTypes'
  BY DEF CacheTypes, Wrote

LEMMA TroubleKeeps ==
    ASSUME CacheTypes, Trouble PROVE troubles' \in 0..MaxTroubles
<1>1. troubles \in 0..MaxTroubles BY DEF CacheTypes
<1>2. MaxTroubles \in Nat BY AdminConstants
<1> QED BY <1>1, <1>2 DEF Trouble

\* A refused write changes nothing.
LEMMA RefusesKeeps ==
    ASSUME TableInv, CacheTypes, NEW row, Refuses(row)
    PROVE  /\ TableInv' /\ nextId' = nextId
           /\ CacheTypes'
<1>1. UNCHANGED repo /\ UNCHANGED caching BY DEF Refuses
<1>2. troubles' \in 0..MaxTroubles BY TroubleKeeps DEF Refuses, CacheTypes
<1> QED BY <1>1, <1>2 DEF TableInv, CacheTypes, repo, caching

LEMMA EnsureLoadedKeeps ==
    ASSUME CacheTypes, NEW e \in Editors, EnsureLoaded(e)
    PROVE  CacheTypes'
<1>1. UNCHANGED caching /\ (UNCHANGED troubles \/ Trouble) BY DEF EnsureLoaded
<1> QED BY <1>1, TroubleKeeps DEF caching, CacheTypes

\* The steps of the cache alone.
Stir == (\E e \in Editors : Invalidate(e)) \/ Query \/ QueryEnds

LEMMA StirKeeps ==
    ASSUME TableInv, CacheTypes, Stir
    PROVE  CacheTypes'
<1>1. CASE \E e \in Editors : Invalidate(e)
  BY <1>1 DEF Invalidate, CacheTypes
<1>2. CASE Query
  <2>1. PICK q \in Listings(table) : loading' = {q} BY <1>2 DEF Query
  <2>2. q \in Seq(Row) BY ListingFacts DEF TableInv
  <2>3. loading' \in SUBSET Seq(Row) BY <2>1, <2>2
  <2> QED BY <1>2, <2>3 DEF Query, CacheTypes
<1>3. CASE QueryEnds
  <2>1. cache' \in Seq(Row) BY <1>3 DEF QueryEnds, CacheTypes
  <2> QED BY <1>3, <2>1 DEF QueryEnds, CacheTypes
<1> QED BY <1>1, <1>2, <1>3 DEF Stir

LEMMA StirLeaves ==
    ASSUME Stir
    PROVE  /\ UNCHANGED repo /\ UNCHANGED file /\ UNCHANGED <<pc, todo>>
           /\ UNCHANGED requests /\ UNCHANGED probed /\ UNCHANGED history
  BY DEF Stir, Invalidate, Query, QueryEnds, repo

\* The hands, when one editor moves and ids are given out.
LEMMA HandMoves ==
    ASSUME HandlerTypes, HandInv, nextId \in Nat, nextId' \in {nextId, nextId + 1},
           NEW e \in Editors, NEW place \in Places, NEW rows \in Seq(Known'),
           HandOK(place, rows),
           pc' = [pc EXCEPT ![e] = place], todo' = [todo EXCEPT ![e] = rows]
    PROVE  pc' \in [Editors -> Places] /\ todo' \in [Editors -> Seq(Known')] /\ HandInv'
<1>1. Known \subseteq Known' BY DEF Known, Row
<1>2. \A t \in Seq(Known) : t \in Seq(Known') BY <1>1
<1> HIDE DEF Known
<1>3. todo \in [Editors -> Seq(Known)] /\ pc \in [Editors -> Places] BY DEF HandlerTypes
<1>4. pc' \in [Editors -> Places] BY <1>3
<1> DEFINE K == Known'
<1> HIDE DEF K
<1>5. rows \in Seq(K) /\ \A t \in Seq(Known) : t \in Seq(K) BY <1>2 DEF K
<1>6. todo' \in [Editors -> Seq(K)] BY <1>3, <1>5
<1>7. \A d \in Editors : HandOK(pc'[d], todo'[d]) BY <1>3 DEF HandInv
<1> QED BY <1>4, <1>6, <1>7 DEF HandInv, K

----------------------------------------------------------------------------
(* Types: every step keeps them.                                           *)

LEMMA InitTypes == Init => TypeInv
<1> SUFFICES ASSUME Init PROVE TypeInv OBVIOUS
<1>1. PICK m \in [1..Rows -> Matches] :
         /\ table = {[id |-> i, name |-> <<i>>, match |-> m[i], body |-> 0,
                      order |-> (i - 1) \div 2] : i \in 1..Rows}
         /\ file = <<[id |-> 0, name |-> <<0>>, match |-> m[1], body |-> 0, order |-> 1],
                     [id |-> 0, name |-> <<1>>, match |-> m[1], body |-> 1, order |-> 0]>>
  BY DEF Init
<1>2. Rows \in Nat \ {0} /\ MaxRequests \in Nat /\ MaxTroubles \in Nat BY AdminConstants
<1> DEFINE row(i) == [id |-> i, name |-> <<i>>, match |-> m[i], body |-> 0,
                      order |-> (i - 1) \div 2]
<1>3. \A i \in 1..Rows : row(i) \in Row /\ row(i).id = i /\ row(i).name = <<i>>
  <2> SUFFICES ASSUME NEW i \in 1..Rows
               PROVE  row(i) \in Row /\ row(i).id = i /\ row(i).name = <<i>>
    OBVIOUS
  <2>1. i \in Nat /\ (i - 1) \div 2 \in Nat /\ m[i] \in Matches BY <1>2
  <2>2. <<i>> \in Seq(Nat) BY <2>1
  <2> QED BY <2>1, <2>2 DEF Row
<1>4. IsFiniteSet(table)
  <2> DEFINE f == [i \in 1..Rows |-> row(i)]
  <2>1. f \in Surjection(1..Rows, table) BY <1>1 DEF Surjection
  <2>2. IsFiniteSet(1..Rows) BY <1>2, FS_Interval
  <2> HIDE DEF f
  <2> QED BY <2>1, <2>2, FS_Surjection
<1>5. nextId = Rows + 1 BY DEF Init
<1>6. \A r \in table : \E i \in 1..Rows : r = row(i) BY <1>1
<1> HIDE DEF row
<1>7. \A r \in table : r \in Row /\ r.id \in 1..(nextId - 1)
  BY <1>2, <1>3, <1>5, <1>6
<1>8. \A r, s \in table : r.id = s.id \/ r.name = s.name => r = s
  <2> SUFFICES ASSUME NEW r \in table, NEW s \in table, r.id = s.id \/ r.name = s.name
               PROVE  r = s
    OBVIOUS
  <2>1. PICK i \in 1..Rows : r = row(i) BY <1>6
  <2>2. PICK j \in 1..Rows : s = row(j) BY <1>6
  <2>3. r.id = i /\ r.name = <<i>> /\ s.id = j /\ s.name = <<j>> BY <1>3, <2>1, <2>2
  <2>4. i = j BY <2>3
  <2> QED BY <2>1, <2>2, <2>4
<1>9. TableInv BY <1>2, <1>4, <1>5, <1>7, <1>8 DEF TableInv
<1>10. file \in Seq(Entry)
  <2>1. m[1] \in Matches /\ 0 \in Nat /\ 1 \in Nat BY <1>2
  <2>2. <<0>> \in Seq(Nat) /\ <<1>> \in Seq(Nat) BY <2>1
  <2>3. /\ [id |-> 0, name |-> <<0>>, match |-> m[1], body |-> 0, order |-> 1] \in Row
        /\ [id |-> 0, name |-> <<1>>, match |-> m[1], body |-> 1, order |-> 0] \in Row
    BY <2>1, <2>2 DEF Row
  <2>4. /\ [id |-> 0, name |-> <<0>>, match |-> m[1], body |-> 0, order |-> 1] \in Entry
        /\ [id |-> 0, name |-> <<1>>, match |-> m[1], body |-> 1, order |-> 0] \in Entry
    BY <2>3 DEF Entry
  <2> QED BY <1>1, <2>4
<1>11. /\ pc = [e \in Editors |-> "idle"] /\ todo = [e \in Editors |-> <<>>]
       /\ cache = <<>> /\ loading = {} /\ fresh = FALSE /\ missed = FALSE
       /\ unsaid = {} /\ requests = 0 /\ troubles = 0
  BY DEF Init
<1>12. HandlerTypes
  <2>1. pc \in [Editors -> Places] BY <1>11 DEF Places
  <2>2. todo \in [Editors -> Seq(Known)] BY <1>11
  <2>3. requests \in 0..MaxRequests BY <1>2, <1>11
  <2> QED BY <1>10, <2>1, <2>2, <2>3 DEF HandlerTypes
<1>13. HandInv BY <1>11 DEF HandInv, HandOK, Holding
<1>14. CacheTypes
  <2>1. cache \in Seq(Row) /\ troubles \in 0..MaxTroubles BY <1>2, <1>11
  <2>2. fresh \in BOOLEAN /\ missed \in BOOLEAN /\ loading \in SUBSET Seq(Row)
        /\ unsaid \in SUBSET (Editors \ away)
    BY <1>11
  <2> QED BY <2>1, <2>2 DEF CacheTypes
<1> QED BY <1>9, <1>12, <1>13, <1>14 DEF TypeInv

\* Numbers of requests, and what does not touch the rows in hand.
LEMMA RequestsKeep ==
    ASSUME HandlerTypes, \/ UNCHANGED requests
                         \/ requests < MaxRequests /\ requests' = requests + 1
    PROVE  requests' \in 0..MaxRequests
<1>1. requests \in 0..MaxRequests BY DEF HandlerTypes
<1>2. MaxRequests \in Nat BY AdminConstants
<1> QED BY <1>1, <1>2

LEMMA BlankIsEntry == Blank \in Entry
<1>1. <<>> \in Matches
  <2>1. <<>> \in [{} -> Values \union {""}]
    <3>1. <<>> \in [1..0 -> Values \union {""}] OBVIOUS
    <3>2. 1..0 = {} OBVIOUS
    <3> QED BY <3>1, <3>2
  <2>2. {} \in SUBSET Keys OBVIOUS
  <2> QED BY <2>1, <2>2 DEF Matches
<1>2. <<0>> \in Seq(Nat) /\ 0 \in Nat OBVIOUS
<1> QED BY <1>1, <1>2 DEF Blank, Row, Entry

LEMMA DuplicateIsEntry ==
    ASSUME TableInv, NEW r \in table
    PROVE  Duplicate(r) \in Entry
<1>1. r \in Row /\ IsFiniteSet(table) BY DEF TableInv
<1>2. r.name \in Seq(Nat) BY <1>1 DEF Row
<1>3. CopyName(r.name, table) \in Seq(Nat) BY <1>1, <1>2, CopyIsName
<1> DEFINE name == CopyName(r.name, table)
           s == [r EXCEPT !.id = 0, !.order = 0, !.name = name]
<1>4. Duplicate(r) = s BY <1>1 DEF Duplicate, Row
<1>5. name \in Seq(Nat) BY <1>3
<1> HIDE DEF name
<1>6. s \in Row /\ s.id = 0 BY <1>1, <1>5 DEF Row
<1> QED BY <1>4, <1>6 DEF Entry

LEMMA EditedIsKnown ==
    ASSUME TableInv, NEW row \in Known, NEW new \in Edited(row)
    PROVE  new \in Known /\ new.id = row.id
<1>1. row \in Row /\ row.id < nextId BY DEF Known
<1>2. \A r \in table : r.name \in Seq(Nat) BY DEF TableInv, Row
<1>3. Rows \in Nat BY AdminConstants
<1>4. CASE new = row
  BY <1>1, <1>4
<1>5. CASE \E r \in table : new = [row EXCEPT !.name = r.name]
  BY <1>1, <1>2, <1>5 DEF Known, Row
<1>6. CASE \E m \in Matches : new = [row EXCEPT !.match = m]
  BY <1>1, <1>6 DEF Known, Row
<1>7. CASE new = [row EXCEPT !.body = 1, !.order = Rows]
  BY <1>1, <1>3, <1>7 DEF Known, Row
<1> QED BY <1>4, <1>5, <1>6, <1>7 DEF Edited

\* A step of one editor, from its parts.
LEMMA TypesMove ==
    ASSUME TypeInv, TableInv', nextId' \in {nextId, nextId + 1}, CacheTypes',
           file' \in Seq(Entry),
           \/ UNCHANGED requests
           \/ requests < MaxRequests /\ requests' = requests + 1,
           NEW e \in Editors, NEW place \in Places, NEW rows \in Seq(Known'),
           HandOK(place, rows),
           pc' = [pc EXCEPT ![e] = place], todo' = [todo EXCEPT ![e] = rows]
    PROVE  TypeInv'
<1>1. HandlerTypes /\ HandInv /\ nextId \in Nat BY DEF TypeInv, TableInv
<1>2. requests' \in 0..MaxRequests BY <1>1, RequestsKeep
<1>3. pc' \in [Editors -> Places] /\ todo' \in [Editors -> Seq(Known')] /\ HandInv'
  <2> HIDE DEF Known
  <2> QED BY <1>1, HandMoves
<1> QED BY <1>2, <1>3 DEF TypeInv, HandlerTypes

\* A step that leaves the rows in hand and the places as they are.
LEMMA TypesStay ==
    ASSUME TypeInv, TableInv', nextId' \in {nextId, nextId + 1}, CacheTypes',
           file' \in Seq(Entry),
           \/ UNCHANGED requests
           \/ requests < MaxRequests /\ requests' = requests + 1,
           UNCHANGED <<pc, todo>>
    PROVE  TypeInv'
<1>1. HandlerTypes /\ HandInv /\ nextId \in Nat BY DEF TypeInv, TableInv
<1>2. requests' \in 0..MaxRequests BY <1>1, RequestsKeep
<1>3. Known \subseteq Known' BY <1>1 DEF Known, Row
<1> DEFINE K == Known'
<1>4. \A t \in Seq(Known) : t \in Seq(K) BY <1>3
<1> HIDE DEF K
<1>5. todo' \in [Editors -> Seq(K)] BY <1>1, <1>4 DEF HandlerTypes
<1>6. pc' \in [Editors -> Places] /\ HandInv' BY <1>1 DEF HandlerTypes, HandInv
<1> QED BY <1>2, <1>5, <1>6 DEF TypeInv, HandlerTypes, K

\* A step that leaves the table and the cache.
LEMMA TableStays ==
    ASSUME TypeInv, UNCHANGED repo
    PROVE  TableInv' /\ nextId' \in {nextId, nextId + 1} /\ Known' = Known
  BY DEF TypeInv, TableInv, Known, repo

LEMMA CacheStays ==
    ASSUME TypeInv, UNCHANGED <<caching, troubles>>
    PROVE  CacheTypes'
  BY DEF TypeInv, CacheTypes, caching

\* The rows in hand of an editor that has some.
LEMMA HandFacts ==
    ASSUME TypeInv, NEW e \in Editors, pc[e] \in Holding
    PROVE  /\ todo[e] \in Seq(Known) /\ todo[e] # <<>>
           /\ Head(todo[e]) = todo[e][1] /\ todo[e][1] \in Known
           /\ Tail(todo[e]) \in Seq(Known)
           /\ Len(todo[e]) > 1 <=> Tail(todo[e]) # <<>>
<1> DEFINE t == todo[e]
<1>1. t \in Seq(Known) /\ t # <<>>
  BY DEF TypeInv, HandlerTypes, HandInv, HandOK
<1> HIDE DEF t, Known
<1>2. Len(t) \in Nat /\ Len(t) # 0 /\ t[1] \in Known /\ Head(t) = t[1] BY <1>1
<1>3. Tail(t) \in Seq(Known) /\ Len(Tail(t)) = Len(t) - 1 BY <1>1, HeadTailProperties
<1>4. Len(Tail(t)) = 0 <=> Tail(t) = <<>> BY <1>3, EmptySeq
<1>5. Len(t) > 1 <=> Tail(t) # <<>> BY <1>2, <1>3, <1>4
<1> QED BY <1>1, <1>2, <1>3, <1>5 DEF t

LEMMA KnownGrows ==
    ASSUME TypeInv, nextId' \in {nextId, nextId + 1}
    PROVE  \A t \in Seq(Known) : t \in Seq(Known')
<1>1. Known \subseteq Known' BY DEF TypeInv, TableInv, Known, Row
<1> QED BY <1>1

LEMMA OpenFormTypes ==
    ASSUME TypeInv, NEW e \in Editors, OpenForm(e) PROVE TypeInv'
<1>1. UNCHANGED repo /\ UNCHANGED <<caching, troubles>> /\ UNCHANGED file
  BY DEF OpenForm
<1>2. TableInv' /\ nextId' \in {nextId, nextId + 1} /\ Known' = Known
  BY <1>1, TableStays
<1>3. CacheTypes' BY <1>1, CacheStays
<1>4. file' \in Seq(Entry) BY <1>1 DEF TypeInv, HandlerTypes
<1>5. PICK row \in {Blank} \union table
                    \union {Duplicate(r) : r \in {s \in table : s.id \in Copied}} :
         todo' = [todo EXCEPT ![e] = <<row>>]
  BY DEF OpenForm
<1>6. row \in Known
  <2>1. Entry \subseteq Known BY DEF TypeInv, TableInv, Entry, Known
  <2>2. table \subseteq Known BY DEF TypeInv, TableInv, Known
  <2>3. TableInv BY DEF TypeInv
  <2> QED BY <1>5, <2>1, <2>2, <2>3, BlankIsEntry, DuplicateIsEntry
<1>7. <<row>> \in Seq(Known') /\ <<row>> # <<>>
  <2> HIDE DEF Known
  <2> QED BY <1>2, <1>6
<1>8. HandOK("form", <<row>>) BY <1>7 DEF HandOK
<1>9. "form" \in Places BY DEF Places, Holding
<1>10. pc' = [pc EXCEPT ![e] = "form"] /\ requests < MaxRequests /\ requests' = requests + 1
  BY DEF OpenForm
<1> HIDE DEF Known
<1> QED BY <1>2, <1>3, <1>4, <1>5, <1>7, <1>8, <1>9, <1>10, TypesMove

\* A write of a row in hand, or its refusal.
LEMMA WriteTypes ==
    ASSUME TypeInv, NEW e \in Editors, NEW row \in Known,
           \/ Save(e, row)
           \/ row.id = 0 /\ Insert(e, row)
           \/ Refuses(row)
    PROVE  TableInv' /\ nextId' \in {nextId, nextId + 1} /\ CacheTypes'
<1>1. TableInv /\ CacheTypes BY DEF TypeInv
<1>2. CASE Save(e, row) BY <1>1, <1>2, SaveKeeps, WroteKeeps
<1>3. CASE row.id = 0 /\ Insert(e, row)
  <2>1. row \in Row BY DEF Known
  <2> QED BY <1>1, <1>3, <2>1, InsertKeeps, WroteKeeps
<1>4. CASE Refuses(row) BY <1>1, <1>4, RefusesKeeps
<1> QED BY <1>2, <1>3, <1>4

LEMMA SubmitTypes ==
    ASSUME TypeInv, NEW e \in Editors, Submit(e) PROVE TypeInv'
<1>1. PICK row \in Edited(todo[e][1]) :
         \/ Save(e, row) /\ Close(e)
         \/ Refuses(row) /\ UNCHANGED <<pc, todo>>
  BY DEF Submit
<1>2. pc[e] = "form" /\ UNCHANGED file /\ UNCHANGED requests BY DEF Submit
<1>3. todo[e][1] \in Known BY <1>2, HandFacts DEF Holding
<1>4. row \in Known
  <2> HIDE DEF Known
  <2> QED BY <1>3, EditedIsKnown DEF TypeInv
<1>5. TableInv' /\ nextId' \in {nextId, nextId + 1} /\ CacheTypes'
  BY <1>1, <1>4, WriteTypes
<1>6. file' \in Seq(Entry) BY <1>2 DEF TypeInv, HandlerTypes
<1>8. "idle" \in Places /\ "form" \in Places /\ "idle" \notin Holding BY DEF Places, Holding
<1>9. CASE Close(e)
  <2>1. pc' = [pc EXCEPT ![e] = "idle"] /\ todo' = [todo EXCEPT ![e] = <<>>] BY <1>9 DEF Close
  <2>2. HandOK("idle", <<>>) BY <1>8 DEF HandOK
  <2>3. <<>> \in Seq(Known') OBVIOUS
  <2> HIDE DEF Known
  <2> QED BY <1>2, <1>5, <1>6, <1>8, <2>1, <2>2, <2>3, TypesMove
<1>10. CASE UNCHANGED <<pc, todo>>
  <2> HIDE DEF Known
  <2> QED BY <1>2, <1>5, <1>6, <1>10, TypesStay
<1> QED BY <1>1, <1>9, <1>10

LEMMA DeleteTypes ==
    ASSUME TypeInv, NEW e \in Editors, Delete(e) PROVE TypeInv'
<1>1. /\ requests < MaxRequests /\ requests' = requests + 1 /\ Wrote(e)
      /\ UNCHANGED <<pc, todo>> /\ UNCHANGED file /\ nextId' = nextId
  BY DEF Delete
<1>2. PICK id : table' = {r \in table : r.id # id} BY DEF Delete
<1>3. IsFiniteSet(table') BY <1>2, FS_Subset DEF TypeInv, TableInv
<1>4. TableInv' BY <1>1, <1>2, <1>3 DEF TypeInv, TableInv
<1>5. CacheTypes' BY <1>1, WroteKeeps DEF TypeInv
<1>6. file' \in Seq(Entry) BY <1>1 DEF TypeInv, HandlerTypes
<1> QED BY <1>1, <1>4, <1>5, <1>6, TypesStay

LEMMA MoveTypes ==
    ASSUME TypeInv, NEW e \in Editors, Move(e) PROVE TypeInv'
<1>1. /\ UNCHANGED repo /\ UNCHANGED <<caching, troubles>> /\ UNCHANGED file
      /\ requests < MaxRequests /\ requests' = requests + 1
  BY DEF Move, Request
<1>2. TableInv' /\ nextId' \in {nextId, nextId + 1} /\ Known' = Known
  BY <1>1, TableStays
<1>3. CacheTypes' BY <1>1, CacheStays
<1>4. file' \in Seq(Entry) BY <1>1 DEF TypeInv, HandlerTypes
<1>5. PICK q \in Listings(table), id \in 1..(nextId - 1), up \in BOOLEAN :
         /\ todo' = [todo EXCEPT ![e] = Reorder(q, id, up)]
         /\ pc' = [pc EXCEPT ![e] = IF Reorder(q, id, up) = <<>> THEN "answer" ELSE "save"]
  BY DEF Move
<1> DEFINE rows == Reorder(q, id, up)
           place == IF rows = <<>> THEN "answer" ELSE "save"
<1>6. rows \in Seq(Known)
  <2>1. q \in Seq(table) BY ListingFacts DEF TypeInv, TableInv
  <2>2. table \subseteq Known BY DEF TypeInv, TableInv, Known
  <2>3. q \in Seq(Known) BY <2>1, <2>2
  <2>4. \A r \in Known, n \in Nat : [r EXCEPT !.order = n] \in Known
    BY OrderOfRow DEF Known
  <2> HIDE DEF Known
  <2> QED BY <2>3, <2>4, ReorderTypes
<1>7. place \in Places /\ HandOK(place, rows) BY DEF Places, Holding, HandOK
<1> HIDE DEF Known, rows
<1>8. todo' = [todo EXCEPT ![e] = rows] /\ pc' = [pc EXCEPT ![e] = place]
  BY <1>5 DEF rows
<1> QED BY <1>1, <1>2, <1>3, <1>4, <1>6, <1>7, <1>8, TypesMove

LEMMA SaveNextTypes ==
    ASSUME TypeInv, NEW e \in Editors, SaveNext(e) PROVE TypeInv'
<1>1. pc[e] = "save" /\ UNCHANGED file /\ UNCHANGED requests BY DEF SaveNext
<1>2. /\ Head(todo[e]) \in Known /\ todo[e] \in Seq(Known) /\ todo[e] # <<>>
      /\ Tail(todo[e]) \in Seq(Known)
      /\ Len(todo[e]) > 1 <=> Tail(todo[e]) # <<>>
  BY <1>1, HandFacts DEF Holding
<1>3. \/ /\ Save(e, Head(todo[e])) /\ todo' = [todo EXCEPT ![e] = Tail(todo[e])]
         /\ pc' = [pc EXCEPT ![e] = IF Len(todo[e]) > 1 THEN "save" ELSE "answer"]
      \/ /\ Refuses(Head(todo[e])) /\ UNCHANGED todo
         /\ pc' = [pc EXCEPT ![e] = "answer"]
  BY DEF SaveNext
<1>4. TableInv' /\ nextId' \in {nextId, nextId + 1} /\ CacheTypes'
  <2>1. Save(e, Head(todo[e])) \/ Refuses(Head(todo[e])) BY <1>3
  <2> HIDE DEF Known
  <2> QED BY <1>2, <2>1, WriteTypes
<1>5. file' \in Seq(Entry) BY <1>1 DEF TypeInv, HandlerTypes
<1>6. todo[e] \in Seq(Known') /\ Tail(todo[e]) \in Seq(Known')
  <2> HIDE DEF Known
  <2> QED BY <1>2, <1>4, KnownGrows
<1> HIDE DEF Known
<1>7. CASE UNCHANGED todo /\ pc' = [pc EXCEPT ![e] = "answer"]
  <2>1. "answer" \in Places /\ HandOK("answer", todo[e]) BY DEF Places, Holding, HandOK
  <2>2. todo' = [todo EXCEPT ![e] = todo[e]] BY <1>7 DEF TypeInv, HandlerTypes
  <2> QED BY <1>1, <1>4, <1>5, <1>6, <1>7, <2>1, <2>2, TypesMove
<1>8. CASE /\ todo' = [todo EXCEPT ![e] = Tail(todo[e])]
           /\ pc' = [pc EXCEPT ![e] = IF Len(todo[e]) > 1 THEN "save" ELSE "answer"]
  <2> DEFINE place == IF Len(todo[e]) > 1 THEN "save" ELSE "answer"
  <2>1. place \in Places /\ HandOK(place, Tail(todo[e]))
    BY <1>2 DEF Places, Holding, HandOK
  <2>2. pc' = [pc EXCEPT ![e] = place] BY <1>8
  <2> HIDE DEF place
  <2> QED BY <1>1, <1>4, <1>5, <1>6, <1>8, <2>1, <2>2, TypesMove
<1> QED BY <1>3, <1>7, <1>8

LEMMA ExportTypes ==
    ASSUME TypeInv, NEW e \in Editors, Export(e) PROVE TypeInv'
<1>1. /\ UNCHANGED repo /\ UNCHANGED <<caching, troubles>> /\ UNCHANGED <<pc, todo>>
      /\ requests < MaxRequests /\ requests' = requests + 1
  BY DEF Export
<1>2. TableInv' /\ nextId' \in {nextId, nextId + 1} BY <1>1, TableStays
<1>3. CacheTypes' BY <1>1, CacheStays
<1>4. PICK q \in Listings(table) : file' = [i \in DOMAIN q |-> [q[i] EXCEPT !.id = 0]]
  BY DEF Export
<1>5. file' \in Seq(Entry)
  <2>1. q \in Seq(Row) BY ListingFacts DEF TypeInv, TableInv
  <2>2. DOMAIN q = 1..Len(q) /\ Len(q) \in Nat /\ \A i \in DOMAIN q : q[i] \in Row BY <2>1
  <2>3. ASSUME NEW i \in DOMAIN q PROVE [q[i] EXCEPT !.id = 0] \in Entry
    <3>1. q[i] \in Row /\ 0 \in Nat BY <2>2
    <3>2. [q[i] EXCEPT !.id = 0] \in Row /\ [q[i] EXCEPT !.id = 0].id = 0 BY <3>1, IdOfRow
    <3> QED BY <3>2 DEF Entry
  <2>4. file' \in [1..Len(q) -> Entry] BY <1>4, <2>2, <2>3
  <2> QED BY <2>2, <2>4
<1> QED BY <1>1, <1>2, <1>3, <1>5, TypesStay

LEMMA ImportTypes ==
    ASSUME TypeInv, NEW e \in Editors, Import(e) PROVE TypeInv'
<1>1. /\ UNCHANGED repo /\ UNCHANGED <<caching, troubles>> /\ UNCHANGED file
      /\ requests < MaxRequests /\ requests' = requests + 1 /\ file # <<>>
      /\ pc' = [pc EXCEPT ![e] = "find"] /\ todo' = [todo EXCEPT ![e] = file]
  BY DEF Import, Request
<1>2. TableInv' /\ nextId' \in {nextId, nextId + 1} /\ Known' = Known
  BY <1>1, TableStays
<1>3. CacheTypes' BY <1>1, CacheStays
<1>4. file \in Seq(Entry) BY DEF TypeInv, HandlerTypes
<1>5. file \in Seq(Known') BY <1>2, <1>4, EntriesAreKnown DEF TypeInv
<1>6. "find" \in Places /\ HandOK("find", file)
  BY <1>1, <1>4 DEF Places, Holding, HandOK
<1> HIDE DEF Known
<1> QED BY <1>1, <1>2, <1>3, <1>4, <1>5, <1>6, TypesMove

LEMMA FindTypes ==
    ASSUME TypeInv, NEW e \in Editors, Find(e) PROVE TypeInv'
<1>1. /\ pc[e] = "find" /\ EnsureLoaded(e) /\ UNCHANGED repo
      /\ UNCHANGED file /\ UNCHANGED todo /\ UNCHANGED requests
  BY DEF Find
<1>2. TableInv' /\ nextId' \in {nextId, nextId + 1} /\ Known' = Known
  BY <1>1, TableStays
<1>3. CacheTypes' BY <1>1, EnsureLoadedKeeps DEF TypeInv
<1>4. file' \in Seq(Entry) BY <1>1 DEF TypeInv, HandlerTypes
<1>5. PICK place \in {"lookup", "create"} : pc' = [pc EXCEPT ![e] = place]
  BY DEF Find
<1>6. todo[e] \in Seq(Known') BY <1>2 DEF TypeInv, HandlerTypes
<1>7. place \in Places /\ HandOK(place, todo[e])
  BY <1>1 DEF TypeInv, HandInv, Places, Holding, HandOK
<1>8. todo' = [todo EXCEPT ![e] = todo[e]] BY <1>1 DEF TypeInv, HandlerTypes
<1> HIDE DEF Known
<1> QED BY <1>1, <1>2, <1>3, <1>4, <1>5, <1>6, <1>7, <1>8, TypesMove

\* The entry that has got an id.
Given(rows, id) == [rows EXCEPT ![1] = [rows[1] EXCEPT !.id = id]]

LEMMA GivenFacts ==
    ASSUME NEW rows \in Seq(Row), rows # <<>>, NEW n \in Nat
    PROVE  /\ Given(rows, n) \in Seq(Row) /\ Given(rows, n) # <<>>
           /\ Len(Given(rows, n)) = Len(rows)
           /\ Given(rows, n)[1] = [rows[1] EXCEPT !.id = n]
           /\ Tail(Given(rows, n)) = Tail(rows)
<1>1. Len(rows) \in Nat /\ Len(rows) # 0 /\ rows[1] \in Row /\ 1 \in DOMAIN rows OBVIOUS
<1> DEFINE row == [rows[1] EXCEPT !.id = n]
<1>2. row \in Row BY <1>1, IdOfRow
<1>3. Given(rows, n) = [rows EXCEPT ![1] = row] BY DEF Given
<1> HIDE DEF row
<1>4. /\ Given(rows, n) \in Seq(Row) /\ Len(Given(rows, n)) = Len(rows)
      /\ Given(rows, n)[1] = row
  BY <1>1, <1>2, <1>3
<1>5. Tail(Given(rows, n)) = Tail(rows)
  <2> DEFINE g == Given(rows, n)
  <2>1. \A i \in 2..Len(rows) : g[i] = rows[i] BY <1>1, <1>3
  <2>2. g \in Seq(Row) /\ g # <<>> /\ Len(g) = Len(rows) BY <1>1, <1>4
  <2> HIDE DEF g
  <2>3. /\ Tail(g) \in Seq(Row) /\ Len(Tail(g)) = Len(rows) - 1
        /\ \A i \in 1..(Len(rows) - 1) : Tail(g)[i] = g[i + 1]
    BY <2>2, HeadTailProperties
  <2>4. /\ Tail(rows) \in Seq(Row) /\ Len(Tail(rows)) = Len(rows) - 1
        /\ \A i \in 1..(Len(rows) - 1) : Tail(rows)[i] = rows[i + 1]
    BY HeadTailProperties
  <2>5. \A i \in 1..(Len(rows) - 1) : Tail(g)[i] = Tail(rows)[i]
    <3> SUFFICES ASSUME NEW i \in 1..(Len(rows) - 1) PROVE Tail(g)[i] = Tail(rows)[i]
      OBVIOUS
    <3>1. i + 1 \in 2..Len(rows) BY <1>1
    <3> QED BY <2>1, <2>3, <2>4, <3>1
  <2>6. Tail(g) = Tail(rows) BY <2>3, <2>4, <2>5, SeqEqual
  <2> QED BY <2>6 DEF g
<1> QED BY <1>1, <1>4, <1>5 DEF row

LEMMA LookupTypes ==
    ASSUME TypeInv, NEW e \in Editors, Lookup(e) PROVE TypeInv'
<1>1. /\ pc[e] = "lookup" /\ UNCHANGED repo /\ UNCHANGED caching
      /\ UNCHANGED file /\ UNCHANGED requests /\ pc' = [pc EXCEPT ![e] = "update"]
  BY DEF Lookup
<1>2. TableInv' /\ nextId' \in {nextId, nextId + 1} /\ Known' = Known
  BY <1>1, TableStays
<1>3. CacheTypes'
  <2>1. UNCHANGED troubles \/ Trouble BY DEF Lookup
  <2> QED BY <1>1, <2>1, TroubleKeeps DEF TypeInv, CacheTypes, caching
<1>4. file' \in Seq(Entry) BY <1>1 DEF TypeInv, HandlerTypes
<1> DEFINE t == todo[e]
<1>5. t \in Seq(Entry) /\ t # <<>> /\ t \in Seq(Known)
  BY <1>1 DEF TypeInv, HandInv, HandOK, Holding, HandlerTypes
<1>6. Tail(t) \in Seq(Entry) BY <1>5, HeadTailProperties
<1>7. "update" \in Places BY DEF Places, Holding
<1>8. CASE UNCHANGED todo
  <2>1. HandOK("update", t) BY <1>5, <1>6 DEF HandOK
  <2>2. todo' = [todo EXCEPT ![e] = t] BY <1>8 DEF TypeInv, HandlerTypes
  <2> HIDE DEF Known
  <2> QED BY <1>1, <1>2, <1>3, <1>4, <1>5, <1>7, <2>1, <2>2, TypesMove
<1>9. CASE TakeId(e, {r.id : r \in Named(table, Head(todo[e]).name)})
  <2> DEFINE ids == {r.id : r \in Named(table, Head(todo[e]).name)}
             n == IF ids = {} THEN 0 ELSE Max(ids)
  <2>1. ids \in SUBSET (0..(nextId - 1)) /\ nextId \in Nat /\ nextId - 1 \in Nat
    BY DEF TypeInv, TableInv, Named
  <2>2. todo' = [todo EXCEPT ![e] = Given(t, n)]
    BY <1>9 DEF TakeId, Given
  <2> HIDE DEF ids
  <2>3. ids # {} => Max(ids) \in ids BY <2>1, GreatestOf
  <2>4. n \in 0..(nextId - 1)
    <3>1. CASE ids = {} BY <2>1, <3>1
    <3>2. CASE ids # {}
      <4>1. n = Max(ids) /\ Max(ids) \in ids BY <2>3, <3>2
      <4> QED BY <2>1, <4>1
    <3> QED BY <3>1, <3>2
  <2> HIDE DEF n, t
  <2>5. t \in Seq(Row) BY <1>5 DEF Entry
  <2>6. /\ Given(t, n) \in Seq(Row) /\ Given(t, n) # <<>> /\ Len(Given(t, n)) = Len(t)
        /\ Given(t, n)[1] = [t[1] EXCEPT !.id = n] /\ Tail(Given(t, n)) = Tail(t)
    BY <1>5, <2>4, <2>5, GivenFacts
  <2>7. Given(t, n) \in Seq(Known)
    <3>1. [t[1] EXCEPT !.id = n] \in Known
      <4>1. t[1] \in Row /\ n \in Nat /\ n < nextId BY <1>5, <2>1, <2>4, <2>5
      <4> QED BY <4>1, IdOfRow DEF Known
    <3> HIDE DEF Known
    <3>2. 1 \in DOMAIN t BY <1>5
    <3> QED BY <1>5, <3>1, <3>2 DEF Given
  <2>8. HandOK("update", Given(t, n)) BY <1>6, <2>6 DEF HandOK
  <2> HIDE DEF Known
  <2> QED BY <1>1, <1>2, <1>3, <1>4, <1>7, <2>2, <2>7, <2>8, TypesMove
<1> QED BY <1>8, <1>9 DEF Lookup

LEMMA StoreTypes ==
    ASSUME TypeInv, NEW e \in Editors, Store(e) PROVE TypeInv'
<1>1. /\ pc[e] \in {"update", "create"} /\ UNCHANGED file /\ UNCHANGED requests
      /\ todo' = [todo EXCEPT ![e] = Tail(todo[e])]
      /\ pc' = [pc EXCEPT ![e] = IF Len(todo[e]) > 1 THEN "find" ELSE "answer"]
  BY DEF Store
<1>2. /\ Head(todo[e]) \in Known /\ Head(todo[e]) = todo[e][1]
      /\ todo[e] \in Seq(Known) /\ todo[e] # <<>>
      /\ Tail(todo[e]) \in Seq(Known)
      /\ Len(todo[e]) > 1 <=> Tail(todo[e]) # <<>>
  BY <1>1, HandFacts DEF Holding
<1>3. /\ pc[e] = "create" => Head(todo[e]).id = 0
      /\ Tail(todo[e]) \in Seq(Entry)
  <2>1. CASE pc[e] = "create"
    <3>1. todo[e] \in Seq(Entry) BY <2>1 DEF TypeInv, HandInv, HandOK
    <3>2. todo[e][1] \in Entry /\ Tail(todo[e]) \in Seq(Entry)
      BY <1>2, <3>1, HeadTailProperties
    <3> QED BY <1>2, <3>2 DEF Entry
  <2>2. CASE pc[e] = "update" BY <2>2 DEF TypeInv, HandInv, HandOK
  <2> QED BY <1>1, <2>1, <2>2
<1>4. TableInv' /\ nextId' \in {nextId, nextId + 1} /\ CacheTypes'
  <2>1. \/ Save(e, Head(todo[e]))
        \/ Head(todo[e]).id = 0 /\ Insert(e, Head(todo[e]))
        \/ Refuses(Head(todo[e]))
    BY <1>1, <1>3 DEF Store
  <2> HIDE DEF Known
  <2> QED BY <1>2, <2>1, WriteTypes
<1>5. file' \in Seq(Entry) BY <1>1 DEF TypeInv, HandlerTypes
<1>6. Tail(todo[e]) \in Seq(Known')
  <2> HIDE DEF Known
  <2> QED BY <1>2, <1>4, KnownGrows
<1> DEFINE place == IF Len(todo[e]) > 1 THEN "find" ELSE "answer"
<1>7. place \in Places /\ HandOK(place, Tail(todo[e]))
  BY <1>2, <1>3 DEF Places, Holding, HandOK
<1>8. pc' = [pc EXCEPT ![e] = place] BY <1>1
<1> HIDE DEF Known, place
<1> QED BY <1>1, <1>4, <1>5, <1>6, <1>7, <1>8, TypesMove

\* The steps that change neither the rows nor what is in hand.
LEMMA OtherTypes ==
    ASSUME TypeInv, NEW e \in Editors,
           Leave(e) \/ Probe(e) \/ Resolve(e) \/ Fails(e) \/ Answer(e)
    PROVE  TypeInv'
<1>1. UNCHANGED repo /\ UNCHANGED file
  BY DEF Leave, Probe, Resolve, Fails, Answer
<1>2. TableInv' /\ nextId' \in {nextId, nextId + 1} /\ Known' = Known
  BY <1>1, TableStays
<1>3. CacheTypes'
  <2>1. CASE Leave(e) \/ Answer(e) BY <2>1, CacheStays DEF Leave, Answer
  <2>2. CASE Probe(e) BY <2>2, EnsureLoadedKeeps DEF TypeInv, Probe
  <2>3. CASE Resolve(e) \/ Fails(e)
    <3>1. UNCHANGED caching /\ (UNCHANGED troubles \/ Trouble) BY <2>3 DEF Resolve, Fails
    <3> QED BY <3>1, TroubleKeeps DEF TypeInv, CacheTypes, caching
  <2> QED BY <2>1, <2>2, <2>3
<1>4. file' \in Seq(Entry) BY <1>1 DEF TypeInv, HandlerTypes
<1>5. \/ UNCHANGED requests
      \/ requests < MaxRequests /\ requests' = requests + 1
  BY DEF Leave, Probe, Resolve, Fails, Answer
<1> HIDE DEF Known
<1>6. CASE Fails(e) BY <1>2, <1>3, <1>4, <1>5, <1>6, TypesStay DEF Fails
<1>7. CASE Probe(e) \/ Resolve(e)
  <2> DEFINE place == IF Probe(e) THEN "resolve" ELSE "answer"
  <2>1. pc' = [pc EXCEPT ![e] = place] BY <1>7 DEF Probe, Resolve
  <2>2. todo' = [todo EXCEPT ![e] = todo[e]]
    BY <1>7 DEF Probe, Resolve, TypeInv, HandlerTypes
  <2>3. place \in Places /\ HandOK(place, todo[e]) BY DEF Places, Holding, HandOK
  <2>4. todo[e] \in Seq(Known') BY <1>2 DEF TypeInv, HandlerTypes
  <2> HIDE DEF place
  <2> QED BY <1>2, <1>3, <1>4, <1>5, <2>1, <2>2, <2>3, <2>4, TypesMove
<1>8. CASE Leave(e) \/ Answer(e)
  <2>1. pc' = [pc EXCEPT ![e] = "idle"] /\ todo' = [todo EXCEPT ![e] = <<>>]
    BY <1>8 DEF Leave, Close, Answer
  <2>2. "idle" \in Places /\ HandOK("idle", <<>>) BY DEF Places, Holding, HandOK
  <2>3. <<>> \in Seq(Known') OBVIOUS
  <2> QED BY <1>2, <1>3, <1>4, <1>5, <2>1, <2>2, <2>3, TypesMove
<1> QED BY <1>6, <1>7, <1>8

LEMMA TypesStep == TypeInv /\ [Next]_vars => TypeInv'
<1> SUFFICES ASSUME TypeInv, [Next]_vars PROVE TypeInv' OBVIOUS
<1>1. CASE UNCHANGED vars
  <2>1. /\ UNCHANGED repo /\ UNCHANGED <<caching, troubles>> /\ UNCHANGED file
        /\ UNCHANGED <<pc, todo>> /\ UNCHANGED requests
    BY <1>1 DEF vars
  <2>2. file' \in Seq(Entry) BY <2>1 DEF TypeInv, HandlerTypes
  <2> QED BY <2>1, <2>2, TableStays, CacheStays, TypesStay
<1>2. CASE \E e \in Editors : e \notin unsaid /\ Work(e)
  BY <1>2, OpenFormTypes, SubmitTypes, DeleteTypes, MoveTypes, SaveNextTypes,
     ExportTypes, ImportTypes, FindTypes, LookupTypes, StoreTypes, OtherTypes DEF Work
<1>3. CASE Stir
  <2>1. /\ UNCHANGED repo /\ UNCHANGED file /\ UNCHANGED <<pc, todo>>
        /\ UNCHANGED requests
    BY <1>3, StirLeaves
  <2>2. CacheTypes' BY <1>3, StirKeeps DEF TypeInv
  <2>3. file' \in Seq(Entry) BY <2>1 DEF TypeInv, HandlerTypes
  <2> QED BY <2>1, <2>2, <2>3, TableStays, TypesStay
<1> QED BY <1>1, <1>2, <1>3 DEF Next, Stir

LEMMA TypesAlways == Spec => []TypeInv
  BY InitTypes, TypesStep, PTL DEF Spec

\* However requests overlap, whatever fails in them and whatever is written back
\* from an older reading: every row has an id that was given out, and no two rows
\* have the same id or the same name.
THEOREM RowsAreUnique == Spec => []TypeOK
<1>1. TypeInv => TypeOK
  <2> SUFFICES ASSUME TypeInv PROVE TypeOK OBVIOUS
  <2>1. \A q \in {cache} \union loading : ToSet(q) \subseteq Row
    <3> SUFFICES ASSUME NEW q \in {cache} \union loading PROVE ToSet(q) \subseteq Row OBVIOUS
    <3>1. q \in Seq(Row) BY DEF TypeInv, CacheTypes
    <3> QED BY <3>1 DEF ToSet
  <2>2. \A e \in Editors : ToSet(todo[e]) \subseteq Row
    <3> SUFFICES ASSUME NEW e \in Editors PROVE ToSet(todo[e]) \subseteq Row OBVIOUS
    <3>1. todo[e] \in Seq(Known) BY DEF TypeInv, HandlerTypes
    <3>2. Known \subseteq Row BY DEF Known
    <3> HIDE DEF Known
    <3> QED BY <3>1, <3>2 DEF ToSet
  <2> QED BY <2>1, <2>2 DEF TypeInv, TableInv, CacheTypes, HandlerTypes, TypeOK
<1> QED BY <1>1, TypesAlways, PTL

----------------------------------------------------------------------------
(* What is remembered of a request.                                        *)

\* A step of a handler.
Acts(e) == e \notin unsaid /\ Work(e)

\* The place of a handler tells what its request is.
OpOK(place, kind) ==
    /\ place \in {"idle", "form"} => kind = "none"
    /\ place = "save" => kind = "move"
    /\ place \in {"find", "lookup", "update", "create"} => kind = "import"
    /\ place = "resolve" => kind = "probe"

Probed == [alert : Alerts \union {<<>>}, row : Seq(Row), id : Nat]
HistoryInv ==
    /\ op \in [Editors -> {"none", "move", "import", "probe"}]
    /\ before \in [Editors -> SUBSET Row]
    /\ probed \in [Editors -> Probed]
    /\ quiet \in [Editors -> BOOLEAN] /\ clean \in [Editors -> BOOLEAN]
    /\ misled \in [Editors -> BOOLEAN]
    /\ \A e \in Editors : OpOK(pc[e], op[e])
    /\ \A e \in Editors : op[e] # "none" /\ quiet[e] => unsaid \subseteq {e}

\* The scenario that Match finds.
LEMMA MatchFacts ==
    ASSUME NEW q \in Seq(Row), NEW alert
    PROVE  LET hits == {i \in Labelled(q) : LabelsMatch(q[i].match, alert)}
               spare == DOMAIN q \ Labelled(q)
           IN  /\ hits # {} =>
                     \E i \in hits : Match(q, alert) = <<q[i]>> /\ \A j \in hits : i <= j
               /\ hits = {} /\ spare # {} =>
                     \E i \in spare : Match(q, alert) = <<q[i]>> /\ \A j \in spare : j <= i
               /\ hits = {} /\ spare = {} => Match(q, alert) = <<>>
<1> DEFINE hits == {i \in Labelled(q) : LabelsMatch(q[i].match, alert)}
           spare == DOMAIN q \ Labelled(q)
<1>1. DOMAIN q = 1..Len(q) /\ Len(q) \in Nat OBVIOUS
<1>2. hits \in SUBSET Nat BY <1>1 DEF Labelled
<1>3. spare \in SUBSET (0..Len(q)) BY <1>1
<1>4. hits # {} => Match(q, alert) = <<q[Min(hits)]>> BY DEF Match
<1>5. hits = {} /\ spare # {} => Match(q, alert) = <<q[Max(spare)]>> BY DEF Match
<1>6. hits = {} /\ spare = {} => Match(q, alert) = <<>> BY DEF Match
<1> HIDE DEF hits, spare
<1>7. hits # {} => Min(hits) \in hits /\ \A j \in hits : Min(hits) <= j BY <1>2, LeastOf
<1>8. spare # {} => Max(spare) \in spare /\ \A j \in spare : j <= Max(spare)
  BY <1>1, <1>3, GreatestOf
<1>9. hits # {} =>
        \E i \in hits : Match(q, alert) = <<q[i]>> /\ \A j \in hits : i <= j
  BY <1>4, <1>7
<1>10. hits = {} /\ spare # {} =>
        \E i \in spare : Match(q, alert) = <<q[i]>> /\ \A j \in spare : j <= i
  BY <1>5, <1>8
<1> QED BY <1>6, <1>9, <1>10 DEF hits, spare

LEMMA MatchIsRow ==
    ASSUME NEW q \in Seq(Row), NEW alert
    PROVE  Match(q, alert) \in Seq(Row)
<1> DEFINE hits == {i \in Labelled(q) : LabelsMatch(q[i].match, alert)}
           spare == DOMAIN q \ Labelled(q)
<1>1. hits \subseteq DOMAIN q /\ spare \subseteq DOMAIN q BY DEF Labelled
<1>2. \/ \E i \in hits : Match(q, alert) = <<q[i]>>
      \/ \E i \in spare : Match(q, alert) = <<q[i]>>
      \/ Match(q, alert) = <<>>
  BY MatchFacts
<1> HIDE DEF hits, spare
<1>3. ASSUME NEW i \in DOMAIN q, Match(q, alert) = <<q[i]>>
      PROVE  Match(q, alert) \in Seq(Row)
  <2>1. q[i] \in Row OBVIOUS
  <2> QED BY <1>3, <2>1
<1>4. CASE \E i \in DOMAIN q : Match(q, alert) = <<q[i]>> BY <1>3, <1>4
<1>5. CASE Match(q, alert) = <<>> BY <1>5
<1> QED BY <1>1, <1>2, <1>4, <1>5

\* The id that resolves a row: that of the row of its name.
IdOf(row, rows) ==
    LET ids == UNION {{r.id : r \in Named(rows, s.name)} : s \in ToSet(row)}
    IN  IF ids = {} THEN 0 ELSE Max(ids)

LEMMA IdOfFacts ==
    ASSUME TableInv, NEW row \in Seq(Row)
    PROVE  IdOf(row, table) \in Nat
<1> DEFINE ids == UNION {{r.id : r \in Named(table, s.name)} : s \in ToSet(row)}
<1>1. ids \in SUBSET (0..(nextId - 1)) /\ nextId - 1 \in Nat /\ \A i \in ids : i \in Nat
  BY DEF TableInv, Named
<1>2. IdOf(row, table) = IF ids = {} THEN 0 ELSE Max(ids) BY DEF IdOf
<1> HIDE DEF ids
<1>3. CASE ids = {} BY <1>2, <1>3
<1>4. CASE ids # {}
  <2>1. Max(ids) \in ids BY <1>1, <1>4, GreatestOf
  <2>2. Max(ids) \in Nat BY <1>1, <2>1
  <2> QED BY <1>2, <1>4, <2>2
<1> QED BY <1>3, <1>4

LEMMA HistoryInit == Init => HistoryInv
<1> SUFFICES ASSUME Init PROVE HistoryInv OBVIOUS
<1>1. NoProbe \in Probed BY DEF NoProbe, Probed
<1>2. /\ op = [e \in Editors |-> "none"] /\ before = [e \in Editors |-> {}]
      /\ probed = [e \in Editors |-> NoProbe] /\ pc = [e \in Editors |-> "idle"]
  BY DEF Init
<1>3. /\ quiet \in [Editors -> BOOLEAN] /\ clean \in [Editors -> BOOLEAN]
      /\ misled \in [Editors -> BOOLEAN]
  BY DEF Init
<1> QED BY <1>1, <1>2, <1>3 DEF HistoryInv, OpOK

\* A step of one editor, from its parts.
LEMMA HistoryMoves ==
    ASSUME HistoryInv, HandlerTypes, NEW e \in Editors, NEW place, NEW kind, NEW rows, NEW ok \in BOOLEAN,
           NEW record,
           pc' = [pc EXCEPT ![e] = place],
           op' = [op EXCEPT ![e] = kind], kind \in {"none", "move", "import", "probe"},
           OpOK(place, kind),
           before' = [before EXCEPT ![e] = rows], rows \in SUBSET Row,
           probed' = [probed EXCEPT ![e] = record], record \in Probed,
           clean' = [clean EXCEPT ![e] = ok],
           misled' \in [Editors -> BOOLEAN],
           quiet' \in [Editors -> BOOLEAN],
           \A d \in Editors : op'[d] # "none" /\ quiet'[d] => unsaid' \subseteq {d}
    PROVE  HistoryInv'
<1>1. /\ op \in [Editors -> {"none", "move", "import", "probe"}]
      /\ before \in [Editors -> SUBSET Row]
      /\ probed \in [Editors -> Probed]
      /\ clean \in [Editors -> BOOLEAN]
      /\ \A d \in Editors : OpOK(pc[d], op[d])
      /\ pc \in [Editors -> Places]
  BY DEF HistoryInv, HandlerTypes
<1>2. op' \in [Editors -> {"none", "move", "import", "probe"}] BY <1>1
<1>3. before' \in [Editors -> SUBSET Row] BY <1>1
<1>4. probed' \in [Editors -> Probed] BY <1>1
<1>5. clean' \in [Editors -> BOOLEAN] BY <1>1
<1>6. \A d \in Editors : OpOK(pc'[d], op'[d]) BY <1>1
<1> QED BY <1>2, <1>3, <1>4, <1>5, <1>6 DEF HistoryInv

\* A write goes on unsaid only where it disturbs every other request.
LEMMA WroteQuiet ==
    ASSUME HistoryInv, NEW e \in Editors, e \notin unsaid, Wrote(e), UNCHANGED op
    PROVE  /\ quiet' \in [Editors -> BOOLEAN]
           /\ \A d \in Editors : op'[d] # "none" /\ quiet'[d] => unsaid' \subseteq {d}
<1>1. /\ unsaid' = unsaid \union ({e} \ away)
      /\ quiet' = [d \in Editors |-> op[d] = "none" \/ (quiet[d] /\ d = e)]
  BY DEF Wrote
<1>2. quiet' \in [Editors -> BOOLEAN]
  <2>1. quiet \in [Editors -> BOOLEAN] BY DEF HistoryInv
  <2> QED BY <1>1, <2>1
<1>3. ASSUME NEW d \in Editors, op'[d] # "none", quiet'[d] PROVE unsaid' \subseteq {d}
  <2>1. op[d] # "none" /\ quiet[d] /\ d = e BY <1>1, <1>3
  <2>2. unsaid \subseteq {d} BY <2>1 DEF HistoryInv
  <2> QED BY <1>1, <2>1, <2>2
<1> QED BY <1>2, <1>3

\* Steps within a request that has neither begun nor ended.
LEMMA HistoryWithin ==
    ASSUME TypeInv, HistoryInv, NEW e \in Editors, e \notin unsaid,
           Submit(e) \/ SaveNext(e) \/ Find(e) \/ Lookup(e) \/ Store(e) \/ Resolve(e)
    PROVE  HistoryInv'
<1> DEFINE ok == op[e] = "none" \/ (clean[e] /\ troubles' = troubles)
<1>1. /\ UNCHANGED op /\ UNCHANGED before /\ Cleanly(e)
  BY DEF Submit, SaveNext, Find, Lookup, Store, Resolve
<1>2. /\ op \in [Editors -> {"none", "move", "import", "probe"}]
      /\ before \in [Editors -> SUBSET Row]
      /\ probed \in [Editors -> Probed]
      /\ quiet \in [Editors -> BOOLEAN] /\ clean \in [Editors -> BOOLEAN]
      /\ misled \in [Editors -> BOOLEAN] /\ missed \in BOOLEAN
      /\ OpOK(pc[e], op[e])
      /\ pc \in [Editors -> Places]
  BY DEF HistoryInv, TypeInv, HandlerTypes, CacheTypes
<1>3. clean' = [clean EXCEPT ![e] = ok] /\ ok \in BOOLEAN BY <1>1 DEF Cleanly
<1>4. op' = [op EXCEPT ![e] = op[e]] /\ before' = [before EXCEPT ![e] = before[e]]
  BY <1>1, <1>2
<1>5. /\ quiet' \in [Editors -> BOOLEAN]
      /\ \A d \in Editors : op'[d] # "none" /\ quiet'[d] => unsaid' \subseteq {d}
  <2>1. Wrote(e) \/ (UNCHANGED quiet /\ UNCHANGED caching)
    BY DEF Submit, SaveNext, Find, Lookup, Store, Resolve, Refuses, Save, Insert,
           EnsureLoaded
  <2>2. CASE Wrote(e) BY <1>1, <2>2, WroteQuiet
  <2>3. CASE UNCHANGED quiet /\ UNCHANGED caching
    BY <1>1, <1>2, <2>3 DEF HistoryInv, caching
  <2> QED BY <2>1, <2>2, <2>3
<1>12. misled' \in [Editors -> BOOLEAN]
  <2>1. UNCHANGED misled \/ EnsureLoaded(e)
    BY DEF Submit, SaveNext, Find, Lookup, Store, Resolve
  <2>2. CASE EnsureLoaded(e)
    <3>1. misled' = [misled EXCEPT ![e] = misled[e] \/ missed] BY <2>2 DEF EnsureLoaded
    <3> QED BY <1>2, <3>1
  <2> QED BY <1>2, <2>1, <2>2
<1>6. \E record \in Probed : probed' = [probed EXCEPT ![e] = record]
  <2>1. CASE UNCHANGED probed
    <3>1. probed' = [probed EXCEPT ![e] = probed[e]] BY <1>2, <2>1
    <3> QED BY <1>2, <3>1
  <2>2. CASE ~UNCHANGED probed
    <3> DEFINE r == [probed[e] EXCEPT !.id = IdOf(probed[e].row, table)]
    <3>1. Resolve(e) /\ probed' = [probed EXCEPT ![e] = r]
      BY <2>2 DEF Submit, SaveNext, Find, Lookup, Store, Resolve, IdOf
    <3>2. probed[e] \in Probed BY <1>2
    <3>3. IdOf(probed[e].row, table) \in Nat BY <3>2, IdOfFacts DEF Probed, TypeInv
    <3>4. r \in Probed BY <3>2, <3>3 DEF Probed
    <3> QED BY <3>1, <3>4
  <2> QED BY <2>1, <2>2
<1>7. \E place \in Places : pc' = [pc EXCEPT ![e] = place] /\ OpOK(place, op[e])
  <2>1. CASE Submit(e)
    <3>1. pc[e] = "form" /\ (pc' = [pc EXCEPT ![e] = "idle"] \/ pc' = [pc EXCEPT ![e] = "form"])
      BY <1>2, <2>1 DEF Submit, Close
    <3> QED BY <1>2, <3>1 DEF OpOK, Places, Holding
  <2>2. CASE SaveNext(e)
    <3>1. pc[e] = "save" /\ \E place \in {"save", "answer"} : pc' = [pc EXCEPT ![e] = place]
      BY <2>2 DEF SaveNext
    <3> QED BY <1>2, <3>1 DEF OpOK, Places, Holding
  <2>3. CASE Find(e) \/ Lookup(e) \/ Store(e)
    <3>1. /\ pc[e] \in {"find", "lookup", "update", "create"}
          /\ \E place \in {"lookup", "create", "update", "find", "answer"} :
                pc' = [pc EXCEPT ![e] = place]
      BY <2>3 DEF Find, Lookup, Store
    <3> QED BY <1>2, <3>1 DEF OpOK, Places, Holding
  <2>4. CASE Resolve(e)
    <3>1. pc' = [pc EXCEPT ![e] = "answer"] BY <2>4 DEF Resolve
    <3> QED BY <3>1 DEF OpOK, Places, Holding
  <2> QED BY <2>1, <2>2, <2>3, <2>4
<1>8. HandlerTypes BY DEF TypeInv
<1>9. op[e] \in {"none", "move", "import", "probe"} /\ before[e] \in SUBSET Row BY <1>2
<1> HIDE DEF ok
<1>10. PICK record \in Probed : probed' = [probed EXCEPT ![e] = record] BY <1>6
<1>11. PICK place \in Places : pc' = [pc EXCEPT ![e] = place] /\ OpOK(place, op[e]) BY <1>7
<1> QED BY <1>3, <1>4, <1>5, <1>8, <1>9, <1>10, <1>11, <1>12, HistoryMoves

LEMMA HistoryStep ==
    ASSUME TypeInv, HistoryInv, NEW e \in Editors, Acts(e)
    PROVE  HistoryInv'
<1>1. /\ op \in [Editors -> {"none", "move", "import", "probe"}]
      /\ before \in [Editors -> SUBSET Row]
      /\ probed \in [Editors -> Probed]
      /\ quiet \in [Editors -> BOOLEAN] /\ clean \in [Editors -> BOOLEAN]
      /\ misled \in [Editors -> BOOLEAN] /\ missed \in BOOLEAN
      /\ \A d \in Editors : OpOK(pc[d], op[d])
      /\ \A d \in Editors : op[d] # "none" /\ quiet[d] => unsaid \subseteq {d}
      /\ pc \in [Editors -> Places]
      /\ HandlerTypes
  BY DEF HistoryInv, TypeInv, HandlerTypes, CacheTypes
<1>2. table \in SUBSET Row BY DEF TypeInv, TableInv
<1>3. CASE OpenForm(e) \/ Leave(e)
  <2>1. UNCHANGED <<op, before, quiet, clean, misled>> /\ UNCHANGED <<probed, unsaid>>
    BY <1>3 DEF OpenForm, Leave, history, caching
  <2>2. /\ pc' = [pc EXCEPT ![e] = "form"] \/ pc' = [pc EXCEPT ![e] = "idle"]
        /\ pc[e] \in {"idle", "form"}
    BY <1>3 DEF OpenForm, Leave, Close
  <2>3. \A d \in Editors : OpOK(pc'[d], op'[d])
    BY <1>1, <2>1, <2>2 DEF OpOK
  <2> QED BY <1>1, <2>1, <2>3 DEF HistoryInv
<1>4. CASE Export(e) \/ Fails(e)
  BY <1>1, <1>4 DEF Export, Fails, history, caching, HistoryInv
<1>5. CASE Delete(e)
  <2>1. UNCHANGED <<op, before, clean, misled>> /\ UNCHANGED <<pc, probed>> /\ Wrote(e)
    BY <1>5 DEF Delete
  <2>2. e \notin unsaid BY DEF Acts
  <2> QED BY <1>1, <2>1, <2>2, WroteQuiet DEF HistoryInv
<1>6. CASE Move(e) \/ Import(e)
  <2> DEFINE kind == IF Move(e) THEN "move" ELSE "import"
  <2>1. /\ op' = [op EXCEPT ![e] = kind] /\ before' = [before EXCEPT ![e] = table]
        /\ quiet' = [quiet EXCEPT ![e] = unsaid = {}] /\ UNCHANGED unsaid
        /\ UNCHANGED <<clean, misled>> /\ UNCHANGED probed
    BY <1>6 DEF Move, Import, Request, caching
  <2>2. \E place \in {"save", "answer", "find"} :
            pc' = [pc EXCEPT ![e] = place] /\ OpOK(place, kind)
    BY <1>6 DEF Move, Import, OpOK
  <2>3. kind \in {"none", "move", "import", "probe"} OBVIOUS
  <2> HIDE DEF kind
  <2>4. probed' = [probed EXCEPT ![e] = probed[e]] /\ probed[e] \in Probed BY <1>1, <2>1
  <2>5. clean' = [clean EXCEPT ![e] = clean[e]] /\ clean[e] \in BOOLEAN BY <1>1, <2>1
  <2>6. quiet' \in [Editors -> BOOLEAN] /\ misled' \in [Editors -> BOOLEAN]
    BY <1>1, <2>1
  <2>7. \A d \in Editors : op'[d] # "none" /\ quiet'[d] => unsaid' \subseteq {d}
    BY <1>1, <2>1
  <2> QED BY <1>1, <1>2, <2>1, <2>2, <2>3, <2>4, <2>5, <2>6, <2>7, HistoryMoves
<1>7. CASE Probe(e)
  <2> DEFINE ok == troubles' = troubles
  <2>1. /\ op' = [op EXCEPT ![e] = "probe"] /\ clean' = [clean EXCEPT ![e] = ok]
        /\ quiet' = [quiet EXCEPT ![e] = unsaid = {}] /\ UNCHANGED unsaid
        /\ misled' = [misled EXCEPT ![e] = misled[e] \/ missed] /\ cache' = cache
        /\ UNCHANGED before /\ pc' = [pc EXCEPT ![e] = "resolve"]
    BY <1>7 DEF Probe, EnsureLoaded, caching
  <2>2. PICK alert \in Alerts :
           probed' = [probed EXCEPT ![e] = [alert |-> alert, row |-> Match(cache, alert), id |-> 0]]
    BY <1>7 DEF Probe
  <2>3. cache \in Seq(Row) BY DEF TypeInv, CacheTypes
  <2> DEFINE record == [alert |-> alert, row |-> Match(cache, alert), id |-> 0]
  <2>4. Match(cache, alert) \in Seq(Row) BY <2>3, MatchIsRow
  <2>5. record \in Probed BY <2>4 DEF Probed
  <2>6. OpOK("resolve", "probe") BY DEF OpOK
  <2>7. before' = [before EXCEPT ![e] = before[e]] /\ before[e] \in SUBSET Row
    BY <1>1, <2>1
  <2>8. /\ ok \in BOOLEAN /\ quiet' \in [Editors -> BOOLEAN]
        /\ misled' \in [Editors -> BOOLEAN]
    BY <1>1, <2>1
  <2>10. \A d \in Editors : op'[d] # "none" /\ quiet'[d] => unsaid' \subseteq {d}
    BY <1>1, <2>1
  <2>9. probed' = [probed EXCEPT ![e] = record] BY <2>2
  <2> HIDE DEF ok, record
  <2> QED BY <1>1, <2>1, <2>5, <2>6, <2>7, <2>8, <2>9, <2>10, HistoryMoves
<1>8. CASE Answer(e)
  <2>1. /\ op' = [op EXCEPT ![e] = "none"] /\ clean' = [clean EXCEPT ![e] = TRUE]
        /\ before' = [before EXCEPT ![e] = {}] /\ probed' = [probed EXCEPT ![e] = NoProbe]
        /\ quiet' = [quiet EXCEPT ![e] = TRUE] /\ pc' = [pc EXCEPT ![e] = "idle"]
        /\ misled' = [misled EXCEPT ![e] = FALSE] /\ UNCHANGED unsaid
    BY <1>8 DEF Answer, caching
  <2>2. NoProbe \in Probed BY DEF NoProbe, Probed
  <2>3. OpOK("idle", "none") BY DEF OpOK
  <2>4. quiet' \in [Editors -> BOOLEAN] /\ misled' \in [Editors -> BOOLEAN]
    BY <1>1, <2>1
  <2>7. \A d \in Editors : op'[d] # "none" /\ quiet'[d] => unsaid' \subseteq {d}
    BY <1>1, <2>1
  <2> DEFINE rows == {}
             ok == TRUE
  <2>5. /\ before' = [before EXCEPT ![e] = rows] /\ rows \in SUBSET Row
        /\ clean' = [clean EXCEPT ![e] = ok] /\ ok \in BOOLEAN
    BY <2>1
  <2>6. "none" \in {"none", "move", "import", "probe"} OBVIOUS
  <2> HIDE DEF rows, ok
  <2> QED BY <1>1, <2>1, <2>2, <2>3, <2>4, <2>5, <2>6, <2>7, HistoryMoves
<1> QED BY <1>3, <1>4, <1>5, <1>6, <1>7, <1>8, HistoryWithin DEF Acts, Work

\* The steps of the cache alone, and those of nobody.
LEMMA HistoryStays ==
    ASSUME HistoryInv, UNCHANGED history, UNCHANGED <<pc, probed>>,
           unsaid' \in SUBSET unsaid
    PROVE  HistoryInv'
<1>1. UNCHANGED <<op, before, quiet, clean, misled>> BY DEF history
<1> QED BY <1>1 DEF HistoryInv

\* What a step of an editor means for the others: it leaves what they have and
\* remember, the table too unless it disturbs them, and the file of an import.
LEMMA Bystander ==
    ASSUME TypeInv, HistoryInv, NEW e \in Editors, NEW d \in Editors, d # e, Acts(e)
    PROVE  /\ pc'[d] = pc[d] /\ todo'[d] = todo[d] /\ probed'[d] = probed[d]
           /\ op'[d] = op[d] /\ before'[d] = before[d]
           /\ (clean'[d] <=> clean[d]) /\ (misled'[d] <=> misled[d])
           /\ op[d] # "none" /\ quiet'[d] => quiet[d] /\ UNCHANGED repo
           /\ op[d] = "import" => UNCHANGED file
<1>1. /\ op \in [Editors -> {"none", "move", "import", "probe"}]
      /\ before \in [Editors -> SUBSET Row]
      /\ probed \in [Editors -> Probed]
      /\ quiet \in [Editors -> BOOLEAN] /\ clean \in [Editors -> BOOLEAN]
      /\ misled \in [Editors -> BOOLEAN]
      /\ pc \in [Editors -> Places] /\ todo \in [Editors -> Seq(Known)]
  BY DEF HistoryInv, TypeInv, HandlerTypes
<1> HIDE DEF Known
<1>2. pc'[d] = pc[d] /\ todo'[d] = todo[d] /\ probed'[d] = probed[d]
  <2>1. CASE OpenForm(e) \/ Submit(e) \/ Leave(e) \/ Delete(e)
    BY <1>1, <2>1 DEF OpenForm, Submit, Leave, Delete, Close
  <2>2. CASE Move(e) \/ SaveNext(e) \/ Export(e) \/ Import(e)
    BY <1>1, <2>2 DEF Move, SaveNext, Export, Import, Request
  <2>3. CASE Find(e) \/ Lookup(e) \/ Store(e)
    BY <1>1, <2>3 DEF Find, Lookup, Store, TakeId
  <2>4. CASE Probe(e) \/ Resolve(e) \/ Fails(e) \/ Answer(e)
    BY <1>1, <2>4 DEF Probe, Resolve, Fails, Answer
  <2> QED BY <2>1, <2>2, <2>3, <2>4 DEF Acts, Work
<1>3. op'[d] = op[d] /\ before'[d] = before[d]
  <2>1. CASE OpenForm(e) \/ Submit(e) \/ Leave(e) \/ Delete(e)
    BY <1>1, <2>1 DEF OpenForm, Submit, Leave, Delete, history
  <2>2. CASE Move(e) \/ SaveNext(e) \/ Export(e) \/ Import(e)
    BY <1>1, <2>2 DEF Move, SaveNext, Export, Import, Request, history
  <2>3. CASE Find(e) \/ Lookup(e) \/ Store(e)
    BY <1>1, <2>3 DEF Find, Lookup, Store
  <2>4. CASE Probe(e) \/ Resolve(e) \/ Fails(e) \/ Answer(e)
    BY <1>1, <2>4 DEF Probe, Resolve, Fails, Answer, history
  <2> QED BY <2>1, <2>2, <2>3, <2>4 DEF Acts, Work
<1>4. clean'[d] <=> clean[d]
  <2>1. \/ UNCHANGED clean
        \/ \E ok : clean' = [clean EXCEPT ![e] = ok]
    <3>1. CASE OpenForm(e) \/ Submit(e) \/ Leave(e) \/ Delete(e)
      BY <3>1 DEF OpenForm, Submit, Leave, Delete, history, Cleanly
    <3>2. CASE Move(e) \/ SaveNext(e) \/ Export(e) \/ Import(e)
      BY <3>2 DEF Move, SaveNext, Export, Import, Request, history, Cleanly
    <3>3. CASE Find(e) \/ Lookup(e) \/ Store(e)
      BY <3>3 DEF Find, Lookup, Store, Cleanly
    <3>4. CASE Probe(e) \/ Resolve(e) \/ Fails(e) \/ Answer(e)
      BY <3>4 DEF Probe, Resolve, Fails, Answer, history, Cleanly
    <3> QED BY <3>1, <3>2, <3>3, <3>4 DEF Acts, Work
  <2>2. clean'[d] = clean[d] BY <1>1, <2>1
  <2> QED BY <2>2
<1>7. misled'[d] <=> misled[d]
  <2>1. \/ UNCHANGED misled
        \/ \E led : misled' = [misled EXCEPT ![e] = led]
    <3>1. CASE OpenForm(e) \/ Submit(e) \/ Leave(e) \/ Delete(e)
      BY <3>1 DEF OpenForm, Submit, Leave, Delete, history
    <3>2. CASE Move(e) \/ SaveNext(e) \/ Export(e) \/ Import(e)
      BY <3>2 DEF Move, SaveNext, Export, Import, Request, history
    <3>3. CASE Find(e) \/ Lookup(e) \/ Store(e)
      BY <3>3 DEF Find, Lookup, Store, EnsureLoaded
    <3>4. CASE Probe(e) \/ Resolve(e) \/ Fails(e) \/ Answer(e)
      BY <3>4 DEF Probe, Resolve, Fails, Answer, history, EnsureLoaded
    <3> QED BY <3>1, <3>2, <3>3, <3>4 DEF Acts, Work
  <2>2. misled'[d] = misled[d] BY <1>1, <2>1
  <2> QED BY <2>2
<1>5. ASSUME op[d] # "none", quiet'[d] PROVE quiet[d] /\ UNCHANGED repo
  <2>1. \/ UNCHANGED quiet /\ UNCHANGED repo
        \/ quiet' = [quiet EXCEPT ![e] = TRUE] /\ UNCHANGED repo
        \/ quiet' = [quiet EXCEPT ![e] = unsaid = {}] /\ UNCHANGED repo
        \/ Wrote(e)
    <3>1. CASE OpenForm(e) \/ Submit(e) \/ Leave(e) \/ Delete(e)
      BY <3>1 DEF OpenForm, Submit, Leave, Delete, history, Save, Insert, Refuses, repo
    <3>2. CASE Move(e) \/ SaveNext(e) \/ Export(e) \/ Import(e)
      BY <3>2 DEF Move, SaveNext, Export, Import, Request, history, Save, Insert, Refuses, repo
    <3>3. CASE Find(e) \/ Lookup(e) \/ Store(e)
      BY <3>3 DEF Find, Lookup, Store, Save, Insert, Refuses, repo
    <3>4. CASE Probe(e) \/ Resolve(e) \/ Fails(e) \/ Answer(e)
      BY <3>4 DEF Probe, Resolve, Fails, Answer, history, repo
    <3> QED BY <3>1, <3>2, <3>3, <3>4 DEF Acts, Work
  <2>2. ~Wrote(e) BY <1>5 DEF Wrote
  <2> QED BY <1>1, <1>5, <2>1, <2>2
<1>6. op[d] = "import" => UNCHANGED file
  <2>1. CASE Export(e) BY <2>1 DEF Export
  <2>2. CASE ~Export(e)
    <3>1. UNCHANGED file
      BY <2>2 DEF Acts, Work, OpenForm, Submit, Leave, Delete, Move, SaveNext, Import,
         Find, Lookup, Store, Probe, Resolve, Fails, Answer
    <3> QED BY <3>1
  <2> QED BY <2>1, <2>2
<1> QED BY <1>2, <1>3, <1>4, <1>5, <1>6, <1>7

----------------------------------------------------------------------------
(* The scenario of an alert.                                               *)

\* A cache that has missed no write, and for which none is still to be announced,
\* is a listing of the table; so is what a load has read.
CacheInv ==
    /\ fresh /\ ~missed /\ unsaid = {} => cache \in Listings(table)
    /\ \A q \in loading : ~missed => q \in Listings(table)

\* The row of an undisturbed probe is the match in a listing of the table, and
\* its answer the id of that row.
ProbeInv ==
    \A e \in Editors : op[e] = "probe" /\ quiet[e] /\ clean[e] /\ ~misled[e] =>
        /\ \E q \in Listings(table) : probed[e].row = Match(q, probed[e].alert)
        /\ pc[e] = "answer" => probed[e].id = IdOf(probed[e].row, table)

LEMMA CacheStep ==
    ASSUME CacheInv, NEW e \in Editors, Acts(e)
    PROVE  CacheInv'
<1>1. Wrote(e) \/ (UNCHANGED repo /\ UNCHANGED caching)
  <2>1. CASE OpenForm(e) \/ Submit(e) \/ Leave(e) \/ Delete(e)
    BY <2>1 DEF OpenForm, Submit, Leave, Delete, Save, Insert, Refuses
  <2>2. CASE Move(e) \/ SaveNext(e) \/ Export(e) \/ Import(e)
    BY <2>2 DEF Move, SaveNext, Export, Import, Save, Insert, Refuses
  <2>3. CASE Find(e) \/ Lookup(e) \/ Store(e)
    BY <2>3 DEF Find, Lookup, Store, Save, Insert, Refuses, EnsureLoaded
  <2>4. CASE Probe(e) \/ Resolve(e) \/ Fails(e) \/ Answer(e)
    BY <2>4 DEF Probe, Resolve, Fails, Answer, EnsureLoaded
  <2> QED BY <2>1, <2>2, <2>3, <2>4 DEF Acts, Work
<1>2. CASE Wrote(e)
  <2>1. /\ unsaid' = unsaid \union ({e} \ away) /\ loading' = loading
        /\ missed' = (missed \/ e \in away \/ loading # {})
    BY <1>2 DEF Wrote
  <2>2. missed' \/ unsaid' # {} BY <2>1
  <2>3. missed' \/ loading' = {} BY <2>1
  <2> QED BY <2>2, <2>3 DEF CacheInv
<1>3. CASE UNCHANGED repo /\ UNCHANGED caching
  BY <1>3 DEF CacheInv, repo, caching
<1> QED BY <1>1, <1>2, <1>3

LEMMA CacheStirs ==
    ASSUME CacheInv, Stir
    PROVE  CacheInv'
<1>1. table' = table BY StirLeaves DEF repo
<1>2. CASE \E e \in Editors : Invalidate(e) BY <1>1, <1>2 DEF Invalidate, CacheInv
<1>3. CASE Query
  <2>1. PICK q \in Listings(table) : loading' = {q} BY <1>3 DEF Query
  <2>2. fresh' = fresh /\ ~fresh BY <1>3 DEF Query
  <2> QED BY <1>1, <2>1, <2>2 DEF CacheInv
<1>4. CASE QueryEnds BY <1>1, <1>4 DEF QueryEnds, CacheInv
<1> QED BY <1>2, <1>3, <1>4 DEF Stir

\* A handler that met no trouble, and that no missed write misled, has read a
\* listing of the table.
LEMMA LoadGives ==
    ASSUME TypeInv, HistoryInv, CacheInv, NEW e \in Editors,
           EnsureLoaded(e), troubles' = troubles, ~misled'[e], unsaid = {}
    PROVE  cache \in Listings(table) /\ ~misled[e]
<1>1. ~Trouble BY DEF Trouble, TypeInv, CacheTypes
<1>2. misled' = [misled EXCEPT ![e] = misled[e] \/ missed] BY DEF EnsureLoaded
<1>3. misled'[e] = (misled[e] \/ missed) BY <1>2 DEF HistoryInv
<1> QED BY <1>1, <1>3 DEF EnsureLoaded, CacheInv

LEMMA ProbeStep ==
    ASSUME TypeInv, HistoryInv, CacheInv, ProbeInv, NEW e \in Editors, Acts(e)
    PROVE  ProbeInv'
<1> SUFFICES ASSUME NEW d \in Editors, (op[d] = "probe" /\ quiet[d] /\ clean[d] /\ ~misled[d])'
             PROVE  (/\ \E q \in Listings(table) : probed[d].row = Match(q, probed[d].alert)
                     /\ pc[d] = "answer" => probed[d].id = IdOf(probed[d].row, table))'
  BY DEF ProbeInv
<1>1. CASE d # e
  <2>1. /\ pc'[d] = pc[d] /\ probed'[d] = probed[d] /\ op'[d] = op[d]
        /\ (clean'[d] <=> clean[d]) /\ (misled'[d] <=> misled[d])
        /\ op[d] # "none" /\ quiet'[d] => quiet[d] /\ UNCHANGED repo
    BY <1>1, Bystander
  <2>2. op[d] = "probe" /\ quiet[d] /\ clean[d] /\ ~misled[d] /\ table' = table
    BY <2>1 DEF repo
  <2> QED BY <2>1, <2>2 DEF ProbeInv
<1>2. CASE d = e
  <2>1. /\ op \in [Editors -> {"none", "move", "import", "probe"}]
        /\ probed \in [Editors -> Probed]
        /\ quiet \in [Editors -> BOOLEAN] /\ clean \in [Editors -> BOOLEAN]
        /\ OpOK(pc[e], op[e]) /\ pc \in [Editors -> Places]
    BY DEF HistoryInv, TypeInv, HandlerTypes
  <2>2. op'[e] = "probe" BY <1>2
  <2>3. Probe(e) \/ Resolve(e)
    <3>1. CASE OpenForm(e) \/ Leave(e) \/ Export(e) \/ Fails(e) \/ Delete(e)
      <4>1. UNCHANGED op /\ pc[e] \in {"idle", "form"}
        BY <3>1 DEF OpenForm, Leave, Export, Fails, Delete, history
      <4> QED BY <2>1, <2>2, <4>1 DEF OpOK
    <3>2. CASE Submit(e) \/ SaveNext(e) \/ Find(e) \/ Lookup(e) \/ Store(e)
      <4>1. /\ UNCHANGED op
            /\ pc[e] \in {"form", "save", "find", "lookup", "update", "create"}
        BY <3>2 DEF Submit, SaveNext, Find, Lookup, Store
      <4> QED BY <2>1, <2>2, <4>1 DEF OpOK
    <3>3. CASE Move(e) \/ Import(e) BY <2>1, <2>2, <3>3 DEF Move, Import, Request
    <3>4. CASE Answer(e) BY <2>1, <2>2, <3>4 DEF Answer
    <3> QED BY <3>1, <3>2, <3>3, <3>4 DEF Acts, Work
  <2>4. CASE Probe(e)
    <3>1. PICK alert \in Alerts :
             probed' = [probed EXCEPT ![e] =
                           [alert |-> alert, row |-> Match(cache, alert), id |-> 0]]
      BY <2>4 DEF Probe
    <3>2. /\ clean' = [clean EXCEPT ![e] = troubles' = troubles]
          /\ quiet' = [quiet EXCEPT ![e] = unsaid = {}]
          /\ pc' = [pc EXCEPT ![e] = "resolve"] /\ UNCHANGED repo /\ EnsureLoaded(e)
      BY <2>4 DEF Probe
    <3>3. clean'[e] = (troubles' = troubles) /\ quiet'[e] = (unsaid = {}) BY <2>1, <3>2
    <3>4. troubles' = troubles /\ unsaid = {} /\ ~misled'[e] BY <1>2, <3>3
    <3>5. cache \in Listings(table) /\ table' = table BY <3>2, <3>4, LoadGives DEF repo
    <3>6. probed'[e] = [alert |-> alert, row |-> Match(cache, alert), id |-> 0]
      BY <2>1, <3>1
    <3>7. probed'[e].row = Match(cache, probed'[e].alert) BY <3>6
    <3>8. pc'[e] = "resolve" BY <2>1, <3>2
    <3> QED BY <1>2, <3>5, <3>7, <3>8
  <2>5. CASE Resolve(e)
    <3>1. /\ UNCHANGED <<op, quiet, misled>> /\ UNCHANGED repo /\ Cleanly(e)
          /\ pc[e] = "resolve"
      BY <2>5 DEF Resolve
    <3>2. op[e] = "probe" BY <2>2, <3>1
    <3>3. clean'[e] = (clean[e] /\ troubles' = troubles)
      BY <2>1, <3>1, <3>2 DEF Cleanly
    <3>4. clean[e] /\ troubles' = troubles BY <1>2, <3>3
    <3>5. PICK q \in Listings(table) : probed[e].row = Match(q, probed[e].alert)
      BY <1>2, <3>1, <3>2, <3>4 DEF ProbeInv
    <3>6. ~Trouble BY <3>4 DEF Trouble, TypeInv, CacheTypes
    <3>7. probed' = [probed EXCEPT ![e] = [probed[e] EXCEPT !.id = IdOf(probed[e].row, table)]]
      BY <2>5, <3>6 DEF Resolve, IdOf
    <3>8. probed[e] \in Probed BY <2>1
    <3> DEFINE id == IdOf(probed[e].row, table)
    <3>9. probed'[e] = [probed[e] EXCEPT !.id = id] BY <2>1, <3>7
    <3> HIDE DEF id
    <3>10. /\ probed'[e].row = probed[e].row /\ probed'[e].alert = probed[e].alert
           /\ probed'[e].id = id
      BY <3>8, <3>9 DEF Probed
    <3>11. table' = table BY <3>1 DEF repo
    <3> QED BY <1>2, <3>5, <3>10, <3>11 DEF id
  <2> QED BY <2>3, <2>4, <2>5
<1> QED BY <1>1, <1>2

\* The id of a row of the table, and of no row.
LEMMA IdOfRows ==
    ASSUME TableInv
    PROVE  /\ IdOf(<<>>, table) = 0
           /\ \A s \in table : IdOf(<<s>>, table) = s.id
<1>1. IdOf(<<>>, table) = 0
  <2>1. ToSet(<<>>) = {} BY DEF ToSet
  <2> QED BY <2>1 DEF IdOf
<1>2. ASSUME NEW s \in table PROVE IdOf(<<s>>, table) = s.id
  <2> DEFINE ids == UNION {{r.id : r \in Named(table, t.name)} : t \in ToSet(<<s>>)}
  <2>1. ToSet(<<s>>) = {s} BY DEF ToSet
  <2>2. Named(table, s.name) = {s} BY DEF TableInv, Named
  <2>3. ids = {s.id} BY <2>1, <2>2
  <2>4. s.id \in Nat BY DEF TableInv
  <2>5. IdOf(<<s>>, table) = Max({s.id}) BY <2>3 DEF IdOf
  <2> DEFINE n == s.id
  <2> HIDE DEF n
  <2>6. Max({n}) \in {n}
    <3>1. {n} \in SUBSET (0..n) /\ {n} # {} /\ n \in Nat BY <2>4 DEF n
    <3> QED BY <3>1, GreatestOf
  <2> QED BY <2>5, <2>6 DEF n
<1> QED BY <1>1, <1>2

LEMMA MeetsIsValue ==
    ASSUME NEW alert, NEW k, NEW value
    PROVE  Meets(alert, k, value) <=> Value(alert, k) = value
<1>1. CASE k \in DOMAIN alert BY <1>1 DEF Meets, Value
<1>2. CASE k \notin DOMAIN alert BY <1>2 DEF Meets, Value
<1> QED BY <1>1, <1>2

LEMMA CaughtOf == TypeInv /\ HistoryInv /\ ProbeInv => CaughtByTheFirst
<1> SUFFICES ASSUME TypeInv, HistoryInv, ProbeInv, NEW e \in Editors,
                    Done(e, "probe"), clean[e], ~misled[e]
             PROVE  LET alert == probed[e].alert
                        spare == {r \in table : Catchall(r)}
                        hits == {r \in table \ spare :
                                    \A k \in DOMAIN r.match : Meets(alert, k, r.match[k])}
                        got == {r \in table : r.id = probed[e].id}
                    IN  CASE hits # {} ->
                                \E r \in got \intersect hits : \A s \in hits : r.order <= s.order
                          [] hits = {} /\ spare # {} ->
                                \E r \in got \intersect spare : \A s \in spare : s.order <= r.order
                          [] OTHER -> got = {}
  BY DEF CaughtByTheFirst
<1> DEFINE alert == probed[e].alert
           spare == {r \in table : Catchall(r)}
           hits == {r \in table \ spare :
                       \A k \in DOMAIN r.match : Meets(alert, k, r.match[k])}
           got == {r \in table : r.id = probed[e].id}
<1>1. pc[e] = "answer" /\ op[e] = "probe" /\ quiet[e] BY DEF Done
<1>2. PICK q \in Listings(table) : probed[e].row = Match(q, alert) BY <1>1 DEF ProbeInv
<1>3. probed[e].id = IdOf(Match(q, alert), table) BY <1>1, <1>2 DEF ProbeInv
<1>4. /\ q \in Seq(table) /\ q \in Seq(Row)
      /\ \A r \in table : \E i \in DOMAIN q : q[i] = r
      /\ \A i, j \in DOMAIN q : i <= j => q[i].order <= q[j].order
  BY ListingFacts DEF TypeInv, TableInv
<1>5. /\ IdOf(<<>>, table) = 0
      /\ \A s \in table : IdOf(<<s>>, table) = s.id
      /\ \A s \in table : s.id # 0
  BY IdOfRows DEF TypeInv, TableInv
<1> DEFINE H == {i \in Labelled(q) : LabelsMatch(q[i].match, alert)}
           C == DOMAIN q \ Labelled(q)
<1>6. /\ H # {} => \E i \in H : Match(q, alert) = <<q[i]>> /\ \A j \in H : i <= j
      /\ H = {} /\ C # {} =>
            \E i \in C : Match(q, alert) = <<q[i]>> /\ \A j \in C : j <= i
      /\ H = {} /\ C = {} => Match(q, alert) = <<>>
  BY <1>4, MatchFacts
<1>7. \A i \in DOMAIN q : q[i] \in table BY <1>4
<1>17. \A r \in table : r \in hits <=> ~Catchall(r) /\ LabelsMatch(r.match, alert)
  BY MeetsIsValue DEF LabelsMatch
<1>18. \A r : r \in spare <=> r \in table /\ Catchall(r) OBVIOUS
<1>9. H \subseteq DOMAIN q /\ C \subseteq DOMAIN q BY DEF Labelled
<1>11. hits \subseteq table OBVIOUS
<1> HIDE DEF hits, spare, alert
<1>8. \A i \in DOMAIN q : /\ i \in H <=> q[i] \in hits
                          /\ i \in C <=> q[i] \in spare
  BY <1>7, <1>17, <1>18 DEF Labelled
<1>12. \A r \in table : r \in got <=> r.id = probed[e].id OBVIOUS
<1>13. got \subseteq table OBVIOUS
<1> HIDE DEF H, C, got
<1>14. CASE hits # {}
  <2>1. H # {} BY <1>4, <1>8, <1>11, <1>14
  <2>2. PICK i \in H : Match(q, alert) = <<q[i]>> /\ \A j \in H : i <= j BY <1>6, <2>1
  <2>3. q[i] \in hits /\ q[i] \in table BY <1>7, <1>8, <1>9
  <2>4. probed[e].id = q[i].id BY <1>3, <1>5, <2>2, <2>3
  <2>5. q[i] \in got BY <1>12, <2>3, <2>4
  <2>6. \A s \in hits : q[i].order <= s.order
    <3> SUFFICES ASSUME NEW s \in hits PROVE q[i].order <= s.order OBVIOUS
    <3>1. PICK j \in DOMAIN q : q[j] = s BY <1>4, <1>11
    <3>2. j \in H BY <1>8, <3>1
    <3> QED BY <1>4, <1>9, <2>2, <3>1, <3>2
  <2> QED BY <1>14, <2>3, <2>5, <2>6 DEF hits, spare, got, alert
<1>15. CASE hits = {} /\ spare # {}
  <2>1. H = {} BY <1>8, <1>9, <1>15
  <2>2. C # {} BY <1>4, <1>8, <1>15, <1>18
  <2>3. PICK i \in C : Match(q, alert) = <<q[i]>> /\ \A j \in C : j <= i BY <1>6, <2>1, <2>2
  <2>4. q[i] \in spare /\ q[i] \in table BY <1>7, <1>8, <1>9
  <2>5. probed[e].id = q[i].id BY <1>3, <1>5, <2>3, <2>4
  <2>6. q[i] \in got BY <1>12, <2>4, <2>5
  <2>7. \A s \in spare : s.order <= q[i].order
    <3> SUFFICES ASSUME NEW s \in spare PROVE s.order <= q[i].order OBVIOUS
    <3>1. PICK j \in DOMAIN q : q[j] = s BY <1>4, <1>18
    <3>2. j \in C BY <1>8, <3>1
    <3> QED BY <1>4, <1>9, <2>3, <3>1, <3>2
  <2> QED BY <1>15, <2>4, <2>6, <2>7 DEF hits, spare, got, alert
<1>16. CASE hits = {} /\ spare = {}
  <2>1. H = {} /\ C = {} BY <1>7, <1>8, <1>9, <1>16
  <2>2. probed[e].id = 0 BY <1>3, <1>5, <1>6, <2>1
  <2>3. got = {} BY <1>5, <1>12, <1>13, <2>2
  <2> QED BY <1>16, <2>3 DEF hits, spare, got, alert
<1> QED BY <1>14, <1>15, <1>16

CaughtInv == TypeInv /\ HistoryInv /\ CacheInv /\ ProbeInv

LEMMA CaughtInit == Init => CaughtInv
<1> SUFFICES ASSUME Init PROVE CaughtInv OBVIOUS
<1>1. fresh = FALSE /\ loading = {} /\ op = [e \in Editors |-> "none"] BY DEF Init
<1>2. CacheInv /\ ProbeInv BY <1>1 DEF CacheInv, ProbeInv
<1> QED BY <1>2, InitTypes, HistoryInit DEF CaughtInv

LEMMA CaughtStep == CaughtInv /\ [Next]_vars => CaughtInv'
<1> SUFFICES ASSUME CaughtInv, [Next]_vars PROVE CaughtInv' OBVIOUS
<1>1. TypeInv' BY TypesStep DEF CaughtInv
<1>2. CASE Stir \/ UNCHANGED vars
  <2>1. UNCHANGED history /\ UNCHANGED <<pc, probed>> /\ table' = table
    BY <1>2, StirLeaves DEF vars, repo
  <2>2. unsaid' \in SUBSET unsaid
    BY <1>2 DEF vars, caching, Stir, Invalidate, Query, QueryEnds
  <2>3. HistoryInv' BY <2>1, <2>2, HistoryStays DEF CaughtInv
  <2>4. CacheInv'
    <3>1. CASE UNCHANGED vars BY <3>1 DEF vars, caching, repo, CaughtInv, CacheInv
    <3> QED BY <1>2, <3>1, CacheStirs DEF CaughtInv
  <2>5. ProbeInv' BY <2>1 DEF CaughtInv, ProbeInv, history
  <2> QED BY <1>1, <2>3, <2>4, <2>5 DEF CaughtInv
<1>3. CASE \E e \in Editors : Acts(e)
  <2>1. PICK e \in Editors : Acts(e) BY <1>3
  <2> QED BY <1>1, <2>1, HistoryStep, CacheStep, ProbeStep DEF CaughtInv
<1> QED BY <1>2, <1>3 DEF Next, Stir, Acts

LEMMA CaughtAlways == Spec => []CaughtInv
  BY CaughtInit, CaughtStep, PTL DEF Spec

\* Whatever edits came before, the scenario that a probe answers with (and the
\* webhook finds, which asks the same method) is the first that matches the alert
\* in the order of the positions, and the last catch-all only if none does -
\* unless the cache it read had missed a write: one made during its load or at
\* another replica.
THEOREM FirstMatchCatches == Spec => []CaughtByTheFirst
<1>1. CaughtInv => CaughtByTheFirst BY CaughtOf DEF CaughtInv
<1> QED BY <1>1, CaughtAlways, PTL

----------------------------------------------------------------------------
(* Imports.                                                                *)

\* No name comes twice in a file.
NamesDiffer(f) == \A i, j \in DOMAIN f : f[i].name = f[j].name => i = j

\* The first n entries of f are in rows, and nothing else of old has changed.  An
\* import that has been misled may have left out an entry, for a row of its name.
Loaded(f, rows, old, n, led) ==
    /\ \A i \in 1..n : \/ \E r \in rows : [r EXCEPT !.id = 0] = f[i]
                       \/ led /\ \E r \in rows \intersect old : r.name = f[i].name
    /\ \A r \in old :
          IF \E i \in 1..n : f[i].name = r.name
            THEN \E s \in rows : s.id = r.id /\ s.name = r.name
            ELSE r \in rows
    /\ \A r \in rows : \/ \E s \in old : s.name = r.name
                       \/ \E i \in 1..n : f[i].name = r.name

\* How far an import is: rest are the entries that it still has.
Gone(f, rest) == Len(f) - Len(rest)
Halfway(f, rows, place, rest, led) ==
    LET n == Gone(f, rest) IN
    /\ Len(rest) <= Len(f)
    /\ \A i \in DOMAIN rest : i > 1 \/ place # "update" => rest[i] = f[n + i]
    /\ place = "lookup" => led \/ Named(rows, f[n + 1].name) # {}
    /\ place = "create" => led \/ Named(rows, f[n + 1].name) = {}
    /\ place = "update" =>
          \/ \E r \in Named(rows, f[n + 1].name) : rest[1] = [f[n + 1] EXCEPT !.id = r.id]
          \/ led /\ Named(rows, f[n + 1].name) = {} /\ rest[1] = f[n + 1]
    /\ place = "answer" => rest = <<>>

ImportInv ==
    \A e \in Editors : op[e] = "import" /\ quiet[e] /\ clean[e] =>
        /\ Halfway(file, table, pc[e], todo[e], misled[e])
        /\ Loaded(file, table, before[e], Gone(file, todo[e]), misled[e])

LEMMA EntryWithId ==
    ASSUME NEW f \in Entry, NEW k \in Nat
    PROVE  LET r == [f EXCEPT !.id = k] IN
           /\ r \in Row /\ r.id = k /\ r.name = f.name
           /\ [r EXCEPT !.id = 0] = f
<1>1. f \in Row /\ f.id = 0 BY DEF Entry
<1> DEFINE r == [f EXCEPT !.id = k]
<1>2. r \in Row /\ r.id = k /\ r.name = f.name BY <1>1, IdOfRow
<1>3. [r EXCEPT !.id = 0] = f BY <1>1 DEF Row
<1> QED BY <1>2, <1>3

\* The rows that are left after one with another name or id is replaced or added
\* stay as they were.
LEMMA EntryLoads ==
    ASSUME NEW f \in Seq(Entry), NamesDiffer(f),
           NEW rows, NEW old, NEW led, NEW n \in Nat, n < Len(f),
           Loaded(f, rows, old, n, led),
           \A r \in rows : r \in Row,
           NEW others \in SUBSET rows, NEW k \in Nat,
           \A r \in rows : r \notin others =>
               r.name = f[n + 1].name /\ r.id = k,
           \A r \in others : r.name # f[n + 1].name
    PROVE  Loaded(f, others \union {[f[n + 1] EXCEPT !.id = k]}, old, n + 1, led)
<1> DEFINE new == [f[n + 1] EXCEPT !.id = k]
           result == others \union {new}
<1>1. /\ n + 1 \in DOMAIN f /\ n + 1 \in Nat /\ f[n + 1] \in Entry
      /\ \A i \in 1..n : i \in DOMAIN f /\ i # n + 1
  OBVIOUS
<1>2. new \in Row /\ new.id = k /\ new.name = f[n + 1].name /\ [new EXCEPT !.id = 0] = f[n + 1]
  BY <1>1, EntryWithId
<1>3. \A i \in 1..(n + 1) : i \in 1..n \/ i = n + 1 OBVIOUS
<1>4. n + 1 \in 1..(n + 1) /\ \A i \in 1..n : i \in 1..(n + 1) OBVIOUS
<1>5. \A i \in 1..n : f[i].name # f[n + 1].name BY <1>1 DEF NamesDiffer
<1>6. \A r \in others : r \in result BY DEF result
<1>7. new \in result BY DEF result
<1>8. \A r \in result : r \in others \/ r = new BY DEF result
<1> HIDE DEF new, result
<1>9. \A i \in 1..(n + 1) :
         \/ \E r \in result : [r EXCEPT !.id = 0] = f[i]
         \/ led /\ \E r \in result \intersect old : r.name = f[i].name
  <2> SUFFICES ASSUME NEW i \in 1..(n + 1)
               PROVE  \/ \E r \in result : [r EXCEPT !.id = 0] = f[i]
                      \/ led /\ \E r \in result \intersect old : r.name = f[i].name
    OBVIOUS
  <2>1. CASE i = n + 1 BY <1>2, <1>7, <2>1
  <2>2. CASE i \in 1..n /\ \E r \in rows : [r EXCEPT !.id = 0] = f[i]
    <3>1. PICK r \in rows : [r EXCEPT !.id = 0] = f[i] BY <2>2
    <3>2. r.name = f[i].name
      <4>1. r \in Row /\ 0 \in Nat OBVIOUS
      <4>2. [r EXCEPT !.id = 0].name = r.name BY <4>1, IdOfRow
      <4> QED BY <3>1, <4>2
    <3>3. r \in others BY <1>5, <2>2, <3>2
    <3> QED BY <1>6, <3>1, <3>3
  <2>3. CASE i \in 1..n /\ led /\ \E r \in rows \intersect old : r.name = f[i].name
    <3>1. PICK r \in rows \intersect old : r.name = f[i].name BY <2>3
    <3>2. r \in others BY <1>5, <2>3, <3>1
    <3> QED BY <1>6, <2>3, <3>1, <3>2
  <2> QED BY <1>3, <2>1, <2>2, <2>3 DEF Loaded
<1>10. ASSUME NEW r \in old
       PROVE  IF \E i \in 1..(n + 1) : f[i].name = r.name
                THEN \E s \in result : s.id = r.id /\ s.name = r.name
                ELSE r \in result
  <2>1. CASE \E i \in 1..n : f[i].name = r.name
    <3>1. PICK s \in rows : s.id = r.id /\ s.name = r.name BY <2>1 DEF Loaded
    <3>2. s \in others BY <1>5, <2>1, <3>1
    <3>3. \E i \in 1..(n + 1) : f[i].name = r.name BY <1>4, <2>1
    <3> QED BY <1>6, <3>1, <3>2, <3>3
  <2>2. CASE ~(\E i \in 1..n : f[i].name = r.name)
    <3>1. r \in rows BY <2>2 DEF Loaded
    <3>2. CASE r.name = f[n + 1].name
      <4>1. r.id = k BY <3>1, <3>2
      <4>2. \E i \in 1..(n + 1) : f[i].name = r.name BY <1>4, <3>2
      <4> QED BY <1>2, <1>7, <3>2, <4>1, <4>2
    <3>3. CASE r.name # f[n + 1].name
      <4>1. r \in others BY <3>1, <3>3
      <4>2. ~(\E i \in 1..(n + 1) : f[i].name = r.name) BY <1>3, <2>2, <3>3
      <4> QED BY <1>6, <4>1, <4>2
    <3> QED BY <3>2, <3>3
  <2> QED BY <2>1, <2>2
<1>11. ASSUME NEW r \in result
       PROVE  \/ \E s \in old : s.name = r.name
              \/ \E i \in 1..(n + 1) : f[i].name = r.name
  <2>1. CASE r = new BY <1>2, <1>4, <2>1
  <2>2. CASE r \in others
    <3>1. \/ \E s \in old : s.name = r.name
          \/ \E i \in 1..n : f[i].name = r.name
      BY <2>2 DEF Loaded
    <3> QED BY <1>4, <3>1
  <2> QED BY <1>8, <2>1, <2>2
<1>12. Loaded(f, result, old, n + 1, led) BY <1>9, <1>10, <1>11 DEF Loaded
<1> QED BY <1>12 DEF result, new

\* An entry whose name is taken, and not by an earlier entry, may be left out.
LEMMA EntryIsLeftOut ==
    ASSUME NEW f \in Seq(Entry), NamesDiffer(f),
           NEW rows, NEW old, NEW n \in Nat, n < Len(f), Loaded(f, rows, old, n, TRUE),
           \A r, s \in rows : r.name = s.name => r = s,
           Named(rows, f[n + 1].name) # {}
    PROVE  Loaded(f, rows, old, n + 1, TRUE)
<1>1. /\ n + 1 \in DOMAIN f
      /\ \A i \in 1..n : i \in DOMAIN f /\ i # n + 1
      /\ \A i \in 1..(n + 1) : i \in 1..n \/ i = n + 1
      /\ n + 1 \in 1..(n + 1) /\ \A i \in 1..n : i \in 1..(n + 1)
  OBVIOUS
<1>2. \A i \in 1..n : f[i].name # f[n + 1].name BY <1>1 DEF NamesDiffer
<1>3. PICK r \in rows : r.name = f[n + 1].name BY DEF Named
<1>4. PICK o \in old : o.name = r.name BY <1>2, <1>3 DEF Loaded
<1>5. o \in rows /\ o = r BY <1>2, <1>3, <1>4 DEF Loaded
<1>6. \A i \in 1..(n + 1) :
         \/ \E s \in rows : [s EXCEPT !.id = 0] = f[i]
         \/ TRUE /\ \E s \in rows \intersect old : s.name = f[i].name
  BY <1>1, <1>3, <1>4, <1>5 DEF Loaded
<1>7. ASSUME NEW s \in old
      PROVE  IF \E i \in 1..(n + 1) : f[i].name = s.name
               THEN \E x \in rows : x.id = s.id /\ x.name = s.name
               ELSE s \in rows
  BY <1>1 DEF Loaded
<1>8. ASSUME NEW s \in rows
      PROVE  \/ \E x \in old : x.name = s.name
             \/ \E i \in 1..(n + 1) : f[i].name = s.name
  BY <1>1 DEF Loaded
<1> QED BY <1>6, <1>7, <1>8 DEF Loaded

LEMMA FileStep ==
    ASSUME TypeInv, NamesDiffer(file), NEW e \in Editors, Acts(e)
    PROVE  NamesDiffer(file')
<1>1. CASE Export(e)
  <2>1. PICK q \in Listings(table) : file' = [i \in DOMAIN q |-> [q[i] EXCEPT !.id = 0]]
    BY <1>1 DEF Export
  <2>2. /\ q \in Seq(table) /\ q \in Seq(Row)
        /\ \A i, j \in DOMAIN q : q[i] = q[j] => i = j
    BY ListingFacts DEF TypeInv, TableInv
  <2>3. \A i \in DOMAIN q : q[i] \in table /\ q[i] \in Row BY <2>2
  <2>4. \A i \in DOMAIN q : file'[i].name = q[i].name
    <3> SUFFICES ASSUME NEW i \in DOMAIN q PROVE file'[i].name = q[i].name OBVIOUS
    <3>1. file'[i] = [q[i] EXCEPT !.id = 0] BY <2>1
    <3> QED BY <2>3, <3>1, IdOfRow
  <2>5. DOMAIN file' = DOMAIN q BY <2>1
  <2>6. \A r, s \in table : r.name = s.name => r = s BY DEF TypeInv, TableInv
  <2> QED BY <2>2, <2>3, <2>4, <2>5, <2>6 DEF NamesDiffer
<1>2. CASE ~Export(e)
  <2>1. UNCHANGED file
    BY <1>2 DEF Acts, Work, OpenForm, Submit, Leave, Delete, Move, SaveNext, Import,
       Find, Lookup, Store, Probe, Resolve, Fails, Answer
  <2> QED BY <2>1
<1> QED BY <1>1, <1>2

LEMMA GoneFacts ==
    ASSUME TypeInv, NEW e \in Editors, todo[e] # <<>>, Len(todo[e]) <= Len(file)
    PROVE  /\ Gone(file, todo[e]) \in Nat /\ Gone(file, todo[e]) < Len(file)
           /\ Gone(file, todo[e]) + 1 \in DOMAIN file
           /\ file[Gone(file, todo[e]) + 1] \in Entry
           /\ Gone(file, Tail(todo[e])) = Gone(file, todo[e]) + 1
           /\ Len(Tail(todo[e])) <= Len(file)
           /\ Tail(todo[e]) # <<>> => 1 \in DOMAIN Tail(todo[e])
           /\ \A i \in DOMAIN Tail(todo[e]) :
                 i + 1 \in DOMAIN todo[e] /\ i + 1 > 1 /\ Tail(todo[e])[i] = todo[e][i + 1]
                 /\ Gone(file, todo[e]) + (i + 1) = (Gone(file, todo[e]) + 1) + i
<1> DEFINE t == todo[e]
<1>1. t \in Seq(Known) /\ file \in Seq(Entry) BY DEF TypeInv, HandlerTypes
<1>2. t # <<>> OBVIOUS
<1>3. Len(t) <= Len(file) OBVIOUS
<1> HIDE DEF t, Known
<1>4. Len(t) \in Nat /\ Len(t) # 0 /\ Len(file) \in Nat BY <1>1, <1>2
<1>5. /\ Tail(t) \in Seq(Known) /\ Len(Tail(t)) = Len(t) - 1
      /\ \A i \in 1..(Len(t) - 1) : Tail(t)[i] = t[i + 1]
  BY <1>1, <1>2, HeadTailProperties
<1> DEFINE n == Len(file) - Len(t)
<1>6. n \in Nat /\ n < Len(file) /\ n + 1 \in DOMAIN file
  BY <1>1, <1>3, <1>4
<1>7. file[n + 1] \in Entry BY <1>1, <1>6
<1>8. Len(file) - Len(Tail(t)) = n + 1 /\ Len(Tail(t)) <= Len(file) BY <1>3, <1>4, <1>5
<1>9. Tail(t) # <<>> => 1 \in DOMAIN Tail(t) BY <1>5
<1>10. \A i \in DOMAIN Tail(t) :
          i + 1 \in DOMAIN t /\ i + 1 > 1 /\ Tail(t)[i] = t[i + 1]
          /\ n + (i + 1) = (n + 1) + i
  <2>1. DOMAIN t = 1..Len(t) /\ DOMAIN Tail(t) = 1..(Len(t) - 1) BY <1>1, <1>5
  <2>2. \A i \in 1..(Len(t) - 1) :
           i + 1 \in 1..Len(t) /\ i + 1 > 1 /\ n + (i + 1) = (n + 1) + i
    BY <1>4, <1>6
  <2> QED BY <1>5, <2>1, <2>2
<1>11. Gone(file, t) = n /\ Gone(file, Tail(t)) = n + 1 BY <1>8 DEF Gone
<1> HIDE DEF n
<1> QED BY <1>6, <1>7, <1>8, <1>9, <1>10, <1>11 DEF t

\* One entry is in the table, and the import goes on to the next.
LEMMA NextEntry ==
    ASSUME TypeInv, NEW e \in Editors, todo[e] # <<>>,
           NEW led, Halfway(file, table, pc[e], todo[e], led), NEW place \in {"find", "answer"},
           place = "answer" => Tail(todo[e]) = <<>>
    PROVE  Halfway(file, table, place, Tail(todo[e]), led)
<1>1. Len(todo[e]) <= Len(file) BY DEF Halfway
<1>2. /\ Gone(file, Tail(todo[e])) = Gone(file, todo[e]) + 1
      /\ Len(Tail(todo[e])) <= Len(file)
      /\ \A i \in DOMAIN Tail(todo[e]) :
            i + 1 \in DOMAIN todo[e] /\ i + 1 > 1 /\ Tail(todo[e])[i] = todo[e][i + 1]
            /\ Gone(file, todo[e]) + (i + 1) = (Gone(file, todo[e]) + 1) + i
  BY <1>1, GoneFacts
<1>3. \A i \in DOMAIN todo[e] : i > 1 => todo[e][i] = file[Gone(file, todo[e]) + i] BY DEF Halfway
<1>4. \A i \in DOMAIN Tail(todo[e]) : Tail(todo[e])[i] = file[Gone(file, Tail(todo[e])) + i]
  <2> SUFFICES ASSUME NEW i \in DOMAIN Tail(todo[e])
               PROVE  Tail(todo[e])[i] = file[Gone(file, Tail(todo[e])) + i]
    OBVIOUS
  <2> DEFINE j == i + 1
  <2>1. /\ j \in DOMAIN todo[e] /\ j > 1 /\ Tail(todo[e])[i] = todo[e][j]
        /\ Gone(file, todo[e]) + j = (Gone(file, todo[e]) + 1) + i
    BY <1>2
  <2> HIDE DEF j
  <2>2. todo[e][j] = file[Gone(file, todo[e]) + j] BY <1>3, <2>1
  <2> QED BY <1>2, <2>1, <2>2
<1> QED BY <1>2, <1>4 DEF Halfway

\* The write of an entry loads it; the unique index can refuse it only to an import
\* that has been misled.
LEMMA StoreLoads ==
    ASSUME TypeInv, NamesDiffer(file), NEW e \in Editors, Store(e), troubles' = troubles,
           Halfway(file, table, pc[e], todo[e], misled[e]), misled[e] \in BOOLEAN,
           Loaded(file, table, before[e], Gone(file, todo[e]), misled[e])
    PROVE  Loaded(file, table', before[e], Gone(file, todo[e]) + 1, misled[e])
<1> DEFINE t == todo[e]
           n == Gone(file, t)
           name == file[n + 1].name
<1>1. pc[e] \in {"update", "create"} BY DEF Store
<1>2. /\ Head(t) = t[1] /\ t[1] \in Known /\ t # <<>> /\ t \in Seq(Known)
  BY <1>1, HandFacts DEF Holding
<1>3. Len(t) <= Len(file) BY DEF Halfway
<1>4. n \in Nat /\ n < Len(file) /\ n + 1 \in DOMAIN file /\ file[n + 1] \in Entry
  BY <1>2, <1>3, GoneFacts
<1>5. 1 \in DOMAIN t
  <2> HIDE DEF Known, t
  <2> QED BY <1>2
<1>6. /\ \A r \in table : r \in Row /\ r.id \in Nat \ {0}
      /\ \A r, s \in table : r.id = s.id \/ r.name = s.name => r = s
      /\ file \in Seq(Entry) /\ nextId \in Nat
  BY DEF TypeInv, TableInv, HandlerTypes
<1>7. ~Trouble BY DEF Trouble, TypeInv, CacheTypes
<1>8. CASE /\ pc[e] = "update"
           /\ \E r \in Named(table, name) : t[1] = [file[n + 1] EXCEPT !.id = r.id]
  <2>1. PICK r \in Named(table, name) : t[1] = [file[n + 1] EXCEPT !.id = r.id]
    BY <1>8
  <2>2. r \in table /\ r.name = name /\ r.id \in Nat /\ r.id # 0 BY <1>6, <2>1 DEF Named
  <2>3. t[1].id = r.id /\ t[1].name = name
    <3> DEFINE f == file[n + 1]
           k == r.id
           x == [f EXCEPT !.id = k]
    <3>1. f \in Entry /\ t[1] = x BY <1>4, <2>1
    <3>2. k \in Nat BY <2>2
    <3> HIDE DEF f, k
    <3>3. x.id = k /\ x.name = f.name BY <3>1, <3>2, EntryWithId
    <3> HIDE DEF x
    <3> QED BY <3>1, <3>3 DEF f, k
  <2>4. TakenBy(t[1]) = {}
    <3>1. \A s \in table : s.name = name => s = r BY <1>6, <2>2
    <3> QED BY <2>3, <3>1 DEF TakenBy
  <2>5. Save(e, t[1])
    <3>1. Save(e, t[1]) \/ Refuses(t[1]) BY <1>2, <1>8 DEF Store
    <3>2. ~Refuses(t[1]) BY <1>7, <2>4 DEF Refuses
    <3> QED BY <3>1, <3>2
  <2> DEFINE others == {s \in table : s.id # r.id}
             k == r.id
  <2>6. table' = others \union {[file[n + 1] EXCEPT !.id = k]}
    BY <2>1, <2>2, <2>3, <2>5 DEF Save
  <2>7. others \in SUBSET table OBVIOUS
  <2>8. \A s \in table : s \notin others => s.name = file[n + 1].name /\ s.id = k
    BY <1>6, <2>2
  <2>9. \A s \in others : s.name # file[n + 1].name BY <1>6, <2>2
  <2>10. k \in Nat BY <2>2
  <2> HIDE DEF others, k, n
  <2> QED BY <1>4, <1>6, <2>6, <2>7, <2>8, <2>9, <2>10, EntryLoads DEF n
<1>10. pc[e] = "create" => t[1] = file[n + 1]
  <2> SUFFICES ASSUME pc[e] = "create" PROVE t[1] = file[n + 1] OBVIOUS
  <2>1. \A i \in DOMAIN t : t[i] = file[n + i] BY DEF Halfway
  <2> QED BY <1>5, <2>1
<1>9. CASE Named(table, name) = {} /\ t[1] = file[n + 1]
  <2>1. Named(table, name) = {} BY <1>9
  <2>2. t[1] = file[n + 1] /\ t[1].id = 0 BY <1>4, <1>9 DEF Entry
  <2>3. TakenBy(t[1]) = {} BY <2>1, <2>2 DEF TakenBy, Named
  <2>4. Insert(e, t[1])
    <3>1. Insert(e, t[1]) \/ Refuses(t[1]) BY <1>2, <2>2 DEF Store, Save
    <3>2. ~Refuses(t[1]) BY <1>7, <2>3 DEF Refuses
    <3> QED BY <3>1, <3>2
  <2> DEFINE others == table
             k == nextId
  <2>5. table' = others \union {[file[n + 1] EXCEPT !.id = k]} BY <2>2, <2>4 DEF Insert
  <2>6. \A s \in others : s.name # file[n + 1].name BY <2>1 DEF Named
  <2>7. others \in SUBSET table OBVIOUS
  <2>8. \A s \in table : s \notin others => s.name = file[n + 1].name /\ s.id = k
    OBVIOUS
  <2>9. k \in Nat BY <1>6
  <2> HIDE DEF others, k, n
  <2> QED BY <1>4, <1>6, <2>5, <2>6, <2>7, <2>8, <2>9, EntryLoads DEF n
<1>11. CASE misled[e] /\ pc[e] = "create" /\ Named(table, name) # {}
  <2>1. t[1] = file[n + 1] /\ t[1].id = 0 /\ t[1].name = name BY <1>4, <1>10, <1>11 DEF Entry
  <2>2. TakenBy(t[1]) # {} BY <1>6, <1>11, <2>1 DEF TakenBy, Named
  <2>3. Refuses(t[1]) BY <1>2, <1>11, <2>2 DEF Store, Insert
  <2>4. table' = table BY <2>3 DEF Refuses, repo
  <2>5. Loaded(file, table, before[e], n, TRUE) BY <1>11
  <2> HIDE DEF n
  <2>6. Loaded(file, table, before[e], n + 1, TRUE) BY <1>4, <1>6, <1>11, <2>5, EntryIsLeftOut
  <2> QED BY <1>11, <2>4, <2>6 DEF n
<1>12. \/ /\ pc[e] = "update"
          /\ \E r \in Named(table, name) : t[1] = [file[n + 1] EXCEPT !.id = r.id]
       \/ Named(table, name) = {} /\ t[1] = file[n + 1]
       \/ misled[e] /\ pc[e] = "create" /\ Named(table, name) # {}
  BY <1>1, <1>10 DEF Halfway
<1> QED BY <1>8, <1>9, <1>11, <1>12

\* What the next entry meets: the cache, if it was loaded without trouble and has
\* missed nothing, and the table agree on whether its name is there.
LEMMA FindTells ==
    ASSUME TypeInv, HistoryInv, CacheInv, NEW e \in Editors, Find(e), troubles' = troubles,
           unsaid = {}, Halfway(file, table, "find", todo[e], misled[e])
    PROVE  /\ Halfway(file, table, pc'[e], todo[e], misled'[e])
           /\ misled[e] => misled'[e]
<1> DEFINE t == todo[e]
           name == file[Gone(file, t) + 1].name
<1>1. pc[e] = "find" /\ EnsureLoaded(e) /\ pc \in [Editors -> Places]
  BY DEF Find, TypeInv, HandlerTypes
<1>2. /\ Head(t) = t[1] /\ t # <<>> /\ t \in Seq(Known) BY <1>1, HandFacts DEF Holding
<1>3. 1 \in DOMAIN t
  <2> HIDE DEF Known, t
  <2> QED BY <1>2
<1>4. Head(t).name = name
  <2>1. \A i \in DOMAIN t : t[i] = file[Gone(file, t) + i] BY DEF Halfway
  <2> QED BY <1>2, <1>3, <2>1
<1>5. misled[e] => misled'[e]
  <2>1. misled' = [misled EXCEPT ![e] = misled[e] \/ missed] BY <1>1 DEF EnsureLoaded
  <2> QED BY <2>1 DEF HistoryInv
<1> DEFINE there == \E i \in DOMAIN cache : cache[i].name = name
<1>6. pc'[e] = IF there THEN "lookup" ELSE "create"
  <2>1. pc' = [pc EXCEPT ![e] = IF \E r \in ToSet(cache) : r.name = Head(t).name
                                  THEN "lookup" ELSE "create"]
    BY DEF Find
  <2>2. (\E r \in ToSet(cache) : r.name = name) <=> there BY DEF ToSet
  <2> QED BY <1>1, <1>4, <2>1, <2>2
<1>7. misled'[e] \/ (there <=> Named(table, name) # {})
  <2> SUFFICES ASSUME ~misled'[e] PROVE there <=> Named(table, name) # {} OBVIOUS
  <2>1. cache \in Listings(table) BY <1>1, LoadGives
  <2>2. cache \in Seq(table) /\ \A r \in table : \E i \in DOMAIN cache : cache[i] = r
    BY <2>1, ListingFacts DEF TypeInv, TableInv
  <2>3. \A i \in DOMAIN cache : cache[i] \in table BY <2>2
  <2> QED BY <2>2, <2>3 DEF Named
<1>8. \/ pc'[e] = "lookup" /\ (misled'[e] \/ Named(table, name) # {})
      \/ pc'[e] = "create" /\ (misled'[e] \/ Named(table, name) = {})
  BY <1>6, <1>7
<1> QED BY <1>5, <1>8 DEF Halfway

\* The table gives the entry the id of the row of its name.
LEMMA LookupTells ==
    ASSUME TypeInv, NEW e \in Editors, Lookup(e), troubles' = troubles, NEW led,
           Halfway(file, table, "lookup", todo[e], led)
    PROVE  /\ Halfway(file, table, "update", todo'[e], led)
           /\ Len(todo'[e]) = Len(todo[e])
<1> DEFINE t == todo[e]
           n == Gone(file, t)
           name == file[n + 1].name
<1>1. pc[e] = "lookup" BY DEF Lookup
<1>2. /\ Head(t) = t[1] /\ t # <<>> /\ t \in Seq(Known) BY <1>1, HandFacts DEF Holding
<1>3. t \in Seq(Entry) /\ t \in Seq(Row) /\ 1 \in DOMAIN t
  <2>1. t \in Seq(Entry) BY <1>1 DEF TypeInv, HandInv, HandOK
  <2>2. Entry \subseteq Row BY DEF Entry
  <2> HIDE DEF t
  <2> QED BY <1>2, <2>1, <2>2
<1>4. \A i \in DOMAIN t : t[i] = file[n + i] BY DEF Halfway
<1>5. t[1] = file[n + 1] BY <1>3, <1>4
<1> DEFINE ids == {s.id : s \in Named(table, Head(t).name)}
           k == IF ids = {} THEN 0 ELSE Max(ids)
<1>6. \/ \E r \in Named(table, name) : ids = {r.id} /\ r.id \in Nat
      \/ led /\ Named(table, name) = {} /\ ids = {}
  <2>1. ids = {s.id : s \in Named(table, name)} BY <1>2, <1>5
  <2>2. \A r \in Named(table, name) : Named(table, name) = {r} /\ r.id \in Nat
    BY DEF Named, TypeInv, TableInv
  <2>3. led \/ Named(table, name) # {} BY DEF Halfway
  <2> DEFINE N == Named(table, name)
  <2> HIDE DEF ids, N
  <2>4. CASE N = {} BY <2>1, <2>3, <2>4 DEF N
  <2>5. CASE N # {}
    <3>1. PICK r \in N : TRUE BY <2>5
    <3>2. N = {r} /\ r.id \in Nat BY <2>2, <3>1 DEF N
    <3>3. ids = {r.id} BY <2>1, <3>2 DEF N
    <3> QED BY <3>1, <3>2, <3>3 DEF N
  <2> QED BY <2>4, <2>5
<1>7. /\ k \in Nat
      /\ \/ \E r \in Named(table, name) : k = r.id
         \/ led /\ Named(table, name) = {} /\ k = 0
  <2>1. CASE \E r \in Named(table, name) : ids = {r.id} /\ r.id \in Nat
    <3>1. PICK r \in Named(table, name) : ids = {r.id} /\ r.id \in Nat BY <2>1
    <3> DEFINE i == r.id
    <3>2. i \in Nat BY <3>1
    <3>3. k = Max({i}) BY <3>1
    <3> HIDE DEF i, k
    <3>4. {i} \in SUBSET (0..i) /\ {i} # {} BY <3>2
    <3>5. Max({i}) \in {i} BY <3>2, <3>4, GreatestOf
    <3>6. k = i BY <3>3, <3>5
    <3> QED BY <3>2, <3>6 DEF i
  <2>2. CASE led /\ Named(table, name) = {} /\ ids = {} BY <2>2
  <2> QED BY <1>6, <2>1, <2>2
<1>9. ~Trouble BY DEF Trouble, TypeInv, CacheTypes
<1>10. TakeId(e, ids) BY <1>9 DEF Lookup
<1>12. todo' = [todo EXCEPT ![e] = Given(t, k)] BY <1>10 DEF TakeId, Given
<1> HIDE DEF ids, k
<1>13. todo'[e] = Given(t, k) BY <1>12 DEF TypeInv, HandlerTypes
<1>14. /\ Len(Given(t, k)) = Len(t)
       /\ Given(t, k)[1] = [t[1] EXCEPT !.id = k]
  <2> HIDE DEF t
  <2> QED BY <1>2, <1>3, <1>7, GivenFacts
<1>15. \A i \in DOMAIN Given(t, k) : i > 1 => Given(t, k)[i] = t[i] /\ i \in DOMAIN t
  BY <1>3 DEF Given
<1> DEFINE g == Given(t, k)
<1>16. Gone(file, g) = n BY <1>14 DEF Gone
<1>17. \/ \E r \in Named(table, name) : g[1] = [file[n + 1] EXCEPT !.id = r.id]
       \/ led /\ Named(table, name) = {} /\ g[1] = file[n + 1]
  <2>1. g[1] = [file[n + 1] EXCEPT !.id = k] BY <1>5, <1>14
  <2>2. [t[1] EXCEPT !.id = 0] = t[1]
    <3>1. t[1] \in Entry BY <1>3
    <3> QED BY <3>1 DEF Entry, Row
  <2>3. CASE \E r \in Named(table, name) : k = r.id BY <2>1, <2>3
  <2>4. CASE led /\ Named(table, name) = {} /\ k = 0 BY <1>5, <2>1, <2>2, <2>4
  <2> QED BY <1>7, <2>3, <2>4
<1>18. Halfway(file, table, "update", g, led)
  <2>1. Len(g) <= Len(file) BY <1>14 DEF Halfway
  <2>2. \A i \in DOMAIN g : i > 1 => g[i] = file[Gone(file, g) + i] BY <1>4, <1>15, <1>16
  <2> HIDE DEF g
  <2> QED BY <1>16, <1>17, <2>1, <2>2 DEF Halfway
<1> QED BY <1>13, <1>14, <1>18

LEMMA ImportStep ==
    ASSUME TypeInv, HistoryInv, CacheInv, NamesDiffer(file), ImportInv,
           NEW e \in Editors, Acts(e)
    PROVE  ImportInv'
<1> SUFFICES ASSUME NEW d \in Editors, (op[d] = "import" /\ quiet[d] /\ clean[d])'
             PROVE  (/\ Halfway(file, table, pc[d], todo[d], misled[d])
                     /\ Loaded(file, table, before[d], Gone(file, todo[d]), misled[d]))'
  BY DEF ImportInv
<1>1. CASE d # e
  <2>1. /\ pc'[d] = pc[d] /\ todo'[d] = todo[d] /\ op'[d] = op[d] /\ before'[d] = before[d]
        /\ (clean'[d] <=> clean[d]) /\ misled'[d] = misled[d]
        /\ op[d] # "none" /\ quiet'[d] => quiet[d] /\ UNCHANGED repo
        /\ op[d] = "import" => UNCHANGED file
    <3>1. misled \in [Editors -> BOOLEAN] BY DEF HistoryInv
    <3>2. misled' \in [Editors -> BOOLEAN]
      <4>1. HistoryInv' BY HistoryStep
      <4> QED BY <4>1 DEF HistoryInv
    <3>3. misled'[d] <=> misled[d] BY <1>1, Bystander
    <3>4. misled'[d] = misled[d] BY <3>1, <3>2, <3>3
    <3> QED BY <1>1, <3>4, Bystander
  <2>2. op[d] = "import" /\ quiet[d] /\ clean[d] /\ table' = table /\ file' = file
    BY <2>1 DEF repo
  <2>3. /\ Halfway(file, table, pc[d], todo[d], misled[d])
        /\ Loaded(file, table, before[d], Gone(file, todo[d]), misled[d])
    BY <2>2 DEF ImportInv
  <2>4. (Halfway(file, table, pc[d], todo[d], misled[d]))'
    <3>1. /\ pc'[d] = pc[d] /\ todo'[d] = todo[d] /\ table' = table /\ file' = file
          /\ misled'[d] = misled[d]
      BY <2>1, <2>2
    <3>2. Halfway(file, table, pc[d], todo[d], misled[d]) BY <2>3
    <3> QED BY <3>1, <3>2
  <2>5. (Gone(file, todo[d]))' = Gone(file, todo[d]) BY <2>1, <2>2
  <2> QED BY <2>1, <2>2, <2>3, <2>4, <2>5
<1>2. CASE d = e
  <2>1. /\ op \in [Editors -> {"none", "move", "import", "probe"}]
        /\ before \in [Editors -> SUBSET Row]
        /\ quiet \in [Editors -> BOOLEAN] /\ clean \in [Editors -> BOOLEAN]
        /\ misled \in [Editors -> BOOLEAN]
        /\ op[e] # "none" /\ quiet[e] => unsaid \subseteq {e}
        /\ OpOK(pc[e], op[e]) /\ pc \in [Editors -> Places]
        /\ todo \in [Editors -> Seq(Known)]
    BY DEF HistoryInv, TypeInv, HandlerTypes
  <2> HIDE DEF Known
  <2>2. op'[e] = "import" BY <1>2
  <2>3. Import(e) \/ Find(e) \/ Lookup(e) \/ Store(e)
    <3>1. CASE OpenForm(e) \/ Leave(e) \/ Export(e) \/ Fails(e) \/ Delete(e)
      <4>1. UNCHANGED op /\ pc[e] \in {"idle", "form"}
        BY <3>1 DEF OpenForm, Leave, Export, Fails, Delete, history
      <4> QED BY <2>1, <2>2, <4>1 DEF OpOK
    <3>2. CASE Submit(e) \/ SaveNext(e) \/ Resolve(e)
      <4>1. UNCHANGED op /\ pc[e] \in {"form", "save", "resolve"}
        BY <3>2 DEF Submit, SaveNext, Resolve
      <4> QED BY <2>1, <2>2, <4>1 DEF OpOK
    <3>3. CASE Move(e) BY <2>1, <2>2, <3>3 DEF Move, Request
    <3>4. CASE Probe(e) BY <2>1, <2>2, <3>4 DEF Probe
    <3>5. CASE Answer(e) BY <2>1, <2>2, <3>5 DEF Answer
    <3> QED BY <3>1, <3>2, <3>3, <3>4, <3>5 DEF Acts, Work
  <2>4. CASE Import(e)
    <3>1. /\ UNCHANGED repo /\ UNCHANGED file
          /\ pc' = [pc EXCEPT ![e] = "find"] /\ todo' = [todo EXCEPT ![e] = file]
          /\ before' = [before EXCEPT ![e] = table]
      BY <2>4 DEF Import, Request
    <3>2. /\ pc'[e] = "find" /\ todo'[e] = file /\ before'[e] = table
          /\ file' = file /\ table' = table
      BY <2>1, <3>1 DEF repo
    <3>3. Len(file) \in Nat BY DEF TypeInv, HandlerTypes
    <3>4. Gone(file, file) = 0 BY <3>3 DEF Gone
    <3>5. Loaded(file, table, table, 0, misled'[e])
      <4>1. 1..0 = {} OBVIOUS
      <4> QED BY <4>1 DEF Loaded
    <3>6. Halfway(file, table, "find", file, misled'[e])
      <4>1. \A i \in DOMAIN file : 0 + i = i BY DEF TypeInv, HandlerTypes
      <4>2. \A i \in DOMAIN file : file[i] = file[0 + i] BY <4>1
      <4> QED BY <3>3, <3>4, <4>2 DEF Halfway
    <3> QED BY <1>2, <3>2, <3>4, <3>5, <3>6
  <2>5. CASE Find(e) \/ Lookup(e) \/ Store(e)
    <3>1. /\ UNCHANGED op /\ UNCHANGED before /\ UNCHANGED file /\ Cleanly(e)
          /\ pc[e] \in {"find", "lookup", "update", "create"}
      BY <2>5 DEF Find, Lookup, Store
    <3>2. op[e] = "import" BY <2>2, <3>1
    <3>3. clean'[e] = (clean[e] /\ troubles' = troubles)
      BY <2>1, <3>1, <3>2 DEF Cleanly
    <3>4. clean[e] /\ troubles' = troubles BY <1>2, <3>3
    <3>5. quiet[e]
      <4>1. UNCHANGED quiet \/ Wrote(e)
        BY <2>5 DEF Find, Lookup, Store, Save, Insert, Refuses
      <4> QED BY <1>2, <2>1, <3>2, <4>1 DEF Wrote
    <3>11. unsaid = {} BY <2>1, <3>2, <3>5 DEF Acts
    <3>6. /\ Halfway(file, table, pc[e], todo[e], misled[e])
          /\ Loaded(file, table, before[e], Gone(file, todo[e]), misled[e])
      BY <3>2, <3>4, <3>5 DEF ImportInv
    <3>7. before'[e] = before[e] /\ file' = file BY <3>1
    <3>8. CASE Find(e)
      <4>1. pc[e] = "find" /\ todo' = todo /\ table' = table BY <3>8 DEF Find, repo
      <4>2. Halfway(file, table, pc'[e], todo[e], misled'[e]) /\ (misled[e] => misled'[e])
        BY <3>4, <3>6, <3>8, <3>11, <4>1, FindTells
      <4>3. Loaded(file, table, before[e], Gone(file, todo[e]), misled'[e])
        BY <3>6, <4>2 DEF Loaded
      <4> QED BY <1>2, <3>7, <4>1, <4>2, <4>3
    <3>9. CASE Lookup(e)
      <4>1. pc[e] = "lookup" /\ table' = table /\ pc'[e] = "update" /\ misled'[e] = misled[e]
        BY <2>1, <3>9 DEF Lookup, repo
      <4>2. Halfway(file, table, "update", todo'[e], misled[e]) /\ Len(todo'[e]) = Len(todo[e])
        BY <3>4, <3>6, <3>9, <4>1, LookupTells
      <4>3. (Gone(file, todo[e]))' = Gone(file, todo[e]) BY <3>7, <4>2 DEF Gone
      <4>4. (Halfway(file, table, pc[e], todo[e], misled[e]))' BY <3>7, <4>1, <4>2
      <4>5. (Loaded(file, table, before[e], Gone(file, todo[e]), misled[e]))' BY <3>6, <3>7, <4>1, <4>3
      <4> QED BY <1>2, <4>4, <4>5
    <3>10. CASE Store(e)
      <4>1. /\ pc'[e] = IF Len(todo[e]) > 1 THEN "find" ELSE "answer"
            /\ todo'[e] = Tail(todo[e]) /\ pc[e] \in Holding /\ misled'[e] = misled[e]
        BY <2>1, <3>10 DEF Store, Holding
      <4>2. todo[e] # <<>> /\ (Len(todo[e]) > 1 <=> Tail(todo[e]) # <<>>)
        BY <4>1, HandFacts
      <4>3. Halfway(file, table, pc'[e], Tail(todo[e]), misled[e])
        BY <3>6, <4>1, <4>2, NextEntry
      <4>4. Loaded(file, table', before[e], Gone(file, todo[e]) + 1, misled[e])
        BY <2>1, <3>4, <3>6, <3>10, StoreLoads
      <4>5. Gone(file, Tail(todo[e])) = Gone(file, todo[e]) + 1
        BY <3>6, <4>2, GoneFacts DEF Halfway
      <4>6. (Halfway(file, table, pc[e], todo[e], misled[e]))'
        <5>1. pc'[e] \notin {"lookup", "create", "update"} BY <4>1
        <5>2. (Gone(file, todo[e]))' = Gone(file, Tail(todo[e])) BY <3>7, <4>1
        <5> QED BY <3>7, <4>1, <4>3, <5>1, <5>2 DEF Halfway
      <4> QED BY <1>2, <3>7, <4>1, <4>4, <4>5, <4>6
    <3> QED BY <2>5, <3>8, <3>9, <3>10
  <2> QED BY <2>3, <2>4, <2>5
<1> QED BY <1>1, <1>2

LEMMA ImportLoaded ==
    TypeInv /\ HistoryInv /\ NamesDiffer(file) /\ ImportInv => ImportLoads
<1> SUFFICES ASSUME TypeInv, HistoryInv, NamesDiffer(file), ImportInv,
                    NEW e \in Editors, Done(e, "import"), clean[e]
             PROVE  /\ \A i \in DOMAIN file :
                          \/ \E r \in table : [r EXCEPT !.id = 0] = file[i]
                          \/ misled[e] /\ \E r \in table \intersect before[e] :
                                             r.name = file[i].name
                    /\ \A r \in before[e] :
                          IF \E i \in DOMAIN file : file[i].name = r.name
                            THEN \E s \in table : s.id = r.id /\ s.name = r.name
                            ELSE r \in table
                    /\ Cardinality(table) = Cardinality({r.name : r \in before[e]} \union
                                                        {file[i].name : i \in DOMAIN file})
  BY DEF ImportLoads
<1> DEFINE n == Len(file)
<1>1. pc[e] = "answer" /\ op[e] = "import" /\ quiet[e] BY DEF Done
<1>2. /\ Halfway(file, table, "answer", todo[e], misled[e])
      /\ Loaded(file, table, before[e], Gone(file, todo[e]), misled[e])
  BY <1>1 DEF ImportInv
<1>3. file \in Seq(Entry) BY DEF TypeInv, HandlerTypes
<1>4. Gone(file, todo[e]) = n
  <2>1. todo[e] = <<>> BY <1>2 DEF Halfway
  <2>2. Len(file) \in Nat BY <1>3
  <2> QED BY <2>1, <2>2 DEF Gone
<1>5. DOMAIN file = 1..n BY <1>3
<1>6. Loaded(file, table, before[e], n, misled[e]) BY <1>2, <1>4
<1> HIDE DEF n
<1> DEFINE names == {r.name : r \in before[e]} \union {file[i].name : i \in DOMAIN file}
<1>7. \A r \in table : r \in Row /\ \A s \in table : r.name = s.name => r = s
  BY DEF TypeInv, TableInv
<1>8. \A r \in table : r.name \in names BY <1>5, <1>6 DEF Loaded
<1>9. \A x \in names : \E r \in table : r.name = x
  <2>1. ASSUME NEW i \in DOMAIN file PROVE \E r \in table : r.name = file[i].name
    <3>1. \/ \E r \in table : [r EXCEPT !.id = 0] = file[i]
          \/ \E r \in table : r.name = file[i].name
      BY <1>5, <1>6 DEF Loaded
    <3>2. \A r \in table : r \in Row /\ 0 \in Nat BY <1>7
    <3>3. \A r \in table : [r EXCEPT !.id = 0].name = r.name BY <3>2, IdOfRow
    <3> QED BY <3>1, <3>3
  <2>2. ASSUME NEW r \in before[e] PROVE \E s \in table : s.name = r.name
    BY <1>6 DEF Loaded
  <2> QED BY <2>1, <2>2
<1> HIDE DEF names
<1> DEFINE f == [r \in table |-> r.name]
<1>10. f \in Bijection(table, names)
  BY <1>7, <1>8, <1>9 DEF Bijection, Injection, Surjection, IsInjective
<1> HIDE DEF f
<1>11. ExistsBijection(table, names) BY <1>10 DEF ExistsBijection
<1>12. Cardinality(names) = Cardinality(table)
  BY <1>11, FS_Bijection DEF TypeInv, TableInv
<1> QED BY <1>5, <1>6, <1>12 DEF Loaded, names

LoadInv == CaughtInv /\ NamesDiffer(file) /\ ImportInv

LEMMA LoadInit == Init => LoadInv
<1> SUFFICES ASSUME Init PROVE LoadInv OBVIOUS
<1>1. op = [e \in Editors |-> "none"] BY DEF Init
<1>2. ImportInv BY <1>1 DEF ImportInv
<1>3. NamesDiffer(file)
  <2>1. PICK f, g : f.name = <<0>> /\ g.name = <<1>> /\ file = <<f, g>>
    BY DEF Init
  <2>2. f.name # g.name
    <3>1. <<0>>[1] = 0 /\ <<1>>[1] = 1 OBVIOUS
    <3>2. <<0>> # <<1>> BY <3>1
    <3> QED BY <2>1, <3>2
  <2>3. DOMAIN file = {1, 2} /\ file[1] = f /\ file[2] = g BY <2>1
  <2> QED BY <2>2, <2>3 DEF NamesDiffer
<1> QED BY <1>2, <1>3, CaughtInit DEF LoadInv

LEMMA LoadStep == LoadInv /\ [Next]_vars => LoadInv'
<1> SUFFICES ASSUME LoadInv, [Next]_vars PROVE LoadInv' OBVIOUS
<1>1. CaughtInv' BY CaughtStep DEF LoadInv
<1>2. CASE Stir \/ UNCHANGED vars
  <2>1. /\ UNCHANGED <<op, before, quiet, clean, misled>> /\ table' = table
        /\ UNCHANGED <<pc, todo>> /\ file' = file
    BY <1>2, StirLeaves DEF vars, history, repo
  <2>2. ImportInv'
    <3>1. ImportInv BY DEF LoadInv
    <3> QED BY <2>1, <3>1 DEF ImportInv
  <2> QED BY <1>1, <2>1, <2>2 DEF LoadInv
<1>3. CASE \E e \in Editors : Acts(e)
  <2>1. PICK e \in Editors : Acts(e) BY <1>3
  <2> QED BY <1>1, <2>1, FileStep, ImportStep DEF LoadInv, CaughtInv
<1> QED BY <1>2, <1>3 DEF Next, Stir, Acts

\* An import that nobody disturbed, and no query of which failed, has loaded every
\* entry of the file into the row of its name, or into a new one, and left the
\* other rows alone.  The unique index refused none, but for this: if it read a
\* cache that had missed a write, an entry whose name was taken by a row that the
\* cache did not have.
THEOREM ImportsLoadFiles == Spec => []ImportLoads
<1>1. LoadInv => ImportLoads BY ImportLoaded DEF LoadInv, CaughtInv
<1> QED BY <1>1, LoadInit, LoadStep, PTL DEF Spec

----------------------------------------------------------------------------
(* Moves: what is written.                                                 *)

RowsOK(old) ==
    /\ IsFiniteSet(old)
    /\ \A r \in old : r \in Row /\ r.id \in Nat \ {0}
    /\ \A r, s \in old : r.id = s.id \/ r.name = s.name => r = s

\* The labelled rows first: all rows of the listing, each once.
LEMMA LabelledFirstOnce ==
    ASSUME NEW old, RowsOK(old), NEW q \in Listings(old)
    PROVE  LET all == LabelledFirst(q)
               l == Cardinality(Labelled(q))
           IN  /\ all \in Seq(old) /\ Len(all) = Len(q) /\ Len(q) = Cardinality(old)
               /\ Len(all) \in Nat /\ l \in Nat /\ l <= Len(all)
               /\ \A r \in old : \E i \in DOMAIN all : all[i] = r
               /\ \A i, j \in DOMAIN all : all[i] = all[j] => i = j
               /\ \A i \in DOMAIN all : i <= l <=> ~Catchall(all[i])
<1> DEFINE all == LabelledFirst(q)
           L == Labelled(q)
           C == DOMAIN q \ L
           l == Cardinality(L)
           c == Cardinality(C)
<1>1. /\ q \in Seq(old) /\ Len(q) = Cardinality(old) /\ Len(q) \in Nat
      /\ \A r \in old : \E i \in DOMAIN q : q[i] = r
      /\ \A i, j \in DOMAIN q : q[i] = q[j] => i = j
  BY ListingFacts DEF RowsOK
<1>2. /\ all \in Seq(old) /\ l \in Nat /\ c \in Nat
      /\ Len(all) = l + c /\ Len(q) = l + c
      /\ \A i \in 1..l : all[i] = q[Nth(L, i)]
      /\ \A i \in 1..c : all[l + i] = q[Nth(C, i)]
  <2>1. q \in Seq(old) BY <1>1
  <2> HIDE DEF all, L, C, l, c
  <2>2. /\ LabelledFirst(q) \in Seq(old)
        /\ Cardinality(Labelled(q)) \in Nat /\ Cardinality(DOMAIN q \ Labelled(q)) \in Nat
        /\ Len(LabelledFirst(q)) = Cardinality(Labelled(q)) + Cardinality(DOMAIN q \ Labelled(q))
        /\ Len(q) = Cardinality(Labelled(q)) + Cardinality(DOMAIN q \ Labelled(q))
    BY <2>1, LabelledFirstFacts
  <2>3. /\ \A i \in 1..Cardinality(Labelled(q)) : LabelledFirst(q)[i] = q[Nth(Labelled(q), i)]
        /\ \A i \in 1..Cardinality(DOMAIN q \ Labelled(q)) :
              LabelledFirst(q)[Cardinality(Labelled(q)) + i] = q[Nth(DOMAIN q \ Labelled(q), i)]
    BY <2>1, LabelledFirstFacts
  <2> QED BY <2>2, <2>3 DEF all, L, C, l, c
<1>3. L \in SUBSET (1..Len(q)) /\ C \in SUBSET (1..Len(q)) /\ DOMAIN q = 1..Len(q)
  BY <1>1 DEF Labelled
<1>4. \A i \in DOMAIN q : /\ i \in L <=> ~Catchall(q[i])
                          /\ i \in C <=> Catchall(q[i])
  BY DEF Labelled
<1>5. /\ \A i \in L : Rank(L, i) \in 1..l /\ Nth(L, Rank(L, i)) = i
      /\ \A k \in 1..l : Nth(L, k) \in L /\ Rank(L, Nth(L, k)) = k
  <2> HIDE DEF L
  <2> QED BY <1>1, <1>3, RankFacts
<1>6. /\ \A i \in C : Rank(C, i) \in 1..c /\ Nth(C, Rank(C, i)) = i
      /\ \A k \in 1..c : Nth(C, k) \in C /\ Rank(C, Nth(C, k)) = k
  <2> HIDE DEF C
  <2> QED BY <1>1, <1>3, RankFacts
<1> HIDE DEF all, L, C, l, c
<1>7. DOMAIN all = 1..(l + c) BY <1>2
<1>8. ASSUME NEW i \in DOMAIN all
      PROVE  \/ i <= l /\ i \in 1..l /\ all[i] = q[Nth(L, i)] /\ Nth(L, i) \in L
             \/ ~(i <= l) /\ i - l \in 1..c /\ all[i] = q[Nth(C, i - l)] /\ Nth(C, i - l) \in C
  <2>1. CASE i <= l
    <3>1. i \in 1..l BY <1>2, <1>7, <2>1
    <3> QED BY <1>2, <1>5, <2>1, <3>1
  <2>2. CASE ~(i <= l)
    <3>1. i - l \in 1..c /\ l + (i - l) = i BY <1>2, <1>7, <2>2
    <3>2. all[l + (i - l)] = q[Nth(C, i - l)] BY <1>2, <3>1
    <3> QED BY <1>6, <2>2, <3>1, <3>2
  <2> QED BY <2>1, <2>2
<1>9. \A r \in old : \E i \in DOMAIN all : all[i] = r
  <2> SUFFICES ASSUME NEW r \in old PROVE \E i \in DOMAIN all : all[i] = r OBVIOUS
  <2>1. PICK k \in DOMAIN q : q[k] = r BY <1>1
  <2>2. CASE k \in L
    <3>1. Rank(L, k) \in 1..l /\ Nth(L, Rank(L, k)) = k BY <1>5, <2>2
    <3>2. all[Rank(L, k)] = r BY <1>2, <2>1, <3>1
    <3>3. Rank(L, k) \in DOMAIN all BY <1>2, <1>7, <3>1
    <3> QED BY <3>2, <3>3
  <2>3. CASE k \in C
    <3> DEFINE j == Rank(C, k)
    <3>1. j \in 1..c /\ Nth(C, j) = k BY <1>6, <2>3
    <3> HIDE DEF j
    <3>2. all[l + j] = r BY <1>2, <2>1, <3>1
    <3>3. l + j \in DOMAIN all BY <1>2, <1>7, <3>1
    <3> QED BY <3>2, <3>3
  <2> QED BY <1>4, <2>1, <2>2, <2>3
<1>10. \A i \in DOMAIN all : i <= l <=> ~Catchall(all[i])
  <2> SUFFICES ASSUME NEW i \in DOMAIN all PROVE i <= l <=> ~Catchall(all[i]) OBVIOUS
  <2> QED BY <1>3, <1>4, <1>8
<1>11. ASSUME NEW i \in DOMAIN all, NEW j \in DOMAIN all, all[i] = all[j] PROVE i = j
  <2>1. i <= l <=> j <= l BY <1>10, <1>11
  <2>2. CASE i <= l
    <3>1. /\ i \in 1..l /\ all[i] = q[Nth(L, i)] /\ Nth(L, i) \in L
          /\ j \in 1..l /\ all[j] = q[Nth(L, j)] /\ Nth(L, j) \in L
      BY <1>8, <2>1, <2>2
    <3>2. Nth(L, i) = Nth(L, j) BY <1>1, <1>3, <1>11, <3>1
    <3>3. i = Rank(L, Nth(L, i)) /\ j = Rank(L, Nth(L, j)) BY <1>5, <3>1
    <3> QED BY <3>2, <3>3
  <2>3. CASE ~(i <= l)
    <3> DEFINE a == i - l
               b == j - l
    <3>1. /\ a \in 1..c /\ all[i] = q[Nth(C, a)] /\ Nth(C, a) \in C
          /\ b \in 1..c /\ all[j] = q[Nth(C, b)] /\ Nth(C, b) \in C
      BY <1>8, <2>1, <2>3
    <3>2. i = l + a /\ j = l + b BY <1>2, <1>7
    <3> HIDE DEF a, b
    <3>3. Nth(C, a) = Nth(C, b) BY <1>1, <1>3, <1>11, <3>1
    <3>4. a = Rank(C, Nth(C, a)) /\ b = Rank(C, Nth(C, b)) BY <1>6, <3>1
    <3> QED BY <3>2, <3>3, <3>4
  <2> QED BY <2>2, <2>3
<1>12. l <= Len(all) BY <1>2
<1> QED BY <1>1, <1>2, <1>9, <1>10, <1>11, <1>12 DEF all, l, L

\* A move exchanges two neighbours among the labelled rows.
LEMMA MovedFacts ==
    ASSUME NEW old, RowsOK(old), NEW q \in Listings(old), NEW id, NEW up \in BOOLEAN,
           Whither(q, id, up) # {}
    PROVE  LET all == LabelledFirst(q)
               s == Moved(q, id, up)
           IN  /\ s \in Seq(old) /\ Len(s) = Cardinality(old) /\ Len(s) \in Nat
               /\ DOMAIN s = DOMAIN all
               /\ \A r \in old : \E i \in DOMAIN s : s[i] = r
               /\ \A i, j \in DOMAIN s : s[i] = s[j] => i = j
               /\ \E i \in 1..(Cardinality(Labelled(q)) - 1) :
                     \A k \in DOMAIN s :
                        s[k] = IF k = i THEN all[i + 1] ELSE IF k = i + 1 THEN all[i] ELSE all[k]
<1> DEFINE all == LabelledFirst(q)
           s == Moved(q, id, up)
           l == Cardinality(Labelled(q))
           a == Max(Where(q, id))
           b == Max(Whither(q, id, up))
<1>1. /\ all \in Seq(old) /\ Len(all) = Cardinality(old)
      /\ Len(all) \in Nat /\ l \in Nat /\ l <= Len(all)
      /\ \A r \in old : \E i \in DOMAIN all : all[i] = r
      /\ \A i, j \in DOMAIN all : all[i] = all[j] => i = j
  BY LabelledFirstOnce
<1>2. Where(q, id) \in SUBSET (0..l) /\ Where(q, id) # {} BY <1>1 DEF Where, Whither
<1>3. Whither(q, id, up) \in SUBSET (0..l) BY <1>1 DEF Whither
<1>4. a \in Where(q, id) BY <1>1, <1>2, GreatestOf
<1>5. b \in Whither(q, id, up) BY <1>1, <1>3, GreatestOf
<1>6. a \in 1..l /\ b \in 1..l BY <1>4, <1>5 DEF Where, Whither
<1>7. \A i \in Where(q, id) : i = a
  <2> SUFFICES ASSUME NEW i \in Where(q, id) PROVE i = a OBVIOUS
  <2>1. /\ i \in 1..l /\ all[i].id = id /\ a \in 1..l /\ all[a].id = id
    BY <1>4 DEF Where
  <2> HIDE DEF all, l, a
  <2>2. i \in DOMAIN all /\ a \in DOMAIN all /\ all[i] \in old /\ all[a] \in old BY <1>1, <2>1
  <2>3. all[i] = all[a] BY <2>1, <2>2 DEF RowsOK
  <2> QED BY <1>1, <2>2, <2>3
<1>8. b = a + 1 \/ a = b + 1
  <2>1. PICK i \in Where(q, id) : b = IF up THEN i - 1 ELSE i + 1 BY <1>5 DEF Whither
  <2>2. i = a BY <1>7
  <2> HIDE DEF a, b, l
  <2> QED BY <1>6, <2>1, <2>2
<1>9. s = [all EXCEPT ![a] = all[b], ![b] = all[a]] BY DEF Moved, Swap
<1> HIDE DEF all, s, l, a, b
<1>10. a \in DOMAIN all /\ b \in DOMAIN all /\ a # b BY <1>1, <1>6, <1>8
<1>11. /\ DOMAIN s = DOMAIN all
       /\ \A k \in DOMAIN s : s[k] = IF k = a THEN all[b] ELSE IF k = b THEN all[a] ELSE all[k]
  BY <1>9, <1>10
<1>12. s \in Seq(old) /\ Len(s) = Len(all) BY <1>1, <1>9, <1>10
<1>13. \A r \in old : \E i \in DOMAIN s : s[i] = r
  <2> SUFFICES ASSUME NEW r \in old PROVE \E i \in DOMAIN s : s[i] = r OBVIOUS
  <2>1. PICK i \in DOMAIN all : all[i] = r BY <1>1
  <2>2. CASE i = a BY <1>10, <1>11, <2>1, <2>2
  <2>3. CASE i = b BY <1>10, <1>11, <2>1, <2>3
  <2>4. CASE i # a /\ i # b BY <1>11, <2>1, <2>4
  <2> QED BY <2>2, <2>3, <2>4
<1>14. \A i, j \in DOMAIN s : s[i] = s[j] => i = j
  BY <1>1, <1>10, <1>11
<1>15. \E i \in 1..(l - 1) : \A k \in DOMAIN s :
          s[k] = IF k = i THEN all[i + 1] ELSE IF k = i + 1 THEN all[i] ELSE all[k]
  <2>1. CASE b = a + 1
    <3>1. a \in 1..(l - 1) BY <1>1, <1>6, <2>1
    <3> QED BY <1>10, <1>11, <2>1, <3>1
  <2>2. CASE a = b + 1
    <3>1. b \in 1..(l - 1) BY <1>1, <1>6, <2>2
    <3> QED BY <1>10, <1>11, <2>2, <3>1
  <2> QED BY <1>8, <2>1, <2>2
<1> QED BY <1>1, <1>11, <1>12, <1>13, <1>14, <1>15 DEF all, s, l

\* What is written: rows with another position, each once; with the rows that are
\* not written they make the whole new order.
Rewrites(old, rows) ==
    /\ rows \in Seq(Row)
    /\ \A i \in DOMAIN rows : \E r \in old : r.id = rows[i].id /\ Contents(rows[i]) = Contents(r)
    /\ \A i, j \in DOMAIN rows : rows[i].id = rows[j].id => i = j

LEMMA ContentsOfOrder ==
    ASSUME NEW r \in Row, NEW n \in Nat
    PROVE  LET s == [r EXCEPT !.order = n] IN
           s \in Row /\ s.id = r.id /\ s.order = n /\ Contents(s) = Contents(r)
  BY OrderOfRow DEF Contents

LEMMA NumberedFacts ==
    ASSUME NEW old, RowsOK(old), NEW s \in Seq(old), \A i, j \in DOMAIN s : s[i] = s[j] => i = j
    PROVE  /\ Numbered(s) \in Seq(Row) /\ DOMAIN Numbered(s) = DOMAIN s
           /\ \A j \in DOMAIN s :
                 /\ Numbered(s)[j] \in Row /\ Numbered(s)[j].id = s[j].id /\ s[j] \in old
                 /\ Numbered(s)[j].order = j /\ Contents(Numbered(s)[j]) = Contents(s[j])
           /\ \A i, j \in DOMAIN s : Numbered(s)[i].id = Numbered(s)[j].id => i = j
<1>1. \A j \in DOMAIN s : s[j] \in old /\ s[j] \in Row /\ j \in Nat BY DEF RowsOK
<1>2. \A j \in DOMAIN s : Numbered(s)[j] = [s[j] EXCEPT !.order = j] BY DEF Numbered
<1>3. DOMAIN Numbered(s) = DOMAIN s BY DEF Numbered
<1>4. \A j \in DOMAIN s :
         /\ Numbered(s)[j] \in Row /\ Numbered(s)[j].id = s[j].id /\ s[j] \in old
         /\ Numbered(s)[j].order = j /\ Contents(Numbered(s)[j]) = Contents(s[j])
  <2> SUFFICES ASSUME NEW j \in DOMAIN s
               PROVE  /\ Numbered(s)[j] \in Row /\ Numbered(s)[j].id = s[j].id /\ s[j] \in old
                      /\ Numbered(s)[j].order = j /\ Contents(Numbered(s)[j]) = Contents(s[j])
    OBVIOUS
  <2>1. s[j] \in old /\ s[j] \in Row /\ j \in Nat BY <1>1
  <2>2. LET x == [s[j] EXCEPT !.order = j] IN
        x \in Row /\ x.id = s[j].id /\ x.order = j /\ Contents(x) = Contents(s[j])
    BY <2>1, ContentsOfOrder
  <2> QED BY <1>2, <2>1, <2>2
<1>5. Numbered(s) \in Seq(Row)
  <2>1. DOMAIN Numbered(s) = 1..Len(s) /\ Len(s) \in Nat BY <1>3
  <2>2. Numbered(s) = [j \in 1..Len(s) |-> Numbered(s)[j]] BY <2>1 DEF Numbered
  <2>3. \A j \in 1..Len(s) : Numbered(s)[j] \in Row BY <1>4
  <2> QED BY <2>1, <2>2, <2>3, IsASeq
<1>6. \A i, j \in DOMAIN s : Numbered(s)[i].id = Numbered(s)[j].id => i = j
  BY <1>4 DEF RowsOK
<1> QED BY <1>3, <1>4, <1>5, <1>6

LEMMA ReorderRows ==
    ASSUME NEW old, RowsOK(old), NEW q \in Listings(old), NEW id, NEW up \in BOOLEAN
    PROVE  LET rows == Reorder(q, id, up)
               s == Moved(q, id, up)
           IN  /\ Rewrites(old, rows)
               /\ Whither(q, id, up) = {} => rows = <<>>
               /\ Whither(q, id, up) # {} =>
                     /\ \A i \in DOMAIN rows : \E j \in DOMAIN s : rows[i] = Numbered(s)[j]
                     /\ \A j \in DOMAIN s :
                           \/ Numbered(s)[j] \in old
                           \/ \E i \in DOMAIN rows : rows[i] = Numbered(s)[j]
<1> DEFINE rows == Reorder(q, id, up)
           s == Moved(q, id, up)
           S == Changed(q, s)
<1>1. CASE Whither(q, id, up) = {}
  <2>1. rows = <<>> BY <1>1, ReorderUnfolds
  <2> HIDE DEF rows
  <2>2. Rewrites(old, rows) BY <2>1 DEF Rewrites
  <2> QED BY <1>1, <2>1, <2>2 DEF rows
<1>2. CASE Whither(q, id, up) # {}
  <2>1. /\ s \in Seq(old) /\ \A i, j \in DOMAIN s : s[i] = s[j] => i = j
    BY <1>2, MovedFacts
  <2>2. rows = Pick(Numbered(s), S) BY <1>2, ReorderUnfolds
  <2>3. \A j \in DOMAIN s : j \notin S => Numbered(s)[j] \in old
    <3>1. q \in Seq(old) BY ListingFacts DEF RowsOK
    <3>2. ToSet(q) \subseteq old BY <3>1 DEF ToSet
    <3> QED BY <3>2 DEF Changed
  <2>4. S \in SUBSET DOMAIN s BY DEF Changed
  <2> HIDE DEF rows, s, S
  <2>5. /\ Numbered(s) \in Seq(Row) /\ DOMAIN Numbered(s) = DOMAIN s
        /\ \A j \in DOMAIN s :
              /\ Numbered(s)[j] \in Row /\ Numbered(s)[j].id = s[j].id /\ s[j] \in old
              /\ Contents(Numbered(s)[j]) = Contents(s[j])
        /\ \A i, j \in DOMAIN s : Numbered(s)[i].id = Numbered(s)[j].id => i = j
    BY <2>1, NumberedFacts
  <2> DEFINE c == Cardinality(S)
  <2>6. /\ rows \in Seq(Row) /\ Len(rows) = c /\ c \in Nat
        /\ \A k \in 1..c : rows[k] = Numbered(s)[Nth(S, k)]
    BY <2>2, <2>4, <2>5, PickFacts
  <2>7. /\ \A k \in 1..c : Nth(S, k) \in S
        /\ \A i \in S : Rank(S, i) \in 1..c /\ Nth(S, Rank(S, i)) = i
        /\ \A k \in 1..c : Rank(S, Nth(S, k)) = k
    <3>1. S \in SUBSET (1..Len(s)) /\ Len(s) \in Nat BY <2>1, <2>4
    <3> QED BY <3>1, RankFacts
  <2> HIDE DEF c
  <2>8. DOMAIN rows = 1..c BY <2>6
  <2>9. \A i \in DOMAIN rows : /\ Nth(S, i) \in DOMAIN s /\ rows[i] = Numbered(s)[Nth(S, i)]
                               /\ Rank(S, Nth(S, i)) = i
    BY <2>4, <2>6, <2>7, <2>8
  <2>10. Rewrites(old, rows)
    <3>1. \A i \in DOMAIN rows : \E r \in old : r.id = rows[i].id /\ Contents(rows[i]) = Contents(r)
      BY <2>5, <2>9
    <3>2. ASSUME NEW i \in DOMAIN rows, NEW j \in DOMAIN rows, rows[i].id = rows[j].id
          PROVE  i = j
      <4>1. Nth(S, i) = Nth(S, j) BY <2>5, <2>9, <3>2
      <4> QED BY <2>9, <4>1
    <3> QED BY <2>6, <3>1, <3>2 DEF Rewrites
  <2>11. ASSUME NEW j \in DOMAIN s
         PROVE  \/ Numbered(s)[j] \in old
                \/ \E i \in DOMAIN rows : rows[i] = Numbered(s)[j]
    <3>1. CASE j \notin S BY <2>3, <3>1
    <3>2. CASE j \in S
      <4>1. Rank(S, j) \in DOMAIN rows /\ Nth(S, Rank(S, j)) = j BY <2>7, <2>8, <3>2
      <4> QED BY <2>9, <4>1
    <3> QED BY <3>1, <3>2
  <2>12. \A i \in DOMAIN rows : \E j \in DOMAIN s : rows[i] = Numbered(s)[j] BY <2>9
  <2> QED BY <1>2, <2>10, <2>11, <2>12 DEF rows, s
<1> QED BY <1>1, <1>2

\* The table when n of the rows are written.
Applied(old, rows, n) ==
    {r \in old : \A i \in 1..n : rows[i].id # r.id} \union {rows[i] : i \in 1..n}

LEMMA AppliedNone ==
    ASSUME NEW old, NEW rows PROVE Applied(old, rows, 0) = old
  BY DEF Applied

LEMMA AppliedContents ==
    ASSUME NEW old, RowsOK(old), NEW rows, Rewrites(old, rows), NEW n \in 0..Len(rows)
    PROVE  {Contents(r) : r \in Applied(old, rows, n)} = {Contents(r) : r \in old}
<1>1. \A i \in 1..n : i \in DOMAIN rows BY DEF Rewrites
<1>2. ASSUME NEW r \in Applied(old, rows, n) PROVE \E s \in old : Contents(r) = Contents(s)
  <2>1. CASE r \in old BY <2>1
  <2>2. CASE \E i \in 1..n : r = rows[i] BY <1>1, <2>2 DEF Rewrites
  <2> QED BY <2>1, <2>2 DEF Applied
<1>3. ASSUME NEW s \in old PROVE \E r \in Applied(old, rows, n) : Contents(r) = Contents(s)
  <2>1. CASE \A i \in 1..n : rows[i].id # s.id BY <2>1 DEF Applied
  <2>2. CASE \E i \in 1..n : rows[i].id = s.id
    <3>1. PICK i \in 1..n : rows[i].id = s.id BY <2>2
    <3>2. PICK r \in old : r.id = rows[i].id /\ Contents(rows[i]) = Contents(r)
      BY <1>1 DEF Rewrites
    <3>3. r = s BY <3>1, <3>2 DEF RowsOK
    <3>4. rows[i] \in Applied(old, rows, n) BY DEF Applied
    <3> QED BY <3>2, <3>3, <3>4
  <2> QED BY <2>1, <2>2
<1> QED BY <1>2, <1>3

\* Each write goes to the row of its id: no other has its name.
LEMMA AppliedNext ==
    ASSUME NEW old, RowsOK(old), NEW rows, Rewrites(old, rows),
           NEW n \in Nat, n < Len(rows)
    PROVE  LET row == rows[n + 1]
               now == Applied(old, rows, n)
           IN  /\ row.id \in Nat \ {0}
               /\ \A r \in now : r.name = row.name => r.id = row.id
               /\ Applied(old, rows, n + 1) = {r \in now : r.id # row.id} \union {row}
<1> DEFINE row == rows[n + 1]
           now == Applied(old, rows, n)
<1>1. n + 1 \in DOMAIN rows /\ 1..(n + 1) = (1..n) \union {n + 1} /\ n + 1 \notin 1..n
      /\ \A i \in 1..n : i \in DOMAIN rows
  BY DEF Rewrites
<1>2. PICK old1 \in old : old1.id = row.id /\ Contents(row) = Contents(old1)
  BY <1>1 DEF Rewrites
<1>3. \A r : Contents(r).name = r.name /\ Contents(r).id = r.id BY DEF Contents
<1>4. row.name = old1.name BY <1>2, <1>3
<1>5. row.id \in Nat \ {0} BY <1>2 DEF RowsOK
<1>6. ASSUME NEW r \in now, r.name = row.name PROVE r.id = row.id
  <2>1. PICK s \in old : Contents(s) = Contents(r)
    <3>1. n \in 0..Len(rows) BY <1>1 DEF Rewrites
    <3>2. Contents(r) \in {Contents(x) : x \in old} BY <3>1, AppliedContents
    <3> QED BY <3>2
  <2>2. s.name = r.name /\ s.id = r.id BY <1>3, <2>1
  <2> QED BY <1>2, <1>4, <1>6, <2>2 DEF RowsOK
<1>7. Applied(old, rows, n + 1) = {r \in now : r.id # row.id} \union {row}
  <2>1. \A i \in 1..n : rows[i].id # row.id BY <1>1 DEF Rewrites
  <2> QED BY <1>1, <2>1 DEF Applied
<1> QED BY <1>5, <1>6, <1>7

\* When all are written the rows are numbered in the new order.
LEMMA AppliedAll ==
    ASSUME NEW old, RowsOK(old), NEW q \in Listings(old), NEW id, NEW up \in BOOLEAN,
           Whither(q, id, up) # {}
    PROVE  LET rows == Reorder(q, id, up)
               s == Moved(q, id, up)
           IN  Applied(old, rows, Len(rows)) = {Numbered(s)[j] : j \in DOMAIN s}
<1> DEFINE rows == Reorder(q, id, up)
           s == Moved(q, id, up)
<1>1. /\ Rewrites(old, rows)
      /\ \A i \in DOMAIN rows : \E j \in DOMAIN s : rows[i] = Numbered(s)[j]
      /\ \A j \in DOMAIN s : Numbered(s)[j] \in old
                             \/ \E i \in DOMAIN rows : rows[i] = Numbered(s)[j]
  BY ReorderRows
<1>2. /\ s \in Seq(old) /\ \A r \in old : \E i \in DOMAIN s : s[i] = r
      /\ \A i, j \in DOMAIN s : s[i] = s[j] => i = j
  BY MovedFacts
<1> HIDE DEF rows, s
<1>3. DOMAIN rows = 1..Len(rows) BY <1>1 DEF Rewrites
<1>4. \A j \in DOMAIN s : Numbered(s)[j].id = s[j].id /\ s[j] \in old
  BY <1>2, NumberedFacts
<1>5. ASSUME NEW r \in Applied(old, rows, Len(rows)) PROVE \E j \in DOMAIN s : r = Numbered(s)[j]
  <2>1. CASE \E i \in DOMAIN rows : r = rows[i] BY <1>1, <2>1
  <2>2. CASE r \in old /\ \A i \in DOMAIN rows : rows[i].id # r.id
    <3>1. PICK j \in DOMAIN s : s[j] = r BY <1>2, <2>2
    <3>2. Numbered(s)[j].id = r.id BY <1>4, <3>1
    <3>3. Numbered(s)[j] \in old BY <1>1, <2>2, <3>2
    <3>4. Numbered(s)[j] = r BY <2>2, <3>2, <3>3 DEF RowsOK
    <3> QED BY <3>4
  <2> QED BY <1>3, <2>1, <2>2 DEF Applied
<1>6. ASSUME NEW j \in DOMAIN s PROVE Numbered(s)[j] \in Applied(old, rows, Len(rows))
  <2>1. CASE \E i \in DOMAIN rows : rows[i] = Numbered(s)[j] BY <1>3, <2>1 DEF Applied
  <2>2. CASE /\ Numbered(s)[j] \in old
             /\ ~ \E i \in DOMAIN rows : rows[i] = Numbered(s)[j]
    <3>1. ASSUME NEW i \in DOMAIN rows PROVE rows[i].id # Numbered(s)[j].id
      <4>1. PICK k \in DOMAIN s : rows[i] = Numbered(s)[k] BY <1>1
      <4>2. SUFFICES ASSUME Numbered(s)[k].id = Numbered(s)[j].id PROVE FALSE BY <4>1
      <4>3. k = j BY <1>2, <4>2, NumberedFacts
      <4> QED BY <2>2, <4>1, <4>3
    <3> QED BY <1>3, <2>2, <3>1 DEF Applied
  <2> QED BY <1>1, <2>1, <2>2
<1> QED BY <1>5, <1>6 DEF rows, s

----------------------------------------------------------------------------
(* A move under way, with rows as they are now and rest yet to write: it   *)
(* has a plan, made from the rows there were, of which n rows are written  *)
(* and, if the move ended without trouble, all.                            *)

Underway(old, rows, place, rest, ok) ==
    /\ RowsOK(old) /\ place \in {"save", "answer"}
    /\ \E q \in Listings(old), id \in Nat, up \in BOOLEAN, n \in Nat :
          /\ Len(rest) = Len(Reorder(q, id, up)) - n /\ n <= Len(Reorder(q, id, up))
          /\ \A i \in DOMAIN rest : rest[i] = Reorder(q, id, up)[n + i]
          /\ rows = Applied(old, Reorder(q, id, up), n)
          /\ place = "answer" /\ ok => n = Len(Reorder(q, id, up))

MoveInv ==
    \A e \in Editors : op[e] = "move" /\ quiet[e] =>
        Underway(before[e], table, pc[e], todo[e], clean[e])

LEMMA TableRowsOK ==
    ASSUME TableInv PROVE RowsOK(table)
<1>1. \A r \in table : r.id \in Nat \ {0} BY DEF TableInv
<1> QED BY <1>1 DEF TableInv, RowsOK

LEMMA MovePlans ==
    ASSUME TypeInv, NEW e \in Editors, Move(e)
    PROVE  Underway(table, table, pc'[e], todo'[e], clean'[e])
<1>1. PICK q \in Listings(table), id \in 1..(nextId - 1), up \in BOOLEAN :
         /\ todo' = [todo EXCEPT ![e] = Reorder(q, id, up)]
         /\ pc' = [pc EXCEPT ![e] = IF Reorder(q, id, up) = <<>> THEN "answer" ELSE "save"]
  BY DEF Move
<1> DEFINE new == Reorder(q, id, up)
<1>2. RowsOK(table) BY TableRowsOK DEF TypeInv
<1>3. Rewrites(table, new) BY <1>2, ReorderRows
<1> HIDE DEF new
<1>4. new \in Seq(Row) BY <1>3 DEF Rewrites
<1>5. todo'[e] = new /\ pc'[e] = IF new = <<>> THEN "answer" ELSE "save"
  <2>1. pc \in [Editors -> Places] /\ todo \in [Editors -> Seq(Known)]
    BY DEF TypeInv, HandlerTypes
  <2> QED BY <1>1, <2>1 DEF new
<1>6. /\ Len(new) = Len(new) - 0 /\ 0 <= Len(new)
      /\ \A i \in DOMAIN new : new[i] = new[0 + i]
      /\ new = <<>> => 0 = Len(new)
  <2>1. Len(new) \in Nat /\ DOMAIN new = 1..Len(new) BY <1>4
  <2>2. \A i \in DOMAIN new : 0 + i = i BY <2>1
  <2> QED BY <2>1, <2>2
<1>7. table = Applied(table, new, 0) BY AppliedNone
<1>8. id \in Nat /\ 0 \in Nat BY DEF TypeInv, TableInv
<1>9. /\ Len(todo'[e]) = Len(Reorder(q, id, up)) - 0 /\ 0 <= Len(Reorder(q, id, up))
      /\ \A i \in DOMAIN todo'[e] : todo'[e][i] = Reorder(q, id, up)[0 + i]
      /\ table = Applied(table, Reorder(q, id, up), 0)
      /\ pc'[e] = "answer" => 0 = Len(Reorder(q, id, up))
  BY <1>5, <1>6, <1>7 DEF new
<1>10. pc'[e] \in {"save", "answer"} BY <1>5
<1> QED BY <1>2, <1>8, <1>9, <1>10 DEF Underway

\* The unique index refuses no write of a move: only trouble ends it early.
LEMMA SaveNextMoves ==
    ASSUME TypeInv, HistoryInv, NEW e \in Editors, SaveNext(e), op[e] = "move",
           Underway(before[e], table, pc[e], todo[e], clean[e])
    PROVE  Underway(before[e], table', pc'[e], todo'[e], clean'[e])
<1> DEFINE old == before[e]
<1>1. PICK q \in Listings(old), id \in Nat, up \in BOOLEAN, n \in Nat :
          /\ Len(todo[e]) = Len(Reorder(q, id, up)) - n /\ n <= Len(Reorder(q, id, up))
          /\ \A i \in DOMAIN todo[e] : todo[e][i] = Reorder(q, id, up)[n + i]
          /\ table = Applied(old, Reorder(q, id, up), n)
  BY DEF Underway
<1>2. RowsOK(old) BY DEF Underway
<1> HIDE DEF old
<1> DEFINE new == Reorder(q, id, up)
           row == Head(todo[e])
<1>3. Rewrites(old, new) BY <1>2, ReorderRows
<1>4. /\ pc \in [Editors -> Places] /\ todo \in [Editors -> Seq(Known)]
      /\ clean \in [Editors -> BOOLEAN] /\ troubles \in Nat /\ pc[e] = "save"
  BY DEF TypeInv, HandlerTypes, CacheTypes, HistoryInv, SaveNext
<1>5. /\ todo[e] \in Seq(Known) /\ todo[e] # <<>> /\ row = todo[e][1]
      /\ Len(todo[e]) > 1 <=> Tail(todo[e]) # <<>>
  BY <1>4, HandFacts DEF Holding
<1> HIDE DEF new
<1>6. /\ Len(todo[e]) = Len(new) - n /\ n <= Len(new) /\ Len(new) \in Nat
      /\ \A i \in DOMAIN todo[e] : todo[e][i] = new[n + i]
      /\ table = Applied(old, new, n)
  <2>1. Len(new) \in Nat BY <1>3 DEF Rewrites
  <2> QED BY <1>1, <2>1 DEF new
<1>7. Len(todo[e]) \in Nat \ {0} /\ DOMAIN todo[e] = 1..Len(todo[e]) /\ n < Len(new)
  <2> HIDE DEF Known
  <2> QED BY <1>5, <1>6
<1>8. row = new[n + 1]
  <2>1. 1 \in DOMAIN todo[e] BY <1>7
  <2> QED BY <1>5, <1>6, <2>1
<1> HIDE DEF row
<1>9. /\ row.id \in Nat \ {0}
      /\ \A r \in table : r.name = row.name => r.id = row.id
      /\ Applied(old, new, n + 1) = {r \in table : r.id # row.id} \union {row}
  BY <1>2, <1>3, <1>6, <1>7, <1>8, AppliedNext
<1>10. TakenBy(row) = {} BY <1>9 DEF TakenBy
<1>11. CASE Save(e, row) /\ todo' = [todo EXCEPT ![e] = Tail(@)]
            /\ pc' = [pc EXCEPT ![e] = IF Len(todo[e]) > 1 THEN "save" ELSE "answer"]
  <2>1. table' = Applied(old, new, n + 1) BY <1>9, <1>11 DEF Save
  <2>2. todo'[e] = Tail(todo[e]) /\ pc'[e] = IF Len(todo[e]) > 1 THEN "save" ELSE "answer"
    BY <1>4, <1>11
  <2>3. /\ Len(Tail(todo[e])) = Len(todo[e]) - 1
        /\ \A i \in DOMAIN Tail(todo[e]) : i + 1 \in DOMAIN todo[e]
              /\ Tail(todo[e])[i] = todo[e][i + 1] /\ n + (i + 1) = (n + 1) + i
    <3> DEFINE t == todo[e]
    <3>1. t \in Seq(Known) /\ t # <<>> BY <1>5
    <3>2. Len(t) \in Nat \ {0} /\ DOMAIN t = 1..Len(t) BY <1>7
    <3> HIDE DEF Known, t
    <3>3. /\ Tail(t) \in Seq(Known) /\ Len(Tail(t)) = Len(t) - 1
          /\ \A i \in 1..(Len(t) - 1) : Tail(t)[i] = t[i + 1]
      BY <3>1, HeadTailProperties
    <3>4. DOMAIN Tail(t) = 1..(Len(t) - 1) BY <3>3
    <3>5. \A i \in 1..(Len(t) - 1) : i + 1 \in DOMAIN t /\ n + (i + 1) = (n + 1) + i
      BY <3>2
    <3> QED BY <3>3, <3>4, <3>5 DEF t
  <2>4. Len(todo'[e]) = Len(new) - (n + 1) /\ n + 1 <= Len(new) /\ n + 1 \in Nat
    BY <1>6, <1>7, <2>2, <2>3
  <2>5. ASSUME NEW i \in DOMAIN todo'[e] PROVE todo'[e][i] = new[(n + 1) + i]
    <3>1. i \in DOMAIN Tail(todo[e]) /\ todo'[e][i] = Tail(todo[e])[i] BY <2>2
    <3>2. i + 1 \in DOMAIN todo[e] /\ todo'[e][i] = todo[e][i + 1] BY <2>3, <3>1
    <3>3. todo[e][i + 1] = new[n + (i + 1)] BY <1>6, <3>2
    <3> QED BY <2>3, <3>1, <3>2, <3>3
  <2>6. pc'[e] = "answer" => n + 1 = Len(new) BY <1>6, <1>7, <2>2
  <2>7. pc'[e] \in {"save", "answer"} BY <2>2
  <2>8. \E m \in Nat :
           /\ Len(todo'[e]) = Len(new) - m /\ m <= Len(new)
           /\ \A i \in DOMAIN todo'[e] : todo'[e][i] = new[m + i]
           /\ table' = Applied(old, new, m)
           /\ pc'[e] = "answer" /\ clean'[e] => m = Len(new)
    BY <2>1, <2>4, <2>5, <2>6
  <2> QED BY <1>2, <2>7, <2>8 DEF Underway, new, old
<1>12. CASE Refuses(row) /\ pc' = [pc EXCEPT ![e] = "answer"] /\ UNCHANGED todo
  <2>1. table' = table /\ troubles' = troubles + 1
    BY <1>10, <1>12 DEF Refuses, Trouble, repo
  <2>2. clean'[e] = FALSE
    <3>1. Cleanly(e) BY DEF SaveNext
    <3>2. clean'[e] = (op[e] = "none" \/ (clean[e] /\ troubles' = troubles))
      BY <1>4, <3>1 DEF Cleanly
    <3>3. troubles' # troubles BY <1>4, <2>1
    <3> QED BY <3>2, <3>3
  <2>3. pc'[e] = "answer" /\ todo'[e] = todo[e] BY <1>4, <1>12
  <2> QED BY <1>2, <1>6, <2>1, <2>2, <2>3 DEF Underway, new, old
<1> QED BY <1>11, <1>12 DEF SaveNext, row

LEMMA MoveStep ==
    ASSUME TypeInv, HistoryInv, MoveInv, NEW e \in Editors, Acts(e)
    PROVE  MoveInv'
<1> SUFFICES ASSUME NEW d \in Editors, (op[d] = "move" /\ quiet[d])'
             PROVE  (Underway(before[d], table, pc[d], todo[d], clean[d]))'
  BY DEF MoveInv
<1>0. clean \in [Editors -> BOOLEAN] BY DEF HistoryInv
<1>1. CASE d # e
  <2>1. /\ pc'[d] = pc[d] /\ todo'[d] = todo[d] /\ op'[d] = op[d] /\ before'[d] = before[d]
        /\ (clean'[d] <=> clean[d])
        /\ op[d] # "none" /\ quiet'[d] => quiet[d] /\ UNCHANGED repo
    BY <1>1, Bystander
  <2>2. op[d] = "move" /\ quiet[d] /\ table' = table BY <2>1 DEF repo
  <2>3. Underway(before[d], table, pc[d], todo[d], clean[d]) BY <2>2 DEF MoveInv
  <2> QED BY <2>1, <2>2, <2>3 DEF Underway
<1>2. CASE d = e
  <2>1. /\ op \in [Editors -> {"none", "move", "import", "probe"}]
        /\ before \in [Editors -> SUBSET Row]
        /\ quiet \in [Editors -> BOOLEAN]
        /\ OpOK(pc[e], op[e])
    BY DEF HistoryInv
  <2>2. op'[e] = "move" BY <1>2
  <2>3. Move(e) \/ SaveNext(e)
    <3>1. CASE OpenForm(e) \/ Leave(e) \/ Export(e) \/ Fails(e) \/ Delete(e)
      <4>1. UNCHANGED op /\ pc[e] \in {"idle", "form"}
        BY <3>1 DEF OpenForm, Leave, Export, Fails, Delete, history
      <4> QED BY <2>1, <2>2, <4>1 DEF OpOK
    <3>2. CASE Submit(e) \/ Find(e) \/ Lookup(e) \/ Store(e) \/ Resolve(e)
      <4>1. UNCHANGED op /\ pc[e] \in {"form", "find", "lookup", "update", "create", "resolve"}
        BY <3>2 DEF Submit, Find, Lookup, Store, Resolve
      <4> QED BY <2>1, <2>2, <4>1 DEF OpOK
    <3>3. CASE Import(e) BY <2>1, <2>2, <3>3 DEF Import, Request
    <3>4. CASE Probe(e) BY <2>1, <2>2, <3>4 DEF Probe
    <3>5. CASE Answer(e) BY <2>1, <2>2, <3>5 DEF Answer
    <3> QED BY <3>1, <3>2, <3>3, <3>4, <3>5 DEF Acts, Work
  <2>4. CASE Move(e)
    <3>1. before'[e] = table /\ table' = table BY <2>1, <2>4 DEF Move, Request, repo
    <3> QED BY <1>2, <2>4, <3>1, MovePlans
  <2>5. CASE SaveNext(e)
    <3>1. UNCHANGED op /\ UNCHANGED before BY <2>5 DEF SaveNext
    <3>2. op[e] = "move" BY <2>2, <3>1
    <3>3. quiet[e]
      <4>1. UNCHANGED quiet \/ Wrote(e) BY <2>5 DEF SaveNext, Save, Insert, Refuses
      <4> QED BY <1>2, <2>1, <3>2, <4>1 DEF Wrote
    <3>4. Underway(before[e], table, pc[e], todo[e], clean[e]) BY <3>2, <3>3 DEF MoveInv
    <3>5. Underway(before[e], table', pc'[e], todo'[e], clean'[e])
      BY <2>5, <3>2, <3>4, SaveNextMoves
    <3> QED BY <1>2, <3>1, <3>5
  <2> QED BY <2>3, <2>4, <2>5
<1> QED BY <1>1, <1>2

----------------------------------------------------------------------------
(* Moves: what an alert finds then.                                        *)

Hits(q, alert) == {i \in Labelled(q) : LabelsMatch(q[i].match, alert)}
Spare(q) == DOMAIN q \ Labelled(q)

LEMMA MatchOf ==
    ASSUME NEW q \in Seq(Row), NEW alert
    PROVE  /\ Hits(q, alert) # {} => \E i \in Hits(q, alert) : \A j \in Hits(q, alert) : i <= j
           /\ \A i \in Hits(q, alert) :
                 (\A j \in Hits(q, alert) : i <= j) => Match(q, alert) = <<q[i]>>
           /\ Spare(q) # {} => \E i \in Spare(q) : \A j \in Spare(q) : j <= i
           /\ \A i \in Spare(q) : Hits(q, alert) = {} /\ (\A j \in Spare(q) : j <= i) =>
                 Match(q, alert) = <<q[i]>>
           /\ Hits(q, alert) = {} /\ Spare(q) = {} => Match(q, alert) = <<>>
<1> DEFINE hits == Hits(q, alert)
           spare == Spare(q)
<1>1. /\ hits # {} => \E i \in hits : Match(q, alert) = <<q[i]>> /\ \A j \in hits : i <= j
      /\ hits = {} /\ spare # {} =>
            \E i \in spare : Match(q, alert) = <<q[i]>> /\ \A j \in spare : j <= i
      /\ hits = {} /\ spare = {} => Match(q, alert) = <<>>
  BY MatchFacts DEF Hits, Spare
<1>2. Len(q) \in Nat /\ DOMAIN q = 1..Len(q) OBVIOUS
<1>3. hits \in SUBSET (1..Len(q)) /\ spare \in SUBSET (0..Len(q))
  BY <1>2 DEF Hits, Spare, Labelled
<1> HIDE DEF hits, spare
<1>4. spare # {} => \E i \in spare : \A j \in spare : j <= i BY <1>2, <1>3, GreatestOf
<1>5. ASSUME NEW i \in hits, \A j \in hits : i <= j PROVE Match(q, alert) = <<q[i]>>
  <2>1. PICK k \in hits : Match(q, alert) = <<q[k]>> /\ \A j \in hits : k <= j BY <1>1
  <2>2. i <= k /\ k <= i /\ i \in Nat /\ k \in Nat BY <1>2, <1>3, <1>5, <2>1
  <2>3. i = k BY <2>2
  <2> QED BY <2>1, <2>3
<1>6. ASSUME NEW i \in spare, hits = {}, \A j \in spare : j <= i
      PROVE  Match(q, alert) = <<q[i]>>
  <2>1. PICK k \in spare : Match(q, alert) = <<q[k]>> /\ \A j \in spare : j <= k BY <1>1, <1>6
  <2>2. i <= k /\ k <= i /\ i \in Nat /\ k \in Nat BY <1>2, <1>3, <1>6, <2>1
  <2>3. i = k BY <2>2
  <2> QED BY <2>1, <2>3
<1> QED BY <1>1, <1>4, <1>5, <1>6 DEF hits, spare

\* It makes no difference to an alert that the labelled rows come first.
LEMMA MatchOrdered ==
    ASSUME NEW old, RowsOK(old), NEW q \in Listings(old), NEW alert
    PROVE  Match(LabelledFirst(q), alert) = Match(q, alert)
<1> DEFINE all == LabelledFirst(q)
           L == Labelled(q)
           C == DOMAIN q \ L
           l == Cardinality(L)
           c == Cardinality(C)
<1>1. /\ q \in Seq(old) /\ q \in Seq(Row) /\ Len(q) \in Nat
  BY ListingFacts DEF RowsOK
<1>2. /\ all \in Seq(old) /\ l \in Nat
      /\ \A i \in DOMAIN all : i <= l <=> ~Catchall(all[i])
  BY LabelledFirstOnce
<1>3. all \in Seq(Row)
  <2>1. old \subseteq Row BY DEF RowsOK
  <2> HIDE DEF all
  <2> QED BY <1>2, <2>1
<1>4. c \in Nat /\ Len(all) = l + c
  <2> HIDE DEF all, L, C, l, c
  <2> SUFFICES /\ Cardinality(DOMAIN q \ Labelled(q)) \in Nat
               /\ Len(LabelledFirst(q)) =
                     Cardinality(Labelled(q)) + Cardinality(DOMAIN q \ Labelled(q))
    BY DEF all, L, C, l, c
  <2> QED BY <1>1, LabelledFirstFacts
<1>5. /\ \A i \in 1..l : all[i] = q[Nth(L, i)]
      /\ \A i \in 1..c : all[l + i] = q[Nth(C, i)]
  <2> HIDE DEF all, L, C, l, c
  <2> SUFFICES /\ \A i \in 1..Cardinality(Labelled(q)) : LabelledFirst(q)[i] = q[Nth(Labelled(q), i)]
               /\ \A i \in 1..Cardinality(DOMAIN q \ Labelled(q)) :
                     LabelledFirst(q)[Cardinality(Labelled(q)) + i] = q[Nth(DOMAIN q \ Labelled(q), i)]
    BY DEF all, L, C, l, c
  <2> QED BY <1>1, LabelledFirstFacts
<1>6. L \in SUBSET (1..Len(q)) /\ C \in SUBSET (1..Len(q)) /\ DOMAIN q = 1..Len(q)
  BY <1>1 DEF Labelled
<1>7. (\A i \in L : i \in Nat) /\ (\A i \in C : i \in Nat)
  <2>1. DOMAIN q \subseteq Nat BY <1>1
  <2> QED BY <2>1 DEF Labelled
<1>8. /\ \A i \in L : Rank(L, i) \in 1..l
      /\ \A i, j \in L : i < j => Rank(L, i) < Rank(L, j)
      /\ \A k \in 1..l : Nth(L, k) \in L /\ Rank(L, Nth(L, k)) = k
      /\ \A i \in L : Nth(L, Rank(L, i)) = i
  <2> HIDE DEF L
  <2> QED BY <1>1, <1>6, RankFacts
<1>9. /\ \A i \in C : Rank(C, i) \in 1..c
      /\ \A i, j \in C : i < j => Rank(C, i) < Rank(C, j)
      /\ \A k \in 1..c : Nth(C, k) \in C /\ Rank(C, Nth(C, k)) = k
      /\ \A i \in C : Nth(C, Rank(C, i)) = i
  <2> HIDE DEF C
  <2> QED BY <1>1, <1>6, RankFacts
<1>10. Spare(q) = C BY DEF Spare
<1>11. Hits(q, alert) = {i \in L : LabelsMatch(q[i].match, alert)} BY DEF Hits
<1> HIDE DEF all, L, C, l, c
<1>12. DOMAIN all = 1..(l + c) BY <1>3, <1>4
<1>13. Labelled(all) = 1..l BY <1>2, <1>4, <1>12 DEF Labelled
<1>14. Spare(all) = {i \in 1..(l + c) : i > l} BY <1>2, <1>4, <1>12, <1>13 DEF Spare
<1>15. Hits(all, alert) = {i \in 1..l : LabelsMatch(all[i].match, alert)} BY <1>13 DEF Hits
<1>16. \A k \in Hits(all, alert) : k \in 1..l /\ Nth(L, k) \in Hits(q, alert)
  BY <1>5, <1>8, <1>11, <1>15
<1>17. \A j \in Hits(q, alert) : Rank(L, j) \in Hits(all, alert) /\ j \in L
  BY <1>5, <1>8, <1>11, <1>15
<1>18. CASE Hits(all, alert) # {}
  <2>1. PICK i \in Hits(all, alert) : \A j \in Hits(all, alert) : i <= j
    BY <1>3, <1>18, MatchOf
  <2>2. Match(all, alert) = <<all[i]>> BY <1>3, <2>1, MatchOf
  <2>3. i \in 1..l /\ Nth(L, i) \in Hits(q, alert) /\ Nth(L, i) \in L /\ Rank(L, Nth(L, i)) = i
    BY <1>8, <1>16, <2>1
  <2>4. ASSUME NEW j \in Hits(q, alert) PROVE Nth(L, i) <= j
    <3>1. i <= Rank(L, j) /\ j \in L /\ Rank(L, j) \in 1..l BY <1>8, <1>17, <2>1
    <3>2. ~(Rank(L, j) < i) BY <1>2, <2>3, <3>1
    <3>3. ~(j < Nth(L, i)) BY <1>8, <2>3, <3>1, <3>2
    <3>4. j \in Nat /\ Nth(L, i) \in Nat BY <1>7, <2>3, <3>1
    <3> QED BY <3>3, <3>4
  <2>5. Match(q, alert) = <<q[Nth(L, i)]>> BY <1>1, <2>3, <2>4, MatchOf
  <2> QED BY <1>5, <2>2, <2>3, <2>5 DEF all
<1>19. CASE Hits(all, alert) = {} /\ Spare(all) # {}
  <2>1. Hits(q, alert) = {} BY <1>17, <1>19
  <2>2. PICK i \in Spare(all) : \A j \in Spare(all) : j <= i BY <1>3, <1>19, MatchOf
  <2>3. Match(all, alert) = <<all[i]>> BY <1>3, <1>19, <2>2, MatchOf
  <2> DEFINE k == i - l
  <2>4. k \in 1..c /\ i = l + k BY <1>2, <1>4, <1>14, <2>2
  <2> HIDE DEF k
  <2>5. Nth(C, k) \in C /\ Rank(C, Nth(C, k)) = k BY <1>9, <2>4
  <2>6. ASSUME NEW j \in C PROVE j <= Nth(C, k)
    <3>1. Rank(C, j) \in 1..c BY <1>9
    <3>2. l + Rank(C, j) \in Spare(all) BY <1>2, <1>4, <1>14, <3>1
    <3>3. ~(k < Rank(C, j)) BY <1>2, <1>4, <2>2, <2>4, <3>1, <3>2
    <3>4. ~(Nth(C, k) < j) BY <1>9, <2>5, <3>3
    <3>5. j \in Nat /\ Nth(C, k) \in Nat BY <1>7, <2>5
    <3> QED BY <3>4, <3>5
  <2>7. Match(q, alert) = <<q[Nth(C, k)]>> BY <1>1, <1>10, <2>1, <2>5, <2>6, MatchOf
  <2> QED BY <1>5, <2>3, <2>4, <2>7 DEF all
<1>20. CASE Hits(all, alert) = {} /\ Spare(all) = {}
  <2>1. Hits(q, alert) = {} BY <1>17, <1>20
  <2>2. Spare(q) = {}
    <3>1. SUFFICES ASSUME NEW j \in C PROVE FALSE BY <1>10
    <3>2. Rank(C, j) \in 1..c BY <1>9
    <3>3. l + Rank(C, j) \in Spare(all) BY <1>2, <1>4, <1>14, <3>2
    <3> QED BY <1>20, <3>3
  <2> QED BY <1>1, <1>3, <1>20, <2>1, <2>2, MatchOf DEF all
<1> QED BY <1>18, <1>19, <1>20 DEF all

\* Two neighbours among the l labelled rows have changed places.
Swapped(all, new, l, i) ==
    /\ all \in Seq(Row) /\ new \in Seq(Row) /\ DOMAIN new = DOMAIN all
    /\ l \in Nat /\ l <= Len(all) /\ i \in 1..(l - 1)
    /\ \A k \in DOMAIN all : k <= l <=> ~Catchall(all[k])
    /\ \A k \in DOMAIN all :
          Contents(new[k]) = Contents(IF k = i THEN all[i + 1]
                                      ELSE IF k = i + 1 THEN all[i] ELSE all[k])

\* Then an alert finds the
\* row it found before, or the second of the two instead of the first.
LEMMA SwapMatches ==
    ASSUME NEW all, NEW new, NEW l, NEW i, Swapped(all, new, l, i), NEW alert
    PROVE  \/ Ids(Match(new, alert)) = Ids(Match(all, alert))
           \/ /\ Ids(Match(all, alert)) = <<all[i].id>>
              /\ Ids(Match(new, alert)) = <<all[i + 1].id>>
<1> DEFINE hit(q, k) == LabelsMatch(q[k].match, alert)
<1>0. /\ all \in Seq(Row) /\ new \in Seq(Row) /\ DOMAIN new = DOMAIN all
      /\ l \in Nat /\ l <= Len(all) /\ i \in 1..(l - 1)
      /\ \A k \in DOMAIN all : k <= l <=> ~Catchall(all[k])
      /\ \A k \in DOMAIN all :
            Contents(new[k]) = Contents(IF k = i THEN all[i + 1]
                                        ELSE IF k = i + 1 THEN all[i] ELSE all[k])
  BY DEF Swapped
<1>1. /\ Len(all) \in Nat /\ DOMAIN all = 1..Len(all)
      /\ i \in DOMAIN all /\ i + 1 \in DOMAIN all
      /\ l \in Nat /\ i < l /\ i <= l /\ i + 1 <= l
      /\ i \in Nat /\ i + 1 \in Nat /\ i # i + 1 /\ i < i + 1
  BY <1>0
<1>2. \A r : Contents(r).match = r.match /\ Contents(r).id = r.id BY DEF Contents
<1>3. /\ new[i].match = all[i + 1].match /\ new[i].id = all[i + 1].id
      /\ new[i + 1].match = all[i].match /\ new[i + 1].id = all[i].id
      /\ \A k \in DOMAIN all : k # i /\ k # i + 1 =>
            new[k].match = all[k].match /\ new[k].id = all[k].id
  BY <1>0, <1>1, <1>2
<1>4. Labelled(all) = {k \in DOMAIN all : k <= l} BY <1>0 DEF Labelled
<1>5. Labelled(new) = {k \in DOMAIN all : k <= l}
  <2>1. ASSUME NEW k \in DOMAIN all PROVE k <= l <=> ~Catchall(new[k])
    BY <1>0, <1>1, <1>3 DEF Catchall
  <2> QED BY <1>0, <2>1 DEF Labelled
<1>6. Spare(new) = Spare(all) BY <1>0, <1>4, <1>5 DEF Spare
<1>7. Hits(all, alert) = {k \in DOMAIN all : k <= l /\ hit(all, k)} BY <1>4 DEF Hits
<1>8. Hits(new, alert) = {k \in DOMAIN all : k <= l /\ hit(new, k)} BY <1>5 DEF Hits
<1>9. /\ hit(new, i) <=> hit(all, i + 1)
      /\ hit(new, i + 1) <=> hit(all, i)
      /\ \A k \in DOMAIN all : k # i /\ k # i + 1 => (hit(new, k) <=> hit(all, k))
  BY <1>3
<1> HIDE DEF hit
<1>10. \A r : Ids(<<r>>) = <<r.id>>
  <2> TAKE r
  <2>1. DOMAIN <<r>> = {1} /\ <<r>>[1] = r OBVIOUS
  <2>2. DOMAIN <<r.id>> = {1} /\ <<r.id>>[1] = r.id OBVIOUS
  <2>3. Ids(<<r>>) = [k \in {1} |-> r.id] BY <2>1 DEF Ids
  <2> QED BY <2>2, <2>3
<1>11. CASE Hits(all, alert) = {}
  <2>1. Hits(new, alert) = {} BY <1>1, <1>7, <1>8, <1>9, <1>11
  <2>2. CASE Spare(all) = {}
    <3>1. Match(all, alert) = <<>> /\ Match(new, alert) = <<>>
      BY <1>0, <1>6, <1>11, <2>1, <2>2, MatchOf
    <3> QED BY <3>1
  <2>3. CASE Spare(all) # {}
    <3>1. PICK k \in Spare(all) : \A j \in Spare(all) : j <= k BY <1>0, <2>3, MatchOf
    <3>2. Match(all, alert) = <<all[k]>> BY <1>0, <1>11, <3>1, MatchOf
    <3>3. Match(new, alert) = <<new[k]>> BY <1>0, <1>6, <2>1, <3>1, MatchOf
    <3>4. k \in DOMAIN all /\ ~(k <= l) BY <1>4 DEF Spare
    <3>5. new[k].id = all[k].id BY <1>1, <1>3, <3>4
    <3> QED BY <1>10, <3>2, <3>3, <3>5
  <2> QED BY <2>2, <2>3
<1>12. CASE Hits(all, alert) # {}
  <2>1. PICK m \in Hits(all, alert) : \A j \in Hits(all, alert) : m <= j BY <1>0, <1>12, MatchOf
  <2>2. Match(all, alert) = <<all[m]>> BY <1>0, <2>1, MatchOf
  <2>3. m \in DOMAIN all /\ m <= l /\ hit(all, m) BY <1>7
  <2>4. \A j \in DOMAIN all : j <= l /\ hit(all, j) => m <= j BY <1>7, <2>1
  <2>5. ASSUME NEW k \in DOMAIN all, k <= l, hit(new, k),
               \A j \in DOMAIN all : j <= l /\ hit(new, j) => k <= j
        PROVE  Ids(Match(new, alert)) = <<new[k].id>>
    <3>1. k \in Hits(new, alert) /\ \A j \in Hits(new, alert) : k <= j BY <1>8, <2>5
    <3>2. Match(new, alert) = <<new[k]>> BY <1>0, <3>1, MatchOf
    <3> QED BY <1>10, <3>2
  <2>6. Ids(Match(all, alert)) = <<all[m].id>> BY <1>10, <2>2
  <2>7. CASE m # i /\ m # i + 1
    <3>1. hit(new, m) /\ new[m].id = all[m].id BY <1>3, <1>9, <2>3, <2>7
    <3>2. ASSUME NEW j \in DOMAIN all, j <= l, hit(new, j) PROVE m <= j
      <4>1. CASE j # i /\ j # i + 1 BY <1>9, <2>4, <3>2, <4>1
      <4>2. CASE j = i
        <5>1. m <= i + 1 BY <1>1, <1>9, <2>4, <3>2, <4>2
        <5> QED BY <1>1, <2>3, <2>7, <4>2, <5>1
      <4>3. CASE j = i + 1
        <5>1. m <= i BY <1>1, <1>9, <2>4, <3>2, <4>3
        <5> QED BY <1>1, <2>3, <4>3, <5>1
      <4> QED BY <4>1, <4>2, <4>3
    <3> QED BY <2>3, <2>5, <2>6, <3>1, <3>2
  <2>8. CASE m = i + 1
    <3>1. ~hit(all, i) BY <1>1, <2>4, <2>8
    <3>2. hit(new, i) /\ new[i].id = all[m].id BY <1>3, <1>9, <2>3, <2>8
    <3>3. ASSUME NEW j \in DOMAIN all, j <= l, hit(new, j) PROVE i <= j
      <4>1. CASE j = i BY <1>1, <4>1
      <4>2. CASE j = i + 1 BY <1>1, <4>2
      <4>3. CASE j # i /\ j # i + 1
        <5>1. i + 1 <= j BY <1>9, <2>4, <2>8, <3>3, <4>3
        <5> QED BY <1>1, <5>1
      <4> QED BY <4>1, <4>2, <4>3
    <3> QED BY <1>1, <2>5, <2>6, <3>2, <3>3
  <2>9. CASE m = i /\ hit(all, i + 1)
    <3>1. hit(new, i) /\ new[i].id = all[i + 1].id BY <1>3, <1>9, <2>9
    <3>2. ASSUME NEW j \in DOMAIN all, j <= l, hit(new, j) PROVE i <= j
      <4>1. CASE j = i BY <1>1, <4>1
      <4>2. CASE j = i + 1 BY <1>1, <4>2
      <4>3. CASE j # i /\ j # i + 1 BY <1>9, <2>4, <2>9, <3>2, <4>3
      <4> QED BY <4>1, <4>2, <4>3
    <3> QED BY <1>1, <2>5, <2>6, <2>9, <3>1, <3>2
  <2>10. CASE m = i /\ ~hit(all, i + 1)
    <3>1. hit(new, i + 1) /\ new[i + 1].id = all[m].id /\ ~hit(new, i)
      BY <1>3, <1>9, <2>3, <2>10
    <3>2. ASSUME NEW j \in DOMAIN all, j <= l, hit(new, j) PROVE i + 1 <= j
      <4>1. CASE j = i BY <3>1, <3>2, <4>1
      <4>2. CASE j = i + 1 BY <1>1, <4>2
      <4>3. CASE j # i /\ j # i + 1
        <5>1. i <= j BY <1>9, <2>4, <2>10, <3>2, <4>3
        <5> QED BY <1>1, <4>3, <5>1
      <4> QED BY <4>1, <4>2, <4>3
    <3> QED BY <1>1, <2>5, <2>6, <3>1, <3>2
  <2> QED BY <2>7, <2>8, <2>9, <2>10
<1> QED BY <1>11, <1>12

\* When the positions are the numbers from 1 on, a table has one listing.
LEMMA OneListing ==
    ASSUME NEW s \in Seq(Row), \A i \in DOMAIN s : s[i].order = i,
           NEW rows, IsFiniteSet(rows), rows = {s[i] : i \in DOMAIN s},
           NEW new \in Listings(rows)
    PROVE  new \in Seq(Row) /\ DOMAIN new = DOMAIN s /\ \A i \in DOMAIN s : new[i] = s[i]
<1> DEFINE N == Len(s)
<1>1. N \in Nat /\ DOMAIN s = 1..N OBVIOUS
<1> HIDE DEF N
<1>2. \A r \in rows : r \in Row /\ r.order \in 1..N /\ s[r.order] = r BY <1>1
<1>3. /\ new \in Seq(rows) /\ new \in Seq(Row) /\ Len(new) = Cardinality(rows)
      /\ \A r \in rows : \E i \in DOMAIN new : new[i] = r
      /\ \A i, j \in DOMAIN new : new[i] = new[j] => i = j
      /\ \A i, j \in DOMAIN new : i <= j => new[i].order <= new[j].order
  <2>1. \A r \in rows : r \in Row BY <1>2
  <2> QED BY <2>1, ListingFacts
<1>4. Len(new) = N
  <2> DEFINE f == [i \in 1..N |-> s[i]]
  <2>1. \A i, j \in 1..N : s[i] = s[j] => i = j BY <1>1
  <2>2. f \in Bijection(1..N, rows)
    BY <1>1, <2>1 DEF Bijection, Injection, Surjection, IsInjective
  <2> HIDE DEF f
  <2>3. IsFiniteSet(1..N) /\ Cardinality(1..N) = N BY <1>1, FS_Interval
  <2>4. ExistsBijection(1..N, rows) BY <2>2 DEF ExistsBijection
  <2> QED BY <1>3, <2>3, <2>4, FS_Bijection
<1>5. DOMAIN new = 1..N BY <1>3, <1>4
<1>6. \A i \in 1..N : new[i] \in rows
  <2>1. new \in Seq(rows) BY <1>3
  <2>2. \A i \in DOMAIN new : new[i] \in rows BY <2>1
  <2> QED BY <1>5, <2>2
<1> DEFINE Bad == {i \in 1..N : new[i].order # i}
<1>7. Bad = {}
  <2> SUFFICES ASSUME Bad # {} PROVE FALSE OBVIOUS
  <2>1. Bad \in SUBSET Nat BY <1>1
  <2> DEFINE m == Min(Bad)
  <2>2. m \in Bad /\ \A i \in Bad : m <= i BY <2>1, LeastOf
  <2> HIDE DEF m
  <2>3. m \in 1..N /\ new[m].order # m /\ \A i \in 1..N : i < m => new[i].order = i
    BY <1>1, <2>2
  <2> HIDE DEF Bad
  <2>4. s[m] \in rows /\ s[m].order = m BY <1>1, <2>3
  <2>5. PICK k \in 1..N : new[k] = s[m] BY <1>3, <1>5, <2>4
  <2>6. m < k BY <1>1, <2>3, <2>4, <2>5
  <2>7. new[m].order <= m
    <3>1. m \in DOMAIN new /\ k \in DOMAIN new /\ m <= k BY <1>1, <1>5, <2>3, <2>6
    <3>2. new[m].order <= new[k].order BY <1>3, <3>1
    <3> QED BY <2>4, <2>5, <3>2
  <2> DEFINE p == new[m].order
  <2>8. p \in 1..N /\ s[p] = new[m] BY <1>2, <1>6, <2>3
  <2>9. p = new[m].order OBVIOUS
  <2> HIDE DEF p
  <2>10. p < m BY <1>1, <2>3, <2>7, <2>8, <2>9
  <2>11. new[p].order = p BY <2>3, <2>8, <2>10
  <2>12. new[p] = new[m] BY <1>2, <1>6, <2>8, <2>11
  <2>13. p = m BY <1>3, <1>5, <2>3, <2>8, <2>12
  <2> QED BY <1>1, <2>3, <2>10, <2>13
<1>8. \A i \in 1..N : new[i] = s[i] BY <1>2, <1>6, <1>7
<1> QED BY <1>1, <1>3, <1>5, <1>8

\* What a move without trouble has made of the table.
LEMMA MovedTable ==
    ASSUME NEW old, RowsOK(old), NEW q \in Listings(old), NEW id, NEW up \in BOOLEAN,
           NEW rows, IsFiniteSet(rows),
           rows = Applied(old, Reorder(q, id, up), Len(Reorder(q, id, up))), rows # old
    PROVE  /\ \A r, s \in rows : r.order = s.order => r = s
           /\ \E i \in 1..(Cardinality(Labelled(q)) - 1) :
                 /\ i \in 1..(Cardinality(old) - 1)
                 /\ \A new \in Listings(rows) :
                       /\ Ids(new) = Swap(Ids(LabelledFirst(q)), i, i + 1)
                       /\ \A a \in Alerts :
                             \/ Ids(Match(new, a)) = Ids(Match(q, a))
                             \/ /\ Ids(Match(q, a)) = <<LabelledFirst(q)[i].id>>
                                /\ Ids(Match(new, a)) = <<LabelledFirst(q)[i + 1].id>>
<1> DEFINE all == LabelledFirst(q)
           s == Moved(q, id, up)
           l == Cardinality(Labelled(q))
<1>1. Whither(q, id, up) # {}
  <2> SUFFICES ASSUME Whither(q, id, up) = {} PROVE FALSE OBVIOUS
  <2>1. Reorder(q, id, up) = <<>> BY ReorderRows
  <2>2. rows = Applied(old, <<>>, 0) BY <2>1
  <2> QED BY <2>2, AppliedNone
<1>2. rows = {Numbered(s)[j] : j \in DOMAIN s} BY <1>1, AppliedAll
<1>3. /\ s \in Seq(old) /\ Len(s) = Cardinality(old) /\ Len(s) \in Nat
      /\ DOMAIN s = DOMAIN all
      /\ \A i, j \in DOMAIN s : s[i] = s[j] => i = j
  BY <1>1, MovedFacts
<1>4. PICK i \in 1..(l - 1) : \A k \in DOMAIN s :
         s[k] = IF k = i THEN all[i + 1] ELSE IF k = i + 1 THEN all[i] ELSE all[k]
  BY <1>1, MovedFacts
<1>5. /\ all \in Seq(old) /\ l \in Nat /\ l <= Len(all) /\ Len(all) = Cardinality(old)
      /\ \A k \in DOMAIN all : k <= l <=> ~Catchall(all[k])
  BY LabelledFirstOnce
<1>6. \A a \in Alerts : Match(all, a) = Match(q, a) BY MatchOrdered
<1> HIDE DEF all, s, l
<1>7. all \in Seq(Row)
  <2>1. old \subseteq Row BY DEF RowsOK
  <2> QED BY <1>5, <2>1
<1>8. /\ Numbered(s) \in Seq(Row) /\ DOMAIN Numbered(s) = DOMAIN s
      /\ \A j \in DOMAIN s :
            /\ Numbered(s)[j].id = s[j].id /\ Numbered(s)[j].order = j
            /\ Contents(Numbered(s)[j]) = Contents(s[j])
  BY <1>3, NumberedFacts
<1>9. \A r, t \in rows : r.order = t.order => r = t BY <1>2, <1>8
<1>10. i \in 1..(Cardinality(old) - 1) BY <1>3, <1>4, <1>5
<1>11. i \in DOMAIN all /\ i + 1 \in DOMAIN all /\ i # i + 1 BY <1>4, <1>5
<1>12. ASSUME NEW new \in Listings(rows)
       PROVE  /\ Ids(new) = Swap(Ids(all), i, i + 1)
              /\ \A a \in Alerts :
                    \/ Ids(Match(new, a)) = Ids(Match(q, a))
                    \/ /\ Ids(Match(q, a)) = <<all[i].id>>
                       /\ Ids(Match(new, a)) = <<all[i + 1].id>>
  <2>1. /\ new \in Seq(Row) /\ DOMAIN new = DOMAIN all
        /\ \A k \in DOMAIN all : new[k] = Numbered(s)[k]
    <3>1. \A k \in DOMAIN Numbered(s) : Numbered(s)[k].order = k BY <1>8
    <3>2. rows = {Numbered(s)[k] : k \in DOMAIN Numbered(s)} BY <1>2, <1>8
    <3> DEFINE num == Numbered(s)
    <3>3. num \in Seq(Row) BY <1>8
    <3> HIDE DEF num
    <3>4. new \in Seq(Row) /\ DOMAIN new = DOMAIN num /\ \A k \in DOMAIN num : new[k] = num[k]
      BY <3>1, <3>2, <3>3, OneListing DEF num
    <3> QED BY <1>3, <1>8, <3>4 DEF num
  <2>2. \A k \in DOMAIN all :
           /\ new[k].id = IF k = i THEN all[i + 1].id
                          ELSE IF k = i + 1 THEN all[i].id ELSE all[k].id
           /\ Contents(new[k]) = Contents(IF k = i THEN all[i + 1]
                                          ELSE IF k = i + 1 THEN all[i] ELSE all[k])
    BY <1>3, <1>4, <1>8, <2>1
  <2>3. Ids(new) = Swap(Ids(all), i, i + 1)
    <3>1. Ids(all) = [k \in DOMAIN all |-> all[k].id] BY DEF Ids
    <3>2. Ids(new) = [k \in DOMAIN all |-> new[k].id] BY <2>1 DEF Ids
    <3>3. Swap(Ids(all), i, i + 1) =
             [k \in DOMAIN all |-> IF k = i THEN all[i + 1].id
                                   ELSE IF k = i + 1 THEN all[i].id ELSE all[k].id]
      BY <1>11, <3>1 DEF Swap
    <3> QED BY <2>2, <3>2, <3>3
  <2>4. ASSUME NEW a \in Alerts
        PROVE  \/ Ids(Match(new, a)) = Ids(Match(all, a))
               \/ /\ Ids(Match(all, a)) = <<all[i].id>>
                  /\ Ids(Match(new, a)) = <<all[i + 1].id>>
    <3>1. new \in Seq(Row) /\ DOMAIN new = DOMAIN all /\ all \in Seq(Row) BY <1>7, <2>1
    <3>2. l \in Nat /\ l <= Len(all) /\ i \in 1..(l - 1) BY <1>4, <1>5
    <3>3. \A k \in DOMAIN all : k <= l <=> ~Catchall(all[k]) BY <1>5
    <3>4. \A k \in DOMAIN all :
             Contents(new[k]) = Contents(IF k = i THEN all[i + 1]
                                         ELSE IF k = i + 1 THEN all[i] ELSE all[k])
      BY <2>2
    <3>5. Swapped(all, new, l, i) BY <3>1, <3>2, <3>3, <3>4 DEF Swapped
    <3> QED BY <3>5, SwapMatches
  <2> QED BY <1>6, <2>3, <2>4
<1> QED BY <1>4, <1>9, <1>10, <1>12 DEF all, l

LEMMA MoveMoves == TypeInv /\ MoveInv => MoveSwapsNeighbours
<1> SUFFICES ASSUME TypeInv, MoveInv, NEW e \in Editors, Done(e, "move")
             PROVE  /\ {Contents(r) : r \in table} = {Contents(r) : r \in before[e]}
                    /\ clean[e] /\ table # before[e] =>
                          /\ \A r, s \in table : r.order = s.order => r = s
                          /\ \A new \in Listings(table) :
                                \E q \in Listings(before[e]), i \in 1..(Cardinality(table) - 1) :
                                    LET old == LabelledFirst(q) IN
                                    /\ Ids(new) = Swap(Ids(old), i, i + 1)
                                    /\ \A a \in Alerts :
                                          \/ Ids(Match(new, a)) = Ids(Match(q, a))
                                          \/ /\ Ids(Match(q, a)) = <<old[i].id>>
                                             /\ Ids(Match(new, a)) = <<old[i + 1].id>>
  BY DEF MoveSwapsNeighbours
<1> DEFINE was == before[e]
<1>1. pc[e] = "answer" /\ op[e] = "move" /\ quiet[e] BY DEF Done
<1>2. Underway(was, table, "answer", todo[e], clean[e]) BY <1>1 DEF MoveInv
<1> HIDE DEF was
<1>3. PICK q \in Listings(was), id \in Nat, up \in BOOLEAN, n \in Nat :
          /\ n <= Len(Reorder(q, id, up))
          /\ table = Applied(was, Reorder(q, id, up), n)
          /\ clean[e] => n = Len(Reorder(q, id, up))
  BY <1>2 DEF Underway
<1>4. RowsOK(was) BY <1>2 DEF Underway
<1>5. Rewrites(was, Reorder(q, id, up)) BY <1>4, ReorderRows
<1>6. n \in 0..Len(Reorder(q, id, up))
  <2>1. Len(Reorder(q, id, up)) \in Nat BY <1>5 DEF Rewrites
  <2> QED BY <1>3, <2>1
<1>7. {Contents(r) : r \in table} = {Contents(r) : r \in was}
  BY <1>3, <1>4, <1>5, <1>6, AppliedContents
<1>8. ASSUME clean[e], table # was
      PROVE  /\ \A r, s \in table : r.order = s.order => r = s
             /\ \A new \in Listings(table) :
                   \E p \in Listings(was), i \in 1..(Cardinality(table) - 1) :
                       /\ Ids(new) = Swap(Ids(LabelledFirst(p)), i, i + 1)
                       /\ \A a \in Alerts :
                             \/ Ids(Match(new, a)) = Ids(Match(p, a))
                             \/ /\ Ids(Match(p, a)) = <<LabelledFirst(p)[i].id>>
                                /\ Ids(Match(new, a)) = <<LabelledFirst(p)[i + 1].id>>
  <2>1. IsFiniteSet(table) BY DEF TypeInv, TableInv
  <2>2. table = Applied(was, Reorder(q, id, up), Len(Reorder(q, id, up))) BY <1>3, <1>8
  <2>3. /\ \A r, s \in table : r.order = s.order => r = s
        /\ \E i \in 1..(Cardinality(was) - 1) :
              \A new \in Listings(table) :
                    /\ Ids(new) = Swap(Ids(LabelledFirst(q)), i, i + 1)
                    /\ \A a \in Alerts :
                          \/ Ids(Match(new, a)) = Ids(Match(q, a))
                          \/ /\ Ids(Match(q, a)) = <<LabelledFirst(q)[i].id>>
                             /\ Ids(Match(new, a)) = <<LabelledFirst(q)[i + 1].id>>
    BY <1>4, <1>8, <2>1, <2>2, MovedTable
  <2>4. Cardinality(table) = Cardinality(was)
    <3> DEFINE f == [r \in table |-> Contents(r)]
               g == [r \in was |-> Contents(r)]
               image == {Contents(r) : r \in was}
    <3>1. \A r, s \in table : Contents(r) = Contents(s) => r = s
      <4>1. \A r : Contents(r).id = r.id BY DEF Contents
      <4>2. \A r, s \in table : r.id = s.id => r = s BY DEF TypeInv, TableInv
      <4> QED BY <4>1, <4>2
    <3>2. \A r, s \in was : Contents(r) = Contents(s) => r = s
      <4>1. \A r : Contents(r).id = r.id BY DEF Contents
      <4> QED BY <1>4, <4>1 DEF RowsOK
    <3>3. f \in Bijection(table, image)
      BY <1>7, <3>1 DEF Bijection, Injection, Surjection, IsInjective
    <3>4. g \in Bijection(was, image)
      BY <3>2 DEF Bijection, Injection, Surjection, IsInjective
    <3> HIDE DEF f, g, image
    <3>5. Cardinality(image) = Cardinality(table)
      BY <2>1, <3>3, FS_Bijection DEF ExistsBijection
    <3>6. Cardinality(image) = Cardinality(was)
      BY <1>4, <3>4, FS_Bijection DEF ExistsBijection, RowsOK
    <3> QED BY <3>5, <3>6
  <2> QED BY <2>3, <2>4
<1> QED BY <1>7, <1>8 DEF was

OrderInv == TypeInv /\ HistoryInv /\ MoveInv

LEMMA OrderInit == Init => OrderInv
<1> SUFFICES ASSUME Init PROVE OrderInv OBVIOUS
<1>1. op = [e \in Editors |-> "none"] BY DEF Init
<1>2. MoveInv BY <1>1 DEF MoveInv
<1> QED BY <1>2, InitTypes, HistoryInit DEF OrderInv

LEMMA OrderStep == OrderInv /\ [Next]_vars => OrderInv'
<1> SUFFICES ASSUME OrderInv, [Next]_vars PROVE OrderInv' OBVIOUS
<1>1. TypeInv' BY TypesStep DEF OrderInv
<1>2. CASE Stir \/ UNCHANGED vars
  <2>1. /\ UNCHANGED history /\ table' = table
        /\ UNCHANGED <<pc, todo>> /\ probed' = probed
    BY <1>2, StirLeaves DEF vars, repo
  <2>2. unsaid' \in SUBSET unsaid
    BY <1>2 DEF vars, caching, Stir, Invalidate, Query, QueryEnds
  <2>3. HistoryInv' BY <2>1, <2>2, HistoryStays DEF OrderInv
  <2>4. MoveInv'
    <3>1. MoveInv BY DEF OrderInv
    <3> QED BY <2>1, <3>1 DEF MoveInv, history
  <2> QED BY <1>1, <2>3, <2>4 DEF OrderInv
<1>3. CASE \E e \in Editors : Acts(e)
  <2>1. PICK e \in Editors : Acts(e) BY <1>3
  <2> QED BY <1>1, <2>1, HistoryStep, MoveStep DEF OrderInv
<1> QED BY <1>2, <1>3 DEF Next, Stir, Acts

\* A move that nobody disturbed has changed positions only, even if it broke off.
\* One that did its work has made two neighbours among the labelled rows change
\* places, and an alert finds another row than before only if both match it.
THEOREM MovesSwapNeighbours == Spec => []MoveSwapsNeighbours
<1>1. OrderInv => MoveSwapsNeighbours BY MoveMoves DEF OrderInv
<1> QED BY <1>1, OrderInit, OrderStep, PTL DEF Spec

=============================================================================
