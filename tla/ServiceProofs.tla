--------------------------- MODULE ServiceProofs ---------------------------
(***************************************************************************)
(* Proofs about Service, for any number of replicas, any sizes of the seed *)
(* and any number of crashes and signals, and about RepoCache, the cache   *)
(* that each replica keeps of a table, for any number of readers and       *)
(* editors and any bounds.                                                 *)
(*                                                                         *)
(* SeededWhole is not inductive.  It rests on there being one writer of a  *)
(* table at most: the first row of the seed is what the replicas that have *)
(* counted an empty table compete for (WriterInv); whoever wins has the    *)
(* table to itself until its last row, unless it ends before (WholeInv).   *)
(*                                                                         *)
(* ReadYourEdits is not inductive: whether a read of the cache is recent   *)
(* enough depends on what the last load stored, and this on what its query *)
(* found and on the edits that returned since.  CacheInv follows an edit   *)
(* along that way: LoadInv is about a result not yet stored, FreshInv about*)
(* the stored one, ReadYourEdits about the call that uses it.              *)
(***************************************************************************)
EXTENDS Service, RepoCache, TLAPS

Starting == {"count", "create"}
Started == {"mcp", "redis", "serving", "stopping", "draining"}

SeedTypes ==
    /\ rows \in [TableNames -> SUBSET Nat]
    /\ stage \in [Replicas -> {"down"} \union Starting \union Started]
    /\ table \in [Replicas -> {1, 2}]
    /\ row \in [Replicas -> Nat \ {0}]
    /\ torn \in BOOLEAN

TableOf(r) == Tables[table[r]]

\* A replica seeds the tables one after the other from their first rows, over a
\* database without ghosts.
PlaceInv ==
    \A r \in Replicas :
        /\ stage[r] = "down" => table[r] = 1
        /\ stage[r] \in {"down", "count"} => row[r] = 1
        /\ stage[r] # "down" => ghosts = {}
        /\ stage[r] = "create" => row[r] <= Size[TableOf(r)]

\* Past its first row, a replica has the table to itself.
Writes(r) == stage[r] = "create" /\ row[r] > 1

WriterInv ==
    /\ \A t \in TableNames : rows[t] = {} \/ 1 \in rows[t]
    /\ \A r \in Replicas : Writes(r) => rows[TableOf(r)] = 1..(row[r] - 1)
    /\ \A q, r \in Replicas :
          Writes(q) /\ Writes(r) /\ TableOf(q) = TableOf(r) => q = r

\* A table is empty, being written or whole.
Whole(t) ==
    \/ rows[t] = {} \/ rows[t] = 1..Size[t]
    \/ \E r \in Replicas : Writes(r) /\ TableOf(r) = t

WholeInv == ~torn => \A t \in TableNames : Whole(t)

\* What a replica has passed is not empty.
PassedInv ==
    \A r \in Replicas :
        /\ stage[r] \in Started => \A t \in TableNames : rows[t] # {}
        /\ stage[r] \in Starting /\ table[r] = 2 => rows["scenarios"] # {}

SeedInv == SeedTypes /\ PlaceInv /\ WriterInv /\ WholeInv /\ PassedInv

\* A request is handled while the server runs.
StopInv ==
    /\ stage \in [Replicas -> {"down"} \union Starting \union Started]
    /\ exit \in [Replicas -> {"none", "ok", "late", "error"}]
    /\ cut \in [Replicas -> SUBSET {"request", "job"}]
    /\ worker \in [Replicas -> {"none", "idle", "busy"}]
    /\ request \in [Replicas -> BOOLEAN]
    /\ \A r \in Replicas : request[r] => stage[r] \in {"serving", "stopping"}
    /\ CleanStop

LEMMA TableFacts ==
    /\ TableNames = {"scenarios", "prompts"}
    /\ Tables[1] = "scenarios" /\ Tables[2] = "prompts" /\ Len(Tables) = 2
    /\ \A t \in TableNames : Size[t] \in Nat \ {0}
<1>1. Tables[1] = "scenarios" /\ Tables[2] = "prompts" /\ Len(Tables) = 2
      /\ DOMAIN Tables = {1, 2}
  BY DEF Tables
<1>2. TableNames = {"scenarios", "prompts"} BY <1>1 DEF TableNames
<1> QED BY <1>1, <1>2, ServiceConstants

LEMMA InitSeedInv == Init => SeedInv
<1> SUFFICES ASSUME Init PROVE SeedInv
  OBVIOUS
<1> USE DEF Init, Starting, Started
<1>1. SeedTypes BY TableFacts DEF SeedTypes
<1>2. PlaceInv /\ WriterInv BY DEF PlaceInv, WriterInv, Writes
<1>3. WholeInv /\ PassedInv BY DEF WholeInv, Whole, PassedInv
<1> QED BY <1>1, <1>2, <1>3 DEF SeedInv

\* A replica ends: its place is free, and if it was writing the table stays torn.
LEMMA LeaveStep ==
    ASSUME SeedInv, NEW r \in Replicas, NEW how, End(r, how), UNCHANGED database,
           torn' = (torn \/ Writes(r))
    PROVE  SeedInv'
<1> USE DEF Starting, Started, End, To, database
<1>1. SeedTypes' BY DEF SeedInv, SeedTypes, Writes
<1>2. PlaceInv' BY DEF SeedInv, SeedTypes, PlaceInv, TableOf
<1>3. \A q \in Replicas : /\ Writes(q)' <=> Writes(q) /\ q # r
                          /\ q # r => TableOf(q)' = TableOf(q) /\ row'[q] = row[q]
  BY DEF SeedInv, SeedTypes, Writes, TableOf
<1>4. WriterInv' BY <1>3 DEF SeedInv, WriterInv
<1>5. WholeInv'
  <2> SUFFICES ASSUME ~torn', NEW t \in TableNames PROVE Whole(t)'
    BY DEF WholeInv
  <2>1. Whole(t) /\ ~Writes(r) BY DEF SeedInv, WholeInv, SeedTypes
  <2> QED BY <2>1, <1>3 DEF Whole
<1>6. PassedInv' BY DEF SeedInv, SeedTypes, PassedInv
<1> QED BY <1>1, <1>2, <1>4, <1>5, <1>6 DEF SeedInv

\* Past the seed a replica goes on without touching it.
LEMMA PastSeedStep ==
    ASSUME SeedInv, NEW r \in Replicas, NEW s \in Started,
           stage[r] \in Started, To(r, s), UNCHANGED <<database, seeding, torn>>
    PROVE  SeedInv'
<1> USE DEF Starting, Started, To, database, seeding
<1>1. SeedTypes' BY DEF SeedInv, SeedTypes
<1>2. PlaceInv' BY DEF SeedInv, SeedTypes, PlaceInv, TableOf
<1>3. \A q \in Replicas : Writes(q)' <=> Writes(q)
  BY DEF SeedInv, SeedTypes, Writes
<1>4. WriterInv' BY <1>3 DEF SeedInv, WriterInv, TableOf
<1>5. WholeInv' BY <1>3 DEF SeedInv, WholeInv, Whole, TableOf
<1>6. PassedInv' BY DEF SeedInv, SeedTypes, PassedInv
<1> QED BY <1>1, <1>2, <1>4, <1>5, <1>6 DEF SeedInv

LEMMA OpenStep ==
    ASSUME SeedInv, NEW r \in Replicas, Open(r)
    PROVE  SeedInv'
<1> USE DEF Starting, Started, Open, Purge, To, seeding
<1>1. SeedTypes' BY DEF SeedInv, SeedTypes
<1>2. PlaceInv' BY DEF SeedInv, SeedTypes, PlaceInv, TableOf
<1>3. \A q \in Replicas : Writes(q)' <=> Writes(q)
  BY DEF SeedInv, SeedTypes, Writes
<1>4. WriterInv' BY <1>3 DEF SeedInv, WriterInv, TableOf
<1>5. WholeInv' BY <1>3 DEF SeedInv, WholeInv, Whole, TableOf
<1>6. PassedInv' BY DEF SeedInv, SeedTypes, PlaceInv, PassedInv
<1> QED BY <1>1, <1>2, <1>4, <1>5, <1>6 DEF SeedInv

\* A table that is not empty is passed over, an empty one is to be filled.
LEMMA CountStep ==
    ASSUME SeedInv, NEW r \in Replicas, Count(r)
    PROVE  SeedInv'
<1> USE DEF Starting, Started, Count, TableDone, To, database, seeding
<1>1. SeedTypes' BY TableFacts DEF SeedInv, SeedTypes
<1>2. PlaceInv' BY TableFacts DEF SeedInv, SeedTypes, PlaceInv, TableOf
<1>3. \A q \in Replicas : /\ Writes(q)' <=> Writes(q)
                          /\ Writes(q) => TableOf(q)' = TableOf(q) /\ row'[q] = row[q]
  BY TableFacts DEF SeedInv, SeedTypes, PlaceInv, Writes, TableOf
<1>4. WriterInv' BY <1>3 DEF SeedInv, WriterInv
<1>5. WholeInv' BY <1>3 DEF SeedInv, WholeInv, Whole
<1>6. PassedInv' BY TableFacts DEF SeedInv, SeedTypes, PassedInv
<1> QED BY <1>1, <1>2, <1>4, <1>5, <1>6 DEF SeedInv

\* A row that is not taken is the first of an empty table, or the next one of the
\* only writer of its table.
LEMMA FreeRow ==
    ASSUME SeedInv, NEW r \in Replicas, stage[r] = "create"
    PROVE  /\ TableOf(r) \in TableNames /\ row[r] \in 1..Size[TableOf(r)]
           /\ Taken(TableOf(r), row[r]) <=> row[r] \in rows[TableOf(r)]
           /\ Writes(r) => ~Taken(TableOf(r), row[r])
           /\ ~Taken(TableOf(r), row[r]) =>
                 /\ rows[TableOf(r)] = 1..(row[r] - 1)
                 /\ \A q \in Replicas : Writes(q) /\ TableOf(q) = TableOf(r) => q = r
<1>1. TableOf(r) \in TableNames /\ row[r] \in 1..Size[TableOf(r)]
  BY TableFacts DEF SeedInv, SeedTypes, PlaceInv, TableOf
<1>2. Taken(TableOf(r), row[r]) <=> row[r] \in rows[TableOf(r)]
  BY DEF SeedInv, PlaceInv, Taken, TableOf
<1>3. Writes(r) => rows[TableOf(r)] = 1..(row[r] - 1)
  BY DEF SeedInv, WriterInv
<1>4. Writes(r) => ~Taken(TableOf(r), row[r])
  BY <1>1, <1>2, <1>3
<1>5. ASSUME ~Taken(TableOf(r), row[r]), ~Writes(r)
      PROVE  /\ row[r] = 1 /\ rows[TableOf(r)] = {}
             /\ \A q \in Replicas : Writes(q) => TableOf(q) # TableOf(r)
  <2>1. row[r] = 1 BY <1>1, <1>5, TableFacts DEF Writes
  <2>2. rows[TableOf(r)] = {} BY <1>1, <1>2, <1>5, <2>1 DEF SeedInv, WriterInv
  <2>3. ASSUME NEW q \in Replicas, Writes(q), TableOf(q) = TableOf(r) PROVE FALSE
    <3>1. rows[TableOf(q)] = 1..(row[q] - 1) /\ row[q] > 1 /\ row[q] \in Nat
      BY <2>3 DEF SeedInv, SeedTypes, WriterInv, Writes
    <3>2. 1 \in 1..(row[q] - 1) BY <3>1
    <3>3. rows[TableOf(q)] = {} BY <2>2, <2>3
    <3> QED BY <3>1, <3>2, <3>3
  <2> QED BY <2>1, <2>2, <2>3
<1>6. ASSUME Writes(r), NEW q \in Replicas, Writes(q), TableOf(q) = TableOf(r)
      PROVE  q = r
  BY <1>6 DEF SeedInv, WriterInv
<1>7. CASE Writes(r) BY <1>1, <1>2, <1>3, <1>4, <1>6, <1>7
<1>8. CASE ~Writes(r)
  <2>1. 1..(1 - 1) = {} OBVIOUS
  <2> QED BY <1>1, <1>2, <1>5, <1>8, <2>1
<1> QED BY <1>7, <1>8

\* A row is created that is not the last: its replica is now the table's writer.
LEMMA RowStep ==
    ASSUME SeedInv, NEW r \in Replicas, stage[r] = "create",
           ~Taken(TableOf(r), row[r]), row[r] < Size[TableOf(r)],
           rows' = [rows EXCEPT ![TableOf(r)] = @ \union {row[r]}],
           row' = [row EXCEPT ![r] = @ + 1],
           UNCHANGED <<ghosts, table, stage, torn>>
    PROVE  SeedInv'
<1> DEFINE t == TableOf(r)
<1> USE DEF Starting, Started
<1>1. t \in TableNames /\ row[r] \in 1..Size[t] /\ rows[t] = 1..(row[r] - 1)
      /\ \A q \in Replicas : Writes(q) /\ TableOf(q) = t => q = r
  BY FreeRow
<1>2. rows'[t] = 1..row[r] /\ row'[r] = row[r] + 1 /\ row'[r] \in Nat \ {0}
      /\ row'[r] > 1 /\ Size[t] \in Nat
  <2>1. row[r] \in Nat \ {0} /\ row'[r] = row[r] + 1 /\ Size[t] \in Nat
    BY <1>1, TableFacts DEF SeedInv, SeedTypes
  <2>2. rows'[t] = rows[t] \union {row[r]} BY <1>1 DEF SeedInv, SeedTypes
  <2>3. \A n \in Nat \ {0} : (1..(n - 1)) \union {n} = 1..n OBVIOUS
  <2>4. rows'[t] = 1..row[r]
    <3>1. (1..(row[r] - 1)) \union {row[r]} = 1..row[r] BY <2>1, <2>3
    <3> HIDE DEF t
    <3> QED BY <1>1, <2>2, <3>1
  <2>5. row'[r] \in Nat \ {0} /\ row'[r] > 1 BY <2>1
  <2> QED BY <2>1, <2>4, <2>5
<1>3. \A q \in Replicas : TableOf(q)' = TableOf(q) BY DEF TableOf
<1>4. \A q \in Replicas : q # r => row'[q] = row[q]
                                   /\ (Writes(q)' <=> Writes(q))
  BY DEF SeedInv, SeedTypes, Writes
<1>5. \A u \in TableNames : u # t => rows'[u] = rows[u]
  BY DEF SeedInv, SeedTypes
<1>6. Writes(r)' BY <1>2 DEF Writes
<1>7. SeedTypes'
  BY <1>1, <1>2 DEF SeedInv, SeedTypes
<1>8. PlaceInv'
  <2>1. row'[r] <= Size[t] BY <1>1, <1>2
  <2> QED BY <1>3, <1>4, <2>1 DEF SeedInv, SeedTypes, PlaceInv
<1>9. WriterInv'
  <2>1. 1 \in rows'[t] BY <1>1, <1>2
  <2>2. \A u \in TableNames : rows'[u] = {} \/ 1 \in rows'[u]
    BY <1>5, <2>1 DEF SeedInv, WriterInv
  <2>3. ASSUME NEW q \in Replicas, Writes(q)', q # r
        PROVE  TableOf(q) # t /\ rows'[TableOf(q)] = 1..(row'[q] - 1)
    <3>1. Writes(q) /\ TableOf(q) # t BY <1>1, <1>4, <2>3
    <3>2. TableOf(q) \in TableNames BY TableFacts DEF TableOf, SeedInv, SeedTypes
    <3> QED BY <1>4, <1>5, <2>3, <3>1, <3>2 DEF SeedInv, WriterInv
  <2>4. rows'[TableOf(r)] = 1..(row'[r] - 1) BY <1>1, <1>2
  <2>5. ASSUME NEW q \in Replicas, NEW p \in Replicas, Writes(q)', Writes(p)',
               TableOf(q)' = TableOf(p)'
        PROVE  q = p
    BY <1>3, <1>4, <2>3, <2>5 DEF SeedInv, WriterInv
  <2> QED BY <1>3, <2>2, <2>3, <2>4, <2>5 DEF WriterInv
<1>10. WholeInv'
  <2> SUFFICES ASSUME ~torn', NEW u \in TableNames PROVE Whole(u)'
    BY DEF WholeInv
  <2>1. CASE u = t BY <1>3, <1>6, <2>1 DEF Whole
  <2>2. CASE u # t
    <3>1. Whole(u) BY DEF SeedInv, WholeInv
    <3>2. \A q \in Replicas : Writes(q) /\ TableOf(q) = u => Writes(q)'
      BY <1>4, <1>6
    <3> QED BY <1>3, <1>5, <2>2, <3>1, <3>2 DEF Whole
  <2> QED BY <2>1, <2>2
<1>11. PassedInv'
  <2>1. \A u \in TableNames : rows[u] # {} => rows'[u] # {}
    BY <1>1, <1>2, <1>5
  <2> QED BY <2>1, TableFacts DEF SeedInv, PassedInv
<1> QED BY <1>7, <1>8, <1>9, <1>10, <1>11 DEF SeedInv

\* The last row is created: the table is whole and its replica goes on.
LEMMA LastRowStep ==
    ASSUME SeedInv, NEW r \in Replicas, stage[r] = "create",
           ~Taken(TableOf(r), row[r]), ~(row[r] < Size[TableOf(r)]),
           rows' = [rows EXCEPT ![TableOf(r)] = @ \union {row[r]}],
           TableDone(r), UNCHANGED <<ghosts, torn>>
    PROVE  SeedInv'
<1> DEFINE t == TableOf(r)
<1> USE DEF Starting, Started
<1>1. t \in TableNames /\ row[r] \in 1..Size[t] /\ rows[t] = 1..(row[r] - 1)
      /\ \A q \in Replicas : Writes(q) /\ TableOf(q) = t => q = r
  BY FreeRow
<1>2. rows'[t] = 1..Size[t] /\ Size[t] \in Nat \ {0}
  <2>1. row[r] \in Nat \ {0} /\ Size[t] \in Nat \ {0}
    BY <1>1, TableFacts DEF SeedInv, SeedTypes
  <2>2. row[r] = Size[t] BY <1>1, <2>1
  <2>3. \A n \in Nat \ {0} : (1..(n - 1)) \union {n} = 1..n OBVIOUS
  <2>4. rows'[t] = rows[t] \union {row[r]} BY <1>1 DEF SeedInv, SeedTypes
  <2> HIDE DEF t
  <2> QED BY <1>1, <2>1, <2>2, <2>3, <2>4
<1>3. \A u \in TableNames : u # t => rows'[u] = rows[u]
  BY DEF SeedInv, SeedTypes
<1>4. 1 \in rows'[t] BY <1>2
<1>5. \A q \in Replicas : q # r => /\ TableOf(q)' = TableOf(q) /\ row'[q] = row[q]
                                   /\ stage'[q] = stage[q]
                                   /\ (Writes(q)' <=> Writes(q))
  BY DEF SeedInv, SeedTypes, Writes, TableOf, TableDone, To, seeding
<1>6. \/ stage'[r] = "count" /\ table[r] = 1 /\ table'[r] = 2 /\ row'[r] = 1
      \/ stage'[r] = "mcp" /\ table[r] = 2 /\ table'[r] = 2
  BY TableFacts DEF SeedInv, SeedTypes, TableDone, To, seeding
<1>7. ~Writes(r)' BY <1>6 DEF Writes
<1>8. SeedTypes'
  <2>1. row[r] \in Nat BY DEF SeedInv, SeedTypes
  <2>2. rows' \in [TableNames -> SUBSET Nat]
    BY <1>1, <2>1 DEF SeedInv, SeedTypes
  <2>3. /\ table' \in [Replicas -> {1, 2}] /\ row' \in [Replicas -> Nat \ {0}]
        /\ stage' \in [Replicas -> {"down"} \union Starting \union Started]
    BY TableFacts DEF SeedInv, SeedTypes, TableDone, To, seeding
  <2> QED BY <2>2, <2>3 DEF SeedInv, SeedTypes
<1>9. PlaceInv'
  <2>1. stage'[r] # "down" /\ stage'[r] # "create" /\ ghosts' = {}
        /\ (stage'[r] = "count" => row'[r] = 1)
    BY <1>6 DEF SeedInv, PlaceInv
  <2>2. \A q \in Replicas : q # r => table'[q] = table[q]
    BY DEF SeedInv, SeedTypes, TableDone, seeding
  <2> QED BY <1>5, <2>1, <2>2 DEF SeedInv, PlaceInv
<1>10. WriterInv'
  <2>1. \A u \in TableNames : rows'[u] = {} \/ 1 \in rows'[u]
    BY <1>3, <1>4 DEF SeedInv, WriterInv
  <2>2. ASSUME NEW q \in Replicas, Writes(q)'
        PROVE  q # r /\ Writes(q) /\ rows'[TableOf(q)'] = 1..(row'[q] - 1)
    <3>1. q # r /\ Writes(q) /\ TableOf(q) # t BY <1>1, <1>5, <1>7, <2>2
    <3>2. TableOf(q) \in TableNames BY TableFacts DEF TableOf, SeedInv, SeedTypes
    <3> QED BY <1>3, <1>5, <3>1, <3>2 DEF SeedInv, WriterInv
  <2> QED BY <1>5, <2>1, <2>2 DEF SeedInv, WriterInv
<1>11. WholeInv'
  <2> SUFFICES ASSUME ~torn', NEW u \in TableNames PROVE Whole(u)'
    BY DEF WholeInv
  <2>1. CASE u = t BY <1>2, <2>1 DEF Whole
  <2>2. CASE u # t
    <3>1. Whole(u) BY DEF SeedInv, WholeInv
    <3> QED BY <1>3, <1>5, <2>2, <3>1 DEF Whole
  <2> QED BY <2>1, <2>2
<1>12. PassedInv'
  <2>1. \A u \in TableNames : rows[u] # {} \/ u = t => rows'[u] # {}
    BY <1>3, <1>4
  <2>2. table[r] = 1 => t = "scenarios" BY TableFacts DEF TableOf
  <2>3. table[r] = 2 => t = "prompts" /\ rows["scenarios"] # {}
    BY TableFacts DEF TableOf, SeedInv, PassedInv
  <2>4. \A q \in Replicas : q # r => stage'[q] = stage[q] /\ table'[q] = table[q]
    BY DEF SeedInv, SeedTypes, TableDone, To, seeding
  <2> QED BY <1>6, <2>1, <2>2, <2>3, <2>4, TableFacts DEF SeedInv, PassedInv
<1> QED BY <1>8, <1>9, <1>10, <1>11, <1>12 DEF SeedInv

LEMMA CreateStep ==
    ASSUME SeedInv, NEW r \in Replicas, Create(r)
    PROVE  SeedInv'
<1>1. CASE Taken(TableOf(r), row[r])
  <2>1. ~Writes(r) BY <1>1, FreeRow DEF Create
  <2>2. torn' = (torn \/ Writes(r)) BY <2>1 DEF Create, SeedInv, SeedTypes
  <2> QED BY <1>1, <2>2, LeaveStep DEF Create, TableOf, database
<1>2. CASE ~Taken(TableOf(r), row[r]) /\ row[r] < Size[TableOf(r)]
  BY <1>2, RowStep DEF Create, NextRow, TableOf
<1>3. CASE ~Taken(TableOf(r), row[r]) /\ ~(row[r] < Size[TableOf(r)])
  BY <1>3, LastRowStep DEF Create, NextRow, TableOf
<1> QED BY <1>1, <1>2, <1>3

\* The steps after the seed either go on or end; no other step touches the seed.
LEMMA EndingStep ==
    ASSUME SeedInv, NEW r \in Replicas,
           \/ Crash(r) \/ Connect(r) \/ Serve(r)
           \/ StopTimesOut(r) \/ Drained(r) \/ DrainTimesOut(r)
    PROVE  SeedInv'
<1>1. CASE \E how : End(r, how)
  <2>1. UNCHANGED database
    BY DEF Crash, Connect, Serve, StopTimesOut, Drained, DrainTimesOut
  <2>2. torn' = (torn \/ Writes(r))
    BY DEF Crash, Tears, Connect, Serve, StopTimesOut, Drained, DrainTimesOut,
       Writes, SeedInv, SeedTypes
  <2> QED BY <1>1, <2>1, <2>2, LeaveStep
<1>2. CASE /\ stage[r] \in Started /\ \E s \in Started : To(r, s)
           /\ UNCHANGED <<database, seeding, torn>>
  BY <1>2, PastSeedStep
<1>3. (\E how : End(r, how)) \/
      (/\ stage[r] \in Started /\ \E s \in Started : To(r, s)
       /\ UNCHANGED <<database, seeding, torn>>)
  BY DEF Crash, Connect, Serve, StopTimesOut, Drained, DrainTimesOut, Started
<1> QED BY <1>1, <1>2, <1>3

LEMMA NextSeedInv == SeedInv /\ [Next]_vars => SeedInv'
<1> SUFFICES ASSUME SeedInv, [Next]_vars PROVE SeedInv'
  OBVIOUS
<1>1. ASSUME UNCHANGED <<database, stage, seeding, torn>> PROVE SeedInv'
  BY <1>1 DEF database, seeding, SeedInv, SeedTypes, PlaceInv, WriterInv,
     WholeInv, Whole, PassedInv, Writes, TableOf
<1>2. ASSUME NEW r \in Replicas,
             Signal(r) \/ Accept(r) \/ Respond(r) \/ TakeJob(r) \/ EndJob(r)
      PROVE  SeedInv'
  BY <1>1, <1>2 DEF Signal, Accept, Respond, TakeJob, EndJob
<1>3. ASSUME NEW r \in Replicas, Stop(r) \/ Stopped(r) PROVE SeedInv'
  BY <1>3, PastSeedStep DEF Stop, Stopped, Started
<1>4. CASE UNCHANGED vars BY <1>1, <1>4 DEF vars
<1>5. CASE Next
  BY <1>2, <1>3, <1>5, EndingStep, OpenStep, CountStep, CreateStep DEF Next, Goes
<1> QED BY <1>4, <1>5

LEMMA SeedInvHolds == Spec => []SeedInv
<1> QED BY InitSeedInv, NextSeedInv, PTL DEF Spec

LEMMA InitStopInv == Init => StopInv
  BY DEF Init, StopInv, CleanStop, Starting, Started

\* No request is left where a replica ends without an error.
LEMMA EndStopStep ==
    ASSUME StopInv, NEW r \in Replicas, NEW how \in {"ok", "late", "error"},
           End(r, how),
           how \in {"ok", "late"} => stage[r] = "draining",
           how = "ok" /\ Redis => worker[r] = "idle"
    PROVE  StopInv'
<1> USE DEF Starting, Started, End, To
<1> DEFINE broken == (IF request[r] THEN {"request"} ELSE {})
                     \union (IF worker[r] = "busy" THEN {"job"} ELSE {})
<1>1. /\ stage' \in [Replicas -> {"down"} \union Starting \union Started]
      /\ exit' \in [Replicas -> {"none", "ok", "late", "error"}]
      /\ worker' \in [Replicas -> {"none", "idle", "busy"}]
      /\ request' \in [Replicas -> BOOLEAN]
      /\ \A q \in Replicas : request'[q] => stage'[q] \in {"serving", "stopping"}
  BY DEF StopInv
<1>2. broken \in SUBSET {"request", "job"} OBVIOUS
<1>3. cut' = [cut EXCEPT ![r] = broken] OBVIOUS
<1>4. how \in {"ok", "late"} => "request" \notin broken
  BY DEF StopInv
<1>5. how = "ok" /\ Redis => broken = {}
  BY DEF StopInv
<1>6. exit' = [exit EXCEPT ![r] = how] OBVIOUS
<1> HIDE DEF broken
<1>7. cut' \in [Replicas -> SUBSET {"request", "job"}]
  BY <1>2, <1>3 DEF StopInv
<1>8. \A q \in Replicas :
         /\ q # r => cut'[q] = cut[q] /\ exit'[q] = exit[q]
         /\ q = r => cut'[q] = broken /\ exit'[q] = how
  BY <1>3, <1>6 DEF StopInv
<1>9. CleanStop' BY <1>4, <1>5, <1>8 DEF StopInv, CleanStop
<1> QED BY <1>1, <1>7, <1>9 DEF StopInv

LEMMA NextStopInv == StopInv /\ [Next]_vars => StopInv'
<1> SUFFICES ASSUME StopInv, [Next]_vars PROVE StopInv'
  OBVIOUS
<1> USE DEF Starting, Started
<1>1. ASSUME NEW r \in Replicas,
             \/ Crash(r) \/ Connect(r) \/ Create(r) \/ StopTimesOut(r)
      PROVE  StopInv'
  <2>1. CASE End(r, "error") BY <2>1, EndStopStep
  <2>2. CASE \E s \in {"create", "count", "mcp", "redis"} :
                /\ stage[r] \in {"create", "mcp"}
                /\ To(r, s) \/ UNCHANGED stage
                /\ UNCHANGED <<load, exit, cut>>
    BY <2>2 DEF StopInv, CleanStop, To, load
  <2> QED BY <1>1, <2>1, <2>2
        DEF Crash, Connect, Create, NextRow, TableDone, StopTimesOut
<1>2. ASSUME NEW r \in Replicas, Open(r) \/ Count(r) PROVE StopInv'
  BY <1>2 DEF Open, Count, TableDone, To, load, StopInv, CleanStop
<1>3. ASSUME NEW r \in Replicas, Serve(r) PROVE StopInv'
  <2>1. CASE term[r] /\ Redis BY <1>3, <2>1, EndStopStep DEF Serve
  <2>2. CASE ~(term[r] /\ Redis)
    BY <1>3, <2>2 DEF Serve, To, StopInv, CleanStop
  <2> QED BY <2>1, <2>2
<1>4. ASSUME NEW r \in Replicas, Drained(r) PROVE StopInv'
  BY <1>4, EndStopStep DEF Drained, WorkerIsDone
<1>5. ASSUME NEW r \in Replicas, DrainTimesOut(r) PROVE StopInv'
  BY <1>5, EndStopStep DEF DrainTimesOut
<1>6. ASSUME NEW r \in Replicas, Stop(r) \/ Stopped(r) PROVE StopInv'
  BY <1>6 DEF Stop, Stopped, To, load, StopInv, CleanStop
<1>7. ASSUME NEW r \in Replicas, Accept(r) \/ Respond(r) PROVE StopInv'
  BY <1>7 DEF Accept, Respond, StopInv, CleanStop
<1>8. ASSUME NEW r \in Replicas, Signal(r) \/ TakeJob(r) \/ EndJob(r) PROVE StopInv'
  BY <1>8 DEF Signal, TakeJob, EndJob, load, StopInv, CleanStop
<1>9. CASE UNCHANGED vars
  BY <1>9 DEF vars, load, StopInv, CleanStop
<1>10. CASE Next
  BY <1>1, <1>2, <1>3, <1>4, <1>5, <1>6, <1>7, <1>8, <1>10 DEF Next, Goes
<1> QED BY <1>9, <1>10

\* A replica that ends without an error breaks off no request, and with Redis no
\* job either, unless the log has said so (serve.go's order of shutdowns).
THEOREM StopsCleanly == Spec => []CleanStop
<1>1. StopInv => CleanStop BY DEF StopInv
<1> QED BY <1>1, InitStopInv, NextStopInv, PTL DEF Spec

\* However many replicas start together on an empty database, and however often
\* they collide, crash elsewhere and start again: once one of them serves and none
\* seeds, every table has all its rows (seed.go).
THEOREM SeedsWhole == Spec => []SeededWhole
<1>1. SeedInv => SeededWhole
  <2> SUFFICES ASSUME SeedInv, NEW r \in Replicas, stage[r] = "serving",
                      Settled, ~torn, NEW t \in TableNames
               PROVE  rows[t] = 1..Size[t]
    BY DEF SeededWhole
  <2>1. rows[t] # {} BY DEF SeedInv, PassedInv, Started
  <2>2. \A q \in Replicas : ~Writes(q) BY DEF Settled, Writes
  <2> QED BY <2>1, <2>2 DEF SeedInv, WholeInv, Whole
<1> QED BY <1>1, SeedInvHolds, PTL

----------------------------------------------------------------------------
(* The cache of a table (RepoCache).                                       *)

\* Nothing anybody knows of is newer than the table.
KnownInv ==
    /\ cache <= db
    /\ settled <= db
    /\ \A e \in Editors : wrote[e] <= db
    /\ \A r \in Readers : needs[r] <= settled

\* A result that waits to be stored is no older than the cache, and when no
\* edit has been announced since its query, no older than any settled edit.
LoadInv ==
    \A r \in Readers :
        pc[r] = "store" =>
            /\ cache <= found[r] /\ found[r] <= db
            /\ at[r] <= version
            /\ at[r] = version => settled <= found[r]

\* A cache that passes for fresh has every settled edit, unless its load raced.
FreshInv == Fresh /\ ~raced => settled <= cache

CacheInv == TypeOK /\ KnownInv /\ LoadInv /\ FreshInv /\ ReadYourEdits

LEMMA InitCacheInv == CacheInit => CacheInv
<1> SUFFICES ASSUME CacheInit PROVE CacheInv
  OBVIOUS
<1> USE DEF CacheInit, Editions
<1>1. failed \in [Readers -> BOOLEAN] /\ raced \in BOOLEAN OBVIOUS
<1>2. TypeOK BY <1>1, RepoConstants DEF TypeOK
<1>3. KnownInv /\ LoadInv /\ FreshInv /\ ReadYourEdits
  BY DEF KnownInv, LoadInv, FreshInv, Fresh, ReadYourEdits
<1> QED BY <1>2, <1>3 DEF CacheInv

\* The steps that disturb neither the cache nor the versions.
LEMMA CallStep ==
    ASSUME CacheInv, NEW r \in Readers, Call(r)
    PROVE  CacheInv'
<1> USE DEF Editions
<1>1. TypeOK' BY RepoConstants DEF CacheInv, TypeOK, Call, repo
<1>2. KnownInv' BY DEF CacheInv, TypeOK, KnownInv, Call, repo
<1>3. LoadInv' BY DEF CacheInv, TypeOK, LoadInv, Call, repo
<1>4. FreshInv' BY DEF CacheInv, FreshInv, Fresh, Call, repo
<1>5. ReadYourEdits'
  BY DEF CacheInv, TypeOK, ReadYourEdits, FreshInv, Fresh, Call, repo
<1> QED BY <1>1, <1>2, <1>3, <1>4, <1>5 DEF CacheInv

LEMMA LockStep ==
    ASSUME CacheInv, NEW r \in Readers, Lock(r)
    PROVE  CacheInv'
<1> USE DEF Editions
<1>1. TypeOK' BY RepoConstants DEF CacheInv, TypeOK, Lock, Free
<1>2. KnownInv' BY DEF CacheInv, KnownInv, Lock
<1>3. LoadInv' BY DEF CacheInv, TypeOK, LoadInv, Lock
<1>4. FreshInv' BY DEF CacheInv, FreshInv, Fresh, Lock
<1>5. ReadYourEdits'
  BY DEF CacheInv, TypeOK, KnownInv, ReadYourEdits, FreshInv, Fresh, Lock
<1> QED BY <1>1, <1>2, <1>3, <1>4, <1>5 DEF CacheInv

LEMMA FindFailsStep ==
    ASSUME CacheInv, NEW r \in Readers, FindFails(r)
    PROVE  CacheInv'
<1> USE DEF Editions
<1>1. TypeOK' BY RepoConstants DEF CacheInv, TypeOK, FindFails, Unlock, QueryError
<1>2. KnownInv' BY DEF CacheInv, KnownInv, FindFails
<1>3. LoadInv' BY DEF CacheInv, TypeOK, LoadInv, FindFails
<1>4. FreshInv' BY DEF CacheInv, FreshInv, Fresh, FindFails
<1>5. ReadYourEdits' BY DEF CacheInv, TypeOK, ReadYourEdits, FindFails
<1> QED BY <1>1, <1>2, <1>3, <1>4, <1>5 DEF CacheInv

LEMMA FindStep ==
    ASSUME CacheInv, NEW r \in Readers, Find(r)
    PROVE  CacheInv'
<1> USE DEF Editions
<1>1. TypeOK' BY RepoConstants DEF CacheInv, TypeOK, Find, repo
<1>2. KnownInv' BY DEF CacheInv, KnownInv, Find, repo
<1>3. LoadInv' BY DEF CacheInv, TypeOK, KnownInv, LoadInv, Find, repo
<1>4. FreshInv' BY DEF CacheInv, FreshInv, Fresh, Find, repo
<1>5. ReadYourEdits' BY DEF CacheInv, TypeOK, ReadYourEdits, Find, repo
<1> QED BY <1>1, <1>2, <1>3, <1>4, <1>5 DEF CacheInv

\* The result is stored: nobody else is about to store one, and unless the
\* version has moved it has every settled edit.
LEMMA StoreStep ==
    ASSUME CacheInv, NEW r \in Readers, Store(r)
    PROVE  CacheInv' /\ cache' >= cache
<1> USE DEF Editions
<1>1. TypeOK' BY RepoConstants DEF CacheInv, TypeOK, Store
<1>2. cache <= found[r] /\ found[r] <= db
  BY DEF CacheInv, LoadInv, Store
<1>3. ~raced' => settled <= found[r]
  BY DEF CacheInv, LoadInv, Store
<1>4. KnownInv' BY <1>2 DEF CacheInv, KnownInv, Store
<1>5. LoadInv'
  BY RepoConstants DEF CacheInv, TypeOK, LoadInv, Store
<1>6. FreshInv' BY <1>3 DEF CacheInv, FreshInv, Store
<1>7. ReadYourEdits'
  <2> SUFFICES ASSUME NEW q \in Readers, ~raced' PROVE cache' >= needs[q]
    BY DEF ReadYourEdits, Store
  <2> QED BY <1>3 DEF CacheInv, TypeOK, KnownInv, Store
<1> QED BY <1>1, <1>2, <1>4, <1>5, <1>6, <1>7 DEF CacheInv, TypeOK, Store

LEMMA ReadStep ==
    ASSUME CacheInv, NEW r \in Readers, Read(r)
    PROVE  CacheInv'
<1> USE DEF Editions
<1>1. TypeOK' BY RepoConstants DEF CacheInv, TypeOK, Read, repo
<1>2. KnownInv' BY DEF CacheInv, KnownInv, Read, repo
<1>3. LoadInv' BY DEF CacheInv, TypeOK, LoadInv, Read, repo
<1>4. FreshInv' BY DEF CacheInv, FreshInv, Fresh, Read, repo
<1>5. ReadYourEdits' BY DEF CacheInv, TypeOK, ReadYourEdits, Read, repo
<1> QED BY <1>1, <1>2, <1>3, <1>4, <1>5 DEF CacheInv

\* The table may only grow: an edit that commits, one whose error hides that
\* it did, one of another replica.
LEMMA TableStep ==
    ASSUME CacheInv,
           \/ \E e \in Editors : Write(e) \/ WriteFails(e)
           \/ OtherReplica
    PROVE  CacheInv' /\ UNCHANGED <<repo, reader, settled, raced>>
<1> USE DEF Editions
<1>1. UNCHANGED <<repo, reader, settled, raced>>
  BY DEF Write, WriteFails, OtherReplica
<1>2. db' \in Editions \ {0} /\ db <= db' /\ errors' \in 0..MaxErrors
  BY RepoConstants DEF CacheInv, TypeOK, Write, WriteFails, OtherReplica, QueryError
<1>3. wrote' \in [Editors -> Editions] /\ \A e \in Editors : wrote'[e] <= db'
  BY RepoConstants DEF CacheInv, TypeOK, KnownInv, Write, WriteFails, OtherReplica
<1>4. TypeOK' BY <1>1, <1>2, <1>3 DEF CacheInv, TypeOK, repo, reader
<1>5. KnownInv' BY <1>1, <1>2, <1>3 DEF CacheInv, TypeOK, KnownInv, repo, reader
<1>6. LoadInv' BY <1>1, <1>2 DEF CacheInv, TypeOK, LoadInv, repo, reader
<1>7. FreshInv' BY <1>1 DEF CacheInv, FreshInv, Fresh, repo, reader
<1>8. ReadYourEdits' BY <1>1 DEF CacheInv, ReadYourEdits, repo, reader
<1> QED BY <1>1, <1>4, <1>5, <1>6, <1>7, <1>8 DEF CacheInv

\* An edit is announced: the cache no longer passes for fresh, and no query
\* that ran before can be taken for one that ran after.
LEMMA InvalidateStep ==
    ASSUME CacheInv, NEW e \in Editors, Invalidate(e)
    PROVE  CacheInv'
<1> USE DEF Editions, Announced
<1>1. settled' \in Editions /\ settled <= settled' /\ settled' <= db
  BY DEF CacheInv, TypeOK, KnownInv, Invalidate, Newer
<1>2. TypeOK' BY <1>1, RepoConstants DEF CacheInv, TypeOK, Invalidate, reader
<1>3. KnownInv' BY <1>1 DEF CacheInv, TypeOK, KnownInv, Invalidate, reader
<1>4. LoadInv' BY DEF CacheInv, TypeOK, LoadInv, Invalidate, reader
<1>5. FreshInv' BY DEF CacheInv, TypeOK, FreshInv, Fresh, Invalidate
<1>6. ReadYourEdits' BY DEF CacheInv, ReadYourEdits, Invalidate, reader
<1> QED BY <1>2, <1>3, <1>4, <1>5, <1>6 DEF CacheInv

LEMMA NextCacheInv ==
    ASSUME CacheInv, [CacheNext]_cacheVars
    PROVE  CacheInv' /\ cache' >= cache
<1>0. cache \in Nat BY DEF CacheInv, TypeOK, Editions
<1>1. ASSUME NEW r \in Readers, Store(r) PROVE CacheInv' /\ cache' >= cache
  BY <1>1, StoreStep
<1>2. ASSUME (\E e \in Editors : Write(e) \/ WriteFails(e)) \/ OtherReplica
      PROVE  CacheInv' /\ cache' = cache
  BY <1>2, TableStep DEF repo
<1>3. ASSUME NEW r \in Readers,
             Call(r) \/ Lock(r) \/ FindFails(r) \/ Find(r) \/ Read(r)
      PROVE  CacheInv'
  BY <1>3, CallStep, LockStep, FindFailsStep, FindStep, ReadStep
<1>4. ASSUME NEW r \in Readers,
             Call(r) \/ Lock(r) \/ FindFails(r) \/ Find(r) \/ Read(r)
      PROVE  cache' = cache
  BY <1>4 DEF Call, Lock, FindFails, Find, Read, repo
<1>5. ASSUME NEW e \in Editors, Invalidate(e) PROVE CacheInv'
  BY <1>5, InvalidateStep
<1>6. ASSUME NEW e \in Editors, Invalidate(e) PROVE cache' = cache
  BY <1>6 DEF Invalidate
<1>7. ASSUME UNCHANGED cacheVars PROVE CacheInv' /\ cache' = cache
  BY <1>7 DEF cacheVars, repo, reader, CacheInv, TypeOK, KnownInv, LoadInv,
     FreshInv, ReadYourEdits, Fresh
<1>8. CASE CacheNext
  BY <1>0, <1>1, <1>2, <1>3, <1>4, <1>5, <1>6, <1>8 DEF CacheNext, Load
<1> QED BY <1>0, <1>7, <1>8

LEMMA CacheInvHolds == CacheSpec => []CacheInv
<1>1. CacheInv /\ [CacheNext]_cacheVars => CacheInv'
  BY NextCacheInv
<1> QED BY InitCacheInv, <1>1, PTL DEF CacheSpec

\* The versions, the mutex and the readers always fit together: at most one
\* reader loads, and it holds the mutex.
THEOREM CacheTypeCorrect == CacheSpec => []TypeOK
<1>1. CacheInv => TypeOK BY DEF CacheInv
<1> QED BY <1>1, CacheInvHolds, PTL

\* A call sees every edit of its process that returned before the call began,
\* unless its query failed or the last load raced with an edit.
THEOREM ReadsSettledEdits == CacheSpec => []ReadYourEdits
<1>1. CacheInv => ReadYourEdits BY DEF CacheInv
<1> QED BY <1>1, CacheInvHolds, PTL

\* No step puts older contents into the cache.
THEOREM CacheMovesForward == CacheSpec => NeverBackwards
<1>1. CacheInv /\ [CacheNext]_cacheVars => [cache' >= cache]_cacheVars
  BY NextCacheInv
<1> QED BY <1>1, CacheInvHolds, PTL DEF CacheSpec, NeverBackwards
============================================================================
