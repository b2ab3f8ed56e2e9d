--------------------------- MODULE ScenarioAdmin ---------------------------
(***************************************************************************)
(* The table of scenarios and its users: the handlers of the Web UI        *)
(* (web/scenario_handler.go, web/probe_handler.go) as sequences of         *)
(* repository calls (storage/scenario_repo.go), and the choice of the      *)
(* scenario for an alert (Match).                                          *)
(*                                                                         *)
(* A query is one step; between two of a handler other handlers run.  A    *)
(* write and the Invalidate after it are two steps, and so are the query   *)
(* of a load and its end, as in RepoCache, which has the protocol in       *)
(* detail.  The cache is that of one replica; at another, with a cache of  *)
(* its own, the table is edited, too (what imports there write are edits   *)
(* here).  Positions are counted in tens.  A row's prompt, tools, channels *)
(* and so on are its body.                                                 *)
(***************************************************************************)
EXTENDS Naturals, Sequences, SequencesExt, FiniteSetsExt

CONSTANTS
    Editors,        \* requests to the Web UI
    Rows,           \* number of scenarios in the first table
    Keys, Values,   \* labels of alerts
    Copied,         \* ids of the rows of which copies are made
    MaxRequests, MaxTroubles

ASSUME AdminConstants ==
    /\ Rows \in Nat \ {0}
    /\ "" \notin Values
    /\ MaxRequests \in Nat /\ MaxTroubles \in Nat

\* Labels required by a scenario, and those of an alert.
Matches == UNION {[K -> Values \union {""}] : K \in SUBSET Keys}
Alerts == UNION {[K -> Values \union {""}] : K \in SUBSET Keys}

VARIABLES
    table,      \* set of rows
    nextId,
    away,       \* editors whose requests go to another replica
    cache,      \* scenarioRepo.cache, in its order
    fresh,      \* loaded = version
    loading,    \* what a load under way has read: a set of at most one listing
    unsaid,     \* editors who have written here and not yet called Invalidate
    file,       \* a file at hand: the last export
    pc,         \* "idle", "form", "save", "find", "lookup", "update",
                \* "create", "resolve", "answer"
    todo,       \* rows a handler has yet to write, or that are in a form
    probed,     \* alert and answer of a match probe
    requests, troubles,
    \* history, by editor:
    op,         \* the request, if it is one of "move", "import", "probe"
    before,     \* the rows there were when it came in
    quiet,      \* no write of another has overlapped it
    clean,      \* no query of it has failed
    misled,     \* it has read a cache that had missed a write
    missed      \* since the last query: a write during the load, or elsewhere

repo == <<table, nextId>>
caching == <<away, cache, fresh, loading, unsaid, missed>>
history == <<op, before, quiet, clean, misled>>
vars == <<repo, caching, file, pc, todo, probed, requests, troubles, history>>

Catchall(r) == DOMAIN r.match = {}
Contents(r) == [id |-> r.id, name |-> r.name, match |-> r.match, body |-> r.body]
NoProbe == [alert |-> <<>>, row |-> <<>>, id |-> 0]

\* The first table has rows with labels, each with its own, before the catch-all of
\* the seed; they share their places two by two, as copies do.  A file of another
\* installation has a new row and the first one.
Init ==
    /\ \E m \in [1..Rows -> Matches] :
          /\ \A i \in 1..Rows : DOMAIN m[i] = (IF i = Rows THEN {} ELSE Keys)
          /\ Rows > 1 => m[1] \in [Keys -> Values]
          /\ \A i, j \in 1..Rows : m[i] = m[j] => i = j
          /\ table = {[id |-> i, name |-> <<i>>, match |-> m[i], body |-> 0,
                       order |-> (i - 1) \div 2] : i \in 1..Rows}
          /\ file = <<[id |-> 0, name |-> <<0>>, match |-> m[1], body |-> 0, order |-> 1],
                      [id |-> 0, name |-> <<1>>, match |-> m[1], body |-> 1, order |-> 0]>>
    /\ nextId = Rows + 1
    /\ away \in SUBSET Editors \ {Editors}
    /\ cache = <<>> /\ fresh = FALSE
    /\ loading = {} /\ unsaid = {} /\ missed = FALSE
    /\ pc = [e \in Editors |-> "idle"]
    /\ todo = [e \in Editors |-> <<>>]
    /\ probed = [e \in Editors |-> NoProbe]
    /\ requests = 0 /\ troubles = 0
    /\ op = [e \in Editors |-> "none"]
    /\ before = [e \in Editors |-> {}]
    /\ quiet = [e \in Editors |-> TRUE]
    /\ clean = [e \in Editors |-> TRUE]
    /\ misled = [e \in Editors |-> FALSE]

----------------------------------------------------------------------------
(* The repository.                                                         *)

\* ORDER BY order_index: ties are left to the database.
Listings(rows) ==
    {q \in SetToSeqs(rows) : \A i \in 1..(Len(q) - 1) : q[i].order <= q[i + 1].order}

Named(rows, n) == {r \in rows : r.name = n}

\* The unique index on the name.  (AnyName and other definitions that no action
\* uses are variants: each is what an easy mistake would make of the definition
\* it stands next to.)
AnyName(row) == {}
TakenBy(row) == {r \in table : r.name = row.name /\ r.id # row.id}

\* A query fails; a request of e with no failing query stays a clean one.
Trouble == troubles < MaxTroubles /\ troubles' = troubles + 1
Cleanly(e) == clean' = [clean EXCEPT ![e] = op[e] = "none" \/ (@ /\ troubles' = troubles)]

\* What a write leaves to the others: a cache that is as it was until the write is
\* announced, which it is only here.
Wrote(e) ==
    /\ unsaid' = unsaid \union ({e} \ away)
    /\ missed' = (missed \/ e \in away \/ loading # {})
    /\ quiet' = [d \in Editors |-> op[d] = "none" \/ (quiet[d] /\ d = e)]
    /\ UNCHANGED <<away, cache, fresh, loading, troubles>>

Invalidate(e) ==
    /\ e \in unsaid
    /\ fresh' = FALSE
    /\ unsaid' = unsaid \ {e}
    /\ UNCHANGED <<repo, away, cache, loading, missed, file, pc, todo, probed,
                   requests, troubles, history>>

Insert(e, row) ==
    /\ TakenBy(row) = {}
    /\ table' = table \union {[row EXCEPT !.id = nextId]}
    /\ nextId' = nextId + 1
    /\ Wrote(e)

\* Save of gorm: an update of every column, or an insert if there is no such row.
Save(e, row) ==
    IF row.id = 0
      THEN Insert(e, row)
      ELSE /\ TakenBy(row) = {}
           /\ table' = {r \in table : r.id # row.id} \union {row}
           /\ UNCHANGED nextId
           /\ Wrote(e)

\* The unique index, or the database, refuses.
Refuses(row) ==
    /\ \/ TakenBy(row) # {} /\ UNCHANGED troubles
       \/ Trouble
    /\ UNCHANGED <<repo, caching, quiet>>

\* A load, for a handler or the webhook: the query, and with the mutex still held
\* the end, which takes the version of that moment for the one it has read.  (A
\* load that no handler can come to read is left out.)
Query ==
    /\ ~fresh /\ loading = {}
    /\ \E e \in Editors \ away : pc[e] = "find" \/ requests < MaxRequests
    /\ \E q \in Listings(table) : loading' = {q}
    /\ missed' = FALSE
    /\ UNCHANGED <<repo, away, cache, fresh, unsaid, file, pc, todo, probed, requests,
                   troubles, history>>

QueryEnds ==
    /\ cache' \in loading
    /\ fresh' = TRUE /\ loading' = {}
    /\ UNCHANGED <<repo, away, unsaid, missed, file, pc, todo, probed, requests,
                   troubles, history>>

\* ensureLoaded, for a handler: it waits for a load, or makes one whose query
\* fails and goes on with the cache as it is.
EnsureLoaded(e) ==
    /\ \/ fresh /\ UNCHANGED troubles
       \/ ~fresh /\ loading = {} /\ Trouble
    /\ misled' = [misled EXCEPT ![e] = @ \/ missed]
    /\ UNCHANGED caching

Labelled(q) == {i \in DOMAIN q : ~Catchall(q[i])}

\* A label that the alert lacks is "", the zero value of Go's map.
Value(actual, k) == IF k \in DOMAIN actual THEN actual[k] ELSE ""
LabelsMatch(required, actual) ==
    \A k \in DOMAIN required : Value(actual, k) = required[k]

MatchAny(q, alert) ==
    LET hits == {i \in DOMAIN q : LabelsMatch(q[i].match, alert)}
    IN  IF hits # {} THEN <<q[Min(hits)]>> ELSE <<>>

\* The first scenario whose labels match, else the last one without labels:
\* a sequence of at most one row.
Match(q, alert) ==
    LET hits == {i \in Labelled(q) : LabelsMatch(q[i].match, alert)}
        spare == DOMAIN q \ Labelled(q)
    IN  CASE hits # {} -> <<q[Min(hits)]>>
          [] hits = {} /\ spare # {} -> <<q[Max(spare)]>>
          [] OTHER -> <<>>

----------------------------------------------------------------------------
(* Requests.                                                               *)

\* A request of kind k comes in, and finds the rows of the table.
Request(e, k) ==
    /\ pc[e] = "idle" /\ requests < MaxRequests
    /\ requests' = requests + 1
    /\ op' = [op EXCEPT ![e] = k]
    /\ before' = [before EXCEPT ![e] = table]
    /\ quiet' = [quiet EXCEPT ![e] = unsaid = {}]
    /\ UNCHANGED <<clean, misled>>

\* Its first query fails: it is answered with an error at once.
Fails(e) ==
    /\ pc[e] = "idle" /\ requests < MaxRequests
    /\ requests' = requests + 1
    /\ Trouble
    /\ UNCHANGED <<repo, caching, file, pc, todo, probed, history>>

Answer(e) ==
    /\ pc[e] = "answer"
    /\ pc' = [pc EXCEPT ![e] = "idle"]
    /\ todo' = [todo EXCEPT ![e] = <<>>]
    /\ probed' = [probed EXCEPT ![e] = NoProbe]
    /\ op' = [op EXCEPT ![e] = "none"]
    /\ before' = [before EXCEPT ![e] = {}]
    /\ quiet' = [quiet EXCEPT ![e] = TRUE]
    /\ clean' = [clean EXCEPT ![e] = TRUE]
    /\ misled' = [misled EXCEPT ![e] = FALSE]
    /\ UNCHANGED <<repo, caching, file, requests, troubles>>

\* copyName: the first number that makes a free name.
CopyName(base, rows) ==
    Append(base, Min({k \in 1..(Cardinality(rows) + 1) :
                          Named(rows, Append(base, k)) = {}}))

Duplicate(row) == [row EXCEPT !.id = 0, !.order = 0, !.name = CopyName(@, table)]

Blank == [id |-> 0, name |-> <<0>>, match |-> <<>>, body |-> 0, order |-> 0]

\* The editor opens with an empty form, a row of the table or a copy of one.
OpenForm(e) ==
    /\ pc[e] = "idle" /\ requests < MaxRequests
    /\ requests' = requests + 1
    /\ \E row \in {Blank} \union table \union {Duplicate(r) : r \in {s \in table : s.id \in Copied}} :
          todo' = [todo EXCEPT ![e] = <<row>>]
    /\ pc' = [pc EXCEPT ![e] = "form"]
    /\ UNCHANGED <<repo, caching, file, probed, troubles, history>>

\* What the user makes of it, of those inputs that pass parseScenarioForm: one
\* field, or the body together with the position.
Edited(row) ==
    {row, [row EXCEPT !.body = 1, !.order = Rows]}
    \union {[row EXCEPT !.name = r.name] : r \in table}
    \union {[row EXCEPT !.match = m] : m \in Matches}

Close(e) ==
    /\ pc' = [pc EXCEPT ![e] = "idle"]
    /\ todo' = [todo EXCEPT ![e] = <<>>]

\* createScenario and updateScenario; a refused form stays open (with what was typed,
\* which the user may undo: a second edit starts from the same row).
Submit(e) ==
    /\ pc[e] = "form"
    /\ \E row \in Edited(todo[e][1]) :
          \/ /\ Save(e, row)
             /\ Close(e)
          \/ /\ Refuses(row)
             /\ UNCHANGED <<pc, todo>>
    /\ Cleanly(e)
    /\ UNCHANGED <<file, probed, requests, op, before, misled>>

Leave(e) ==
    /\ pc[e] = "form"
    /\ Close(e)
    /\ UNCHANGED <<repo, caching, file, probed, requests, troubles, history>>

Delete(e) ==
    /\ pc[e] = "idle" /\ requests < MaxRequests
    /\ requests' = requests + 1
    /\ \E id \in 1..(nextId - 1) : table' = {r \in table : r.id # id}
    /\ Wrote(e)
    /\ UNCHANGED <<nextId, file, pc, todo, probed, op, before, clean, misled>>

----------------------------------------------------------------------------
(* Moving a scenario.                                                      *)

Swap(q, i, j) == [q EXCEPT ![i] = q[j], ![j] = q[i]]

\* The elements of q with the numbers in S, in their order.
Pick(q, S) ==
    [k \in 1..Cardinality(S) |->
        q[CHOOSE i \in S : Cardinality({j \in S : j <= i}) = k]]

LabelledFirst(q) == Pick(q, Labelled(q)) \o Pick(q, DOMAIN q \ Labelled(q))

SwapsPositions(q, id, up) ==
    LET all == LabelledFirst(q)
        last == Cardinality(Labelled(q))
        at == {i \in 1..last : all[i].id = id}
        to == {IF up THEN i - 1 ELSE i + 1 : i \in at} \intersect 1..last
    IN  IF to = {} THEN <<>>
        ELSE LET i == Max(at)
                 j == Max(to)
             IN  <<[all[i] EXCEPT !.order = all[j].order],
                   [all[j] EXCEPT !.order = all[i].order]>>

\* reorderScenarios: what must be written so that the row moves one place.
Reorder(q, id, up) ==
    LET all == LabelledFirst(q)
        last == Cardinality(Labelled(q))
        at == {i \in 1..last : all[i].id = id}
        to == {IF up THEN i - 1 ELSE i + 1 : i \in at} \intersect 1..last
    IN  IF to = {} THEN <<>>
        ELSE LET moved == Swap(all, Max(at), Max(to))
                 new == [i \in DOMAIN moved |-> [moved[i] EXCEPT !.order = i]]
             IN  Pick(new, {i \in DOMAIN new : new[i] \notin ToSet(q)})

Move(e) ==
    /\ Request(e, "move")
    /\ \E q \in Listings(table), id \in 1..(nextId - 1), up \in BOOLEAN :
          LET rows == Reorder(q, id, up) IN
          /\ todo' = [todo EXCEPT ![e] = rows]
          /\ pc' = [pc EXCEPT ![e] = IF rows = <<>> THEN "answer" ELSE "save"]
    /\ UNCHANGED <<repo, caching, file, probed, troubles>>

SaveNext(e) ==
    /\ pc[e] = "save"
    /\ \/ /\ Save(e, Head(todo[e]))
          /\ todo' = [todo EXCEPT ![e] = Tail(@)]
          /\ pc' = [pc EXCEPT ![e] = IF Len(todo[e]) > 1 THEN "save" ELSE "answer"]
       \/ /\ Refuses(Head(todo[e]))
          /\ pc' = [pc EXCEPT ![e] = "answer"]
          /\ UNCHANGED todo
    /\ Cleanly(e)
    /\ UNCHANGED <<file, probed, requests, op, before, misled>>

----------------------------------------------------------------------------
(* Export and import.                                                      *)

\* (A file is not written over while an import reads it.)
Export(e) ==
    /\ pc[e] = "idle" /\ requests < MaxRequests
    /\ requests' = requests + 1
    /\ \A d \in Editors : op[d] # "import"
    /\ \E q \in Listings(table) : file' = [i \in DOMAIN q |-> [q[i] EXCEPT !.id = 0]]
    /\ UNCHANGED <<repo, caching, pc, todo, probed, troubles, history>>

Import(e) ==
    /\ e \notin away /\ Request(e, "import") /\ file # <<>>
    /\ todo' = [todo EXCEPT ![e] = file]
    /\ pc' = [pc EXCEPT ![e] = "find"]
    /\ UNCHANGED <<repo, caching, file, probed, troubles>>

\* Is there a scenario of that name?  The cache is asked.
Find(e) ==
    /\ pc[e] = "find"
    /\ EnsureLoaded(e) /\ Cleanly(e)
    /\ pc' = [pc EXCEPT ![e] =
                IF \E r \in ToSet(cache) : r.name = Head(todo[e]).name
                  THEN "lookup" ELSE "create"]
    /\ UNCHANGED <<repo, file, todo, probed, requests, op, before, quiet>>

\* Which row is it?  The table is asked; without an answer the id stays 0.
ForgetsId(e, ids) == UNCHANGED todo
TakeId(e, ids) == todo' = [todo EXCEPT ![e][1].id = IF ids = {} THEN 0 ELSE Max(ids)]

Lookup(e) ==
    /\ pc[e] = "lookup"
    /\ \/ /\ TakeId(e, {r.id : r \in Named(table, Head(todo[e]).name)})
          /\ UNCHANGED troubles
       \/ /\ Trouble
          /\ UNCHANGED todo
    /\ Cleanly(e)
    /\ pc' = [pc EXCEPT ![e] = "update"]
    /\ UNCHANGED <<repo, caching, file, probed, requests, op, before, quiet, misled>>

\* The entry is written, or logged and left out.
Store(e) ==
    /\ pc[e] \in {"update", "create"}
    /\ \/ IF pc[e] = "update" THEN Save(e, Head(todo[e])) ELSE Insert(e, Head(todo[e]))
       \/ Refuses(Head(todo[e]))
    /\ Cleanly(e)
    /\ todo' = [todo EXCEPT ![e] = Tail(@)]
    /\ pc' = [pc EXCEPT ![e] = IF Len(todo[e]) > 1 THEN "find" ELSE "answer"]
    /\ UNCHANGED <<file, probed, requests, op, before, misled>>

----------------------------------------------------------------------------
(* The match probe: the cache is asked as the webhook asks it, then the    *)
(* table for the id of the name.                                           *)

Probe(e) ==
    /\ e \notin away /\ pc[e] = "idle" /\ requests < MaxRequests
    /\ requests' = requests + 1
    /\ op' = [op EXCEPT ![e] = "probe"]
    /\ EnsureLoaded(e)
    /\ clean' = [clean EXCEPT ![e] = troubles' = troubles]
    /\ quiet' = [quiet EXCEPT ![e] = unsaid = {}]
    /\ \E alert \in Alerts :
          probed' = [probed EXCEPT ![e] =
                        [alert |-> alert, row |-> Match(cache, alert), id |-> 0]]
    /\ pc' = [pc EXCEPT ![e] = "resolve"]
    /\ UNCHANGED <<repo, file, todo, before>>

Resolve(e) ==
    /\ pc[e] = "resolve"
    /\ \/ /\ LET ids == UNION {{r.id : r \in Named(table, s.name)} : s \in ToSet(probed[e].row)}
             IN  probed' = [probed EXCEPT ![e].id = IF ids = {} THEN 0 ELSE Max(ids)]
          /\ UNCHANGED troubles
       \/ /\ Trouble
          /\ UNCHANGED probed
    /\ Cleanly(e)
    /\ pc' = [pc EXCEPT ![e] = "answer"]
    /\ UNCHANGED <<repo, caching, file, todo, requests, op, before, quiet, misled>>

----------------------------------------------------------------------------
\* A step of a handler: the next one after a write is its Invalidate.
Work(e) ==
    \/ OpenForm(e) \/ Submit(e) \/ Leave(e) \/ Delete(e)
    \/ Move(e) \/ SaveNext(e)
    \/ Export(e) \/ Import(e) \/ Find(e) \/ Lookup(e) \/ Store(e)
    \/ Probe(e) \/ Resolve(e)
    \/ Fails(e) \/ Answer(e)

Next ==
    \/ \E e \in Editors : Invalidate(e) \/ (e \notin unsaid /\ Work(e))
    \/ Query \/ QueryEnds

Spec == Init /\ [][Next]_vars

----------------------------------------------------------------------------
(* Properties.                                                             *)

Row == [id : Nat, name : Seq(Nat), match : Matches, body : {0, 1}, order : Nat]

\* Types; ids and names identify a row, whatever overlaps.
TypeOK ==
    /\ \A r \in table : r \in Row /\ r.id \in 1..(nextId - 1)
    /\ \A r, s \in table : r.id = s.id \/ r.name = s.name => r = s
    /\ nextId \in Nat
    /\ unsaid \subseteq Editors \ away /\ fresh \in BOOLEAN /\ missed \in BOOLEAN
    /\ \A q \in {cache} \union loading : ToSet(q) \subseteq Row
    /\ \A e \in Editors : ToSet(todo[e]) \subseteq Row
    /\ requests \in 0..MaxRequests /\ troubles \in 0..MaxTroubles

Ids(q) == [i \in DOMAIN q |-> q[i].id]
Done(e, k) == pc[e] = "answer" /\ op[e] = k /\ quiet[e]

\* A move that nobody disturbed has changed nothing but positions, also when it
\* broke off (moveScenario).  If it did not, the positions are those of no two
\* rows, and an alert goes to another scenario only if that one and the one it
\* went to before both match it and have changed places.
MoveSwapsNeighbours ==
    \A e \in Editors : Done(e, "move") =>
        /\ {Contents(r) : r \in table} = {Contents(r) : r \in before[e]}
        /\ clean[e] /\ table # before[e] =>
              /\ \A r, s \in table : r.order = s.order => r = s
              /\ \A new \in Listings(table) :
                    \E q \in Listings(before[e]), i \in 1..(Cardinality(table) - 1) :
                        LET old == LabelledFirst(q) IN
                        /\ Ids(new) = Swap(Ids(old), i, i + 1)
                        /\ \A a \in Alerts :
                              \/ Ids(Match(new, a)) = Ids(Match(q, a))
                              \/ /\ Ids(Match(q, a)) = <<old[i].id>>
                                 /\ Ids(Match(new, a)) = <<old[i + 1].id>>

\* An import that nobody disturbed, and that met no error, leaves every other row
\* as it was, keeps the ids and loads every entry of the file (importScenarios).
\* The one exception: if it read a cache that had missed a write, made during its
\* load or at another replica, it may leave out an entry whose name is taken by a
\* row that the cache did not have, and which stays as it was.
ImportLoads ==
    \A e \in Editors : Done(e, "import") /\ clean[e] =>
        /\ \A i \in DOMAIN file :
              \/ \E r \in table : [r EXCEPT !.id = 0] = file[i]
              \/ misled[e] /\ \E r \in table \intersect before[e] : r.name = file[i].name
        /\ \A r \in before[e] :
              IF \E i \in DOMAIN file : file[i].name = r.name
                THEN \E s \in table : s.id = r.id /\ s.name = r.name
                ELSE r \in table
        /\ Cardinality(table) = Cardinality({r.name : r \in before[e]} \union
                                            {file[i].name : i \in DOMAIN file})

\* The label k of the alert has this value.  "All labels in match must exactly
\* match the alert's" (docs/configuration.md), "all required labels are present"
\* (LabelsMatch) - except that one that must be "" is met by its absence, too.
Meets(alert, k, value) ==
    \/ k \in DOMAIN alert /\ alert[k] = value
    \/ value = "" /\ k \notin DOMAIN alert

\* docs/configuration.md, Matching Logic, of the answer of a probe (and of the
\* webhook, which asks the same method) after any edits: the first scenario in
\* order_index order whose labels all match, a catch-all if there is none.  There
\* are two exceptions.  "First match wins" is not so of several catch-alls: the
\* last one is taken.  And an answer from a cache that had missed a write, made
\* during its load or at another replica, may be one of older scenarios.
CaughtByTheFirst ==
    \A e \in Editors : Done(e, "probe") /\ clean[e] /\ ~misled[e] =>
        LET alert == probed[e].alert
            spare == {r \in table : Catchall(r)}
            hits == {r \in table \ spare :
                        \A k \in DOMAIN r.match : Meets(alert, k, r.match[k])}
            got == {r \in table : r.id = probed[e].id}
        IN  CASE hits # {} ->
                    \E r \in got \intersect hits : \A s \in hits : r.order <= s.order
              [] hits = {} /\ spare # {} ->
                    \E r \in got \intersect spare : \A s \in spare : s.order <= r.order
              [] OTHER -> got = {}
=============================================================================
