------------------------------ MODULE Service ------------------------------
(***************************************************************************)
(* The life of the replicas of the service over one database: the command  *)
(* serve (cmd/serve.go) from the opening of the database (storage/db.go)   *)
(* and the seeding of its tables (storage/seed.go) to the shutdown of the  *)
(* HTTP server (server/server.go) and of the queue.                        *)
(*                                                                         *)
(* A statement of the database is a step, so replicas that start together  *)
(* seed together.  A crash comes at any step; whatever runs the service    *)
(* starts a replica again that has ended, and asks it to stop (SIGTERM).   *)
(* The worker and the requests are present as what a shutdown waits for.   *)
(***************************************************************************)
EXTENDS Naturals, Sequences, FiniteSets

CONSTANTS
    Replicas,
    Size,           \* rows of the seed, by table
    Legacy,         \* seeded names that old versions have left soft-deleted
    Redis,          \* cfg.Redis.URL is set
    MaxTroubles     \* crashes, errors and signals

Tables == <<"scenarios", "prompts">>
TableNames == {Tables[i] : i \in DOMAIN Tables}

ASSUME ServiceConstants ==
    /\ Size \in [TableNames -> Nat \ {0}]
    /\ Legacy \subseteq Nat
    /\ Redis \in BOOLEAN /\ MaxTroubles \in Nat

VARIABLES
    rows,       \* by table, the seeded rows that are there
    ghosts,     \* soft-deleted rows of the scenarios
    \* by replica:
    stage,      \* "down", "open", "count", "create", "mcp", "redis", "serving",
                \* "stopping" (HTTP), "draining" (queue)
    table, row, \* what it seeds: index in Tables, next row
    term,       \* SIGTERM has come: the context of serve is over
    worker,     \* "none", "idle", "busy"
    request,    \* a request is being handled
    exit,       \* how it ended last: "none", "ok", "late" (ok, with the
                \* warning that the worker was still running), "error"
    troubles,
    \* history:
    torn,       \* a seeding broke off after its first row
    cut         \* by replica: what its last end broke off: "request", "job"

database == <<rows, ghosts>>
seeding == <<table, row>>
load == <<worker, request>>
vars == <<database, stage, seeding, term, load, exit, troubles, torn, cut>>

Init ==
    /\ rows = [t \in TableNames |-> {}]
    /\ ghosts = Legacy
    /\ stage = [r \in Replicas |-> "down"]
    /\ table = [r \in Replicas |-> 1] /\ row = [r \in Replicas |-> 1]
    /\ term = [r \in Replicas |-> FALSE]
    /\ worker = [r \in Replicas |-> "none"]
    /\ request = [r \in Replicas |-> FALSE]
    /\ exit = [r \in Replicas |-> "none"]
    /\ troubles = 0
    /\ torn = FALSE /\ cut = [r \in Replicas |-> {}]

----------------------------------------------------------------------------
Trouble == troubles < MaxTroubles /\ troubles' = troubles + 1

To(r, s) == stage' = [stage EXCEPT ![r] = s]

\* The process ends, and with it its worker and its connections (the deferred
\* calls close Redis, then the MCP connections).
End(r, how) ==
    /\ To(r, "down")
    /\ exit' = [exit EXCEPT ![r] = how]
    /\ cut' = [cut EXCEPT ![r] = (IF request[r] THEN {"request"} ELSE {})
                          \union (IF worker[r] = "busy" THEN {"job"} ELSE {})]
    /\ worker' = [worker EXCEPT ![r] = "none"]
    /\ request' = [request EXCEPT ![r] = FALSE]
    /\ term' = [term EXCEPT ![r] = FALSE]
    /\ table' = [table EXCEPT ![r] = 1] /\ row' = [row EXCEPT ![r] = 1]

Tears(r) == torn' = (torn \/ (stage[r] = "create" /\ row[r] > 1))

\* A crash, an error that start-up does not survive, or a listener that fails:
\* serve returns the error of Run without a shutdown of the queue.
Crash(r) ==
    /\ stage[r] # "down"
    /\ Trouble /\ End(r, "error") /\ Tears(r)
    /\ UNCHANGED database

Signal(r) ==
    /\ stage[r] # "down" /\ ~term[r]
    /\ Trouble
    /\ term' = [term EXCEPT ![r] = TRUE]
    /\ UNCHANGED <<database, stage, seeding, load, exit, torn, cut>>

----------------------------------------------------------------------------
(* Start-up.                                                               *)

\* storage.Open: the migrated table loses its soft-deleted rows.  (KeepGhosts and
\* other definitions that no action uses are variants: each is what an easy
\* mistake would make of the definition it stands next to.)
KeepGhosts == UNCHANGED ghosts
Purge == ghosts' = {}

Open(r) ==
    /\ stage[r] = "down"
    /\ Purge
    /\ To(r, "count")
    /\ UNCHANGED <<rows, seeding, term, load, exit, troubles, torn, cut>>

\* The next table, or the MCP connections.
TableDone(r) ==
    IF table[r] < Len(Tables)
      THEN /\ table' = [table EXCEPT ![r] = @ + 1]
           /\ row' = [row EXCEPT ![r] = 1]
           /\ To(r, "count")
      ELSE UNCHANGED seeding /\ To(r, "mcp")

Count(r) ==
    /\ stage[r] = "count"
    /\ IF rows[Tables[table[r]]] = {}
         THEN To(r, "create") /\ UNCHANGED seeding
         ELSE TableDone(r)
    /\ UNCHANGED <<database, term, load, exit, troubles, torn, cut>>

OnlyTheFirst(r) == TableDone(r)
NextRow(r) ==
    IF row[r] < Size[Tables[table[r]]]
      THEN row' = [row EXCEPT ![r] = @ + 1] /\ UNCHANGED <<table, stage>>
      ELSE TableDone(r)

\* The row of another replica, or a soft-deleted one, stands in the unique index.
Taken(t, i) == i \in rows[t] \/ (t = "scenarios" /\ i \in ghosts)

Create(r) ==
    /\ stage[r] = "create"
    /\ LET t == Tables[table[r]] IN
          IF Taken(t, row[r])
            THEN /\ End(r, "error")
                 /\ UNCHANGED rows
            ELSE /\ rows' = [rows EXCEPT ![t] = @ \union {row[r]}]
                 /\ NextRow(r)
                 /\ UNCHANGED <<term, load, exit, cut>>
    /\ UNCHANGED <<ghosts, troubles, torn>>

\* NewManager with the context of serve: over, no server can be reached.
Connect(r) ==
    /\ stage[r] = "mcp"
    /\ IF term[r] THEN End(r, "error")
                  ELSE To(r, "redis") /\ UNCHANGED <<seeding, term, load, exit, cut>>
    /\ UNCHANGED <<database, troubles, torn>>

\* Ping of Redis, the queue with its worker, then the HTTP server.
Serve(r) ==
    /\ stage[r] = "redis"
    /\ IF term[r] /\ Redis
         THEN End(r, "error")
         ELSE /\ To(r, "serving")
              /\ worker' = [worker EXCEPT ![r] = "idle"]
              /\ UNCHANGED <<seeding, term, request, exit, cut>>
    /\ UNCHANGED <<database, troubles, torn>>

----------------------------------------------------------------------------
(* Service.                                                                *)

Accept(r) ==
    /\ stage[r] = "serving" /\ ~request[r]
    /\ request' = [request EXCEPT ![r] = TRUE]
    /\ UNCHANGED <<database, stage, seeding, term, worker, exit, troubles, torn, cut>>

Respond(r) ==
    /\ request[r]
    /\ request' = [request EXCEPT ![r] = FALSE]
    /\ UNCHANGED <<database, stage, seeding, term, worker, exit, troubles, torn, cut>>

\* The worker reads a job and ends it.  The context of the one of Redis is that
\* of serve; the one in memory goes on until the process ends.
TakeJob(r) ==
    /\ worker[r] = "idle" /\ (Redis => ~term[r])
    /\ worker' = [worker EXCEPT ![r] = "busy"]
    /\ UNCHANGED <<database, stage, seeding, term, request, exit, troubles, torn, cut>>

EndJob(r) ==
    /\ worker[r] = "busy"
    /\ worker' = [worker EXCEPT ![r] = "idle"]
    /\ UNCHANGED <<database, stage, seeding, term, request, exit, troubles, torn, cut>>

----------------------------------------------------------------------------
(* Shutdown.                                                               *)

\* Run of the server sees that the context is over.
Stop(r) ==
    /\ stage[r] = "serving" /\ term[r]
    /\ To(r, "stopping")
    /\ UNCHANGED <<database, seeding, term, load, exit, troubles, torn, cut>>

\* Shutdown of the HTTP server: every request has been answered.
Stopped(r) ==
    /\ stage[r] = "stopping" /\ ~request[r]
    /\ To(r, "draining")
    /\ UNCHANGED <<database, seeding, term, load, exit, troubles, torn, cut>>

\* Its ten seconds pass first: serve returns the error, and the queue is not
\* shut down at all.
StopTimesOut(r) ==
    /\ stage[r] = "stopping" /\ request[r]
    /\ End(r, "error")
    /\ UNCHANGED <<database, troubles, torn>>

\* Shutdown of the queue: the one in Redis waits for its worker, ...
DoesNotWait(r) == TRUE
WorkerIsDone(r) == Redis => worker[r] = "idle"

Drained(r) ==
    /\ stage[r] = "draining"
    /\ WorkerIsDone(r)
    /\ End(r, "ok")
    /\ UNCHANGED <<database, troubles, torn>>

\* ... for thirty seconds, and gives up without an error.
NoDeadline(r) == FALSE
PatienceEnds(r) == Redis /\ worker[r] = "busy"

DrainTimesOut(r) ==
    /\ stage[r] = "draining"
    /\ PatienceEnds(r)
    /\ End(r, "late")
    /\ UNCHANGED <<database, troubles, torn>>

----------------------------------------------------------------------------
\* What a replica does by itself, and its orchestrator for it: Open starts a
\* process that has ended.
Goes(r) ==
    \/ Open(r) \/ Count(r) \/ Create(r) \/ Connect(r) \/ Serve(r)
    \/ Stop(r) \/ Stopped(r) \/ StopTimesOut(r) \/ Drained(r) \/ DrainTimesOut(r)

Next == \E r \in Replicas :
    \/ Goes(r) \/ Crash(r) \/ Signal(r)
    \/ Accept(r) \/ Respond(r) \/ TakeJob(r) \/ EndJob(r)

Spec == Init /\ [][Next]_vars /\ \A r \in Replicas : WF_vars(Goes(r))

----------------------------------------------------------------------------
\* No replica is writing the seed.
Settled == \A r \in Replicas : stage[r] \notin {"count", "create"}

\* Replicas that find the tables empty at the same time may collide on a name, and
\* the one that does ends; but whoever comes to serve, as soon as nobody seeds any
\* more every table has all its rows, once: unless a process ended in the middle
\* of a table (seed.go: a table is seeded only when it is empty).
SeededWhole ==
    (\E r \in Replicas : stage[r] = "serving") /\ Settled /\ ~torn =>
        \A t \in TableNames : rows[t] = 1..Size[t]

\* A replica that ends without an error has answered its requests, and with Redis
\* the job in hand is done, or the log says that it is not (serve.go: the server is
\* shut down before the queue, the queue before the connections are closed).
CleanStop == \A r \in Replicas :
    /\ exit[r] = "ok" /\ Redis => cut[r] = {}
    /\ exit[r] \in {"ok", "late"} => "request" \notin cut[r]

\* A replica that is asked to stop ends, whatever its worker and its clients do ...
StopsWhenAsked == \A r \in Replicas : term[r] ~> stage[r] = "down"

\* ... and when crashes and signals have come to an end every replica comes to
\* serve: neither what another replica has seeded nor the soft-deleted rows of an
\* old version keep it from starting for ever.
ComesUp == \A r \in Replicas : []<>(stage[r] = "serving")

\* Both, of start-up and shutdown.
StopsAndStarts == StopsWhenAsked /\ ComesUp
=============================================================================
