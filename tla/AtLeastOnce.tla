---------------------------- MODULE AtLeastOnce ----------------------------
(***************************************************************************)
(* What a durable job queue promises the webhook, whatever it is built on: *)
(* a submitted job stays owed (open) until it has an outcome, and only     *)
(* then may the queue forget it.  A job may have several outcomes (it can  *)
(* be worked on twice), and may still get one after it was closed.         *)
(***************************************************************************)
CONSTANT Jobs

VARIABLES
    submitted,      \* jobs the queue has accepted
    open,           \* jobs the queue still owes an outcome
    succeeded,      \* jobs some attempt of which returned without error
    dead,           \* jobs put aside after too many failed deliveries
    dropped         \* jobs nobody can work on: unreadable, or no scenario

vars == <<submitted, open, succeeded, dead, dropped>>

Init ==
    /\ submitted = {} /\ open = {}
    /\ succeeded = {} /\ dead = {} /\ dropped = {}

Submit(j) ==
    /\ j \notin submitted
    /\ submitted' = submitted \union {j}
    /\ open' = open \union {j}
    /\ UNCHANGED <<succeeded, dead, dropped>>

Succeed(j) ==
    /\ j \in submitted
    /\ succeeded' = succeeded \union {j}
    /\ UNCHANGED <<submitted, open, dead, dropped>>

Bury(j) ==
    /\ j \in submitted
    /\ dead' = dead \union {j}
    /\ UNCHANGED <<submitted, open, succeeded, dropped>>

Drop(j) ==
    /\ j \in submitted
    /\ dropped' = dropped \union {j}
    /\ UNCHANGED <<submitted, open, succeeded, dead>>

\* The queue forgets a job: never one without an outcome.
Close(j) ==
    /\ j \in open
    /\ j \in succeeded \union dead \union dropped
    /\ open' = open \ {j}
    /\ UNCHANGED <<submitted, succeeded, dead, dropped>>

Next == \E j \in Jobs : Submit(j) \/ Succeed(j) \/ Bury(j) \/ Drop(j) \/ Close(j)

\* The safety half of the promise.
Spec == Init /\ [][Next]_vars

\* The other half: no job stays owed for ever.
EveryJobCloses == \A j \in Jobs : (j \in open) ~> (j \notin open)
=============================================================================
