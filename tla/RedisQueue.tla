----------------------------- MODULE RedisQueue -----------------------------
(***************************************************************************)
(* The Redis Streams job queue (webhook/redis.go): a stream with one       *)
(* consumer group, any number of replicas each running one worker loop,    *)
(* XAUTOCLAIM of entries idle for claimMinIdle, a dead-letter stream, and  *)
(* the ways these go wrong: Redis errors (a command that had no effect, or *)
(* had one whose reply was lost), a process crash, SIGTERM, and an attempt *)
(* that outlives claimMinIdle.                                             *)
(*                                                                         *)
(* A job is its stream ID, 1 for the first XADD: the payload, the prompt   *)
(* and the scenario do not influence the queue, except that the entry may  *)
(* turn out to be undispatchable (Discard).  Consumer names are left out:  *)
(* none of the commands used looks at the owner of a pending entry.        *)
(***************************************************************************)
EXTENDS Naturals, FiniteSets

CONSTANTS
    Workers,        \* worker goroutines, one per replica
    MaxJobs,        \* bound: successful calls of Enqueue
    MaxDeliveries,  \* maxDeliveries
    BatchSize,      \* COUNT of XAUTOCLAIM
    MaxTroubles     \* bound: failed Redis commands, crashes and SIGTERMs together

ASSUME QueueConstants ==
    /\ MaxJobs \in Nat
    /\ MaxDeliveries \in Nat \ {0}
    /\ BatchSize \in Nat \ {0}
    /\ MaxTroubles \in Nat

Ids == 1..MaxJobs
NoId == 0

VARIABLES
    \* Redis.
    lastId,         \* ID of the last entry added to the stream
    stream,         \* entries in the stream (XADDed and not XDELed)
    lastDelivered,  \* the group's last-delivered-id
    pending,        \* the group's pending entries list
    idle,           \* pending entries not touched for claimMinIdle
    deliveries,     \* delivery counters; one that left the list keeps its last value
    dlq,            \* entries copied to the dead-letter stream
    \* Workers.
    pc,             \* where the worker loop is
    batch,          \* messages of the last XAUTOCLAIM not finished yet
    cur,            \* the message in processMessage
    seen,           \* its deliveries argument
    cancelled,      \* the worker context is cancelled (SIGTERM)
    \* What an observer outside has seen.
    succeeded,      \* jobs with an attempt that returned nil
    dropped,        \* jobs acknowledged as undispatchable
    reports,        \* messages sent per job by successful attempts: 0, 1, or 2 for more
    notices,        \* jobs whose fallback failure message was sent
    mishaps,        \* jobs a worker lost, kept too long or could not acknowledge
    troubles        \* failed Redis commands, crashes and SIGTERMs so far

redis    == <<lastId, stream, lastDelivered, pending, idle, deliveries, dlq>>
workers  == <<pc, batch, cur, seen, cancelled>>
observed == <<succeeded, dropped, reports, notices, mishaps>>
vars     == <<redis, workers, observed, troubles>>

PCs == {"top", "take", "read", "work", "bury", "ack", "ackDead", "notify", "down"}

TypeOK ==
    /\ lastId \in 0..MaxJobs /\ lastDelivered \in 0..MaxJobs
    /\ stream \in SUBSET Ids /\ pending \in SUBSET Ids /\ idle \in SUBSET Ids
    /\ deliveries \in [Ids -> 0..MaxDeliveries]
    /\ dlq \in SUBSET Ids
    /\ pc \in [Workers -> PCs]
    /\ batch \in [Workers -> SUBSET Ids]
    /\ cur \in [Workers -> Ids \union {NoId}]
    /\ seen \in [Workers -> 0..MaxDeliveries]
    /\ cancelled \in [Workers -> BOOLEAN]
    /\ succeeded \in SUBSET Ids /\ dropped \in SUBSET Ids
    /\ reports \in [Ids -> 0..2]
    /\ notices \in SUBSET Ids /\ mishaps \in SUBSET Ids
    /\ troubles \in 0..MaxTroubles

\* ensureGroup creates the stream and the group before any worker starts.
Init ==
    /\ lastId = 0 /\ lastDelivered = 0
    /\ stream = {} /\ pending = {} /\ idle = {} /\ dlq = {}
    /\ deliveries = [i \in Ids |-> 0]
    /\ pc = [w \in Workers |-> "top"]
    /\ batch = [w \in Workers |-> {}]
    /\ cur = [w \in Workers |-> NoId]
    /\ seen = [w \in Workers |-> 0]
    /\ cancelled = [w \in Workers |-> FALSE]
    /\ succeeded = {} /\ dropped = {} /\ notices = {} /\ mishaps = {}
    /\ reports = [i \in Ids |-> 0]
    /\ troubles = 0

----------------------------------------------------------------------------
(* Vocabulary.  (Here and below, a definition that only stands before the  *)
(* one it varies, and is not used, is a mistake the properties rule out.)  *)

IsLeast(i, S) == i \in S /\ \A j \in S : i <= j
Waiting == {i \in stream : i > lastDelivered}
Held(w) == (batch[w] \union {cur[w]}) \ {NoId}
Holders(i) == {w \in Workers : i \in Held(w)}

\* Counters past MaxDeliveries are not told apart: only >= is asked of them.
Bump(n) == IF n < MaxDeliveries THEN n + 1 ELSE n

\* A Redis command fails, a process crashes or is told to stop.
Trouble == troubles < MaxTroubles /\ troubles' = troubles + 1

Goto(w, place) == pc' = [pc EXCEPT ![w] = place]

\* processMessage returned: the next message of the claimed batch, or the read
\* that follows it (which fails at once when the context is cancelled, so that
\* the loop ends); a message that was read goes back to the top of the loop.
Continue(w) ==
    LET rest == batch[w] \ {cur[w]}
    IN  /\ Goto(w, IF cur[w] \notin batch[w] THEN "top"
                   ELSE IF rest # {} THEN "take"
                   ELSE IF cancelled[w] THEN "top" ELSE "read")
        /\ batch' = [batch EXCEPT ![w] = rest]
        /\ cur' = [cur EXCEPT ![w] = NoId]
        /\ seen' = [seen EXCEPT ![w] = 0]
        /\ UNCHANGED cancelled

\* The process is gone, and with it everything the worker had in hand.
Gone(w) ==
    /\ Goto(w, "down")
    /\ batch' = [batch EXCEPT ![w] = {}]
    /\ cur' = [cur EXCEPT ![w] = NoId]
    /\ seen' = [seen EXCEPT ![w] = 0]
    /\ cancelled' = [cancelled EXCEPT ![w] = FALSE]
    /\ mishaps' = mishaps \union Held(w)
    /\ UNCHANGED <<redis, succeeded, dropped, reports, notices>>

----------------------------------------------------------------------------
(* Enqueue, called by the webhook handler of any replica.                  *)

Enqueue ==
    \/ /\ lastId < MaxJobs
       /\ lastId' = lastId + 1
       /\ stream' = stream \union {lastId + 1}
       /\ UNCHANGED <<lastDelivered, pending, idle, deliveries, dlq>>
       /\ UNCHANGED <<workers, observed, troubles>>
    \/ /\ Trouble                   \* XADD error: logged, the job is lost
       /\ UNCHANGED <<redis, workers, observed>>

----------------------------------------------------------------------------
(* The worker loop.                                                        *)

\* XAUTOCLAIM from 0-0: the first BatchSize idle entries in ID order.
\* (ClaimAnyPending and other definitions that no action uses are variants: each is
\* what an easy mistake would make of the definition it stands next to.)
ClaimAnyPending == {i \in pending : Cardinality({j \in pending : j < i}) < BatchSize}
ClaimNothing == {}
Claimable == {i \in idle : Cardinality({j \in idle : j < i}) < BatchSize}

ClaimKeepsIdle ==
    /\ deliveries' = [i \in Ids |-> IF i \in Claimable THEN Bump(deliveries[i]) ELSE deliveries[i]]
    /\ UNCHANGED <<lastId, stream, lastDelivered, pending, idle, dlq>>
Claim ==
    /\ idle' = idle \ Claimable
    /\ deliveries' = [i \in Ids |-> IF i \in Claimable THEN Bump(deliveries[i]) ELSE deliveries[i]]
    /\ UNCHANGED <<lastId, stream, lastDelivered, pending, dlq>>

\* The check of the context at the top of the loop, and reclaimStuck up to its
\* loop.  A context cancelled right after the check makes XAUTOCLAIM and
\* XREADGROUP fail, which ends the loop as the check would have.
Reclaim(w) ==
    /\ pc[w] = "top" /\ ~cancelled[w]
    /\ \/ /\ Claim
          /\ batch' = [batch EXCEPT ![w] = Claimable]
          /\ Goto(w, IF Claimable = {} THEN "read" ELSE "take")
          /\ UNCHANGED troubles
       \/ /\ Trouble                \* error: no message, on to the read
          /\ Claim \/ UNCHANGED redis
          /\ Goto(w, "read")
          /\ UNCHANGED <<batch>>
    /\ UNCHANGED <<cur, seen, cancelled, observed>>

\* The next claimed message: deliveryCount, then processMessage.  Its XPENDING
\* finds nothing when another worker has acknowledged the entry meanwhile.
Take(w) ==
    /\ pc[w] = "take"
    /\ \E i \in batch[w] :
         /\ IsLeast(i, batch[w])
         /\ cur' = [cur EXCEPT ![w] = i]
         /\ \/ /\ ~cancelled[w]
               /\ seen' = [seen EXCEPT ![w] = IF i \in pending THEN deliveries[i] ELSE 1]
               /\ UNCHANGED troubles
            \/ /\ IF cancelled[w] THEN UNCHANGED troubles ELSE Trouble
               /\ seen' = [seen EXCEPT ![w] = 1]
    /\ Goto(w, "work")
    /\ UNCHANGED <<redis, batch, cancelled, observed>>

\* XREADGROUP ">" gives the group's next entry to one reader.
DeliverNoAck(i) ==
    /\ lastDelivered' = i
    /\ deliveries' = [deliveries EXCEPT ![i] = 1]
    /\ UNCHANGED <<lastId, stream, pending, idle, dlq>>
Deliver(i) ==
    /\ lastDelivered' = i
    /\ pending' = pending \union {i}
    /\ deliveries' = [deliveries EXCEPT ![i] = 1]
    /\ UNCHANGED <<lastId, stream, idle, dlq>>

\* The read was issued with a live context; SIGTERM does not interrupt a command
\* on the wire, so it can still bring a message when the context is cancelled.
Read(w) ==
    /\ pc[w] = "read"
    /\ \E i \in Ids :
         /\ IsLeast(i, Waiting)
         /\ Deliver(i)
         /\ \/ /\ cur' = [cur EXCEPT ![w] = i]
               /\ seen' = [seen EXCEPT ![w] = 1]
               /\ Goto(w, "work")
               /\ UNCHANGED troubles
            \/ /\ Trouble           \* delivered, but the reply was lost
               /\ Goto(w, "top")
               /\ UNCHANGED <<cur, seen>>
    /\ UNCHANGED <<batch, cancelled, observed>>

\* No message within streamBlockTimeout, or an error (logged, one second's sleep).
ReadNothing(w) ==
    /\ pc[w] = "read"
    /\ \/ Waiting = {} /\ UNCHANGED troubles
       \/ Trouble
    /\ Goto(w, "top")
    /\ UNCHANGED <<redis, batch, cur, seen, cancelled, observed>>

----------------------------------------------------------------------------
(* processMessage.                                                         *)

\* Invalid format, not JSON, no payload, or FindByName knows no such scenario
\* (deleted or renamed since, or not in this replica's cache).
Discard(w) ==
    /\ pc[w] = "work"
    /\ dropped' = dropped \union {cur[w]}
    /\ Goto(w, "ack")
    /\ UNCHANGED <<redis, batch, cur, seen, cancelled>>
    /\ UNCHANGED <<succeeded, reports, notices, mishaps, troubles>>

\* notifyStatus or investigate returned nil.  They return nil as well when no
\* message could be sent: send errors are only logged.
Succeed(w) ==
    /\ pc[w] = "work"
    /\ succeeded' = succeeded \union {cur[w]}
    /\ \/ reports' = [reports EXCEPT ![cur[w]] = IF @ < 2 THEN @ + 1 ELSE @]
       \/ UNCHANGED reports
    /\ Goto(w, "ack")
    /\ UNCHANGED <<redis, batch, cur, seen, cancelled, dropped, notices, mishaps, troubles>>

\* They returned an error: on the last delivery the job goes to the dead-letter
\* stream, otherwise it stays pending for a later XAUTOCLAIM.
ExhaustedEarly(n) == n >= MaxDeliveries - 1
Exhausted(n) == n >= MaxDeliveries

Fail(w) ==
    /\ pc[w] = "work"
    /\ IF Exhausted(seen[w])
       THEN Goto(w, "bury") /\ UNCHANGED <<batch, cur, seen, cancelled>>
       ELSE Continue(w)
    /\ UNCHANGED <<redis, observed, troubles>>

\* moveToDLQ; after an error (whose XADD may have had its effect) the entry is
\* left pending.
DeadAnyway(w) == Goto(w, "ackDead") /\ UNCHANGED <<batch, cur, seen, cancelled>>
LeavePending(w) == Continue(w)

AddToDLQ(i) ==
    /\ dlq' = dlq \union {i}
    /\ UNCHANGED <<lastId, stream, lastDelivered, pending, idle, deliveries>>

Bury(w) ==
    /\ pc[w] = "bury"
    /\ \/ /\ ~cancelled[w]
          /\ AddToDLQ(cur[w])
          /\ Goto(w, "ackDead")
          /\ UNCHANGED <<batch, cur, seen, cancelled, troubles>>
       \/ /\ cancelled[w]           \* the client refuses the command
          /\ LeavePending(w)
          /\ UNCHANGED <<redis, troubles>>
       \/ /\ ~cancelled[w] /\ Trouble
          /\ AddToDLQ(cur[w]) \/ UNCHANGED redis
          /\ LeavePending(w)
    /\ UNCHANGED observed

\* ack: XACK and XDEL in one pipeline.  Its error is only logged.
Acknowledge(i, deleted) ==
    /\ pending' = pending \ {i}
    /\ idle' = idle \ {i}
    /\ stream' = stream \ deleted
    /\ UNCHANGED <<lastId, lastDelivered, deliveries, dlq>>

NotAcknowledged(w) == UNCHANGED redis /\ mishaps' = mishaps \union {cur[w]}

AckCalls(w) ==
    /\ \/ ~cancelled[w] /\ Acknowledge(cur[w], {cur[w]}) /\ UNCHANGED <<troubles, mishaps>>
       \/ ~cancelled[w] /\ Trouble /\ Acknowledge(cur[w], {}) /\ UNCHANGED mishaps
       \/ ~cancelled[w] /\ Trouble /\ NotAcknowledged(w)
       \/ cancelled[w] /\ UNCHANGED troubles /\ NotAcknowledged(w)
    /\ UNCHANGED <<succeeded, dropped, reports, notices>>

Ack(w) ==
    /\ pc[w] = "ack"
    /\ AckCalls(w)
    /\ Continue(w)

NotifyUnacknowledged(w) ==
    /\ pc[w] = "ackDead"
    /\ Goto(w, "notify")
    /\ UNCHANGED <<redis, batch, cur, seen, cancelled, observed, troubles>>
AckDead(w) ==
    /\ pc[w] = "ackDead"
    /\ AckCalls(w)
    /\ Goto(w, "notify")
    /\ UNCHANGED <<batch, cur, seen, cancelled>>

\* notifyFailure: a send error is only logged.
NotifyFailure(w) ==
    /\ pc[w] = "notify"
    /\ notices' = notices \union {cur[w]} \/ UNCHANGED notices
    /\ Continue(w)
    /\ UNCHANGED <<redis, succeeded, dropped, reports, mishaps, troubles>>

----------------------------------------------------------------------------
(* Processes and time.                                                     *)

Crash(w) ==
    /\ pc[w] # "down" /\ Trouble
    /\ Gone(w)

\* SIGTERM cancels the context the worker got from serve; the job in hand, which
\* runs under a context of its own, goes on.
Sigterm(w) ==
    /\ pc[w] # "down" /\ ~cancelled[w] /\ Trouble
    /\ cancelled' = [cancelled EXCEPT ![w] = TRUE]
    /\ UNCHANGED <<redis, pc, batch, cur, seen, observed>>

\* The loop sees the cancelled context and returns; Shutdown and the process end.
WorkerStopped(w) ==
    /\ pc[w] = "top" /\ cancelled[w]
    /\ Gone(w)
    /\ UNCHANGED troubles

\* Shutdown has waited its 30 seconds: the process ends with the worker running.
ShutdownTimedOut(w) ==
    /\ pc[w] # "down" /\ cancelled[w]
    /\ Gone(w)
    /\ UNCHANGED troubles

\* NewRedisQueue in a new process.
Start(w) ==
    /\ pc[w] = "down"
    /\ Goto(w, "top")
    /\ UNCHANGED <<redis, batch, cur, seen, cancelled, observed, troubles>>

\* claimMinIdle has passed since the entry was last delivered or claimed, maybe
\* while a worker still has it in hand.
BecomeIdle(i) ==
    /\ i \in pending \ idle
    /\ idle' = idle \union {i}
    /\ mishaps' = IF Holders(i) # {} THEN mishaps \union {i} ELSE mishaps
    /\ UNCHANGED <<lastId, stream, lastDelivered, pending, deliveries, dlq>>
    /\ UNCHANGED <<workers, succeeded, dropped, reports, notices, troubles>>

----------------------------------------------------------------------------

Loop(w) ==
    \/ Reclaim(w) \/ Take(w) \/ Read(w) \/ ReadNothing(w)
    \/ Discard(w) \/ Succeed(w) \/ Fail(w) \/ Bury(w)
    \/ Ack(w) \/ AckDead(w) \/ NotifyFailure(w) \/ WorkerStopped(w)

Next ==
    \/ Enqueue
    \/ \E w \in Workers : Loop(w) \/ Crash(w) \/ Sigterm(w) \/ ShutdownTimedOut(w) \/ Start(w)
    \/ \E i \in Ids : BecomeIdle(i)

Spec == Init /\ [][Next]_vars

\* A worker's goroutine runs (its calls have timeouts), a process that ended is
\* started again by its supervisor, and time passes.  Nothing is assumed of
\* the outcome of an attempt; Redis errors, crashes and SIGTERMs are bounded.
Fairness ==
    /\ \A w \in Workers : WF_vars(Loop(w)) /\ WF_vars(Start(w))
    /\ \A i \in Ids : WF_vars(BecomeIdle(i))

FairSpec == Spec /\ Fairness

----------------------------------------------------------------------------
(* Properties.                                                             *)

Open == Waiting \union pending

\* A job the group no longer owes (neither unread nor pending) had an outcome:
\* an attempt succeeded, it is in the dead-letter stream, or it could not be
\* dispatched.  Errors, lost replies, crashes and SIGTERM between any two steps
\* of ack, moveToDLQ and the loop make no job disappear.
NoJobVanishes == (1..lastId) \ Open \subseteq succeeded \union dlq \union dropped

\* moveToDLQ happens to a job only on its maxDeliveries-th delivery: the count a
\* worker decides on is never ahead of the group's.
DeadOnlyAfterRetries == \A i \in dlq : deliveries[i] >= MaxDeliveries

\* Two workers have the same message in hand only if one of them lost it, kept
\* it beyond claimMinIdle or failed to acknowledge it.
OneHand == \A i \in Ids \ mishaps : \A v, w \in Holders(i) : v = w

\* A job is reported twice only after such a mishap.
DuplicateOnlyAfterMishap == \A i \in Ids \ mishaps : reports[i] < 2

\* notifyFailure is called for jobs in the dead-letter stream that will not be
\* delivered again, unless a mishap made them pending again.
NoticeOnlyForTheDead == \A i \in notices : i \in dlq /\ (i \in pending => i \in mishaps)

\* The queue keeps the promise of AtLeastOnce.
ALO == INSTANCE AtLeastOnce WITH
    Jobs <- Ids, submitted <- 1..lastId, open <- Open, dead <- dlq

ImplementsAtLeastOnce == ALO!Spec

\* Every job added to the stream is finally closed, whatever its attempts do,
\* once crashes, stops and Redis errors cease.
EveryJobCloses == ALO!EveryJobCloses

\* README, Queue: "A fallback failure message is sent so alerts are never
\* silently dropped": a closed job that named a scenario has been reported, or
\* its failure has, or a worker is about to.
NeverSilentlyDropped ==
    \A i \in (1..lastId) \ (Open \union dropped) :
        \/ reports[i] > 0
        \/ i \in notices
        \/ \E w \in Holders(i) : pc[w] \in {"ackDead", "notify"}
=============================================================================
