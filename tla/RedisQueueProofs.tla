-------------------------- MODULE RedisQueueProofs --------------------------
(***************************************************************************)
(* Theorems about RedisQueue, for every number of workers, jobs,           *)
(* deliveries, batches and troubles: what becomes of the jobs, that the    *)
(* queue keeps the promise of AtLeastOnce, and that a job is in one hand   *)
(* at a time and reported once as long as no worker lost it, kept it       *)
(* beyond claimMinIdle or failed to acknowledge it.                        *)
(***************************************************************************)
EXTENDS RedisQueue, TLAPS

----------------------------------------------------------------------------
(* The inductive invariant, part by part.                                  *)

Delivered == 1..lastDelivered
Busy == {"work", "bury", "ack", "ackDead", "notify"}

\* The group's bookkeeping: what was delivered is a prefix of what was added,
\* the rest of the stream is intact, and only delivered entries are pending.
GroupInv ==
    /\ lastDelivered <= lastId
    /\ \A i \in Ids : lastDelivered < i /\ i <= lastId => i \in stream
    /\ stream \subseteq 1..lastId
    /\ pending \subseteq Delivered
    /\ idle \subseteq pending
    /\ \A i \in Delivered : deliveries[i] >= 1

\* What a worker has in hand was delivered, and the place it is at tells what
\* became of it.
HandOK(w) ==
    /\ batch[w] \subseteq Delivered
    /\ IF pc[w] \in Busy THEN cur[w] \in Delivered ELSE cur[w] = NoId
    /\ pc[w] = "work" => seen[w] <= deliveries[cur[w]]
    /\ pc[w] = "bury" => deliveries[cur[w]] >= MaxDeliveries
    /\ pc[w] = "ack" => cur[w] \in succeeded \union dropped
    /\ pc[w] \in {"ackDead", "notify"} => cur[w] \in dlq

WorkerInv == \A w \in Workers : HandOK(w)

\* Outcomes belong to delivered jobs, and every job closed has one.
OutcomeInv ==
    /\ succeeded \subseteq Delivered /\ dropped \subseteq Delivered /\ dlq \subseteq Delivered
    /\ Delivered \ pending \subseteq succeeded \union dlq \union dropped
    /\ DeadOnlyAfterRetries

----------------------------------------------------------------------------
(* Type correctness.                                                       *)

LEMMA TypeInit == Init => TypeOK
  BY QueueConstants DEF Init, TypeOK, Ids, NoId, PCs

LEMMA ContinueType ==
    ASSUME TypeOK, NEW w \in Workers, Continue(w)
    PROVE  /\ pc' \in [Workers -> PCs]
           /\ batch' \in [Workers -> SUBSET Ids]
           /\ cur' \in [Workers -> Ids \union {NoId}]
           /\ seen' \in [Workers -> 0..MaxDeliveries]
           /\ cancelled' \in [Workers -> BOOLEAN]
  BY QueueConstants DEF TypeOK, Continue, Goto, PCs

LEMMA InHand ==
    ASSUME TypeOK, WorkerInv, NEW w \in Workers, pc[w] \in Busy
    PROVE  cur[w] \in Delivered /\ cur[w] \in Ids
  BY QueueConstants DEF TypeOK, WorkerInv, HandOK, Delivered, Ids

LEMMA NextIds == TypeOK /\ lastId < MaxJobs => lastId + 1 \in Ids /\ lastId + 1 \in 0..MaxJobs
  BY QueueConstants DEF TypeOK, Ids

LEMMA ClaimType ==
    ASSUME TypeOK, Claim
    PROVE  /\ Claimable \in SUBSET Ids /\ idle' \in SUBSET Ids
           /\ deliveries' \in [Ids -> 0..MaxDeliveries]
           /\ UNCHANGED <<lastId, stream, lastDelivered, pending, dlq>>
<1>1. Claimable \in SUBSET Ids /\ idle' \in SUBSET Ids
  BY DEF TypeOK, Claim, Claimable
<1>2. \A i \in Ids : Bump(deliveries[i]) \in 0..MaxDeliveries
  BY QueueConstants DEF TypeOK, Bump
<1>3. QED
  BY <1>1, <1>2 DEF Claim, TypeOK

LEMMA TypeStep == TypeOK /\ WorkerInv /\ [Next]_vars => TypeOK'
<1> SUFFICES ASSUME TypeOK, WorkerInv, [Next]_vars PROVE TypeOK'
  OBVIOUS
<1> USE QueueConstants DEF TypeOK
<1>1. CASE Enqueue
  BY <1>1, NextIds DEF Enqueue, workers, observed, redis, Trouble
<1>2. ASSUME NEW w \in Workers, Reclaim(w) PROVE TypeOK'
  BY <1>2, ClaimType DEF Reclaim, Goto, Trouble, redis, observed, PCs
<1>3. ASSUME NEW w \in Workers, Take(w) PROVE TypeOK'
  BY <1>3 DEF Take, IsLeast, Goto, Trouble, redis, observed, PCs
<1>4. ASSUME NEW w \in Workers, Read(w) PROVE TypeOK'
  <2>1. PICK i \in Ids : Deliver(i) /\ (cur' = [cur EXCEPT ![w] = i] \/ UNCHANGED cur)
    BY <1>4 DEF Read
  <2>2. /\ lastDelivered' \in 0..MaxJobs /\ pending' \in SUBSET Ids
        /\ deliveries' \in [Ids -> 0..MaxDeliveries]
        /\ cur' \in [Workers -> Ids \union {NoId}]
        /\ UNCHANGED <<lastId, stream, idle, dlq>>
    <3>1. i \in 0..MaxJobs /\ 1 \in 0..MaxDeliveries
      BY DEF Ids
    <3>2. QED
      BY <2>1, <3>1 DEF Deliver
  <2>3. QED
    BY <1>4, <2>2 DEF Read, Goto, Trouble, observed, PCs
<1>5. ASSUME NEW w \in Workers, ReadNothing(w) PROVE TypeOK'
  BY <1>5 DEF ReadNothing, Goto, Trouble, redis, observed, PCs
<1>6. ASSUME NEW w \in Workers, Discard(w) PROVE TypeOK'
  BY <1>6, InHand DEF Discard, Goto, redis, PCs, Busy
<1>7. ASSUME NEW w \in Workers, Succeed(w) PROVE TypeOK'
  BY <1>7, InHand DEF Succeed, Goto, redis, PCs, Busy
<1>8. ASSUME NEW w \in Workers, Fail(w) PROVE TypeOK'
  <2>1. CASE Exhausted(seen[w])
    BY <1>8, <2>1 DEF Fail, Goto, redis, observed, PCs
  <2>2. CASE ~Exhausted(seen[w])
    BY <1>8, <2>2, ContinueType DEF Fail, redis, observed
  <2>3. QED
    BY <2>1, <2>2
<1>9. ASSUME NEW w \in Workers, Bury(w) PROVE TypeOK'
  <2>1. dlq' \in SUBSET Ids /\ UNCHANGED <<lastId, stream, lastDelivered, pending, idle, deliveries>>
    BY <1>9, InHand DEF Bury, AddToDLQ, redis, Busy
  <2>2. CASE Continue(w)
    BY <1>9, <2>1, <2>2, ContinueType DEF Bury, Trouble, observed
  <2>3. CASE Goto(w, "ackDead") /\ UNCHANGED <<batch, cur, seen, cancelled, troubles>>
    BY <1>9, <2>1, <2>3 DEF Bury, Goto, observed, PCs
  <2>4. QED
    BY <1>9, <2>2, <2>3 DEF Bury, LeavePending
<1>10. ASSUME NEW w \in Workers, Ack(w) PROVE TypeOK'
  BY <1>10, InHand, ContinueType DEF Ack, AckCalls, Acknowledge, NotAcknowledged, Trouble, redis, Busy
<1>11. ASSUME NEW w \in Workers, AckDead(w) PROVE TypeOK'
  BY <1>11, InHand DEF AckDead, AckCalls, Acknowledge, NotAcknowledged, Goto, Trouble, redis, PCs, Busy
<1>12. ASSUME NEW w \in Workers, NotifyFailure(w) PROVE TypeOK'
  BY <1>12, InHand, ContinueType DEF NotifyFailure, redis, Busy
<1>13. ASSUME NEW w \in Workers, Gone(w), UNCHANGED troubles \/ Trouble PROVE TypeOK'
  BY <1>13 DEF Gone, Goto, Held, NoId, redis, PCs, Trouble
<1>14. ASSUME NEW w \in Workers, Sigterm(w) PROVE TypeOK'
  BY <1>14 DEF Sigterm, Trouble, redis, observed
<1>15. ASSUME NEW w \in Workers, Start(w) PROVE TypeOK'
  BY <1>15 DEF Start, Goto, redis, observed, PCs
<1>16. ASSUME NEW i \in Ids, BecomeIdle(i) PROVE TypeOK'
  BY <1>16 DEF BecomeIdle, workers
<1>17. CASE UNCHANGED vars
  BY <1>17 DEF vars, redis, workers, observed
<1>18. QED
  BY <1>1, <1>2, <1>3, <1>4, <1>5, <1>6, <1>7, <1>8, <1>9, <1>10, <1>11, <1>12, <1>13,
     <1>14, <1>15, <1>16, <1>17 DEF Next, Loop, Crash, WorkerStopped, ShutdownTimedOut

----------------------------------------------------------------------------
(* What a step can do to Redis, whoever takes it.                          *)

AddEntry ==
    /\ lastId < MaxJobs /\ lastId' = lastId + 1 /\ stream' = stream \union {lastId + 1}
    /\ UNCHANGED <<lastDelivered, pending, idle, deliveries, dlq>>

TurnIdle ==
    /\ \E i \in pending : idle' = idle \union {i}
    /\ UNCHANGED <<lastId, stream, lastDelivered, pending, deliveries, dlq>>

\* The entry acknowledged or copied is in the hand of a worker at that place.
RedisStep ==
    \/ UNCHANGED redis
    \/ AddEntry
    \/ Claim
    \/ \E i \in Ids : IsLeast(i, Waiting) /\ Deliver(i)
    \/ \E w \in Workers : pc[w] = "bury" /\ AddToDLQ(cur[w])
    \/ \E w \in Workers : \E gone \in SUBSET {cur[w]} :
         pc[w] \in {"ack", "ackDead"} /\ Acknowledge(cur[w], gone)
    \/ TurnIdle

LEMMA StepsOfRedis == [Next]_vars => RedisStep
<1> SUFFICES ASSUME [Next]_vars PROVE RedisStep
  OBVIOUS
<1> USE DEF RedisStep
<1>1. CASE Enqueue
  BY <1>1 DEF Enqueue, AddEntry
<1>2. ASSUME NEW w \in Workers, Loop(w) PROVE RedisStep
  <2>1. CASE Reclaim(w)
    BY <2>1 DEF Reclaim
  <2>2. CASE Read(w)
    BY <2>2 DEF Read
  <2>3. CASE Bury(w)
    BY <2>3 DEF Bury
  <2>4. CASE Ack(w) \/ AckDead(w)
    <3>1. {cur[w]} \in SUBSET {cur[w]} /\ {} \in SUBSET {cur[w]}
      OBVIOUS
    <3>2. QED
      BY <2>4, <3>1 DEF Ack, AckDead, AckCalls, NotAcknowledged
  <2>5. CASE \/ Take(w) \/ ReadNothing(w) \/ Discard(w) \/ Succeed(w) \/ Fail(w)
             \/ NotifyFailure(w) \/ WorkerStopped(w)
    BY <2>5 DEF Take, ReadNothing, Discard, Succeed, Fail, NotifyFailure, WorkerStopped, Gone
  <2>6. QED
    BY <1>2, <2>1, <2>2, <2>3, <2>4, <2>5 DEF Loop
<1>3. ASSUME NEW w \in Workers, Crash(w) \/ Sigterm(w) \/ ShutdownTimedOut(w) \/ Start(w)
      PROVE  RedisStep
  BY <1>3 DEF Crash, Sigterm, ShutdownTimedOut, Start, Gone
<1>4. ASSUME NEW i \in Ids, BecomeIdle(i) PROVE RedisStep
  BY <1>4 DEF BecomeIdle, TurnIdle
<1>5. CASE UNCHANGED vars
  BY <1>5 DEF vars
<1>6. QED
  BY <1>1, <1>2, <1>3, <1>4, <1>5 DEF Next

----------------------------------------------------------------------------
(* The group's bookkeeping.                                                *)

\* The entry delivered next is the one after the last one delivered.
LEMMA NextDelivered ==
    ASSUME TypeOK, GroupInv, NEW i \in Ids, IsLeast(i, Waiting)
    PROVE  i = lastDelivered + 1 /\ i <= lastId
<1>1. i \in stream /\ lastDelivered < i /\ i <= lastId
  BY QueueConstants DEF TypeOK, GroupInv, IsLeast, Waiting, Ids
<1>2. lastDelivered + 1 \in Waiting
  BY <1>1, QueueConstants DEF TypeOK, GroupInv, Waiting, Ids
<1>3. i <= lastDelivered + 1
  BY <1>2 DEF IsLeast
<1>4. QED
  BY <1>1, <1>3, QueueConstants DEF TypeOK, Ids

LEMMA GroupStep == TypeOK /\ GroupInv /\ WorkerInv /\ [Next]_vars => GroupInv'
<1> SUFFICES ASSUME TypeOK, GroupInv, WorkerInv, RedisStep PROVE GroupInv'
  BY StepsOfRedis
<1> USE QueueConstants
<1>1. CASE UNCHANGED redis
  BY <1>1 DEF GroupInv, Delivered, redis
<1>2. CASE AddEntry
  BY <1>2 DEF TypeOK, GroupInv, Delivered, AddEntry, Ids
<1>3. CASE Claim
  <2>1. \A i \in Ids : deliveries[i] >= 1 => deliveries'[i] >= 1
    BY <1>3 DEF TypeOK, Claim, Bump
  <2>2. idle' \subseteq pending /\ UNCHANGED <<lastId, stream, lastDelivered, pending>>
    BY <1>3 DEF GroupInv, Claim
  <2>3. Delivered \subseteq Ids
    BY DEF TypeOK, Delivered, Ids
  <2>4. QED
    BY <2>1, <2>2, <2>3 DEF GroupInv, Delivered
<1>4. ASSUME NEW i \in Ids, IsLeast(i, Waiting), Deliver(i) PROVE GroupInv'
  <2>1. i = lastDelivered + 1 /\ i <= lastId
    BY <1>4, NextDelivered
  <2>2. \A j \in Delivered' : deliveries'[j] >= 1
    BY <1>4, <2>1 DEF TypeOK, GroupInv, Delivered, Deliver, Ids
  <2>3. QED
    BY <1>4, <2>1, <2>2 DEF TypeOK, GroupInv, Delivered, Deliver, Ids
<1>5. ASSUME NEW w \in Workers, AddToDLQ(cur[w]) PROVE GroupInv'
  BY <1>5 DEF GroupInv, Delivered, AddToDLQ
<1>6. ASSUME NEW w \in Workers, NEW gone \in SUBSET {cur[w]},
             pc[w] \in {"ack", "ackDead"}, Acknowledge(cur[w], gone)
      PROVE  GroupInv'
  <2>1. cur[w] \in Delivered
    BY <1>6, InHand DEF Busy
  <2>2. \A j \in Ids : lastDelivered < j => j \notin gone
    BY <2>1 DEF TypeOK, Delivered, Ids
  <2>3. QED
    BY <1>6, <2>2 DEF GroupInv, Delivered, Acknowledge
<1>7. CASE TurnIdle
  BY <1>7 DEF GroupInv, Delivered, TurnIdle
<1>8. QED
  BY <1>1, <1>2, <1>3, <1>4, <1>5, <1>6, <1>7 DEF RedisStep

----------------------------------------------------------------------------
(* Outcomes.                                                               *)

\* What a step can do to the outcomes observed, whoever takes it.
OutcomeStep ==
    \/ UNCHANGED <<succeeded, dropped>>
    \/ \E w \in Workers :
         /\ pc[w] = "work" /\ UNCHANGED redis
         /\ \/ succeeded' = succeeded \union {cur[w]} /\ UNCHANGED dropped
            \/ dropped' = dropped \union {cur[w]} /\ UNCHANGED succeeded

LEMMA StepsOfOutcomes == [Next]_vars => OutcomeStep
<1> SUFFICES ASSUME [Next]_vars PROVE OutcomeStep
  OBVIOUS
<1>1. ASSUME NEW w \in Workers, Loop(w) PROVE OutcomeStep
  <2>1. CASE Succeed(w) \/ Discard(w)
    BY <2>1 DEF Succeed, Discard, OutcomeStep
  <2>2. CASE Reclaim(w) \/ Take(w) \/ Read(w) \/ ReadNothing(w) \/ Fail(w) \/ Bury(w)
    BY <2>2 DEF Reclaim, Take, Read, ReadNothing, Fail, Bury, OutcomeStep, observed
  <2>3. CASE Ack(w) \/ AckDead(w) \/ NotifyFailure(w) \/ WorkerStopped(w)
    BY <2>3 DEF Ack, AckDead, AckCalls, NotifyFailure, WorkerStopped, Gone, OutcomeStep
  <2>4. QED
    BY <1>1, <2>1, <2>2, <2>3 DEF Loop
<1>2. CASE \/ Enqueue \/ \E i \in Ids : BecomeIdle(i)
           \/ \E w \in Workers : Crash(w) \/ Sigterm(w) \/ ShutdownTimedOut(w) \/ Start(w)
           \/ UNCHANGED vars
  BY <1>2 DEF Enqueue, BecomeIdle, Crash, Sigterm, ShutdownTimedOut, Start, Gone,
     OutcomeStep, observed, vars
<1>3. QED
  BY <1>1, <1>2 DEF Next

\* Nothing the other parts rely on is ever taken back.
Monotone ==
    /\ lastDelivered <= lastDelivered'
    /\ \A i \in Delivered : deliveries[i] <= deliveries'[i]
    /\ succeeded \subseteq succeeded' /\ dropped \subseteq dropped' /\ dlq \subseteq dlq'

LEMMA StepsAreMonotone == TypeOK /\ GroupInv /\ [Next]_vars => Monotone
<1> SUFFICES ASSUME TypeOK, GroupInv, RedisStep, OutcomeStep PROVE Monotone
  BY StepsOfRedis, StepsOfOutcomes
<1> USE QueueConstants
<1>1. succeeded \subseteq succeeded' /\ dropped \subseteq dropped'
  BY DEF OutcomeStep
<1>2. dlq \subseteq dlq'
  BY DEF RedisStep, redis, AddEntry, Claim, Deliver, AddToDLQ, Acknowledge, TurnIdle
<1>3. /\ lastDelivered <= lastDelivered'
      /\ \A i \in Delivered : deliveries[i] <= deliveries'[i]
  <2>1. \A i \in Delivered : i \in Ids /\ deliveries[i] \in Nat
    BY DEF TypeOK, Delivered, Ids
  <2>2. CASE Claim
    BY <2>1, <2>2 DEF TypeOK, Claim, Bump
  <2>3. ASSUME NEW i \in Ids, IsLeast(i, Waiting), Deliver(i)
        PROVE  /\ lastDelivered <= lastDelivered'
               /\ \A j \in Delivered : deliveries[j] <= deliveries'[j]
    <3>1. i = lastDelivered + 1
      BY <2>3, NextDelivered
    <3>2. QED
      BY <2>1, <2>3, <3>1 DEF TypeOK, Deliver, Delivered
  <2>4. CASE UNCHANGED <<lastDelivered, deliveries>>
    BY <2>1, <2>4 DEF TypeOK
  <2>5. QED
    BY <2>2, <2>3, <2>4 DEF RedisStep, redis, AddEntry, AddToDLQ, Acknowledge, TurnIdle
<1>4. QED
  BY <1>1, <1>2, <1>3 DEF Monotone

LEMMA OutcomeKept ==
    TypeOK /\ GroupInv /\ WorkerInv /\ OutcomeInv /\ [Next]_vars => OutcomeInv'
<1> SUFFICES ASSUME TypeOK, GroupInv, WorkerInv, OutcomeInv, RedisStep, OutcomeStep, Monotone,
                    TypeOK'
             PROVE  OutcomeInv'
  BY StepsOfRedis, StepsOfOutcomes, StepsAreMonotone, TypeStep
<1> USE QueueConstants
<1>1. Delivered \subseteq Delivered'
  BY DEF TypeOK, Monotone, Delivered
<1>2. \A w \in Workers : pc[w] \in Busy => cur[w] \in Delivered
  BY InHand
<1>3. succeeded' \subseteq Delivered' /\ dropped' \subseteq Delivered'
  BY <1>1, <1>2 DEF OutcomeInv, OutcomeStep, Busy
<1>4. dlq' \subseteq Delivered'
  BY <1>1, <1>2 DEF OutcomeInv, RedisStep, redis, AddEntry, Claim, Deliver, AddToDLQ,
     Acknowledge, TurnIdle, Busy
<1>5. (Delivered \ pending)' \subseteq (succeeded \union dlq \union dropped)'
  <2>1. CASE UNCHANGED <<lastDelivered, pending>>
    BY <2>1 DEF OutcomeInv, Monotone, Delivered
  <2>2. ASSUME NEW i \in Ids, IsLeast(i, Waiting), Deliver(i)
        PROVE  (Delivered \ pending)' \subseteq Delivered \ pending
    BY <2>2, NextDelivered DEF TypeOK, Deliver, Delivered
  <2>3. ASSUME NEW w \in Workers, NEW gone \in SUBSET {cur[w]},
               pc[w] \in {"ack", "ackDead"}, Acknowledge(cur[w], gone)
        PROVE  (Delivered \ pending)' \subseteq (succeeded \union dlq \union dropped)'
    <3>1. cur[w] \in succeeded \union dlq \union dropped
      BY <2>3 DEF WorkerInv, HandOK
    <3>2. QED
      BY <2>3, <3>1 DEF Acknowledge, OutcomeInv, Monotone, Delivered
  <2>4. QED
    BY <2>1, <2>2, <2>3 DEF RedisStep, redis, AddEntry, Claim, AddToDLQ, TurnIdle, OutcomeInv, Monotone
<1>6. DeadOnlyAfterRetries'
  <2>1. \A i \in dlq' : i \in Delivered /\ i \in Ids /\ deliveries[i] >= MaxDeliveries
    <3>1. \A w \in Workers : pc[w] = "bury" =>
            cur[w] \in Delivered /\ deliveries[cur[w]] >= MaxDeliveries
      BY <1>2 DEF WorkerInv, HandOK, Busy
    <3>2. Delivered \subseteq Ids
      BY DEF TypeOK, Delivered, Ids
    <3>3. QED
      BY <3>1, <3>2 DEF OutcomeInv, DeadOnlyAfterRetries, RedisStep, redis, AddEntry, Claim, Deliver,
         AddToDLQ, Acknowledge, TurnIdle
  <2>2. QED
    BY <2>1 DEF DeadOnlyAfterRetries, Monotone, TypeOK
<1>7. QED
  BY <1>3, <1>4, <1>5, <1>6 DEF OutcomeInv

----------------------------------------------------------------------------
(* What the workers have in hand.                                          *)

Process(w) == Loop(w) \/ Crash(w) \/ Sigterm(w) \/ ShutdownTimedOut(w) \/ Start(w)

\* A worker's step leaves the others' hands alone.
LEMMA OthersUntouched ==
    ASSUME TypeOK, NEW w \in Workers, Process(w)
    PROVE  \A v \in Workers \ {w} :
             /\ pc'[v] = pc[v] /\ batch'[v] = batch[v] /\ cur'[v] = cur[v] /\ seen'[v] = seen[v]
<1> USE DEF TypeOK
<1>1. CASE Reclaim(w) \/ Take(w) \/ Read(w) \/ ReadNothing(w) \/ Discard(w) \/ Succeed(w)
  BY <1>1 DEF Reclaim, Take, Read, ReadNothing, Discard, Succeed, Goto
<1>2. CASE Fail(w) \/ Bury(w) \/ Ack(w) \/ AckDead(w) \/ NotifyFailure(w)
  BY <1>2 DEF Fail, Bury, LeavePending, Ack, AckDead, NotifyFailure, Continue, Goto
<1>3. CASE WorkerStopped(w) \/ Crash(w) \/ Sigterm(w) \/ ShutdownTimedOut(w) \/ Start(w)
  BY <1>3 DEF WorkerStopped, Crash, Sigterm, ShutdownTimedOut, Start, Gone, Goto
<1>4. QED
  BY <1>1, <1>2, <1>3 DEF Process, Loop

LEMMA Bystander ==
    ASSUME TypeOK, GroupInv, Monotone, NEW v \in Workers, HandOK(v), TypeOK',
           pc'[v] = pc[v], batch'[v] = batch[v], cur'[v] = cur[v], seen'[v] = seen[v]
    PROVE  HandOK(v)'
<1>1. Delivered \subseteq Delivered' /\ Delivered \subseteq Ids
  BY QueueConstants DEF TypeOK, Monotone, Delivered, Ids
<1>2. CASE pc[v] \in Busy
  <2>1. /\ cur[v] \in Delivered
        /\ deliveries[cur[v]] \in Nat /\ deliveries'[cur[v]] \in Nat /\ seen[v] \in Nat
        /\ deliveries[cur[v]] <= deliveries'[cur[v]]
    BY <1>1, <1>2 DEF HandOK, TypeOK, Monotone
  <2>2. QED
    BY <1>1, <1>2, <2>1, QueueConstants DEF HandOK, Monotone
<1>3. CASE pc[v] \notin Busy
  BY <1>1, <1>3 DEF HandOK, Busy
<1>4. QED
  BY <1>2, <1>3

\* A worker without a message in processMessage.
LEMMA EmptyHand ==
    ASSUME NEW w \in Workers, pc'[w] \notin Busy, cur'[w] = NoId, batch'[w] \subseteq Delivered'
    PROVE  HandOK(w)'
  BY DEF HandOK, Busy

LEMMA WorkerStep == TypeOK /\ GroupInv /\ WorkerInv /\ [Next]_vars => WorkerInv'
<1> SUFFICES ASSUME TypeOK, GroupInv, WorkerInv, [Next]_vars, TypeOK', Monotone PROVE WorkerInv'
  BY StepsAreMonotone, TypeStep
<1> USE QueueConstants
<1>1. Delivered \subseteq Delivered' /\ Delivered \subseteq Ids
  BY DEF TypeOK, Monotone, Delivered, Ids
<1>2. \A w \in Workers : batch[w] \subseteq Delivered /\ (pc[w] \in Busy => cur[w] \in Delivered)
  BY InHand DEF WorkerInv, HandOK
<1>3. ASSUME NEW w \in Workers, Process(w) PROVE HandOK(w)'
  <2>1. CASE Reclaim(w)
    <3>1. batch'[w] \subseteq Delivered /\ pc'[w] \in {"read", "take"} /\ cur'[w] = cur[w]
      <4>1. Claimable \subseteq Delivered
        BY DEF Claimable, GroupInv
      <4>2. batch' = [batch EXCEPT ![w] = Claimable] \/ batch' = batch
        BY <2>1 DEF Reclaim
      <4>3. QED
        BY <1>2, <2>1, <4>1, <4>2 DEF Reclaim, TypeOK, Goto
    <3>2. QED
      BY <1>1, <2>1, <3>1, EmptyHand DEF Reclaim, WorkerInv, HandOK, Busy
  <2>2. CASE Take(w)
    <3>1. PICK i \in batch[w] : cur' = [cur EXCEPT ![w] = i] /\
                 (seen'[w] = deliveries[i] \/ seen'[w] = 1)
      BY <2>2 DEF Take, TypeOK
    <3>2. i \in Delivered /\ i \in Ids /\ deliveries[i] >= 1 /\ deliveries[i] \in Nat
      BY <1>1, <1>2, <3>1 DEF GroupInv, TypeOK
    <3>3. /\ pc'[w] = "work" /\ batch'[w] = batch[w] /\ cur'[w] = i
          /\ deliveries' = deliveries
      BY <2>2, <3>1 DEF Take, TypeOK, Goto, redis
    <3>4. QED
      BY <1>1, <1>2, <3>1, <3>2, <3>3 DEF HandOK, Busy
  <2>3. CASE Read(w)
    <3>1. PICK i \in Ids : /\ Deliver(i)
                           /\ \/ /\ cur' = [cur EXCEPT ![w] = i]
                                 /\ seen' = [seen EXCEPT ![w] = 1]
                                 /\ Goto(w, "work")
                              \/ Goto(w, "top") /\ UNCHANGED cur
      BY <2>3 DEF Read
    <3>2. i \in Delivered' /\ deliveries'[i] = 1 /\ batch'[w] = batch[w]
      BY <2>3, <3>1 DEF Read, Deliver, Delivered, TypeOK, Ids
    <3>3. CASE Goto(w, "top") /\ UNCHANGED cur
      BY <1>1, <1>2, <2>3, <3>2, <3>3, EmptyHand DEF Read, Goto, TypeOK, WorkerInv, HandOK, Busy
    <3>4. CASE /\ cur' = [cur EXCEPT ![w] = i]
               /\ seen' = [seen EXCEPT ![w] = 1]
               /\ Goto(w, "work")
      <4>1. cur'[w] = i /\ seen'[w] = 1 /\ pc'[w] = "work"
        BY <3>4 DEF Goto, TypeOK
      <4>2. QED
        BY <1>1, <1>2, <3>2, <4>1 DEF HandOK, Busy
    <3>5. QED
      BY <3>1, <3>3, <3>4
  <2>4. CASE ReadNothing(w)
    BY <1>1, <1>2, <2>4, EmptyHand DEF ReadNothing, Goto, TypeOK, WorkerInv, HandOK, Busy
  <2>5. ASSUME Continue(w) PROVE HandOK(w)'
    BY <1>1, <1>2, <2>5, EmptyHand DEF Continue, Goto, TypeOK, Busy
  <2>6. ASSUME Gone(w) PROVE HandOK(w)'
    BY <2>6, EmptyHand DEF Gone, Goto, TypeOK, Busy
  <2>7. CASE Discard(w) \/ Succeed(w)
    <3>1. /\ pc'[w] = "ack" /\ cur'[w] = cur[w] /\ batch'[w] = batch[w]
          /\ cur[w] \in succeeded' \union dropped' /\ pc[w] \in Busy
      BY <2>7 DEF Discard, Succeed, Goto, TypeOK, Busy
    <3>2. QED
      BY <1>1, <1>2, <3>1 DEF HandOK, Busy
  <2>8. CASE Fail(w)
    <3>1. CASE Exhausted(seen[w])
      <4>1. /\ pc'[w] = "bury" /\ cur'[w] = cur[w] /\ batch'[w] = batch[w] /\ pc[w] = "work"
            /\ deliveries' = deliveries
        BY <2>8, <3>1 DEF Fail, Goto, TypeOK, redis
      <4>2. deliveries[cur[w]] >= MaxDeliveries
        <5>1. cur[w] \in Ids /\ seen[w] <= deliveries[cur[w]]
          BY <1>1, <1>2, <4>1 DEF WorkerInv, HandOK, Busy
        <5>2. deliveries[cur[w]] \in Nat /\ seen[w] \in Nat
          BY <5>1 DEF TypeOK
        <5>3. QED
          BY <3>1, <5>1, <5>2 DEF Exhausted
      <4>3. QED
        BY <1>1, <1>2, <4>1, <4>2 DEF HandOK, Busy
    <3>2. QED
      BY <2>5, <2>8, <3>1 DEF Fail
  <2>9. CASE Bury(w) \/ AckDead(w)
    <3>1. CASE Continue(w)
      BY <2>5, <3>1
    <3>2. CASE ~Continue(w)
      <4>1. /\ pc'[w] \in {"ackDead", "notify"} /\ cur'[w] = cur[w] /\ batch'[w] = batch[w]
            /\ pc[w] \in Busy /\ cur[w] \in dlq'
        BY <2>9, <3>2 DEF Bury, LeavePending, AddToDLQ, AckDead, Goto, TypeOK, Busy, WorkerInv,
           HandOK, Monotone
      <4>2. QED
        BY <1>1, <1>2, <4>1 DEF HandOK, Busy
    <3>3. QED
      BY <3>1, <3>2
  <2>10. CASE Ack(w) \/ NotifyFailure(w)
    BY <2>5, <2>10 DEF Ack, NotifyFailure
  <2>11. CASE WorkerStopped(w) \/ Crash(w) \/ ShutdownTimedOut(w)
    BY <2>6, <2>11 DEF WorkerStopped, Crash, ShutdownTimedOut
  <2>12. CASE Sigterm(w)
    BY <2>12, Bystander DEF Sigterm, WorkerInv
  <2>13. CASE Start(w)
    BY <1>1, <1>2, <2>13, EmptyHand DEF Start, Goto, TypeOK, WorkerInv, HandOK, Busy
  <2>14. QED
    BY <1>3, <2>1, <2>2, <2>3, <2>4, <2>7, <2>8, <2>9, <2>10, <2>11, <2>12, <2>13
       DEF Process, Loop
<1>4. ASSUME NEW w \in Workers, Process(w) PROVE WorkerInv'
  BY <1>3, <1>4, OthersUntouched, Bystander DEF WorkerInv
<1>5. CASE Enqueue \/ (\E i \in Ids : BecomeIdle(i)) \/ UNCHANGED vars
  <2>1. UNCHANGED workers
    BY <1>5 DEF Enqueue, BecomeIdle, vars, workers
  <2>2. QED
    BY <2>1, Bystander DEF workers, WorkerInv
<1>6. QED
  BY <1>4, <1>5 DEF Next, Process

----------------------------------------------------------------------------
(* The delivery half of the invariant, and what follows from it.           *)

DeliveryInv == TypeOK /\ GroupInv /\ WorkerInv /\ OutcomeInv

LEMMA DeliveryInit == Init => DeliveryInv
<1> SUFFICES ASSUME Init PROVE DeliveryInv
  OBVIOUS
<1>1. TypeOK
  BY TypeInit
<1>2. Delivered = {}
  BY DEF Init, Delivered
<1>3. GroupInv
  BY <1>2, QueueConstants DEF Init, GroupInv, Ids
<1>4. WorkerInv
  BY DEF Init, WorkerInv, HandOK, Busy
<1>5. OutcomeInv
  BY <1>2 DEF Init, OutcomeInv, DeadOnlyAfterRetries
<1>6. QED
  BY <1>1, <1>3, <1>4, <1>5 DEF DeliveryInv

LEMMA DeliveryStep == DeliveryInv /\ [Next]_vars => DeliveryInv'
  BY TypeStep, GroupStep, WorkerStep, OutcomeKept DEF DeliveryInv

LEMMA DeliveryAlways == Spec => []DeliveryInv
  BY DeliveryInit, DeliveryStep, PTL DEF Spec

LEMMA NothingVanishes == DeliveryInv => NoJobVanishes
  BY QueueConstants DEF DeliveryInv, NoJobVanishes, Open, Waiting, GroupInv, OutcomeInv, Delivered,
     TypeOK, Ids

\* No job disappears without an outcome, wherever Redis errors, crashes and
\* SIGTERM strike in redis.go's loop, ack and moveToDLQ.
THEOREM JobsDoNotVanish == Spec => []NoJobVanishes
  BY NothingVanishes, DeliveryAlways, PTL

\* Only the maxDeliveries-th delivery of a job can send it to the dead letters.
THEOREM DeadAfterRetries == Spec => []DeadOnlyAfterRetries
<1>1. DeliveryInv => DeadOnlyAfterRetries
  BY DEF DeliveryInv, OutcomeInv
<1>2. QED
  BY <1>1, DeliveryAlways, PTL

----------------------------------------------------------------------------
(* The queue implements AtLeastOnce: RedisStep and OutcomeStep map to its  *)
(* actions or to a stutter.                                                *)

Abstract == <<1..lastId, Open, succeeded, dlq, dropped>>

LEMMA WaitingIsTheRest == DeliveryInv => Waiting = (lastDelivered + 1)..lastId
<1> SUFFICES ASSUME DeliveryInv PROVE Waiting = (lastDelivered + 1)..lastId
  OBVIOUS
<1> USE QueueConstants
<1>1. lastDelivered \in Nat /\ lastId \in Nat /\ lastId <= MaxJobs
  BY DEF DeliveryInv, TypeOK
<1>2. ASSUME NEW i \in Waiting PROVE i \in (lastDelivered + 1)..lastId
  <2>1. i \in 1..lastId /\ lastDelivered < i
    BY <1>1, <1>2 DEF DeliveryInv, Waiting, GroupInv
  <2>2. QED
    BY <1>1, <2>1
<1>3. \A i \in (lastDelivered + 1)..lastId : i \in Waiting
  BY <1>1 DEF DeliveryInv, Waiting, GroupInv, Ids
<1>4. QED
  BY <1>2, <1>3

LEMMA OpenIs == DeliveryInv => Open = ((lastDelivered + 1)..lastId) \union pending
  BY WaitingIsTheRest DEF Open

LEMMA RefineInit == Init => ALO!Init
  BY DEF Init, ALO!Init, Open, Waiting

LEMMA RefineStep == DeliveryInv /\ DeliveryInv' /\ [Next]_vars => [ALO!Next]_(ALO!vars)
<1> SUFFICES ASSUME DeliveryInv, DeliveryInv', RedisStep, OutcomeStep
             PROVE  ALO!Next \/ UNCHANGED Abstract
  BY StepsOfRedis, StepsOfOutcomes DEF ALO!vars, Abstract
<1> USE QueueConstants
<1>0. (DeliveryInv => Open = ((lastDelivered + 1)..lastId) \union pending)'
  BY OpenIs, PTL
<1>1. /\ lastId \in 0..MaxJobs /\ lastDelivered \in 0..MaxJobs /\ lastDelivered <= lastId
      /\ lastId' \in 0..MaxJobs /\ lastDelivered' \in 0..MaxJobs
      /\ Open = ((lastDelivered + 1)..lastId) \union pending
      /\ Open' = ((lastDelivered' + 1)..lastId') \union pending'
  BY OpenIs, <1>0 DEF DeliveryInv, GroupInv, TypeOK
<1>2. \A w \in Workers : pc[w] \in Busy => cur[w] \in Ids /\ cur[w] \in 1..lastId
  BY <1>1, InHand DEF DeliveryInv, Delivered
<1>3. CASE UNCHANGED <<succeeded, dropped>>
  <2>1. CASE UNCHANGED redis
    BY <1>3, <2>1 DEF redis, Abstract, Open, Waiting
  <2>2. CASE AddEntry
    <3>1. lastId + 1 \in Ids /\ lastId + 1 \notin 1..lastId
      BY <1>1, <2>2 DEF AddEntry, Ids
    <3>2. (1..lastId)' = (1..lastId) \union {lastId + 1} /\ Open' = Open \union {lastId + 1}
      BY <1>1, <2>2 DEF AddEntry
    <3>3. ALO!Submit(lastId + 1)
      BY <1>3, <2>2, <3>1, <3>2 DEF ALO!Submit, AddEntry
    <3>4. QED
      BY <3>1, <3>3 DEF ALO!Next
  <2>3. CASE Claim \/ TurnIdle
    BY <1>3, <2>3 DEF Claim, TurnIdle, Abstract, Open, Waiting
  <2>4. ASSUME NEW i \in Ids, IsLeast(i, Waiting), Deliver(i) PROVE UNCHANGED Abstract
    <3>1. i = lastDelivered + 1 /\ i <= lastId
      BY <2>4, NextDelivered DEF DeliveryInv
    <3>2. Open' = Open
      BY <1>1, <2>4, <3>1 DEF Deliver
    <3>3. QED
      BY <1>3, <2>4, <3>2 DEF Deliver, Abstract
  <2>5. ASSUME NEW w \in Workers, pc[w] = "bury", AddToDLQ(cur[w]) PROVE ALO!Next
    <3>1. ALO!Bury(cur[w])
      BY <1>2, <1>3, <2>5 DEF ALO!Bury, AddToDLQ, Open, Waiting, Busy
    <3>2. QED
      BY <1>2, <2>5, <3>1 DEF ALO!Next, Busy
  <2>6. ASSUME NEW w \in Workers, NEW gone \in SUBSET {cur[w]},
               pc[w] \in {"ack", "ackDead"}, Acknowledge(cur[w], gone)
        PROVE  ALO!Next \/ UNCHANGED Abstract
    <3>1. cur[w] \in Ids /\ cur[w] \in Delivered /\ cur[w] \in succeeded \union dlq \union dropped
      BY <1>2, <2>6, InHand DEF DeliveryInv, WorkerInv, HandOK, Busy
    <3>2. Open' = Open \ {cur[w]}
      BY <1>1, <2>6, <3>1 DEF Acknowledge, Delivered
    <3>3. CASE cur[w] \in Open
      <4>1. ALO!Close(cur[w])
        BY <1>3, <2>6, <3>1, <3>2, <3>3 DEF ALO!Close, Acknowledge
      <4>2. QED
        BY <3>1, <4>1 DEF ALO!Next
    <3>4. CASE cur[w] \notin Open
      BY <1>3, <2>6, <3>2, <3>4 DEF Acknowledge, Abstract
    <3>5. QED
      BY <3>3, <3>4
  <2>7. QED
    BY <2>1, <2>2, <2>3, <2>4, <2>5, <2>6 DEF RedisStep
<1>4. ASSUME NEW w \in Workers, pc[w] = "work", UNCHANGED redis,
             \/ succeeded' = succeeded \union {cur[w]} /\ UNCHANGED dropped
             \/ dropped' = dropped \union {cur[w]} /\ UNCHANGED succeeded
      PROVE  ALO!Next
  <2>1. UNCHANGED <<lastId, Open, dlq>>
    BY <1>4 DEF redis, Open, Waiting
  <2>2. ALO!Succeed(cur[w]) \/ ALO!Drop(cur[w])
    BY <1>2, <1>4, <2>1 DEF ALO!Succeed, ALO!Drop, Busy
  <2>3. QED
    BY <1>2, <1>4, <2>2 DEF ALO!Next, Busy
<1>5. QED
  BY <1>3, <1>4 DEF OutcomeStep

\* RedisQueue, with its retries, dead letters, failures and restarts, keeps the
\* safety half of the at-least-once promise.
THEOREM QueueImplementsAtLeastOnce == Spec => ImplementsAtLeastOnce
  BY RefineInit, RefineStep, DeliveryAlways, PTL DEF Spec, ImplementsAtLeastOnce, ALO!Spec

----------------------------------------------------------------------------
(* One job, one hand, one report.                                          *)

\* A job without mishap is in at most one hand, and while it is there it is
\* pending and not idle, except between the acknowledgement of a dead job and
\* its notice.
HandInv ==
    \A i \in Ids \ mishaps :
        /\ \A v, w \in Workers : i \in Held(v) /\ i \in Held(w) => v = w
        /\ \A w \in Workers : i \in Held(w) =>
              i \notin idle /\ (i \in pending <=> ~(cur[w] = i /\ pc[w] = "notify"))

\* Such a job, once reported, is in the hand that will acknowledge it or no
\* longer pending: no worker will come to report it again.
ReportInv ==
    \A i \in Ids \ mishaps :
        /\ reports[i] > 0 => i \in succeeded
        /\ reports[i] < 2
        /\ reports[i] > 0 /\ i \in pending => \E w \in Workers : cur[w] = i /\ pc[w] = "ack"

\* A notice is for a dead job, which without mishap is no longer pending.
NoticeInv ==
    /\ notices \subseteq dlq
    /\ \A i \in notices \ mishaps : i \notin pending

CareInv == DeliveryInv /\ HandInv /\ ReportInv /\ NoticeInv

----------------------------------------------------------------------------
(* What the steps have in common.                                          *)

LEMMA HandInit == Init => HandInv /\ ReportInv /\ NoticeInv
<1> SUFFICES ASSUME Init PROVE HandInv /\ ReportInv /\ NoticeInv
  OBVIOUS
<1>1. \A w \in Workers : Held(w) = {}
  BY DEF Init, Held
<1> QED BY <1>1 DEF Init, HandInv, ReportInv, NoticeInv

\* Nothing takes a mishap back.
LEMMA MishapsGrow == ASSUME [Next]_vars PROVE mishaps \subseteq mishaps'
<1>1. ASSUME NEW w \in Workers, Loop(w) PROVE mishaps \subseteq mishaps'
  <2>1. CASE Reclaim(w) \/ Take(w) \/ Read(w) \/ ReadNothing(w) \/ Fail(w) \/ Bury(w)
    BY <2>1 DEF Reclaim, Take, Read, ReadNothing, Fail, Bury, observed
  <2>2. CASE Discard(w) \/ Succeed(w) \/ NotifyFailure(w) \/ WorkerStopped(w)
    BY <2>2 DEF Discard, Succeed, NotifyFailure, WorkerStopped, Gone
  <2>3. CASE Ack(w) \/ AckDead(w)
    BY <2>3 DEF Ack, AckDead, AckCalls, NotAcknowledged
  <2> QED BY <1>1, <2>1, <2>2, <2>3 DEF Loop
<1>2. CASE \/ Enqueue \/ \E i \in Ids : BecomeIdle(i)
           \/ \E w \in Workers : Crash(w) \/ Sigterm(w) \/ ShutdownTimedOut(w) \/ Start(w)
           \/ UNCHANGED vars
  BY <1>2 DEF Enqueue, BecomeIdle, Crash, Sigterm, ShutdownTimedOut, Start, Gone,
     observed, vars
<1> QED BY <1>1, <1>2 DEF Next

\* The worker puts down the message it was at.
LEMMA PutsDown ==
    ASSUME TypeOK, NEW w \in Workers, Continue(w)
    PROVE  /\ Held(w)' \subseteq Held(w) \ {cur[w]}
           /\ cur'[w] = NoId /\ pc'[w] \in {"top", "take", "read"}
  BY DEF TypeOK, Continue, Goto, Held

LEMMA HeldIds ==
    ASSUME TypeOK, NEW w \in Workers
    PROVE  /\ Held(w) \subseteq Ids
           /\ \A i \in Ids : cur[w] = i => i \in Held(w)
  BY QueueConstants DEF TypeOK, Held, Ids, NoId

\* The other workers hold what they held.
OthersKeep(w) ==
    \A v \in Workers \ {w} :
        Held(v)' = Held(v) /\ cur'[v] = cur[v] /\ pc'[v] = pc[v]

LEMMA OthersDo ==
    ASSUME TypeOK, NEW w \in Workers, Process(w)
    PROVE  OthersKeep(w)
  BY OthersUntouched DEF OthersKeep, Held

\* Worker w takes a step at which no job comes into its hand or leaves the
\* pending list.
Quiet(w) ==
    /\ pending' = pending /\ idle' \subseteq idle
    /\ OthersKeep(w)
    /\ Held(w)' \subseteq Held(w)
    /\ \A i \in Held(w)' : ~(cur[w] = i /\ pc[w] = "notify")
    /\ \A i \in Held(w)' : ~(cur'[w] = i /\ pc'[w] = "notify")

LEMMA QuietHands ==
    ASSUME TypeOK, HandInv, mishaps \subseteq mishaps', NEW w \in Workers, Quiet(w)
    PROVE  HandInv'
<1> SUFFICES ASSUME NEW i \in Ids \ mishaps
             PROVE  /\ \A u, v \in Workers : i \in Held(u)' /\ i \in Held(v)' => u = v
                    /\ \A v \in Workers : i \in Held(v)' =>
                          i \notin idle' /\ (i \in pending' <=> ~(cur'[v] = i /\ pc'[v] = "notify"))
  BY DEF HandInv
<1>1. \A v \in Workers : Held(v)' \subseteq Held(v)
  BY DEF Quiet, OthersKeep
<1>2. \A u, v \in Workers : i \in Held(u)' /\ i \in Held(v)' => u = v
  BY <1>1 DEF HandInv
<1>3. ASSUME NEW v \in Workers, i \in Held(v)'
      PROVE  i \notin idle' /\ (i \in pending' <=> ~(cur'[v] = i /\ pc'[v] = "notify"))
  <2>1. i \notin idle /\ (i \in pending <=> ~(cur[v] = i /\ pc[v] = "notify"))
    BY <1>1, <1>3 DEF HandInv
  <2> QED BY <2>1, <1>3 DEF Quiet, OthersKeep
<1> QED BY <1>2, <1>3

\* And one that reports nothing and was not about to acknowledge.
LEMMA QuietReports ==
    ASSUME ReportInv, mishaps \subseteq mishaps', succeeded \subseteq succeeded',
           reports' = reports, pending' \subseteq pending,
           NEW w \in Workers, OthersKeep(w), pc[w] # "ack"
    PROVE  ReportInv'
<1> SUFFICES ASSUME NEW i \in Ids \ mishaps
             PROVE  /\ reports[i] > 0 => i \in succeeded'
                    /\ reports[i] < 2
                    /\ reports[i] > 0 /\ i \in pending'
                          => \E v \in Workers : cur'[v] = i /\ pc'[v] = "ack"
  BY DEF ReportInv
<1> QED BY DEF ReportInv, OthersKeep

----------------------------------------------------------------------------
(* One job, one hand.                                                      *)

LEMMA QuietSteps ==
    ASSUME DeliveryInv, NEW w \in Workers,
           \/ Take(w) \/ ReadNothing(w) \/ Discard(w) \/ Succeed(w) \/ Fail(w) \/ Bury(w)
           \/ NotifyFailure(w) \/ Gone(w) \/ Start(w),
           OthersKeep(w)
    PROVE  Quiet(w)
<1> USE DEF DeliveryInv
<1>1. CASE Take(w)
  <2>1. PICK i \in batch[w] : cur' = [cur EXCEPT ![w] = i]
    BY <1>1 DEF Take
  <2>2. pc[w] = "take" /\ pc'[w] = "work" /\ Held(w)' \subseteq Held(w) /\ UNCHANGED redis
    BY <1>1, <2>1 DEF Take, TypeOK, Goto, Held
  <2> QED BY <2>2 DEF Quiet, redis
<1>2. CASE ReadNothing(w) \/ Discard(w) \/ Succeed(w) \/ Start(w)
  <2>1. /\ pc[w] \notin {"notify"} /\ pc'[w] \notin {"notify"}
        /\ Held(w)' = Held(w) /\ UNCHANGED redis
    BY <1>2 DEF ReadNothing, Discard, Succeed, Start, TypeOK, Goto, Held
  <2> QED BY <2>1 DEF Quiet, redis
<1>3. ASSUME Continue(w), UNCHANGED <<pending, idle>> PROVE Quiet(w)
  BY <1>3, PutsDown DEF Quiet
<1>4. CASE Fail(w) \/ Bury(w)
  <2>1. CASE Continue(w)
    BY <1>3, <1>4, <2>1 DEF Fail, Bury, AddToDLQ, redis
  <2>2. CASE ~Continue(w)
    <3>1. /\ pc[w] \in {"work", "bury"} /\ pc'[w] \in {"bury", "ackDead"}
          /\ Held(w)' = Held(w) /\ UNCHANGED <<pending, idle>>
      BY <1>4, <2>2 DEF Fail, Bury, LeavePending, AddToDLQ, TypeOK, Goto, Held, redis
    <3> QED BY <3>1 DEF Quiet
  <2> QED BY <2>1, <2>2
<1>5. CASE NotifyFailure(w)
  BY <1>3, <1>5 DEF NotifyFailure, redis
<1>6. CASE Gone(w)
  <2>1. Held(w)' = {} /\ UNCHANGED redis
    BY <1>6 DEF Gone, TypeOK, Held
  <2> QED BY <2>1 DEF Quiet, redis
<1> QED BY <1>1, <1>2, <1>4, <1>5, <1>6

LEMMA ReclaimHands ==
    ASSUME DeliveryInv, HandInv, mishaps \subseteq mishaps', NEW w \in Workers,
           Reclaim(w), OthersKeep(w)
    PROVE  HandInv'
<1> USE DEF DeliveryInv
<1>1. /\ pc[w] = "top" /\ pc'[w] \in {"read", "take"} /\ cur' = cur /\ cur[w] = NoId
      /\ pending' = pending /\ idle' \subseteq idle
  BY DEF Reclaim, Claim, TypeOK, Goto, redis, WorkerInv, HandOK, Busy
<1>2. CASE UNCHANGED batch
  <2>1. Held(w)' = Held(w)
    BY <1>1, <1>2 DEF Held
  <2>2. Quiet(w)
    BY <1>1, <2>1 DEF Quiet
  <2> QED BY <2>2, QuietHands
<1>3. CASE Claim /\ batch' = [batch EXCEPT ![w] = Claimable]
  <2>1. Held(w)' \subseteq Claimable /\ Claimable \subseteq idle /\ idle' = idle \ Claimable
    BY <1>1, <1>3 DEF Held, TypeOK, Claim, Claimable
  <2>2. idle \subseteq pending
    BY DEF GroupInv
  <2> SUFFICES ASSUME NEW i \in Ids \ mishaps
               PROVE  /\ \A u, v \in Workers : i \in Held(u)' /\ i \in Held(v)' => u = v
                      /\ \A v \in Workers : i \in Held(v)' =>
                            i \notin idle' /\ (i \in pending' <=> ~(cur'[v] = i /\ pc'[v] = "notify"))
    BY DEF HandInv
  <2>3. CASE i \in Claimable
    <3>1. \A v \in Workers : i \in Held(v)' => v = w
      BY <2>1, <2>3 DEF HandInv, OthersKeep
    <3> QED BY <1>1, <2>1, <2>2, <2>3, <3>1
  <2>4. CASE i \notin Claimable
    <3>1. \A v \in Workers : i \in Held(v)' =>
             v # w /\ i \in Held(v) /\ cur'[v] = cur[v] /\ pc'[v] = pc[v]
      BY <2>1, <2>4 DEF OthersKeep
    <3> QED BY <1>1, <2>1, <3>1 DEF HandInv
  <2> QED BY <2>3, <2>4
<1> QED BY <1>2, <1>3 DEF Reclaim

\* An entry delivered for the first time has never been in a hand.
LEMMA ReadIsNew ==
    ASSUME DeliveryInv, NEW i \in Ids, IsLeast(i, Waiting)
    PROVE  /\ i \notin idle /\ i \notin succeeded /\ i \notin dlq
           /\ \A w \in Workers : i \notin Held(w)
<1>1. i \notin Delivered
  BY NextDelivered DEF DeliveryInv, Delivered, TypeOK
<1>2. \A w \in Workers : Held(w) \subseteq Delivered
  BY DEF DeliveryInv, WorkerInv, HandOK, Held
<1> QED BY <1>1, <1>2 DEF DeliveryInv, GroupInv, OutcomeInv

LEMMA ReadHands ==
    ASSUME DeliveryInv, HandInv, mishaps \subseteq mishaps', NEW w \in Workers,
           Read(w), OthersKeep(w)
    PROVE  HandInv'
<1> USE DEF DeliveryInv
<1>1. PICK i \in Ids : /\ IsLeast(i, Waiting) /\ Deliver(i)
                       /\ \/ cur' = [cur EXCEPT ![w] = i] /\ pc'[w] = "work"
                          \/ UNCHANGED cur /\ pc'[w] = "top"
  BY DEF Read, Goto, TypeOK
<1>2. /\ i \notin idle /\ \A v \in Workers : i \notin Held(v)
      /\ pending' = pending \union {i} /\ idle' = idle
  BY <1>1, ReadIsNew DEF Deliver
<1>3. Held(w)' \subseteq Held(w) \union {i} /\ pc[w] = "read" /\ pc'[w] # "notify"
  BY <1>1 DEF Read, Held, TypeOK
<1> SUFFICES ASSUME NEW j \in Ids \ mishaps
             PROVE  /\ \A u, v \in Workers : j \in Held(u)' /\ j \in Held(v)' => u = v
                    /\ \A v \in Workers : j \in Held(v)' =>
                          j \notin idle' /\ (j \in pending' <=> ~(cur'[v] = j /\ pc'[v] = "notify"))
  BY DEF HandInv
<1>4. CASE j = i
  <2>1. \A v \in Workers : j \in Held(v)' => v = w
    BY <1>2, <1>4 DEF OthersKeep
  <2> QED BY <1>2, <1>3, <1>4, <2>1
<1>5. CASE j # i
  <2>1. \A v \in Workers : j \in Held(v)' => j \in Held(v)
    BY <1>3, <1>5 DEF OthersKeep
  <2> QED BY <1>2, <1>3, <1>5, <2>1 DEF HandInv, OthersKeep
<1> QED BY <1>4, <1>5

\* Acknowledging takes one job off the list and out of the hands that would
\* give it to another worker.
LEMMA AckHands ==
    ASSUME DeliveryInv, HandInv, mishaps \subseteq mishaps', NEW w \in Workers,
           Ack(w) \/ AckDead(w), OthersKeep(w)
    PROVE  HandInv'
<1> USE DEF DeliveryInv
<1>1. pc[w] \in {"ack", "ackDead"} /\ AckCalls(w)
  BY DEF Ack, AckDead
<1>2. /\ \A i \in Held(w)' \ {cur[w]} : i \in Held(w) /\ cur'[w] # i
      /\ cur[w] \in Held(w)' => cur'[w] = cur[w] /\ pc'[w] = "notify"
  <2>1. CASE Ack(w)
    BY <2>1, PutsDown DEF Ack, TypeOK, Continue, Held
  <2>2. CASE AckDead(w)
    BY <2>2 DEF AckDead, TypeOK, Goto, Held
  <2> QED BY <2>1, <2>2
<1> SUFFICES ASSUME NEW i \in Ids \ mishaps'
             PROVE  /\ \A u, v \in Workers : i \in Held(u)' /\ i \in Held(v)' => u = v
                    /\ \A v \in Workers : i \in Held(v)' =>
                          i \notin idle' /\ (i \in pending' <=> ~(cur'[v] = i /\ pc'[v] = "notify"))
  BY DEF HandInv
<1>3. CASE i = cur[w]
  <2>1. pending' = pending \ {i} /\ idle' = idle \ {i}
    BY <1>1, <1>3 DEF AckCalls, Acknowledge, NotAcknowledged
  <2>2. \A v \in Workers : i \in Held(v)' => v = w
    BY <1>3, HeldIds DEF HandInv, OthersKeep
  <2> QED BY <1>2, <1>3, <2>1, <2>2
<1>4. CASE i # cur[w]
  <2>1. (i \in pending' <=> i \in pending) /\ (i \in idle' => i \in idle)
    BY <1>1, <1>4 DEF AckCalls, Acknowledge, NotAcknowledged, redis
  <2>2. \A v \in Workers : i \in Held(v)' => i \in Held(v)
    BY <1>2, <1>4 DEF OthersKeep
  <2>3. \A u, v \in Workers : i \in Held(u)' /\ i \in Held(v)' => u = v
    BY <2>2 DEF HandInv
  <2>4. ASSUME NEW v \in Workers, i \in Held(v)'
        PROVE  i \notin idle' /\ (i \in pending' <=> ~(cur'[v] = i /\ pc'[v] = "notify"))
    <3>1. i \notin idle /\ (i \in pending <=> ~(cur[v] = i /\ pc[v] = "notify"))
      BY <2>2, <2>4 DEF HandInv
    <3>2. CASE v = w
      BY <1>1, <1>2, <1>4, <2>1, <2>4, <3>1, <3>2
    <3>3. CASE v # w
      BY <2>1, <3>1, <3>3 DEF OthersKeep
    <3> QED BY <3>2, <3>3
  <2> QED BY <2>3, <2>4
<1> QED BY <1>3, <1>4

LEMMA HandStep == DeliveryInv /\ HandInv /\ [Next]_vars => HandInv'
<1> SUFFICES ASSUME DeliveryInv, HandInv, [Next]_vars, mishaps \subseteq mishaps' PROVE HandInv'
  BY MishapsGrow
<1>1. ASSUME NEW w \in Workers, Process(w) PROVE HandInv'
  <2>1. OthersKeep(w)
    BY <1>1, OthersDo DEF DeliveryInv
  <2>2. CASE Reclaim(w)
    BY <2>1, <2>2, ReclaimHands
  <2>3. CASE Read(w)
    BY <2>1, <2>3, ReadHands
  <2>4. CASE Ack(w) \/ AckDead(w)
    BY <2>1, <2>4, AckHands
  <2>5. CASE Sigterm(w)
    BY <2>5 DEF Sigterm, redis, HandInv, Held
  <2>6. CASE \/ Take(w) \/ ReadNothing(w) \/ Discard(w) \/ Succeed(w) \/ Fail(w) \/ Bury(w)
             \/ NotifyFailure(w) \/ WorkerStopped(w) \/ Crash(w) \/ ShutdownTimedOut(w)
             \/ Start(w)
    BY <2>1, <2>6, QuietSteps, QuietHands DEF DeliveryInv, WorkerStopped, Crash, ShutdownTimedOut
  <2> QED BY <1>1, <2>2, <2>3, <2>4, <2>5, <2>6 DEF Process, Loop
<1>2. CASE Enqueue \/ UNCHANGED vars
  BY <1>2 DEF Enqueue, vars, redis, workers, observed, HandInv, Held
<1>3. ASSUME NEW i \in Ids, BecomeIdle(i) PROVE HandInv'
  <2>1. /\ \A w \in Workers : Held(w)' = Held(w) /\ cur'[w] = cur[w] /\ pc'[w] = pc[w]
        /\ pending' = pending /\ idle' = idle \union {i}
        /\ (\E w \in Workers : i \in Held(w)) => i \in mishaps'
    BY <1>3 DEF BecomeIdle, workers, Held, Holders
  <2> QED BY <2>1 DEF HandInv
<1> QED BY <1>1, <1>2, <1>3 DEF Next, Process

----------------------------------------------------------------------------
(* One job, one report.                                                    *)

LEMMA ReportStep == DeliveryInv /\ HandInv /\ ReportInv /\ [Next]_vars => ReportInv'
<1> SUFFICES ASSUME DeliveryInv, HandInv, ReportInv, [Next]_vars, mishaps \subseteq mishaps',
                    Monotone
             PROVE  ReportInv'
  BY MishapsGrow, StepsAreMonotone DEF DeliveryInv
<1> USE DEF DeliveryInv
<1>1. ASSUME NEW w \in Workers, Process(w) PROVE ReportInv'
  <2>1. OthersKeep(w) /\ succeeded \subseteq succeeded'
    BY <1>1, OthersDo DEF Monotone
  <2>2. CASE Succeed(w)
    <3>1. /\ cur[w] \in Ids /\ cur[w] \in Held(w) /\ pc[w] = "work"
          /\ cur'[w] = cur[w] /\ pc'[w] = "ack"
          /\ succeeded' = succeeded \union {cur[w]} /\ pending' = pending
          /\ \A j \in Ids : j # cur[w] => reports'[j] = reports[j]
      BY <2>2, InHand, HeldIds DEF Succeed, Busy, TypeOK, Goto, redis
    <3>2. cur[w] \notin mishaps => reports[cur[w]] = 0
      <4> SUFFICES ASSUME cur[w] \notin mishaps, reports[cur[w]] # 0 PROVE FALSE
        OBVIOUS
      <4>1. reports[cur[w]] > 0 /\ cur[w] \in pending
        BY <3>1 DEF TypeOK, HandInv
      <4>2. PICK v \in Workers : cur[v] = cur[w] /\ pc[v] = "ack"
        BY <3>1, <4>1 DEF ReportInv
      <4> QED BY <3>1, <4>2, HeldIds DEF HandInv
    <3>3. cur[w] \notin mishaps => reports'[cur[w]] < 2
      BY <2>2, <3>1, <3>2 DEF Succeed, TypeOK
    <3>4. ASSUME NEW i \in Ids \ mishaps
          PROVE  /\ reports'[i] > 0 => i \in succeeded'
                 /\ reports'[i] < 2
                 /\ reports'[i] > 0 /\ i \in pending'
                       => \E v \in Workers : cur'[v] = i /\ pc'[v] = "ack"
      <4>1. CASE i = cur[w]
        BY <3>1, <3>3, <4>1
      <4>2. CASE i # cur[w]
        BY <2>1, <3>1, <4>2 DEF ReportInv, OthersKeep
      <4> QED BY <4>1, <4>2
    <3> QED BY <3>4 DEF ReportInv
  <2>3. CASE Read(w)
    <3>1. PICK i \in Ids : IsLeast(i, Waiting) /\ Deliver(i)
      BY <2>3 DEF Read
    <3>2. /\ i \notin succeeded /\ pending' = pending \union {i}
          /\ reports' = reports /\ pc[w] = "read"
      BY <2>3, <3>1, ReadIsNew DEF Read, Deliver, observed
    <3> QED BY <2>1, <3>2 DEF ReportInv, OthersKeep
  <2>4. CASE Ack(w)
    <3>1. /\ reports' = reports /\ pending' \subseteq pending
          /\ cur[w] \in pending' => cur[w] \in mishaps'
      BY <2>4 DEF Ack, AckCalls, Acknowledge, NotAcknowledged, redis
    <3> QED BY <2>1, <3>1 DEF ReportInv, OthersKeep
  <2>5. CASE WorkerStopped(w) \/ Crash(w) \/ ShutdownTimedOut(w)
    <3>1. /\ reports' = reports /\ pending' = pending
          /\ \A i \in Ids : cur[w] = i => i \in mishaps'
      BY <2>5, HeldIds DEF WorkerStopped, Crash, ShutdownTimedOut, Gone, redis
    <3> QED BY <2>1, <3>1 DEF ReportInv, OthersKeep
  <2>6. CASE Sigterm(w)
    BY <2>6 DEF Sigterm, redis, observed, ReportInv
  <2>7. CASE \/ Reclaim(w) \/ Take(w) \/ ReadNothing(w) \/ Discard(w) \/ Fail(w) \/ Bury(w)
             \/ AckDead(w) \/ NotifyFailure(w) \/ Start(w)
    <3>1. reports' = reports /\ pending' \subseteq pending /\ pc[w] # "ack"
      BY <2>7 DEF Reclaim, Take, ReadNothing, Discard, Fail, Bury, AckDead, NotifyFailure, Start,
         Claim, AddToDLQ, AckCalls, Acknowledge, NotAcknowledged, redis, observed
    <3> QED BY <2>1, <3>1, QuietReports
  <2> QED BY <1>1, <2>2, <2>3, <2>4, <2>5, <2>6, <2>7 DEF Process, Loop
<1>2. CASE Enqueue \/ UNCHANGED vars
  BY <1>2 DEF Enqueue, vars, redis, workers, observed, ReportInv
<1>3. ASSUME NEW i \in Ids, BecomeIdle(i) PROVE ReportInv'
  BY <1>3 DEF BecomeIdle, workers, ReportInv
<1> QED BY <1>1, <1>2, <1>3 DEF Next, Process

----------------------------------------------------------------------------
(* Notices.                                                                *)

LEMMA NoticeStep == DeliveryInv /\ HandInv /\ NoticeInv /\ [Next]_vars => NoticeInv'
<1> SUFFICES ASSUME DeliveryInv, HandInv, NoticeInv, [Next]_vars, mishaps \subseteq mishaps',
                    Monotone
             PROVE  NoticeInv'
  BY MishapsGrow, StepsAreMonotone DEF DeliveryInv
<1> USE DEF DeliveryInv
<1>1. dlq \subseteq dlq'
  BY DEF Monotone
<1>2. ASSUME notices' = notices, pending' \subseteq pending PROVE NoticeInv'
  BY <1>1, <1>2 DEF NoticeInv
<1>3. ASSUME NEW w \in Workers, Process(w) PROVE NoticeInv'
  <2>1. CASE Read(w)
    <3>1. PICK i \in Ids : IsLeast(i, Waiting) /\ Deliver(i)
      BY <2>1 DEF Read
    <3>2. i \notin dlq /\ pending' = pending \union {i} /\ notices' = notices
      BY <2>1, <3>1, ReadIsNew DEF Read, Deliver, observed
    <3> QED BY <1>1, <3>2 DEF NoticeInv
  <2>2. CASE NotifyFailure(w)
    <3>1. /\ pc[w] = "notify" /\ notices' \subseteq notices \union {cur[w]}
          /\ UNCHANGED <<pending, mishaps>> /\ cur[w] \in dlq
      BY <2>2 DEF NotifyFailure, redis, WorkerInv, HandOK
    <3>2. cur[w] \in pending => cur[w] \in mishaps
      BY <3>1, InHand, HeldIds DEF HandInv, Busy
    <3> QED BY <1>1, <3>1, <3>2 DEF NoticeInv
  <2>3. CASE \/ Reclaim(w) \/ Take(w) \/ ReadNothing(w) \/ Discard(w) \/ Succeed(w)
             \/ Fail(w) \/ Bury(w)
    BY <1>2, <2>3 DEF Reclaim, Claim, Take, ReadNothing, Discard, Succeed, Fail, Bury, AddToDLQ,
       redis, observed
  <2>4. CASE \/ Ack(w) \/ AckDead(w) \/ WorkerStopped(w) \/ Crash(w) \/ Sigterm(w)
             \/ ShutdownTimedOut(w) \/ Start(w)
    BY <1>2, <2>4 DEF Ack, AckDead, AckCalls, Acknowledge, NotAcknowledged, WorkerStopped, Crash,
       Sigterm, ShutdownTimedOut, Start, Gone, redis, observed
  <2> QED BY <1>3, <2>1, <2>2, <2>3, <2>4 DEF Process, Loop
<1>4. CASE Enqueue \/ (\E i \in Ids : BecomeIdle(i)) \/ UNCHANGED vars
  BY <1>2, <1>4 DEF Enqueue, BecomeIdle, vars, redis, observed
<1> QED BY <1>3, <1>4 DEF Next, Process

----------------------------------------------------------------------------
(* The theorems.                                                           *)

LEMMA CareAlways == Spec => []CareInv
<1>1. Init => CareInv
  BY DeliveryInit, HandInit DEF CareInv
<1>2. CareInv /\ [Next]_vars => CareInv'
  BY DeliveryStep, HandStep, ReportStep, NoticeStep DEF CareInv
<1> QED BY <1>1, <1>2, PTL DEF Spec

\* XREADGROUP, XAUTOCLAIM and the acknowledgement give a job to one worker at a
\* time, as long as no worker lost it, kept it beyond claimMinIdle or failed to
\* acknowledge it.
THEOREM OneHandAtATime == Spec => []OneHand
<1>1. CareInv => OneHand
  BY DEF CareInv, HandInv, OneHand, Holders
<1> QED BY <1>1, CareAlways, PTL

\* Without such a mishap no job is reported twice: the worker that reported it
\* has it until it is acknowledged.
THEOREM ReportedOnce == Spec => []DuplicateOnlyAfterMishap
<1>1. CareInv => DuplicateOnlyAfterMishap
  BY DEF CareInv, ReportInv, DuplicateOnlyAfterMishap
<1> QED BY <1>1, CareAlways, PTL

\* notifyFailure announces only jobs that are in the dead-letter stream and, but
\* for a mishap, will not be delivered again.
THEOREM NoticesAreForTheDead == Spec => []NoticeOnlyForTheDead
<1>1. CareInv => NoticeOnlyForTheDead
  BY DEF CareInv, NoticeInv, NoticeOnlyForTheDead
<1> QED BY <1>1, CareAlways, PTL
=============================================================================
