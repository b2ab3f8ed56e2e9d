------------------------------ MODULE Webhook ------------------------------
(***************************************************************************)
(* POST /webhook (webhook/handler.go) with the deduplication store and the *)
(* job queue behind it.  net/http runs every request in a goroutine of its *)
(* own, so requests interleave between any two calls of the store and of   *)
(* the queue; one worker drains the queue.                                 *)
(*                                                                         *)
(* The backend is chosen when the service starts: "memory" (Deduplicator   *)
(* and Queue, lost with the process) or "redis" (RedisDedup and RedisQueue,*)
(* whose commands can fail).  How the Redis queue delivers is the subject  *)
(* of RedisQueue; here its stream is an unbounded sequence of unread       *)
(* entries, and a job that a crash, a lost reply, a failed attempt or a    *)
(* refused ack leaves pending is claimed again at some later moment, while *)
(* newer entries are read in between.                                      *)
(*                                                                         *)
(* A request is about one group; an alert stands for its deduplication key *)
(* (alertDedupKey).  The window of an alert counts how often its entry was *)
(* ended: by Clear, by the cooldown or by trouble with the store.          *)
(***************************************************************************)
EXTENDS Naturals, Sequences, FiniteSets

CONSTANTS
    Requests,       \* bound: HTTP requests, one goroutine each
    Alerts,         \* deduplication keys
    Capacity,       \* buffer size of the in-memory queue
    MaxExpiries,    \* bound: cooldowns that end
    MaxTroubles,    \* bound: Redis errors and crashes
    NoJob           \* the worker has nothing in hand

ASSUME WebhookConstants ==
    /\ IsFiniteSet(Requests)
    /\ Capacity \in Nat \ {0} /\ MaxExpiries \in Nat /\ MaxTroubles \in Nat

Backends == {"memory", "redis"}
Payloads == [resolved : SUBSET Alerts, firing : SUBSET Alerts, paused : BOOLEAN]
Answers == {"refused", "resolved", "paused", "suppressed", "accepted", "lost"}

VARIABLES
    backend,    \* chosen in serve.go
    seen,       \* entries of the deduplication store within their cooldown
    queue,      \* jobs not yet read for a worker
    inHand,     \* the job of the worker
    left,       \* jobs read for it that are still pending in Redis
    pc,         \* where a request is: "new", "clear", "dedup", "enqueue", "done"
    payload,    \* what it is about
    todo,       \* alerts its current loop has not come to
    fresh,      \* alerts it found fresh, with their windows
    answer,     \* its response, "lost" when its process died
    window,     \* ends of an alert's entry so far
    jobs,       \* alerts with windows handed to the queue, ever
    dropped,    \* alerts with windows whose job the queue did not take
    kept,       \* alerts whose DEL failed
    arrived,    \* the windows when a request arrived
    expiries, troubles

stores  == <<seen, window, kept>>
request == <<pc, payload, todo, fresh, answer, arrived>>
history == <<jobs, dropped>>
worker  == <<inHand, left>>
vars == <<backend, stores, request, history, queue, worker, expiries, troubles>>

Windowed == Alerts \X Nat

Job == [number : Nat, origin : {"firing", "resolved", "paused"}, prompt : BOOLEAN]

TypeOK ==
    /\ backend \in Backends
    /\ seen \in SUBSET Alerts
    /\ queue \in Seq(Job) /\ (backend = "memory" => Len(queue) <= Capacity)
    /\ inHand \in Job \union {NoJob}
    /\ left \in SUBSET Job /\ (backend = "memory" => left = {})
    /\ pc \in [Requests -> {"new", "clear", "dedup", "enqueue", "done"}]
    /\ payload \in [Requests -> Payloads]
    /\ todo \in [Requests -> SUBSET Alerts]
    /\ \A r \in Requests : fresh[r] \subseteq Windowed
    /\ answer \in [Requests -> Answers \union {"-"}]
    /\ window \in [Alerts -> Nat] /\ arrived \in [Requests -> [Alerts -> Nat]]
    /\ jobs \subseteq Windowed /\ dropped \subseteq Windowed
    /\ kept \in SUBSET Alerts
    /\ expiries \in 0..MaxExpiries /\ troubles \in 0..MaxTroubles

\* A job of a request before the ones watched here.
Earlier == [number |-> 0, origin |-> "firing", prompt |-> FALSE]
NoPayload == [resolved |-> {}, firing |-> {}, paused |-> FALSE]

\* The worker of the in-memory queue is busy, for ever perhaps, so that its buffer
\* can fill.
Init ==
    /\ backend \in Backends
    /\ seen = {} /\ queue = <<>> /\ left = {}
    /\ inHand = IF backend = "memory" THEN Earlier ELSE NoJob
    /\ pc = [r \in Requests |-> "new"]
    /\ payload = [r \in Requests |-> NoPayload]
    /\ todo = [r \in Requests |-> {}]
    /\ fresh = [r \in Requests |-> {}]
    /\ answer = [r \in Requests |-> "-"]
    /\ window = [a \in Alerts |-> 0]
    /\ arrived = [r \in Requests |-> [a \in Alerts |-> 0]]
    /\ jobs = {} /\ dropped = {} /\ kept = {}
    /\ expiries = 0 /\ troubles = 0

----------------------------------------------------------------------------
(* The deduplication store: each call is atomic (a mutex, or one command). *)

Trouble == troubles < MaxTroubles /\ troubles' = troubles + 1
StoreError == backend = "redis" /\ Trouble

Ends(S) == window' = [a \in Alerts |-> IF a \in S THEN window[a] + 1 ELSE window[a]]

\* Clear removes the entry; the error of DEL is only logged.
Clear(a) ==
    \/ seen' = seen \ {a} /\ Ends({a}) /\ UNCHANGED <<kept, troubles>>
    \/ StoreError /\ kept' = kept \union {a} /\ UNCHANGED <<seen, window>>

\* ShouldProcess answers TRUE and records the entry when there is none within
\* its cooldown.  RedisDedup is fail-open: on an error TRUE, recorded or not,
\* which counts as a window of its own.
FailOpen(a, result, w) ==
    /\ StoreError
    /\ result = TRUE /\ w = window[a] + 1
    /\ seen' \in {seen, seen \union {a}}
    /\ window' = [window EXCEPT ![a] = IF a \in seen' THEN @ + 1 ELSE @ + 2]
    /\ UNCHANGED kept

\* (ForgetsToRecord and other definitions that no action uses are variants: each
\* is what an easy mistake would make of the definition it stands next to.)
ForgetsToRecord(a, result, w) ==
    \/ /\ result = (a \notin seen) /\ w = window[a]
       /\ UNCHANGED <<seen, window, kept, troubles>>
    \/ FailOpen(a, result, w)
ShouldProcess(a, result, w) ==
    \/ /\ result = (a \notin seen) /\ w = window[a]
       /\ seen' = seen \union {a}
       /\ UNCHANGED <<window, kept, troubles>>
    \/ FailOpen(a, result, w)

----------------------------------------------------------------------------
(* The queue.                                                              *)

FullTooLate == Len(queue) > Capacity
Full == Len(queue) >= Capacity

\* Job numbers only tell jobs apart and order them by their Enqueue.
NextNumber == 1 + Cardinality({r \in Requests : answer[r] # "-"})

\* Enqueue returns nothing: the caller cannot tell that the job was dropped,
\* because the buffer is full or XADD failed.
EnqueueBlocking(origin, prompt, alerts) ==
    /\ backend = "redis" \/ ~Full
    /\ queue' = Append(queue, [number |-> NextNumber, origin |-> origin, prompt |-> prompt])
    /\ jobs' = jobs \union alerts
    /\ UNCHANGED <<dropped, troubles>>
Enqueue(origin, prompt, alerts) ==
    \/ /\ backend = "redis" \/ ~Full
       /\ queue' = Append(queue, [number |-> NextNumber, origin |-> origin, prompt |-> prompt])
       /\ jobs' = jobs \union alerts
       /\ UNCHANGED <<dropped, troubles>>
    \/ /\ \/ backend = "memory" /\ Full /\ UNCHANGED troubles
          \/ StoreError
       /\ dropped' = dropped \union alerts
       /\ UNCHANGED <<queue, jobs>>

\* The worker takes the next job that none has had.  An entry of the stream whose
\* XREADGROUP reply is lost is pending without having come to anyone's hand.
TakeLast ==
    /\ inHand = NoJob /\ queue # <<>>
    /\ inHand' = queue[Len(queue)] /\ queue' = SubSeq(queue, 1, Len(queue) - 1)
    /\ UNCHANGED <<backend, stores, request, history, left, expiries, troubles>>
Take ==
    /\ inHand = NoJob /\ queue # <<>>
    /\ queue' = Tail(queue)
    /\ \/ inHand' = Head(queue) /\ UNCHANGED <<left, troubles>>
       \/ StoreError /\ left' = left \union {Head(queue)} /\ UNCHANGED inHand
    /\ UNCHANGED <<backend, stores, request, history, expiries>>

\* XAUTOCLAIM brings back a pending job once it has been idle for claimMinIdle,
\* which is any time after it was left.
Reclaim ==
    /\ inHand = NoJob
    /\ \E job \in left : inHand' = job /\ left' = left \ {job}
    /\ UNCHANGED <<backend, stores, request, history, queue, expiries, troubles>>

\* notifyStatus or investigate returns.  An error of the in-memory queue is
\* logged and the job is over; of the Redis queue it leaves the job pending
\* (unless that was its last delivery), and so does an ack that fails.
Finish ==
    /\ inHand # NoJob
    /\ inHand' = NoJob
    /\ \/ UNCHANGED left
       \/ backend = "redis" /\ left' = left \union {inHand}
    /\ UNCHANGED <<backend, stores, request, history, queue, expiries, troubles>>

----------------------------------------------------------------------------
(* HandleWebhook.                                                          *)

Reply(r, text) ==
    /\ pc' = [pc EXCEPT ![r] = "done"]
    /\ answer' = [answer EXCEPT ![r] = text]

ClearsResolvedGroups(p) == IF p.firing = {} THEN p.resolved ELSE {}
Clears(p) == p.resolved

\* The part of HandleWebhook that follows the loop of Clear.
NextLoop(r, p) ==
    LET short == p.firing = {} \/ p.paused
    IN  /\ pc' = [pc EXCEPT ![r] = IF short THEN "enqueue" ELSE "dedup"]
        /\ todo' = [todo EXCEPT ![r] = IF short THEN {} ELSE p.firing]

\* Grafana's status is "resolved" when every alert of the payload is.
Receive(r) ==
    /\ pc[r] = "new"
    /\ \E p \in Payloads :
         /\ p.resolved \intersect p.firing = {}
         /\ p.resolved \union p.firing # {}
         /\ p.firing = {} => ~p.paused
         /\ payload' = [payload EXCEPT ![r] = p]
         /\ arrived' = [arrived EXCEPT ![r] = window]
         /\ IF Clears(p) = {} THEN NextLoop(r, p)
            ELSE /\ pc' = [pc EXCEPT ![r] = "clear"]
                 /\ todo' = [todo EXCEPT ![r] = Clears(p)]
    /\ UNCHANGED <<backend, stores, history, queue, worker, fresh, answer, expiries, troubles>>

\* Not decodable or too large; or Match finds no scenario.
Refuse(r) ==
    /\ pc[r] = "new"
    /\ Reply(r, "refused")
    /\ UNCHANGED <<backend, stores, history, queue, worker>>
    /\ UNCHANGED <<payload, todo, fresh, arrived, expiries, troubles>>

\* One turn of the loop that frees the slots of the resolved alerts.
ClearOne(r) ==
    /\ pc[r] = "clear"
    /\ \E a \in todo[r] :
         /\ Clear(a)
         /\ IF todo[r] = {a} THEN NextLoop(r, payload[r])
            ELSE todo' = [todo EXCEPT ![r] = @ \ {a}] /\ UNCHANGED pc
    /\ UNCHANGED <<backend, history, queue, worker, payload, fresh, answer, arrived, expiries>>

SuppressGroup(found, p) == Cardinality(found) < Cardinality(p.firing)
Suppressed(found, p) == found = {}

\* One turn of the loop of freshAlerts, with what follows its last turn.
CheckOne(r) ==
    /\ pc[r] = "dedup"
    /\ \E a \in todo[r], result \in BOOLEAN, ended \in {0, 1} :
         /\ ShouldProcess(a, result, window[a] + ended)
         /\ LET found == fresh[r] \union (IF result THEN {<<a, window[a] + ended>>} ELSE {})
            IN  /\ fresh' = [fresh EXCEPT ![r] = found]
                /\ todo' = [todo EXCEPT ![r] = @ \ {a}]
                /\ IF todo[r] # {a} THEN UNCHANGED <<pc, answer>>
                   ELSE IF Suppressed(found, payload[r]) THEN Reply(r, "suppressed")
                   ELSE pc' = [pc EXCEPT ![r] = "enqueue"] /\ UNCHANGED answer
    /\ UNCHANGED <<backend, history, queue, worker, payload, arrived, expiries>>

\* The call of Enqueue and the response after it.  A status job carries the
\* prompt; ResolvedPrompt and PausedPrompt return "" when it is blank or cannot be read.
EnqueueJob(r) ==
    /\ pc[r] = "enqueue"
    /\ \/ /\ payload[r].firing = {}
          /\ \E prompt \in BOOLEAN : Enqueue("resolved", prompt, {})
          /\ Reply(r, "resolved")
       \/ /\ payload[r].paused
          /\ \E prompt \in BOOLEAN : Enqueue("paused", prompt, {})
          /\ Reply(r, "paused")
       \/ fresh[r] # {} /\ Enqueue("firing", FALSE, fresh[r]) /\ Reply(r, "accepted")
    /\ UNCHANGED <<backend, stores, worker, payload, todo, fresh, arrived, expiries>>

----------------------------------------------------------------------------
(* Time and crashes.                                                       *)

\* The cooldown of an entry is over.
Expire(a) ==
    /\ a \in seen /\ expiries < MaxExpiries
    /\ expiries' = expiries + 1
    /\ seen' = seen \ {a}
    /\ Ends({a})
    /\ UNCHANGED <<backend, request, history, queue, worker, kept, troubles>>

InProgress(r) == pc[r] \notin {"new", "done"}

\* The process dies and is started again: requests in progress get no answer,
\* and with the in-memory backend entries and jobs are gone.  In Redis the entry
\* of the job in hand stays pending: it is claimed again, and not read again.
Crash ==
    /\ Trouble
    /\ pc' = [r \in Requests |-> IF InProgress(r) THEN "done" ELSE pc[r]]
    /\ answer' = [r \in Requests |-> IF InProgress(r) THEN "lost" ELSE answer[r]]
    /\ dropped' = dropped \union UNION {fresh[r] : r \in {q \in Requests : InProgress(q)}}
    /\ inHand' = NoJob
    /\ IF backend = "redis"
       THEN /\ left' = left \union ({inHand} \ {NoJob})
            /\ UNCHANGED <<queue, seen, window>>
       ELSE queue' = <<>> /\ left' = {} /\ seen' = {} /\ Ends(Alerts)
    /\ UNCHANGED <<backend, payload, todo, fresh, arrived, jobs, kept, expiries>>

Handle(r) == Receive(r) \/ Refuse(r) \/ ClearOne(r) \/ CheckOne(r) \/ EnqueueJob(r)

Next ==
    \/ \E r \in Requests : Handle(r)
    \/ Take \/ Reclaim \/ Finish \/ Crash
    \/ \E a \in Alerts : Expire(a)

\* A goroutine that serves a request is scheduled, and so is an idle worker,
\* which comes to the read of new entries after every batch it has claimed
\* (redis.go:152-166).  Nothing is assumed of Finish: an attempt may hang.
Fairness ==
    /\ \A r \in Requests : WF_vars(ClearOne(r) \/ CheckOne(r) \/ EnqueueJob(r))
    /\ SF_vars(Take)

Spec == Init /\ [][Next]_vars /\ Fairness

----------------------------------------------------------------------------
(* Properties.                                                             *)

\* Requests in progress never share an alert of the same window, nor hold one
\* whose job was queued already: between two ends of its entry an alert is put
\* into one job at most.
OneJobPerWindow ==
    \A r \in Requests : InProgress(r) =>
        /\ fresh[r] \intersect jobs = {}
        /\ \A q \in Requests \ {r} : InProgress(q) => fresh[r] \intersect fresh[q] = {}

\* While an alert is suppressed, its job has been queued, or the request that
\* found it fresh is still in progress, or that job is known to be dropped: no
\* path through HandleWebhook records an alert and forgets it.
NoSilentSuppression ==
    \A a \in seen :
        \/ <<a, window[a]>> \in jobs \union dropped
        \/ \E r \in Requests : InProgress(r) /\ <<a, window[a]>> \in fresh[r]

\* A request that was answered has freed the slot of each resolved alert it
\* brought (unless DEL failed), also when the rest of its group is still firing.
AnsweredMeansCleared ==
    \A r \in Requests : answer[r] \notin {"-", "lost", "refused"} =>
        \A a \in payload[r].resolved \ kept : window[a] > arrived[r][a]

\* Jobs are read for the worker in the order in which they were queued: those it
\* was given, the one in hand and those left pending, are older than all it was
\* not.  So a job overtakes an older one (the notice that an alert is resolved its
\* investigation, say) only where a crash, a lost reply, a failed attempt or a
\* failed ack has left the older one pending until it may be claimed.
Had == left \union ({inHand} \ {NoJob})
InOrder ==
    /\ \A i, j \in 1..Len(queue) : i < j => queue[i].number < queue[j].number
    /\ \A job \in Had, i \in 1..Len(queue) : job.number < queue[i].number

EveryRequestEnds == \A r \in Requests : InProgress(r) ~> ~InProgress(r)
EveryJobIsTaken ==
    []<>(inHand = NoJob) =>
        \A n \in 0..Cardinality(Requests) :
            (\E i \in 1..Len(queue) : queue[i].number = n)
                ~> ~(\E i \in 1..Len(queue) : queue[i].number = n)

\* Every request is answered or dies with its process, even when the worker
\* hangs and the queue is full; and if attempts come to an end, every queued job
\* leaves the queue.
NothingHangs == EveryRequestEnds /\ EveryJobIsTaken
=============================================================================
