--------------------------- MODULE WebhookProofs ---------------------------
(***************************************************************************)
(* Proofs about Webhook, for any number of requests, alerts, cooldowns,    *)
(* crashes and errors of the store, and for every backend.                 *)
(*                                                                         *)
(* That two requests never hold one alert of the same window rests on what *)
(* the store knows of the windows handed out (EntryInv): the current one   *)
(* of an alert is out only while its entry is there, so ShouldProcess      *)
(* hands out a window only once, and what fails open has a new one.        *)
(*                                                                         *)
(* That jobs are first taken in order rests on their numbers: those of the *)
(* queue rise, those of the jobs the worker has had are below them, and    *)
(* the next one is above all (LineInv).                                    *)
(***************************************************************************)
EXTENDS Webhook, SequenceTheorems, FiniteSetTheorems, TLAPS

Phases == {"new", "clear", "dedup", "enqueue", "done"}

WebTypes ==
    /\ seen \in SUBSET Alerts
    /\ pc \in [Requests -> Phases]
    /\ payload \in [Requests -> Payloads]
    /\ todo \in [Requests -> SUBSET Alerts]
    /\ fresh \in [Requests -> SUBSET Windowed]
    /\ answer \in [Requests -> Answers \union {"-"}]
    /\ window \in [Alerts -> Nat] /\ arrived \in [Requests -> [Alerts -> Nat]]
    /\ jobs \in SUBSET Windowed /\ dropped \in SUBSET Windowed
    /\ kept \in SUBSET Alerts

Short(p) == p.firing = {} \/ p.paused

\* Only a request that goes through freshAlerts holds any.
PhaseInv ==
    \A r \in Requests :
        /\ pc[r] \in {"new", "clear"} => fresh[r] = {}
        /\ pc[r] = "dedup" => ~Short(payload[r])
        /\ pc[r] = "enqueue" /\ Short(payload[r]) => fresh[r] = {}
        /\ pc[r] # "done" => answer[r] = "-"

\* A window that was handed out has ended, or its entry is in the store.
Out(a, w) == <<a, w>> \in jobs \/ \E r \in Requests : <<a, w>> \in fresh[r]

EntryInv ==
    \A a \in Alerts, w \in Nat :
        Out(a, w) => w <= window[a] /\ (w = window[a] => a \in seen)

\* The resolved alerts a request has come past have been cleared.
Cleared(r, S) == \A a \in S \ kept : window[a] > arrived[r][a]

ClearInv ==
    \A r \in Requests :
        /\ \A a \in Alerts : arrived[r][a] <= window[a]
        /\ pc[r] = "clear" => Cleared(r, payload[r].resolved \ todo[r])
        /\ pc[r] \in {"dedup", "enqueue"} => Cleared(r, payload[r].resolved)

DedupInv == WebTypes /\ PhaseInv /\ EntryInv /\ OneJobPerWindow /\ NoSilentSuppression

WebInv == DedupInv /\ ClearInv /\ AnsweredMeansCleared

LEMMA InitWebInv == Init => WebInv
<1> SUFFICES ASSUME Init PROVE WebInv
  OBVIOUS
<1> USE DEF Init
<1>1. WebTypes BY DEF WebTypes, Phases, Payloads, NoPayload
<1>2. PhaseInv BY DEF PhaseInv
<1>3. EntryInv BY DEF EntryInv, Out
<1>4. OneJobPerWindow /\ NoSilentSuppression /\ AnsweredMeansCleared
  BY DEF OneJobPerWindow, NoSilentSuppression, AnsweredMeansCleared, InProgress
<1>5. ClearInv BY DEF ClearInv
<1> QED BY <1>1, <1>2, <1>3, <1>4, <1>5 DEF WebInv, DedupInv

\* Windows only end, and what could not be deleted is remembered.
LEMMA ClearedStays ==
    ASSUME WebInv, WebTypes', kept \subseteq kept',
           \A a \in Alerts : window[a] <= window'[a],
           UNCHANGED <<arrived, payload>>
    PROVE  /\ \A r \in Requests, S \in SUBSET Alerts : Cleared(r, S) => Cleared(r, S)'
           /\ \A r \in Requests, a \in Alerts : arrived'[r][a] <= window'[a]
           /\ \A r \in Requests : payload[r].resolved \in SUBSET Alerts
<1>1. ASSUME NEW r \in Requests, NEW a \in Alerts
      PROVE  /\ arrived'[r][a] = arrived[r][a] /\ arrived[r][a] \in Nat
             /\ window[a] \in Nat /\ window'[a] \in Nat /\ window[a] <= window'[a]
             /\ arrived[r][a] <= window[a]
  BY DEF WebInv, DedupInv, WebTypes, ClearInv
<1>2. ASSUME NEW r \in Requests, NEW S \in SUBSET Alerts, Cleared(r, S)
      PROVE  Cleared(r, S)'
  <2> SUFFICES ASSUME NEW a \in S \ kept' PROVE window'[a] > arrived'[r][a]
    BY DEF Cleared
  <2>1. window[a] > arrived[r][a] BY <1>2 DEF Cleared
  <2> QED BY <1>1, <2>1
<1>3. ASSUME NEW r \in Requests, NEW a \in Alerts PROVE arrived'[r][a] <= window'[a]
  BY <1>1
<1>4. \A r \in Requests : payload[r].resolved \in SUBSET Alerts
  BY DEF WebInv, DedupInv, WebTypes, Payloads
<1> QED BY <1>2, <1>3, <1>4

\* A step that ends the entries of some alerts: Clear, Expire and the loss of the
\* store with its process.
LEMMA EndsStep ==
    ASSUME WebTypes, NEW S \in SUBSET Alerts, Ends(S)
    PROVE  /\ window' \in [Alerts -> Nat]
           /\ \A a \in Alerts : window[a] <= window'[a]
           /\ \A a \in S : window'[a] = window[a] + 1
           /\ \A a \in Alerts \ S : window'[a] = window[a]
  BY DEF Ends, WebTypes

LEMMA EntriesEnd ==
    ASSUME DedupInv, NEW S \in SUBSET Alerts, Ends(S), seen' = seen \ S,
           UNCHANGED <<jobs, fresh>>
    PROVE  EntryInv'
<1> SUFFICES ASSUME NEW a \in Alerts, NEW w \in Nat, Out(a, w)'
             PROVE  w <= window'[a] /\ (w = window'[a] => a \in seen')
  BY DEF EntryInv
<1>1. Out(a, w) BY DEF Out
<1>2. w <= window[a] /\ (w = window[a] => a \in seen) /\ window[a] \in Nat
  BY <1>1 DEF DedupInv, EntryInv, WebTypes
<1>3. CASE a \in S BY <1>2, <1>3, EndsStep DEF DedupInv
<1>4. CASE a \notin S BY <1>2, <1>4, EndsStep DEF DedupInv
<1> QED BY <1>3, <1>4

LEMMA ReceiveStep ==
    ASSUME WebInv, NEW r \in Requests, Receive(r)
    PROVE  WebInv'
<1>1. PICK p \in Payloads :
        /\ payload' = [payload EXCEPT ![r] = p]
        /\ IF Clears(p) = {} THEN NextLoop(r, p)
           ELSE /\ pc' = [pc EXCEPT ![r] = "clear"]
                /\ todo' = [todo EXCEPT ![r] = Clears(p)]
  BY DEF Receive
<1>2. /\ arrived' = [arrived EXCEPT ![r] = window] /\ pc[r] = "new"
      /\ UNCHANGED <<seen, window, kept, jobs, dropped, fresh, answer>>
  BY DEF Receive, stores, history
<1>3. /\ payload'[r] = p
      /\ \/ pc'[r] = "clear" /\ todo'[r] = p.resolved
         \/ p.resolved = {} /\ pc'[r] = "enqueue" /\ Short(p)
         \/ p.resolved = {} /\ pc'[r] = "dedup" /\ ~Short(p)
  BY <1>1 DEF NextLoop, Clears, Short, WebInv, DedupInv, WebTypes
<1>4. \A q \in Requests : q # r =>
         pc'[q] = pc[q] /\ todo'[q] = todo[q] /\ payload'[q] = payload[q]
         /\ arrived'[q] = arrived[q]
  BY <1>1, <1>2 DEF NextLoop, WebInv, DedupInv, WebTypes
<1>5. WebTypes'
  <2>1. p.resolved \in SUBSET Alerts /\ p.firing \in SUBSET Alerts BY DEF Payloads
  <2>2. pc' \in [Requests -> Phases] /\ todo' \in [Requests -> SUBSET Alerts]
    BY <1>1, <2>1 DEF NextLoop, Clears, Phases, WebInv, DedupInv, WebTypes
  <2>3. /\ payload' \in [Requests -> Payloads]
        /\ arrived' \in [Requests -> [Alerts -> Nat]]
    BY <1>1, <1>2 DEF WebInv, DedupInv, WebTypes
  <2> QED BY <1>2, <2>2, <2>3 DEF WebInv, DedupInv, WebTypes
<1>6. fresh[r] = {} /\ answer[r] = "-" BY <1>2 DEF WebInv, DedupInv, PhaseInv
<1>7. PhaseInv' BY <1>2, <1>3, <1>4, <1>6 DEF WebInv, DedupInv, PhaseInv
<1>8. EntryInv' BY <1>2 DEF WebInv, DedupInv, EntryInv, Out
<1>9. OneJobPerWindow'
  BY <1>2, <1>4, <1>6 DEF WebInv, DedupInv, OneJobPerWindow, InProgress
<1>10. NoSilentSuppression'
  BY <1>2, <1>4, <1>6 DEF WebInv, DedupInv, NoSilentSuppression, InProgress
<1>11. ClearInv'
  <2>1. arrived'[r] = window /\ \A a \in Alerts : window[a] \in Nat
    BY <1>2 DEF WebInv, DedupInv, WebTypes
  <2>2. \A a \in Alerts : arrived'[r][a] <= window'[a] BY <1>2, <2>1
  <2>3. p.resolved \ p.resolved = {} OBVIOUS
  <2> QED BY <1>2, <1>3, <1>4, <2>2, <2>3 DEF WebInv, ClearInv, Cleared
<1>12. AnsweredMeansCleared'
  BY <1>2, <1>4, <1>6 DEF WebInv, AnsweredMeansCleared
<1> QED BY <1>5, <1>7, <1>8, <1>9, <1>10, <1>11, <1>12 DEF WebInv, DedupInv

LEMMA RefuseStep ==
    ASSUME WebInv, NEW r \in Requests, Refuse(r)
    PROVE  WebInv'
<1>1. /\ pc[r] = "new" /\ UNCHANGED <<seen, window, kept, jobs, dropped>>
      /\ UNCHANGED <<fresh, payload, todo, arrived>>
      /\ pc' = [pc EXCEPT ![r] = "done"] /\ answer' = [answer EXCEPT ![r] = "refused"]
  BY DEF Refuse, Reply, stores, history
<1>2. fresh[r] = {} BY <1>1 DEF WebInv, DedupInv, PhaseInv
<1>3. WebTypes' BY <1>1 DEF WebInv, DedupInv, WebTypes, Phases, Answers
<1>4. PhaseInv' BY <1>1 DEF WebInv, DedupInv, WebTypes, PhaseInv
<1>5. EntryInv' BY <1>1 DEF WebInv, DedupInv, EntryInv, Out
<1>6. OneJobPerWindow'
  BY <1>1 DEF WebInv, DedupInv, WebTypes, OneJobPerWindow, InProgress
<1>7. NoSilentSuppression'
  BY <1>1, <1>2 DEF WebInv, DedupInv, WebTypes, NoSilentSuppression, InProgress
<1>8. ClearInv' BY <1>1 DEF WebInv, DedupInv, WebTypes, ClearInv, Cleared
<1>9. AnsweredMeansCleared'
  BY <1>1 DEF WebInv, DedupInv, WebTypes, AnsweredMeansCleared
<1> QED BY <1>3, <1>4, <1>5, <1>6, <1>7, <1>8, <1>9 DEF WebInv, DedupInv

\* The worker's steps, and those that change nothing.
LEMMA WorkerStep ==
    ASSUME WebInv, Take \/ Reclaim \/ Finish \/ UNCHANGED vars
    PROVE  WebInv'
<1>1. UNCHANGED <<seen, window, kept, jobs, dropped, pc, payload, todo, fresh,
                  answer, arrived>>
  BY DEF Take, Reclaim, Finish, vars, stores, request, history
<1> QED BY <1>1 DEF WebInv, DedupInv, WebTypes, PhaseInv, EntryInv, Out,
    OneJobPerWindow, NoSilentSuppression, InProgress, ClearInv, Cleared,
    AnsweredMeansCleared

\* Windows that end leave what is out and what was cleared in order.
LEMMA ExpireStep ==
    ASSUME WebInv, NEW a \in Alerts, Expire(a)
    PROVE  WebInv'
<1>1. /\ UNCHANGED <<pc, payload, todo, fresh, answer, arrived, jobs, dropped, kept>>
      /\ seen' = seen \ {a} /\ Ends({a})
  BY DEF Expire, request, history
<1>2. /\ window' \in [Alerts -> Nat]
      /\ \A b \in Alerts : window[b] <= window'[b] /\ (b # a => window'[b] = window[b])
  BY <1>1, EndsStep DEF WebInv, DedupInv
<1>3. WebTypes' BY <1>1, <1>2 DEF WebInv, DedupInv, WebTypes
<1>4. PhaseInv' BY <1>1 DEF WebInv, DedupInv, PhaseInv
<1>5. EntryInv' BY <1>1, EntriesEnd DEF WebInv
<1>6. OneJobPerWindow' BY <1>1 DEF WebInv, DedupInv, OneJobPerWindow, InProgress
<1>7. NoSilentSuppression'
  BY <1>1, <1>2 DEF WebInv, DedupInv, WebTypes, NoSilentSuppression, InProgress
<1>8. /\ \A r \in Requests, S \in SUBSET Alerts : Cleared(r, S) => Cleared(r, S)'
      /\ \A r \in Requests, b \in Alerts : arrived'[r][b] <= window'[b]
      /\ \A r \in Requests : payload[r].resolved \in SUBSET Alerts
  BY <1>1, <1>2, <1>3, ClearedStays
<1>9. ClearInv' BY <1>1, <1>8 DEF WebInv, ClearInv
<1>10. AnsweredMeansCleared'
  BY <1>1, <1>8 DEF WebInv, AnsweredMeansCleared, Cleared
<1> QED BY <1>3, <1>4, <1>5, <1>6, <1>7, <1>9, <1>10 DEF WebInv, DedupInv

LEMMA ClearOneStep ==
    ASSUME WebInv, NEW r \in Requests, ClearOne(r)
    PROVE  WebInv'
<1>1. PICK a \in todo[r] :
         /\ Clear(a)
         /\ IF todo[r] = {a} THEN NextLoop(r, payload[r])
            ELSE todo' = [todo EXCEPT ![r] = @ \ {a}] /\ UNCHANGED pc
  BY DEF ClearOne
<1>2. /\ pc[r] = "clear" /\ a \in Alerts
      /\ UNCHANGED <<payload, fresh, answer, arrived, jobs, dropped>>
  BY DEF ClearOne, WebInv, DedupInv, WebTypes, history
<1>3. \/ seen' = seen \ {a} /\ Ends({a}) /\ kept' = kept
      \/ seen' = seen /\ window' = window /\ kept' = kept \union {a}
  BY <1>1 DEF Clear
<1>4. /\ window' \in [Alerts -> Nat]
      /\ \A b \in Alerts : window[b] <= window'[b] /\ (b # a => window'[b] = window[b])
      /\ a \in kept' \/ (a \notin seen' /\ window'[a] = window[a] + 1)
  <2>1. CASE Ends({a}) /\ seen' = seen \ {a}
    BY <1>2, <2>1, EndsStep DEF WebInv, DedupInv
  <2>2. CASE window' = window /\ kept' = kept \union {a}
    BY <2>2 DEF WebInv, DedupInv, WebTypes
  <2> QED BY <1>3, <2>1, <2>2
<1>5. \/ todo[r] = {a} /\ pc'[r] = "enqueue" /\ Short(payload[r])
      \/ todo[r] = {a} /\ pc'[r] = "dedup" /\ ~Short(payload[r])
      \/ pc'[r] = "clear" /\ todo'[r] = todo[r] \ {a}
  BY <1>1, <1>2 DEF NextLoop, Short, WebInv, DedupInv, WebTypes
<1>6. \A q \in Requests : q # r => pc'[q] = pc[q] /\ todo'[q] = todo[q]
  BY <1>1 DEF NextLoop, WebInv, DedupInv, WebTypes
<1>7. fresh[r] = {} /\ answer[r] = "-" BY <1>2 DEF WebInv, DedupInv, PhaseInv
<1>8. WebTypes'
  <2>1. payload[r].firing \in SUBSET Alerts BY DEF WebInv, DedupInv, WebTypes, Payloads
  <2>2. pc' \in [Requests -> Phases] /\ todo' \in [Requests -> SUBSET Alerts]
    <3>1. CASE todo[r] = {a}
      <4> DEFINE short == payload[r].firing = {} \/ payload[r].paused
      <4>1. /\ pc' = [pc EXCEPT ![r] = IF short THEN "enqueue" ELSE "dedup"]
            /\ todo' = [todo EXCEPT ![r] = IF short THEN {} ELSE payload[r].firing]
        BY <1>1, <3>1 DEF NextLoop
      <4> HIDE DEF short
      <4> QED BY <2>1, <4>1 DEF Phases, WebInv, DedupInv, WebTypes
    <3>2. CASE todo[r] # {a}
      BY <1>1, <3>2 DEF WebInv, DedupInv, WebTypes
    <3> QED BY <3>1, <3>2
  <2>3. seen' \in SUBSET Alerts /\ kept' \in SUBSET Alerts
    BY <1>2, <1>3 DEF WebInv, DedupInv, WebTypes
  <2> QED BY <1>2, <1>4, <2>2, <2>3 DEF WebInv, DedupInv, WebTypes
<1>9. PhaseInv' BY <1>2, <1>5, <1>6, <1>7 DEF WebInv, DedupInv, PhaseInv
<1>10. EntryInv'
  <2>1. CASE Ends({a}) /\ seen' = seen \ {a}
    BY <1>2, <2>1, EntriesEnd DEF WebInv
  <2>2. CASE seen' = seen /\ window' = window
    BY <1>2, <2>2 DEF WebInv, DedupInv, EntryInv, Out
  <2> QED BY <1>3, <2>1, <2>2
<1>11. OneJobPerWindow'
  BY <1>2, <1>6, <1>7 DEF WebInv, DedupInv, OneJobPerWindow, InProgress
<1>12. NoSilentSuppression'
  <2>1. \A b \in seen' : b \in seen /\ window'[b] = window[b]
    BY <1>2, <1>3, <1>4 DEF WebInv, DedupInv, WebTypes
  <2> QED BY <1>2, <1>6, <1>7, <2>1 DEF WebInv, DedupInv, NoSilentSuppression, InProgress
<1>13. /\ \A q \in Requests, S \in SUBSET Alerts : Cleared(q, S) => Cleared(q, S)'
       /\ \A q \in Requests, b \in Alerts : arrived'[q][b] <= window'[b]
       /\ \A q \in Requests : payload[q].resolved \in SUBSET Alerts
  BY <1>2, <1>3, <1>4, <1>8, ClearedStays
<1>14. ClearInv'
  <2>0. ASSUME NEW q \in Requests
        PROVE  /\ \A b \in Alerts : arrived'[q][b] <= window'[b]
               /\ q # r /\ pc'[q] = "clear" => Cleared(q, payload[q].resolved \ todo[q])'
               /\ q # r /\ pc'[q] \in {"dedup", "enqueue"} => Cleared(q, payload[q].resolved)'
    <3>1. ASSUME NEW b \in Alerts, Cleared(q, {b}), b \notin kept'
          PROVE  window'[b] > arrived'[q][b]
      <4>1. Cleared(q, {b})' BY <1>13, <3>1
      <4> QED BY <3>1, <4>1 DEF Cleared
    <3>2. payload[q].resolved \in SUBSET Alerts /\ payload' = payload BY <1>2, <1>13
    <3>3. CASE q # r /\ pc'[q] = "clear"
      <4>1. Cleared(q, payload[q].resolved \ todo[q])
        BY <1>6, <3>3 DEF WebInv, ClearInv
      <4>2. todo'[q] = todo[q] BY <1>6, <3>3
      <4> SUFFICES ASSUME NEW b \in (payload[q].resolved \ todo[q]) \ kept'
                   PROVE  window'[b] > arrived'[q][b]
        BY <1>13, <3>2, <3>3, <4>2 DEF Cleared
      <4>3. Cleared(q, {b}) BY <4>1 DEF Cleared
      <4> QED BY <3>1, <3>2, <4>3
    <3>4. CASE q # r /\ pc'[q] \in {"dedup", "enqueue"}
      <4>1. Cleared(q, payload[q].resolved) BY <1>6, <3>4 DEF WebInv, ClearInv
      <4> SUFFICES ASSUME NEW b \in payload[q].resolved \ kept'
                   PROVE  window'[b] > arrived'[q][b]
        BY <1>13, <3>2, <3>4 DEF Cleared
      <4>3. Cleared(q, {b}) BY <4>1 DEF Cleared
      <4> QED BY <3>1, <3>2, <4>3
    <3> QED BY <1>13, <3>3, <3>4
  <2>1. \A b \in (payload[r].resolved \ todo[r]) \ kept' : window'[b] > arrived'[r][b]
    <3>1. Cleared(r, payload[r].resolved \ todo[r])
      BY <1>2 DEF WebInv, ClearInv
    <3> SUFFICES ASSUME NEW b \in (payload[r].resolved \ todo[r]) \ kept'
                 PROVE  window'[b] > arrived'[r][b]
      OBVIOUS
    <3>2. Cleared(r, {b}) /\ b \in Alerts
      BY <1>3, <1>13, <3>1 DEF Cleared
    <3>3. Cleared(r, {b})' BY <1>13, <3>2
    <3> QED BY <3>3 DEF Cleared
  <2>2. a \in kept' \/ window'[a] > arrived'[r][a]
    <3>1. arrived[r][a] <= window[a] /\ arrived[r][a] \in Nat /\ window[a] \in Nat
      BY <1>2 DEF WebInv, DedupInv, WebTypes, ClearInv
    <3> QED BY <1>2, <1>4, <3>1
  <2>3. CASE todo[r] = {a} /\ pc'[r] \in {"enqueue", "dedup"}
    <3>1. \A b \in payload'[r].resolved \ kept' : window'[b] > arrived'[r][b]
      BY <1>2, <2>1, <2>2, <2>3
    <3>2. Cleared(r, payload[r].resolved)' BY <3>1 DEF Cleared
    <3> QED BY <2>0, <2>3, <3>2 DEF ClearInv
  <2>4. CASE pc'[r] = "clear" /\ todo'[r] = todo[r] \ {a}
    <3>1. \A b \in (payload'[r].resolved \ todo'[r]) \ kept' : window'[b] > arrived'[r][b]
      BY <1>2, <2>1, <2>2, <2>4
    <3>2. Cleared(r, payload[r].resolved \ todo[r])' BY <3>1 DEF Cleared
    <3> QED BY <2>0, <2>4, <3>2 DEF ClearInv
  <2> QED BY <1>5, <2>3, <2>4
<1>15. AnsweredMeansCleared'
  BY <1>2, <1>13 DEF WebInv, AnsweredMeansCleared, Cleared
<1> QED BY <1>8, <1>9, <1>10, <1>11, <1>12, <1>14, <1>15 DEF WebInv, DedupInv

\* What ShouldProcess hands out was never out before, and its entry is recorded
\* unless the window is over already.
LEMMA HandsOutOnce ==
    ASSUME DedupInv, NEW a \in Alerts, NEW result \in BOOLEAN, NEW ended \in {0, 1},
           ShouldProcess(a, result, window[a] + ended)
    PROVE  /\ window' \in [Alerts -> Nat] /\ seen' \in SUBSET Alerts /\ seen \subseteq seen'
           /\ \A b \in Alerts : /\ window[b] <= window'[b]
                                /\ b # a => window'[b] = window[b]
           /\ result => /\ ~Out(a, window[a] + ended)
                        /\ window[a] + ended <= window'[a]
                        /\ a \in seen' => window'[a] = window[a] + ended
                        /\ a \notin seen' => window'[a] > window[a] + ended
           /\ seen' \subseteq seen \union {a}
           /\ ~result => window' = window /\ seen' = seen
           /\ kept' = kept
<1>1. window \in [Alerts -> Nat] /\ seen \in SUBSET Alerts /\ window[a] \in Nat
  BY DEF DedupInv, WebTypes
<1>2. CASE /\ result = (a \notin seen) /\ window[a] + ended = window[a]
           /\ seen' = seen \union {a} /\ UNCHANGED <<window, kept, troubles>>
  <2>2. result => ~Out(a, window[a]) BY <1>1, <1>2 DEF DedupInv, EntryInv
  <2>3. /\ seen' \in SUBSET Alerts /\ seen \subseteq seen' /\ a \in seen'
        /\ seen' \subseteq seen \union {a} /\ window' = window /\ kept' = kept
    BY <1>1, <1>2
  <2>4. ~result => seen' = seen BY <1>2, <2>3
  <2>5. result => ~Out(a, window[a] + ended) BY <1>2, <2>2, Zenon
  <2>6. window[a] + ended <= window'[a] /\ window'[a] = window[a] + ended
        /\ \A b \in Alerts : window[b] <= window'[b]
    BY <1>1, <1>2, <2>3
  <2> QED BY <1>1, <2>3, <2>4, <2>5, <2>6
<1>3. CASE FailOpen(a, result, window[a] + ended)
  <2>1. window[a] + ended = window[a] + 1 /\ result = TRUE BY <1>3 DEF FailOpen
  <2>2. ~Out(a, window[a] + 1) BY <1>1 DEF DedupInv, EntryInv
  <2>3. /\ seen' \in {seen, seen \union {a}} /\ kept' = kept
        /\ window'[a] = IF a \in seen' THEN window[a] + 1 ELSE window[a] + 2
        /\ window' \in [Alerts -> Nat] /\ \A b \in Alerts : b # a => window'[b] = window[b]
    BY <1>1, <1>3 DEF FailOpen
  <2>4. /\ window[a] + 1 <= window'[a] /\ window[a] <= window'[a]
        /\ a \in seen' => window'[a] = window[a] + 1
        /\ a \notin seen' => window'[a] > window[a] + 1
    BY <1>1, <2>3
  <2>5. \A b \in Alerts : window[b] <= window'[b] BY <1>1, <2>3, <2>4
  <2>6. /\ seen' \in SUBSET Alerts /\ seen \subseteq seen'
        /\ seen' \subseteq seen \union {a}
    BY <1>1, <2>3
  <2>7. /\ ~Out(a, window[a] + ended) /\ window[a] + ended <= window'[a]
        /\ a \in seen' => window'[a] = window[a] + ended
        /\ a \notin seen' => window'[a] > window[a] + ended
    <3>1. ~Out(a, window[a] + ended) BY <2>1, <2>2, Zenon
    <3> QED BY <2>1, <2>4, <3>1
  <2> QED BY <2>1, <2>3, <2>5, <2>6, <2>7
<1> QED BY <1>2, <1>3 DEF ShouldProcess, FailOpen

LEMMA CheckOneStep ==
    ASSUME WebInv, NEW r \in Requests, CheckOne(r)
    PROVE  WebInv'
<1>1. PICK a \in todo[r], result \in BOOLEAN, ended \in {0, 1} :
         /\ ShouldProcess(a, result, window[a] + ended)
         /\ LET found == fresh[r] \union (IF result THEN {<<a, window[a] + ended>>} ELSE {})
            IN  /\ fresh' = [fresh EXCEPT ![r] = found]
                /\ todo' = [todo EXCEPT ![r] = @ \ {a}]
                /\ IF todo[r] # {a} THEN UNCHANGED <<pc, answer>>
                   ELSE IF Suppressed(found, payload[r]) THEN Reply(r, "suppressed")
                   ELSE pc' = [pc EXCEPT ![r] = "enqueue"] /\ UNCHANGED answer
  BY DEF CheckOne
<1> DEFINE w == window[a] + ended
           found == fresh[r] \union (IF result THEN {<<a, w>>} ELSE {})
<1>2. /\ pc[r] = "dedup" /\ a \in Alerts /\ w \in Nat
      /\ UNCHANGED <<payload, arrived, jobs, dropped>>
  BY DEF CheckOne, WebInv, DedupInv, WebTypes, history
<1>3. /\ window' \in [Alerts -> Nat] /\ seen' \in SUBSET Alerts /\ seen \subseteq seen'
      /\ \A b \in Alerts : /\ window[b] <= window'[b]
                           /\ b # a => window'[b] = window[b]
      /\ result => /\ ~Out(a, w) /\ w <= window'[a]
                   /\ a \in seen' => window'[a] = w
                   /\ a \notin seen' => window'[a] > w
      /\ seen' \subseteq seen \union {a}
      /\ ~result => window' = window /\ seen' = seen
      /\ kept' = kept
  BY <1>1, <1>2, HandsOutOnce DEF WebInv
<1>4. found \in SUBSET Windowed /\ fresh' = [fresh EXCEPT ![r] = found]
  BY <1>1, <1>2 DEF WebInv, DedupInv, WebTypes, Windowed
<1>5. result => found # {} /\ <<a, w>> \in found OBVIOUS
<1>6. /\ fresh'[r] = found /\ fresh[r] \subseteq found
      /\ \A q \in Requests : q # r => fresh'[q] = fresh[q]
      /\ \A x \in found : x \in fresh[r] \/ (result /\ x = <<a, w>>)
  BY <1>4 DEF WebInv, DedupInv, WebTypes
<1>7. \/ pc' = pc /\ answer' = answer
      \/ found = {} /\ pc' = [pc EXCEPT ![r] = "done"]
                    /\ answer' = [answer EXCEPT ![r] = "suppressed"]
      \/ pc' = [pc EXCEPT ![r] = "enqueue"] /\ answer' = answer
  BY <1>1 DEF Suppressed, Reply
<1>8. todo' = [todo EXCEPT ![r] = @ \ {a}] BY <1>1
<1> HIDE DEF found, w
<1>9. WebTypes'
  <2>1. todo' \in [Requests -> SUBSET Alerts] /\ fresh' \in [Requests -> SUBSET Windowed]
    BY <1>4, <1>8 DEF WebInv, DedupInv, WebTypes
  <2>2. pc' \in [Requests -> Phases] /\ answer' \in [Requests -> Answers \union {"-"}]
    BY <1>7 DEF WebInv, DedupInv, WebTypes, Phases, Answers
  <2> QED BY <1>2, <1>3, <2>1, <2>2 DEF WebInv, DedupInv, WebTypes
<1>10. PhaseInv'
  <2>1. ~Short(payload[r]) /\ answer[r] = "-"
    BY <1>2 DEF WebInv, DedupInv, PhaseInv
  <2> QED BY <1>2, <1>6, <1>7, <2>1 DEF WebInv, DedupInv, WebTypes, PhaseInv
<1>11. EntryInv'
  <2> SUFFICES ASSUME NEW b \in Alerts, NEW v \in Nat, Out(b, v)'
               PROVE  v <= window'[b] /\ (v = window'[b] => b \in seen')
    BY DEF EntryInv
  <2>1. Out(b, v) \/ (result /\ b = a /\ v = w)
    BY <1>2, <1>6 DEF Out
  <2>2. CASE result /\ b = a /\ v = w BY <1>2, <1>3, <2>2
  <2>3. CASE Out(b, v)
    <3>1. v <= window[b] /\ (v = window[b] => b \in seen) /\ window[b] <= window'[b]
          /\ window[b] \in Nat /\ window'[b] \in Nat
      BY <1>3, <2>3 DEF WebInv, DedupInv, EntryInv, WebTypes
    <3> QED BY <1>3, <3>1
  <2> QED BY <2>1, <2>2, <2>3
<1>12. OneJobPerWindow'
  <2>1. result => <<a, w>> \notin jobs /\ \A q \in Requests : <<a, w>> \notin fresh[q]
    BY <1>3 DEF Out
  <2>2. \A q \in Requests : InProgress(q)' => InProgress(q)
    BY <1>2, <1>7 DEF WebInv, DedupInv, WebTypes, InProgress
  <2>3. \A q \in Requests : InProgress(q)' =>
           /\ fresh'[q] \intersect jobs' = {}
           /\ \A p \in Requests \ {q} : InProgress(p)' => fresh'[q] \intersect fresh'[p] = {}
    BY <1>2, <1>6, <2>1, <2>2 DEF WebInv, DedupInv, OneJobPerWindow
  <2> QED BY <2>3 DEF OneJobPerWindow
<1>13. NoSilentSuppression'
  <2> SUFFICES ASSUME NEW b \in seen'
               PROVE  \/ <<b, window'[b]>> \in jobs' \union dropped'
                      \/ \E q \in Requests : InProgress(q)' /\ <<b, window'[b]>> \in fresh'[q]
    BY DEF NoSilentSuppression
  <2>1. CASE result /\ b = a
    <3>1. <<b, window'[b]>> \in fresh'[r] BY <1>3, <1>5, <1>6, <2>1
    <3>2. InProgress(r)'
      BY <1>2, <1>5, <1>7, <2>1 DEF WebInv, DedupInv, WebTypes, InProgress
    <3> QED BY <3>1, <3>2
  <2>2. CASE ~(result /\ b = a)
    <3>1. b \in seen /\ window'[b] = window[b]
      BY <1>3, <2>2 DEF WebInv, DedupInv, WebTypes
    <3>2. CASE <<b, window[b]>> \in jobs \union dropped BY <1>2, <3>1, <3>2
    <3>3. CASE \E q \in Requests : InProgress(q) /\ <<b, window[b]>> \in fresh[q]
      <4>1. PICK q \in Requests : InProgress(q) /\ <<b, window[b]>> \in fresh[q]
        BY <3>3
      <4>2. <<b, window'[b]>> \in fresh'[q] BY <1>6, <3>1, <4>1
      <4>3. InProgress(q)'
        BY <1>2, <1>6, <1>7, <4>1, <4>2 DEF WebInv, DedupInv, WebTypes, InProgress
      <4> QED BY <4>2, <4>3
    <3> QED BY <3>1, <3>2, <3>3 DEF WebInv, DedupInv, NoSilentSuppression
  <2> QED BY <2>1, <2>2
<1>14. /\ \A q \in Requests, S \in SUBSET Alerts : Cleared(q, S) => Cleared(q, S)'
       /\ \A q \in Requests, b \in Alerts : arrived'[q][b] <= window'[b]
       /\ \A q \in Requests : payload[q].resolved \in SUBSET Alerts
  BY <1>2, <1>3, <1>9, ClearedStays
<1>15. Cleared(r, payload[r].resolved)'
  BY <1>2, <1>14 DEF WebInv, ClearInv
<1>16. \A q \in Requests : q # r => pc'[q] = pc[q] /\ todo'[q] = todo[q]
                                    /\ answer'[q] = answer[q]
  BY <1>7, <1>8 DEF WebInv, DedupInv, WebTypes
<1>17. pc'[r] \in {"dedup", "enqueue", "done"}
  BY <1>2, <1>7 DEF WebInv, DedupInv, WebTypes
<1>18. ClearInv'
  BY <1>2, <1>14, <1>15, <1>16, <1>17 DEF WebInv, ClearInv
<1>19. AnsweredMeansCleared'
  <2>1. \A a1 \in payload'[r].resolved \ kept' : window'[a1] > arrived'[r][a1]
    BY <1>2, <1>15 DEF Cleared
  <2>2. \A q \in Requests : q # r /\ answer'[q] \notin {"-", "lost", "refused"} =>
           \A a1 \in payload'[q].resolved \ kept' : window'[a1] > arrived'[q][a1]
    BY <1>2, <1>14, <1>16 DEF WebInv, AnsweredMeansCleared, Cleared
  <2> QED BY <2>1, <2>2 DEF AnsweredMeansCleared
<1> QED BY <1>9, <1>10, <1>11, <1>12, <1>13, <1>18, <1>19 DEF WebInv, DedupInv

\* A request ends and hands over what it holds.
LEMMA HandOverStep ==
    ASSUME WebInv, NEW r \in Requests, pc[r] = "enqueue",
           pc' = [pc EXCEPT ![r] = "done"],
           answer' \in [Requests -> Answers \union {"-"}],
           \A q \in Requests : q # r => answer'[q] = answer[q],
           \/ jobs' = jobs \union fresh[r] /\ dropped' = dropped
           \/ dropped' = dropped \union fresh[r] /\ jobs' = jobs,
           UNCHANGED <<stores, payload, todo, fresh, arrived>>
    PROVE  WebInv'
<1> USE DEF stores
<1>1. /\ pc'[r] = "done" /\ \A q \in Requests : q # r => pc'[q] = pc[q]
      /\ jobs \union dropped \union fresh[r] = jobs' \union dropped'
      /\ jobs \subseteq jobs' /\ jobs' \subseteq jobs \union fresh[r]
  BY DEF WebInv, DedupInv, WebTypes
<1>2. WebTypes' BY DEF WebInv, DedupInv, WebTypes, Phases
<1>3. PhaseInv' BY <1>1 DEF WebInv, DedupInv, PhaseInv
<1>4. EntryInv'
  <2>1. \A a \in Alerts, w \in Nat : Out(a, w)' => Out(a, w) BY <1>1 DEF Out
  <2> QED BY <2>1 DEF WebInv, DedupInv, EntryInv
<1>5. OneJobPerWindow'
  BY <1>1 DEF WebInv, DedupInv, OneJobPerWindow, InProgress
<1>6. NoSilentSuppression'
  BY <1>1 DEF WebInv, DedupInv, NoSilentSuppression, InProgress
<1>7. ClearInv' BY <1>1 DEF WebInv, ClearInv, Cleared
<1>8. AnsweredMeansCleared'
  <2>1. \A a \in payload[r].resolved \ kept : window[a] > arrived[r][a]
    BY DEF WebInv, ClearInv, Cleared
  <2> QED BY <2>1 DEF WebInv, AnsweredMeansCleared
<1> QED BY <1>2, <1>3, <1>4, <1>5, <1>6, <1>7, <1>8 DEF WebInv, DedupInv

LEMMA EnqueueJobStep ==
    ASSUME WebInv, NEW r \in Requests, EnqueueJob(r)
    PROVE  WebInv'
<1>1. PICK origin \in {"resolved", "paused", "firing"}, prompt \in BOOLEAN,
           text \in {"resolved", "paused", "accepted"}, alerts \in {{}, fresh[r]} :
        /\ Enqueue(origin, prompt, alerts) /\ Reply(r, text)
        /\ alerts = {} => Short(payload[r])
  BY DEF EnqueueJob, Short
<1>2. pc[r] = "enqueue" /\ UNCHANGED <<stores, payload, todo, fresh, arrived>>
  BY DEF EnqueueJob
<1>3. alerts = fresh[r] BY <1>1, <1>2 DEF WebInv, DedupInv, PhaseInv
<1>4. \/ jobs' = jobs \union fresh[r] /\ dropped' = dropped
      \/ dropped' = dropped \union fresh[r] /\ jobs' = jobs
  BY <1>1, <1>3 DEF Enqueue
<1>5. /\ pc' = [pc EXCEPT ![r] = "done"] /\ answer' = [answer EXCEPT ![r] = text]
      /\ answer' \in [Requests -> Answers \union {"-"}]
      /\ \A q \in Requests : q # r => answer'[q] = answer[q]
  BY <1>1 DEF Reply, Answers, WebInv, DedupInv, WebTypes
<1> QED BY <1>2, <1>4, <1>5, HandOverStep

LEMMA CrashStep ==
    ASSUME WebInv, Crash
    PROVE  WebInv'
<1>1. /\ UNCHANGED <<payload, todo, fresh, arrived, jobs, kept>>
      /\ pc' = [q \in Requests |-> IF InProgress(q) THEN "done" ELSE pc[q]]
      /\ answer' = [q \in Requests |-> IF InProgress(q) THEN "lost" ELSE answer[q]]
      /\ dropped' = dropped \union UNION {fresh[q] : q \in {q \in Requests : InProgress(q)}}
  BY DEF Crash
<1>2. \/ UNCHANGED <<seen, window>>
      \/ seen' = {} /\ Ends(Alerts)
  BY DEF Crash
<1>3. /\ window' \in [Alerts -> Nat] /\ seen' \in SUBSET Alerts
      /\ \A a \in Alerts : window[a] <= window'[a]
  <2>1. CASE UNCHANGED <<seen, window>> BY <2>1 DEF WebInv, DedupInv, WebTypes
  <2>2. CASE seen' = {} /\ Ends(Alerts) BY <2>2, EndsStep DEF WebInv, DedupInv
  <2> QED BY <1>2, <2>1, <2>2
<1>4. WebTypes'
  <2>1. dropped' \in SUBSET Windowed BY <1>1 DEF WebInv, DedupInv, WebTypes
  <2>2. pc' \in [Requests -> Phases] /\ answer' \in [Requests -> Answers \union {"-"}]
    BY <1>1 DEF WebInv, DedupInv, WebTypes, Phases, Answers
  <2> QED BY <1>1, <1>3, <2>1, <2>2 DEF WebInv, DedupInv, WebTypes
<1>5. \A q \in Requests : /\ pc'[q] \in {"new", "done"}
                          /\ pc'[q] = "new" => pc[q] = "new" /\ answer'[q] = answer[q]
                          /\ ~InProgress(q)'
                          /\ answer'[q] # answer[q] => answer'[q] = "lost"
  BY <1>1 DEF InProgress
<1>6. PhaseInv' BY <1>1, <1>5 DEF WebInv, DedupInv, PhaseInv
<1>7. EntryInv'
  <2>1. CASE UNCHANGED <<seen, window>>
    BY <1>1, <2>1 DEF WebInv, DedupInv, EntryInv, Out
  <2>2. CASE seen' = {} /\ Ends(Alerts)
    <3>1. seen' = seen \ Alerts BY <2>2 DEF WebInv, DedupInv, WebTypes
    <3> QED BY <1>1, <2>2, <3>1, EntriesEnd DEF WebInv
  <2> QED BY <1>2, <2>1, <2>2
<1>8. OneJobPerWindow' BY <1>5 DEF OneJobPerWindow
<1>9. NoSilentSuppression'
  <2>1. CASE UNCHANGED <<seen, window>>
    <3> SUFFICES ASSUME NEW a \in seen
                 PROVE  <<a, window[a]>> \in jobs \union dropped'
      BY <1>1, <2>1 DEF NoSilentSuppression
    <3>1. CASE <<a, window[a]>> \in jobs \union dropped BY <1>1, <3>1
    <3>2. CASE \E q \in Requests : InProgress(q) /\ <<a, window[a]>> \in fresh[q]
      BY <1>1, <3>2
    <3> QED BY <3>1, <3>2 DEF WebInv, DedupInv, NoSilentSuppression
  <2>2. CASE seen' = {} BY <2>2 DEF NoSilentSuppression
  <2> QED BY <1>2, <2>1, <2>2
<1>10. /\ \A q \in Requests, S \in SUBSET Alerts : Cleared(q, S) => Cleared(q, S)'
       /\ \A q \in Requests, b \in Alerts : arrived'[q][b] <= window'[b]
       /\ \A q \in Requests : payload[q].resolved \in SUBSET Alerts
  BY <1>1, <1>3, <1>4, ClearedStays
<1>11. ClearInv' BY <1>5, <1>10 DEF ClearInv
<1>12. AnsweredMeansCleared'
  BY <1>1, <1>5, <1>10 DEF WebInv, AnsweredMeansCleared, Cleared
<1> QED BY <1>4, <1>6, <1>7, <1>8, <1>9, <1>11, <1>12 DEF WebInv, DedupInv

LEMMA NextWebInv == WebInv /\ [Next]_vars => WebInv'
  BY ReceiveStep, RefuseStep, ClearOneStep, CheckOneStep, EnqueueJobStep,
     WorkerStep, CrashStep, ExpireStep DEF Next, Handle

LEMMA WebInvHolds == Spec => []WebInv
<1> QED BY InitWebInv, NextWebInv, PTL DEF Spec

\* However many requests bring the same alerts at once, in whatever order their
\* calls of the store and the queue interleave: an alert gets one job at most
\* between two ends of its entry, and an error of Redis or a crash starts a new
\* window (handler.go: freshAlerts, alertDedupKey).
THEOREM OneJobAtMost == Spec => []OneJobPerWindow
<1>1. WebInv => OneJobPerWindow BY DEF WebInv, DedupInv
<1> QED BY <1>1, WebInvHolds, PTL

\* An alert is suppressed only where its job was queued, dropped knowingly or is
\* still to come.
THEOREM SuppressedForAReason == Spec => []NoSilentSuppression
<1>1. WebInv => NoSilentSuppression BY DEF WebInv, DedupInv
<1> QED BY <1>1, WebInvHolds, PTL

\* Every resolved alert of an answered request had its slot freed, or its DEL
\* failed.
THEOREM AnsweredHaveCleared == Spec => []AnsweredMeansCleared
<1>1. WebInv => AnsweredMeansCleared BY DEF WebInv
<1> QED BY <1>1, WebInvHolds, PTL

----------------------------------------------------------------------------
(* The queue: jobs are numbered by the requests answered before, so those  *)
(* of the queue increase, and all are below the next one.                  *)

Increasing(s) == \A i, j \in 1..Len(s) : i < j => s[i].number < s[j].number
Below(s, n) == \A i \in 1..Len(s) : s[i].number < n
Older(job, s) == \A i \in 1..Len(s) : job.number < s[i].number

QueueTypes ==
    /\ backend \in Backends
    /\ queue \in Seq(Job) /\ (backend = "memory" => Len(queue) <= Capacity)
    /\ inHand \in Job \union {NoJob}
    /\ left \in SUBSET Job /\ (backend = "memory" => left = {})
    /\ expiries \in 0..MaxExpiries /\ troubles \in 0..MaxTroubles

LineInv ==
    /\ Increasing(queue) /\ Below(queue, NextNumber)
    /\ \A job \in Had : job.number < NextNumber /\ Older(job, queue)

QueueInv == QueueTypes /\ LineInv

\* A sequence of jobs that loses its first or gets a last one.
LEMMA LineShrinks ==
    ASSUME NEW s \in Seq(Job), s # <<>>, NEW n \in Nat, Increasing(s), Below(s, n)
    PROVE  /\ Tail(s) \in Seq(Job) /\ Head(s) \in Job
           /\ Increasing(Tail(s)) /\ Below(Tail(s), n)
           /\ Head(s).number < n /\ Older(Head(s), Tail(s))
           /\ \A job \in Job : Older(job, s) => Older(job, Tail(s))
<1>1. /\ Tail(s) \in Seq(Job) /\ Head(s) \in Job /\ Head(s) = s[1]
      /\ Len(Tail(s)) = Len(s) - 1 /\ Len(s) \in Nat
      /\ \A i \in 1..Len(Tail(s)) : Tail(s)[i] = s[i + 1]
  BY HeadTailProperties
<1>2. /\ \A i \in 1..Len(Tail(s)) : i + 1 \in 1..Len(s) /\ 1 < i + 1
      /\ 1 \in 1..Len(s)
  BY <1>1, EmptySeq
<1>3. Increasing(Tail(s))
  <2> SUFFICES ASSUME NEW i \in 1..Len(Tail(s)), NEW j \in 1..Len(Tail(s)), i < j
               PROVE  Tail(s)[i].number < Tail(s)[j].number
    BY DEF Increasing
  <2>1. i + 1 < j + 1 OBVIOUS
  <2>2. s[i + 1].number < s[j + 1].number BY <1>2, <2>1 DEF Increasing
  <2> QED BY <1>1, <2>2
<1>4. Below(Tail(s), n) /\ \A job \in Job : Older(job, s) => Older(job, Tail(s))
  BY <1>1, <1>2 DEF Below, Older
<1>5. Head(s).number < n BY <1>1, <1>2 DEF Below
<1>6. Older(Head(s), Tail(s))
  <2> SUFFICES ASSUME NEW i \in 1..Len(Tail(s)) PROVE s[1].number < Tail(s)[i].number
    BY <1>1 DEF Older
  <2> QED BY <1>1, <1>2 DEF Increasing
<1> QED BY <1>1, <1>3, <1>4, <1>5, <1>6

LEMMA LineGrows ==
    ASSUME NEW s \in Seq(Job), NEW job \in Job, NEW n \in Nat, job.number = n,
           Increasing(s), Below(s, n)
    PROVE  /\ Append(s, job) \in Seq(Job)
           /\ Increasing(Append(s, job)) /\ Below(Append(s, job), n + 1)
           /\ Len(Append(s, job)) = Len(s) + 1
           /\ \A old \in Job : old.number < n /\ Older(old, s) => Older(old, Append(s, job))
<1> DEFINE t == Append(s, job)
<1>1. /\ t \in Seq(Job) /\ Len(t) = Len(s) + 1 /\ Len(s) \in Nat
      /\ \A i \in 1..Len(s) : t[i] = s[i]
      /\ t[Len(s) + 1] = job
  BY AppendProperties
<1>2. \A i \in 1..Len(s) : s[i].number \in Nat
  <2>1. \A i \in 1..Len(s) : s[i] \in Job BY ElementOfSeq
  <2> QED BY <2>1 DEF Job
<1> HIDE DEF t
<1>3. \A i \in 1..Len(t) : i \in 1..Len(s) \/ i = Len(s) + 1 BY <1>1
<1>4. \A i \in 1..Len(s) : t[i].number < n /\ t[i].number \in Nat
  BY <1>1, <1>2 DEF Below
<1>5. Increasing(t)
  <2> SUFFICES ASSUME NEW i \in 1..Len(t), NEW j \in 1..Len(t), i < j
               PROVE  t[i].number < t[j].number
    BY DEF Increasing
  <2>1. i \in 1..Len(s) BY <1>1
  <2>2. CASE j \in 1..Len(s) BY <1>1, <2>1, <2>2 DEF Increasing
  <2>3. CASE j = Len(s) + 1 BY <1>1, <1>4, <2>1, <2>3
  <2> QED BY <1>3, <2>2, <2>3
<1>6. Below(t, n + 1)
  <2> SUFFICES ASSUME NEW i \in 1..Len(t) PROVE t[i].number < n + 1
    BY DEF Below
  <2> QED BY <1>1, <1>3, <1>4
<1>7. ASSUME NEW old \in Job, old.number < n, Older(old, s) PROVE Older(old, t)
  <2> SUFFICES ASSUME NEW i \in 1..Len(t) PROVE old.number < t[i].number
    BY DEF Older
  <2>1. CASE i \in 1..Len(s) BY <1>1, <1>7, <2>1 DEF Older
  <2>2. CASE i = Len(s) + 1 BY <1>1, <1>7, <2>2
  <2> QED BY <1>3, <2>1, <2>2
<1> QED BY <1>1, <1>5, <1>6, <1>7 DEF t

\* The numbers.
LEMMA NumberType == NextNumber \in Nat /\ NextNumber' \in Nat
<1>1. IsFiniteSet({r \in Requests : answer[r] # "-"})
  BY WebhookConstants, FS_Subset
<1>2. IsFiniteSet({r \in Requests : answer'[r] # "-"})
  BY WebhookConstants, FS_Subset
<1> QED BY <1>1, <1>2, FS_CardinalityType DEF NextNumber

LEMMA NumbersGrow ==
    ASSUME \A r \in Requests : answer[r] # "-" => answer'[r] # "-"
    PROVE  NextNumber <= NextNumber'
<1> DEFINE A == {r \in Requests : answer[r] # "-"}
           B == {r \in Requests : answer'[r] # "-"}
<1>1. IsFiniteSet(B) BY WebhookConstants, FS_Subset
<1>2. A \in SUBSET B OBVIOUS
<1> HIDE DEF A, B
<1>3. Cardinality(A) <= Cardinality(B) BY <1>1, <1>2, FS_Subset
<1>4. Cardinality(A) \in Nat /\ Cardinality(B) \in Nat
  BY <1>1, <1>2, FS_Subset, FS_CardinalityType
<1>5. 1 + Cardinality(A) <= 1 + Cardinality(B) BY <1>3, <1>4
<1> QED BY <1>5 DEF NextNumber, A, B

LEMMA ReplyCounts ==
    ASSUME WebTypes, NEW r \in Requests, answer[r] = "-",
           NEW text \in Answers, answer' = [answer EXCEPT ![r] = text]
    PROVE  NextNumber' = NextNumber + 1
<1> DEFINE A == {q \in Requests : answer[q] # "-"}
           B == {q \in Requests : answer'[q] # "-"}
<1>1. IsFiniteSet(A) BY WebhookConstants, FS_Subset
<1>2. text # "-" BY DEF Answers
<1>3. r \notin A /\ B = A \union {r} BY <1>2 DEF WebTypes
<1> HIDE DEF A, B
<1>4. Cardinality(B) = Cardinality(A) + 1 /\ Cardinality(A) \in Nat
  BY <1>1, <1>3, FS_AddElement, FS_CardinalityType
<1>5. 1 + Cardinality(B) = (1 + Cardinality(A)) + 1 BY <1>4
<1> QED BY <1>5 DEF NextNumber, A, B

\* A request that was answered stays so.
LEMMA AnswersStay ==
    ASSUME WebInv, [Next]_vars
    PROVE  \A r \in Requests : answer[r] # "-" => answer'[r] # "-"
<1> SUFFICES ASSUME NEW r \in Requests, answer[r] # "-" PROVE answer'[r] # "-"
  OBVIOUS
<1>1. pc[r] = "done" BY DEF WebInv, DedupInv, PhaseInv
<1>2. ASSUME NEW q \in Requests, Handle(q) PROVE answer'[r] = answer[r]
  <2>1. pc[q] # "done" /\ q # r
    BY <1>1, <1>2 DEF Handle, Receive, Refuse, ClearOne, CheckOne, EnqueueJob
  <2>2. \/ UNCHANGED answer
        \/ \E text \in Answers : Reply(q, text)
    BY <1>2 DEF Handle, Receive, Refuse, ClearOne, CheckOne, EnqueueJob, Answers
  <2> QED BY <2>1, <2>2 DEF Reply, WebInv, DedupInv, WebTypes
<1>3. CASE Crash BY <1>1, <1>3 DEF Crash, InProgress
<1>4. CASE UNCHANGED answer BY <1>4
<1> QED BY <1>2, <1>3, <1>4 DEF Next, Take, Reclaim, Finish, Expire, vars, request

\* A step after which the queue has lost its first job at most, and the worker
\* has had no other.
LEMMA LineMoves ==
    ASSUME WebInv, QueueInv, [Next]_vars,
           \/ queue' = queue /\ Had' \subseteq Had
           \/ queue # <<>> /\ queue' = Tail(queue) /\ Had' \subseteq Had \union {Head(queue)}
           \/ queue' = <<>> /\ Had' \subseteq Had
    PROVE  LineInv' /\ queue' \in Seq(Job)
<1>1. /\ queue \in Seq(Job) /\ Increasing(queue) /\ Below(queue, NextNumber)
      /\ \A job \in Had : job \in Job /\ job.number < NextNumber /\ Older(job, queue)
      /\ NextNumber \in Nat /\ NextNumber' \in Nat /\ NextNumber <= NextNumber'
  BY NumberType, AnswersStay, NumbersGrow DEF QueueInv, QueueTypes, LineInv, Had
<1> DEFINE Fits(q, H) ==
              /\ q \in Seq(Job) /\ Increasing(q) /\ Below(q, NextNumber)
              /\ \A job \in H : job \in Job /\ job.number < NextNumber /\ Older(job, q)
<1>2. Fits(queue', Had')
  <2>1. CASE queue' = queue /\ Had' \subseteq Had BY <1>1, <2>1
  <2>2. CASE /\ queue # <<>> /\ queue' = Tail(queue)
             /\ Had' \subseteq Had \union {Head(queue)}
    <3> DEFINE q == queue
    <3>1. /\ q \in Seq(Job) /\ q # <<>> /\ Increasing(q) /\ Below(q, NextNumber)
      BY <1>1, <2>2
    <3> HIDE DEF q
    <3>2. /\ Tail(q) \in Seq(Job) /\ Head(q) \in Job
          /\ Increasing(Tail(q)) /\ Below(Tail(q), NextNumber)
          /\ Head(q).number < NextNumber /\ Older(Head(q), Tail(q))
          /\ \A job \in Job : Older(job, q) => Older(job, Tail(q))
      BY <1>1, <3>1, LineShrinks
    <3>3. queue' = Tail(q) /\ Had' \subseteq Had \union {Head(q)} BY <2>2 DEF q
    <3>4. \A job \in Had : Older(job, q) BY <1>1 DEF q
    <3> QED BY <1>1, <3>2, <3>3, <3>4
  <2>3. CASE queue' = <<>> /\ Had' \subseteq Had
    <3>1. Len(<<>>) = 0 /\ <<>> \in Seq(Job) OBVIOUS
    <3>2. Increasing(<<>>) /\ Below(<<>>, NextNumber) BY <3>1 DEF Increasing, Below
    <3>3. \A job \in Had : Older(job, <<>>) BY <3>1 DEF Older
    <3> QED BY <1>1, <2>3, <3>1, <3>2, <3>3
  <2> QED BY <2>1, <2>2, <2>3
<1>3. Below(queue', NextNumber')
  <2> SUFFICES ASSUME NEW i \in 1..Len(queue') PROVE queue'[i].number < NextNumber'
    BY DEF Below
  <2>1. queue'[i].number < NextNumber BY <1>2 DEF Below
  <2>2. queue'[i] \in Job BY <1>2, ElementOfSeq
  <2>3. queue'[i].number \in Nat BY <2>2 DEF Job
  <2> QED BY <1>1, <2>1, <2>3
<1>4. \A job \in Had' : job.number < NextNumber' /\ Older(job, queue')
  <2> SUFFICES ASSUME NEW job \in Had' PROVE job.number < NextNumber' /\ Older(job, queue')
    OBVIOUS
  <2>1. job \in Job /\ job.number < NextNumber /\ Older(job, queue') BY <1>2
  <2>2. job.number \in Nat BY <2>1 DEF Job
  <2> QED BY <1>1, <2>1, <2>2
<1>5. Increasing(queue)' <=> Increasing(queue') BY DEF Increasing
<1>6. Below(queue, NextNumber)' <=> Below(queue', NextNumber') BY DEF Below
<1> QED BY <1>2, <1>3, <1>4, <1>5, <1>6 DEF LineInv, Older

\* A step that leaves the queue and the worker alone.
LEMMA LineStays ==
    ASSUME WebInv, QueueInv, [Next]_vars, UNCHANGED <<queue, worker>>
    PROVE  LineInv'
<1>1. Had' = Had BY DEF Had, worker
<1> QED BY <1>1, LineMoves

LEMMA TakeStep ==
    ASSUME WebInv, QueueInv, Take
    PROVE  QueueInv'
<1>1. /\ inHand = NoJob /\ queue # <<>> /\ queue \in Seq(Job)
      /\ queue' = Tail(queue) /\ UNCHANGED <<backend, expiries>>
      /\ \/ inHand' = Head(queue) /\ UNCHANGED <<left, troubles>>
         \/ StoreError /\ left' = left \union {Head(queue)} /\ inHand' = NoJob
  BY DEF Take, QueueInv, QueueTypes
<1>2. /\ Tail(queue) \in Seq(Job) /\ Head(queue) \in Job
      /\ Len(Tail(queue)) <= Len(queue) /\ Len(queue) \in Nat /\ Len(Tail(queue)) \in Nat
  BY <1>1, HeadTailProperties
<1>3. QueueTypes'
  <2>1. backend' = "memory" => Len(queue') <= Capacity
    BY <1>1, <1>2, WebhookConstants DEF QueueInv, QueueTypes
  <2>2. troubles' \in 0..MaxTroubles
    BY <1>1, WebhookConstants DEF StoreError, Trouble, QueueInv, QueueTypes
  <2>3. left' \in SUBSET Job /\ (backend' = "memory" => left' = {})
    BY <1>1, <1>2 DEF StoreError, QueueInv, QueueTypes
  <2> QED BY <1>1, <1>2, <2>1, <2>2, <2>3 DEF QueueInv, QueueTypes
<1>4. Had' \subseteq Had \union {Head(queue)} BY <1>1 DEF Had
<1>5. LineInv' BY <1>1, <1>4, LineMoves DEF Next
<1> QED BY <1>3, <1>5 DEF QueueInv

\* Of the jobs the worker has had, one comes to hand again or one leaves it.
LEMMA HandStep ==
    ASSUME WebInv, QueueInv, Reclaim \/ Finish
    PROVE  QueueInv'
<1>1. UNCHANGED <<backend, queue, expiries, troubles>> BY DEF Reclaim, Finish
<1>2. /\ inHand' \in Job \union {NoJob} /\ left' \in SUBSET Job
      /\ (backend = "memory" => left' = {}) /\ Had' \subseteq Had
  <2>1. CASE Reclaim
    <3>1. PICK job \in left : inHand' = job /\ left' = left \ {job} BY <2>1 DEF Reclaim
    <3> QED BY <3>1 DEF Had, QueueInv, QueueTypes
  <2>2. CASE Finish BY <2>2 DEF Finish, Had, QueueInv, QueueTypes
  <2> QED BY <2>1, <2>2
<1>3. QueueTypes' BY <1>1, <1>2 DEF QueueInv, QueueTypes
<1>4. LineInv' BY <1>1, <1>2, LineMoves DEF Next
<1> QED BY <1>3, <1>4 DEF QueueInv

LEMMA EnqueueStep ==
    ASSUME WebInv, QueueInv, NEW r \in Requests, EnqueueJob(r)
    PROVE  QueueInv'
<1>1. PICK origin \in {"resolved", "paused", "firing"}, prompt \in BOOLEAN,
           text \in Answers, alerts \in {{}, fresh[r]} :
        Enqueue(origin, prompt, alerts) /\ Reply(r, text)
  BY DEF EnqueueJob, Answers
<1>2. /\ pc[r] = "enqueue" /\ answer[r] = "-"
      /\ UNCHANGED <<backend, inHand, left, worker, expiries>>
  BY DEF EnqueueJob, WebInv, DedupInv, PhaseInv, worker
<1>3. [Next]_vars BY DEF Next, Handle
<1>4. CASE /\ backend = "redis" \/ ~Full
           /\ queue' = Append(queue, [number |-> NextNumber, origin |-> origin, prompt |-> prompt])
           /\ UNCHANGED troubles
  <2> DEFINE job == [number |-> NextNumber, origin |-> origin, prompt |-> prompt]
  <2>1. job \in Job /\ job.number = NextNumber BY NumberType DEF Job
  <2> HIDE DEF job
  <2>2. /\ queue \in Seq(Job) /\ Increasing(queue) /\ Below(queue, NextNumber)
        /\ \A old \in Had : old \in Job /\ old.number < NextNumber /\ Older(old, queue)
        /\ NextNumber \in Nat /\ Len(queue) \in Nat /\ queue' = Append(queue, job)
    BY <1>4, NumberType, LenProperties DEF QueueInv, QueueTypes, LineInv, Had, job
  <2>3. /\ queue' \in Seq(Job) /\ Len(queue') = Len(queue) + 1
        /\ Increasing(queue') /\ Below(queue', NextNumber + 1)
        /\ \A old \in Had : Older(old, queue')
    BY <2>1, <2>2, LineGrows
  <2>4. backend = "memory" => Len(queue') <= Capacity
    BY <1>4, <2>2, <2>3, WebhookConstants DEF Full
  <2>5. QueueTypes' BY <1>2, <1>4, <2>3, <2>4 DEF QueueInv, QueueTypes
  <2>6. NextNumber' = NextNumber + 1
    BY <1>1, <1>2, ReplyCounts DEF Reply, WebInv, DedupInv
  <2>7. Had' = Had BY <1>2 DEF Had
  <2>8. \A old \in Had' : old.number < NextNumber' /\ Older(old, queue')
    <3> SUFFICES ASSUME NEW old \in Had PROVE old.number < NextNumber + 1
      BY <2>3, <2>6, <2>7
    <3>1. old \in Job /\ old.number < NextNumber BY <2>2
    <3>2. old.number \in Nat BY <3>1 DEF Job
    <3> QED BY <2>2, <3>1, <3>2
  <2>9. LineInv' BY <2>3, <2>6, <2>8 DEF LineInv, Increasing, Below, Older
  <2> QED BY <2>5, <2>9 DEF QueueInv
<1>5. CASE UNCHANGED queue /\ (UNCHANGED troubles \/ StoreError)
  <2>1. QueueTypes'
    BY <1>2, <1>5, WebhookConstants DEF QueueInv, QueueTypes, StoreError, Trouble
  <2>2. LineInv' BY <1>2, <1>3, <1>5, LineStays
  <2> QED BY <2>1, <2>2 DEF QueueInv
<1> QED BY <1>1, <1>4, <1>5 DEF Enqueue

LEMMA CrashLine ==
    ASSUME WebInv, QueueInv, Crash
    PROVE  QueueInv'
<1>1. /\ inHand' = NoJob /\ Trouble /\ UNCHANGED <<backend, expiries>>
      /\ IF backend = "redis"
           THEN left' = left \union ({inHand} \ {NoJob}) /\ queue' = queue
           ELSE queue' = <<>> /\ left' = {}
  BY DEF Crash
<1>2. Had' \subseteq Had BY <1>1 DEF Had
<1>3. LineInv' /\ queue' \in Seq(Job) BY <1>1, <1>2, LineMoves DEF Next
<1>4. QueueTypes'
  <2>1. Len(<<>>) = 0 OBVIOUS
  <2>2. backend' = "memory" => Len(queue') <= Capacity
    BY <1>1, <2>1, WebhookConstants
  <2>3. left' \in SUBSET Job /\ (backend' = "memory" => left' = {})
    BY <1>1 DEF QueueInv, QueueTypes
  <2> QED BY <1>1, <1>3, <2>2, <2>3, WebhookConstants DEF QueueInv, QueueTypes, Trouble
<1> QED BY <1>3, <1>4 DEF QueueInv

LEMMA NextQueueInv == WebInv /\ QueueInv /\ [Next]_vars => QueueInv'
<1> SUFFICES ASSUME WebInv, QueueInv, [Next]_vars PROVE QueueInv'
  OBVIOUS
<1>1. ASSUME UNCHANGED <<backend, queue, inHand, left>>, expiries' \in 0..MaxExpiries,
             UNCHANGED troubles \/ Trouble
      PROVE  QueueInv'
  <2>1. QueueTypes' BY <1>1, WebhookConstants DEF QueueInv, QueueTypes, Trouble
  <2> QED BY <1>1, <2>1, LineStays DEF QueueInv, worker
<1>2. expiries \in 0..MaxExpiries BY DEF QueueInv, QueueTypes
<1>3. ASSUME NEW r \in Requests, Receive(r) \/ Refuse(r) \/ ClearOne(r) \/ CheckOne(r)
      PROVE  QueueInv'
  <2>1. UNCHANGED <<backend, queue, inHand, left, expiries>>
    BY <1>3 DEF Receive, Refuse, ClearOne, CheckOne, worker
  <2>2. UNCHANGED troubles \/ Trouble
    BY <1>3 DEF Receive, Refuse, ClearOne, CheckOne, Clear, ShouldProcess, FailOpen, StoreError
  <2> QED BY <1>1, <1>2, <2>1, <2>2
<1>4. ASSUME NEW r \in Requests, EnqueueJob(r) PROVE QueueInv'
  BY <1>4, EnqueueStep
<1>5. CASE Take \/ Reclaim \/ Finish \/ Crash BY <1>5, TakeStep, HandStep, CrashLine
<1>6. ASSUME NEW a \in Alerts, Expire(a) PROVE QueueInv'
  <2>1. /\ UNCHANGED <<backend, queue, inHand, left, troubles>>
        /\ expiries' = expiries + 1 /\ expiries < MaxExpiries
    BY <1>6 DEF Expire, worker
  <2>2. expiries' \in 0..MaxExpiries BY <1>2, <2>1, WebhookConstants
  <2> QED BY <1>1, <2>1, <2>2
<1>7. CASE UNCHANGED vars BY <1>1, <1>2, <1>7 DEF vars, worker
<1> QED BY <1>3, <1>4, <1>5, <1>6, <1>7 DEF Next, Handle

LEMMA InitQueueInv == Init => QueueInv
<1> SUFFICES ASSUME Init PROVE QueueInv
  OBVIOUS
<1>1. QueueTypes
  <2>1. Earlier \in Job BY DEF Earlier, Job
  <2> QED BY <2>1, WebhookConstants, EmptySeq DEF Init, QueueTypes
<1>2. Had \subseteq {Earlier} /\ queue = <<>> /\ Len(<<>>) = 0 BY DEF Init, Had
<1>3. Earlier.number < NextNumber
  <2>1. {r \in Requests : answer[r] # "-"} = {} BY DEF Init
  <2>2. NextNumber = 1 BY <2>1, FS_EmptySet DEF NextNumber
  <2> QED BY <2>2 DEF Earlier
<1>4. LineInv BY <1>2, <1>3 DEF LineInv, Increasing, Below, Older
<1> QED BY <1>1, <1>4 DEF QueueInv

LEMMA QueueInvHolds == Spec => [](WebInv /\ QueueInv)
<1> QED BY InitWebInv, NextWebInv, InitQueueInv, NextQueueInv, PTL DEF Spec

\* The state is that of the code whatever overlaps: the buffer of the in-memory
\* queue is never overfull, and a job is one of the handler's.
THEOREM TypesHold == Spec => []TypeOK
<1>1. WebInv /\ QueueInv => TypeOK
  BY DEF WebInv, DedupInv, WebTypes, QueueInv, QueueTypes, TypeOK, Phases
<1> QED BY <1>1, QueueInvHolds, PTL

\* Jobs are read for the worker in the order in which the requests queued them; an
\* older one is behind a newer only after a crash, a lost reply, a failed attempt
\* or a failed ack has left it pending.
THEOREM FirstTakenInOrder == Spec => []InOrder
<1>1. QueueInv => InOrder
  BY DEF QueueInv, LineInv, Increasing, Older, InOrder
<1> QED BY <1>1, QueueInvHolds, PTL

=============================================================================
