----------------------------- MODULE McpClient -----------------------------
(***************************************************************************)
(* The MCP manager and its clients (mcp/client.go, mcp/config.go): one     *)
(* connection per server, opened one after the other at start-up, then     *)
(* used by the worker's tool calls and by requests of the Web UI           *)
(* (web/grafana_handler.go), which share it under the client's mutex.      *)
(* After a session error the holder of the mutex closes the connection,    *)
(* opens a new one with the context of its own call and repeats the call.  *)
(*                                                                         *)
(* A request goes out in one step, is carried out by the server in         *)
(* another and answered in a third: servers crash and come back, sessions  *)
(* expire, requests get lost and contexts end in between.  An SSE session  *)
(* ends with the context it was started with, as its stream does.  What a  *)
(* closed connection answers is up to the library (closedError).           *)
(***************************************************************************)
EXTENDS ToolNames

CONSTANTS
    Order,          \* names of the configured servers, sorted
    ToolsOf,        \* tools a server lists
    Type,           \* transport of a server: "sse", "http" or another word
    Refs,           \* environment variables the headers refer to
    Users,          \* worker and Web requests
    Main, Nobody,   \* the goroutine that starts up; no goroutine
    MaxTroubles     \* bound: crashes, lost sessions and requests, contexts that
                    \* end, misleading errors

Servers == {Order[i] : i \in DOMAIN Order}
Callers == Users \union {Main}

ASSUME McpConstants ==
    /\ Order \in Seq(Names) \ {<<>>}
    /\ ToolsOf \in [Servers -> SUBSET Names]
    /\ Type \in [Servers -> STRING]
    /\ Main \notin Users /\ Nobody \notin Callers
    /\ MaxTroubles \in Nat

VARIABLES
    mode,       \* of the process: "load", "boot", "ready", "failed"
    booting,    \* index of the server being started
    env,        \* environment variables that are set
    toolMap,    \* name offered to the LLM -> owning server
    \* connections, by server:
    conn,       \* c.client: "none", "open", "closed"
    known,      \* the server knows its session
    starter,    \* whose context it was started with
    mutex,      \* holder of c.mu
    \* callers:
    pc,         \* "idle", "lock", "send", "sent", "start", "initialize"
    call,       \* the call it makes: see NoCall
    over,       \* its context is over
    \* surroundings:
    up,         \* the server runs
    troubles,
    closedError \* error of a closed connection: "session" or "other"

process == <<mode, booting, env, toolMap>>
connections == <<conn, known, starter>>
surroundings == <<up, troubles, closedError>>
vars == <<process, connections, mutex, pc, call, over, surroundings>>

NoCall == [target |-> Order[1], name |-> <<>>, tool |-> <<>>, attempt |-> 1,
           reached |-> FALSE, ran |-> 0, retried |-> "no", outcome |-> "none"]

Init ==
    /\ mode = "load" /\ booting = 1
    /\ env \in SUBSET Refs
    /\ toolMap = [n \in {} |-> <<>>]
    /\ conn = [s \in Servers |-> "none"]
    /\ known = [s \in Servers |-> FALSE]
    /\ starter = [s \in Servers |-> Nobody]
    /\ mutex = [s \in Servers |-> Nobody]
    /\ pc = [c \in Callers |-> "idle"]
    /\ call = [c \in Callers |-> NoCall]
    /\ over = [c \in Callers |-> FALSE]
    /\ up \in [Servers -> BOOLEAN]
    /\ troubles = 0
    /\ closedError \in {"session", "other"}

----------------------------------------------------------------------------
(* Start-up.                                                               *)

\* NewManager gives up and closes what it has opened.
Abandon ==
    /\ mode' = "failed"
    /\ conn' = [s \in Servers |-> IF conn[s] = "open" THEN "closed" ELSE conn[s]]
    /\ pc' = [pc EXCEPT ![Main] = "idle"]

\* Every variable that a header refers to must be set.
LoadServersFile ==
    /\ mode = "load"
    /\ mode' = IF Refs \subseteq env THEN "boot" ELSE "failed"
    /\ UNCHANGED <<booting, env, toolMap, connections, mutex, pc, call, over,
                   surroundings>>

\* The next server: newClient dials without the mutex.
NextServer ==
    /\ mode = "boot" /\ pc[Main] = "idle" /\ booting <= Len(Order)
    /\ call' = [call EXCEPT ![Main] = [NoCall EXCEPT !.target = Order[booting]]]
    /\ pc' = [pc EXCEPT ![Main] = "start"]
    /\ UNCHANGED <<process, connections, mutex, over, surroundings>>

Booted ==
    /\ mode = "boot" /\ booting > Len(Order)
    /\ mode' = "ready"
    /\ UNCHANGED <<booting, env, toolMap, connections, mutex, pc, call, over,
                   surroundings>>

----------------------------------------------------------------------------
(* A call (callTool, listTools).                                           *)

Trouble == troubles < MaxTroubles /\ troubles' = troubles + 1

Target(c) == call[c].target

\* isSessionError, of an error of the first attempt.  It looks for four texts:
\* the error of a lost session or request may have one of them ("session") or
\* none ("other": a reset, a timeout, a status 500), and so may the tool's own
\* ("misleading" or "tool").
\* (RetriesAny and other definitions that no action uses are variants: each is
\* what an easy mistake would make of the definition it stands next to.)
RetriesAny(c, error) == call[c].attempt = 1
Retries(c, error) == call[c].attempt = 1 /\ error \in {"session", "misleading"}

KeepsLocked(s) == UNCHANGED mutex
Unlock(s) == mutex' = [mutex EXCEPT ![s] = Nobody]

\* The call of a user returns.
Return(c, outcome) ==
    /\ call' = [call EXCEPT ![c].outcome = outcome]
    /\ pc' = [pc EXCEPT ![c] = "idle"]

GivesUp(c, outcome) ==
    /\ IF mutex[Target(c)] = c THEN Unlock(Target(c)) ELSE UNCHANGED mutex
    /\ IF c = Main
         THEN Abandon /\ UNCHANGED <<booting, env, toolMap, known, starter, call>>
         ELSE Return(c, outcome) /\ UNCHANGED <<process, connections>>

\* What an error means to the caller.  An error of the tool is an answer of the
\* server.
OutcomeOf(error) ==
    IF error \in {"tool", "misleading"} THEN "answered"
    ELSE IF error = "other" THEN "unrecognised" ELSE "failed"

\* An attempt ends with an error: reconnect, or return it and leave the
\* connection as it is.
Error(c, error) ==
    IF Retries(c, error)
      THEN /\ conn' = [conn EXCEPT ![Target(c)] = "closed"]
           /\ call' = [call EXCEPT ![c].retried = error,
                                   ![c].attempt = 2]
           /\ pc' = [pc EXCEPT ![c] = "start"]
           /\ UNCHANGED <<process, known, starter, mutex>>
      ELSE GivesUp(c, OutcomeOf(error))

\* Manager.CallTool; a name that is not offered is an error at once.
CallTool(u) ==
    /\ mode = "ready" /\ pc[u] = "idle"
    /\ \E n \in DOMAIN toolMap :
          call' = [call EXCEPT ![u] = [NoCall EXCEPT
                      !.target = toolMap[n],
                      !.name = n,
                      !.tool = ParseToolName(n)[2]]]
    /\ pc' = [pc EXCEPT ![u] = "lock"]
    /\ UNCHANGED <<process, connections, mutex, over, surroundings>>

MayLockAnyway(s) == TRUE
MayLock(s) == mutex[s] = Nobody

Lock(c) ==
    /\ pc[c] = "lock" /\ MayLock(Target(c))
    /\ mutex' = [mutex EXCEPT ![Target(c)] = c]
    /\ pc' = [pc EXCEPT ![c] = "send"]
    /\ UNCHANGED <<process, connections, call, over, surroundings>>

Send(c) ==
    /\ pc[c] = "send" /\ conn[Target(c)] = "open"
    /\ call' = [call EXCEPT ![c].reached = FALSE]
    /\ pc' = [pc EXCEPT ![c] = "sent"]
    /\ UNCHANGED <<process, connections, mutex, over, surroundings>>

SendClosed(c) ==
    /\ pc[c] = "send" /\ conn[Target(c)] = "closed"
    /\ Error(c, closedError)
    /\ UNCHANGED <<over, surroundings>>

Alive(s) == up[s] /\ known[s]

\* The server carries the request out.
Execute(c) ==
    /\ pc[c] = "sent" /\ ~call[c].reached /\ Alive(Target(c))
    /\ call' = [call EXCEPT ![c].reached = TRUE, ![c].ran = @ + 1]
    /\ UNCHANGED <<process, connections, mutex, pc, over, surroundings>>

\* The answer to a call: a result, or the error of the tool.
Answer(u) ==
    /\ u \in Users
    /\ pc[u] = "sent" /\ call[u].reached /\ Alive(Target(u))
    /\ \/ /\ Unlock(Target(u))
          /\ Return(u, "answered")
          /\ UNCHANGED <<process, connections>>
       \/ Error(u, "tool")
    /\ UNCHANGED <<over, surroundings>>

\* An error of the tool that reads like a lost session.
Mislead(u) ==
    /\ u \in Users
    /\ pc[u] = "sent" /\ call[u].reached /\ Alive(Target(u))
    /\ Trouble /\ Error(u, "misleading")
    /\ UNCHANGED <<over, up, closedError>>

\* The answer to listTools at start-up: the tools are registered.
Register ==
    /\ pc[Main] = "sent" /\ call[Main].reached /\ Alive(Target(Main))
    /\ LET s == Target(Main)
           names == {NamespacedToolName(s, t) : t \in ToolsOf[s]}
       IN  /\ toolMap' = [n \in names \union DOMAIN toolMap |->
                            IF n \in names THEN s ELSE toolMap[n]]
           /\ Unlock(s)
    /\ booting' = booting + 1
    /\ pc' = [pc EXCEPT ![Main] = "idle"]
    /\ UNCHANGED <<mode, env, connections, call, over, surroundings>>

\* The request or its answer is lost: with the session, or on the way to or from
\* a server that still knows it.
Lose(c) ==
    /\ pc[c] = "sent"
    /\ IF Alive(Target(c)) THEN Trouble ELSE UNCHANGED troubles
    /\ \E error \in {"session", "other"} : Error(c, error)
    /\ UNCHANGED <<over, up, closedError>>

\* The context ends the request.
Cancel(c) ==
    /\ pc[c] \in {"send", "sent"} /\ over[c]
    /\ Error(c, "context")
    /\ UNCHANGED <<over, surroundings>>

Reachable(c) ==
    /\ up[Target(c)] /\ ~over[c]
    /\ Type[Target(c)] \in {"sse", "http", "streamable-http"}

Start(c) ==
    /\ pc[c] = "start" /\ Reachable(c)
    /\ pc' = [pc EXCEPT ![c] = "initialize"]
    /\ UNCHANGED <<process, connections, mutex, call, over, surroundings>>

\* The new session replaces the old; a first connection is asked for its tools.
Initialize(c) ==
    /\ pc[c] = "initialize" /\ Reachable(c)
    /\ LET s == Target(c) IN
          /\ conn' = [conn EXCEPT ![s] = "open"]
          /\ known' = [known EXCEPT ![s] = TRUE]
          /\ starter' = [starter EXCEPT ![s] = c]
    /\ pc' = [pc EXCEPT ![c] = IF call[c].attempt = 1 THEN "lock" ELSE "send"]
    /\ UNCHANGED <<process, mutex, call, over, surroundings>>

\* A dial that fails leaves the closed connection in its place.
DialFails(c) ==
    /\ pc[c] \in {"start", "initialize"}
    /\ IF Reachable(c) THEN Trouble ELSE UNCHANGED troubles
    /\ GivesUp(c, "failed")
    /\ UNCHANGED <<over, up, closedError>>

----------------------------------------------------------------------------
(* Surroundings.                                                           *)

StartedBy(c) == {s \in Servers : starter[s] = c /\ Type[s] = "sse"}
Forget(S) == known' = [s \in Servers |-> known[s] /\ s \notin S]

Crash(s) ==
    /\ up[s] /\ Trouble
    /\ up' = [up EXCEPT ![s] = FALSE]
    /\ Forget({s})
    /\ UNCHANGED <<process, conn, starter, mutex, pc, call, over, closedError>>

ComeBack(s) ==
    /\ ~up[s]
    /\ up' = [up EXCEPT ![s] = TRUE]
    /\ UNCHANGED <<process, connections, mutex, pc, call, over, troubles,
                   closedError>>

SessionExpires(s) ==
    /\ known[s] /\ Trouble
    /\ Forget({s})
    /\ UNCHANGED <<process, conn, starter, mutex, pc, call, over, up, closedError>>

\* The deadline of a job, the end of a Web request, SIGTERM for Main.
Expire(c) ==
    /\ ~over[c] /\ Trouble
    /\ over' = [over EXCEPT ![c] = TRUE]
    /\ Forget(StartedBy(c))
    /\ UNCHANGED <<process, conn, starter, mutex, pc, call, up, closedError>>

\* A job ends and the next one has a context of its own.
NextJob(u) ==
    /\ pc[u] = "idle"
    /\ over' = [over EXCEPT ![u] = FALSE]
    /\ Forget(StartedBy(u))
    /\ UNCHANGED <<process, conn, starter, mutex, pc, call, surroundings>>

\* No more troubles.
Settle ==
    /\ mode = "ready" /\ troubles' = MaxTroubles
    /\ UNCHANGED <<process, connections, mutex, pc, call, over, up, closedError>>

----------------------------------------------------------------------------
Work(c) ==
    \/ Send(c) \/ SendClosed(c) \/ Execute(c) \/ Answer(c) \/ Mislead(c) \/ Lose(c)
    \/ Cancel(c) \/ Start(c) \/ Initialize(c) \/ DialFails(c)

Next ==
    \/ LoadServersFile \/ NextServer \/ Booted \/ Register
    \/ \E u \in Users : CallTool(u) \/ NextJob(u)
    \/ \E c \in Callers : Lock(c) \/ Work(c) \/ Expire(c)
    \/ \E s \in Servers : Crash(s) \/ ComeBack(s) \/ SessionExpires(s)
    \/ Settle
    \/ mode = "failed" /\ UNCHANGED vars

\* Requests end (the transport gives up, servers answer), a sync.Mutex admits
\* every waiter, and crashed servers are restarted.
Spec ==
    /\ Init /\ [][Next]_vars
    /\ \A c \in Callers : WF_vars(Work(c)) /\ SF_vars(Lock(c))
    /\ \A s \in Servers : WF_vars(ComeBack(s))

----------------------------------------------------------------------------
(* Properties.                                                             *)

Working == {"send", "sent", "start", "initialize"}

\* Types, and the mutex: whoever sends on a connection, closes or replaces it
\* holds the mutex of its server (newClient alone needs none: nobody else
\* knows the client yet), so a request never loses its connection to another caller.
TypeOK ==
    /\ mode \in {"load", "boot", "ready", "failed"}
    /\ booting \in 1..(Len(Order) + 1)
    /\ env \subseteq Refs
    /\ conn \in [Servers -> {"none", "open", "closed"}]
    /\ known \in [Servers -> BOOLEAN] /\ up \in [Servers -> BOOLEAN]
    /\ starter \in [Servers -> Callers \union {Nobody}]
    /\ mutex \in [Servers -> Callers \union {Nobody}]
    /\ pc \in [Callers -> {"idle", "lock"} \union Working]
    /\ over \in [Callers -> BOOLEAN]
    /\ troubles \in 0..MaxTroubles
    /\ closedError \in {"session", "other"}
    /\ \A u \in Users : pc[u] \in Working => mutex[Target(u)] = u
    /\ \A s \in Servers : mutex[s] # Nobody =>
          pc[mutex[s]] \in Working /\ Target(mutex[s]) = s

\* A call goes to a server that offers the tool, and it goes to the only one that
\* does, under the tool's own name, whatever underscores the name of the tool has
\* (CallTool, parseToolName).  The exception is a name that a server offers whose
\* own name has the separator inside or an underscore at its end, which nothing
\* forbids (config.go:25-47): it may be cut at the wrong place, and it may be the
\* name of another server's tool too, though docs/mcp-integration.md:215-216 says
\* collisions across servers are not possible.
Offers(n) ==
    {o \in UNION {{s} \X ToolsOf[s] : s \in Servers} :
        NamespacedToolName(o[1], o[2]) = n}
Ambiguous(n) == \E o \in Offers(n) : ~PlainName(o[1])

RoutedToOwner ==
    \A u \in Users : pc[u] \in {"lock"} \union Working =>
        /\ \E o \in Offers(call[u].name) : o[1] = Target(u)
        /\ ~Ambiguous(call[u].name) =>
              Offers(call[u].name) = {<<Target(u), call[u].tool>>}

\* A call that was answered was carried out; it is carried out twice only after
\* an error that reads like a lost session, of the first request or of the tool
\* itself, and never more often.
TwiceOnlyIfLost ==
    \A u \in Users :
        /\ call[u].outcome = "answered" => call[u].ran >= 1
        /\ call[u].ran <= 2
        /\ call[u].ran = 2 => call[u].retried \in {"session", "misleading"}

\* Once the troubles are over every call is answered, although other callers'
\* jobs end and take their sessions with them: the one retry is enough.  The
\* exception is an error with none of the four texts isSessionError knows
\* (client.go:116-126), of a session that is gone or of a connection that a
\* failed reconnect left closed: it is returned, and the connection stays in its
\* place, where it fails the next call as well.
Calm == troubles = MaxTroubles /\ \A s \in Servers : up[s]
Unrecognised(u) == call[u].outcome = "unrecognised"

Recovers ==
    \A u \in Users :
        (pc[u] = "lock" /\ ~over[u] /\ Calm)
            ~> (call[u].outcome = "answered" \/ Unrecognised(u))
=============================================================================
