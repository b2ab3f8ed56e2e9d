-------------------------- MODULE McpClientProofs --------------------------
(***************************************************************************)
(* Proofs about McpClient, for any servers, tools, callers and troubles.   *)
(*                                                                         *)
(* TypeOK says who holds a mutex, but not that a connection is used by its *)
(* holder only: newClient dials without the mutex, and the attempt tells   *)
(* it from a reconnect (LockInv).  TwiceOnlyIfLost follows a call from     *)
(* attempt to attempt (RunInv), RoutedToOwner the name of a tool from its  *)
(* registration to the call (OfferInv, CallsOffered).                      *)
(***************************************************************************)
EXTENDS McpClient, SequenceTheorems, WellFoundedInduction, TLAPS

----------------------------------------------------------------------------
(* Names of tools.                                                         *)

\* What was joined can be cut apart again where the first part ends.
LEMMA PartsOfConcat ==
    ASSUME NEW S, NEW s \in Seq(S), NEW t \in Seq(S)
    PROVE  /\ SubSeq(s \o t, 1, Len(s)) = s
           /\ SubSeq(s \o t, Len(s) + 1, Len(s \o t)) = t
<1> DEFINE c == s \o t
           head == SubSeq(c, 1, Len(s))
           rest == SubSeq(c, Len(s) + 1, Len(c))
<1>1. /\ c \in Seq(S) /\ Len(c) = Len(s) + Len(t)
      /\ \A i \in 1..Len(s) + Len(t) : c[i] = IF i <= Len(s) THEN s[i] ELSE t[i - Len(s)]
      /\ Len(s) \in Nat /\ Len(t) \in Nat
  BY ConcatProperties
<1> HIDE DEF c
<1>2. \A i \in 1..Len(c) : c[i] \in S
  BY <1>1, ElementOfSeq
<1>3. /\ head \in Seq(S) /\ Len(head) = Len(s)
      /\ \A i \in 1..Len(s) : head[i] = c[i]
  BY <1>1, <1>2, SubSeqProperties
<1>4. /\ rest \in Seq(S) /\ Len(rest) = Len(t)
      /\ \A i \in 1..Len(t) : rest[i] = c[Len(s) + i]
  <2>1. \A i \in (Len(s) + 1)..Len(c) : c[i] \in S BY <1>1, <1>2
  <2>2. /\ rest \in Seq(S)
        /\ Len(rest) = IF Len(s) + 1 <= Len(c) THEN Len(c) - (Len(s) + 1) + 1 ELSE 0
        /\ \A i \in 1..Len(c) - (Len(s) + 1) + 1 : rest[i] = c[Len(s) + 1 + i - 1]
    BY <1>1, <2>1, SubSeqProperties
  <2> HIDE DEF rest
  <2>3. Len(c) - (Len(s) + 1) + 1 = Len(t) BY <1>1
  <2>4. Len(rest) = Len(t) BY <1>1, <2>2
  <2>5. ASSUME NEW i \in 1..Len(t) PROVE rest[i] = c[Len(s) + i]
    <3>1. Len(s) + 1 + i - 1 = Len(s) + i BY <1>1
    <3> QED BY <2>2, <2>3, <3>1
  <2> QED BY <2>2, <2>4, <2>5
<1> HIDE DEF head, rest
<1>5. head = s BY <1>1, <1>3, SeqEqual
<1>6. ASSUME NEW i \in 1..Len(t) PROVE rest[i] = t[i]
  <2>1. /\ Len(s) + i \in 1..Len(s) + Len(t) /\ ~(Len(s) + i <= Len(s))
        /\ Len(s) + i - Len(s) = i
    BY <1>1
  <2>2. c[Len(s) + i] = t[Len(s) + i - Len(s)]
    <3> DEFINE j == Len(s) + i
    <3>1. \A k \in 1..Len(s) + Len(t) : ~(k <= Len(s)) => c[k] = t[k - Len(s)] BY <1>1
    <3>2. j \in 1..Len(s) + Len(t) /\ ~(j <= Len(s)) BY <2>1
    <3> HIDE DEF j
    <3>3. c[j] = t[j - Len(s)] BY <3>1, <3>2
    <3> QED BY <3>3 DEF j
  <2>3. rest[i] = c[Len(s) + i] BY <1>4
  <2> QED BY <2>1, <2>2, <2>3
<1>7. rest = t BY <1>4, <1>6, SeqEqual
<1> QED BY <1>5, <1>7 DEF head, rest, c

\* Character by character, an offered name.
LEMMA OfferedName ==
    ASSUME NEW S, U \in S, NEW server \in Seq(S), NEW tool \in Seq(S)
    PROVE  LET n == NamespacedToolName(server, tool)
               L == Len(server)
           IN  /\ L \in Nat /\ Len(n) \in Nat /\ Len(n) >= L + 2
               /\ \A i \in 1..L : n[i] = server[i]
               /\ n[L + 1] = U /\ n[L + 2] = U
<1> DEFINE h == server \o ToolNameSep
           n == NamespacedToolName(server, tool)
           L == Len(server)
<1>1. ToolNameSep \in Seq(S) /\ Len(ToolNameSep) = 2
      /\ ToolNameSep[1] = U /\ ToolNameSep[2] = U
  BY DEF ToolNameSep
<1> L \in Nat /\ Len(tool) \in Nat OBVIOUS
<1>2. /\ h \in Seq(S) /\ Len(h) = L + 2
      /\ \A i \in 1..L + 2 : h[i] = IF i <= L THEN server[i] ELSE ToolNameSep[i - L]
  <2>1. /\ h \in Seq(S) /\ Len(h) = L + Len(ToolNameSep)
        /\ \A i \in 1..L + Len(ToolNameSep) :
              h[i] = IF i <= L THEN server[i] ELSE ToolNameSep[i - L]
    BY <1>1, ConcatProperties
  <2> HIDE DEF h, L
  <2> QED BY <1>1, <2>1
<1>3. n = h \o tool BY DEF NamespacedToolName
<1> HIDE DEF h, n
<1>4. /\ n \in Seq(S) /\ Len(n) = L + 2 + Len(tool)
      /\ \A i \in 1..L + 2 + Len(tool) : n[i] = IF i <= L + 2 THEN h[i] ELSE tool[i - (L + 2)]
  <2>1. /\ n \in Seq(S) /\ Len(n) = Len(h) + Len(tool)
        /\ \A i \in 1..Len(h) + Len(tool) :
              n[i] = IF i <= Len(h) THEN h[i] ELSE tool[i - Len(h)]
    BY <1>2, <1>3, ConcatProperties
  <2> HIDE DEF L
  <2> QED BY <1>2, <2>1
<1> HIDE DEF L
<1>5. \A i \in 1..L : n[i] = server[i] BY <1>2, <1>4
<1>6. n[L + 1] = U /\ n[L + 2] = U
  <2>1. n[L + 1] = h[L + 1] /\ n[L + 2] = h[L + 2] BY <1>4
  <2>2. h[L + 1] = ToolNameSep[1] /\ h[L + 2] = ToolNameSep[2]
    <3>1. /\ L + 1 \in 1..L + 2 /\ ~(L + 1 <= L) /\ (L + 1) - L = 1
          /\ L + 2 \in 1..L + 2 /\ ~(L + 2 <= L) /\ (L + 2) - L = 2
      OBVIOUS
    <3> QED BY <1>2, <3>1
  <2> QED BY <1>1, <2>1, <2>2
<1> QED BY <1>4, <1>5, <1>6 DEF L, n

\* The first separator of an offered name is the one that was put in.
LEMMA FirstSeparator ==
    ASSUME NEW S, U \in S, NEW server \in Seq(S), NEW tool \in Seq(S),
           PlainName(server)
    PROVE  LET n == NamespacedToolName(server, tool) IN
              /\ Len(server) + 1 \in SepAt(n)
              /\ \A j \in SepAt(n) : Len(server) + 1 <= j
<1> DEFINE n == NamespacedToolName(server, tool)
           L == Len(server)
<1>1. /\ L \in Nat /\ Len(n) \in Nat /\ Len(n) >= L + 2
      /\ \A i \in 1..L : n[i] = server[i]
      /\ n[L + 1] = U /\ n[L + 2] = U
  BY OfferedName
<1> HIDE DEF n
<1>2. L + 1 \in SepAt(n)
  <2>1. L + 1 \in 1..(Len(n) - 1) /\ (L + 1) + 1 = L + 2 BY <1>1
  <2> QED BY <1>1, <2>1 DEF SepAt
<1>3. ASSUME NEW j \in SepAt(n), j <= L PROVE FALSE
  <2>1. j \in 1..L /\ n[j] = U /\ n[j + 1] = U
    BY <1>1, <1>3 DEF SepAt
  <2>2. server[j] = U BY <1>1, <2>1
  <2>3. CASE j = L BY <1>1, <2>1, <2>2, <2>3 DEF PlainName
  <2>4. CASE j < L
    <3>1. j + 1 \in 1..L BY <1>1, <2>1, <2>4
    <3>2. server[j + 1] = U BY <1>1, <2>1, <3>1
    <3>3. j \in SepAt(server) BY <1>1, <2>1, <2>2, <2>4, <3>2 DEF SepAt
    <3> QED BY <3>3 DEF PlainName
  <2> QED BY <1>1, <2>1, <2>3, <2>4
<1>4. \A j \in SepAt(n) : j \in Int BY DEF SepAt
<1>5. \A j \in SepAt(n) : L + 1 <= j BY <1>1, <1>3, <1>4
<1> QED BY <1>2, <1>5 DEF n

\* Splitting undoes joining: a tool that is offered is called on the server that
\* registered it under its own name, whatever underscores the name of the tool
\* has (client.go:199-200, parseToolName).
THEOREM ParseUndoesJoin ==
    ASSUME NEW S, U \in S, NEW server \in Seq(S), NEW tool \in Seq(S),
           PlainName(server)
    PROVE  ParseToolName(NamespacedToolName(server, tool)) = <<server, tool>>
<1> DEFINE n == NamespacedToolName(server, tool)
           h == server \o ToolNameSep
<1>1. Len(server) + 1 \in SepAt(n) /\ \A j \in SepAt(n) : Len(server) + 1 <= j
  BY FirstSeparator
<1>2. First(n) = Len(server) + 1
  <2> HIDE DEF n
  <2>1. \A i \in SepAt(n) : i \in Int BY DEF SepAt
  <2>2. \A i \in SepAt(n) : (\A j \in SepAt(n) : i <= j) => i = Len(server) + 1
    BY <1>1, <2>1
  <2> QED BY <1>1, <2>2 DEF First
<1>3. ToolNameSep \in Seq(S) /\ Len(ToolNameSep) = 2
  BY DEF ToolNameSep
<1>4. h \in Seq(S) /\ Len(h) = Len(server) + 2 /\ Len(server) \in Nat
      /\ SubSeq(n, 1, Len(h)) = h /\ SubSeq(n, Len(h) + 1, Len(n)) = tool
  <2>1. h \in Seq(S) /\ Len(h) = Len(server) + Len(ToolNameSep)
    BY <1>3, ConcatProperties
  <2>2. n = h \o tool BY DEF NamespacedToolName
  <2> HIDE DEF h, n
  <2>3. SubSeq(n, 1, Len(h)) = h /\ SubSeq(n, Len(h) + 1, Len(n)) = tool
    BY <2>1, <2>2, PartsOfConcat
  <2> QED BY <1>3, <2>1, <2>3
<1>5. n = server \o (ToolNameSep \o tool) /\ ToolNameSep \o tool \in Seq(S)
  <2>1. n = server \o ToolNameSep \o tool BY DEF NamespacedToolName
  <2>2. server \o ToolNameSep \o tool = server \o (ToolNameSep \o tool)
    BY <1>3, ConcatAssociative
  <2>3. ToolNameSep \o tool \in Seq(S) BY <1>3, ConcatProperties
  <2> QED BY <2>1, <2>2, <2>3
<1>6. SubSeq(n, 1, Len(server)) = server
  <2> DEFINE t == ToolNameSep \o tool
  <2>1. n = server \o t /\ t \in Seq(S) BY <1>5
  <2> HIDE DEF n, t
  <2> QED BY <2>1, PartsOfConcat
<1> HIDE DEF n, h
<1>7. First(n) - 1 = Len(server) /\ First(n) + 2 = Len(h) + 1
  BY <1>2, <1>4
<1>8. SepAt(n) # {} BY <1>1
<1> QED BY <1>4, <1>6, <1>7, <1>8 DEF ParseToolName, n

\* What parseToolName returns is a name again.
LEMMA ParsedName ==
    ASSUME NEW n \in Names
    PROVE  ParseToolName(n)[2] \in Names
<1>1. CASE SepAt(n) = {} BY <1>1 DEF ParseToolName
<1>2. CASE SepAt(n) # {}
  <2>1. SepAt(n) \subseteq Nat BY DEF SepAt
  <2>2. PICK i \in SepAt(n) : \A j \in SepAt(n) : ~(<<j, i>> \in OpToRel(<, Nat))
    BY <1>2, <2>1, WFMin, NatLessThanWellFounded, Zenon
  <2>3. \A j \in SepAt(n) : i <= j
    <3> SUFFICES ASSUME NEW j \in SepAt(n), ~(i <= j) PROVE FALSE
      OBVIOUS
    <3>1. i \in Nat /\ j \in Nat /\ j < i BY <2>1
    <3>2. <<j, i>> \in OpToRel(<, Nat) BY <3>1, Zenon DEF OpToRel
    <3> QED BY <2>2, <3>2
  <2>4. First(n) \in SepAt(n) BY <2>3 DEF First
  <2>5. First(n) + 2 \in Nat \ {0} /\ Len(n) \in Nat BY <2>1, <2>4 DEF Names
  <2>6. \A k \in (First(n) + 2)..Len(n) : n[k] \in Chars
    <3>1. \A k \in (First(n) + 2)..Len(n) : k \in 1..Len(n) BY <2>5
    <3> QED BY <3>1, ElementOfSeq DEF Names
  <2>7. SubSeq(n, First(n) + 2, Len(n)) \in Names
    BY <2>5, <2>6, SubSeqProperties DEF Names
  <2> QED BY <1>2, <2>7 DEF ParseToolName
<1> QED BY <1>1, <1>2

LEMMA Joined ==
    ASSUME NEW s \in Names, NEW t \in Names
    PROVE  NamespacedToolName(s, t) \in Names
<1>1. ToolNameSep \in Names BY UnderscoreIsChar DEF ToolNameSep, Names
<1> QED BY <1>1, ConcatProperties DEF NamespacedToolName, Names

----------------------------------------------------------------------------
(* The invariant.                                                          *)

Calls == [target: Servers, name: Names, tool: Names, attempt: {1, 2},
          reached: BOOLEAN, ran: Nat, retried: {"no", "session", "misleading"},
          outcome: {"none", "answered", "failed", "unrecognised"}]

CallTypes ==
    /\ call \in [Callers -> Calls]
    /\ pc[Main] # "idle" => booting <= Len(Order)

\* A request goes out under the mutex; a dial does, if it is a reconnect, and
\* only newClient's is none.
LockInv ==
    /\ \A c \in Callers :
          /\ pc[c] \in {"send", "sent"} => mutex[Target(c)] = c
          /\ pc[c] \in {"start", "initialize"} =>
                (mutex[Target(c)] = c <=> call[c].attempt = 2)
    /\ \A u \in Users : pc[u] \in {"start", "initialize"} => call[u].attempt = 2

\* How often a call may have been carried out so far.
RunInv ==
    \A c \in Callers :
        /\ pc[c] \in {"lock", "start", "initialize", "send"} =>
              call[c].ran < call[c].attempt
        /\ pc[c] = "sent" =>
              IF call[c].reached THEN call[c].ran \in 1..call[c].attempt
                                 ELSE call[c].ran < call[c].attempt
        /\ call[c].ran <= call[c].attempt
        /\ call[c].attempt = 2 => call[c].retried \in {"session", "misleading"}
        /\ call[c].outcome = "answered" => call[c].ran >= 1

\* What is offered was registered by its server ...
OfferInv ==
    \A n \in DOMAIN toolMap :
        /\ toolMap[n] \in Servers
        /\ \E t \in ToolsOf[toolMap[n]] : n = NamespacedToolName(toolMap[n], t)

\* ... and what is called was offered.
CallsOffered ==
    \A u \in Users : pc[u] # "idle" =>
        /\ \E t \in ToolsOf[Target(u)] : call[u].name = NamespacedToolName(Target(u), t)
        /\ call[u].tool = ParseToolName(call[u].name)[2]

McpInv == TypeOK /\ CallTypes /\ LockInv /\ RunInv /\ OfferInv /\ CallsOffered

LEMMA ServerFacts ==
    /\ Len(Order) \in Nat \ {0}
    /\ \A i \in 1..Len(Order) : Order[i] \in Servers
    /\ Servers \subseteq Names
    /\ NoCall \in Calls
<1>1. Order \in Seq(Names) /\ Order # <<>> BY McpConstants
<1>2. Len(Order) \in Nat \ {0} /\ DOMAIN Order = 1..Len(Order)
  BY <1>1, EmptySeq, LenProperties
<1>3. \A i \in 1..Len(Order) : Order[i] \in Servers BY <1>2 DEF Servers
<1>4. Servers \subseteq Names
  BY <1>1, <1>2, ElementOfSeq DEF Servers
<1>5. <<>> \in Names BY DEF Names
<1>6. NoCall \in Calls BY <1>2, <1>3, <1>5 DEF NoCall, Calls
<1> QED BY <1>2, <1>3, <1>4, <1>6

LEMMA CallerFacts ==
    /\ Users \subseteq Callers /\ Main \in Callers /\ Main \notin Users
    /\ Nobody \notin Callers
    /\ \A c \in Callers : c \in Users \/ c = Main
    /\ MaxTroubles \in Nat
  BY McpConstants DEF Callers

LEMMA InitMcpInv == Init => McpInv
<1> SUFFICES ASSUME Init PROVE McpInv
  OBVIOUS
<1> USE DEF Init, Working
<1>1. TypeOK BY ServerFacts, CallerFacts DEF TypeOK
<1>2. CallTypes BY ServerFacts DEF CallTypes
<1>3. LockInv BY CallerFacts DEF LockInv
<1>4. RunInv BY DEF RunInv, NoCall
<1>5. OfferInv BY DEF OfferInv
<1>6. CallsOffered BY CallerFacts DEF CallsOffered
<1> QED BY <1>1, <1>2, <1>3, <1>4, <1>5, <1>6 DEF McpInv

\* The steps around the calls: nothing of a call changes, nor who holds a mutex.
LEMMA AroundStep ==
    ASSUME McpInv,
           \/ LoadServersFile \/ Booted \/ Settle \/ UNCHANGED vars
           \/ \E u \in Users : NextJob(u)
           \/ \E c \in Callers : Expire(c)
           \/ \E s \in Servers : Crash(s) \/ ComeBack(s) \/ SessionExpires(s)
    PROVE  McpInv'
<1>1. UNCHANGED <<booting, toolMap, conn, starter, mutex, pc, call>>
      /\ env' = env /\ closedError' = closedError
  BY DEF LoadServersFile, Booted, Settle, NextJob, Expire, Crash, ComeBack,
     SessionExpires, vars, process, connections, surroundings
<1>2. mode' \in {"load", "boot", "ready", "failed"}
  BY DEF McpInv, TypeOK, LoadServersFile, Booted, Settle, NextJob, Expire, Crash,
     ComeBack, SessionExpires, vars, process, connections, surroundings
<1>3. known' \in [Servers -> BOOLEAN]
  <2>1. ASSUME NEW S, Forget(S) PROVE known' \in [Servers -> BOOLEAN]
    <3>1. \A s \in Servers : (known[s] /\ s \notin S) \in BOOLEAN BY Zenon
    <3> QED BY <2>1, <3>1, Zenon DEF Forget
  <2>2. (\E S : Forget(S)) \/ known' = known
    BY DEF LoadServersFile, Booted, Settle, NextJob, Expire, Crash, ComeBack,
       SessionExpires, vars, process, connections, surroundings
  <2> QED BY <2>1, <2>2 DEF McpInv, TypeOK
<1>4. up' \in [Servers -> BOOLEAN]
  <2>1. ASSUME NEW s \in Servers, Crash(s) \/ ComeBack(s)
        PROVE  up' \in [Servers -> BOOLEAN]
    <3>1. up' = [up EXCEPT ![s] = FALSE] \/ up' = [up EXCEPT ![s] = TRUE]
      BY <2>1 DEF Crash, ComeBack
    <3>2. up \in [Servers -> BOOLEAN] BY DEF McpInv, TypeOK
    <3> QED BY <3>1, <3>2
  <2>2. (\E s \in Servers : Crash(s) \/ ComeBack(s)) \/ up' = up
    BY DEF LoadServersFile, Booted, Settle, NextJob, Expire, SessionExpires,
       vars, process, connections, surroundings
  <2> QED BY <2>1, <2>2 DEF McpInv, TypeOK
<1>5. over' \in [Callers -> BOOLEAN]
  <2>1. ASSUME NEW c \in Callers, Expire(c) \/ NextJob(c)
        PROVE  over' \in [Callers -> BOOLEAN]
    <3>1. over' = [over EXCEPT ![c] = TRUE] \/ over' = [over EXCEPT ![c] = FALSE]
      BY <2>1 DEF Expire, NextJob
    <3>2. over \in [Callers -> BOOLEAN] BY DEF McpInv, TypeOK
    <3> QED BY <3>1, <3>2
  <2>2. (\E c \in Callers : Expire(c) \/ NextJob(c)) \/ over' = over
    BY CallerFacts DEF LoadServersFile, Booted, Settle, Crash, ComeBack,
       SessionExpires, vars
  <2> QED BY <2>1, <2>2 DEF McpInv, TypeOK
<1>6. troubles' \in 0..MaxTroubles
  <2>1. Trouble \/ troubles' = MaxTroubles \/ troubles' = troubles
    BY DEF LoadServersFile, Booted, Settle, NextJob, Expire, Crash, ComeBack,
       SessionExpires, vars, process, connections, surroundings
  <2> QED BY <2>1, CallerFacts DEF McpInv, TypeOK, Trouble
<1>7. TypeOK' BY <1>1, <1>2, <1>3, <1>4, <1>5, <1>6 DEF McpInv, TypeOK, Target
<1> QED BY <1>1, <1>7 DEF McpInv, CallTypes, LockInv, RunInv, OfferInv,
    CallsOffered, Target

----------------------------------------------------------------------------
(* The steps of a call.                                                    *)

LEMMA NextServerStep ==
    ASSUME McpInv, NextServer
    PROVE  McpInv'
<1> USE DEF NextServer, process, connections, surroundings, Working
<1>1. [NoCall EXCEPT !.target = Order[booting]] \in Calls
      /\ Order[booting] \in Servers
  BY ServerFacts DEF McpInv, TypeOK, Calls
<1>2. call' \in [Callers -> Calls] /\ pc'[Main] = "start"
      /\ call'[Main] = [NoCall EXCEPT !.target = Order[booting]]
      /\ \A c \in Callers : c # Main => call'[c] = call[c] /\ pc'[c] = pc[c]
  BY <1>1, CallerFacts DEF McpInv, TypeOK, CallTypes
<1>3. \A s \in Servers : mutex[s] # Main
  BY CallerFacts DEF McpInv, TypeOK
<1>4. TypeOK'
  BY <1>2, <1>3, CallerFacts DEF McpInv, TypeOK, Target
<1>5. CallTypes' BY <1>2 DEF CallTypes
<1>6. LockInv'
  BY <1>1, <1>2, <1>3, CallerFacts DEF McpInv, LockInv, Target, NoCall
<1>7. RunInv' BY <1>2, CallerFacts DEF McpInv, RunInv, NoCall
<1>8. OfferInv' BY DEF McpInv, OfferInv
<1>9. CallsOffered' BY <1>2, CallerFacts DEF McpInv, CallsOffered, Target
<1> QED BY <1>4, <1>5, <1>6, <1>7, <1>8, <1>9 DEF McpInv

LEMMA CallToolStep ==
    ASSUME McpInv, NEW u \in Users, CallTool(u)
    PROVE  McpInv'
<1> USE DEF CallTool, process, connections, surroundings, Working
<1>1. PICK n \in DOMAIN toolMap :
         call' = [call EXCEPT ![u] = [NoCall EXCEPT
                    !.target = toolMap[n], !.name = n, !.tool = ParseToolName(n)[2]]]
  OBVIOUS
<1>2. PICK t \in ToolsOf[toolMap[n]] : n = NamespacedToolName(toolMap[n], t)
  BY DEF McpInv, OfferInv
<1>3. toolMap[n] \in Servers /\ toolMap[n] \in Names /\ t \in Names
  BY ServerFacts, McpConstants DEF McpInv, OfferInv
<1>4. n \in Names /\ ParseToolName(n)[2] \in Names
  BY <1>2, <1>3, Joined, ParsedName
<1> DEFINE new == [NoCall EXCEPT !.target = toolMap[n], !.name = n,
                                 !.tool = ParseToolName(n)[2]]
<1>5. /\ new \in Calls /\ new.target = toolMap[n] /\ new.name = n
      /\ new.tool = ParseToolName(n)[2]
      /\ new.ran = 0 /\ new.attempt = 1 /\ new.outcome = "none"
  BY <1>3, <1>4, ServerFacts DEF Calls, NoCall
<1> HIDE DEF new
<1>6. u \in Callers /\ u # Main BY CallerFacts
<1>7. call' \in [Callers -> Calls] /\ pc'[u] = "lock" /\ call'[u] = new
      /\ \A c \in Callers : c # u => call'[c] = call[c] /\ pc'[c] = pc[c]
  BY <1>1, <1>5, <1>6 DEF McpInv, TypeOK, CallTypes, new
<1>8. \A s \in Servers : mutex[s] # u
  BY <1>6, CallerFacts DEF McpInv, TypeOK
<1>9. TypeOK' BY <1>6, <1>7, <1>8, CallerFacts DEF McpInv, TypeOK, Target
<1>10. CallTypes' BY <1>6, <1>7, CallerFacts DEF McpInv, CallTypes
<1>11. LockInv' BY <1>7, CallerFacts DEF McpInv, LockInv, Target
<1>12. RunInv'
  <2>1. /\ call'[u].ran = 0 /\ call'[u].attempt = 1 /\ call'[u].outcome = "none"
        /\ pc'[u] = "lock"
    BY <1>5, <1>7
  <2>2. \A c \in Callers : c # u => call'[c] = call[c] /\ pc'[c] = pc[c]
    BY <1>7
  <2> QED BY <2>1, <2>2 DEF McpInv, RunInv
<1>13. OfferInv' BY DEF McpInv, OfferInv
<1>14. CallsOffered'
  <2>1. /\ call'[u].name = NamespacedToolName(call'[u].target, t)
        /\ t \in ToolsOf[call'[u].target]
        /\ call'[u].tool = ParseToolName(call'[u].name)[2]
    BY <1>2, <1>5, <1>7
  <2>2. \A c \in Users : c # u => call'[c] = call[c] /\ pc'[c] = pc[c]
    BY <1>7, CallerFacts
  <2> QED BY <2>1, <2>2 DEF McpInv, CallsOffered, Target
<1> QED BY <1>9, <1>10, <1>11, <1>12, <1>13, <1>14 DEF McpInv

\* The part of TypeOK about the mutexes.
Holders ==
    /\ \A u \in Users : pc[u] \in Working => mutex[Target(u)] = u
    /\ \A s \in Servers : mutex[s] # Nobody =>
          pc[mutex[s]] \in Working /\ Target(mutex[s]) = s

\* The next point of a call: nobody else is concerned, and the request is the same.
Moves(c, to) ==
    /\ pc' = [pc EXCEPT ![c] = to]
    /\ call' \in [Callers -> Calls]
    /\ \A d \in Callers : d # c => call'[d] = call[d]
    /\ Target(c)' = Target(c)
    /\ call'[c].name = call[c].name /\ call'[c].tool = call[c].tool

LEMMA OffersKept ==
    ASSUME McpInv, NEW c \in Callers, NEW to, pc[c] # "idle", Moves(c, to),
           UNCHANGED <<toolMap, booting>>
    PROVE  CallTypes' /\ OfferInv' /\ CallsOffered'
<1>1. CallTypes'
  BY CallerFacts DEF McpInv, TypeOK, CallTypes, Moves
<1>2. OfferInv' BY DEF McpInv, OfferInv
<1>3. CallsOffered'
  BY CallerFacts DEF McpInv, TypeOK, CallsOffered, Moves, Target
<1> QED BY <1>1, <1>2, <1>3

\* The holder of the mutex, or newClient without it, goes on: it keeps what it has.
LEMMA KeepsMutex ==
    ASSUME McpInv, NEW c \in Callers, pc[c] \in Working,
           NEW to \in {"send", "sent", "start", "initialize"}, Moves(c, to),
           UNCHANGED mutex,
           to \in {"send", "sent"} => mutex[Target(c)] = c,
           to \in {"start", "initialize"} =>
              /\ mutex[Target(c)] = c <=> call'[c].attempt = 2
              /\ c \in Users => call'[c].attempt = 2
    PROVE  /\ LockInv'
           /\ pc' \in [Callers -> {"idle", "lock"} \union Working]
           /\ Holders'
<1> USE DEF Working
<1>1. \A d \in Callers : Target(d)' = Target(d)
  BY DEF Moves, Target
<1>2. pc'[c] = to /\ \A d \in Callers : d # c => pc'[d] = pc[d]
  BY DEF McpInv, TypeOK, Moves
<1>3. LockInv'
  BY <1>1, <1>2, CallerFacts DEF McpInv, LockInv, Moves
<1>4. pc' \in [Callers -> {"idle", "lock"} \union Working]
  BY DEF McpInv, TypeOK, Moves
<1>5. Holders' BY <1>1, <1>2, CallerFacts DEF McpInv, TypeOK, Holders
<1> QED BY <1>3, <1>4, <1>5

\* A call ends: its mutex is free, if it had it.
LEMMA LetsMutexGo ==
    ASSUME McpInv, NEW c \in Callers, pc[c] \in Working, Moves(c, "idle"),
           IF mutex[Target(c)] = c THEN Unlock(Target(c)) ELSE UNCHANGED mutex
    PROVE  /\ LockInv'
           /\ pc' \in [Callers -> {"idle", "lock"} \union Working]
           /\ mutex' \in [Servers -> Callers \union {Nobody}]
           /\ Holders'
<1> USE DEF Working
<1>1. \A d \in Callers : Target(d)' = Target(d) /\ Target(d) \in Servers
  BY DEF Moves, Target, McpInv, CallTypes, Calls
<1>2. pc'[c] = "idle" /\ \A d \in Callers : d # c => pc'[d] = pc[d]
  BY DEF McpInv, TypeOK, Moves
<1>3. mutex' \in [Servers -> Callers \union {Nobody}]
  BY DEF McpInv, TypeOK, Unlock
<1>4. \A s \in Servers : mutex'[s] # c /\ (mutex[s] # c => mutex'[s] = mutex[s])
  BY <1>1, CallerFacts DEF McpInv, TypeOK, Unlock
<1>5. \A s \in Servers : mutex[s] = c => mutex'[s] = Nobody
  BY <1>1, CallerFacts DEF McpInv, TypeOK, Unlock
<1>6. \A d \in Callers : d # c =>
         \A s \in Servers : mutex'[s] = d <=> mutex[s] = d
  BY <1>4, <1>5, CallerFacts
<1>7. LockInv'
  BY <1>1, <1>2, <1>6, CallerFacts DEF McpInv, LockInv, Moves
<1>8. pc' \in [Callers -> {"idle", "lock"} \union Working]
  BY DEF McpInv, TypeOK, Moves
<1>9. \A u \in Users : pc'[u] \in Working => mutex'[Target(u)'] = u
  BY <1>1, <1>2, <1>6, CallerFacts DEF McpInv, TypeOK
<1>10. ASSUME NEW s \in Servers, mutex'[s] # Nobody
       PROVE  pc'[mutex'[s]] \in Working /\ call'[mutex'[s]].target = s
  <2>1. mutex'[s] = mutex[s] /\ mutex[s] # c /\ mutex[s] \in Callers
    BY <1>4, <1>5, <1>10 DEF McpInv, TypeOK
  <2>2. pc[mutex[s]] \in Working /\ Target(mutex[s]) = s
    BY <1>10, <2>1 DEF McpInv, TypeOK
  <2> QED BY <1>1, <1>2, <2>1, <2>2 DEF Target
<1>11. Holders' BY <1>9, <1>10 DEF Holders, Target
<1> QED BY <1>3, <1>7, <1>8, <1>11

LEMMA LockStep ==
    ASSUME McpInv, NEW c \in Callers, Lock(c)
    PROVE  McpInv'
<1> USE DEF Lock, MayLock, process, connections, surroundings, Working
<1>1. \A d \in Callers : Target(d)' = Target(d) /\ Target(d) \in Servers
  BY DEF Target, McpInv, CallTypes, Calls
<1>2. pc'[c] = "send" /\ \A d \in Callers : d # c => pc'[d] = pc[d]
  BY DEF McpInv, TypeOK
<1>3. /\ mutex'[Target(c)] = c
      /\ \A s \in Servers : s # Target(c) => mutex'[s] = mutex[s]
  BY <1>1 DEF McpInv, TypeOK
<1>4. \A d \in Callers : d # c => \A s \in Servers : mutex'[s] = d <=> mutex[s] = d
  BY <1>1, <1>3, CallerFacts
<1>5. TypeOK'
  <2>1. mutex' \in [Servers -> Callers \union {Nobody}]
        /\ pc' \in [Callers -> {"idle", "lock"} \union Working]
    BY DEF McpInv, TypeOK
  <2>2. \A u \in Users : pc'[u] \in Working => mutex'[call'[u].target] = u
    BY <1>1, <1>2, <1>3, <1>4, CallerFacts DEF McpInv, TypeOK, Target
  <2>3. ASSUME NEW s \in Servers, mutex'[s] # Nobody
        PROVE  pc'[mutex'[s]] \in Working /\ call'[mutex'[s]].target = s
    <3>1. CASE s = Target(c) BY <1>1, <1>2, <1>3, <3>1 DEF Target
    <3>2. CASE s # Target(c)
      <4>1. mutex'[s] = mutex[s] /\ mutex[s] \in Callers /\ mutex[s] # c
        BY <1>3, <2>3, <3>2 DEF McpInv, TypeOK
      <4>2. pc[mutex[s]] \in Working /\ call[mutex[s]].target = s
        BY <2>3, <4>1 DEF McpInv, TypeOK, Target
      <4>3. pc'[mutex[s]] = pc[mutex[s]] /\ call' = call BY <1>2, <4>1
      <4> QED BY <4>1, <4>2, <4>3
    <3> QED BY <3>1, <3>2
  <2> QED BY <2>1, <2>2, <2>3 DEF McpInv, TypeOK, Target
<1>6. LockInv' BY <1>1, <1>2, <1>3, <1>4, CallerFacts DEF McpInv, LockInv
<1>7. CallTypes' BY <1>2, CallerFacts DEF McpInv, CallTypes
<1>8. RunInv' BY <1>2 DEF McpInv, RunInv
<1>9. OfferInv' /\ CallsOffered'
  BY <1>2, CallerFacts DEF McpInv, OfferInv, CallsOffered, Target
<1> QED BY <1>5, <1>6, <1>7, <1>8, <1>9 DEF McpInv

\* What a call has done by now, after a step that only concerns caller c.
LEMMA RunsKept ==
    ASSUME McpInv, NEW c \in Callers, NEW to, Moves(c, to),
           /\ to \in {"lock", "start", "initialize", "send"} =>
                 call'[c].ran < call'[c].attempt
           /\ to = "sent" =>
                 IF call'[c].reached THEN call'[c].ran \in 1..call'[c].attempt
                                     ELSE call'[c].ran < call'[c].attempt
           /\ call'[c].ran <= call'[c].attempt
           /\ call'[c].attempt = 2 => call'[c].retried \in {"session", "misleading"}
           /\ call'[c].outcome = "answered" => call'[c].ran >= 1
    PROVE  RunInv'
<1>1. pc'[c] = to /\ \A d \in Callers : d # c => pc'[d] = pc[d] /\ call'[d] = call[d]
  BY DEF McpInv, TypeOK, Moves
<1> SUFFICES ASSUME NEW d \in Callers
             PROVE  /\ pc'[d] \in {"lock", "start", "initialize", "send"} =>
                          call'[d].ran < call'[d].attempt
                    /\ pc'[d] = "sent" =>
                          IF call'[d].reached THEN call'[d].ran \in 1..call'[d].attempt
                                              ELSE call'[d].ran < call'[d].attempt
                    /\ call'[d].ran <= call'[d].attempt
                    /\ call'[d].attempt = 2 => call'[d].retried \in {"session", "misleading"}
                    /\ call'[d].outcome = "answered" => call'[d].ran >= 1
  BY DEF RunInv
<1>2. CASE d = c BY <1>1, <1>2
<1>3. CASE d # c BY <1>1, <1>3 DEF McpInv, RunInv
<1> QED BY <1>2, <1>3

LEMMA SendStep ==
    ASSUME McpInv, NEW c \in Callers, Send(c)
    PROVE  McpInv'
<1> USE DEF Send, process, connections, surroundings, Working
<1>1. /\ Moves(c, "sent") /\ ~call'[c].reached
      /\ call'[c].ran = call[c].ran /\ call'[c].attempt = call[c].attempt
      /\ call'[c].retried = call[c].retried /\ call'[c].outcome = call[c].outcome
  BY DEF McpInv, CallTypes, Calls, Moves, Target
<1>2. mutex[Target(c)] = c BY DEF McpInv, LockInv
<1>3. CallTypes' /\ OfferInv' /\ CallsOffered' BY <1>1, OffersKept
<1>4. LockInv' /\ pc' \in [Callers -> {"idle", "lock"} \union Working] /\ Holders'
  BY <1>1, <1>2, KeepsMutex
<1>5. RunInv' BY <1>1, RunsKept DEF McpInv, RunInv
<1>6. TypeOK' BY <1>4 DEF McpInv, TypeOK, Holders
<1> QED BY <1>3, <1>4, <1>5, <1>6 DEF McpInv

LEMMA ExecuteStep ==
    ASSUME McpInv, NEW c \in Callers, Execute(c)
    PROVE  McpInv'
<1> USE DEF Execute, process, connections, surroundings, Working
<1>1. /\ Moves(c, "sent") /\ call'[c].reached
      /\ call'[c].ran = call[c].ran + 1 /\ call'[c].attempt = call[c].attempt
      /\ call'[c].retried = call[c].retried /\ call'[c].outcome = call[c].outcome
  <2>1. pc' = [pc EXCEPT ![c] = "sent"] BY DEF McpInv, TypeOK
  <2>2. call \in [Callers -> Calls] /\ call[c].ran + 1 \in Nat
    BY DEF McpInv, CallTypes, Calls
  <2> DEFINE new == [call[c] EXCEPT !.reached = TRUE, !.ran = call[c].ran + 1]
  <2>3. call' = [call EXCEPT ![c] = new] BY <2>2
  <2>4. /\ new \in Calls /\ new.reached /\ new.ran = call[c].ran + 1
        /\ new.target = call[c].target /\ new.name = call[c].name
        /\ new.tool = call[c].tool /\ new.attempt = call[c].attempt
        /\ new.retried = call[c].retried /\ new.outcome = call[c].outcome
    BY <2>2 DEF Calls
  <2> HIDE DEF new
  <2>5. /\ call'[c] = new /\ call' \in [Callers -> Calls]
        /\ \A d \in Callers : d # c => call'[d] = call[d]
    BY <2>2, <2>3, <2>4
  <2> QED BY <2>1, <2>4, <2>5 DEF Moves, Target
<1>2. mutex[Target(c)] = c BY DEF McpInv, LockInv
<1>3. CallTypes' /\ OfferInv' /\ CallsOffered' BY <1>1, OffersKept
<1>4. LockInv' /\ pc' \in [Callers -> {"idle", "lock"} \union Working] /\ Holders'
  BY <1>1, <1>2, KeepsMutex
<1>5. call[c].ran \in Nat /\ call[c].attempt \in Nat /\ call[c].ran < call[c].attempt
  BY DEF McpInv, CallTypes, Calls, RunInv
<1>6. call[c].attempt = 2 => call[c].retried \in {"session", "misleading"}
  BY DEF McpInv, RunInv
<1>7. RunInv'
  <2>1. /\ call'[c].ran \in 1..call'[c].attempt /\ call'[c].ran <= call'[c].attempt
        /\ call'[c].ran >= 1
    BY <1>1, <1>5
  <2> QED BY <1>1, <1>6, <2>1, RunsKept
<1>8. TypeOK' BY <1>4 DEF McpInv, TypeOK, Holders
<1> QED BY <1>3, <1>4, <1>7, <1>8 DEF McpInv

LEMMA StartStep ==
    ASSUME McpInv, NEW c \in Callers, Start(c)
    PROVE  McpInv'
<1> USE DEF Start, process, connections, surroundings, Working
<1>1. Moves(c, "initialize") BY DEF McpInv, CallTypes, Calls, Moves, Target
<1>2. CallTypes' /\ OfferInv' /\ CallsOffered' BY <1>1, OffersKept
<1>3. LockInv' /\ pc' \in [Callers -> {"idle", "lock"} \union Working] /\ Holders'
  BY <1>1, KeepsMutex DEF McpInv, LockInv
<1>4. RunInv' BY <1>1, RunsKept DEF McpInv, RunInv
<1>5. TypeOK' BY <1>3 DEF McpInv, TypeOK, Holders
<1> QED BY <1>2, <1>3, <1>4, <1>5 DEF McpInv

LEMMA InitializeStep ==
    ASSUME McpInv, NEW c \in Callers, Initialize(c)
    PROVE  McpInv'
<1> USE DEF Initialize, process, surroundings, Working
<1> DEFINE to == IF call[c].attempt = 1 THEN "lock" ELSE "send"
<1>1. Moves(c, to) /\ call' = call
  BY DEF McpInv, CallTypes, Calls, Moves, Target
<1>2. Target(c) \in Servers /\ call[c].attempt \in {1, 2}
  BY DEF McpInv, CallTypes, Calls, Target
<1>3. CallTypes' /\ OfferInv' /\ CallsOffered' BY <1>1, OffersKept
<1>4. LockInv' /\ pc' \in [Callers -> {"idle", "lock"} \union Working] /\ Holders'
  <2>1. CASE call[c].attempt = 2
    <3>1. to = "send" /\ mutex[Target(c)] = c BY <2>1 DEF McpInv, LockInv
    <3> QED BY <1>1, <3>1, KeepsMutex
  <2>2. CASE call[c].attempt = 1
    <3>1. c \notin Users /\ mutex[Target(c)] # c BY <2>2 DEF McpInv, LockInv
    <3>2. \A s \in Servers : mutex[s] # c
      BY <3>1, CallerFacts DEF McpInv, TypeOK
    <3>3. pc'[c] = "lock" /\ \A d \in Callers : d # c => pc'[d] = pc[d]
      BY <2>2 DEF McpInv, TypeOK
    <3>4. pc' \in [Callers -> {"idle", "lock"} \union Working]
      BY <2>2 DEF McpInv, TypeOK
    <3>5. Holders'
      BY <1>1, <3>1, <3>2, <3>3, CallerFacts DEF McpInv, TypeOK, Holders, Target
    <3> QED BY <1>1, <3>3, <3>4, <3>5, CallerFacts DEF McpInv, LockInv, Target
  <2> QED BY <1>2, <2>1, <2>2
<1>5. RunInv' BY <1>1, RunsKept DEF McpInv, RunInv
<1>6. /\ conn' \in [Servers -> {"none", "open", "closed"}]
      /\ known' \in [Servers -> BOOLEAN]
      /\ starter' \in [Servers -> Callers \union {Nobody}]
  BY <1>2 DEF McpInv, TypeOK
<1>7. TypeOK' BY <1>4, <1>6 DEF McpInv, TypeOK, Holders
<1> QED BY <1>3, <1>4, <1>5, <1>7 DEF McpInv

LEMMA RegisterStep ==
    ASSUME McpInv, Register
    PROVE  McpInv'
<1> USE DEF Register, connections, surroundings, Working
<1> DEFINE s == Target(Main)
           names == {NamespacedToolName(s, t) : t \in ToolsOf[s]}
<1>1. Moves(Main, "idle") /\ call' = call /\ s \in Servers
  BY CallerFacts DEF McpInv, CallTypes, Calls, Moves, Target
<1>2. mutex[s] = Main BY CallerFacts DEF McpInv, LockInv
<1>3. /\ LockInv' /\ pc' \in [Callers -> {"idle", "lock"} \union Working]
      /\ mutex' \in [Servers -> Callers \union {Nobody}] /\ Holders'
  BY <1>1, <1>2, CallerFacts, LetsMutexGo
<1>4. booting' \in 1..(Len(Order) + 1)
  BY ServerFacts DEF McpInv, TypeOK, CallTypes
<1>5. TypeOK' BY <1>3, <1>4 DEF McpInv, TypeOK, Holders
<1>6. CallTypes' BY <1>1, CallerFacts DEF McpInv, TypeOK, CallTypes
<1>7. RunInv'
  BY <1>1, RunsKept, CallerFacts DEF McpInv, RunInv
<1>8. OfferInv'
  <2>1. toolMap' = [n \in names \union DOMAIN toolMap |->
                      IF n \in names THEN s ELSE toolMap[n]]
    OBVIOUS
  <2> SUFFICES ASSUME NEW n \in DOMAIN toolMap'
               PROVE  /\ toolMap'[n] \in Servers
                      /\ \E t \in ToolsOf[toolMap'[n]] :
                            n = NamespacedToolName(toolMap'[n], t)
    BY DEF OfferInv
  <2>2. CASE n \in names
    <3>1. toolMap'[n] = s BY <2>1, <2>2
    <3> QED BY <1>1, <2>2, <3>1
  <2>3. CASE n \notin names
    <3>1. n \in DOMAIN toolMap /\ toolMap'[n] = toolMap[n] BY <2>1, <2>3
    <3> QED BY <3>1 DEF McpInv, OfferInv
  <2> QED BY <2>2, <2>3
<1>9. CallsOffered'
  BY <1>1, CallerFacts DEF McpInv, TypeOK, CallsOffered, Moves, Target
<1> QED BY <1>3, <1>5, <1>6, <1>7, <1>8, <1>9 DEF McpInv

\* A call ends: it was answered only if it was carried out.
LEMMA GivesUpStep ==
    ASSUME McpInv, NEW c \in Callers, pc[c] \in Working,
           NEW outcome \in {"answered", "failed", "unrecognised"},
           GivesUp(c, outcome),
           outcome = "answered" => call[c].ran >= 1,
           UNCHANGED <<over, up, closedError>>, troubles' \in 0..MaxTroubles
    PROVE  McpInv'
<1> USE DEF GivesUp, Working
<1>1. /\ Moves(c, "idle")
      /\ call'[c].ran = call[c].ran /\ call'[c].attempt = call[c].attempt
      /\ call'[c].retried = call[c].retried
      /\ call'[c].outcome \in {outcome, call[c].outcome}
  <2>1. CASE c = Main
    BY <2>1 DEF McpInv, CallTypes, Moves, Abandon, Target
  <2>2. CASE c # Main
    <3> DEFINE new == [call[c] EXCEPT !.outcome = outcome]
    <3>1. call' = [call EXCEPT ![c] = new] BY <2>2 DEF Return
    <3>2. /\ new \in Calls /\ new.outcome = outcome /\ new.ran = call[c].ran
          /\ new.target = call[c].target /\ new.name = call[c].name
          /\ new.tool = call[c].tool /\ new.attempt = call[c].attempt
          /\ new.retried = call[c].retried
      BY DEF McpInv, CallTypes, Calls
    <3> HIDE DEF new
    <3>3. /\ call'[c] = new /\ call' \in [Callers -> Calls]
          /\ \A d \in Callers : d # c => call'[d] = call[d]
      BY <3>1, <3>2 DEF McpInv, CallTypes
    <3> QED BY <2>2, <3>2, <3>3 DEF Moves, Target, Return
  <2> QED BY <2>1, <2>2
<1>2. UNCHANGED <<toolMap, booting, env, known, starter>>
  BY DEF process, connections
<1>3. CallTypes' /\ OfferInv' /\ CallsOffered' BY <1>1, <1>2, OffersKept
<1>4. /\ LockInv' /\ pc' \in [Callers -> {"idle", "lock"} \union Working]
      /\ mutex' \in [Servers -> Callers \union {Nobody}] /\ Holders'
  BY <1>1, LetsMutexGo
<1>5. RunInv'
  <2>1. /\ call'[c].ran <= call'[c].attempt
        /\ call'[c].attempt = 2 => call'[c].retried \in {"session", "misleading"}
        /\ call'[c].outcome = "answered" => call'[c].ran >= 1
    BY <1>1 DEF McpInv, RunInv
  <2> QED BY <1>1, <2>1, RunsKept
<1>6. /\ conn' \in [Servers -> {"none", "open", "closed"}]
      /\ mode' \in {"load", "boot", "ready", "failed"}
  BY DEF McpInv, TypeOK, Abandon, process, connections
<1>7. TypeOK' BY <1>2, <1>4, <1>6 DEF McpInv, TypeOK, Holders
<1> QED BY <1>3, <1>4, <1>5, <1>7 DEF McpInv

\* An attempt fails: the call ends, or its second attempt begins under the mutex.
LEMMA ErrorStep ==
    ASSUME McpInv, NEW c \in Callers, pc[c] \in {"send", "sent"},
           NEW error, Error(c, error),
           error \in {"tool", "misleading"} => call[c].ran >= 1,
           UNCHANGED <<over, up, closedError>>, troubles' \in 0..MaxTroubles
    PROVE  McpInv'
<1> USE DEF Working
<1>1. CASE ~Retries(c, error)
  <2> DEFINE outcome == OutcomeOf(error)
  <2>1. GivesUp(c, outcome) BY <1>1 DEF Error
  <2>2. /\ outcome \in {"answered", "failed", "unrecognised"} /\ pc[c] \in Working
        /\ outcome = "answered" => call[c].ran >= 1
    BY DEF OutcomeOf
  <2> HIDE DEF outcome
  <2> QED BY <2>1, <2>2, GivesUpStep
<1>2. CASE Retries(c, error)
  <2> DEFINE new == [call[c] EXCEPT !.retried = error, !.attempt = 2]
  <2>1. call' = [call EXCEPT ![c] = new] /\ pc' = [pc EXCEPT ![c] = "start"]
    BY <1>2 DEF Error, McpInv, CallTypes, Calls
  <2>2. error \in {"session", "misleading"} /\ call[c].attempt = 1
    BY <1>2 DEF Retries
  <2>3. /\ new \in Calls /\ new.attempt = 2 /\ new.retried = error
        /\ new.ran = call[c].ran /\ new.target = call[c].target
        /\ new.name = call[c].name /\ new.tool = call[c].tool
        /\ new.outcome = call[c].outcome
    <3>1. call[c] \in Calls BY DEF McpInv, CallTypes
    <3> QED BY <2>2, <3>1 DEF Calls
  <2> HIDE DEF new
  <2>4. /\ call'[c] = new /\ call' \in [Callers -> Calls]
        /\ \A d \in Callers : d # c => call'[d] = call[d]
    BY <2>1, <2>3 DEF McpInv, CallTypes
  <2>5. Moves(c, "start") BY <2>1, <2>3, <2>4 DEF Moves, Target
  <2>6. UNCHANGED <<mode, booting, env, toolMap, known, starter, mutex>>
    BY <1>2 DEF Error, process
  <2>7. mutex[Target(c)] = c BY DEF McpInv, LockInv
  <2>8. CallTypes' /\ OfferInv' /\ CallsOffered' BY <2>5, <2>6, OffersKept
  <2>9. LockInv' /\ pc' \in [Callers -> {"idle", "lock"} \union Working] /\ Holders'
    BY <2>3, <2>4, <2>5, <2>6, <2>7, KeepsMutex
  <2>10. call[c].ran \in Nat /\ call[c].ran <= 1
    BY <2>2 DEF McpInv, CallTypes, Calls, RunInv
  <2>11. RunInv'
    <3>1. call'[c].ran < call'[c].attempt /\ call'[c].ran <= call'[c].attempt
      BY <2>3, <2>4, <2>10
    <3>2. call'[c].outcome = "answered" => call'[c].ran >= 1
      BY <2>3, <2>4 DEF McpInv, RunInv
    <3> QED BY <2>2, <2>3, <2>4, <2>5, <3>1, <3>2, RunsKept
  <2>12. conn' \in [Servers -> {"none", "open", "closed"}]
    BY <1>2 DEF Error, McpInv, TypeOK
  <2>13. TypeOK' BY <2>6, <2>9, <2>12 DEF McpInv, TypeOK, Holders
  <2> QED BY <2>8, <2>9, <2>11, <2>13 DEF McpInv
<1> QED BY <1>1, <1>2

LEMMA AnswerStep ==
    ASSUME McpInv, NEW u \in Users, Answer(u) \/ Mislead(u)
    PROVE  McpInv'
<1>1. u \in Callers /\ u # Main BY CallerFacts
<1>2. pc[u] = "sent" /\ call[u].ran >= 1 /\ mutex[Target(u)] = u
  BY <1>1 DEF Answer, Mislead, McpInv, RunInv, LockInv
<1>3. UNCHANGED <<over, up, closedError>> /\ troubles' \in 0..MaxTroubles
  BY CallerFacts DEF Answer, Mislead, surroundings, McpInv, TypeOK, Trouble
<1>4. CASE Error(u, "tool") \/ Error(u, "misleading")
  BY <1>1, <1>2, <1>3, <1>4, ErrorStep
<1>5. CASE Unlock(Target(u)) /\ Return(u, "answered") /\ UNCHANGED <<process, connections>>
  <2>1. GivesUp(u, "answered") BY <1>1, <1>2, <1>5 DEF GivesUp
  <2> QED BY <1>1, <1>2, <1>3, <2>1, GivesUpStep DEF Working
<1> QED BY <1>4, <1>5 DEF Answer, Mislead

LEMMA FailingStep ==
    ASSUME McpInv, NEW c \in Callers,
           SendClosed(c) \/ Lose(c) \/ Cancel(c) \/ DialFails(c)
    PROVE  McpInv'
<1>1. UNCHANGED <<over, up, closedError>> /\ troubles' \in 0..MaxTroubles
  BY CallerFacts
     DEF SendClosed, Lose, Cancel, DialFails, surroundings, McpInv, TypeOK, Trouble
<1>2. CASE DialFails(c)
  <2>1. pc[c] \in Working /\ GivesUp(c, "failed") BY <1>2 DEF DialFails, Working
  <2> QED BY <1>1, <2>1, GivesUpStep
<1>3. CASE SendClosed(c) \/ Lose(c) \/ Cancel(c)
  <2>1. PICK error \in {closedError, "session", "other", "context"} : Error(c, error)
    BY <1>3 DEF SendClosed, Lose, Cancel
  <2>2. error \notin {"tool", "misleading"} BY DEF McpInv, TypeOK
  <2>3. pc[c] \in {"send", "sent"} BY <1>3 DEF SendClosed, Lose, Cancel
  <2> QED BY <1>1, <2>1, <2>2, <2>3, ErrorStep
<1> QED BY <1>2, <1>3

LEMMA NextMcpInv == McpInv /\ [Next]_vars => McpInv'
<1> SUFFICES ASSUME McpInv, [Next]_vars PROVE McpInv'
  OBVIOUS
<1>1. ASSUME NEW c \in Callers, Work(c) PROVE McpInv'
  <2>1. CASE Answer(c) \/ Mislead(c)
    <3>1. c \in Users BY <2>1 DEF Answer, Mislead
    <3> QED BY <2>1, <3>1, AnswerStep
  <2>2. CASE Send(c) \/ Execute(c) \/ Start(c) \/ Initialize(c)
    BY <2>2, SendStep, ExecuteStep, StartStep, InitializeStep
  <2>3. CASE SendClosed(c) \/ Lose(c) \/ Cancel(c) \/ DialFails(c)
    BY <2>3, FailingStep
  <2> QED BY <1>1, <2>1, <2>2, <2>3 DEF Work
<1> QED BY <1>1, AroundStep, NextServerStep, RegisterStep, CallToolStep, LockStep
    DEF Next

----------------------------------------------------------------------------
(* Theorems.                                                               *)

LEMMA McpInvHolds == Spec => []McpInv
<1> QED BY InitMcpInv, NextMcpInv, PTL DEF Spec

\* A connection is used, closed and replaced under the mutex of its server only,
\* and whoever has a mutex is at work on that server: it is given back with every
\* way a call may end.
THEOREM McpTypeCorrect == Spec => []TypeOK
<1>1. McpInv => TypeOK BY DEF McpInv
<1> QED BY <1>1, McpInvHolds, PTL

\* No call is carried out more than twice, and twice only after an error that
\* reads like a lost session (client.go:161-182).
THEOREM RunsTwiceAtMost == Spec => []TwiceOnlyIfLost
<1>1. McpInv => TwiceOnlyIfLost
  <2> SUFFICES ASSUME McpInv, NEW u \in Users
               PROVE  /\ call[u].outcome = "answered" => call[u].ran >= 1
                      /\ call[u].ran <= 2
                      /\ call[u].ran = 2 => call[u].retried \in {"session", "misleading"}
    BY DEF TwiceOnlyIfLost
  <2>1. call[u].ran \in Nat /\ call[u].attempt \in {1, 2} /\ u \in Callers
    BY CallerFacts DEF McpInv, CallTypes, Calls
  <2>2. call[u].ran <= call[u].attempt BY <2>1 DEF McpInv, RunInv
  <2> QED BY <2>1, <2>2 DEF McpInv, RunInv
<1> QED BY <1>1, McpInvHolds, PTL

\* Whatever names servers and tools have, a call goes to a server that offers the
\* tool; and where every server that offers it has a plain name, there is only
\* one, and it is asked for the tool by the tool's own name (client.go:260-278).
THEOREM RoutesToOwner == Spec => []RoutedToOwner
<1>1. McpInv => RoutedToOwner
  <2> SUFFICES ASSUME McpInv, NEW u \in Users, pc[u] \in {"lock"} \union Working
               PROVE  /\ \E o \in Offers(call[u].name) : o[1] = Target(u)
                      /\ ~Ambiguous(call[u].name) =>
                            Offers(call[u].name) = {<<Target(u), call[u].tool>>}
    BY DEF RoutedToOwner
  <2> DEFINE n == call[u].name
  <2>1. /\ Target(u) \in Servers
        /\ call[u].tool = ParseToolName(n)[2]
        /\ \E t \in ToolsOf[Target(u)] : n = NamespacedToolName(Target(u), t)
    BY CallerFacts DEF McpInv, CallTypes, Calls, CallsOffered, Working, Target
  <2>2. PICK t \in ToolsOf[Target(u)] : n = NamespacedToolName(Target(u), t)
    BY <2>1
  <2> HIDE DEF n
  <2>3. <<Target(u), t>> \in Offers(n) BY <2>1, <2>2 DEF Offers
  <2>4. ASSUME NEW o \in Offers(n), PlainName(o[1])
        PROVE  ParseToolName(n) = o
    <3>1. PICK s \in Servers : o \in {s} \X ToolsOf[s] BY DEF Offers
    <3>2. /\ o = <<s, o[2]>> /\ o[2] \in ToolsOf[s]
          /\ n = NamespacedToolName(o[1], o[2])
      BY <3>1 DEF Offers
    <3>3. o[1] \in Seq(Chars) /\ o[2] \in Seq(Chars)
      BY <3>1, <3>2, ServerFacts, McpConstants DEF Names
    <3>4. ParseToolName(n) = <<o[1], o[2]>>
      BY <2>4, <3>2, <3>3, ParseUndoesJoin, UnderscoreIsChar
    <3> QED BY <3>2, <3>4
  <2>5. ASSUME ~Ambiguous(n) PROVE Offers(n) = {<<Target(u), call[u].tool>>}
    <3>1. \A o \in Offers(n) : o = ParseToolName(n) BY <2>4, <2>5 DEF Ambiguous
    <3>2. ParseToolName(n) = <<Target(u), t>> BY <2>3, <3>1
    <3> QED BY <2>1, <2>3, <3>1, <3>2
  <2> QED BY <2>3, <2>5 DEF n
<1> QED BY <1>1, McpInvHolds, PTL

============================================================================
