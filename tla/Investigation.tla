--------------------------- MODULE Investigation ---------------------------
(***************************************************************************)
(* One attempt at a job: Handler.investigate and notifyStatus around       *)
(* Agent.Run and Agent.Notify (agent/agent.go), with the tool filter       *)
(* (agent/tools.go) and the image executor (agent/images.go).  The steps   *)
(* are those of one goroutine; its environment is the deadline of the job, *)
(* which passes at any moment, the LLM, the tools and the chat channels.   *)
(*                                                                         *)
(* A request to the LLM goes out in the step that leads to a waiting state *)
(* and is answered in a later one.  With a context that is over it fails,  *)
(* with one that ends meanwhile it may.  Sizes of messages are counted in  *)
(* tokens: a tool result has the size of its tool, a prompt has size 1.    *)
(***************************************************************************)
EXTENDS Naturals, Sequences, SequencesExt, FiniteSetsExt

CONSTANTS
    Panels,         \* panel renders the LLM may ask for (get_panel_image)
    Others,         \* its other tool calls
    Allowed,        \* those on the allowlist of the scenario
    Images,         \* pictures the tools return
    Size,           \* tokens of a result
    Budget,         \* ContextLimit - MaxTokens, 0: no limit configured
    SendImages,
    MaxIterations,  \* maxIterations (20)
    MaxToolCalls    \* maxToolCallsPerIteration (10)

Calls == Panels \union Others

ASSUME InvestigationConstants ==
    /\ IsFiniteSet(Images) /\ {"message", "document"} \intersect Images = {}
    /\ Size \in [Calls -> Nat] /\ Budget \in Nat
    /\ SendImages \in BOOLEAN
    /\ MaxIterations \in Nat \ {0} /\ MaxToolCalls \in Nat \ {0}

VARIABLES
    pc,         \* "start", "loop", "asked", "calls", "wrap", "notify",
                \* "summary", "send", "done"
    expired,    \* the deadline of the job has passed
    detached,   \* the last requests go out without the deadline
    late,       \* the request that is out was sent after the deadline
    iteration,
    messages,   \* the conversation: see Message
    counted,    \* lastPromptTokens
    todo,       \* calls of this turn not yet made, or parts not yet sent
    panels,     \* panel calls with a kept picture
    seen,       \* pictures seen (by hash)
    images,     \* pictures of the report
    result,     \* "none", "report", "error"
    sent,       \* parts that reached a channel
    \* history:
    estimate,   \* the estimate after the last trimming
    shots,      \* how often a panel call was executed and gave a picture
    returned,   \* pictures the tools have returned
    broken      \* a failure that is not due to the deadline of a full run

loop == <<iteration, messages, counted, estimate>>
executor == <<panels, seen>>
pictures == <<images, shots, returned>>
tools == <<executor, pictures>>
vars == <<pc, expired, detached, late, loop, tools, todo, result, sent, broken>>

Message ==
    [role : {"user"}] \union
    [role : {"assistant"}, calls : Seq(Calls \X Nat)] \union
    [role : {"tool"}, call : Calls \X Nat, trimmed : BOOLEAN]

Channels == <<"telegram", "slack">>
Parts == {"message", "document"} \union Images

TypeOK ==
    /\ pc \in {"start", "loop", "asked", "calls", "wrap", "notify", "summary",
               "send", "done"}
    /\ {expired, detached, late, broken} \subseteq BOOLEAN
    /\ iteration \in 0..MaxIterations
    /\ \A i \in DOMAIN messages : messages[i].role \in {"user", "assistant", "tool"}
    /\ counted \in Nat
    /\ pc = "calls" => todo # <<>> /\ Len(todo) <= MaxToolCalls
    /\ panels \subseteq Panels /\ seen \subseteq Images
    /\ images \in Seq(Images)
    /\ result \in {"none", "report", "error"}
    /\ sent \subseteq ToSet(Channels) \X Parts
    /\ shots \in [Panels -> Nat]

Init ==
    /\ pc = "start"
    /\ expired = FALSE /\ detached = FALSE /\ late = FALSE
    /\ iteration = 0 /\ counted = 0
    /\ messages = <<[role |-> "user"]>>
    /\ todo = <<>>
    /\ panels = {} /\ seen = {} /\ images = <<>>
    /\ result = "none" /\ sent = {}
    /\ estimate = 0
    /\ shots = [p \in Panels |-> 0] /\ returned = {}
    /\ broken = FALSE

----------------------------------------------------------------------------
(* Trimming (trimMessages).                                                *)

ToolAt(ms) == {i \in DOMAIN ms : ms[i].role = "tool"}
FullAt(ms) == {i \in ToolAt(ms) : ~ms[i].trimmed}

Tokens(m) ==
    CASE m.role = "tool" -> IF m.trimmed THEN 0 ELSE Size[m.call[1]]
      [] OTHER -> 1
TokensAt(ms, I) == MapThenSumSet(LAMBDA i : Tokens(ms[i]), I)

\* What follows the last turn of the assistant was not counted by the LLM.
Latest(ms) ==
    LET turns == {i \in DOMAIN ms : ms[i].role = "assistant"}
    IN  IF turns = {} THEN {} ELSE {i \in DOMAIN ms : i > Max(turns)}

\* A result is trimmed when the estimate, less the older results trimmed
\* before it, is still over the budget.  (OverBudgetNewestFirst and other
\* definitions that no action uses are variants: each is what an easy mistake
\* would make of the definition it stands next to.)
OverBudgetNewestFirst(ms, i, est) ==
    est > Budget + TokensAt(ms, {j \in FullAt(ms) : j > i})
OverBudget(ms, i, est) ==
    est > Budget + TokensAt(ms, {j \in FullAt(ms) : j < i})

Trim(ms) ==
    LET est == counted + TokensAt(ms, Latest(ms))
        out == {i \in FullAt(ms) : OverBudget(ms, i, est)}
    IN  /\ messages' = [i \in DOMAIN ms |->
                            IF i \in out THEN [ms[i] EXCEPT !.trimmed = TRUE]
                                         ELSE ms[i]]
        /\ estimate' = LET saved == TokensAt(ms, out)
                       IN  IF saved > est THEN 0 ELSE est - saved

----------------------------------------------------------------------------
(* The agent.                                                              *)

\* Run returns: its conversation and its image executor are gone.
Return ==
    /\ messages' = <<>>
    /\ iteration' = 0 /\ counted' = 0 /\ estimate' = 0
    /\ panels' = {} /\ seen' = {}

Fails ==
    /\ result' = "error" /\ pc' = "done"
    /\ Return
    /\ UNCHANGED <<todo, late, detached>>

\* The deadline of the job (scenario timeout, 30 s for a notification).
Expire ==
    /\ ~expired /\ pc # "done"
    /\ expired' = TRUE
    /\ UNCHANGED <<pc, detached, late, loop, tools, todo, result, sent, broken>>

\* A job carries a prompt for a short notification or wants a full run, which
\* first loads the prompts.
Start ==
    /\ pc = "start"
    /\ \/ /\ pc' = "notify" /\ late' = expired
          /\ UNCHANGED <<detached, loop, executor, todo, result, broken>>
       \/ /\ pc' = "loop"
          /\ UNCHANGED <<detached, late, loop, executor, todo, result, broken>>
       \/ Fails /\ broken' = TRUE
    /\ UNCHANGED <<expired, pictures, sent>>

\* The head of the loop: trim, then ask the LLM with the tools.
Ask ==
    /\ pc = "loop" /\ iteration < MaxIterations
    /\ ~expired
    /\ IF Budget > 0 /\ counted > 0
         THEN Trim(messages)
         ELSE UNCHANGED <<messages, estimate>>
    /\ pc' = "asked"
    /\ UNCHANGED <<expired, detached, late, iteration, counted, tools, todo,
                   result, sent, broken>>

\* Out of time or out of iterations: the last request, without tools, goes out
\* with the context of the job.
WrapUpNow ==
    /\ pc = "loop" /\ (expired \/ iteration = MaxIterations)
    /\ messages' = Append(messages, [role |-> "user"])
    /\ late' = expired
    /\ pc' = "wrap"
    /\ UNCHANGED <<expired, detached, iteration, counted, estimate, tools, todo,
                   result, sent, broken>>

\* (A retry that does not count would look like this.)
AskRetries ==
    /\ pc = "asked"
    /\ pc' = "loop"
    /\ UNCHANGED <<expired, detached, late, loop, tools, todo, result, sent, broken>>

\* The LLM fails: out of time, the last request goes out without a deadline.
AskFails ==
    /\ pc = "asked"
    /\ \/ /\ expired
          /\ messages' = Append(messages, [role |-> "user"])
          /\ detached' = TRUE
          /\ pc' = "wrap"
          /\ UNCHANGED <<late, iteration, counted, estimate, executor, todo,
                         result, broken>>
       \/ /\ ~expired
          /\ Fails /\ broken' = TRUE
    /\ UNCHANGED <<expired, pictures, sent>>

\* It reports: the summary is asked for next.
Report ==
    /\ pc = "asked"
    /\ late' = expired
    /\ pc' = "summary"
    /\ UNCHANGED <<expired, detached, loop, tools, todo, result, sent, broken>>

\* It calls tools: at most MaxToolCalls of them are kept in the conversation
\* and made.  Not every provider reports how many tokens the prompt had.
KeptOneMore(cs) == SubSeq(cs, 1, IF Len(cs) > MaxToolCalls + 1 THEN MaxToolCalls ELSE Len(cs))
Kept(cs) == SubSeq(cs, 1, IF Len(cs) > MaxToolCalls THEN MaxToolCalls ELSE Len(cs))
RecordsAll(cs) == cs
Recorded(cs) == Kept(cs)

AskedFor == UNION {[1..n -> Calls] : n \in 1..(MaxToolCalls + 1)}
WithIds(cs) == [i \in DOMAIN cs |-> <<cs[i], iteration * (MaxToolCalls + 1) + i>>]

CallTools ==
    /\ pc = "asked"
    /\ \E cs \in AskedFor :
        /\ messages' = Append(messages,
                [role |-> "assistant", calls |-> Recorded(WithIds(cs))])
        /\ todo' = Kept(WithIds(cs))
    /\ counted' \in {0, TokensAt(messages, DOMAIN messages)}
    /\ pc' = "calls"
    /\ UNCHANGED <<expired, detached, late, iteration, estimate, tools, result,
                   sent, broken>>

\* imageExecutor around the filter around the MCP manager: a kept panel is not
\* rendered again; of the pictures returned, those already seen are dropped.
Reused(c) ==
    /\ c \in panels
    /\ UNCHANGED tools

NoPicture(c) ==
    /\ c \notin panels      \* an error, a refusal of the filter or plain text
    /\ UNCHANGED tools

Keep(c) == panels' = panels \union ({c} \intersect Panels)

Forget(new) == seen' = new
See(new) == seen' = seen \union new

Picture(c) ==
    /\ c \notin panels /\ c \in Allowed
    /\ \E got \in SUBSET Images \ {{}} :
        LET new == got \ seen IN
        /\ images' = images \o SetToSeq(new)
        /\ See(new)
        /\ returned' = returned \union got
    /\ Keep(c)
    /\ shots' = [p \in Panels |-> IF p = c THEN shots[p] + 1 ELSE shots[p]]

Call ==
    /\ pc = "calls"
    /\ LET c == Head(todo)[1] IN Reused(c) \/ NoPicture(c) \/ Picture(c)
    /\ messages' = Append(messages,
            [role |-> "tool", call |-> Head(todo), trimmed |-> FALSE])
    /\ todo' = Tail(todo)
    /\ IF Len(todo) > 1
         THEN UNCHANGED <<pc, iteration>>
         ELSE pc' = "loop" /\ iteration' = iteration + 1
    /\ UNCHANGED <<expired, detached, late, counted, estimate, result, sent,
                   broken>>

\* The answer to the last request, or none: with a context that is over it
\* cannot come.
WrapUp ==
    /\ pc = "wrap"
    /\ \/ /\ ~late
          /\ late' = (expired /\ ~detached)
          /\ pc' = "summary"
          /\ UNCHANGED <<detached, loop, executor, todo, result, broken>>
       \/ /\ Fails
          /\ broken' = (broken \/ ~expired \/ detached)
    /\ UNCHANGED <<expired, pictures, sent>>

----------------------------------------------------------------------------
(* The handler.                                                            *)

PhotoParts == IF SendImages THEN images ELSE <<>>
ReportParts == <<"message", "document">> \o PhotoParts
To(c, parts) == [i \in DOMAIN parts |-> <<c, parts[i]>>]
ToOneTwice(parts) == To("telegram", parts) \o To("telegram", parts)
ToAll(parts) == To("telegram", parts) \o To("slack", parts)

\* A summary that fails is empty, and the report takes its place.
Summarize ==
    /\ pc = "summary"
    /\ result' = "report"
    /\ todo' = ToAll(ReportParts)
    /\ pc' = "send"
    /\ Return
    /\ UNCHANGED <<expired, detached, late, pictures, sent, broken>>

Notify ==
    /\ pc = "notify"
    /\ \/ /\ ~late
          /\ result' = "report"
          /\ todo' = ToAll(<<"message">>)
          /\ pc' = "send"
          /\ UNCHANGED <<detached, late, loop, executor, broken>>
       \/ Fails /\ broken' = TRUE
    /\ UNCHANGED <<expired, pictures, sent>>

\* Every part is tried, its error only logged.  Slack's requests carry the
\* context of the job, Telegram's do not.
Send ==
    /\ pc = "send"
    /\ \/ /\ Head(todo)[1] = "slack" => ~expired
          /\ sent' = sent \union {Head(todo)}
       \/ UNCHANGED sent
    /\ todo' = Tail(todo)
    /\ pc' = IF Len(todo) > 1 THEN "send" ELSE "done"
    /\ UNCHANGED <<expired, detached, late, loop, tools, result, broken>>

Step ==
    \/ Start \/ Ask \/ WrapUpNow \/ AskFails \/ Report \/ CallTools \/ Call
    \/ WrapUp \/ Summarize \/ Notify \/ Send

Finished == pc = "done" /\ UNCHANGED vars

Next == Step \/ Expire \/ Finished

\* The LLM, the tools and the channels answer or fail; the deadline need not pass.
Spec == Init /\ [][Next]_vars /\ WF_vars(Step)

----------------------------------------------------------------------------
(* Properties.                                                             *)

\* Every request to the LLM carries, after a turn that calls tools, exactly
\* one result per call, in order (the APIs reject anything else), whatever was
\* cut off, reused, refused or trimmed.
CallsAnswered ==
    pc \in {"asked", "wrap"} =>
        /\ \A i \in DOMAIN messages :
              messages[i].role = "assistant" =>
                  \A k \in DOMAIN messages[i].calls :
                      /\ i + k <= Len(messages)
                      /\ messages[i + k].role = "tool"
                      /\ messages[i + k].call = messages[i].calls[k]
        /\ \A j \in ToolAt(messages) :
              \E i \in 1..(j - 1) :
                  /\ messages[i].role = "assistant"
                  /\ j <= i + Len(messages[i].calls)

\* The parts of the two properties below.
OldestTrimmedFirst ==
    \A i, j \in ToolAt(messages) :
        i < j /\ messages[j].trimmed => messages[i].trimmed
FitsOrBare ==
    pc = "asked" /\ Budget > 0 /\ counted > 0 /\ estimate > Budget
        => FullAt(messages) = {}
LastGroupOnlyIfNeeded ==
    pc = "asked" =>
        \A j \in ToolAt(messages) \intersect Latest(messages) :
            /\ messages[j].trimmed
            /\ \A k \in ToolAt(messages) : k > j => ~messages[k].trimmed
            => estimate + Size[messages[j].call[1]] > Budget
ImagesOnce ==
    /\ ToSet(images) = returned
    /\ \A i, j \in DOMAIN images : images[i] = images[j] => i = j
PanelOnce == \A p \in Panels : shots[p] <= 1
RetryIsClean ==
    /\ result = "error" => sent = {}
    /\ pc = "done" /\ result = "report" => todo = <<>>

\* trimMessages gives up old results before newer ones, and as many as it takes:
\* a request goes out within the budget, by the agent's own estimate, or with
\* nothing left to trim.  The exception to agent.go:317-318, "skip ... the last
\* group of messages (most recent assistant + tool results)": the loop below that
\* comment does reach the last group.  What holds is that it comes last, and that
\* no result of it goes unless the request were over the budget with it.
TrimsInOrder == OldestTrimmedFirst /\ FitsOrBare /\ LastGroupOnlyIfNeeded

\* The report carries every picture a tool has returned, and carries it once,
\* also when the deadline cut the run short; a panel that gave a picture is not
\* rendered again in the same run; and an attempt that fails has sent nothing,
\* so its retry repeats no message.
NothingTwice == ImagesOnce /\ PanelOnce /\ RetryIsClean

\* What the worker of the queue sees of the attempt, and that it can rely on it:
\* an error comes with nothing sent, and without one every part was tried once,
\* in order (redis.go:265-292 retries on an error, and only then).
Phase ==
    CASE pc = "send" -> "reporting"
      [] pc = "done" /\ result = "report" -> "succeeded"
      [] pc = "done" /\ result # "report" -> "failed"
      [] OTHER -> "working"
Worker == INSTANCE Attempt WITH
    Parts <- ToSet(Channels) \X Parts,
    phase <- Phase,
    rest <- IF pc = "send" THEN todo ELSE <<>>
ImplementsAttempt == Worker!Spec

\* An attempt ends, however many tools the LLM calls.
Ends == <>(pc = "done")

\* docs/agent-loop.md: when the context is cancelled "timeoutFinish() is
\* called" and "makes one final LLM call"; TestRun_Timeout expects its report
\* from a context that is over.  So only a failure of the LLM or of the prompt
\* store fails a run.
GracefulTimeout == result = "error" => broken
=============================================================================
