---------------------------- MODULE Conversation ----------------------------
(***************************************************************************)
(* The conversation of a run with an LLM through the providers             *)
(* (llm/anthropic/anthropic.go, llm/openai/openai.go): messages of the     *)
(* agent (llm/llm.go) become a request of the API, the answer of the API   *)
(* becomes a response to the agent, whose loop (agent/agent.go) puts it    *)
(* back into the messages.  Investigation has the rest of that loop.       *)
(*                                                                         *)
(* An answer is a sequence of blocks.  Anthropic streams them one by one,  *)
(* and may end at any of them for want of tokens, which leaves the last    *)
(* one cut; OpenAI answers at once, without thinking.                      *)
(***************************************************************************)
EXTENDS Naturals, Sequences, SequencesExt, FiniteSetsExt

CONSTANTS
    MaxBlocks,      \* blocks of an answer
    MaxTurns,       \* answers before the agent wraps up
    MaxToolCalls    \* maxToolCallsPerIteration

ASSUME ConversationConstants ==
    MaxBlocks \in Nat \ {0} /\ MaxTurns \in Nat \ {0} /\ MaxToolCalls \in Nat \ {0}

VARIABLES
    api,        \* "anthropic" or "openai"
    pc,         \* "ask", "answer", "tools", "report", "error"
    messages,   \* llm.ChatRequest.Messages
    request,    \* messages of the API's request
    offered,    \* it offers tools
    stream,     \* blocks of the answer so far
    todo,       \* calls still to be made
    \* history:
    turns       \* the answers that led to tool calls, with their stop reason

vars == <<api, pc, messages, request, offered, stream, todo, turns>>

Thinking == {"thinking", "redacted"}
Kinds(a) == {"text", "tool_use"} \union (IF a = "anthropic" THEN Thinking ELSE {})
Reasons(a) == IF a = "anthropic"
                THEN {"end_turn", "tool_use", "max_tokens", "refusal"}
                ELSE {"stop", "tool_calls", "length"}

\* A message of the agent: every field, as llm.Message has.
Message(role, text, thinking, calls, of) ==
    [role |-> role, text |-> text, thinking |-> thinking, calls |-> calls, of |-> of]
User == Message("user", TRUE, <<>>, <<>>, 0)

Init ==
    /\ api \in {"anthropic", "openai"}
    /\ pc = "ask" /\ offered = TRUE
    /\ messages = <<User>>
    /\ request = <<>> /\ stream = <<>> /\ todo = <<>> /\ turns = <<>>

----------------------------------------------------------------------------
(* Requests.                                                               *)

\* The elements of s that are in S, in their order.  (A function in place of
\* SelectSeq: proofs can unfold it.)
Picked(s, S) ==
    LET pick[n \in 0..Len(s)] ==
            IF n = 0 THEN <<>>
            ELSE IF s[n] \in S THEN Append(pick[n - 1], s[n]) ELSE pick[n - 1]
    IN  pick[Len(s)]

BlocksOf(kinds) == [kind : kinds, id : Nat, cut : BOOLEAN]
OfKind(blocks, kinds) == Picked(blocks, BlocksOf(kinds))
TextBlock(present) == IF present THEN <<[kind |-> "text", id |-> 0, cut |-> FALSE]>> ELSE <<>>

\* A result with no text gets a placeholder: its block is never empty.
ResultBlock(m) == [kind |-> "tool_result", id |-> m.of, cut |-> FALSE]

\* The messages that follow the i-th as one run of tool results.
RunFrom(ms, i) == SubSeq(ms, i, Min({j \in i..Len(ms) :
                        j = Len(ms) \/ ms[j + 1].role # "tool"}))

\* All of these go into one message, and the next begins after them.
\* (BeginsAnywhere and other definitions that no action uses are variants: each
\* is what an easy mistake would make of the definition it stands next to.)
BeginsAnywhere(ms) == DOMAIN ms
Begins(ms) ==
    {i \in DOMAIN ms : ms[i].role = "tool" => i = 1 \/ ms[i - 1].role # "tool"}

\* convertMessages of Anthropic.
AnthropicMessage(ms, i) ==
    CASE ms[i].role = "user" -> [role |-> "user", blocks |-> TextBlock(TRUE)]
      [] ms[i].role = "assistant" ->
            [role |-> "assistant",
             blocks |-> ms[i].thinking \o TextBlock(ms[i].text) \o ms[i].calls]
      [] ms[i].role = "tool" ->
            LET run == RunFrom(ms, i)
            IN  [role |-> "user", blocks |-> [k \in DOMAIN run |-> ResultBlock(run[k])]]

ForAnthropic(ms) ==
    LET at == Picked([i \in DOMAIN ms |-> i], Begins(ms))
    IN  [k \in DOMAIN at |-> AnthropicMessage(ms, at[k])]

\* convertMessage of OpenAI, after the system prompt: a turn that calls tools
\* loses its text.
OpenAIMessage(m) ==
    CASE m.role = "user" -> [role |-> "user", blocks |-> TextBlock(TRUE)]
      [] m.role = "assistant" ->
            [role |-> "assistant",
             blocks |-> IF m.calls = <<>> THEN TextBlock(m.text) ELSE m.calls]
      [] m.role = "tool" -> [role |-> "tool", blocks |-> <<ResultBlock(m)>>]

ForOpenAI(ms) ==
    <<[role |-> "system", blocks |-> TextBlock(TRUE)]>> \o
    [i \in DOMAIN ms |-> OpenAIMessage(ms[i])]

Convert(ms) == IF api = "anthropic" THEN ForAnthropic(ms) ELSE ForOpenAI(ms)

\* ChatCompletion, with the tools or, to wrap up, without.
Ask ==
    /\ pc = "ask" /\ (offered => Len(turns) < MaxTurns)
    /\ request' = Convert(messages)
    /\ stream' = <<>>
    /\ pc' = "answer"
    /\ UNCHANGED <<api, messages, offered, todo, turns>>

----------------------------------------------------------------------------
(* Answers.                                                                *)

Fresh == 1 + MaxBlocks * Len(turns) + Len(stream)

\* A block of the answer.
Block ==
    /\ pc = "answer" /\ Len(stream) < MaxBlocks
    /\ \E kind \in Kinds(api) :
          /\ kind = "tool_use" => offered
          /\ stream' = Append(stream, [kind |-> kind, id |-> Fresh, cut |-> FALSE])
    /\ UNCHANGED <<api, pc, messages, request, offered, todo, turns>>

\* The request or its stream fails, or the answer has no choices: what has
\* come so far is dropped.  Out of time, the agent goes on to wrap up.
Fail ==
    /\ pc = "answer"
    /\ stream' = <<>>
    /\ \/ /\ offered
          /\ messages' = Append(messages, User)
          /\ offered' = FALSE /\ pc' = "ask"
       \/ /\ pc' = "error"
          /\ UNCHANGED <<messages, offered>>
    /\ UNCHANGED <<api, request, todo, turns>>

\* mapStopReason, mapFinishReason.
AnyReason(reason) == IF reason \in {"end_turn", "stop"} THEN "stop" ELSE "tool_call"
FinishReason(reason) == IF reason \in {"tool_use", "tool_calls"} THEN "tool_call" ELSE "stop"

\* The thinking of the answer.
OnlyReadable(blocks) == OfKind(blocks, {"thinking"})
ThinkingOf(blocks) == OfKind(blocks, Thinking)
CallsOf(blocks) == OfKind(blocks, {"tool_use"})
TextOf(blocks) == OfKind(blocks, {"text"}) # <<>>

Kept(calls) == SubSeq(calls, 1, IF Len(calls) > MaxToolCalls THEN MaxToolCalls ELSE Len(calls))

\* What ends an answer: for want of tokens its last block may be cut.
Ended(reason) ==
    IF reason \in {"max_tokens", "length"} /\ stream # <<>>
      THEN {stream, [stream EXCEPT ![Len(stream)].cut = TRUE]}
      ELSE {stream}

\* The answer is complete: the agent reports or makes the first calls.  (The API
\* gives the reason of tool use for an answer that calls tools.)
Complete ==
    /\ pc = "answer"
    /\ \E reason \in Reasons(api) : \E blocks \in Ended(reason) :
          LET calls == CallsOf(blocks) IN
          /\ FinishReason(reason) = "tool_call" /\ reason \in {"tool_use", "tool_calls"} => calls # <<>>
          /\ reason \in {"end_turn", "stop"} => calls = <<>>
          /\ IF FinishReason(reason) = "stop" \/ calls = <<>>
               THEN /\ pc' = "report"
                    /\ UNCHANGED <<messages, todo, turns>>
               ELSE /\ pc' = "tools"
                    /\ todo' = Kept(calls)
                    /\ messages' = Append(messages,
                          Message("assistant", TextOf(blocks), ThinkingOf(blocks), Kept(calls), 0))
                    /\ turns' = Append(turns, blocks)
    /\ stream' = <<>>
    /\ UNCHANGED <<api, request, offered>>

\* A tool answers.
CallTool ==
    /\ pc = "tools"
    /\ messages' = Append(messages, Message("tool", TRUE, <<>>, <<>>, Head(todo).id))
    /\ todo' = Tail(todo)
    /\ pc' = IF Len(todo) > 1 THEN "tools" ELSE "ask"
    /\ UNCHANGED <<api, request, offered, stream, turns>>

\* Out of time or of iterations: the last request, after one more message.
WrapUp ==
    /\ pc = "ask" /\ offered /\ turns # <<>>
    /\ messages' = Append(messages, User)
    /\ offered' = FALSE
    /\ UNCHANGED <<api, pc, request, stream, todo, turns>>

Next ==
    \/ Ask \/ Block \/ Fail \/ Complete \/ CallTool \/ WrapUp

Spec == Init /\ [][Next]_vars

----------------------------------------------------------------------------
(* Properties.                                                             *)

Ids(blocks) == [i \in DOMAIN blocks |-> blocks[i].id]
ResultsOf(blocks) == OfKind(blocks, {"tool_result"})
Assistants == Picked(request, {m \in ToSet(request) : m.role = "assistant"})

\* The results that follow a turn are those of its calls, one for each, in the
\* next message of Anthropic's and in as many messages of OpenAI's; and no call
\* has two results.
InPlace ==
    /\ \A i \in DOMAIN request : LET calls == CallsOf(request[i].blocks) IN
          calls # <<>> =>
              IF api = "anthropic"
                THEN /\ i < Len(request)
                     /\ Ids(ResultsOf(request[i + 1].blocks)) = Ids(calls)
                ELSE \A k \in DOMAIN calls :
                        /\ i + k <= Len(request)
                        /\ Ids(ResultsOf(request[i + k].blocks)) = <<calls[k].id>>
    /\ \A i, j \in DOMAIN request :
          \A k \in DOMAIN request[i].blocks, l \in DOMAIN request[j].blocks :
              LET b == request[i].blocks[k]
                  c == request[j].blocks[l]
              IN  b.kind = "tool_result" /\ c.kind = "tool_result" /\ b.id = c.id
                      => i = j /\ k = l

\* User and assistant take turns in Anthropic's, "the Messages API requires
\* alternating user/assistant turns" (anthropic.go:150, docs/agent-loop.md:223-224).
\* The exception is the last message of the request that wraps up: timeoutFinish
\* puts one more user message after the results of a turn, or after the first
\* message of the run, and convertMessages does not merge the two.
WrapUpMessage(i) == ~offered /\ i = Len(request)
Alternates ==
    api = "anthropic" =>
        \A i \in 2..Len(request) :
            request[i].role # request[i - 1].role \/ WrapUpMessage(i)

\* What the APIs ask of a request, by the code's comments and the docs: besides,
\* no message is empty.
Accepted ==
    pc = "answer" =>
        /\ \A i \in DOMAIN request : request[i].blocks # <<>>
        /\ InPlace /\ Alternates

\* llm.go, ThinkingBlock: the reasoning of a turn is sent back unchanged when it
\* called tools, before anything else of the turn, and with it the calls that were
\* made.  So the LLM sees its own turns again in every later request of a run.
TurnsEchoed ==
    pc = "answer" =>
        /\ Len(Assistants) = Len(turns)
        /\ \A i \in DOMAIN turns : LET blocks == Assistants[i].blocks IN
              /\ IsPrefix(OfKind(turns[i], Thinking), blocks)
              /\ CallsOf(blocks) = Kept(CallsOf(turns[i]))
              /\ api = "anthropic" => TextOf(blocks) = TextOf(turns[i])

\* No call is made whose arguments may have been cut off, by a lack of tokens or
\* by a stream that broke (ChatCompletion, mapStopReason, mapFinishReason).
OnlyWholeCalls ==
    /\ \A i \in DOMAIN todo : ~todo[i].cut
    /\ \A i \in DOMAIN messages : \A k \in DOMAIN messages[i].calls : ~messages[i].calls[k].cut
=============================================================================
