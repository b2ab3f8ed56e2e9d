# alert-agent in TLA+

alert-agent receives Grafana alerts over a webhook, finds the scenario whose
labels match, and lets an LLM investigate with the tools of MCP servers; the
report goes to Telegram and Slack. This directory holds TLA+ modules of its
parts, the TLC configurations that check them on small instances, and proofs
that TLAPS checks for every value of the constants. Paths below are those of
the repository (`internal/...`, `cmd/...`); `PROJECT.json` maps every definition
to the lines it models and lists components, runs, hazards, findings and theorems.

| module | models | kind |
| --- | --- | --- |
| `AtLeastOnce` | what a durable job queue promises | abstract specification |
| `RedisQueue` | `webhook/redis.go`, the queue on Redis Streams | detailed specification, refines `AtLeastOnce` |
| `RedisQueueProofs` | what becomes of jobs; the refinement; one job, one hand, one report | proofs |
| `Webhook` | `webhook/handler.go` up to the response, `dedup.go`, `queue.go` | specification |
| `WebhookProofs` | deduplication, the clearing of resolved alerts, the order of jobs | proofs |
| `Attempt` | what the worker of a queue relies on when it hands a job to the handler | abstract specification |
| `Investigation` | `agent/*.go` and the sends of `webhook/handler.go`: one attempt at a job | detailed specification, refines `Attempt` |
| `InvestigationProofs` | nothing twice; the refinement; calls and their results; trimming | proofs |
| `RepoCache` | the cache of `storage/scenario_repo.go` and `prompt_repo.go` | specification |
| `ToolNames` | the names of tools in `mcp/client.go` | operators |
| `McpClient` | `mcp/client.go`, `mcp/config.go`: connections, sessions, calls | specification |
| `McpClientProofs` | names, mutex, repeated calls, routing | proofs |
| `ScenarioAdmin` | `web/scenario_handler.go` and the match probe over `storage/scenario_repo.go` | specification |
| `ScenarioAdminProofs` | unique rows, the first match, what an import loads, what a move does | proofs |
| `Markup` | the conversion and cutting of texts in `notify/` | operators |
| `Delivery` | `sendReport` through `notify/telegram` and `notify/slack` | specification |
| `DeliveryProofs` | what is shown is in order and reads back | proofs |
| `Conversation` | `llm/anthropic`, `llm/openai` and the messages of the agent | specification |
| `ConversationProofs` | what the APIs accept, turns sent back, calls cut off | proofs |
| `Service` | `cmd/serve.go`, `storage/db.go`, `storage/seed.go`, `server/server.go` | specification |
| `ServiceProofs` | the seed is whole, a clean stop cuts nothing off; and for `RepoCache`: the cache returns settled edits and never goes back | proofs |
| `MC...` | definitions and symmetry sets for TLC, one for each specification | instances |

To check a run: `tlc -config <run>.cfg <module>` with the module `PROJECT.json`
names for it; to check the proofs of a module: `tlapm <module>.tla`. A definition
that no action uses is a variant: what an easy mistake would make of the
definition it stands next to. `PROJECT.json` lists, for each property, the
variant that breaks it.

## 1. The system

    Grafana --POST /webhook--> Handler.HandleWebhook --Match--> scenario repository <--edits-- Web UI
                                   | Clear, ShouldProcess                  |
                                   v                                       v
                              DedupStore                               database <--seed-- serve
                           (memory | Redis)                    (shared by all replicas)
                                   | Enqueue
                                   v
                               JobQueue (channel | Redis Stream)
                                   | one worker goroutine per process
                                   v
              Handler.investigate / notifyStatus --> Agent.Run / Notify --> LLM provider
                                   |                      | CallTool
                                   v                      v
                           Telegram, Slack        image executor > allow list > MCP manager > servers

Every part, its state, what is hard about it and what makes it correct:

* **Webhook handler** (`webhook/handler.go`). No state of its own; net/http runs
  each request in a goroutine. It matches a scenario, clears the deduplication
  entries of resolved alerts, asks for each firing alert whether it is fresh,
  enqueues one job for the group and answers. *Hard:* the alerts of a group are
  checked one call at a time, so two requests interleave; entries are recorded
  before the job is queued. *Correct when* an alert gets into one job per window,
  is not suppressed without a job, and its slot is freed when it resolves.
* **Deduplication** (`webhook/dedup.go`, `webhook/redis.go:30-56`). Entries with a cooldown,
  in memory under a mutex or in Redis (`SET NX`, `DEL`). *Hard:* Redis errors
  (fail-open), loss with the process, the end of a cooldown at any moment.
* **In-memory queue** (`webhook/queue.go`). A channel of 100 jobs and one worker.
  *Hard:* a full buffer, a worker that hangs. *Correct when* requests never wait
  for the worker and jobs are taken in order.
* **Redis queue** (`webhook/redis.go`). A stream with a consumer group, one worker
  per replica, XAUTOCLAIM of entries idle for `claimMinIdle`, a dead-letter
  stream after `maxDeliveries`. *Hard:* everything: lost commands and lost
  replies, crashes between any two commands, SIGTERM, two replicas on one entry,
  stale delivery counts. *Correct when* no job disappears without an outcome, jobs
  are buried only after their last delivery, duplicated only after a mishap, and
  finally closed.
* **Agent** (`agent/agent.go`, `tools.go`, `images.go`). Per run: conversation,
  iteration, token estimate, pictures. *Hard:* a deadline at any moment, tool
  calls that are cut off, refused, failed or reused, trimming of a conversation
  whose shape the APIs are strict about. *Correct when* every call has its result,
  trimming goes from the oldest, pictures are kept once, a failed attempt has
  sent nothing, and the run ends.
* **LLM providers** (`llm/`). No state; conversion between the conversation and two
  APIs, one of which streams. *Hard:* runs of tool results, reasoning that must be
  sent back, answers that stop for want of tokens. *Correct when* results follow
  their calls, turns come back as they were given, and no call is made whose
  arguments were cut off.
* **Repositories** (`storage/*_repo.go`). The table in the database, a cache per
  process with an atomic version and a mutex. Readers: handler, worker, Web UI;
  editors: Web UI; other replicas edit the same table. *Hard:* check without
  lock, load that races with an edit, load that fails. *Correct when* an edit of
  this process that returned is seen by later calls and the cache never goes back.
* **MCP client and manager** (`mcp/client.go`, `mcp/config.go`). One connection per server,
  the map from tool name to server, a mutex per client. *Hard:* sessions that expire or end
  with the context they were started with, a reconnect that fails, a call repeated
  after one. *Correct when* a call reaches the server that owns the tool under the
  tool's own name, at most twice, and a lost session does not disable a server for good.
* **Administration** (`web/scenario_handler.go`, `prompt_handler.go`). Forms, move, copy,
  export, import and the match probe, as sequences of repository calls. *Hard:* several rows
  written one by one, whole rows written back from an older read, the cache asked for
  one thing and the table for another. *Correct when* moving exchanges two neighbours
  and nothing else, an import creates or updates each scenario once, and an alert
  goes to the first scenario that matches it.
* **Notifiers** (`notify/`). No state. Markdown is converted to the markup of each channel,
  long messages go in parts, Slack's upload takes three requests. *Correct when* what is
  shown is in order and whole where nothing failed, within the limit, and reads as meant.
* **Service** (`cmd/serve.go`, `storage/db.go`, `seed.go`, `server/server.go`). The tables at
  start-up; the context of SIGTERM, two shutdowns with deadlines. *Hard:* replicas that
  seed one database together, a process that dies in between, soft-deleted rows of
  old versions, a signal before start-up is complete. *Correct when* the tables are whole, a clean exit
  has cut nothing off, and a replica that ends can start again.
* **Web pages, configuration, commands, build.** Stateless, or read once.

The hazards of this code, each at its line with the properties about it, are in
`PROJECT.json`. Those without a property say why.

## 2. The models

### RedisQueue and AtLeastOnce

A job is its stream ID, the payload does not matter to the queue. The Redis side
is `lastId, stream, lastDelivered, pending, idle, deliveries, dlq`: the stream and
the consumer group as XADD, XREADGROUP, XAUTOCLAIM, XPENDING, XACK and XDEL see
them. A worker is at a place `pc` of its loop with the rest of a claimed batch,
the message in `processMessage` and its `deliveries` argument:

| place | code | actions |
| --- | --- | --- |
| `top` | head of `worker`, `reclaimStuck` | `Reclaim`, `WorkerStopped` |
| `take` | next claimed message, `deliveryCount` | `Take` |
| `read` | XREADGROUP | `Read`, `ReadNothing` |
| `work` | `processMessage` | `Discard`, `Succeed`, `Fail` |
| `bury` | `moveToDLQ` | `Bury` |
| `ack`, `ackDead` | `ack` after success, after the dead letter | `Ack`, `AckDead` |
| `notify` | `notifyFailure` | `NotifyFailure` |
| `down` | no process | `Start` |

A Redis command may fail with or without effect; the effect of a lost reply is
kept. `Crash`, `Sigterm` (which cancels the worker's context but not the job's)
and `ShutdownTimedOut` strike at any place. `BecomeIdle` is the passage of
`claimMinIdle`, also while a worker still has the entry. `succeeded, dropped,
reports, notices, mishaps` record what an observer has seen; a *mishap* is a job
that a worker lost with its process, kept beyond `claimMinIdle`, or did not manage to acknowledge.

`AtLeastOnce` is the promise behind it: a submitted job stays open until it has
an outcome, and only then may be closed. `RedisQueue` implements it with
`submitted <- 1..lastId`, `open <- unread or pending`, `dead <- dlq`.

### Webhook

`POST /webhook` against both backends, in memory and on Redis. A request goes through `new`, `clear` (one `Clear` per step), `dedup`
(one `ShouldProcess` per step), `enqueue` and `done`. Alerts stand for
deduplication keys. `window[a]` counts how often the entry of `a` was ended, so
that "one job per window" can be said. The in-memory worker is busy with an earlier job at first, so that
its buffer can be full. The Redis backend's stream is a sequence of entries that nobody has read; a job that was read and then
hit by a crash, a lost reply, a failed attempt or a failed ack is `left` pending, and `Reclaim` brings it back at any later moment,
while newer entries are read in between (`redis.go:160-166`, `189-196`). What else that queue does is RedisQueue's subject.

### Investigation and Attempt

One attempt at a job. `Start` chooses a status notification or a full run; a run
is `Ask` (with `Trim`), then `Report`, `CallTools` with one `Call` per tool call,
or `AskFails`; `WrapUpNow`/`WrapUp` are the last request without tools; `Summarize`
and `Send` follow. `Expire` is the deadline, which can pass between any two
steps. A request is issued in one step and answered in another, and a request
issued when the deadline has passed (`late`) cannot succeed. Messages are records without text: a
turn with its calls, a result that is whole or trimmed. Trimming may come to the results of the last turn, as in the code. Tokens are small numbers
(`Size` per tool, `Budget` the context limit).

`Attempt` is the attempt as `processMessage` sees it (`redis.go:257-283`): it is worked on, then either gives up,
or begins a report and tries its parts one by one, each once. `RedisQueue` takes no more than that for granted: `Fail`
retries a job because nothing was sent, and `Succeed`, which ends it, may or may not count as a report that arrived.
`Investigation` implements it with `phase <- Phase`, `rest` the parts of `todo` once the sending has begun.

### Conversation

The same loop seen from the providers, which Investigation leaves out. `messages` are the
agent's (`llm.Message`: role, text, thinking, calls, the call a result answers); `Convert` makes
the request of Anthropic (`ForAnthropic`: a run of results becomes one user message, a turn its
reasoning, text and calls) or of OpenAI (`ForOpenAI`: one message per result, no text beside
calls). Both pick blocks and messages by kind, in order, with one operator, `Picked`. The answer comes block by block (`Block`), is dropped when the stream breaks (`Fail`) or ends with
a stop reason (`Complete`), where a lack of tokens may have cut the last block. `turns` remembers what the LLM said.

### RepoCache

The contents of the table are counted: edition `n` is what the `n`-th write left.
A reader goes through the check without the mutex (`Call`), the check under it
(`Lock`), the query (`Find`, `FindFails`), the bookkeeping (`Store`) and the
lookup (`Read`); an editor writes and then moves the version. `settled`, `needs`, `at` and
`raced` are history for the properties.

### McpClient and ToolNames

Callers are the goroutine of start-up (`Main`), the worker and a Web request. A call goes through
`lock` (the client's mutex), `send`, `sent`, and after a session error `start` and `initialize`, the
reconnect, before its second attempt. The server carries a request out in a step of its own
(`Execute`) between the request and the answer, so that a crash (`Crash`, `ComeBack`), an expired session
(`SessionExpires`) or the end of a context (`Expire`, `NextJob`) falls before or after it. A session over SSE
ends with the context it was started with, which after a reconnect is that of the call.
`isSessionError` is `Retries`: it looks for four texts in the error. The error of a lost session, a lost request or a failed dial
has one of them or none (`Lose`, `DialFails`), and so has the tool's own (`Mislead`). An error with none is returned, with the outcome
"unrecognised", and leaves the connection in its place. What the library answers on a closed connection is not in the
repository: `closedError` leaves both cases open. In `ToolNames` names are sequences of characters, so that `ParseToolName` can be
compared with `NamespacedToolName`.

### ScenarioAdmin

The table is a set of rows with id, name, labels, position and a body. `cache` is the copy of one
replica. A write and its `Invalidate` are two steps, `Query` and `QueryEnds` of a load are two, and the end of a load passes
for current whatever was written since the query; so the cache may be stale, until the next edit, after a write during its load. Editors in `away` use another replica
and never touch this cache. `missed` says that the cache has missed a write in one of these ways, `misled` that a request has read it then.
An editor's request is a sequence of repository calls, each a step: `OpenForm`, `Submit`, `Delete`;
`Move` with `Reorder` and one `SaveNext` per changed row; `Import` with `Find` (in the cache), `Lookup`
(in the table) and `Store` per entry of the file; `Probe` and `Resolve`. `Save` is gorm's: an upsert
of every column under a unique index on the name (`TakenBy`). `before`, `quiet` and `clean` remember how the
table was when a request came, whether somebody else wrote since, and whether a query failed.

### Markup and Delivery

`Markup` holds the pure functions, character by character over a small alphabet: `Spans` cuts a
text into code blocks, code, bold, links and single characters as both converters do; `ForTelegram`, `ForSlack`
and `StripDataURIs` are `escapeMarkdownV2`, `ConvertMarkdown` and `stripDataURIs`; `SplitMessage` is
`splitMessage`. The code's loops are recursive functions over the places of a text, `Rewrite` (spans one after
the other, each as `As` writes it) what both converters share. `Reads` is the other side: what the channel shows of
a part, a character or mark at a time (`ReadsAt`, in a mode: plain, bold, code, block, or within a link), with
`Broken` where Telegram would refuse it. `Delivery` sends a report with them: per channel the summary part by
part, the document, the images, each request answered or in error, with or without effect. What arrives is to be what
the text says (`Content`, the text without its marks) for texts that are `Regular` (of the kinds the converters expect) and
`Lined` (a newline is always within reach of the limit, no mark crosses one); section 5 says what becomes of others.

### Service

Replicas over one database, each statement a step: `Open` (with the purge of soft-deleted
rows), `Count` and `Create` row by row for each table, `Connect` (MCP), `Serve`; then `Stop`, `Stopped` or
`StopTimesOut` (the HTTP server's ten seconds), `Drained` or `DrainTimesOut` (the queue's thirty). `Crash` and
`Signal` come at any step. Requests and the worker are there as what a shutdown waits for.

## 3. Runs

| run | instance | distinct states | shows |
| --- | --- | --- | --- |
| `queue_safety` | 2 workers, 2 jobs, 2 deliveries, batch 2, 2 troubles | 2.0 M | no job vanishes, dead letters only after the last delivery, one hand and one report unless mishap, notices only for the dead, `AtLeastOnce` implemented |
| `queue_liveness` | 1 worker, 2 jobs, 3 deliveries, 2 troubles | 188 k | every job is closed |
| `queue_silent` | 1 worker, 1 job, no trouble | - | finding 1 |
| `webhook` | 2 requests, 2 alerts, buffer 1, 1 expiry, 1 trouble, both backends | 481 k | one job per window, no silent suppression, slots freed, jobs are first read in order, every request ends and every job is taken |
| `repo_cache` | 2 readers, 2 editors, 3 editions, 1 error | 24 k | settled edits are read, never backwards, reads end |
| `agent_loop` | 3 turns of 2 calls over 3 tools, 2 pictures, budget 6 | 918 k | calls answered, trimmed in order down to the budget and the last turn last, nothing twice, `Attempt` implemented, end |
| `agent_graceful` | 2 turns, 1 picture | - | finding 2 |
| `mcp_calls` | 2 servers (one over SSE, one with a separator in its name), 2 users and start-up, 2 troubles | 171 k | mutex, routing, at most two executions, calls are answered again unless an error is not recognised |
| `scenario_admin` | 2 editors at one replica or at two, 3 rows, 1 of which is copied, 1 label, 2 requests, 1 error | 1.1 M | unique names, move, import, match |
| `delivery` | 1,133 texts of up to 22 characters, parts of 14, 1 image, 1 lost answer | 877 k | in order and whole, within the limit, readable |
| `conversation` | both APIs, 2 turns of up to 3 blocks, 2 calls kept | 99 k | requests have the API's form and turns alternate but for the last request's, turns echoed, only whole calls made |
| `service` | 2 replicas, seeds of 1 and 4 rows, 1 leftover, 2 troubles | 40 k | seed whole, clean stop, stops and starts |

**Why the bounds are enough.** *Queue:* two workers are needed for two hands on a
job and for XAUTOCLAIM against a working replica; two jobs for a batch with a
rest and for the order of XREADGROUP; two deliveries for "retry, then bury";
two troubles for a lost acknowledgement followed by a crash, the shortest way to
a job that is dead and delivered again. The liveness run has three deliveries,
the code's own number, and one worker whose batches hold both jobs. *Webhook:* two requests
for every race of two goroutines, two alerts for groups that are partly fresh, a buffer
of one behind a busy worker so that the second job finds it full, one expiry and one trouble because a
window ends by either. *Cache:* two readers for loads that overlap, two editors for
an edit between another's write and announcement, three editions for an old, a
middle and a new one. *Agent:* three turns so that results of two finished turns
compete for trimming while a third is open, one call more than is kept per turn so that
calls are cut off, a panel, a metric and a refused tool. *MCP:* the servers are `x_y` and `x_y__y`, so that
one name is plain and the other not, with tools that hold the separator or begin with an underscore and two that are offered under the same
name; two troubles for a reconnect that meets a
second failure. *Administration:* three rows for a move with a bystander, one label for labelled and
catch-all rows, two requests for every overlap of two, at one replica (an edit during a load for the other) and at two (an edit
the other's cache does not notice). *Delivery:* three marks in any
order and lines of whole spans, so that every mark meets every other, closed or not; a limit
that longer texts exceed before or after conversion. *Conversation:* two turns so that an
earlier one is sent again behind a later one; three blocks for two calls beside text or
reasoning and for a call that is dropped. *Service:* two replicas for seeding together, a seed of more
than one row so that it can be torn.

`CHECK_DEADLOCK FALSE` appears where the modelled activity is finite: `webhook` (requests
answered, queue empty), `scenario_admin` (requests used up), `delivery` (report sent) and
`conversation` (reported). The other models never stop: workers poll, readers call
again, replicas are started again, a finished attempt stutters explicitly.

**Fairness.** `RedisQueue`: weak fairness of each worker's loop (its calls have
timeouts), of the supervisor that restarts a process, and of time
(`BecomeIdle`). Nothing is assumed of an attempt's outcome; errors, crashes and SIGTERMs
are bounded, which is the assumption "once trouble ceases". `Webhook`: goroutines that serve
requests are scheduled, and an idle worker comes to the read of new entries again and again, whatever it claims between
(strong fairness of `Take`, `redis.go:152-166`); nothing about the end of an attempt, so
requests end with a worker that hangs, while the part of `NothingHangs` about
jobs names the assumption that attempts end. `RepoCache`: weak fairness of a load, strong
fairness of taking the lock, since Go's mutexes admit every waiter. `Investigation`:
weak fairness of the attempt's next step (LLM, tools and channels answer or fail),
none of the deadline. `McpClient`: weak fairness of a caller's step (transports give up), strong
fairness of the mutex, weak fairness of a crashed server's return; none of troubles or of the end of a
context. `Service`: weak fairness of each replica's own steps, with the orchestrator that starts
it again; none of requests, jobs, crashes or signals, so that a stop ends
with a worker and a client that hang. The other models have safety properties only.

## 4. Proofs

All for any number of workers, jobs, requests, alerts, readers, editors, servers,
tools, pictures, replicas, turns, blocks, and any bounds.

**RedisQueueProofs.** The inductive invariant is `DeliveryInv`, with these parts:
`GroupInv` (what was delivered is a prefix of what was added, the rest of the
stream is intact, pending entries were delivered), `WorkerInv` (a worker's place
tells what became of its message: at `bury` the counter has reached the limit, at
`ack` there is a success or a discard, at `ackDead` and `notify` a dead letter)
and `OutcomeInv` (delivered and not pending means outcome). Neither property is
inductive alone: `NoJobVanishes` needs to know why an acknowledging worker may
acknowledge, `DeadOnlyAfterRetries` what a worker's stale count is worth. The
steps are first reduced to what they do to Redis (`StepsOfRedis`) and to the outcomes
(`StepsOfOutcomes`), so that each part is shown for seven kinds of steps, and the bystander workers
are dealt with once (`Bystander`). Theorems: `JobsDoNotVanish`,
`DeadAfterRetries`, and `QueueImplementsAtLeastOnce`, the refinement.

Its second half is about hands: `CareInv` adds, for jobs without mishap, `HandInv` (held by at
most one worker; while held, pending and not idle, except between the
acknowledgement of a dead job and its notice), `ReportInv` (once reported, in the
hand of a worker about to acknowledge or no longer pending) and `NoticeInv`. The
exception for `notify` is what makes it inductive: there alone a worker holds a
job the group has forgotten. Most steps are `Quiet` (nothing comes into a hand
or leaves the pending list) and share one lemma. Theorems: `OneHandAtATime`,
`ReportedOnce`, `NoticesAreForTheDead`.

**WebhookProofs.** `OneJobPerWindow` says that requests share no alert of a window; it is kept
because the store hands a window out once, which is `EntryInv`: a window that is out, in a job or in a
request's hands, is over, or it is the current one and its entry is recorded. Fail-open answers
count as windows of their own, so they do not break it. `PhaseInv` ties what a request holds to
its place. `ClearInv` follows the loop of `Clear`: what it has come past has a later window than
when the request arrived. For the order of jobs, `LineInv`: the numbers of the queue
rise, those of the jobs that were read, in hand or left pending, are below them, and all are below `NextNumber`, which counts the requests
answered and grows with every enqueue; a crash moves the job in hand to those left and the line stays as it is. `QueueTypes` keeps the buffer
within its capacity. Theorems: `OneJobAtMost`, `SuppressedForAReason`, `AnsweredHaveCleared`, `TypesHold`, `FirstTakenInOrder`.

**InvestigationProofs.** `ExecutorInv`: while the image executor lives it has seen
exactly the pictures returned, and a panel it does not know has not been rendered; when `Run` returns its
memory is gone, and no tool is called any more. `OutcomeInv`: nothing is sent before there is
an outcome. `SetAsSequence` and `OnceInConcat` are about the order in which new
pictures join the report. `TalkInv` is about the conversation between two requests: the results in place and
the calls still to be made are together those of the turns, one for one and in order; when `todo` is empty
that is `CallsAnswered`. `TrimsInOrder` says that the results given up are the oldest, and no fewer than the
tokens above the budget require; `LastInv` adds that those of the last turn go only when the request would be over the budget with them. It rests on sums over sets of positions, defined by recursion, of which the proofs need
only that a sum over more positions is not smaller; that is shown by the least position at which it would be false.
The refinement of `Attempt` rests on `OutcomeInv` and on `ImagesOnce`: the step that has the report begins the sending, and the
parts of a report differ (`NoPartTwice`, `ReportOnce`).
Theorems: `NothingHappensTwice`, `InvestigationImplementsAttempt`, `TypesHold`, `EveryCallAnswered`, `OldestGoFirst`.

**ConversationProofs.** The largest of the proofs, in three layers. First `Picked`, the selection of elements
of a sequence by a set: its recursive function exists and is unique (`PicksExist`, `PicksAgree`), so it can be
unfolded one element at a time (`PickedAppend`), and from that come the other laws: `PickedAt` (the
picked elements stand at the positions that `At` lists in order), `PickedConcat`, `AtTwice`. Then the
requests, for any messages whose calls are answered: `AnthropicAccepted` finds the message after a turn among those of
`Begins` and the end of the run of results in it; `AnthropicEchoed` shows that picking the turns of the request is
picking those of the conversation; likewise for OpenAI. Then `TalkInv`, kept by every action: `Answers` (a turn's calls have
their results in the places after it, those of `todo` come next, and there is no other result), `IdInv` (ids
rise: no result answers two calls), `TurnInv` (a message records what its answer said) and `WholeInv`. `Complete` is the
step that matters: only a reason that means calls leads to calls, and with such a reason no block is cut. Last
`RoleInv` for the turns of Anthropic's requests: the agent's user messages are the first of the run and, once no tools are offered, the last one
(`AskAlternates` shows that runs of results need no other exception).
Theorems: `EveryRequestAccepted`, `TurnsComeBack`, `NoCutCall`.

**ScenarioAdminProofs.** Four invariants, from the operators up. `TypeInv`: ids and names of rows are unique, and what
a request has in hand are rows with an id that was given out, or none; an entry of a file gets its id only for its own update,
or a later upsert could overwrite another row. `HistoryInv` is what is remembered of a request; `Bystander` and
`HistoryWithin` say once what a step does to the requests it is not about. `CaughtInv` adds that a fresh cache that has missed no write lists the table, and so does what a load has read
(`CacheInv`), and that the answer to a probe which nobody disturbed and no stale cache misled was right for the table it began with (`ProbeInv`); that rows of equal
position may be listed in any order is why the property is about positions, not places. `LoadInv` follows an import: the entries it
has come past are loaded, the other rows are as they were, and what it learnt of the next entry, from the cache and from the table,
is still so, since nobody wrote, and then the unique index refuses none. Where a stale cache misled it, an entry may meet the unique index,
and `Loaded` keeps the row that has its name (`EntryIsLeftOut`). `OrderInv` follows a move: `Underway` says that
it has a plan, `Reorder` of the listing it read, of which the first rows are written and the others in hand, also when a failing query breaks it off
(`AppliedNext`, `AppliedAll`). `OneListing` shows that the new positions admit one listing only, `MatchOrdered` that putting
catch-alls last does not matter to `Match`, and `SwapMatches` that exchanging two neighbours changes the match of an alert only when both match.
`Pick`, elements of a sequence by their rank in a set, stands for the loops of `reorderScenarios`, so that no recursion is needed.
Theorems: `RowsAreUnique`, `FirstMatchCatches`, `ImportsLoadFiles`, `MovesSwapNeighbours`.

**McpClientProofs.** First the names: `ParseUndoesJoin` shows that an offered name of a *plain*
server (no separator inside, no underscore at the end) is split where it was joined, whatever the tool
is called, from lemmas about concatenation and the first separator. `McpInv` then has `LockInv` (whoever
sends, or dials for a second attempt, has the mutex; `newClient` alone dials without), `RunInv` (how
often a call may have been carried out, by place and attempt), `OfferInv` (an offered name was made by the
server it leads to) and `CallsOffered` (a call has an offered name). A name that only plain servers offer can be split in one way, so
one server offers it; where a server that is not plain offers it, `RoutedToOwner` promises no more than that the call goes to a server that has such a tool. Theorems: `McpTypeCorrect`,
`RunsTwiceAtMost`, `RoutesToOwner`, without an assumption on the names.

**ServiceProofs.** `SeedInv`: replicas that counted an empty table compete for its first row, and
whoever creates it is the table's only writer until the last row (`WriterInv`), the others collide and end;
so a table is empty, whole or being written unless its writer ended in the middle (`WholeInv`), and not empty
once a replica has passed it (`PassedInv`). `StopInv` adds to `CleanStop` that requests are handled only while the
server runs. Theorems: `SeedsWhole`, `StopsCleanly`. The same module has the proofs of `RepoCache`: `CacheInv`
follows an edit through the cache: `LoadInv` is about a result not yet stored, `FreshInv` about the stored
one, `ReadYourEdits` about the call that uses it. Theorems: `CacheTypeCorrect`, `ReadsSettledEdits`,
`CacheMovesForward` (the action property).

**DeliveryProofs.** `ShownInOrder` speaks of channels that have been served; what makes it inductive is what it leaves
out, the channel being served. `InOrderInv` has `Position`: what a channel shows is just a beginning of its
parts and the files of some tasks behind it (`ShowsJust`), a task behind it is shown or has met an error (`Served`), while
the summary is being sent all parts before the next one are shown (`Current`), since the first error ends it, and the parts are those `SplitMessage` made of the text
(`Ready`, from which `WithinLimit` follows by `CutsAre`).

`ReadsBack` is about the functions: that conversion, cutting and the channel's reading undo each other, for every text and limit. First
the recursion. Each function of `Markup` gives a place in a finite domain what stands there and then the value of a place
nearer to the end; `ChainExists` shows once, with a rank that descends, that such a function exists, and `FlattenIs`, `SplitUnfolds`,
`ReadUnfolds` and their like unfold one place at a time. Then the reading of a text inside a larger one: `Carries` says of a
stretch of text that, whatever stands before and after it, the channel reads it as such characters and is in such a mode behind it.
Stretches that carry can be joined, so it is enough that each kind of span does (`SpanCarried`: blocks, code, bold, links and
single characters, escaped or not), which is where the conditions of `Regular` are used: empty code would be two ticks that a third makes a fence, a
star in bold text would end it, a backslash in code would escape what closes it. (That bold text is not empty and that a link has no marks is asked
because the channels' own handling of those is not known here; the proof does not need it.) A `Sayable` text is made of such pieces without a newline inside; it can be
cut at a newline (`SayableCut`) and trimmed (`SayableTrim`), and both halves are sayable. `Lined` guarantees that every cut is at a newline
(`HasLines`), so from the end of the text back to its start the parts say what the text says, newlines apart (`SplitSaid`); and the
converted text is sayable (`ConvertedSaid`). `Regular` and `Lined` are hypotheses of the property itself, and the run meets texts with and without them.
Theorems: `ShownInOrderAlways`, `WithinLimitAlways`, `ReadsBackAlways`.

The assumptions are the modules' own, evaluated by the runs: bounds are natural
numbers, deliveries, batch, buffer, seeds and blocks at least one, a limit of at least two characters, images and requests finite, a picture is neither the message nor the document, names and texts sequences of characters.
Functions defined by recursion (sums, `Picked`, those of `Markup`) are reasoned about by minimal counterexample (`LeastOf`, `FromTheEnd`), since
the induction theorems of the library cannot be instantiated here.

*Only model-checked:* the liveness properties (`EveryJobCloses`, `NothingHangs`, `ReadEnds`, `Ends`,
`Recovers`, `StopsAndStarts`), which the prover cannot treat under fairness. Every invariant and every other action
or temporal property of the passing runs is a theorem.

## 5. Findings

Two runs show that the code does something other than its documents or tests say:

1. `NeverSilentlyDropped` (`queue_silent`): `investigate` and `notifyStatus` return nil although every
   send failed, so the job is acknowledged and nobody has been told; README.md promises that alerts are
   never silently dropped.
2. `GracefulTimeout` (`agent_graceful`): a deadline noticed at the head of the loop makes the last
   request with the context that is over, and the run fails instead of reporting.

What the models made visible besides, and what the properties therefore except by name or do not claim:

* *Queue and handler.* `Enqueue` drops a job when the buffer is full or XADD fails and tells nobody
  (`queue.go:44-45`): the answer is "accepted" and the alert is suppressed for the cooldown
  (`dropped` in `NoSilentSuppression`). A status job with an empty prompt is worked on as an investigation
  (`handler.go:87`; docs/deployment.md:223-224 has it notified). docs/architecture.md has resolved and paused alerts "bypass the
  queue" (the handler enqueues them); README.md describes the deduplication key as a hash of the
  group key (the code hashes group key and fingerprint). After a deadline the report is sent
  with the context that is over, so Slack gets none of it (`handler.go:247`).
  On Redis a job that is left pending (a crash, a lost reply, a failed attempt) is overtaken by newer ones until it has been idle
  for ten minutes: a resolved notice may come before the report of the investigation (`InOrder` says which jobs may be overtaken).
* *Agent.* "Skip ... the last group of messages", says the comment at `agent.go:317-318`; the loop below it goes on into that
  group, results the LLM has not seen yet (`LastGroupOnlyIfNeeded` in `TrimsInOrder`: it does so only when it must). The documents say the filtered `CallTool` passes every call through; it
  refuses tools that are not allowed.
* *Cache.* `ensureLoaded` records the version after its query: an edit that commits and is announced in
  between stays invisible until the next one (`raced`; `misled` in `ImportLoads` and `CaughtByTheFirst`). An edit by another replica is not noticed at all, and
  a replica with a stale cache discards jobs of a new scenario as undispatchable (`redis.go:247`). An alert that arrives
  while the database cannot be read for the first time is answered "no scenario".
* *MCP.* Names collide, or are cut at the wrong place, when a server's name contains `__` or ends in `_`, which nothing forbids
  (`config.go:25-47`), although "collisions across servers are not possible" (docs/mcp-integration.md:215-216): `Ambiguous` in `RoutedToOwner`.
  A tool whose own error text sounds like a lost session is run a second time (`client.go:116-126`,
  `"misleading"` in `TwiceOnlyIfLost`). Any other error of a lost session (a reset, a status 500, a
  timeout, a stream that is gone) is not retried and leaves the dead connection in place for the next call, and so does a reconnect that
  fails: if the errors that follow are not of the four texts either, the server is lost until restart (`Unrecognised` in `Recovers`). A client whose `Initialize` fails is left started; an SSE session ends with the job that reconnected it.
* *Administration.* Forms and moves write back whole rows read earlier, so overlapping edits are lost and a
  deleted row may come back; move and import are stated for requests nobody disturbed. Imported entries
  skip the form's validation, and an import goes on without an id when its lookup fails. An import that asks a stale cache takes a taken name for a free one, and leaves
  the entry out (`misled` in `ImportLoads`). `Match` takes the first labelled scenario but the last catch-all, though "first match wins"
  (docs/configuration.md:192-195), and a label that is absent matches an empty value, though "all required labels are present"
  (`scenario.go:46`): both are exceptions of `CaughtByTheFirst`, the second in `Meets`.
* *Notifiers.* A part cut in the middle of an escape or of a code block of several lines is refused by Telegram, and
  the rest of the summary is not sent; a lone backtick, a single star inside bold text and a backslash in
  code are not escaped. `Regular` and `Lined` in `ReadsBack` name the texts for which all is well.
  `getUploadURLExternal` is not checked for its HTTP status, and an empty body passes for success.
* *Providers.* With OpenAI the text beside tool calls is not sent back; the order of reasoning and text within
  a turn is not kept. The message that wraps up follows the results of the last turn, or the first message: two user messages in a row, where
  `anthropic.go:150` and docs/agent-loop.md:223-224 say that the API requires alternating turns (`WrapUpMessage` in `Accepted`). An answer cut off for want of tokens counts as the finished report.
* *Service.* A seed that a crash broke off is never completed, because a table is seeded only when empty
  (`torn` in `SeededWhole`), and a prompt missing from it turns status messages into investigations. A listener
  that fails, or requests that do not end, make `serve` return without shutting the queue down (`CleanStop` is about clean exits).

## 6. Not modelled

Routing, templates and rendering of the Web pages and the downloadable Grafana template (generated or
stateless, and most of the lines that no definition maps); the reading of configuration and the commands besides
`serve` (what they decide is a constant here); build and deployment. Within the modelled parts: the
content of prompts and reports, HTML, YAML, logging; the conversions of tool schemas, tool results
(`mcp/client.go:288-336`) and JSON columns; cache breakpoints and token limits of requests;
migration of tables; the parsing of forms; whether Redis itself keeps what it acknowledged (a failover that loses writes);
clocks (cooldown, `claimMinIdle`, deadlines are events without durations); a service without an LLM, whose handler has no queue
and answers all the same (`handler.go:86`); the errors that come before a call is sent (an unknown tool, arguments that are not JSON).

External parts are modelled from their use: Redis, the MCP library and servers, the LLM APIs, the two channels.

## 7. Plan

Done, in this order: the queue and its proofs, the webhook, the cache and its proofs, the
investigation; then the MCP client, administration, delivery, conversation and service; then the proofs of
webhook, investigation, MCP client, service, conversation and administration, and `Attempt` with its refinement;
last the proofs of delivery.

Left, most useful first: an abstract table with atomic edits that `ScenarioAdmin` implements as long as requests do
not overlap; a composition of `Conversation` with `Investigation`'s trimming; the Redis backend of `Webhook` as another
implementation of `AtLeastOnce`.
