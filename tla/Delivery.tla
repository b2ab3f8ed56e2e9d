------------------------------ MODULE Delivery ------------------------------
(***************************************************************************)
(* The delivery of a finished investigation (sendReport of                 *)
(* webhook/handler.go) through the notifiers of the two channels           *)
(* (notify/telegram/telegram.go, notify/slack/slack.go): the summary part  *)
(* by part, the report as a document, the images.  A file takes one        *)
(* request to Telegram and three to Slack.  An error ends the task it      *)
(* meets, never the next.                                                  *)
(*                                                                         *)
(* A request may be carried out although its sender is told it was not.    *)
(* Slack's requests end with the context of the job, Telegram's do not.    *)
(***************************************************************************)
EXTENDS Markup

CONSTANTS
    Texts,          \* summaries
    Limit,          \* maxMessageLen, maxTextLen
    Images,         \* number of images
    MaxTroubles     \* requests that fail

ASSUME DeliveryConstants ==
    /\ Texts # {} /\ \A t \in Texts : t \in Seq(STRING)
    /\ Limit \in Nat /\ Limit > 1
    /\ Images \in Nat /\ MaxTroubles \in Nat

Channels == <<"telegram", "slack">>
LastTask == 2 + Images      \* 1: the summary, 2: the document, then the images

VARIABLES
    text,
    dest,       \* by channel: "none", "good" or "bad" (no id, an unknown channel)
    at,         \* index of the channel being served
    task, step, \* the task; its next part or request, 0 before the conversion
    chunks,     \* parts of the summary, by channel
    over,       \* the context of the job is over
    stored,     \* tasks whose file is at Slack's upload URL
    shown,      \* what a channel shows: parts and files, in order
    failed,     \* tasks that met an error, by channel
    troubles

chosen == <<text, dest>>
position == <<at, task, step>>
outcome == <<failed, troubles>>
vars == <<chosen, position, chunks, over, stored, shown, outcome>>

Names == {Channels[i] : i \in DOMAIN Channels}

Init ==
    /\ text \in Texts
    /\ dest \in [Names -> {"none", "good", "bad"}]
    /\ at = 1 /\ task = 1 /\ step = 0
    /\ chunks = [c \in Names |-> <<>>]
    /\ over = FALSE
    /\ stored = {}
    /\ shown = [c \in Names |-> <<>>]
    /\ failed = [c \in Names |-> {}]
    /\ troubles = 0

----------------------------------------------------------------------------
(* One request of a task: answered, or in error.                           *)

Serving(c) == at \in DOMAIN Channels /\ Channels[at] = c /\ dest[c] # "none"

NextTask ==
    IF task < LastTask
      THEN task' = task + 1 /\ step' = 1 /\ UNCHANGED at
      ELSE task' = 1 /\ step' = 0 /\ at' = at + 1

GoesOn == step' = step + 1 /\ UNCHANGED <<at, task>>

\* (TriesTheRest and other definitions that no action uses are variants: each is
\* what an easy mistake would make of the definition it stands next to.)
TriesTheRest ==
    IF task = 1 /\ step < Len(chunks[Channels[at]]) THEN GoesOn ELSE NextTask
AfterError == NextTask

\* The request does not go out: no recipient, or the context is over.
Held(c) ==
    \/ c = "telegram" /\ dest[c] = "bad"
    \/ c = "slack" /\ over

Answered(c, refused) ==
    /\ ~Held(c) /\ ~refused
    /\ UNCHANGED outcome

\* Carried out or not: an answer may be lost.
Errs(c, refused) ==
    /\ IF Held(c) \/ refused
         THEN UNCHANGED troubles
         ELSE troubles < MaxTroubles /\ troubles' = troubles + 1
    /\ failed' = [failed EXCEPT ![c] = @ \union {task}]

Show(c, item) == shown' = [shown EXCEPT ![c] = Append(@, item)]
MayShow(c, refused, item) ==
    \/ UNCHANGED shown
    \/ ~Held(c) /\ ~refused /\ Show(c, item)

----------------------------------------------------------------------------
(* The tasks.                                                              *)

\* No destination, or no notifier: the channel is passed over.
Skip ==
    /\ at \in DOMAIN Channels /\ dest[Channels[at]] = "none"
    /\ at' = at + 1 /\ step' = 0
    /\ UNCHANGED <<chosen, task, chunks, over, stored, shown, outcome>>

\* SendMessage converts the text and cuts it; Telegram looks at the id first.
Convert(c) ==
    /\ Serving(c) /\ task = 1 /\ step = 0
    /\ chunks' = [chunks EXCEPT ![c] = SplitMessage(Converted(c, text), Limit)]
    /\ GoesOn
    /\ UNCHANGED <<chosen, over, stored, shown, outcome>>

\* A part Telegram cannot read, a blank one, and one for an unknown channel.
Unwelcome(c, part) ==
    \/ dest[c] = "bad"
    \/ c = "telegram" /\ Broken \in ToSet(Reads(c, part))
    \/ ToSet(part) \subseteq {NewLine}

SendPart(c) ==
    /\ Serving(c) /\ task = 1 /\ step > 0
    /\ LET refused == Unwelcome(c, chunks[c][step])
           item == <<"part", step>>
       IN  \/ /\ Answered(c, refused) /\ Show(c, item)
              /\ IF step < Len(chunks[c]) THEN GoesOn ELSE NextTask
           \/ Errs(c, refused) /\ MayShow(c, refused, item) /\ AfterError
    /\ UNCHANGED <<chosen, chunks, over, stored>>

\* SendDocument and SendPhoto of Telegram.
SendFile ==
    /\ Serving("telegram") /\ task > 1
    /\ LET item == <<"file", task>>
       IN  \/ Answered("telegram", FALSE) /\ Show("telegram", item)
           \/ Errs("telegram", FALSE) /\ MayShow("telegram", FALSE, item)
    /\ NextTask
    /\ UNCHANGED <<chosen, chunks, over, stored>>

\* uploadFile of Slack, its three requests; the first two name no channel.
GetUploadURL ==
    /\ Serving("slack") /\ task > 1 /\ step = 1
    /\ \/ Answered("slack", FALSE) /\ GoesOn
       \/ Errs("slack", FALSE) /\ NextTask
    /\ UNCHANGED <<chosen, chunks, over, stored, shown>>

PostContent ==
    /\ Serving("slack") /\ task > 1 /\ step = 2
    /\ \/ Answered("slack", FALSE) /\ GoesOn /\ stored' = stored \union {task}
       \/ /\ Errs("slack", FALSE) /\ NextTask
          /\ \/ UNCHANGED stored
             \/ ~Held("slack") /\ stored' = stored \union {task}
    /\ UNCHANGED <<chosen, chunks, over, shown>>

CompleteUpload ==
    /\ Serving("slack") /\ task > 1 /\ step = 3
    /\ LET refused == dest["slack"] = "bad"
           item == <<"file", task>>
       IN  \/ Answered("slack", refused) /\ Show("slack", item)
           \/ Errs("slack", refused) /\ MayShow("slack", refused, item)
    /\ NextTask
    /\ UNCHANGED <<chosen, chunks, over, stored>>

\* The scenario's timeout, while the report is being sent or before.
Expire ==
    /\ at \in DOMAIN Channels /\ ~over
    /\ over' = TRUE
    /\ UNCHANGED <<chosen, position, chunks, stored, shown, outcome>>

Next ==
    \/ Skip \/ Expire
    \/ \E c \in Names : Convert(c) \/ SendPart(c)
    \/ SendFile
    \/ GetUploadURL \/ PostContent \/ CompleteUpload

Spec == Init /\ [][Next]_vars

----------------------------------------------------------------------------
(* Properties.                                                             *)

\* A channel that has been served shows the summary up to some part, then files
\* in order; whatever met no error is shown whole, and nothing is shown twice.  A
\* part is never shown after one that was lost (SendMessage returns at the first
\* error, sendReport goes on with the document), and no file is shared in Slack
\* without its content (the three requests of uploadFile).
Parts(c) == {<<"part", n>> : n \in DOMAIN chunks[c]}
Files == {<<"file", t>> : t \in 2..LastTask}
Precedes(x, y) ==
    \/ x[1] = "part" /\ y[1] = "file"
    \/ x[1] = y[1] /\ x[2] < y[2]

InOrder(c) ==
    /\ ToSet(shown[c]) \subseteq Parts(c) \union Files
    /\ \A i, j \in DOMAIN shown[c] : i < j => Precedes(shown[c][i], shown[c][j])
    /\ \A n \in DOMAIN chunks[c] : <<"part", n>> \in ToSet(shown[c]) =>
          \A m \in 1..n : <<"part", m>> \in ToSet(shown[c])

Complete(c) ==
    /\ 1 \notin failed[c] => Parts(c) \subseteq ToSet(shown[c])
    /\ \A t \in 2..LastTask : t \notin failed[c] => <<"file", t>> \in ToSet(shown[c])
    /\ c = "slack" =>
          \A t \in 2..LastTask : <<"file", t>> \in ToSet(shown[c]) => t \in stored

ShownInOrder ==
    \A i \in DOMAIN Channels : LET c == Channels[i] IN
        at > i /\ dest[c] # "none" => InOrder(c) /\ Complete(c)

\* No part of any text is longer than the channel takes.  Text of a regular kind,
\* in short lines, arrives as it was meant: each part is one the channel reads, and
\* together they show what the text says but for newlines where it was cut
\* (escapeMarkdownV2, ConvertMarkdown, splitMessage).
WithinLimit == \A c \in Names : \A i \in DOMAIN chunks[c] : Len(chunks[c][i]) <= Limit
ReadsBack ==
    /\ WithinLimit
    /\ \A c \in Names :
        /\ Serving(c) /\ task = 1 /\ step = 1
        /\ Regular(c, text) /\ Lined(c, text, Limit)
        =>
            WithoutBreaks(FlattenSeq([i \in DOMAIN chunks[c] |-> Reads(c, chunks[c][i])]))
                = WithoutBreaks(Content(c, text))
=============================================================================
