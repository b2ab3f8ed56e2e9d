------------------------------ MODULE Attempt ------------------------------
(***************************************************************************)
(* What the worker of a queue relies on when it hands a job to the handler *)
(* (investigate, notifyStatus): an error means that no part of a report    *)
(* has gone out, so that the job may be tried again, and no error that     *)
(* each part has been tried once, in order.  Whether a part arrived the    *)
(* worker is not told.                                                     *)
(***************************************************************************)
EXTENDS Sequences

CONSTANT Parts      \* what can go out, each to one channel

VARIABLES
    phase,      \* "working", "reporting", "succeeded" (nil), "failed" (an error)
    rest,       \* parts that have not been tried
    sent        \* parts that arrived

vars == <<phase, rest, sent>>

Init == phase = "working" /\ rest = <<>> /\ sent = {}

GiveUp ==
    /\ phase = "working"
    /\ phase' = "failed"
    /\ UNCHANGED <<rest, sent>>

\* The report is there: from now on the attempt will not fail.
Begin ==
    /\ phase = "working"
    /\ rest' \in Seq(Parts) \ {<<>>}
    /\ \A i, j \in DOMAIN rest' : rest'[i] = rest'[j] => i = j
    /\ phase' = "reporting"
    /\ UNCHANGED sent

Try ==
    /\ phase = "reporting"
    /\ sent' \in {sent, sent \union {Head(rest)}}
    /\ rest' = Tail(rest)
    /\ phase' = IF rest' = <<>> THEN "succeeded" ELSE "reporting"

Next == GiveUp \/ Begin \/ Try

Spec == Init /\ [][Next]_vars
=============================================================================
