-------------------------- MODULE MCInvestigation --------------------------
(***************************************************************************)
(* Investigation for TLC: the sizes of results, as a function of the call. *)
(***************************************************************************)
EXTENDS Investigation

CONSTANTS panel, metric, denied

Sizes == [c \in {panel, metric, denied} |-> CASE c = metric -> 3 [] OTHER -> 1]
=============================================================================
