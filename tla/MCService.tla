----------------------------- MODULE MCService -----------------------------
(* Two replicas, one scenario and four prompts to seed. *)
EXTENDS Service

SeedSize == [t \in TableNames |-> IF t = "scenarios" THEN 1 ELSE 4]
=============================================================================
