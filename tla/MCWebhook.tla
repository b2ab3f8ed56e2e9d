----------------------------- MODULE MCWebhook -----------------------------
(* Two requests, two alerts, a buffer for one job behind a busy worker.      *)
(* NothingHangs is temporal, so no symmetry is used.                          *)
EXTENDS Webhook
=============================================================================
