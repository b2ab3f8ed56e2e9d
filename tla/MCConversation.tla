--------------------------- MODULE MCConversation ---------------------------
(* Conversation for TLC: two turns of up to three blocks.                  *)
EXTENDS Conversation
=============================================================================
