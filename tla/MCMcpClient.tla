---------------------------- MODULE MCMcpClient ----------------------------
(* Two servers.  The first has a plain name with an underscore inside, and   *)
(* tools with a separator inside and with an underscore in front; the second *)
(* has a name with a separator inside, and its tool is offered under the     *)
(* same name as one of the first.                                            *)
EXTENDS McpClient, TLC

CONSTANTS worker, page

S1 == <<"x", U, "y">>
S2 == <<"x", U, "y", U, U, "y">>
TwoServers == <<S1, S2>>
TheirTools == S1 :> {<<"y", U, U, "x">>, <<U, "y">>} @@ S2 :> {<<"x">>}
TheirTypes == S1 :> "sse" @@ S2 :> "http"
=============================================================================
