----------------------------- MODULE ToolNames -----------------------------
(***************************************************************************)
(* Names of tools (mcp/client.go).  A tool of an MCP server is offered to  *)
(* the LLM under the server's name, two underscores and its own name; a    *)
(* call is split at the first two underscores again.  Names are sequences  *)
(* of characters.                                                          *)
(***************************************************************************)
EXTENDS Naturals, Sequences

CONSTANT Chars      \* characters names are made of

U == "_"
ASSUME UnderscoreIsChar == U \in Chars

Names == Seq(Chars)
ToolNameSep == <<U, U>>

NamespacedToolName(server, tool) == server \o ToolNameSep \o tool

\* Positions at which strings.Index would find the separator.
SepAt(n) == {i \in 1..(Len(n) - 1) : n[i] = U /\ n[i + 1] = U}
First(n) == CHOOSE i \in SepAt(n) : \A j \in SepAt(n) : i <= j
Final(n) == CHOOSE i \in SepAt(n) : \A j \in SepAt(n) : i >= j

\* Split at the last separator instead, <server, tool>: see ParseToolName.
ParseAtFinal(n) ==
    IF SepAt(n) = {}
      THEN << <<>>, n >>
      ELSE << SubSeq(n, 1, Final(n) - 1), SubSeq(n, Final(n) + 2, Len(n)) >>

ParseToolName(n) ==
    IF SepAt(n) = {}
      THEN << <<>>, n >>
      ELSE << SubSeq(n, 1, First(n) - 1), SubSeq(n, First(n) + 2, Len(n)) >>

\* Names of servers for which the two are inverse: no separator inside, and no
\* underscore at the end that would join the separator's.
PlainName(server) ==
    /\ SepAt(server) = {}
    /\ server # <<>> => server[Len(server)] # U
=============================================================================
