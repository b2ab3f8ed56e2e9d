------------------------------- MODULE Markup -------------------------------
(***************************************************************************)
(* What the notifiers make of a text (notify/telegram/telegram.go,         *)
(* notify/slack/slack.go): the LLM's Markdown converted to the markup of   *)
(* the channel and cut into parts the channel takes.                       *)
(*                                                                         *)
(* A text is a sequence of characters.  Here a newline is n, a backtick is *)
(* ~, and d is the scheme of a link to inline data.                        *)
(***************************************************************************)
EXTENDS Naturals, Sequences, SequencesExt, FiniteSetsExt

NewLine == "n"
Tick == <<"~">>
Fence == <<"~", "~", "~">>
Stars == <<"*", "*">>
Special == {"_", "*", "[", "]", "(", ")", "tilde", ">", "#", "+", "\\", "-", "=",
            "|", "{", "}", ".", "!"}
BoldSafe == Special \ {"*"}

\* strings.Index from position i on: where sub comes next, 0 if it does not.
Index(s, i, sub) ==
    LET hits == {j \in i..(Len(s) - Len(sub) + 1) :
                    SubSeq(s, j, j + Len(sub) - 1) = sub}
    IN  IF hits = {} THEN 0 ELSE Min(hits)

At(s, i, sub) == Index(s, i, sub) = i

----------------------------------------------------------------------------
(* The spans of a text, in the order in which both converters try them.    *)

\* From mark to mark.
Enclosed(s, i, mark, kind) ==
    LET end == Index(s, i + Len(mark), mark)
    IN  IF At(s, i, mark) /\ end # 0
          THEN {[kind |-> kind, inner |-> SubSeq(s, i + Len(mark), end - 1),
                 url |-> <<>>, next |-> end + Len(mark)]}
          ELSE {}

\* parseMarkdownLink
Link(s, i) ==
    LET bracket == Index(s, i + 1, <<"]">>)
        paren == Index(s, bracket + 2, <<")">>)
    IN  IF s[i] = "[" /\ bracket # 0 /\ At(s, bracket + 1, <<"(">>) /\ paren # 0
          THEN {[kind |-> "link", inner |-> SubSeq(s, i + 1, bracket - 1),
                 url |-> SubSeq(s, bracket + 2, paren - 1), next |-> paren + 1]}
          ELSE {}

Plain(s, i) == {[kind |-> "plain", inner |-> <<s[i]>>, url |-> <<>>, next |-> i + 1]}

SpanAt(s, i, links) ==
    LET tries == << Enclosed(s, i, Fence, "block"), Enclosed(s, i, Tick, "code"),
                    Enclosed(s, i, Stars, "bold"),
                    IF links THEN Link(s, i) ELSE {}, Plain(s, i) >>
    IN  CHOOSE span \in tries[SelectInSeq(tries, LAMBDA t : t # {})] : TRUE

Spans(s, links) ==
    LET from[i \in 1..(Len(s) + 1)] ==
            IF i > Len(s) THEN <<>>
            ELSE LET span == SpanAt(s, i, links) IN <<span>> \o from[span.next]
    IN  from[1]

Rewrite(s, links, As(_)) ==
    LET spans == Spans(s, links) IN FlattenSeq([i \in DOMAIN spans |-> As(spans[i])])

\* escapeChars
Escape(s, chars) ==
    FlattenSeq([i \in DOMAIN s |-> IF s[i] \in chars THEN <<"\\", s[i]>> ELSE <<s[i]>>])

\* escapeMarkdownV2.  (BoldAsIs and other definitions that nothing here uses are
\* variants: each is what an easy mistake would make of the one next to it.)
BoldAsIs(span) ==
    CASE span.kind = "block" -> Fence \o span.inner \o Fence
      [] span.kind = "code"  -> Tick \o span.inner \o Tick
      [] span.kind = "bold"  -> <<"*">> \o span.inner \o <<"*">>
      [] span.kind = "plain" -> Escape(span.inner, Special)
ForTelegram(span) ==
    CASE span.kind = "block" -> Fence \o span.inner \o Fence
      [] span.kind = "code"  -> Tick \o span.inner \o Tick
      [] span.kind = "bold"  -> <<"*">> \o Escape(span.inner, BoldSafe) \o <<"*">>
      [] span.kind = "plain" -> Escape(span.inner, Special)

\* ConvertMarkdown
ForSlack(span) ==
    CASE span.kind = "block" -> Fence \o span.inner \o Fence
      [] span.kind = "code"  -> Tick \o span.inner \o Tick
      [] span.kind = "bold"  -> <<"*">> \o span.inner \o <<"*">>
      [] span.kind = "link"  -> <<"<">> \o span.url \o <<"|">> \o span.inner \o <<">">>
      [] span.kind = "plain" -> span.inner

\* stripDataURIs: a link to inline data loses its target.
StripDataURIs(s) ==
    LET AsLink(i) == {l \in Link(s, i) : Len(l.url) > 1 /\ l.url[1] = "d"}
        from[i \in 1..(Len(s) + 1)] ==
            CASE i > Len(s) -> <<>>
              [] i <= Len(s) /\ AsLink(i) = {} -> <<s[i]>> \o from[i + 1]
              [] OTHER ->
                    LET link == CHOOSE l \in AsLink(i) : TRUE
                    IN  <<"[">> \o link.inner \o <<"]">> \o from[link.next]
    IN  from[1]

Converted(channel, s) ==
    IF channel = "telegram" THEN Rewrite(s, FALSE, ForTelegram)
                            ELSE Rewrite(StripDataURIs(s), TRUE, ForSlack)

----------------------------------------------------------------------------
(* splitMessage: parts of at most limit characters, cut after the last     *)
(* newline that is in reach and not the first character.                   *)

TrimRight(s) ==
    LET end == SelectLastInSeq(s, LAMBDA c : c # NewLine) IN SubSeq(s, 1, end)

CutLate(s, limit) ==
    LET at == SelectLastInSubSeq(s, 2, limit + 1, LAMBDA c : c = NewLine)
    IN  IF at = 0 THEN limit + 1 ELSE at
Cut(s, limit) ==
    LET at == SelectLastInSubSeq(s, 2, limit, LAMBDA c : c = NewLine)
    IN  IF at = 0 THEN limit ELSE at

SplitMessage(s, limit) ==
    LET from[i \in 1..(Len(s) + 1)] ==
            LET rest == SubSeq(s, i, Len(s))
            IN  CASE rest = <<>> -> <<>>
                  [] rest # <<>> /\ Len(rest) <= limit -> <<rest>>
                  [] OTHER ->
                        <<TrimRight(SubSeq(rest, 1, Cut(rest, limit)))>>
                          \o from[i + Cut(rest, limit)]
    IN  IF Len(s) <= limit THEN <<s>> ELSE from[1]

----------------------------------------------------------------------------
(* How a channel reads a part: the characters it shows, with Broken among  *)
(* them if it refuses the part.  Telegram refuses a special character that *)
(* is not escaped and a mark that is not closed; Slack refuses neither.    *)

Broken == "broken"
Modes == {"plain", "bold", "code", "block", "url", "link"}

\* At character i: what it shows, where it goes on, and in which mode.
ReadsAt(channel, s, i, mode) ==
    LET strict == channel = "telegram"
        Go(k, m) == [shows |-> <<>>, next |-> i + k, mode |-> m]
        Show(c, k, m) == [shows |-> <<c>>, next |-> i + k, mode |-> m]
    IN  CASE mode = "block" /\ At(s, i, Fence) -> Go(3, "plain")
          [] mode = "code" /\ s[i] = "~" -> Go(1, "plain")
          [] mode = "url" -> Go(1, IF s[i] = "|" THEN "link" ELSE mode)
          [] mode = "link" /\ s[i] = ">" -> Go(1, "plain")
          [] mode \notin {"url", "link"} /\ strict /\ s[i] = "\\" ->
                IF i = Len(s) THEN Show(Broken, 1, "plain") ELSE Show(s[i + 1], 2, mode)
          [] mode \in {"plain", "bold"} /\ s[i] = "*" ->
                Go(1, IF mode = "bold" THEN "plain" ELSE "bold")
          [] mode = "plain" /\ At(s, i, Fence) -> Go(3, "block")
          [] mode = "plain" /\ s[i] = "~" /\ ~At(s, i, Fence) -> Go(1, "code")
          [] mode = "plain" /\ ~strict /\ s[i] = "<" -> Go(1, "url")
          [] mode \in {"plain", "bold"} /\ strict /\ s[i] \in Special \ {"*", "\\"} ->
                Show(Broken, Len(s) + 1 - i, "plain")
          [] OTHER -> Show(s[i], 1, mode)

Reads(channel, s) ==
    LET read[at \in (1..(Len(s) + 3)) \X Modes] ==
            IF at[1] > Len(s)
              THEN IF at[2] = "plain" \/ channel # "telegram" THEN <<>> ELSE <<Broken>>
              ELSE LET r == ReadsAt(channel, s, at[1], at[2])
                   IN  r.shows \o read[<<r.next, r.mode>>]
    IN  read[<<1, "plain">>]

----------------------------------------------------------------------------
(* What the reader of the text should see: it without its marks.           *)

SpansFor(channel, s) ==
    IF channel = "telegram" THEN Spans(s, FALSE) ELSE Spans(StripDataURIs(s), TRUE)

Content(channel, s) ==
    LET spans == SpansFor(channel, s) IN FlattenSeq([i \in DOMAIN spans |-> spans[i].inner])

WithoutBreaks(s) ==
    FlattenSeq([i \in DOMAIN s |-> IF s[i] = NewLine THEN <<>> ELSE <<s[i]>>])

\* Text of the kind the converter of the channel expects: code that is closed and
\* not empty, no marks in bold text or in a link, stars in pairs, no backslash in
\* code, and for Slack, which has no escapes, nothing that looks like its links.
Regular(channel, s) ==
    \A span \in ToSet(SpansFor(channel, s)) :
        LET inner == ToSet(span.inner)
        IN  CASE span.kind = "plain" ->
                    /\ inner \intersect {"~", "*"} = {}
                    /\ channel = "slack" => "<" \notin inner
              [] span.kind = "bold" -> inner # {} /\ inner \intersect {"~", "*"} = {}
              [] span.kind \in {"code", "block"} -> inner # {} /\ "\\" \notin inner
              [] OTHER -> /\ inner \intersect {"~", "*", ">"} = {}
                          /\ "|" \notin ToSet(span.url)

\* Lines that are short after the conversion too, with no mark across a newline.
Lined(channel, s, limit) ==
    LET out == Converted(channel, s)
        end == Len(out) + 1
        breaks == {0, end} \union {i \in DOMAIN out : out[i] = NewLine}
    IN  /\ \A span \in ToSet(SpansFor(channel, s)) :
              span.kind # "plain" => NewLine \notin ToSet(span.inner) \union ToSet(span.url)
        /\ \A i \in breaks \ {end} : \E j \in breaks : i < j /\ j - i <= limit
=============================================================================
