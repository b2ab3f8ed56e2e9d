------------------------ MODULE InvestigationProofs ------------------------
(***************************************************************************)
(* Proofs about Investigation, for any tools, pictures, limits and sizes:  *)
(* nothing is sent, shown or rendered twice, every call is answered, and   *)
(* the conversation is trimmed from its old end.                           *)
(*                                                                         *)
(* That a picture is kept once rests on what the image executor remembers: *)
(* as long as it lives it has seen exactly what was returned, and a panel  *)
(* it does not know has not been rendered (ExecutorInv).  After Run has    *)
(* returned its memory is gone, but then no tool is called any more.       *)
(*                                                                         *)
(* Of the conversation TalkInv says what holds at every moment, not only   *)
(* when a request is out: the results in place so far and the calls still  *)
(* to be made are together those of the turns.  That trimming takes the    *)
(* oldest results first rests on the sums of tokens: what is saved only    *)
(* grows along the conversation.                                           *)
(***************************************************************************)
EXTENDS Investigation, SequenceTheorems, FiniteSetTheorems,
        WellFoundedInduction, TLAPS

\* Until an outcome is reached.
Before == {"start", "loop", "asked", "calls", "wrap", "notify", "summary"}

Deliveries == ToSet(Channels) \X Parts

PictureTypes ==
    /\ pc \in Before \union {"send", "done"}
    /\ images \in Seq(Images) /\ returned \in SUBSET Images
    /\ shots \in [Panels -> Nat]

ExecutorInv ==
    pc \in Before =>
        /\ seen = returned
        /\ \A p \in Panels \ panels : shots[p] = 0

\* The outcome is there when the first part goes out.
OutcomeInv ==
    /\ pc \in Before => sent = {} /\ result = "none"
    /\ pc = "send" => result = "report" /\ todo \in Seq(Deliveries) /\ todo # <<>>

OnceInv == PictureTypes /\ ExecutorInv /\ OutcomeInv /\ NothingTwice

LEMMA InitOnceInv == Init => OnceInv
<1> SUFFICES ASSUME Init PROVE OnceInv
  OBVIOUS
<1> USE DEF Init
<1>1. PictureTypes BY DEF PictureTypes, Before
<1>2. ExecutorInv BY DEF ExecutorInv
<1>3. OutcomeInv BY DEF OutcomeInv
<1>4. ImagesOnce /\ PanelOnce /\ RetryIsClean
  BY DEF ImagesOnce, PanelOnce, RetryIsClean, ToSet
<1> QED BY <1>1, <1>2, <1>3, <1>4 DEF OnceInv, NothingTwice

----------------------------------------------------------------------------
(* Sequences of pictures.                                                  *)

\* A finite set as a sequence has each element once.
LEMMA SetAsSequence ==
    ASSUME NEW S, IsFiniteSet(S)
    PROVE  /\ SetToSeq(S) \in Seq(S)
           /\ ToSet(SetToSeq(S)) = S
           /\ \A i, j \in DOMAIN SetToSeq(S) : SetToSeq(S)[i] = SetToSeq(S)[j] => i = j
<1> DEFINE n == Cardinality(S)
           s == SetToSeq(S)
<1>1. n \in Nat /\ ExistsBijection(1..n, S) BY FS_CardinalityType
<1>2. \E f \in [1..n -> S] : IsInjective(f)
  BY <1>1 DEF ExistsBijection, Bijection, Injection
<1>3. s \in [1..n -> S] /\ IsInjective(s)
  BY <1>2 DEF SetToSeq
<1> HIDE DEF s
<1>4. s \in Injection(1..n, S) BY <1>3 DEF Injection
<1>5. Cardinality(1..n) = n BY <1>1, FS_Interval
<1> HIDE DEF n
<1>6. s \in Surjection(1..n, S) BY <1>4, <1>5, FS_Injection DEF n
<1>7. ToSet(s) = S
  <2>1. \A t \in S : \E i \in 1..n : s[i] = t BY <1>6 DEF Surjection
  <2> QED BY <1>3, <2>1 DEF ToSet
<1>8. s \in Seq(S) BY <1>1, <1>3
<1>9. \A i, j \in DOMAIN s : s[i] = s[j] => i = j BY <1>3 DEF IsInjective
<1> QED BY <1>7, <1>8, <1>9 DEF s

\* Two sequences without repetitions and without a common element make one.
LEMMA OnceInConcat ==
    ASSUME NEW S, NEW s \in Seq(S), NEW t \in Seq(S),
           \A i, j \in DOMAIN s : s[i] = s[j] => i = j,
           \A i, j \in DOMAIN t : t[i] = t[j] => i = j,
           ToSet(s) \intersect ToSet(t) = {}
    PROVE  /\ s \o t \in Seq(S)
           /\ ToSet(s \o t) = ToSet(s) \union ToSet(t)
           /\ \A i, j \in DOMAIN (s \o t) : (s \o t)[i] = (s \o t)[j] => i = j
<1> DEFINE c == s \o t
           m == Len(s)
           n == Len(t)
<1>1. /\ c \in Seq(S) /\ m \in Nat /\ n \in Nat
      /\ DOMAIN c = 1..(m + n) /\ DOMAIN s = 1..m /\ DOMAIN t = 1..n
  BY ConcatProperties
<1>2. \A i \in 1..(m + n) : c[i] = IF i <= m THEN s[i] ELSE t[i - m]
  BY ConcatProperties
<1> HIDE DEF c, m, n
<1>3. ASSUME NEW i \in 1..(m + n)
      PROVE  \/ i \in 1..m /\ c[i] = s[i] /\ c[i] \in ToSet(s)
             \/ i - m \in 1..n /\ c[i] = t[i - m] /\ c[i] \in ToSet(t) /\ ~(i <= m)
  <2>1. CASE i <= m
    <3>1. i \in 1..m /\ c[i] = s[i] BY <1>1, <1>2, <2>1
    <3> QED BY <1>1, <3>1 DEF ToSet
  <2>2. CASE ~(i <= m)
    <3> DEFINE k == i - m
    <3>1. k \in 1..n BY <1>1, <2>2
    <3>2. c[i] = t[k] BY <1>2, <2>2
    <3>3. c[i] \in ToSet(t) BY <1>1, <3>1, <3>2 DEF ToSet
    <3> QED BY <2>2, <3>1, <3>2, <3>3
  <2> QED BY <2>1, <2>2
<1>4. ASSUME NEW i \in 1..(m + n), NEW j \in 1..(m + n), c[i] = c[j]
      PROVE  i = j
  <2>1. CASE i \in 1..m /\ j \in 1..m
    <3>1. s[i] = s[j] BY <1>1, <1>2, <1>4, <2>1
    <3> QED BY <1>1, <2>1, <3>1
  <2>2. CASE i - m \in 1..n /\ j - m \in 1..n /\ ~(i <= m) /\ ~(j <= m)
    <3>1. t[i - m] = t[j - m] BY <1>2, <1>4, <2>2
    <3>2. i - m = j - m BY <1>1, <2>2, <3>1
    <3> QED BY <1>1, <3>2
  <2>3. c[i] \in ToSet(s) => c[i] \notin ToSet(t) OBVIOUS
  <2> QED BY <1>1, <1>3, <1>4, <2>1, <2>2, <2>3
<1>5. ToSet(c) = ToSet(s) \union ToSet(t)
  <2>1. ToSet(c) \subseteq ToSet(s) \union ToSet(t)
    BY <1>1, <1>3 DEF ToSet
  <2>2. ASSUME NEW i \in 1..m PROVE s[i] \in ToSet(c)
    <3>1. i \in 1..(m + n) /\ c[i] = s[i] BY <1>1, <1>2
    <3> QED BY <1>1, <3>1 DEF ToSet
  <2>3. ASSUME NEW i \in 1..n PROVE t[i] \in ToSet(c)
    <3>1. i + m \in 1..(m + n) /\ ~(i + m <= m) /\ (i + m) - m = i BY <1>1
    <3>2. c[i + m] = t[(i + m) - m] BY <1>2, <3>1
    <3> QED BY <1>1, <3>1, <3>2 DEF ToSet
  <2>4. ToSet(s) \subseteq ToSet(c) /\ ToSet(t) \subseteq ToSet(c)
    BY <1>1, <2>2, <2>3 DEF ToSet
  <2> QED BY <2>1, <2>4
<1> QED BY <1>1, <1>4, <1>5 DEF c

----------------------------------------------------------------------------
(* The steps.                                                              *)

\* What goes out is a sequence of deliveries.
LEMMA OutgoingParts ==
    ASSUME NEW ps \in Seq(Parts), ps # <<>>
    PROVE  ToAll(ps) \in Seq(Deliveries) /\ ToAll(ps) # <<>>
<1>1. "telegram" \in ToSet(Channels) /\ "slack" \in ToSet(Channels)
  BY DEF ToSet, Channels
<1>2. ASSUME NEW c \in ToSet(Channels)
      PROVE  To(c, ps) \in Seq(Deliveries) /\ Len(To(c, ps)) = Len(ps)
  <2>1. To(c, ps) = [i \in 1..Len(ps) |-> <<c, ps[i]>>] BY DEF To
  <2>2. \A i \in 1..Len(ps) : <<c, ps[i]>> \in Deliveries BY DEF Deliveries
  <2> QED BY <2>1, <2>2
<1> DEFINE t == To("telegram", ps)
           u == To("slack", ps)
<1>3. /\ t \in Seq(Deliveries) /\ Len(t) = Len(ps)
      /\ u \in Seq(Deliveries) /\ Len(u) = Len(ps)
  BY <1>1, <1>2
<1>4. Len(ps) > 0 BY EmptySeq
<1> HIDE DEF t, u
<1>5. t \o u \in Seq(Deliveries) /\ Len(t \o u) > 0
  BY <1>3, <1>4, ConcatProperties
<1> QED BY <1>5 DEF ToAll, t, u

\* A step on the way to an outcome that leaves the pictures alone.
LEMMA QuietStep ==
    ASSUME OnceInv, pc \in Before, UNCHANGED <<pictures, sent>>,
           pc' \in Before \union {"send", "done"},
           pc' \in Before => UNCHANGED <<executor, result>>,
           pc' = "send" => result' = "report" /\ todo' \in Seq(Deliveries) /\ todo' # <<>>,
           pc' = "done" => result' = "error"
    PROVE  OnceInv'
<1> USE DEF Before
<1>1. PictureTypes' BY DEF OnceInv, PictureTypes, pictures
<1>2. ExecutorInv' BY DEF OnceInv, ExecutorInv, pictures, executor
<1>3. OutcomeInv' BY DEF OnceInv, OutcomeInv
<1>4. ImagesOnce' /\ PanelOnce'
  BY DEF OnceInv, NothingTwice, ImagesOnce, PanelOnce, pictures
<1>5. sent' = {} BY DEF OnceInv, OutcomeInv
<1>6. RetryIsClean' BY <1>5 DEF RetryIsClean
<1> QED BY <1>1, <1>2, <1>3, <1>4, <1>6 DEF OnceInv, NothingTwice

LEMMA RunStep ==
    ASSUME OnceInv,
           Start \/ Ask \/ WrapUpNow \/ AskFails \/ Report \/ CallTools \/ WrapUp
    PROVE  OnceInv'
<1> USE DEF Before, Fails, tools, loop
<1>1. CASE Start BY <1>1, QuietStep DEF Start
<1>2. CASE Ask BY <1>2, QuietStep DEF Ask
<1>3. CASE WrapUpNow BY <1>3, QuietStep DEF WrapUpNow
<1>4. CASE AskFails BY <1>4, QuietStep DEF AskFails
<1>5. CASE Report BY <1>5, QuietStep DEF Report
<1>6. CASE CallTools BY <1>6, QuietStep DEF CallTools
<1>7. CASE WrapUp BY <1>7, QuietStep DEF WrapUp
<1> QED BY <1>1, <1>2, <1>3, <1>4, <1>5, <1>6, <1>7

LEMMA OutcomeStep ==
    ASSUME OnceInv, Summarize \/ Notify
    PROVE  OnceInv'
<1> USE DEF Before
<1>1. CASE Summarize
  <2>1. PhotoParts \in Seq(Parts)
    <3>1. images \in Seq(Images) BY DEF OnceInv, PictureTypes
    <3>2. images \in Seq(Parts) BY <3>1 DEF Parts
    <3> QED BY <3>2 DEF PhotoParts
  <2>2. ReportParts \in Seq(Parts) /\ ReportParts # <<>>
    <3> DEFINE first == <<"message", "document">>
    <3>1. first \in Seq(Parts) /\ Len(first) = 2 BY DEF Parts
    <3> HIDE DEF first
    <3>2. first \o PhotoParts \in Seq(Parts) /\ Len(first \o PhotoParts) > 0
      BY <2>1, <3>1, ConcatProperties
    <3> QED BY <3>2 DEF ReportParts, first
  <2>3. todo' \in Seq(Deliveries) /\ todo' # <<>>
    BY <1>1, <2>2, OutgoingParts DEF Summarize
  <2> QED BY <1>1, <2>3, QuietStep DEF Summarize
<1>2. CASE Notify
  <2>1. <<"message">> \in Seq(Parts) /\ <<"message">> # <<>> BY DEF Parts
  <2>2. CASE pc' = "send"
    <3>1. todo' = ToAll(<<"message">>) /\ result' = "report"
      BY <1>2, <2>2 DEF Notify, Fails
    <3>2. todo' \in Seq(Deliveries) /\ todo' # <<>>
      BY <2>1, <3>1, OutgoingParts
    <3> QED BY <1>2, <2>2, <3>1, <3>2, QuietStep DEF Notify
  <2>3. CASE pc' = "done"
    <3>1. result' = "error" BY <1>2, <2>3 DEF Notify, Fails
    <3> QED BY <1>2, <2>3, <3>1, QuietStep DEF Notify
  <2> QED BY <1>2, <2>2, <2>3 DEF Notify, Fails
<1> QED BY <1>1, <1>2

LEMMA SendStep ==
    ASSUME OnceInv, Send
    PROVE  OnceInv'
<1> USE DEF Before
<1>1. /\ pc = "send" /\ result = "report"
      /\ todo \in Seq(Deliveries) /\ todo # <<>>
  BY DEF OnceInv, OutcomeInv, Send
<1>2. /\ UNCHANGED <<tools, result>> /\ todo' = Tail(todo)
      /\ pc' = IF Len(todo) > 1 THEN "send" ELSE "done"
  BY DEF Send
<1>3. /\ todo' \in Seq(Deliveries) /\ Len(todo') = Len(todo) - 1
  BY <1>1, <1>2, HeadTailProperties
<1>4. IF Len(todo) > 1 THEN todo' # <<>> ELSE todo' = <<>>
  <2>1. Len(todo) \in Nat /\ Len(todo) > 0 BY <1>1, EmptySeq
  <2> QED BY <1>3, <2>1, EmptySeq
<1>5. PictureTypes' /\ ExecutorInv'
  BY <1>2 DEF OnceInv, PictureTypes, ExecutorInv, tools, pictures
<1>6. OutcomeInv' BY <1>1, <1>2, <1>3, <1>4 DEF OutcomeInv
<1>7. ImagesOnce' /\ PanelOnce'
  BY <1>2 DEF OnceInv, NothingTwice, ImagesOnce, PanelOnce, tools, pictures
<1>8. RetryIsClean' BY <1>1, <1>2, <1>4 DEF RetryIsClean
<1> QED BY <1>5, <1>6, <1>7, <1>8 DEF OnceInv, NothingTwice

\* A call that returns a picture: what is new is added once, and the panel is
\* remembered with its first picture.
LEMMA PictureStep ==
    ASSUME OnceInv, pc = "calls", NEW c, Picture(c),
           pc' \in {"calls", "loop"}, UNCHANGED <<result, sent>>
    PROVE  OnceInv'
<1> USE DEF Before
<1>1. PICK got \in SUBSET Images :
         /\ images' = images \o SetToSeq(got \ seen)
         /\ seen' = seen \union (got \ seen)
         /\ returned' = returned \union got
  BY DEF Picture, See
<1> DEFINE new == got \ seen
<1>2. /\ images \in Seq(Images) /\ returned \in SUBSET Images /\ seen = returned
      /\ ToSet(images) = returned
      /\ \A i, j \in DOMAIN images : images[i] = images[j] => i = j
  BY DEF OnceInv, PictureTypes, ExecutorInv, NothingTwice, ImagesOnce
<1>3. IsFiniteSet(new) BY InvestigationConstants, FS_Subset
<1>4. /\ SetToSeq(new) \in Seq(new) /\ ToSet(SetToSeq(new)) = new
      /\ \A i, j \in DOMAIN SetToSeq(new) :
            SetToSeq(new)[i] = SetToSeq(new)[j] => i = j
  BY <1>3, SetAsSequence
<1>5. SetToSeq(new) \in Seq(Images) BY <1>4
<1>6. ToSet(images) \intersect ToSet(SetToSeq(new)) = {} BY <1>2, <1>4
<1> HIDE DEF new
<1>7. /\ images' \in Seq(Images) /\ ToSet(images') = returned \union new
      /\ \A i, j \in DOMAIN images' : images'[i] = images'[j] => i = j
  <2>1. images' = images \o SetToSeq(new) BY <1>1 DEF new
  <2> QED BY <1>2, <1>4, <1>5, <1>6, <2>1, OnceInConcat
<1>8. returned \union new = returned' /\ seen' = returned' /\ returned' \in SUBSET Images
  BY <1>1, <1>2 DEF new
<1>9. ImagesOnce' BY <1>7, <1>8 DEF ImagesOnce
<1>10. /\ shots' = [p \in Panels |-> IF p = c THEN shots[p] + 1 ELSE shots[p]]
       /\ panels' = panels \union ({c} \intersect Panels) /\ c \notin panels
  BY DEF Picture, Keep
<1>11. /\ shots \in [Panels -> Nat]
       /\ \A p \in Panels \ panels : shots[p] = 0
       /\ \A p \in Panels : shots[p] <= 1
  BY DEF OnceInv, PictureTypes, ExecutorInv, NothingTwice, PanelOnce
<1>12. PanelOnce' BY <1>10, <1>11 DEF PanelOnce
<1>13. shots' \in [Panels -> Nat] /\ \A p \in Panels \ panels' : shots'[p] = 0
  BY <1>10, <1>11
<1>14. PictureTypes' BY <1>7, <1>8, <1>13 DEF PictureTypes
<1>15. ExecutorInv' BY <1>8, <1>13 DEF ExecutorInv
<1>16. OutcomeInv' /\ RetryIsClean'
  BY DEF OnceInv, OutcomeInv, RetryIsClean
<1> QED BY <1>9, <1>12, <1>14, <1>15, <1>16 DEF OnceInv, NothingTwice

LEMMA CallStep ==
    ASSUME OnceInv, Call
    PROVE  OnceInv'
<1> DEFINE c == Head(todo)[1]
<1>1. /\ pc = "calls" /\ pc' \in {"calls", "loop"} /\ UNCHANGED <<result, sent>>
      /\ Reused(c) \/ NoPicture(c) \/ Picture(c)
  BY DEF Call
<1> HIDE DEF c
<1>2. CASE Picture(c) BY <1>1, <1>2, PictureStep
<1>3. CASE UNCHANGED tools BY <1>1, <1>3, QuietStep DEF Before, tools
<1> QED BY <1>1, <1>2, <1>3 DEF Reused, NoPicture

LEMMA NextOnceInv == OnceInv /\ [Next]_vars => OnceInv'
<1> SUFFICES ASSUME OnceInv, [Next]_vars PROVE OnceInv'
  OBVIOUS
<1>1. CASE UNCHANGED <<pc, tools, todo, result, sent>>
  <2>1. PictureTypes' /\ ExecutorInv' /\ OutcomeInv'
    BY <1>1 DEF OnceInv, PictureTypes, ExecutorInv, OutcomeInv, tools, executor, pictures
  <2>2. NothingTwice'
    BY <1>1 DEF OnceInv, NothingTwice, ImagesOnce, PanelOnce, RetryIsClean, tools, pictures
  <2> QED BY <2>1, <2>2 DEF OnceInv
<1>2. CASE Expire \/ Finished \/ UNCHANGED vars
  BY <1>1, <1>2 DEF Expire, Finished, vars
<1>3. CASE Call BY <1>3, CallStep
<1>4. CASE Summarize \/ Notify BY <1>4, OutcomeStep
<1>5. CASE Send BY <1>5, SendStep
<1>6. CASE Start \/ Ask \/ WrapUpNow \/ AskFails \/ Report \/ CallTools \/ WrapUp
  BY <1>6, RunStep
<1> QED BY <1>2, <1>3, <1>4, <1>5, <1>6 DEF Next, Step

\* No picture is reported twice or left out, no panel is rendered again, and an
\* attempt that fails has sent nothing (images.go, agent.go, Handler.investigate).
THEOREM NothingHappensTwice == Spec => []NothingTwice
<1>1. OnceInv => NothingTwice BY DEF OnceInv
<1> QED BY <1>1, InitOnceInv, NextOnceInv, PTL DEF Spec

----------------------------------------------------------------------------
(* The attempt as the worker of the queue sees it: up to the report, every *)
(* step is a stutter or gives up; then every step tries one part.          *)

\* What goes out to both channels goes to neither twice.
LEMMA NoPartTwice ==
    ASSUME NEW ps \in Seq(Parts),
           \A i, j \in DOMAIN ps : ps[i] = ps[j] => i = j
    PROVE  \A i, j \in DOMAIN ToAll(ps) : ToAll(ps)[i] = ToAll(ps)[j] => i = j
<1>1. ASSUME NEW c \in ToSet(Channels)
      PROVE  /\ To(c, ps) \in Seq(Deliveries)
             /\ \A x \in ToSet(To(c, ps)) : x[1] = c
             /\ \A i, j \in DOMAIN To(c, ps) : To(c, ps)[i] = To(c, ps)[j] => i = j
  <2>1. To(c, ps) = [i \in 1..Len(ps) |-> <<c, ps[i]>>] BY DEF To
  <2>2. \A i \in 1..Len(ps) : <<c, ps[i]>> \in Deliveries BY DEF Deliveries
  <2>3. To(c, ps) \in Seq(Deliveries) BY <2>1, <2>2
  <2>4. \A x \in ToSet(To(c, ps)) : x[1] = c BY <2>1 DEF ToSet
  <2>5. \A i, j \in DOMAIN To(c, ps) : To(c, ps)[i] = To(c, ps)[j] => i = j
    BY <2>1
  <2> QED BY <2>3, <2>4, <2>5
<1>2. "telegram" \in ToSet(Channels) /\ "slack" \in ToSet(Channels)
  BY DEF ToSet, Channels
<1> DEFINE t == To("telegram", ps)
           u == To("slack", ps)
<1>3. /\ t \in Seq(Deliveries) /\ u \in Seq(Deliveries)
      /\ \A i, j \in DOMAIN t : t[i] = t[j] => i = j
      /\ \A i, j \in DOMAIN u : u[i] = u[j] => i = j
  BY <1>1, <1>2
<1>4. /\ \A x \in ToSet(t) : x[1] = "telegram"
      /\ \A x \in ToSet(u) : x[1] = "slack"
  BY <1>1, <1>2
<1> HIDE DEF t, u
<1>5. ToSet(t) \intersect ToSet(u) = {} BY <1>4
<1>6. \A i, j \in DOMAIN (t \o u) : (t \o u)[i] = (t \o u)[j] => i = j
  BY <1>3, <1>5, OnceInConcat
<1> QED BY <1>6 DEF ToAll, t, u

\* A report holds no part twice.
LEMMA ReportOnce ==
    ASSUME OnceInv
    PROVE  /\ ReportParts \in Seq(Parts) /\ ReportParts # <<>>
           /\ \A i, j \in DOMAIN ReportParts :
                 ReportParts[i] = ReportParts[j] => i = j
<1> DEFINE first == <<"message", "document">>
<1>1. /\ first \in Seq(Parts) /\ Len(first) = 2 /\ ToSet(first) = {"message", "document"}
      /\ \A i, j \in DOMAIN first : first[i] = first[j] => i = j
  BY DEF Parts, ToSet
<1>2. /\ images \in Seq(Images)
      /\ \A i, j \in DOMAIN images : images[i] = images[j] => i = j
  BY DEF OnceInv, PictureTypes, NothingTwice, ImagesOnce
<1>3. /\ PhotoParts \in Seq(Images)
      /\ \A i, j \in DOMAIN PhotoParts : PhotoParts[i] = PhotoParts[j] => i = j
  BY <1>2 DEF PhotoParts
<1>4. PhotoParts \in Seq(Parts) BY <1>3 DEF Parts
<1>5. ToSet(first) \intersect ToSet(PhotoParts) = {}
  <2>1. ToSet(PhotoParts) \subseteq Images BY <1>3 DEF ToSet
  <2> QED BY <1>1, <2>1, InvestigationConstants
<1> HIDE DEF first
<1>6. /\ first \o PhotoParts \in Seq(Parts)
      /\ \A i, j \in DOMAIN (first \o PhotoParts) :
            (first \o PhotoParts)[i] = (first \o PhotoParts)[j] => i = j
  BY <1>1, <1>3, <1>4, <1>5, OnceInConcat
<1>7. first \o PhotoParts # <<>>
  <2>1. Len(first \o PhotoParts) > 0 BY <1>1, <1>4, ConcatProperties
  <2> QED BY <2>1
<1> QED BY <1>6, <1>7 DEF ReportParts, first

Rest == IF pc = "send" THEN todo ELSE <<>>

LEMMA WorkerInit == Init => Worker!Init
  BY DEF Init, Worker!Init, Phase

\* The step that has the report begins the sending.
LEMMA WorkerBegins ==
    ASSUME pc \in Before, pc' = "send", UNCHANGED sent,
           NEW ps \in Seq(Parts), ps # <<>>,
           \A i, j \in DOMAIN ps : ps[i] = ps[j] => i = j,
           todo' = ToAll(ps)
    PROVE  Worker!Begin
<1>1. todo' \in Seq(Deliveries) /\ todo' # <<>> BY OutgoingParts
<1>2. \A i, j \in DOMAIN todo' : todo'[i] = todo'[j] => i = j BY NoPartTwice
<1>3. Phase = "working" /\ Phase' = "reporting" BY DEF Phase, Before
<1>4. Rest' = todo' BY DEF Rest
<1> QED BY <1>1, <1>2, <1>3, <1>4 DEF Worker!Begin, Rest, Deliveries

LEMMA WorkerStep == OnceInv /\ [Next]_vars => [Worker!Next]_(Worker!vars)
<1> SUFFICES ASSUME OnceInv, [Next]_vars
             PROVE  Worker!Next \/ UNCHANGED <<Phase, Rest, sent>>
  BY DEF Worker!vars, Rest
<1>1. ASSUME pc \in Before, pc' \in Before, UNCHANGED sent
      PROVE  UNCHANGED <<Phase, Rest, sent>>
  BY <1>1 DEF Before, Phase, Rest
<1>2. ASSUME pc \in Before, pc' = "done", result' = "error", UNCHANGED sent
      PROVE  Worker!GiveUp
  BY <1>2 DEF Before, Phase, Worker!GiveUp
<1>3. CASE Expire \/ Finished \/ UNCHANGED vars
  BY <1>3 DEF Expire, Finished, vars, Phase, Rest
<1>4. CASE Start \/ AskFails \/ WrapUp
  BY <1>1, <1>2, <1>4 DEF Start, AskFails, WrapUp, Fails, Before, Worker!Next
<1>5. CASE Ask \/ WrapUpNow \/ Report \/ CallTools \/ Call
  BY <1>1, <1>5 DEF Ask, WrapUpNow, Report, CallTools, Call, Before
<1>6. CASE Summarize
  BY <1>6, ReportOnce, WorkerBegins DEF Summarize, Before, Worker!Next
<1>7. CASE Notify
  <2>1. CASE pc' = "send"
    <3>1. <<"message">> \in Seq(Parts) /\ <<"message">> # <<>> BY DEF Parts
    <3> DEFINE ps == <<"message">>
    <3>2. \A i, j \in DOMAIN ps : ps[i] = ps[j] => i = j OBVIOUS
    <3>3. pc \in Before /\ todo' = ToAll(ps) /\ UNCHANGED sent
      BY <1>7, <2>1 DEF Notify, Fails, Before
    <3> HIDE DEF ps
    <3>4. Worker!Begin BY <2>1, <3>1, <3>2, <3>3, WorkerBegins DEF ps
    <3> QED BY <3>4 DEF Worker!Next
  <2>2. CASE pc' # "send"
    BY <1>2, <1>7, <2>2 DEF Notify, Fails, Before, Worker!Next
  <2> QED BY <2>1, <2>2
<1>8. CASE Send
  <2>1. /\ pc = "send" /\ todo \in Seq(Deliveries) /\ todo # <<>>
        /\ result' = "report" /\ todo' = Tail(todo)
        /\ pc' = IF Len(todo) > 1 THEN "send" ELSE "done"
        /\ sent' \in {sent, sent \union {Head(todo)}}
    BY <1>8 DEF Send, OnceInv, OutcomeInv
  <2>2. IF Len(todo) > 1 THEN todo' # <<>> ELSE todo' = <<>>
    <3>1. Len(todo) \in Nat /\ Len(todo) > 0 BY <2>1, EmptySeq
    <3>2. Len(todo') = Len(todo) - 1 /\ todo' \in Seq(Deliveries)
      BY <2>1, HeadTailProperties
    <3> QED BY <3>1, <3>2, EmptySeq
  <2>3. Rest = todo /\ Rest' = Tail(todo) BY <2>1, <2>2 DEF Rest
  <2>4. Phase = "reporting" /\ Phase' = IF Rest' = <<>> THEN "succeeded" ELSE "reporting"
    BY <2>1, <2>2, <2>3 DEF Phase
  <2>5. Worker!Try BY <2>1, <2>3, <2>4 DEF Worker!Try, Rest
  <2> QED BY <2>5 DEF Worker!Next
<1> QED BY <1>3, <1>4, <1>5, <1>6, <1>7, <1>8 DEF Next, Step

\* Whatever the LLM, the tools, the channels and the deadline do, the handler
\* keeps the promise of Attempt on which the worker's retries rest: an error
\* comes before anything was sent, and a report is tried part by part, once.
THEOREM InvestigationImplementsAttempt == Spec => ImplementsAttempt
  BY InitOnceInv, NextOnceInv, WorkerInit, WorkerStep, PTL
     DEF Spec, ImplementsAttempt, Worker!Spec

----------------------------------------------------------------------------
(* Sums of tokens: TokensAt adds up one chosen element after the other; of *)
(* natural numbers that is their sum, whatever the order.                  *)

Chosen(S) == CHOOSE x \in S : TRUE
Unfold(ms, g, s) == IF s = {} THEN 0 ELSE Tokens(ms[Chosen(s)]) + g[s \ {Chosen(s)}]
Solves(ms, g, S) == g = [s \in SUBSET S |-> Unfold(ms, g, s)]

LEMMA TokensAtUnfolds ==
    ASSUME NEW ms, NEW S
    PROVE  TokensAt(ms, S) = (CHOOSE g : Solves(ms, g, S))[S]
  BY DEF TokensAt, MapThenSumSet, MapThenFoldSet, Solves, Unfold, Chosen

\* A set of finite subsets has a least one.
LEMMA LeastSubset ==
    ASSUME NEW S, IsFiniteSet(S), NEW T \in SUBSET (SUBSET S), T # {}
    PROVE  \E U \in T : \A V \in SUBSET U : V # U => V \notin T
<1> DEFINE R == StrictSubsetOrdering(S)
<1>1. T \subseteq FiniteSubsetsOf(S) BY FS_FiniteSubsetsOfFinite
<1>2. IsWellFoundedOn(R, FiniteSubsetsOf(S))
  BY FS_StrictSubsetOrderingWellFounded
<1> HIDE DEF R
<1>3. PICK U \in T : \A V \in T : ~(<<V, U>> \in R) BY <1>1, <1>2, WFMin, Zenon
<1>4. \A V \in SUBSET U : V # U => V \notin T
  BY <1>3 DEF R, StrictSubsetOrdering
<1> QED BY <1>4

LEMMA SolutionsAgree ==
    ASSUME NEW ms, NEW S, NEW T, NEW g, NEW h, IsFiniteSet(S),
           Solves(ms, g, S), Solves(ms, h, T), S \subseteq T
    PROVE  g[S] = h[S]
<1> DEFINE Bad == {U \in SUBSET S : g[U] # h[U]}
<1> SUFFICES ASSUME Bad # {} PROVE FALSE
  OBVIOUS
<1>1. Bad \in SUBSET (SUBSET S) OBVIOUS
<1> HIDE DEF Bad
<1>2. PICK U \in Bad : \A V \in SUBSET U : V # U => V \notin Bad
  BY <1>1, LeastSubset
<1>3. U \in SUBSET S /\ U \in SUBSET T /\ g[U] # h[U] BY <1>1, <1>2 DEF Bad
<1>4. g[U] = Unfold(ms, g, U) /\ h[U] = Unfold(ms, h, U) BY <1>3 DEF Solves
<1>5. CASE U = {} BY <1>3, <1>4, <1>5 DEF Unfold
<1>6. CASE U # {}
  <2> DEFINE V == U \ {Chosen(U)}
  <2>1. Chosen(U) \in U BY <1>6 DEF Chosen
  <2>2. V \in SUBSET U /\ V # U /\ V \in SUBSET S BY <1>3, <2>1
  <2>3. g[V] = h[V] BY <1>2, <2>2 DEF Bad
  <2> QED BY <1>3, <1>4, <1>6, <2>3 DEF Unfold
<1> QED BY <1>5, <1>6

\* One step of the recursion, given that it has a solution.
LEMMA OneStep ==
    ASSUME NEW ms, NEW S, IsFiniteSet(S), \E g : Solves(ms, g, S),
           S # {} => \E g : Solves(ms, g, S \ {Chosen(S)})
    PROVE  TokensAt(ms, S) =
              IF S = {} THEN 0
              ELSE Tokens(ms[Chosen(S)]) + TokensAt(ms, S \ {Chosen(S)})
<1> DEFINE g == CHOOSE g : Solves(ms, g, S)
           U == S \ {Chosen(S)}
           h == CHOOSE h : Solves(ms, h, U)
<1>1. Solves(ms, g, S) OBVIOUS
<1>2. S # {} => Solves(ms, h, U) OBVIOUS
<1>3. TokensAt(ms, S) = g[S] /\ TokensAt(ms, U) = h[U] BY TokensAtUnfolds
<1>4. IsFiniteSet(U) /\ U \subseteq S BY FS_Subset
<1> HIDE DEF g, h, U
<1>5. S # {} => h[U] = g[U] BY <1>1, <1>2, <1>4, SolutionsAgree
<1>6. g[S] = Unfold(ms, g, S) BY <1>1 DEF Solves
<1> QED BY <1>3, <1>5, <1>6 DEF Unfold, U

LEMMA SolutionExists ==
    ASSUME NEW ms, NEW S, IsFiniteSet(S)
    PROVE  \E g : Solves(ms, g, S)
<1> DEFINE Bad == {U \in SUBSET S : ~ \E g : Solves(ms, g, U)}
<1> SUFFICES ASSUME Bad # {} PROVE FALSE
  OBVIOUS
<1>1. Bad \in SUBSET (SUBSET S) OBVIOUS
<1> HIDE DEF Bad
<1>2. PICK U \in Bad : \A V \in SUBSET U : V # U => V \notin Bad
  BY <1>1, LeastSubset
<1>3. U \in SUBSET S /\ (~ \E g : Solves(ms, g, U)) /\ IsFiniteSet(U)
  BY <1>1, <1>2, FS_Subset DEF Bad
<1>4. \A V \in SUBSET U : V # U => IsFiniteSet(V) /\ \E g : Solves(ms, g, V)
  BY <1>2, <1>3, FS_Subset DEF Bad
<1> DEFINE Value(V) == IF V = {} THEN 0
                       ELSE Tokens(ms[Chosen(V)]) + TokensAt(ms, V \ {Chosen(V)})
           g == [V \in SUBSET U |-> Value(V)]
<1>5. \A V \in SUBSET U : V # {} => Chosen(V) \in V BY DEF Chosen
<1>6. ASSUME NEW V \in SUBSET U, V # U PROVE g[V] = TokensAt(ms, V)
  <2>1. V # {} => V \ {Chosen(V)} \in SUBSET U /\ V \ {Chosen(V)} # U
    BY <1>5
  <2>2. TokensAt(ms, V) = Value(V) BY <1>4, <1>6, <2>1, OneStep
  <2> QED BY <2>2
<1>7. ASSUME NEW V \in SUBSET U PROVE g[V] = Unfold(ms, g, V)
  <2>1. CASE V = {} BY <2>1 DEF Unfold
  <2>2. CASE V # {}
    <3> DEFINE W == V \ {Chosen(V)}
    <3>1. W \in SUBSET U /\ W # U BY <1>5, <2>2
    <3>2. g[W] = TokensAt(ms, W) BY <1>6, <3>1
    <3>3. g[V] = Tokens(ms[Chosen(V)]) + TokensAt(ms, W) BY <2>2
    <3> HIDE DEF g
    <3> QED BY <2>2, <3>2, <3>3 DEF Unfold
  <2> QED BY <2>1, <2>2
<1>8. g = [V \in SUBSET U |-> g[V]] OBVIOUS
<1> HIDE DEF g
<1>9. Solves(ms, g, U) BY <1>7, <1>8 DEF Solves
<1> QED BY <1>3, <1>9

LEMMA TokensAtRecursion ==
    ASSUME NEW ms, NEW S, IsFiniteSet(S)
    PROVE  TokensAt(ms, S) =
              IF S = {} THEN 0
              ELSE Tokens(ms[Chosen(S)]) + TokensAt(ms, S \ {Chosen(S)})
<1>1. IsFiniteSet(S \ {Chosen(S)}) BY FS_Subset
<1> QED BY <1>1, SolutionExists, OneStep

\* A natural number for each element makes a natural number.
LEMMA TokensAtType ==
    ASSUME NEW ms, NEW S, IsFiniteSet(S), \A x \in S : Tokens(ms[x]) \in Nat
    PROVE  TokensAt(ms, S) \in Nat
<1> DEFINE Bad == {U \in SUBSET S : TokensAt(ms, U) \notin Nat}
<1> SUFFICES ASSUME Bad # {} PROVE FALSE
  OBVIOUS
<1>1. Bad \in SUBSET (SUBSET S) OBVIOUS
<1> HIDE DEF Bad
<1>2. PICK U \in Bad : \A V \in SUBSET U : V # U => V \notin Bad
  BY <1>1, LeastSubset
<1>3. U \in SUBSET S /\ TokensAt(ms, U) \notin Nat /\ IsFiniteSet(U)
  BY <1>1, <1>2, FS_Subset DEF Bad
<1>4. U # {} BY <1>3, TokensAtRecursion
<1>5. Chosen(U) \in U BY <1>4 DEF Chosen
<1>6. TokensAt(ms, U \ {Chosen(U)}) \in Nat BY <1>2, <1>3, <1>5 DEF Bad
<1> QED BY <1>3, <1>4, <1>5, <1>6, TokensAtRecursion

\* Any element may be taken first.
LEMMA TokensAtRemove ==
    ASSUME NEW ms, NEW S, IsFiniteSet(S), \A y \in S : Tokens(ms[y]) \in Nat,
           NEW x \in S
    PROVE  TokensAt(ms, S) = Tokens(ms[x]) + TokensAt(ms, S \ {x})
<1> DEFINE Good(U) == \A y \in U : TokensAt(ms, U) = Tokens(ms[y]) + TokensAt(ms, U \ {y})
           Bad == {U \in SUBSET S : ~Good(U)}
<1> SUFFICES ASSUME Bad # {} PROVE FALSE
  OBVIOUS
<1>1. Bad \in SUBSET (SUBSET S) OBVIOUS
<1> HIDE DEF Bad
<1>2. PICK U \in Bad : \A V \in SUBSET U : V # U => V \notin Bad
  BY <1>1, LeastSubset
<1>3. PICK y \in U : TokensAt(ms, U) # Tokens(ms[y]) + TokensAt(ms, U \ {y})
  BY <1>2 DEF Bad
<1>4. \A V \in SUBSET S : IsFiniteSet(V) /\ TokensAt(ms, V) \in Nat
  <2> SUFFICES ASSUME NEW V \in SUBSET S PROVE IsFiniteSet(V) /\ TokensAt(ms, V) \in Nat
    OBVIOUS
  <2>1. IsFiniteSet(V) BY FS_Subset
  <2> QED BY <2>1, TokensAtType
<1>5. U \in SUBSET S /\ \A V \in SUBSET U : V # U => Good(V)
  BY <1>1, <1>2 DEF Bad
<1> DEFINE c == Chosen(U)
<1>6. c \in U /\ TokensAt(ms, U) = Tokens(ms[c]) + TokensAt(ms, U \ {c})
  BY <1>3, <1>4, <1>5, TokensAtRecursion DEF Chosen
<1> HIDE DEF c
<1>7. c # y BY <1>3, <1>6
<1> DEFINE V == U \ {c}
           W == U \ {y}
           X == V \ {y}
<1>8. V \in SUBSET U /\ V # U /\ y \in V /\ W \in SUBSET U /\ W # U /\ c \in W
      /\ X = W \ {c} /\ X \in SUBSET S
  BY <1>5, <1>6, <1>7
<1>9. TokensAt(ms, V) = Tokens(ms[y]) + TokensAt(ms, X)
      /\ TokensAt(ms, W) = Tokens(ms[c]) + TokensAt(ms, X)
  <2>1. Good(V) /\ Good(W) BY <1>5, <1>8
  <2>2. X = V \ {y} OBVIOUS
  <2> HIDE DEF V, W, X
  <2> QED BY <1>8, <2>1, <2>2
<1>10. /\ Tokens(ms[y]) \in Nat /\ Tokens(ms[c]) \in Nat /\ TokensAt(ms, X) \in Nat
       /\ TokensAt(ms, U) = Tokens(ms[c]) + TokensAt(ms, V)
       /\ TokensAt(ms, U) # Tokens(ms[y]) + TokensAt(ms, W)
  BY <1>3, <1>4, <1>5, <1>6, <1>8
<1> HIDE DEF V, W, X
<1> QED BY <1>9, <1>10

\* More elements do not make less.
LEMMA TokensAtMonotonic ==
    ASSUME NEW ms, NEW S, IsFiniteSet(S), \A y \in S : Tokens(ms[y]) \in Nat,
           NEW T \in SUBSET S
    PROVE  TokensAt(ms, T) <= TokensAt(ms, S)
<1> DEFINE Bad == {U \in SUBSET S : T \subseteq U /\ ~(TokensAt(ms, T) <= TokensAt(ms, U))}
<1> SUFFICES ASSUME Bad # {} PROVE FALSE
  OBVIOUS
<1>1. Bad \in SUBSET (SUBSET S) OBVIOUS
<1> HIDE DEF Bad
<1>2. PICK U \in Bad : \A V \in SUBSET U : V # U => V \notin Bad
  BY <1>1, LeastSubset
<1>3. U \in SUBSET S /\ T \subseteq U /\ ~(TokensAt(ms, T) <= TokensAt(ms, U))
  BY <1>1, <1>2 DEF Bad
<1>4. \A V \in SUBSET S : IsFiniteSet(V) /\ TokensAt(ms, V) \in Nat
  <2> SUFFICES ASSUME NEW V \in SUBSET S PROVE IsFiniteSet(V) /\ TokensAt(ms, V) \in Nat
    OBVIOUS
  <2>1. IsFiniteSet(V) BY FS_Subset
  <2> QED BY <2>1, TokensAtType
<1>5. PICK x \in U : x \notin T BY <1>3, <1>4
<1>6. TokensAt(ms, U) = Tokens(ms[x]) + TokensAt(ms, U \ {x})
  BY <1>3, <1>4, TokensAtRemove
<1>7. TokensAt(ms, T) <= TokensAt(ms, U \ {x})
  BY <1>2, <1>3, <1>5 DEF Bad
<1>8. TokensAt(ms, U \ {x}) \in Nat /\ Tokens(ms[x]) \in Nat /\ TokensAt(ms, T) \in Nat
  BY <1>3, <1>4
<1> QED BY <1>3, <1>6, <1>7, <1>8
\* What an element adds to those before it.
LEMMA TokensAtNewest ==
    ASSUME NEW ms, NEW S, IsFiniteSet(S), NEW T, IsFiniteSet(T),
           \A y \in T \union S : Tokens(ms[y]) \in Nat,
           NEW x \in S, S \ {x} \in SUBSET T
    PROVE  TokensAt(ms, S) <= Tokens(ms[x]) + TokensAt(ms, T)
<1>1. TokensAt(ms, S) = Tokens(ms[x]) + TokensAt(ms, S \ {x}) BY TokensAtRemove
<1>2. TokensAt(ms, S \ {x}) <= TokensAt(ms, T) BY TokensAtMonotonic
<1>3. IsFiniteSet(S \ {x}) BY FS_Subset
<1>4. TokensAt(ms, S \ {x}) \in Nat /\ TokensAt(ms, T) \in Nat BY <1>3, TokensAtType
<1> QED BY <1>1, <1>2, <1>4
----------------------------------------------------------------------------
(* The conversation.                                                       *)

CallIds == Calls \X Nat

\* Every call of a turn has its result in its place after the turn, except that
\* those of rest come next; and results stand nowhere else.
Answered(ms, rest) ==
    /\ \A i \in DOMAIN ms : ms[i].role = "assistant" =>
          \A k \in DOMAIN ms[i].calls :
              IF i + k <= Len(ms)
                THEN ms[i + k].role = "tool" /\ ms[i + k].call = ms[i].calls[k]
                ELSE i + k - Len(ms) \in DOMAIN rest
                     /\ rest[i + k - Len(ms)] = ms[i].calls[k]
    /\ \A j \in ToolAt(ms) :
          \E i \in 1..(j - 1) :
              ms[i].role = "assistant" /\ j <= i + Len(ms[i].calls)
    /\ rest # <<>> =>
          \E i \in DOMAIN ms :
              ms[i].role = "assistant" /\ i + Len(ms[i].calls) = Len(ms) + Len(rest)

\* The calls that the agent has yet to make.
Open == IF pc = "calls" THEN todo ELSE <<>>

TalkTypes ==
    /\ messages \in Seq(Message)
    /\ counted \in Nat /\ iteration \in 0..MaxIterations
    /\ pc \in {"asked", "calls"} => iteration < MaxIterations
    /\ pc = "calls" => todo \in Seq(CallIds) /\ todo # <<>> /\ Len(todo) <= MaxToolCalls
    /\ expired \in BOOLEAN /\ detached \in BOOLEAN /\ late \in BOOLEAN /\ broken \in BOOLEAN
    /\ panels \in SUBSET Panels /\ seen \in SUBSET Images /\ sent \in SUBSET Deliveries
    /\ result \in {"none", "report", "error"}

OldestAndFits == OldestTrimmedFirst /\ FitsOrBare

TalkInv == TalkTypes /\ Answered(messages, Open) /\ OldestAndFits

\* What the fields of a message are.
LEMMA MessageFields ==
    ASSUME NEW m \in Message
    PROVE  /\ m.role \in {"user", "assistant", "tool"}
           /\ m.role = "assistant" => m.calls \in Seq(CallIds)
           /\ m.role = "tool" => m.call \in CallIds /\ m.trimmed \in BOOLEAN
           /\ Tokens(m) \in Nat
<1>1. CASE m \in [role : {"user"}] BY <1>1 DEF Tokens
<1>2. CASE m \in [role : {"assistant"}, calls : Seq(Calls \X Nat)]
  BY <1>2 DEF Tokens, CallIds
<1>3. CASE m \in [role : {"tool"}, call : Calls \X Nat, trimmed : BOOLEAN]
  BY <1>3, InvestigationConstants DEF Tokens, CallIds
<1> QED BY <1>1, <1>2, <1>3 DEF Message

\* A message of the user, or a turn: its calls are the open ones then.
LEMMA AppendedMessage ==
    ASSUME NEW ms \in Seq(Message), Answered(ms, <<>>),
           NEW m \in Message, NEW cs \in Seq(CallIds),
           \/ m.role = "user" /\ cs = <<>>
           \/ m.role = "assistant" /\ cs = m.calls
    PROVE  Append(ms, m) \in Seq(Message) /\ Answered(Append(ms, m), cs)
<1> DEFINE ns == Append(ms, m)
           n == Len(ms)
<1>1. /\ ns \in Seq(Message) /\ Len(ns) = n + 1 /\ n \in Nat
      /\ DOMAIN ms = 1..n /\ DOMAIN ns = 1..(n + 1)
      /\ \A i \in 1..n : ns[i] = ms[i]
      /\ ns[n + 1] = m
  BY AppendProperties, LenProperties
<1>2. Len(cs) \in Nat /\ DOMAIN cs = 1..Len(cs) BY LenProperties
<1> HIDE DEF ns
<1>3. ASSUME NEW i \in DOMAIN ns, ns[i].role = "assistant", NEW k \in DOMAIN ns[i].calls
      PROVE  IF i + k <= Len(ns)
               THEN ns[i + k].role = "tool" /\ ns[i + k].call = ns[i].calls[k]
               ELSE i + k - Len(ns) \in DOMAIN cs /\ cs[i + k - Len(ns)] = ns[i].calls[k]
  <2>1. CASE i = n + 1
    <3>0. ns[i].calls = cs BY <1>1, <1>3, <2>1
    <3>1. k \in 1..Len(cs) /\ i + k - Len(ns) = k /\ ~(i + k <= Len(ns))
      BY <1>1, <1>2, <1>3, <2>1, <3>0
    <3> QED BY <1>1, <1>2, <2>1, <3>0, <3>1
  <2>2. CASE i # n + 1
    <3>1. i \in 1..n /\ ms[i].role = "assistant" /\ ns[i].calls = ms[i].calls
      BY <1>1, <1>3, <2>2
    <3>2. ms[i].calls \in Seq(CallIds) BY <3>1, ElementOfSeq, MessageFields
    <3>3. k \in Nat \ {0} BY <1>3, <3>1, <3>2, LenProperties
    <3>4. /\ i + k <= n /\ ms[i + k].role = "tool"
          /\ ms[i + k].call = ms[i].calls[k]
      BY <1>1, <1>3, <3>1 DEF Answered
    <3>5. i + k \in 1..n /\ i + k <= Len(ns) BY <1>1, <3>1, <3>3, <3>4
    <3> QED BY <1>1, <3>1, <3>4, <3>5
  <2> QED BY <2>1, <2>2
<1>4. ASSUME NEW j \in ToolAt(ns)
      PROVE  \E i \in 1..(j - 1) : ns[i].role = "assistant" /\ j <= i + Len(ns[i].calls)
  <2>1. j \in 1..n /\ j \in ToolAt(ms)
    <3>1. j \in DOMAIN ns /\ ns[j].role = "tool" BY DEF ToolAt
    <3>2. j # n + 1 BY <1>1, <3>1
    <3> QED BY <1>1, <3>1, <3>2 DEF ToolAt
  <2>2. PICK i \in 1..(j - 1) : ms[i].role = "assistant" /\ j <= i + Len(ms[i].calls)
    BY <2>1 DEF Answered
  <2>3. i \in 1..n BY <1>1, <2>1
  <2> QED BY <1>1, <2>2, <2>3
<1>5. cs # <<>> => /\ n + 1 \in DOMAIN ns /\ ns[n + 1].role = "assistant"
                   /\ n + 1 + Len(ns[n + 1].calls) = Len(ns) + Len(cs)
  <2> SUFFICES ASSUME cs # <<>>
               PROVE  /\ n + 1 \in DOMAIN ns /\ ns[n + 1].role = "assistant"
                      /\ n + 1 + Len(ns[n + 1].calls) = Len(ns) + Len(cs)
    OBVIOUS
  <2>1. ns[n + 1].role = "assistant" /\ ns[n + 1].calls = cs BY <1>1
  <2>2. n + 1 \in DOMAIN ns BY <1>1
  <2> QED BY <1>1, <1>2, <2>1, <2>2
<1>6. Answered(ns, cs) BY <1>1, <1>3, <1>4, <1>5 DEF Answered
<1> QED BY <1>1, <1>6 DEF ns

LEMMA AppendedResult ==
    ASSUME NEW ms \in Seq(Message), NEW rest \in Seq(CallIds), rest # <<>>,
           Answered(ms, rest)
    PROVE  LET ns == Append(ms, [role |-> "tool", call |-> Head(rest), trimmed |-> FALSE])
           IN  ns \in Seq(Message) /\ Answered(ns, Tail(rest))
<1> DEFINE res == [role |-> "tool", call |-> Head(rest), trimmed |-> FALSE]
           ns == Append(ms, res)
           n == Len(ms)
           t == Tail(rest)
<1>1. /\ Head(rest) \in CallIds /\ Head(rest) = rest[1]
      /\ t \in Seq(CallIds) /\ Len(t) = Len(rest) - 1 /\ Len(rest) \in Nat \ {0}
      /\ DOMAIN rest = 1..Len(rest) /\ DOMAIN t = 1..Len(t)
      /\ \A i \in 1..Len(t) : t[i] = rest[i + 1]
  BY HeadTailProperties, LenProperties, EmptySeq
<1>2. res \in Message BY <1>1 DEF Message, CallIds
<1>3. /\ ns \in Seq(Message) /\ Len(ns) = n + 1 /\ n \in Nat
      /\ DOMAIN ms = 1..n /\ DOMAIN ns = 1..(n + 1)
      /\ \A i \in 1..n : ns[i] = ms[i]
      /\ ns[n + 1].role = "tool" /\ ns[n + 1].call = rest[1]
  BY <1>1, <1>2, AppendProperties, LenProperties
<1> HIDE DEF ns, res, t
<1>4. ASSUME NEW i \in DOMAIN ns, ns[i].role = "assistant", NEW k \in DOMAIN ns[i].calls
      PROVE  IF i + k <= Len(ns)
               THEN ns[i + k].role = "tool" /\ ns[i + k].call = ns[i].calls[k]
               ELSE i + k - Len(ns) \in DOMAIN t /\ t[i + k - Len(ns)] = ns[i].calls[k]
  <2>1. i # n + 1 BY <1>3, <1>4
  <2>2. i \in 1..n /\ ms[i].role = "assistant" /\ ns[i].calls = ms[i].calls
    BY <1>3, <1>4, <2>1
  <2>3. ms[i].calls \in Seq(CallIds) BY <2>2, ElementOfSeq, MessageFields
  <2>4. k \in Nat \ {0} BY <1>4, <2>2, <2>3, LenProperties
  <2>5. IF i + k <= n
          THEN ms[i + k].role = "tool" /\ ms[i + k].call = ms[i].calls[k]
          ELSE i + k - n \in DOMAIN rest /\ rest[i + k - n] = ms[i].calls[k]
    BY <1>3, <1>4, <2>2 DEF Answered
  <2>6. CASE i + k <= n
    <3>1. i + k \in 1..n /\ i + k <= Len(ns) BY <1>3, <2>2, <2>4, <2>6
    <3> QED BY <1>3, <2>2, <2>5, <2>6, <3>1
  <2>7. CASE i + k = n + 1
    <3>1. ~(i + k <= n) /\ i + k <= Len(ns) /\ i + k - n = 1 BY <1>3, <2>2, <2>4, <2>7
    <3>2. rest[1] = ms[i].calls[k] BY <2>5, <3>1
    <3> QED BY <1>3, <2>2, <2>7, <3>1, <3>2
  <2>8. CASE i + k > n + 1
    <3> DEFINE q == i + k - Len(ns)
    <3>0. i \in Nat /\ k \in Nat /\ n \in Nat /\ Len(ns) = n + 1 BY <1>3, <2>2, <2>4
    <3>1. /\ ~(i + k <= n) /\ ~(i + k <= Len(ns))
          /\ q \in Nat \ {0} /\ q + 1 = i + k - n
      BY <2>8, <3>0
    <3> HIDE DEF q
    <3>2. q + 1 \in 1..Len(rest) /\ rest[q + 1] = ms[i].calls[k]
      BY <1>1, <2>5, <3>1
    <3>3. q \in 1..Len(t) BY <1>1, <3>1, <3>2
    <3>4. q \in DOMAIN t /\ t[q] = ns[i].calls[k] BY <1>1, <2>2, <3>2, <3>3
    <3> QED BY <3>1, <3>4 DEF q
  <2> QED BY <1>3, <2>2, <2>4, <2>6, <2>7, <2>8
<1>5. PICK a \in DOMAIN ms : ms[a].role = "assistant" /\ a + Len(ms[a].calls) = n + Len(rest)
  BY DEF Answered
<1>6. /\ a \in 1..n /\ a \in DOMAIN ns /\ ns[a] = ms[a]
      /\ a + Len(ns[a].calls) = Len(ns) + Len(t)
      /\ n + 1 <= a + Len(ns[a].calls)
  BY <1>1, <1>3, <1>5
<1>7. ASSUME NEW j \in ToolAt(ns)
      PROVE  \E i \in 1..(j - 1) : ns[i].role = "assistant" /\ j <= i + Len(ns[i].calls)
  <2>1. j \in 1..(n + 1) /\ ns[j].role = "tool" BY <1>3 DEF ToolAt
  <2>2. CASE j = n + 1
    <3>1. a \in 1..(j - 1) BY <1>3, <1>6, <2>2
    <3> QED BY <1>5, <1>6, <2>2, <3>1
  <2>3. CASE j # n + 1
    <3>1. j \in 1..n /\ j \in ToolAt(ms) BY <1>3, <2>1, <2>3 DEF ToolAt
    <3>2. PICK i \in 1..(j - 1) : ms[i].role = "assistant" /\ j <= i + Len(ms[i].calls)
      BY <3>1 DEF Answered
    <3>3. i \in 1..n BY <1>3, <3>1
    <3> QED BY <1>3, <3>2, <3>3
  <2> QED BY <2>2, <2>3
<1>8. Answered(ns, t) BY <1>4, <1>5, <1>6, <1>7 DEF Answered
<1> QED BY <1>3, <1>8 DEF ns, res, t

\* Trimming changes neither the order nor what was called.
LEMMA SameTalk ==
    ASSUME NEW ms \in Seq(Message), NEW ns \in Seq(Message), Len(ns) = Len(ms),
           \A i \in 1..Len(ms) :
              /\ ns[i].role = ms[i].role
              /\ ms[i].role = "assistant" => ns[i].calls = ms[i].calls
              /\ ms[i].role = "tool" => ns[i].call = ms[i].call,
           Answered(ms, <<>>)
    PROVE  Answered(ns, <<>>)
<1>1. DOMAIN ms = 1..Len(ms) /\ DOMAIN ns = 1..Len(ms) /\ Len(ms) \in Nat
  BY LenProperties
<1>2. ASSUME NEW i \in DOMAIN ns, ns[i].role = "assistant", NEW k \in DOMAIN ns[i].calls
      PROVE  /\ i + k <= Len(ns) /\ ns[i + k].role = "tool"
             /\ ns[i + k].call = ns[i].calls[k]
  <2>1. i \in 1..Len(ms) /\ ms[i].role = "assistant" /\ ns[i].calls = ms[i].calls
    BY <1>1, <1>2
  <2>2. ms[i].calls \in Seq(CallIds) BY <2>1, ElementOfSeq, MessageFields
  <2>3. k \in Nat \ {0} BY <1>2, <2>1, <2>2, LenProperties
  <2>4. /\ i + k <= Len(ms) /\ ms[i + k].role = "tool"
        /\ ms[i + k].call = ms[i].calls[k]
    BY <1>1, <1>2, <2>1 DEF Answered
  <2>5. i + k \in 1..Len(ms) BY <1>1, <2>1, <2>3, <2>4
  <2> QED BY <2>1, <2>4, <2>5
<1>3. ASSUME NEW j \in ToolAt(ns)
      PROVE  \E i \in 1..(j - 1) : ns[i].role = "assistant" /\ j <= i + Len(ns[i].calls)
  <2>1. j \in 1..Len(ms) /\ j \in ToolAt(ms) BY <1>1 DEF ToolAt
  <2>2. PICK i \in 1..(j - 1) : ms[i].role = "assistant" /\ j <= i + Len(ms[i].calls)
    BY <2>1 DEF Answered
  <2>3. i \in 1..Len(ms) BY <1>1, <2>1
  <2> QED BY <2>2, <2>3
<1> QED BY <1>2, <1>3 DEF Answered

\* A set of positions that is not empty has a first one.
LEMMA FirstOf ==
    ASSUME NEW S \in SUBSET Nat, S # {}
    PROVE  \E i \in S : \A j \in S : i <= j
<1>1. PICK i \in S : \A j \in S : ~(<<j, i>> \in OpToRel(<, Nat))
  BY WFMin, NatLessThanWellFounded, Zenon
<1>2. ASSUME NEW j \in S, ~(i <= j) PROVE FALSE
  <2>1. i \in Nat /\ j \in Nat /\ j < i BY <1>2
  <2>2. <<j, i>> \in OpToRel(<, Nat) BY <2>1 DEF OpToRel
  <2> QED BY <1>1, <2>2
<1> QED BY <1>2

\* The newest result that a step of trimMessages takes is one that the request
\* would be over the budget with.
LastTaken ==
    \A j \in FullAt(messages) \ FullAt(messages') :
        (\A k \in FullAt(messages) \ FullAt(messages') : k <= j)
        => estimate' + Size[messages[j].call[1]] > Budget

\* The older results go first, and as many as it takes.
LEMMA TrimStep ==
    ASSUME messages \in Seq(Message), counted \in Nat, OldestTrimmedFirst,
           Answered(messages, <<>>), Trim(messages)
    PROVE  /\ messages' \in Seq(Message) /\ Answered(messages', <<>>)
           /\ OldestTrimmedFirst'
           /\ estimate' > Budget => FullAt(messages') = {}
           /\ LastTaken
<1> DEFINE ms == messages
           ns == messages'
           n == Len(ms)
           full == FullAt(ms)
           Older(i) == {j \in full : j < i}
           est == counted + TokensAt(ms, Latest(ms))
           out == {i \in full : OverBudget(ms, i, est)}
           saved == TokensAt(ms, out)
<1>1. /\ ns = [i \in DOMAIN ms |-> IF i \in out THEN [ms[i] EXCEPT !.trimmed = TRUE]
                                                ELSE ms[i]]
      /\ estimate' = IF saved > est THEN 0 ELSE est - saved
  BY DEF Trim
<1>2. /\ DOMAIN ms = 1..n /\ n \in Nat /\ IsFiniteSet(1..n)
      /\ full \in SUBSET (1..n) /\ out \in SUBSET full /\ Latest(ms) \in SUBSET (1..n)
  <2>1. DOMAIN ms = 1..n /\ n \in Nat BY LenProperties
  <2>2. IsFiniteSet(1..n) BY <2>1, FS_Interval
  <2> QED BY <2>1, <2>2 DEF FullAt, ToolAt, Latest
<1>3. \A i \in 1..n : ms[i] \in Message /\ Tokens(ms[i]) \in Nat
  BY ElementOfSeq, MessageFields
<1>4. \A S \in SUBSET (1..n) : IsFiniteSet(S) /\ TokensAt(ms, S) \in Nat
  <2> SUFFICES ASSUME NEW S \in SUBSET (1..n)
               PROVE  IsFiniteSet(S) /\ TokensAt(ms, S) \in Nat
    OBVIOUS
  <2>1. IsFiniteSet(S) BY <1>2, FS_Subset
  <2> QED BY <1>3, <2>1, TokensAtType
<1>5. est \in Nat /\ saved \in Nat BY <1>2, <1>4
<1>6. \A i \in full : i \in out <=> est > Budget + TokensAt(ms, Older(i))
  BY DEF OverBudget
<1> HIDE DEF full, est, out, saved
<1>7. ASSUME NEW i \in 1..n
      PROVE  /\ ns[i] \in Message /\ ns[i].role = ms[i].role
             /\ ms[i].role = "assistant" => ns[i].calls = ms[i].calls
             /\ ms[i].role = "tool" =>
                   /\ ns[i].call = ms[i].call
                   /\ ns[i].trimmed = (ms[i].trimmed \/ i \in out)
             /\ i \in full <=> ms[i].role = "tool" /\ ~ms[i].trimmed
  <2>1. i \in full <=> ms[i].role = "tool" /\ ~ms[i].trimmed
    BY <1>2 DEF full, FullAt, ToolAt
  <2>2. CASE i \in out
    <3>1. ms[i].role = "tool" BY <1>2, <2>1, <2>2
    <3>2. ms[i] \in [role : {"tool"}, call : Calls \X Nat, trimmed : BOOLEAN]
      BY <1>3, <3>1 DEF Message
    <3>3. ns[i] = [ms[i] EXCEPT !.trimmed = TRUE] BY <1>1, <1>2, <2>2
    <3>4. /\ ns[i] \in [role : {"tool"}, call : Calls \X Nat, trimmed : BOOLEAN]
          /\ ns[i].call = ms[i].call /\ ns[i].trimmed = TRUE /\ ns[i].role = "tool"
      BY <3>2, <3>3
    <3> QED BY <2>1, <2>2, <3>1, <3>4 DEF Message
  <2>3. CASE i \notin out
    <3>1. ns[i] = ms[i] BY <1>1, <1>2, <2>3
    <3>2. ms[i].role = "tool" => ms[i].trimmed \in BOOLEAN BY <1>3, MessageFields
    <3> QED BY <1>3, <2>1, <2>3, <3>1, <3>2
  <2> QED BY <2>2, <2>3
<1>8. ns \in Seq(Message) /\ Len(ns) = n /\ DOMAIN ns = 1..n
  <2> DEFINE new(i) == IF i \in out THEN [ms[i] EXCEPT !.trimmed = TRUE] ELSE ms[i]
  <2>1. ns = [i \in 1..n |-> new(i)] BY <1>1, <1>2
  <2> HIDE DEF new
  <2>2. ns \in [1..n -> Message] BY <1>7, <2>1
  <2> QED BY <1>2, <2>2
<1>9. Answered(ns, <<>>) BY <1>7, <1>8, SameTalk
<1>10. OldestTrimmedFirst'
  <2> SUFFICES ASSUME NEW i \in ToolAt(ns), NEW j \in ToolAt(ns), i < j, ns[j].trimmed
               PROVE  ns[i].trimmed
    BY DEF OldestTrimmedFirst
  <2>1. /\ i \in 1..n /\ j \in 1..n /\ ms[i].role = "tool" /\ ms[j].role = "tool"
        /\ i \in ToolAt(ms) /\ j \in ToolAt(ms)
    BY <1>2, <1>7, <1>8 DEF ToolAt
  <2>2. CASE ms[j].trimmed BY <1>7, <2>1, <2>2 DEF OldestTrimmedFirst
  <2>3. CASE j \in out /\ i \in full
    <3>1. est > Budget + TokensAt(ms, Older(j)) /\ j \in full BY <1>2, <1>6, <2>3
    <3>2. Older(i) \in SUBSET Older(j) /\ Older(j) \in SUBSET (1..n)
      <4>1. ASSUME NEW k \in full, k < i PROVE k < j
        <5>1. k \in Int /\ i \in Int /\ j \in Int BY <1>2, <2>1
        <5> QED BY <4>1, <5>1
      <4> QED BY <1>2, <4>1
    <3>3. TokensAt(ms, Older(i)) <= TokensAt(ms, Older(j))
      BY <1>3, <1>4, <3>2, TokensAtMonotonic
    <3>4. TokensAt(ms, Older(i)) \in Nat /\ TokensAt(ms, Older(j)) \in Nat
      BY <1>4, <3>2
    <3>5. est > Budget + TokensAt(ms, Older(i))
      BY <1>5, <3>1, <3>3, <3>4, InvestigationConstants
    <3> QED BY <1>6, <1>7, <2>1, <2>3, <3>5
  <2> QED BY <1>3, <1>7, <2>1, <2>2, <2>3
<1>11. ASSUME estimate' > Budget PROVE FullAt(messages') = {}
  <2>1. FullAt(messages') \subseteq full \ out
    BY <1>2, <1>7, <1>8 DEF FullAt, ToolAt
  <2>2. CASE full \ out # {}
    <3>1. PICK i \in full \ out : \A j \in full \ out : i <= j
      <4>1. full \ out \in SUBSET Nat BY <1>2
      <4> QED BY <2>2, <4>1, FirstOf
    <3>2. Older(i) \in SUBSET out /\ out \in SUBSET (1..n)
      <4>1. ASSUME NEW k \in full, k < i PROVE k \in out
        <5>1. k \in Int /\ i \in Int BY <1>2, <3>1
        <5>2. ~(i <= k) BY <4>1, <5>1
        <5> QED BY <3>1, <5>2
      <4> QED BY <1>2, <4>1
    <3>3. TokensAt(ms, Older(i)) <= saved
      BY <1>3, <1>4, <3>2, TokensAtMonotonic DEF saved
    <3>4. ~(est > Budget + TokensAt(ms, Older(i))) BY <1>6, <3>1
    <3>5. TokensAt(ms, Older(i)) \in Nat BY <1>4, <3>2
    <3>6. est <= Budget + saved
      BY <1>5, <3>3, <3>4, <3>5, InvestigationConstants
    <3> QED BY <1>1, <1>5, <1>11, <3>6, InvestigationConstants
  <2> QED BY <2>1, <2>2
<1>12. FullAt(ms) \ FullAt(ns) = out
  BY <1>2, <1>7, <1>8 DEF full, FullAt, ToolAt
<1>13. ASSUME NEW j \in out, \A k \in out : k <= j
       PROVE  estimate' + Size[ms[j].call[1]] > Budget
  <2>1. /\ j \in 1..n /\ ms[j].role = "tool" /\ ~ms[j].trimmed
        /\ est > Budget + TokensAt(ms, Older(j))
    BY <1>2, <1>6, <1>7
  <2>2. Tokens(ms[j]) = Size[ms[j].call[1]] /\ Tokens(ms[j]) \in Nat
    BY <1>3, <2>1 DEF Tokens
  <2>3. out \ {j} \in SUBSET Older(j) /\ Older(j) \in SUBSET (1..n) /\ out \in SUBSET (1..n)
    <3>1. ASSUME NEW k \in out \ {j} PROVE k < j
      <4>1. k \in Int /\ j \in Int /\ k <= j /\ k # j BY <1>2, <1>13, <2>1, <3>1
      <4> QED BY <4>1
    <3> QED BY <1>2, <3>1
  <2>4. saved <= Tokens(ms[j]) + TokensAt(ms, Older(j))
    <3>1. \A y \in Older(j) \union out : Tokens(ms[y]) \in Nat BY <1>3, <2>3
    <3>2. IsFiniteSet(out) /\ IsFiniteSet(Older(j)) BY <1>4, <2>3
    <3> QED BY <2>3, <3>1, <3>2, TokensAtNewest DEF saved
  <2>5. TokensAt(ms, Older(j)) \in Nat BY <1>4, <2>3
  <2>6. est - saved + Tokens(ms[j]) > Budget
    <3> DEFINE older == TokensAt(ms, Older(j))
               own == Tokens(ms[j])
    <3>1. /\ est \in Nat /\ saved \in Nat /\ own \in Nat /\ older \in Nat /\ Budget \in Nat
          /\ est > Budget + older /\ saved <= own + older
      BY <1>5, <2>1, <2>2, <2>4, <2>5, InvestigationConstants
    <3> HIDE DEF older, own
    <3>2. est - saved + own > Budget BY <3>1
    <3> QED BY <3>2 DEF own
  <2> QED BY <1>1, <1>5, <2>2, <2>6, InvestigationConstants
<1>14. LastTaken BY <1>12, <1>13 DEF LastTaken
<1> QED BY <1>8, <1>9, <1>10, <1>11, <1>14

----------------------------------------------------------------------------
(* The steps.                                                              *)

\* A message at the end that is no trimmed result leaves the order.
LEMMA OrderKept ==
    ASSUME NEW m \in Message, messages \in Seq(Message), OldestTrimmedFirst,
           messages' = Append(messages, m), m.role = "tool" => ~m.trimmed
    PROVE  OldestTrimmedFirst'
<1> DEFINE n == Len(messages)
<1>1. /\ n \in Nat /\ DOMAIN messages = 1..n /\ DOMAIN messages' = 1..(n + 1)
      /\ \A i \in 1..n : messages'[i] = messages[i]
      /\ messages'[n + 1] = m
  BY AppendProperties, LenProperties
<1> HIDE DEF n
<1>2. ASSUME NEW i \in ToolAt(messages'), NEW j \in ToolAt(messages'),
             i < j, messages'[j].trimmed
      PROVE  messages'[i].trimmed
  <2>1. j # n + 1 BY <1>1, <1>2 DEF ToolAt
  <2>2. j \in 1..n /\ i \in 1..n BY <1>1, <1>2, <2>1 DEF ToolAt
  <2>3. i \in ToolAt(messages) /\ j \in ToolAt(messages)
    BY <1>1, <1>2, <2>2 DEF ToolAt
  <2> QED BY <1>1, <1>2, <2>2, <2>3 DEF OldestTrimmedFirst
<1> QED BY <1>2 DEF OldestTrimmedFirst

\* The conversation of a run that is over, or not begun, is in order.
LEMMA NoTalk ==
    /\ <<>> \in Seq(Message) /\ Answered(<<>>, <<>>)
    /\ messages = <<>> => OldestTrimmedFirst
<1>1. DOMAIN <<>> = {} OBVIOUS
<1> QED BY <1>1 DEF Answered, ToolAt, OldestTrimmedFirst

LEMMA InitTalkInv == Init => TalkInv
<1> SUFFICES ASSUME Init PROVE TalkInv
  OBVIOUS
<1> DEFINE user == [role |-> "user"]
<1>1. user \in Message /\ user.role = "user" BY DEF Message
<1>2. messages = <<user>> /\ Open = <<>> BY DEF Init, Open
<1> HIDE DEF user
<1>3. messages = Append(<<>>, user) BY <1>2
<1>4. messages \in Seq(Message) /\ Answered(messages, <<>>)
  <2>1. <<>> \in Seq(CallIds) OBVIOUS
  <2> QED BY <1>1, <1>3, <2>1, NoTalk, AppendedMessage
<1>5. OldestTrimmedFirst
  <2>1. ToolAt(messages) = {} BY <1>1, <1>2 DEF ToolAt
  <2> QED BY <2>1 DEF OldestTrimmedFirst
<1>6. TalkTypes
  <2>1. /\ counted = 0 /\ iteration = 0 /\ pc = "start" /\ panels = {} /\ seen = {} /\ sent = {}
        /\ expired = FALSE /\ detached = FALSE /\ late = FALSE /\ broken = FALSE
        /\ result = "none"
    BY DEF Init
  <2>2. 0 \in 0..MaxIterations BY InvestigationConstants
  <2> QED BY <1>4, <2>1, <2>2 DEF TalkTypes
<1>7. FitsOrBare BY DEF FitsOrBare, Init
<1> QED BY <1>2, <1>4, <1>5, <1>6, <1>7 DEF TalkInv, OldestAndFits

\* The parts of a step that are neither the conversation nor the open calls.
RestTypes ==
    /\ expired \in BOOLEAN /\ detached \in BOOLEAN /\ late \in BOOLEAN /\ broken \in BOOLEAN
    /\ panels \in SUBSET Panels /\ seen \in SUBSET Images /\ sent \in SUBSET Deliveries
    /\ result \in {"none", "report", "error"}

\* A step that leaves the conversation, or ends it.
LEMMA SameMessages ==
    ASSUME TalkInv, Open = <<>>, pc' # "calls", pc' # "asked",
           messages' \in {messages, <<>>}, counted' \in {counted, 0},
           iteration' \in {iteration, 0}, RestTypes'
    PROVE  TalkInv'
<1>1. Open' = <<>> BY DEF Open
<1>2. /\ messages \in Seq(Message) /\ Answered(messages, <<>>) /\ OldestTrimmedFirst
      /\ counted \in Nat /\ iteration \in 0..MaxIterations
  BY DEF TalkInv, TalkTypes, OldestAndFits
<1>3. messages' \in Seq(Message) /\ Answered(messages', <<>>)
  BY <1>2, NoTalk, Zenon
<1>4. OldestTrimmedFirst'
  <2>1. CASE messages' = messages BY <1>2, <2>1 DEF OldestTrimmedFirst
  <2>2. CASE messages' = <<>>
    <3>1. DOMAIN messages' = {} BY <2>2
    <3> QED BY <3>1 DEF OldestTrimmedFirst, ToolAt
  <2> QED BY <2>1, <2>2
<1>5. TalkTypes' BY <1>2, <1>3, InvestigationConstants DEF TalkTypes, RestTypes
<1>6. FitsOrBare' BY DEF FitsOrBare
<1> QED BY <1>1, <1>3, <1>4, <1>5, <1>6 DEF TalkInv, OldestAndFits

\* A step that adds the request for the final report.
LEMMA LastRequest ==
    ASSUME TalkInv, Open = <<>>, pc' # "calls", pc' # "asked",
           messages' = Append(messages, [role |-> "user"]),
           UNCHANGED <<counted, iteration>>, RestTypes'
    PROVE  TalkInv'
<1> DEFINE user == [role |-> "user"]
<1>1. user \in Message /\ user.role = "user" /\ <<>> \in Seq(CallIds) BY DEF Message
<1> HIDE DEF user
<1>2. messages' = Append(messages, user) BY DEF user
<1>3. Open' = <<>> BY DEF Open
<1>4. messages \in Seq(Message) /\ Answered(messages, <<>>) /\ OldestTrimmedFirst
  BY DEF TalkInv, TalkTypes, OldestAndFits
<1>5. messages' \in Seq(Message) /\ Answered(messages', <<>>)
  BY <1>1, <1>2, <1>4, AppendedMessage
<1>6. OldestTrimmedFirst' BY <1>1, <1>2, <1>4, OrderKept
<1>7. TalkTypes' BY <1>5 DEF TalkInv, TalkTypes, RestTypes
<1>8. FitsOrBare' BY DEF FitsOrBare
<1> QED BY <1>3, <1>5, <1>6, <1>7, <1>8 DEF TalkInv, OldestAndFits

LEMMA AskStep ==
    ASSUME TalkInv, Ask
    PROVE  TalkInv'
<1>1. /\ pc = "loop" /\ pc' = "asked" /\ iteration < MaxIterations
      /\ UNCHANGED <<expired, detached, late, iteration, counted, tools, result, sent, broken>>
      /\ IF Budget > 0 /\ counted > 0
           THEN Trim(messages) ELSE UNCHANGED <<messages, estimate>>
  BY DEF Ask
<1>2. Open = <<>> /\ Open' = <<>> BY <1>1 DEF Open
<1>3. /\ messages \in Seq(Message) /\ Answered(messages, <<>>) /\ OldestTrimmedFirst
      /\ counted \in Nat
  BY <1>2 DEF TalkInv, TalkTypes, OldestAndFits
<1>4. /\ messages' \in Seq(Message) /\ Answered(messages', <<>>)
      /\ OldestTrimmedFirst' /\ FitsOrBare'
  <2>1. CASE Budget > 0 /\ counted > 0
    BY <1>1, <1>3, <2>1, TrimStep DEF FitsOrBare
  <2>2. CASE ~(Budget > 0 /\ counted > 0)
    BY <1>1, <1>3, <2>2 DEF FitsOrBare, OldestTrimmedFirst
  <2> QED BY <2>1, <2>2
<1>5. TalkTypes' BY <1>1, <1>4 DEF TalkInv, TalkTypes, tools, executor
<1> QED BY <1>2, <1>4, <1>5 DEF TalkInv, OldestAndFits

\* Of the calls asked for, as many as allowed are kept, and at least one.
LEMMA KeptCalls ==
    ASSUME iteration \in Nat, NEW cs \in AskedFor
    PROVE  /\ Kept(WithIds(cs)) \in Seq(CallIds)
           /\ Kept(WithIds(cs)) # <<>> /\ Len(Kept(WithIds(cs))) <= MaxToolCalls
<1> DEFINE ids == WithIds(cs)
           top == IF Len(ids) > MaxToolCalls THEN MaxToolCalls ELSE Len(ids)
           kept == SubSeq(ids, 1, top)
<1>1. PICK n \in 1..(MaxToolCalls + 1) : cs \in [1..n -> Calls] BY DEF AskedFor
<1>2. MaxToolCalls \in Nat \ {0} BY InvestigationConstants
<1>3. n \in Nat /\ n >= 1 BY <1>1, <1>2
<1>4. ids = [i \in 1..n |-> <<cs[i], iteration * (MaxToolCalls + 1) + i>>]
  BY <1>1 DEF WithIds
<1>5. \A i \in 1..n : <<cs[i], iteration * (MaxToolCalls + 1) + i>> \in CallIds
  BY <1>1, <1>2, <1>3 DEF CallIds
<1>6. ids \in Seq(CallIds) /\ Len(ids) = n BY <1>3, <1>4, <1>5
<1> HIDE DEF ids
<1>7. top \in 1..n /\ top <= MaxToolCalls BY <1>2, <1>3, <1>6
<1> HIDE DEF top
<1>8. kept \in Seq(CallIds) /\ Len(kept) = top
  BY <1>3, <1>6, <1>7, SubSeqProperties
<1> HIDE DEF kept
<1>9. kept # <<>> /\ Len(kept) <= MaxToolCalls BY <1>3, <1>7, <1>8, EmptySeq
<1> QED BY <1>8, <1>9 DEF Kept, kept, top, ids

LEMMA CallToolsStep ==
    ASSUME TalkInv, CallTools
    PROVE  TalkInv'
<1>1. /\ pc = "asked" /\ pc' = "calls"
      /\ counted' \in {0, TokensAt(messages, DOMAIN messages)}
      /\ UNCHANGED <<expired, detached, late, iteration, tools, result, sent, broken>>
  BY DEF CallTools
<1>2. PICK cs \in AskedFor :
        /\ messages' = Append(messages,
                [role |-> "assistant", calls |-> Recorded(WithIds(cs))])
        /\ todo' = Kept(WithIds(cs))
  BY DEF CallTools
<1>3. /\ messages \in Seq(Message) /\ Answered(messages, <<>>) /\ OldestTrimmedFirst
      /\ iteration \in 0..MaxIterations /\ iteration < MaxIterations
  BY <1>1 DEF TalkInv, TalkTypes, OldestAndFits, Open
<1>4. iteration \in Nat BY <1>3, InvestigationConstants
<1>5. todo' \in Seq(CallIds) /\ todo' # <<>> /\ Len(todo') <= MaxToolCalls
  BY <1>2, <1>4, KeptCalls
<1> DEFINE turn == [role |-> "assistant", calls |-> todo']
<1>6. turn \in Message /\ turn.role = "assistant" /\ turn.calls = todo'
  BY <1>5 DEF Message, CallIds
<1>7. messages' = Append(messages, turn) BY <1>2 DEF Recorded
<1> HIDE DEF turn
<1>8. messages' \in Seq(Message) /\ Answered(messages', todo')
  BY <1>3, <1>5, <1>6, <1>7, AppendedMessage
<1>9. OldestTrimmedFirst' BY <1>3, <1>6, <1>7, OrderKept
<1>10. counted' \in Nat
  <2>1. DOMAIN messages = 1..Len(messages) /\ Len(messages) \in Nat
    BY <1>3, LenProperties
  <2>2. IsFiniteSet(DOMAIN messages) BY <2>1, FS_Interval
  <2>3. \A i \in DOMAIN messages : Tokens(messages[i]) \in Nat
    BY <1>3, <2>1, ElementOfSeq, MessageFields
  <2> QED BY <1>1, <2>2, <2>3, TokensAtType
<1>11. TalkTypes' BY <1>1, <1>5, <1>8, <1>10 DEF TalkInv, TalkTypes, tools, executor
<1>12. Open' = todo' /\ FitsOrBare' BY <1>1 DEF Open, FitsOrBare
<1> QED BY <1>8, <1>9, <1>11, <1>12 DEF TalkInv, OldestAndFits

LEMMA CallTalkStep ==
    ASSUME TalkInv, Call
    PROVE  TalkInv'
<1>1. /\ pc = "calls" /\ todo' = Tail(todo)
      /\ messages' = Append(messages,
             [role |-> "tool", call |-> Head(todo), trimmed |-> FALSE])
      /\ IF Len(todo) > 1 THEN UNCHANGED <<pc, iteration>>
                          ELSE pc' = "loop" /\ iteration' = iteration + 1
      /\ UNCHANGED <<expired, detached, late, counted, result, sent, broken>>
  BY DEF Call
<1>2. /\ messages \in Seq(Message) /\ Answered(messages, todo) /\ OldestTrimmedFirst
      /\ iteration \in 0..MaxIterations /\ iteration < MaxIterations
      /\ todo \in Seq(CallIds) /\ todo # <<>> /\ Len(todo) <= MaxToolCalls
      /\ panels \in SUBSET Panels /\ seen \in SUBSET Images
  BY <1>1 DEF TalkInv, TalkTypes, OldestAndFits, Open
<1>3. MaxIterations \in Nat /\ MaxToolCalls \in Nat BY InvestigationConstants
<1>4. /\ Head(todo) \in CallIds /\ todo' \in Seq(CallIds)
      /\ Len(todo') = Len(todo) - 1 /\ Len(todo) \in Nat \ {0}
  BY <1>1, <1>2, HeadTailProperties, LenProperties, EmptySeq
<1> DEFINE res == [role |-> "tool", call |-> Head(todo), trimmed |-> FALSE]
<1>5. messages' \in Seq(Message) /\ Answered(messages', todo')
  BY <1>1, <1>2, AppendedResult
<1>6. res \in Message /\ ~res.trimmed BY <1>4 DEF Message, CallIds
<1>7. messages' = Append(messages, res) BY <1>1
<1> HIDE DEF res
<1>8. OldestTrimmedFirst' BY <1>2, <1>6, <1>7, OrderKept
<1>9. Open' = todo'
  <2>1. CASE Len(todo) > 1 BY <1>1, <2>1 DEF Open
  <2>2. CASE ~(Len(todo) > 1)
    <3>1. Len(todo') = 0 BY <1>4, <2>2
    <3>2. todo' = <<>> BY <1>4, <3>1, EmptySeq
    <3> QED BY <1>1, <2>2, <3>2 DEF Open
  <2> QED BY <2>1, <2>2
<1>10. panels' \in SUBSET Panels /\ seen' \in SUBSET Images
  <2> DEFINE c == Head(todo)[1]
  <2>1. Reused(c) \/ NoPicture(c) \/ Picture(c) BY DEF Call
  <2> HIDE DEF c
  <2>2. CASE UNCHANGED tools BY <1>2, <2>2 DEF tools, executor
  <2>3. CASE Picture(c) BY <1>2, <2>3 DEF Picture, Keep, See
  <2> QED BY <2>1, <2>2, <2>3 DEF Reused, NoPicture
<1>11. iteration' \in 0..MaxIterations /\ (pc' = "calls" => iteration' < MaxIterations)
  BY <1>1, <1>2, <1>3
<1>12. pc' = "calls" => todo' # <<>> /\ Len(todo') <= MaxToolCalls
  <2>1. ASSUME pc' = "calls" PROVE Len(todo) > 1 BY <1>1, <2>1
  <2>2. Len(todo) > 1 => Len(todo') > 0 /\ Len(todo') <= MaxToolCalls
    BY <1>2, <1>3, <1>4
  <2> QED BY <1>4, <2>1, <2>2, EmptySeq
<1>13. pc' # "asked" BY <1>1
<1>14. TalkTypes'
  BY <1>1, <1>4, <1>5, <1>10, <1>11, <1>12, <1>13 DEF TalkInv, TalkTypes
<1>15. FitsOrBare' BY <1>13 DEF FitsOrBare
<1> QED BY <1>5, <1>8, <1>9, <1>14, <1>15 DEF TalkInv, OldestAndFits

\* The steps of the handler, and those that only lead to a request.
LEMMA OtherStep ==
    ASSUME TalkInv, OnceInv,
           Start \/ WrapUpNow \/ AskFails \/ Report \/ WrapUp \/ Summarize
           \/ Notify \/ Send
    PROVE  TalkInv'
<1> USE DEF Fails, Return, tools, loop, executor
<1>1. RestTypes /\ {} \in SUBSET Panels /\ {} \in SUBSET Images
  BY DEF TalkInv, TalkTypes, RestTypes
<1>2. CASE Start \/ Report \/ WrapUp \/ Summarize \/ Notify
  <2>1. Open = <<>> /\ pc' # "calls" /\ pc' # "asked"
    BY <1>2 DEF Open, Start, Report, WrapUp, Summarize, Notify
  <2>2. /\ messages' \in {messages, <<>>} /\ counted' \in {counted, 0}
        /\ iteration' \in {iteration, 0}
    BY <1>2 DEF Start, Report, WrapUp, Summarize, Notify
  <2>3. RestTypes'
    <3>1. expired' = expired /\ sent' = sent /\ panels' \in {panels, {}} /\ seen' \in {seen, {}}
      BY <1>2 DEF Start, Report, WrapUp, Summarize, Notify
    <3>2. detached' = detached /\ late' \in BOOLEAN
      BY <1>1, <1>2 DEF RestTypes, Start, Report, WrapUp, Summarize, Notify
    <3>3. broken' \in BOOLEAN /\ result' \in {"none", "report", "error"}
      BY <1>1, <1>2 DEF RestTypes, Start, Report, WrapUp, Summarize, Notify
    <3> QED BY <1>1, <3>1, <3>2, <3>3 DEF RestTypes
  <2> QED BY <2>1, <2>2, <2>3, SameMessages
<1>3. CASE WrapUpNow
  <2>1. Open = <<>> /\ pc' # "calls" /\ pc' # "asked" BY <1>3 DEF Open, WrapUpNow
  <2>2. RestTypes' BY <1>1, <1>3 DEF RestTypes, WrapUpNow
  <2> QED BY <1>3, <2>1, <2>2, LastRequest DEF WrapUpNow
<1>4. CASE AskFails
  <2>1. Open = <<>> /\ pc' # "calls" /\ pc' # "asked" BY <1>4 DEF Open, AskFails
  <2>2. RestTypes' BY <1>1, <1>4 DEF RestTypes, AskFails
  <2>3. CASE messages' = Append(messages, [role |-> "user"])
             /\ UNCHANGED <<iteration, counted>>
    BY <2>1, <2>2, <2>3, LastRequest
  <2>4. CASE messages' = <<>> /\ iteration' = 0 /\ counted' = 0
    BY <2>1, <2>2, <2>4, SameMessages
  <2> QED BY <1>4, <2>3, <2>4 DEF AskFails
<1>5. CASE Send
  <2>1. Open = <<>> /\ pc' # "calls" /\ pc' # "asked" BY <1>5 DEF Open, Send
  <2>2. UNCHANGED <<messages, counted, iteration>> BY <1>5 DEF Send
  <2>3. Head(todo) \in Deliveries
    <3>1. todo \in Seq(Deliveries) /\ todo # <<>> BY <1>5 DEF OnceInv, OutcomeInv, Send
    <3> QED BY <3>1, HeadTailProperties
  <2>4. RestTypes' BY <1>1, <1>5, <2>3 DEF RestTypes, Send
  <2> QED BY <2>1, <2>2, <2>4, SameMessages
<1> QED BY <1>2, <1>3, <1>4, <1>5

LEMMA NextTalkInv == TalkInv /\ OnceInv /\ [Next]_vars => TalkInv'
<1> SUFFICES ASSUME TalkInv, OnceInv, [Next]_vars PROVE TalkInv'
  OBVIOUS
<1>1. CASE Expire \/ Finished \/ UNCHANGED vars
  <2>1. /\ UNCHANGED <<pc, detached, late, loop, tools, todo, result, sent, broken>>
        /\ expired' \in BOOLEAN
    BY <1>1 DEF Expire, Finished, vars, TalkInv, TalkTypes
  <2>2. TalkTypes' BY <2>1 DEF TalkInv, TalkTypes, loop, tools, executor
  <2>3. Answered(messages', Open') BY <2>1 DEF TalkInv, Open, loop
  <2>4. OldestAndFits'
    BY <2>1 DEF TalkInv, OldestAndFits, OldestTrimmedFirst, FitsOrBare, loop
  <2> QED BY <2>2, <2>3, <2>4 DEF TalkInv
<1>2. CASE Ask BY <1>2, AskStep
<1>3. CASE CallTools BY <1>3, CallToolsStep
<1>4. CASE Call BY <1>4, CallTalkStep
<1>5. CASE Start \/ WrapUpNow \/ AskFails \/ Report \/ WrapUp \/ Summarize
           \/ Notify \/ Send
  BY <1>5, OtherStep
<1> QED BY <1>1, <1>2, <1>3, <1>4, <1>5 DEF Next, Step

LEMMA TalkInvHolds == Spec => [](OnceInv /\ TalkInv)
<1> QED BY InitOnceInv, NextOnceInv, InitTalkInv, NextTalkInv, PTL DEF Spec

----------------------------------------------------------------------------
(* The results of the last turn: untouched until the next request.         *)

Fresh == \A j \in ToolAt(messages) \intersect Latest(messages) : ~messages[j].trimmed
LastInv == (pc \in {"start", "calls", "loop"} => Fresh) /\ LastGroupOnlyIfNeeded

\* What Latest is: the positions after every turn, when there is one.
LEMMA LatestIs ==
    ASSUME NEW ms \in Seq(Message), NEW i \in DOMAIN ms
    PROVE  i \in Latest(ms) <=>
              /\ \E a \in DOMAIN ms : ms[a].role = "assistant"
              /\ \A a \in DOMAIN ms : ms[a].role = "assistant" => a < i
<1> DEFINE turns == {a \in DOMAIN ms : ms[a].role = "assistant"}
           n == Len(ms)
           back == {k \in 0..n : n - k \in turns}
<1>1. DOMAIN ms = 1..n /\ n \in Nat BY LenProperties
<1>2. CASE turns = {} BY <1>2 DEF Latest
<1>3. CASE turns # {}
  <2>1. PICK t \in turns : TRUE BY <1>3
  <2>2. t \in 1..n BY <1>1
  <2> HIDE DEF n
  <2>3. n - t \in 0..n /\ n - (n - t) = t BY <1>1, <2>2
  <2>4. n - t \in back BY <2>1, <2>3
  <2>5. back \in SUBSET Nat /\ back # {} BY <1>1, <2>4
  <2>6. PICK k \in back : \A l \in back : k <= l BY <2>5, FirstOf
  <2>7. /\ n - k \in turns /\ \A a \in turns : n - k >= a
    <3>1. k \in 0..n /\ n - k \in turns BY <2>6
    <3>2. ASSUME NEW a \in turns PROVE n - k >= a
      <4>1. a \in 1..n BY <1>1
      <4>2. n - a \in 0..n /\ n - (n - a) = a BY <1>1, <4>1
      <4>3. n - a \in back BY <4>2
      <4>4. k <= n - a BY <2>6, <4>3
      <4> QED BY <1>1, <3>1, <4>1, <4>4
    <3> QED BY <3>1, <3>2
  <2>8. turns \subseteq Nat BY <1>1
  <2> HIDE DEF turns, back
  <2>9. Max(turns) \in turns /\ \A a \in turns : Max(turns) >= a
    BY <2>7 DEF Max
  <2>10. i \in Nat BY <1>1
  <2>11. i > Max(turns) <=> \A a \in turns : a < i
    <3> DEFINE top == Max(turns)
    <3>1. top \in turns /\ \A a \in turns : top >= a BY <2>9
    <3> HIDE DEF top
    <3>2. i > top <=> \A a \in turns : a < i BY <2>8, <2>10, <3>1
    <3> QED BY <3>2 DEF top
  <2>12. i \in Latest(ms) <=> i > Max(turns) BY <1>3 DEF Latest, turns
  <2> QED BY <1>3, <2>11, <2>12 DEF turns
<1> QED BY <1>2, <1>3

LEMMA InitLastInv == Init => LastInv
<1> SUFFICES ASSUME Init PROVE LastInv
  OBVIOUS
<1>1. pc = "start" /\ messages = <<[role |-> "user"]>> BY DEF Init
<1>2. ToolAt(messages) = {} BY <1>1 DEF ToolAt
<1> QED BY <1>1, <1>2 DEF LastInv, Fresh, LastGroupOnlyIfNeeded

\* A message behind the others that is no trimmed result.
LEMMA FreshAppended ==
    ASSUME messages \in Seq(Message), NEW m \in Message,
           messages' = Append(messages, m), m.role = "tool" => ~m.trimmed,
           m.role # "assistant" => Fresh
    PROVE  Fresh'
<1> DEFINE n == Len(messages)
<1>1. /\ n \in Nat /\ DOMAIN messages = 1..n /\ DOMAIN messages' = 1..(n + 1)
      /\ \A i \in 1..n : messages'[i] = messages[i]
      /\ messages'[n + 1] = m /\ messages' \in Seq(Message)
  BY AppendProperties, LenProperties
<1> HIDE DEF n
<1> SUFFICES ASSUME NEW j \in ToolAt(messages'), j \in Latest(messages'), j # n + 1
             PROVE  ~messages'[j].trimmed
  BY <1>1 DEF Fresh, ToolAt
<1>2. j \in 1..n /\ j \in DOMAIN messages' /\ n + 1 \in DOMAIN messages' BY <1>1 DEF ToolAt
<1>3. \A a \in DOMAIN messages' : messages'[a].role = "assistant" => a < j
  BY <1>1, <1>2, LatestIs
<1>4. PICK b \in DOMAIN messages' : messages'[b].role = "assistant"
  BY <1>1, <1>2, LatestIs
<1>5. m.role # "assistant" BY <1>1, <1>2, <1>3
<1>6. b \in 1..n /\ messages[b].role = "assistant" BY <1>1, <1>4, <1>5
<1>7. j \in Latest(messages)
  <2>1. \A a \in DOMAIN messages : messages[a].role = "assistant" => a < j
    BY <1>1, <1>3
  <2> QED BY <1>1, <1>2, <1>6, <2>1, LatestIs
<1>8. j \in ToolAt(messages) BY <1>1, <1>2 DEF ToolAt
<1> QED BY <1>1, <1>2, <1>5, <1>7, <1>8 DEF Fresh

LEMMA AskLastInv ==
    ASSUME TalkInv, LastInv, Ask, TalkInv'
    PROVE  LastInv'
<1>1. /\ pc = "loop" /\ pc' = "asked" /\ Fresh
      /\ IF Budget > 0 /\ counted > 0
           THEN Trim(messages) ELSE UNCHANGED <<messages, estimate>>
  BY DEF Ask, LastInv
<1>2. /\ messages \in Seq(Message) /\ Answered(messages, <<>>) /\ OldestTrimmedFirst
      /\ counted \in Nat /\ messages' \in Seq(Message)
  BY <1>1 DEF TalkInv, TalkTypes, OldestAndFits, Open
<1>3. CASE Budget > 0 /\ counted > 0
  <2>1. Trim(messages) /\ LastTaken BY <1>1, <1>2, <1>3, TrimStep
  <2> DEFINE out == {i \in FullAt(messages) :
                        OverBudget(messages, i, counted + TokensAt(messages, Latest(messages)))}
  <2>2. messages' = [i \in DOMAIN messages |->
                        IF i \in out THEN [messages[i] EXCEPT !.trimmed = TRUE]
                                     ELSE messages[i]]
    BY <2>1 DEF Trim
  <2> HIDE DEF out
  <2>3. DOMAIN messages' = DOMAIN messages BY <2>2
  <2>4. \A i \in DOMAIN messages :
          /\ messages[i] \in Message
          /\ messages'[i].role = messages[i].role
          /\ messages[i].role = "tool" => messages'[i].call = messages[i].call
    <3> SUFFICES ASSUME NEW i \in DOMAIN messages
                 PROVE  /\ messages[i] \in Message
                        /\ messages'[i].role = messages[i].role
                        /\ messages[i].role = "tool" => messages'[i].call = messages[i].call
      OBVIOUS
    <3>1. messages[i] \in Message BY <1>2, LenProperties, ElementOfSeq
    <3>2. CASE messages[i].role = "tool"
      <4>1. messages[i] \in [role : {"tool"}, call : Calls \X Nat, trimmed : BOOLEAN]
        BY <3>1, <3>2 DEF Message
      <4> QED BY <2>2, <3>1, <4>1
    <3>3. CASE messages[i].role # "tool"
      <4>1. i \notin out BY <3>3 DEF out, FullAt, ToolAt
      <4> QED BY <2>2, <3>1, <3>3, <4>1
    <3> QED BY <3>2, <3>3
  <2>5. ToolAt(messages') = ToolAt(messages) BY <2>3, <2>4 DEF ToolAt
  <2>6. \A i \in DOMAIN messages : i \in Latest(messages') <=> i \in Latest(messages)
    BY <1>2, <2>3, <2>4, LatestIs
  <2>7. ASSUME NEW j \in ToolAt(messages'), j \in Latest(messages'), messages'[j].trimmed,
               \A k \in ToolAt(messages') : k > j => ~messages'[k].trimmed
        PROVE  estimate' + Size[messages'[j].call[1]] > Budget
    <3>1. j \in ToolAt(messages) /\ j \in DOMAIN messages /\ j \in Latest(messages)
      BY <2>5, <2>6, <2>7 DEF ToolAt
    <3>2. j \in FullAt(messages) \ FullAt(messages')
      BY <1>1, <2>7, <3>1 DEF Fresh, FullAt
    <3>3. \A k \in FullAt(messages) \ FullAt(messages') : k <= j
      <4> SUFFICES ASSUME NEW k \in FullAt(messages) \ FullAt(messages') PROVE k <= j
        OBVIOUS
      <4>1. k \in ToolAt(messages') /\ messages'[k].trimmed BY <2>5 DEF FullAt
      <4>2. ~(k > j) BY <2>7, <4>1
      <4>3. k \in Nat /\ j \in Nat BY <1>2, <3>1, <4>1, <2>5, LenProperties DEF ToolAt
      <4> QED BY <4>2, <4>3
    <3>4. estimate' + Size[messages[j].call[1]] > Budget BY <2>1, <3>2, <3>3 DEF LastTaken
    <3>5. messages'[j].call = messages[j].call BY <2>4, <3>1 DEF ToolAt
    <3> QED BY <3>4, <3>5
  <2> QED BY <1>1, <2>7 DEF LastInv, LastGroupOnlyIfNeeded
<1>4. CASE ~(Budget > 0 /\ counted > 0)
  <2>1. messages' = messages BY <1>1, <1>4
  <2> QED BY <1>1, <2>1 DEF LastInv, LastGroupOnlyIfNeeded, Fresh
<1> QED BY <1>3, <1>4

LEMMA NextLastInv == TalkInv /\ LastInv /\ [Next]_vars /\ TalkInv' => LastInv'
<1> SUFFICES ASSUME TalkInv, LastInv, [Next]_vars, TalkInv' PROVE LastInv'
  OBVIOUS
<1>1. messages \in Seq(Message) BY DEF TalkInv, TalkTypes
<1>2. CASE Ask BY <1>2, AskLastInv
<1>3. CASE Call
  <2>1. /\ pc = "calls" /\ pc' # "asked"
        /\ messages' = Append(messages,
               [role |-> "tool", call |-> Head(todo), trimmed |-> FALSE])
    BY <1>3 DEF Call
  <2>2. todo \in Seq(CallIds) /\ todo # <<>> /\ Fresh
    BY <2>1 DEF TalkInv, TalkTypes, LastInv
  <2>3. Head(todo) \in Calls \X Nat BY <2>2, HeadTailProperties DEF CallIds
  <2> DEFINE m == [role |-> "tool", call |-> Head(todo), trimmed |-> FALSE]
  <2>4. m \in Message /\ ~m.trimmed BY <2>3 DEF Message
  <2>5. messages' = Append(messages, m) BY <2>1
  <2> HIDE DEF m
  <2>6. Fresh' BY <1>1, <2>2, <2>4, <2>5, FreshAppended
  <2> QED BY <2>1, <2>6 DEF LastInv, LastGroupOnlyIfNeeded
<1>4. CASE CallTools
  <2>1. PICK cs \in AskedFor :
          messages' = Append(messages,
                 [role |-> "assistant", calls |-> Recorded(WithIds(cs))])
    BY <1>4 DEF CallTools
  <2>2. pc' # "asked" BY <1>4 DEF CallTools
  <2> DEFINE m == [role |-> "assistant", calls |-> Recorded(WithIds(cs))]
  <2>3. iteration \in Nat BY InvestigationConstants DEF TalkInv, TalkTypes
  <2>4. m \in Message /\ m.role = "assistant"
    BY <2>3, KeptCalls DEF Recorded, Message, CallIds
  <2>5. messages' = Append(messages, m) BY <2>1
  <2> HIDE DEF m
  <2>6. Fresh' BY <1>1, <2>4, <2>5, FreshAppended
  <2> QED BY <2>2, <2>6 DEF LastInv, LastGroupOnlyIfNeeded
<1>5. CASE Start
  <2>1. /\ pc = "start" /\ pc' # "asked" /\ pc' \notin {"start", "calls"}
        /\ pc' = "loop" => messages' = messages
    BY <1>5 DEF Start, Fails, loop
  <2> QED BY <2>1 DEF LastInv, LastGroupOnlyIfNeeded, Fresh
<1>6. CASE WrapUpNow \/ AskFails \/ Report \/ WrapUp \/ Summarize \/ Notify \/ Send
  <2>1. pc' \notin {"asked", "start", "calls", "loop"}
    BY <1>6 DEF WrapUpNow, AskFails, Report, WrapUp, Summarize, Notify, Send, Fails
  <2> QED BY <2>1 DEF LastInv, LastGroupOnlyIfNeeded
<1>7. CASE Expire \/ Finished \/ UNCHANGED vars
  <2>1. UNCHANGED <<pc, messages, estimate>> BY <1>7 DEF Expire, Finished, vars, loop
  <2> QED BY <2>1 DEF LastInv, LastGroupOnlyIfNeeded, Fresh
<1> QED BY <1>2, <1>3, <1>4, <1>5, <1>6, <1>7 DEF Next, Step

LEMMA LastInvHolds == Spec => [](TalkInv /\ LastInv)
<1>1. OnceInv /\ TalkInv /\ LastInv /\ [Next]_vars => OnceInv' /\ TalkInv' /\ LastInv'
  BY NextOnceInv, NextTalkInv, NextLastInv
<1> QED BY <1>1, InitOnceInv, InitTalkInv, InitLastInv, PTL DEF Spec

----------------------------------------------------------------------------
(* The theorems.                                                           *)

\* A run is always in one of its states, within its limits on iterations and
\* calls, and reports known pictures (Agent.Run).
THEOREM TypesHold == Spec => []TypeOK
<1>1. OnceInv /\ TalkInv => TypeOK
  <2> SUFFICES ASSUME OnceInv, TalkInv PROVE TypeOK
    OBVIOUS
  <2>1. \A i \in DOMAIN messages : messages[i].role \in {"user", "assistant", "tool"}
    <3>1. messages \in Seq(Message) BY DEF TalkInv, TalkTypes
    <3>2. DOMAIN messages = 1..Len(messages) BY <3>1, LenProperties
    <3> QED BY <3>1, <3>2, ElementOfSeq, MessageFields
  <2>2. /\ pc \in {"start", "loop", "asked", "calls", "wrap", "notify", "summary",
                   "send", "done"}
        /\ images \in Seq(Images) /\ shots \in [Panels -> Nat]
    BY DEF OnceInv, PictureTypes, Before
  <2>3. /\ {expired, detached, late, broken} \subseteq BOOLEAN
        /\ iteration \in 0..MaxIterations /\ counted \in Nat
        /\ pc = "calls" => todo # <<>> /\ Len(todo) <= MaxToolCalls
        /\ panels \subseteq Panels /\ seen \subseteq Images
        /\ sent \subseteq ToSet(Channels) \X Parts /\ result \in {"none", "report", "error"}
    BY DEF TalkInv, TalkTypes, Deliveries
  <2> QED BY <2>1, <2>2, <2>3 DEF TypeOK
<1> QED BY <1>1, TalkInvHolds, PTL

\* Whatever is cut off, refused, reused or trimmed, a request to the LLM has one
\* result for each call of each turn, in order, and no other (Agent.Run).
THEOREM EveryCallAnswered == Spec => []CallsAnswered
<1>1. TalkInv => CallsAnswered
  <2> SUFFICES ASSUME TalkInv, pc \in {"asked", "wrap"} PROVE CallsAnswered
    BY DEF CallsAnswered
  <2>1. Answered(messages, <<>>) BY DEF TalkInv, Open
  <2>2. DOMAIN <<>> = {} OBVIOUS
  <2> QED BY <2>1, <2>2 DEF Answered, CallsAnswered
<1> QED BY <1>1, TalkInvHolds, PTL

\* Old results are given up before newer ones, as many as it takes for the request
\* to fit, and those of the last turn only where it would not fit with them,
\* whatever the sizes (trimMessages).
THEOREM OldestGoFirst == Spec => []TrimsInOrder
<1>1. TalkInv /\ LastInv => TrimsInOrder BY DEF TalkInv, OldestAndFits, LastInv, TrimsInOrder
<1> QED BY <1>1, LastInvHolds, PTL
=============================================================================
