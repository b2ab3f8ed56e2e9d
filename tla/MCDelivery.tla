----------------------------- MODULE MCDelivery -----------------------------
(* Texts put together from up to three marks and characters, and texts of  *)
(* two lines that hold whole spans, or a mark that nothing closes.         *)
EXTENDS Delivery

Marks == { <<"x">>, <<".">>, <<"n">>, <<"*", "*">>, <<"~">>, <<"~", "~", "~">>,
           <<"[", "x", "]", "(">>, <<")">> }

Whole == { <<"x">>, <<".">>, <<"~">>, <<"~", ".", "~">>, <<"*", "*", ".", "*", "*">>,
           <<"~", "~", "~", "*", "~", "~", "~">>,
           <<"[", "x", "]", "(", "d", "x", ")">>, <<"[", ".", "]", "(", "u", ")">> }

Of(pieces, n) == {FlattenSeq(t) : t \in [1..n -> pieces]}

McTexts ==
    Of(Marks, 1) \union Of(Marks, 2) \union Of(Marks, 3)
    \union {a \o <<"n">> \o b : a \in Of(Whole, 1) \union Of(Whole, 2), b \in Of(Whole, 1)}
=============================================================================
