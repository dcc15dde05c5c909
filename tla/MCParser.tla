------------------------------ MODULE MCParser -----------------------------
(* Model-checking instance of Parser: every line of up to MaxShort symbols, *)
(* every line of up to MaxLong symbols that has neither redirection nor &,  *)
(* every line of the documented syntax built from commands of one word to   *)
(* MAX_VAR_NUM words, and lines that redirect both ways in either order.    *)
EXTENDS ParserGrammar

CONSTANTS MaxShort, MaxLong

TwoLetters == {"x", "y"}
Garbage == {<<>>, <<"x", "|">>}
SomeWords ==
  {<<<<a>>>> : a \in TwoLetters} \cup {<<<<"x">>, <<"y">>>>, <<<<"x">>, <<"y">>, <<"y">>>>}
SomeInNames == {<<"x">>, <<"y", "x">>}
SomeOutNames == {<<"y">>}

LinesOver(S, max) == UNION {[1 .. n -> S] : n \in 0 .. max}
AllLines ==
  LinesOver({"x", Space} \cup Special, MaxShort)
    \cup LinesOver({"x", Space, "|"}, MaxLong)
    \cup {<<"x">> \o a \o <<Space>> \o b :
            a, b \in [1 .. 2 -> {"x", "<", ">"}] \cup [1 .. 3 -> {"x", "<", ">"}]}
    \cup RenderedLines
=============================================================================
