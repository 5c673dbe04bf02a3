------------------------------ MODULE LGame_MC ------------------------------
(* Lines for the model checker: every command with the lists that matter,    *)
(* and the malformed ones on their own.                                      *)
EXTENDS LGame

Plain     == Line("plain", <<>>, "end")
Continue1 == Line("continue", <<1>>, "end")

\* Three players: the smallest number with a permutation that is not its own
\* inverse.  A line of three scores doubles as the text of a message.
RoutingLines ==
  {Line("send", <<0>>, "end"), Line("send", <<1, 3>>, "end"),
   Line("continue", <<2>>, "end"), Line("win", <<2>>, "end"),
   Line("plain", <<7, 8, 9>>, "end")}

\* One player: every command, and what may be wrong with each.
OddLines ==
  {Line("send", <<>>, "end"), Line("send", <<1, 5>>, "end"), Line("send", <<1, 0>>, "end"),
   Line("send", <<1>>, "huge"), Continue1, Line("continue", <<>>, "end"),
   Line("win", <<1>>, "end"), Line("win", <<5>>, "end"), Line("draw", <<>>, "end"),
   Line("log", <<>>, "end"), BlankLine, Line("plain", <<7>>, "end"), Plain}

WordLines == {Line("send", <<1>>, "word"), Line("plain", <<7>>, "end")}

LiveLines ==
  {Line("send", <<0>>, "end"), Continue1, Line("draw", <<>>, "end"),
   Line("plain", <<7>>, "end")}

AnyLines    == {Plain, BlankLine}
PlainLines  == {Plain}
NoGarbage   == {0}
SomeGarbage == {0, 1, -3}
=============================================================================
