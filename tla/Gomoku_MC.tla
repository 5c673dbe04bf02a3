------------------------------- MODULE Gomoku_MC -------------------------------
(* Two shipped players, and one against a stranger, and against a player whose   *)
(* lines are several answers, or one and a half.                                 *)
EXTENDS Gomoku

AllNumbers  == 0 .. 3
ManyAnswers == {<<0, 0, 2, 0, 0>>, <<1, 1, 2, 2, 2, 1, 1, 2>>, <<0, 0, 2>>, <<2, 1>>}

AllLineUps ==
  {<<"shipped", "shipped">>, <<"shipped", "stranger">>, <<"wild", "shipped">>}
=============================================================================
