---------------------------- MODULE TicTacToe_MC ----------------------------
(* Every pairing of the players of the examples, each side of a stranger, and each    *)
(* side of a player whose lines are two answers, three answers, or one and a half.    *)
EXTENDS TicTacToe

AllNumbers == -1 .. 2
ManyAnswers == {<<0, 0, 2, 0, 0>>, <<0, 0, 2, 2, 2, 1, 1, 1>>, <<0, 0, 2>>, <<0, 1>>}

Shipped == {<<"shipped", "shipped">>, <<"shipped", "bad">>, <<"bad", "shipped">>, <<"bad", "bad">>}
WithStranger == {<<"shipped", "stranger">>, <<"stranger", "shipped">>}
WithWild == {<<"shipped", "wild">>, <<"wild", "shipped">>}
AllLineUps == Shipped \cup WithStranger \cup WithWild
=============================================================================
