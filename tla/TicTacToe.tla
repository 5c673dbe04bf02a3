------------------------------ MODULE TicTacToe ------------------------------
(***************************************************************************)
(* examples/ticTacToe and examples/bad_runtime: the judger, the players    *)
(* shipped with it, the player of bad_runtime that fails on purpose, and   *)
(* strangers.  Judger and players each keep a board of their own, in a     *)
(* class they share, and see the game only through the messages of module  *)
(* Match.                                                                  *)
(***************************************************************************)
EXTENDS Match

CONSTANT LineUps      \* the kinds of the two players

VARIABLES
  kind,      \* "shipped", "bad", "stranger" or "wild": the programs that play
  game,      \* the judger's board, and whose turn it is there
  now,       \* the judger's currentPlayer
  view,      \* each player's board and turn
  opened,    \* the players past the start of main
  answers    \* history: the ids of the answers the judger has read

vars == <<matchVars, kind, game, now, view, opened, answers>>

-----------------------------------------------------------------------------
(* class TicTacToe.                                                        *)

Side  == 0 .. 2
Cells == Side \X Side
Free  == "_"
Mark(p)   == IF p = 1 THEN "X" ELSE "O"
Player(m) == IF m = "X" THEN 1 ELSE 2
Foe(m)    == IF m = "X" THEN "O" ELSE "X"

NoMove == <<-1, -1>>      \* what getAutoMove returns when the game is over

\* The cell that board[x][y] is: x and y are not checked, and the array is flat.
At(x, y) == <<(3 * x + y) \div 3, (3 * x + y) % 3>>

NewGame == [board |-> [c \in Cells |-> Free], turn |-> "X"]

FreeCells(b) == {c \in Cells : b[c] = Free}

Row(i)   == {<<i, j>> : j \in Side}
Column(j) == {<<i, j>> : i \in Side}
Diagonal == {<<i, i>> : i \in Side}
Counter  == {<<i, 2 - i>> : i \in Side}

Uniform(b, line) == \E m \in {Free, "X", "O"} : \A c \in line : b[c] = m

\* Rows and columns are looked at in turn, and the first that is all alike decides,
\* though it may be empty.
\* Mutation: a column is skipped.
WinnerOfTwoColumns(b) ==
  LET lines == <<Row(0), Row(1), Row(2), Column(0), Column(1)>>
      k == {n \in DOMAIN lines : Uniform(b, lines[n])}
      centre == b[<<1, 1>>]
  IN  IF centre # Free /\ (Uniform(b, Diagonal) \/ Uniform(b, Counter)) THEN centre
      ELSE IF k = {} THEN Free
      ELSE b[CHOOSE c \in lines[CHOOSE n \in k : \A m \in k : n <= m] : TRUE]

getWinner(b) ==
  LET lines == <<Row(0), Row(1), Row(2), Column(0), Column(1), Column(2)>>
      k == {n \in DOMAIN lines : Uniform(b, lines[n])}
      centre == b[<<1, 1>>]
  IN  IF centre # Free /\ (Uniform(b, Diagonal) \/ Uniform(b, Counter)) THEN centre
      ELSE IF k = {} THEN Free
      ELSE b[CHOOSE c \in lines[CHOOSE n \in k : \A m \in k : n <= m] : TRUE]

isDone(b) == getWinner(b) # Free \/ FreeCells(b) = {}

\* makeMove of a valid move.
makeMove(g, c) == [board |-> [g.board EXCEPT ![c] = g.turn], turn |-> Foe(g.turn)]

\* The lines looked at from cell c, in order.
LinesFrom(c) == <<Column(c[2]), Row(c[1]), Diagonal, Counter>>

\* The free cell of the first line that holds two of m, cell by cell.
Completion(b, m) ==
  LET hits == {h \in Cells \X (1 .. 4) :
                 /\ b[h[1]] = m
                 /\ Cardinality({c \in LinesFrom(h[1])[h[2]] : b[c] = m}) = 2
                 /\ \E c \in LinesFrom(h[1])[h[2]] : b[c] = Free}
      Rank(h) == 12 * h[1][1] + 4 * h[1][2] + h[2]
      first == CHOOSE h \in hits : \A k \in hits : Rank(h) <= Rank(k)
  IN  IF hits = {} THEN {} ELSE {c \in LinesFrom(first[1])[first[2]] : b[c] = Free}

Corners == <<<<0, 0>>, <<0, 2>>, <<2, 0>>, <<2, 2>>>>

\* The moves getAutoMove may return; more than one where it asks rand().
getAutoMove(g) ==
  LET b == g.board
      corners == {k \in DOMAIN Corners : b[Corners[k]] = Free}
      centre == <<1, 1>>
  IN  IF isDone(b) THEN {NoMove}
      ELSE IF b[centre] = Free THEN {centre}
      ELSE IF Completion(b, g.turn) # {} THEN Completion(b, g.turn)
      ELSE IF Completion(b, Foe(g.turn)) # {} THEN Completion(b, Foe(g.turn))
      ELSE IF b[centre] = Foe(g.turn) /\ corners # {}
           THEN {Corners[CHOOSE k \in corners : \A n \in corners : k <= n]}
      ELSE FreeCells(b)

-----------------------------------------------------------------------------
TypeOK ==
  /\ MatchTypeOK
  /\ kind \in LineUps
  /\ game \in [board : [Cells -> {Free, "X", "O"}], turn : {"X", "O"}]
  /\ now \in Players
  /\ \A p \in Players : view[p] \in [board : [Cells -> {Free, "X", "O"}], turn : {"X", "O"}]
  /\ opened \subseteq Players
  /\ answers \in Seq(Int)

Init ==
  /\ MatchInit(<<Continue(1)>>)
  /\ kind \in LineUps
  /\ game = NewGame
  /\ now = 1
  /\ view = [p \in Players |-> NewGame]
  /\ opened = {}
  /\ answers = <<>>

-----------------------------------------------------------------------------
(* The judger.                                                             *)

Answer == At(jin[2], jin[3])

\* The id is read and not looked at: the move is that of the judger's player.
JudgerReads ==
  /\ JudgerTakes
  /\ answers' = Append(answers, jin[1])
  /\ UNCHANGED <<kind, view, opened>>

\* What the judger prints once a move stands on board b.
\* Mutation: the move is not passed on.
AfterMoveUntold(b, move) ==
  <<Log>> \o (IF ~isDone(b) THEN <<Continue(Other(now))>>
              ELSE IF getWinner(b) # Free THEN <<Win(Player(getWinner(b)))>> ELSE <<Draw>>)

AfterMove(b, move) ==
  <<Log, Send(Other(now), move)>>
    \o (IF ~isDone(b) THEN <<Continue(Other(now))>>
        ELSE IF getWinner(b) # Free THEN <<Win(Player(getWinner(b)))>> ELSE <<Draw>>)

\* Mutation: currentPlayer is counted up.
JudgerAcceptsAndCounts ==
  /\ JudgerReads
  /\ Answer \in FreeCells(game.board)
  /\ game' = makeMove(game, Answer)
  /\ JudgerPrints(AfterMove(game'.board, Answer))
  /\ now' = now + 1

JudgerAccepts ==
  /\ JudgerReads
  /\ Answer \in FreeCells(game.board)
  /\ game' = makeMove(game, Answer)
  /\ JudgerPrints(AfterMove(game'.board, Answer))
  /\ now' = Other(now)

\* A cell that is marked, or outside the board, where no byte is taken for a free cell.
JudgerRefuses ==
  /\ JudgerReads
  /\ Answer \notin FreeCells(game.board)
  /\ now' = Other(now)
  /\ JudgerPrints(<<Win(Other(now))>>)
  /\ UNCHANGED game

\* A word ends the loop, and main returns.
JudgerLeaves ==
  /\ JudgerLosesInput
  /\ up' = up \ {Judger}
  /\ UNCHANGED <<jout, pin, pout, asked, stuck, result, game, now, kind, view, opened, answers>>

-----------------------------------------------------------------------------
(* The players.                                                            *)

playerFrame == <<jout, jin, asked, result, kind, game, now, answers>>

\* The start of main: whoever is player 1 takes the centre.
Opens(p) ==
  /\ Runs(p) /\ p \notin opened
  /\ kind[p] \in {"shipped", "bad"}
  /\ opened' = opened \cup {p}
  /\ IF p = 1
     THEN PlayerPrints(p, <<1, 1>>) /\ view' = [view EXCEPT ![p] = makeMove(@, <<1, 1>>)]
     ELSE UNCHANGED <<pout, view>>
  /\ Stays
  /\ UNCHANGED <<playerFrame, pin>>

Told(p) ==
  /\ p \in opened
  /\ PlayerReads(p)
  /\ UNCHANGED <<playerFrame, opened>>

Hears(p, what) ==
  /\ kind[p] = what
  /\ Told(p)
  /\ Head(pin[p]) \in FreeCells(view[p].board)

\* A move onto a cell that it has marked: main returns 1.
GivesUp(p) ==
  /\ kind[p] \in {"shipped", "bad"}
  /\ Told(p)
  /\ Head(pin[p]) \notin FreeCells(view[p].board)
  /\ Exits(p)
  /\ UNCHANGED <<pout, view>>

Heard(p) == makeMove(view[p], Head(pin[p]))
Makes(p, g) == view' = [view EXCEPT ![p] = g]

\* Mutation: the player does not note the move it has made.
ShippedForgets(p) ==
  /\ Hears(p, "shipped")
  /\ \E move \in getAutoMove(Heard(p)) : PlayerPrints(p, move)
  /\ Makes(p, Heard(p))
  /\ Stays

\* When the game is over it prints "-1 -1" all the same, and writes outside its board.
ShippedMoves(p) ==
  /\ Hears(p, "shipped")
  /\ \E move \in getAutoMove(Heard(p)) :
       /\ PlayerPrints(p, move)
       /\ IF move = NoMove THEN Makes(p, Heard(p)) /\ (Stays \/ Exits(p))
                           ELSE Makes(p, makeMove(Heard(p), move)) /\ Stays

\* bad_runtime: it prints its move, and then goes on without noting it, or spins, or
\* returns -1.
BadMoves(p) ==
  /\ Hears(p, "bad")
  /\ \E move \in getAutoMove(Heard(p)) : PlayerPrints(p, move)
  /\ Makes(p, Heard(p))
  /\ Stays \/ Spins(p) \/ Exits(p)

\* Any other program: a line, or none, to each message, and by player 1 to the start.
StrangerMoves(p) ==
  /\ kind[p] \in {"stranger", "wild"}
  /\ IF p \in opened THEN PlayerReads(p) ELSE Runs(p) /\ UNCHANGED pin
  /\ opened' = opened \cup {p}
  /\ Whatever(p, IF p = 1 \/ p \in opened THEN LinesOf(kind[p]) ELSE {})
  /\ UNCHANGED <<playerFrame, view>>

Plays(p) == Opens(p) \/ ShippedMoves(p) \/ BadMoves(p) \/ GivesUp(p) \/ StrangerMoves(p)
Judges   == JudgerAccepts \/ JudgerRefuses \/ JudgerLeaves

Relays == Relay(opened) /\ UNCHANGED <<kind, game, now, view, opened, answers>>

Next ==
  \/ Relays
  \/ Judges
  \/ \E p \in Players : Plays(p)

Spec == Init /\ [][Next]_vars

\* The programs that have something to do do not all stop: a match has no cycle, and
\* whoever else goes on, each comes to what it has to do.
FairSpec == Spec /\ WF_vars(Next)

-----------------------------------------------------------------------------
(* Properties.                                                             *)

Lines == {Row(i) : i \in Side} \cup {Column(i) : i \in Side} \cup {Diagonal, Counter}
HasLine(b, p) == \E line \in Lines : \A c \in line : b[c] = Mark(p)

ByTheBook == \A p \in Players : kind[p] \in {"shipped", "bad"}

\* Both players give one answer a line, right or wrong.
Orderly == \A p \in Players : kind[p] # "wild"

\* The judger has read an answer that is not a move onto a free cell.
Offence == Len(answers) > 9 - Cardinality(FreeCells(game.board))

\* A verdict is right by the rules, not by getWinner: who wins has three in a line, or
\* there was an answer that was no free cell; a draw is a full board without a line; and
\* the scores agree.  If each line is one answer, the wrong answer was the loser's, and
\* shipped players are not blamed for an error, nor have one together.  Else a player may
\* lose without having been asked: what is left of a line of several answers the judger
\* takes for the answer of the player whose turn comes.
VerdictIsRight ==
  /\ result.kind = "win" =>
       /\ IF Offence THEN Orderly => answers[Len(answers)] = Other(result.who)
                      ELSE HasLine(game.board, result.who)
       /\ \A p \in Players : result.scores[p] = IF p = result.who THEN 1 ELSE 0
  /\ result.kind = "draw" =>
       /\ ~Offence /\ FreeCells(game.board) = {}
       /\ \A p \in Players : ~HasLine(game.board, p) /\ result.scores[p] = 0
  /\ result.kind = "error" /\ Orderly =>
       \E p \in Players : kind[p] # "shipped" /\ result.who \in {p, Judger}

\* Three in a line end the game: the judger asks for no further move.  It does not hold
\* of every match, for the judger takes a row or a column that is empty for the first
\* line, and sees no line behind it.
EveryLineIsSeen ==
  Judger \in up => \A p \in Players : ~HasLine(game.board, p)

\* But it never comes to that between the players of these examples, who take the centre
\* first, and then the corner where rows and columns begin.
ShippedLinesAreSeen == ByTheBook => EveryLineIsSeen

\* If each line is one answer, right or wrong, a shipped player is told the one move it
\* does not know, after which its board and its turn are the judger's, and it answers
\* with a free cell, which is all it has noted beside: it never answers "-1 -1", nor
\* moves onto a mark, and no player of these examples is told a move that main takes for
\* invalid.  After a line of several answers nothing of this holds.
PlayersSeeTheBoard ==
  Orderly => \A p \in Players :
    /\ kind[p] \in {"shipped", "bad"} /\ pin[p] # <<>> =>
         Head(pin[p]) \in FreeCells(view[p].board)
    /\ kind[p] = "shipped" /\ asked = p =>
         /\ pin[p] # <<>> => Heard(p) = game
         /\ pout[p] # <<>> => /\ Head(pout[p]) \in FreeCells(game.board)
                              /\ view[p] = makeMove(game, Head(pout[p]))

\* The match ends, though a program may spin, exit or print whatever; between shipped
\* players it ends with a verdict.
MatchEnds ==
  /\ <>(result # NoResult)
  /\ kind = <<"shipped", "shipped">> => <>(result.kind \in {"win", "draw"})
=============================================================================
