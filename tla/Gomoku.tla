-------------------------------- MODULE Gomoku --------------------------------
(***************************************************************************)
(* examples/gomoku: the judger, the player shipped with it, which moves at *)
(* random, and strangers.  The judger tells a player the other's move,     *)
(* then that it is its turn, in two messages of which the first number     *)
(* tells the kind.                                                         *)
(***************************************************************************)
EXTENDS Match

CONSTANTS
  Size,       \* the board is Size by Size (19 in the code)
  Five,       \* so many in a row win (5 in the code)
  LineUps     \* the kinds of the two players

ASSUME BoardAssumption == Size \in Nat /\ Five \in 1 .. Size

VARIABLES
  kind,      \* "shipped", "stranger" or "wild": the programs that play
  board,     \* the judger's
  now,       \* the judger's nowplayer
  seen,      \* the cells each player has marked
  last       \* history: the id of the last answer, and whether it was numbers

vars == <<matchVars, kind, board, now, seen, last>>

-----------------------------------------------------------------------------
Side    == 0 .. Size - 1
Cells   == Side \X Side
Free    == 0

FreeCells(b) == {c \in Cells : b[c] = Free}
validate(c)  == c \in FreeCells(board)

Start == 0 .. Size - Five
Span  == 0 .. Five - 1

\* Mutation: both bounds of the first loop are those of a diagonal.
WindowsInTheCorner ==
       {{<<i, j + k>> : k \in Span} : i \in Start, j \in Start}
  \cup {{<<i + k, j>> : k \in Span} : i \in Start, j \in Side}
  \cup {{<<i + k, j + k>> : k \in Span} : i \in Start, j \in Start}
  \cup {{<<i + Five - 1 - k, j + k>> : k \in Span} : i \in Start, j \in Start}

Windows ==
       {{<<i, j + k>> : k \in Span} : i \in Side, j \in Start}
  \cup {{<<i + k, j>> : k \in Span} : i \in Start, j \in Side}
  \cup {{<<i + k, j + k>> : k \in Span} : i \in Start, j \in Start}
  \cup {{<<i + Five - 1 - k, j + k>> : k \in Span} : i \in Start, j \in Start}

Holds(b, p, window) == \A c \in window : b[c] = p

\* The players with a full window; it is looked for after each move, so there is no
\* more than one, and the order of the search does not matter.
checkWin(b) == {p \in Players : \E w \in Windows : Holds(b, p, w)}

-----------------------------------------------------------------------------
TypeOK ==
  /\ MatchTypeOK
  /\ kind \in LineUps
  /\ board \in [Cells -> {Free} \cup Players]
  /\ now \in Players
  /\ seen \in [Players -> SUBSET Cells]
  /\ last \in [id : Tokens, sane : BOOLEAN]

YourTurn(p) == <<Send(p, <<p>>), Continue(p)>>

Init ==
  /\ MatchInit(<<Blank>> \o YourTurn(1))
  /\ kind \in LineUps
  /\ board = [c \in Cells |-> Free]
  /\ now = 1
  /\ seen = [p \in Players |-> {}]
  /\ last = [id |-> Judger, sane |-> TRUE]

-----------------------------------------------------------------------------
(* The judger.                                                             *)

Answer == <<jin[2], jin[3]>>

\* The id is read and not looked at: the move is that of nowplayer.
JudgerReads ==
  /\ JudgerTakes
  /\ last' = [id |-> jin[1], sane |-> TRUE]
  /\ UNCHANGED <<kind, seen>>

Ended(b) == checkWin(b) # {} \/ FreeCells(b) = {}

Place(c) == [board EXCEPT ![c] = now]

\* What is printed once a move stands on board b.
\* Mutation: the player is told that it is its turn, and then what the other did.
AfterMoveTurnFirst(b, c) ==
  <<Log>> \o
    IF checkWin(b) # {} THEN <<Win(CHOOSE p \in checkWin(b) : TRUE)>>
    ELSE IF FreeCells(b) = {} THEN <<Draw>>
    ELSE YourTurn(Other(now)) \o <<Send(Other(now), <<now>> \o c)>>

\* Mutation: nobody is asked for the next move.
AfterMoveNobodyAsked(b, c) ==
  <<Log>> \o
    IF checkWin(b) # {} THEN <<Win(CHOOSE p \in checkWin(b) : TRUE)>>
    ELSE IF FreeCells(b) = {} THEN <<Draw>>
    ELSE <<Send(Other(now), <<now>> \o c), Send(Other(now), <<Other(now)>>)>>

AfterMove(b, c) ==
  <<Log>> \o
    IF checkWin(b) # {} THEN <<Win(CHOOSE p \in checkWin(b) : TRUE)>>
    ELSE IF FreeCells(b) = {} THEN <<Draw>>
    ELSE <<Send(Other(now), <<now>> \o c)>> \o YourTurn(Other(now))

\* Mutation: nowplayer is counted up.
JudgerAcceptsAndCounts ==
  /\ JudgerReads
  /\ validate(Answer)
  /\ board' = Place(Answer)
  /\ now' = now + 1
  /\ JudgerPrints(AfterMove(board', Answer))

JudgerAccepts ==
  /\ JudgerReads
  /\ validate(Answer)
  /\ board' = Place(Answer)
  /\ now' = IF Ended(board') THEN now ELSE Other(now)
  /\ JudgerPrints(AfterMove(board', Answer))

\* Mutation: the player who made the wrong move is declared the winner.
JudgerRefusesTheOther ==
  /\ JudgerReads
  /\ ~validate(Answer)
  /\ JudgerPrints(<<Log, Win(now)>>)
  /\ UNCHANGED <<board, now>>

JudgerRefuses ==
  /\ JudgerReads
  /\ ~validate(Answer)
  /\ JudgerPrints(<<Log, Win(Other(now))>>)
  /\ UNCHANGED <<board, now>>

\* What x and y are when a word has failed the stream: the number that was read before
\* it, then 0, or the greatest number for one that is too great, then what was in memory.
\* Size stands for all the numbers that are no side of the board.
Misread ==
  CASE jin[1] = Word -> (0 .. Size) \X (0 .. Size)
    [] jin[1] # Word /\ jin[2] = Word -> {0, Size} \X (0 .. Size)
    [] OTHER -> {jin[2]} \X {0, Size}

\* Such a cell is judged as an answer, and judged again, without a read, as the other's.
JudgerMisreads ==
  /\ JudgerLosesInput
  /\ last' = [id |-> jin[1], sane |-> FALSE]
  /\ \E c \in Misread :
       IF ~validate(c)
       THEN JudgerPrints(<<Log, Win(Other(now))>>) /\ UNCHANGED <<board, now>>
       ELSE /\ board' = Place(c)
            /\ now' = IF Ended(board') THEN now ELSE Other(now)
            /\ JudgerPrints(AfterMove(board', c)
                              \o IF Ended(board') THEN <<>> ELSE <<Log, Win(now)>>)
  /\ UNCHANGED <<kind, seen>>

-----------------------------------------------------------------------------
(* The players.                                                            *)

playerFrame == <<jout, jin, asked, result, kind, board, now, last>>

Hears(p, what) == kind[p] = what /\ PlayerReads(p) /\ UNCHANGED playerFrame

Message(p) == Head(pin[p])
MyTurn(p)  == Message(p)[1] = p

\* getPosition draws until it finds a cell that is not marked; there is one whenever the
\* player is told to move, for it has marked no more cells than the judger had taken when
\* it printed that.
ShippedMoves(p) ==
  /\ Hears(p, "shipped")
  /\ MyTurn(p)
  /\ \E c \in Cells \ seen[p] :
       /\ PlayerPrints(p, c)
       /\ seen' = [seen EXCEPT ![p] = @ \cup {c}]
  /\ Stays

ShippedMarks(p) ==
  /\ Hears(p, "shipped")
  /\ ~MyTurn(p)
  /\ seen' = [seen EXCEPT ![p] = @ \cup {Tail(Message(p))}]
  /\ Stays /\ UNCHANGED pout

\* Any other program: a line, or none, when it is told to move.
StrangerMoves(p) ==
  /\ Hears(p, "stranger") \/ Hears(p, "wild")
  /\ Whatever(p, IF MyTurn(p) THEN LinesOf(kind[p]) ELSE {})
  /\ UNCHANGED seen

Plays(p) == ShippedMoves(p) \/ ShippedMarks(p) \/ StrangerMoves(p)
Judges   == JudgerAccepts \/ JudgerRefuses \/ JudgerMisreads
Relays   == Relay(Players) /\ UNCHANGED <<kind, board, now, seen, last>>

Next ==
  \/ Relays
  \/ Judges
  \/ \E p \in Players : Plays(p)

Spec == Init /\ [][Next]_vars

\* As in TicTacToe: a match has no cycle.
FairSpec == Spec /\ WF_vars(Next)

-----------------------------------------------------------------------------
(* Properties.                                                             *)

Directions == {<<0, 1>>, <<1, 0>>, <<1, 1>>, <<1, -1>>}

\* Five in a row from cell c in direction d, for player p.
Row(b, p, c, d) ==
  \A k \in Span : LET e == <<c[1] + k * d[1], c[2] + k * d[2]>> IN e \in Cells /\ b[e] = p

HasFive(b, p) == \E c \in Cells, d \in Directions : Row(b, p, c, d)

\* Both players give one answer a line, right or wrong.
Orderly == \A p \in Players : kind[p] # "wild"

\* How often player p has moved.
Moves(p) == Cardinality({c \in Cells : board[c] = p})

\* A verdict is right by the rules of the game, not by checkWin: the winner has five in
\* a row, or an answer that was no free cell came when the other was to move, and it was
\* the other's if each line is one answer; a draw is a full board without a row; the
\* scores agree; and players moved in turn.  If each line is one answer, shipped players
\* are not blamed for an error, nor have one together.  It says nothing of the winner
\* once an answer was not numbers: the judger may then blame the other player.
VerdictIsRight ==
  /\ Moves(1) - Moves(2) \in 0 .. 1
  /\ result.kind = "win" /\ last.sane =>
       /\ \/ HasFive(board, result.who)
          \/ now = Other(result.who) /\ (Orderly => last.id = now)
       /\ ~HasFive(board, Other(result.who))
       /\ \A p \in Players : result.scores[p] = IF p = result.who THEN 1 ELSE 0
  /\ result.kind = "draw" =>
       /\ FreeCells(board) = {}
       /\ \A p \in Players : ~HasFive(board, p) /\ result.scores[p] = 0
  /\ result.kind = "error" /\ Orderly =>
       \E p \in Players : kind[p] # "shipped" /\ result.who \in {p, Judger}

\* The judger asks for no further move once a player has five in a row, wherever on the
\* board.
EveryRowIsSeen == Judger \in up => \A p \in Players : ~HasFive(board, p)

\* If each line is one answer, right or wrong, the answer a shipped player is asked for is
\* a free cell, and once it has answered its marks are the judger's board and that cell.
\* After a line of several answers nothing of this holds.
PlayersSeeTheBoard ==
  Orderly => \A p \in Players :
    kind[p] = "shipped" /\ asked = p /\ pout[p] # <<>> =>
      /\ Head(pout[p]) \in FreeCells(board)
      /\ seen[p] = (Cells \ FreeCells(board)) \cup {Head(pout[p])}

\* The match ends, though a program may spin, exit or print whatever, and the judger may
\* go on without reading; between shipped players it ends with a verdict.
MatchEnds ==
  /\ <>(result # NoResult)
  /\ kind = <<"shipped", "shipped">> => <>(result.kind \in {"win", "draw"})
=============================================================================
