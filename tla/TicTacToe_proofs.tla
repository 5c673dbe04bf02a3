-------------------------- MODULE TicTacToe_proofs --------------------------
(***************************************************************************)
(* The match of ticTacToe.  Whichever programs play, a verdict follows     *)
(* from the judger's board; if each line is one answer, right or wrong, a  *)
(* shipped player's board is the judger's; and between the players of the  *)
(* examples no line is overlooked.                                         *)
(***************************************************************************)
EXTENDS TicTacToe, Match_proofs, WellFoundedInduction

Marks   == {Free, "X", "O"}
Games   == [board : [Cells -> Marks], turn : {"X", "O"}]
Moves   == Cells \cup {NoMove}
Centre  == <<1, 1>>
Corner  == <<0, 0>>

Taken(b) == Cells \ FreeCells(b)

-----------------------------------------------------------------------------
(* The match, whatever the players print.  WInv says of what streams they  *)
(* are made (Types), that a verdict is printed by a judger that ends, and  *)
(* follows from its board (Verdicts, Ruled), and that a judger that runs   *)
(* has accepted every answer, and sees no end (Counts).                    *)

Printed == {Log, Draw} \cup {Win(p) : p \in Players} \cup {Continue(p) : p \in Players}
           \cup UNION {{Send(p, c) : c \in Cells} : p \in Players}

StreamTypes ==
  /\ jout \in Seq(Printed)
  /\ jin \in Seq(Tokens)
  /\ pin \in [Players -> Seq(Cells)]
  /\ pout \in [Players -> Seq(Seq(Tokens))]

RelayTypes ==
  /\ asked \in 0 .. 2
  /\ up \subseteq 0 .. 2
  /\ stuck \subseteq up \cap Players
  /\ result.kind \in {"none", "win", "draw", "error"} /\ result.who \in 0 .. 2

BoardTypes ==
  /\ kind \in LineUps
  /\ game \in Games
  /\ now \in Players
  /\ view \in [Players -> Games]
  /\ opened \subseteq Players
  /\ answers \in Seq(Int)

Types == StreamTypes /\ RelayTypes /\ BoardTypes

\* A verdict is right, as VerdictIsRight says it of the result, and the judger's turn has
\* passed to whom it lets win for the other's offence.
Right(line) ==
  \/ \E p \in Players :
       /\ line = Win(p)
       /\ IF Offence THEN p = now ELSE HasLine(game.board, p)
  \/ /\ line = Draw
     /\ ~Offence /\ FreeCells(game.board) = {}
     /\ \A p \in Players : ~HasLine(game.board, p)

Verdicts ==
  \A k \in 1 .. Len(jout) : Final(jout[k]) => Judger \notin up /\ Right(jout[k])

Ruled ==
  /\ result.kind \in {"win", "draw"} => Judger \notin up
  /\ result.kind = "win" => Right(Win(result.who)) /\ result.who \in Players
                            /\ result.scores = Win(result.who).msg
  /\ result.kind = "draw" => Right(Draw) /\ result.scores = Draw.msg

Counts ==
  /\ Len(answers) >= 9 - Cardinality(FreeCells(game.board))
  /\ Judger \in up => ~Offence /\ ~isDone(game.board)

WInv == Types /\ Verdicts /\ Ruled /\ Counts

-----------------------------------------------------------------------------
(* The match, if each line is one answer (Orderly).  What the judger has   *)
(* printed is the rest of a script (Script); at any time a line, a         *)
(* question or an answer is under way, or somebody is to blame (Turns,     *)
(* Blamed); a judger that has refused an answer knows whose it was         *)
(* (Named).  Listens is what holds of every player of the examples,        *)
(* Follows what one that notes its own moves knows, and Opening how two of *)
(* them begin.                                                             *)

\* The last line but one tells the player whose turn comes what the other did.
Sent == jout[Len(jout) - 1].msg

Script ==
  /\ Len(jout) <= 3
  /\ Len(jout) = 3 => jout[1] = Log
  /\ Len(jout) >= 2 => \E c \in Cells : jout[Len(jout) - 1] = Send(now, c)
  /\ Len(jout) >= 1 =>
       IF Judger \in up THEN jout[Len(jout)] = Continue(now) ELSE Final(jout[Len(jout)])

Turns ==
  /\ pout \in [Players -> Seq(Brief)]
  /\ asked \in {0, now}
  /\ asked # 0 => Judger \in up /\ jout = <<>> /\ jin = <<>>
  /\ jin # <<>> => /\ Judger \in up /\ Len(jin) \in 2 .. 3 /\ jin[1] = now
                   /\ jout = <<>> /\ asked = 0
  /\ Playing /\ jout = <<>> /\ asked = 0 /\ jin = <<>> =>
       Judger \notin up /\ \E p \in Players : kind[p] # "shipped"

Named == Judger \notin up /\ Offence => answers[Len(answers)] = Other(now)

Unopened ==
  /\ game = NewGame /\ now = 1 /\ Judger \in up /\ 1 \in up \ stuck
  /\ pin[1] = <<>> /\ pout[1] = <<>> /\ jin = <<>> /\ Len(jout) <= 1 /\ view[1] = NewGame

\* What player p has answered, and the judger has not judged yet.
Pending(p) == {pout[p][k] : k \in DOMAIN pout[p]}
              \cup IF p = now /\ jin # <<>> THEN {Answer} ELSE {}

\* A player of the examples reads one message, a move onto a cell that is free on its
\* board and taken on the judger's, before it prints one answer, which is two numbers.
Listens(p) ==
  /\ pin[p] # <<>> => \E c \in FreeCells(view[p].board) \ FreeCells(game.board) : pin[p] = <<c>>
  /\ pin[p] # <<>> \/ (p = now /\ Len(jout) >= 2) => pout[p] = <<>>
  /\ p = now /\ Len(jout) >= 2 => /\ pin[p] = <<>>
                                   /\ Sent \in FreeCells(view[p].board) \ FreeCells(game.board)
  /\ Judger \in up /\ (p # now \/ jin # <<>>) => pin[p] = <<>> /\ pout[p] = <<>>
  /\ pout[p] # <<>> => pout[p][1] \in Moves /\ Len(pout[p]) <= 1
  /\ p = now /\ jin # <<>> => Complete
  /\ Taken(view[p].board) \subseteq Taken(game.board) \cup Pending(p)
  /\ p = 1 /\ p \notin opened => Unopened

\* What a shipped player knows: all; all but the last move, which it is being told; or
\* all and its own answer, which is a free cell.
Follows(p) ==
  Judger \in up =>
    /\ p \in up \ stuck
    /\ p # now => view[p] = game
    /\ p = now =>
         /\ jin # <<>> => /\ Answer \in FreeCells(game.board)
                          /\ view[p] = makeMove(game, Answer)
         /\ Len(jout) >= 2 => makeMove(view[p], Sent) = game
         /\ pin[p] # <<>> => makeMove(view[p], pin[p][1]) = game
         /\ pout[p] # <<>> => /\ pout[p][1] \in FreeCells(game.board)
                              /\ view[p] = makeMove(game, pout[p][1])
         /\ Len(jout) <= 1 /\ jin = <<>> /\ pin[p] = <<>> /\ pout[p] = <<>>
              => p = 1 /\ p \notin opened

OneMove == makeMove(NewGame, Centre)

\* How a match between players of the examples begins.
NothingMoved ==
  /\ game = NewGame /\ now = 1 /\ Judger \in up
  /\ view[2] = NewGame /\ pin[2] = <<>> /\ pout[2] = <<>>
  /\ pin[1] = <<>> /\ Len(jout) <= 1 /\ Pending(1) \subseteq {Centre}

CentreTaken ==
  /\ game = OneMove /\ now = 2 /\ Judger \in up
  /\ Len(jout) >= 2 => Sent = Centre
  /\ pin[2] # <<>> => pin[2] = <<Centre>>
  /\ Len(jout) >= 2 \/ pin[2] # <<>> => view[2] = NewGame
  /\ Pending(2) \subseteq {Corner}

CornerTaken == game.board[Centre] # Free /\ game.board[Corner] # Free

Opening == NothingMoved \/ CentreTaken \/ CornerTaken

Examples == {"shipped", "bad"}

PlayersListen == \A p \in Players : kind[p] \in Examples => Listens(p)
ShippedFollow == \A p \in Players : kind[p] = "shipped" => Follows(p)
BookOpens     == ByTheBook => Opening

Blamed ==
  result.kind = "error" =>
    \E p \in Players : kind[p] # "shipped" /\ result.who \in {p, Judger}

BInv == Script /\ Turns /\ Named /\ PlayersListen /\ ShippedFollow /\ BookOpens /\ Blamed

IInv == WInv /\ (Orderly => BInv)

\* What is known of a match in which each line is one answer.
Calm == Orderly /\ Types /\ Counts /\ Script /\ Turns /\ Named /\ PlayersListen /\ ShippedFollow
        /\ BookOpens /\ Blamed

-----------------------------------------------------------------------------
(* The board.                                                              *)

\* A set of numbers has a least one.
LEMMA Least ==
  ASSUME NEW S \in SUBSET Nat, S # {}
  PROVE  \E n \in S : \A m \in S : n <= m
<1>1. PICK n \in S : \A m \in S : ~(<<m, n>> \in OpToRel(<, Nat))
  BY NatLessThanWellFounded, WFMin
<1>2. \A m \in S : ~(m < n)
  BY <1>1 DEF OpToRel
<1> QED
  BY <1>2

\* There are nine cells.
LEMMA Nine ==
  /\ IsFiniteSet(Cells) /\ Cardinality(Cells) = 9
  /\ \A b : IsFiniteSet(FreeCells(b)) /\ Cardinality(FreeCells(b)) \in 0 .. 9
<1>1. IsFiniteSet(Side) /\ Cardinality(Side) = 3
  <2>1. 0 \in Int /\ 2 \in Int /\ ~(0 > 2) /\ 2 - 0 + 1 = 3
    OBVIOUS
  <2>2. IsFiniteSet(0 .. 2) /\ Cardinality(0 .. 2) = IF 0 > 2 THEN 0 ELSE 2 - 0 + 1
    BY <2>1, FS_Interval
  <2> QED
    BY <2>1, <2>2 DEF Side
<1>2. IsFiniteSet(Cells) /\ Cardinality(Cells) = 3 * 3
  BY <1>1, FS_Product DEF Cells
<1>3. ASSUME NEW b PROVE IsFiniteSet(FreeCells(b)) /\ Cardinality(FreeCells(b)) \in 0 .. 9
  <2>1. FreeCells(b) \in SUBSET Cells
    BY DEF FreeCells
  <2> QED
    BY <1>2, <2>1, FS_Subset, FS_CardinalityType
<1> QED
  BY <1>2, <1>3

\* A move onto a free cell.
LEMMA Moved ==
  ASSUME NEW g \in Games, NEW c \in FreeCells(g.board)
  PROVE  /\ makeMove(g, c) \in Games
         /\ makeMove(g, c).board[c] # Free
         /\ FreeCells(makeMove(g, c).board) = FreeCells(g.board) \ {c}
         /\ Taken(makeMove(g, c).board) = Taken(g.board) \cup {c}
         /\ Cardinality(FreeCells(makeMove(g, c).board)) = Cardinality(FreeCells(g.board)) - 1
<1>1. c \in Cells /\ g.board \in [Cells -> Marks] /\ g.turn \in {"X", "O"}
  BY DEF Games, FreeCells
<1>2. makeMove(g, c).board = [g.board EXCEPT ![c] = g.turn] /\ makeMove(g, c).turn = Foe(g.turn)
  BY DEF makeMove
<1>3. makeMove(g, c) \in Games
  BY <1>1 DEF makeMove, Games, Foe, Marks
<1>4. g.turn # Free
  BY <1>1 DEF Free
<1>5. FreeCells(makeMove(g, c).board) = FreeCells(g.board) \ {c}
  BY <1>1, <1>2, <1>4 DEF FreeCells
<1>6. Cardinality(FreeCells(g.board) \ {c}) = Cardinality(FreeCells(g.board)) - 1
  BY Nine, FS_RemoveElement
<1> QED
  BY <1>1, <1>2, <1>3, <1>4, <1>5, <1>6 DEF Taken

-----------------------------------------------------------------------------
(* Lines.                                                                  *)

RowsThenColumns == <<Row(0), Row(1), Row(2), Column(0), Column(1), Column(2)>>

\* The six lines that getWinner looks at in turn.
LEMMA SixLines ==
  /\ DOMAIN RowsThenColumns = 1 .. 6
  /\ \A n \in 1 .. 6 : /\ RowsThenColumns[n] \in Lines /\ RowsThenColumns[n] \subseteq Cells
                       /\ RowsThenColumns[n] # {}
  /\ \A line \in Lines : \/ line \in {Diagonal, Counter}
                         \/ \E n \in 1 .. 6 : line = RowsThenColumns[n]
  /\ \A line \in {Diagonal, Counter} : Centre \in line /\ line \in Lines
<1>1. /\ RowsThenColumns[1] = Row(0) /\ RowsThenColumns[2] = Row(1) /\ RowsThenColumns[3] = Row(2)
      /\ RowsThenColumns[4] = Column(0) /\ RowsThenColumns[5] = Column(1)
      /\ RowsThenColumns[6] = Column(2) /\ DOMAIN RowsThenColumns = 1 .. 6
  BY DEF RowsThenColumns
<1>2. \A i \in Side : /\ Row(i) \subseteq Cells /\ Column(i) \subseteq Cells
                      /\ <<i, 0>> \in Row(i) /\ <<0, i>> \in Column(i)
                      /\ Row(i) \in Lines /\ Column(i) \in Lines
  BY DEF Row, Column, Cells, Side, Lines
<1>3. Side = {0, 1, 2}
  BY DEF Side
<1>4. \A n \in 1 .. 6 : n \in {1, 2, 3, 4, 5, 6}
  OBVIOUS
<1>5. \A n \in 1 .. 6 : \E i \in Side : RowsThenColumns[n] \in {Row(i), Column(i)}
  BY <1>1, <1>3, <1>4
<1>6. \A i \in Side : \E n, m \in 1 .. 6 :
        Row(i) = RowsThenColumns[n] /\ Column(i) = RowsThenColumns[m]
  BY <1>1, <1>3
<1>7. Centre \in Diagonal /\ Centre \in Counter
  BY <1>3 DEF Centre, Diagonal, Counter
<1> HIDE DEF RowsThenColumns
<1>8. \A n \in 1 .. 6 : /\ RowsThenColumns[n] \in Lines /\ RowsThenColumns[n] \subseteq Cells
                        /\ RowsThenColumns[n] # {}
  BY <1>2, <1>5
<1>9. \A line \in Lines : \/ line \in {Diagonal, Counter}
                          \/ \E n \in 1 .. 6 : line = RowsThenColumns[n]
  BY <1>6 DEF Lines
<1> QED
  BY <1>1, <1>7, <1>8, <1>9 DEF Lines

DiagonalWins(b) == b[Centre] # Free /\ (Uniform(b, Diagonal) \/ Uniform(b, Counter))

\* The winner is who is in the centre of a diagonal, or else whoever, or nobody, is in the
\* first row or column that is all alike.
LEMMA WinnerIs ==
  ASSUME NEW b
  PROVE  /\ DiagonalWins(b) => getWinner(b) = b[Centre]
         /\ ~DiagonalWins(b) /\ (\A n \in 1 .. 6 : ~Uniform(b, RowsThenColumns[n]))
              => getWinner(b) = Free
         /\ ~DiagonalWins(b) /\ (\E n \in 1 .. 6 : Uniform(b, RowsThenColumns[n]))
              => \E n \in 1 .. 6 :
                   /\ Uniform(b, RowsThenColumns[n])
                   /\ \A m \in 1 .. 6 : Uniform(b, RowsThenColumns[m]) => n <= m
                   /\ \E c \in RowsThenColumns[n] : getWinner(b) = b[c]
<1> DEFINE k == {n \in 1 .. 6 : Uniform(b, RowsThenColumns[n])}
<1> DEFINE f == CHOOSE n \in k : \A m \in k : n <= m
<1> DEFINE e == CHOOSE c \in RowsThenColumns[f] : TRUE
<1>1. getWinner(b) = IF DiagonalWins(b) THEN b[Centre] ELSE IF k = {} THEN Free ELSE b[e]
  <2>1. DOMAIN RowsThenColumns = 1 .. 6
    BY SixLines
  <2> QED
    BY <2>1 DEF getWinner, DiagonalWins, RowsThenColumns, Centre
<1>2. ASSUME k # {} PROVE f \in k /\ \A m \in k : f <= m
  <2>1. k \in SUBSET Nat
    OBVIOUS
  <2>2. \E n \in k : \A m \in k : n <= m
    <3> HIDE DEF k
    <3> QED
      BY <1>2, <2>1, Least
  <2> QED
    BY <2>2
<1>3. ASSUME k # {} PROVE e \in RowsThenColumns[f]
  <2>1. RowsThenColumns[f] # {}
    BY <1>2, <1>3, SixLines
  <2> QED
    BY <2>1
<1> HIDE DEF f, e
<1>4. ASSUME ~DiagonalWins(b), k # {}
      PROVE  \E n \in 1 .. 6 :
               /\ Uniform(b, RowsThenColumns[n])
               /\ \A m \in 1 .. 6 : Uniform(b, RowsThenColumns[m]) => n <= m
               /\ \E c \in RowsThenColumns[n] : getWinner(b) = b[c]
  BY <1>1, <1>2, <1>3, <1>4
<1> QED
  BY <1>1, <1>4

\* Who wins has a line.
LEMMA WinnerHasLine ==
  ASSUME NEW b, getWinner(b) # Free
  PROVE  Player(getWinner(b)) \in Players /\ HasLine(b, Player(getWinner(b)))
<1> DEFINE m == getWinner(b)
<1>1. \E line \in Lines : /\ Uniform(b, line)
                          /\ \E c \in line : m = b[c]
  BY WinnerIs, SixLines DEF DiagonalWins
<1>2. PICK line \in Lines : Uniform(b, line) /\ \E c \in line : m = b[c]
  BY <1>1
<1> HIDE DEF m
<1>3. m \in Marks /\ \A c \in line : b[c] = m
  BY <1>2 DEF Uniform, Marks
<1>4. m \in {"X", "O"}
  BY <1>3 DEF Marks, m
<1>5. Player(m) \in Players /\ Mark(Player(m)) = m
  BY <1>4 DEF Player, Mark, Players
<1> QED
  BY <1>3, <1>5 DEF HasLine, m

\* A line of marks is overlooked only behind an empty row or column.
LEMMA Overlooked ==
  ASSUME NEW b, NEW p \in Players, HasLine(b, p), getWinner(b) = Free
  PROVE  \E n, m \in 1 .. 6 :
           /\ n <= m
           /\ \A c \in RowsThenColumns[n] : b[c] = Free
           /\ \A c \in RowsThenColumns[m] : b[c] = Mark(p)
<1>1. Mark(p) \in {"X", "O"} /\ Mark(p) # Free
  BY DEF Mark, Free
<1>2. PICK line \in Lines : \A c \in line : b[c] = Mark(p)
  BY DEF HasLine
<1>3. Uniform(b, line)
  BY <1>1, <1>2 DEF Uniform
<1>4. CASE line \in {Diagonal, Counter}
  <2>1. b[Centre] # Free
    BY <1>1, <1>2, <1>4, SixLines
  <2>2. DiagonalWins(b)
    BY <1>3, <1>4, <2>1 DEF DiagonalWins
  <2> QED
    BY <2>1, <2>2, WinnerIs
<1>5. CASE \E m \in 1 .. 6 : line = RowsThenColumns[m]
  <2>1. PICK m \in 1 .. 6 : line = RowsThenColumns[m]
    BY <1>5
  <2>2. ~DiagonalWins(b)
    BY WinnerIs DEF DiagonalWins
  <2>3. PICK n \in 1 .. 6 :
          /\ Uniform(b, RowsThenColumns[n])
          /\ \A i \in 1 .. 6 : Uniform(b, RowsThenColumns[i]) => n <= i
          /\ \E c \in RowsThenColumns[n] : getWinner(b) = b[c]
    BY <1>3, <2>1, <2>2, WinnerIs
  <2>4. \A c \in RowsThenColumns[n] : b[c] = Free
    BY <2>3 DEF Uniform
  <2> QED
    BY <1>2, <1>3, <2>1, <2>3, <2>4
<1> QED
  BY <1>4, <1>5, SixLines

\* On a full board nothing is overlooked.
LEMMA FullBoard ==
  ASSUME NEW b, NEW p \in Players, FreeCells(b) = {}, getWinner(b) = Free
  PROVE  ~HasLine(b, p)
BY Overlooked, SixLines DEF FreeCells

\* Nor is it once the centre and the corner are taken: what is behind an empty last row
\* is a column, which that row crosses, and behind an empty last column nothing is.
LEMMA CornerTakenSees ==
  ASSUME NEW b, NEW p \in Players, b[Centre] # Free, b[Corner] # Free, getWinner(b) = Free
  PROVE  ~HasLine(b, p)
<1> SUFFICES ASSUME HasLine(b, p) PROVE FALSE
  OBVIOUS
<1>1. PICK n \in 1 .. 6, m \in 1 .. 6 :
        /\ n <= m
        /\ \A c \in RowsThenColumns[n] : b[c] = Free
        /\ \A c \in RowsThenColumns[m] : b[c] = Mark(p)
  BY Overlooked
<1>2. /\ RowsThenColumns[1] = Row(0) /\ RowsThenColumns[2] = Row(1) /\ RowsThenColumns[3] = Row(2)
      /\ RowsThenColumns[4] = Column(0) /\ RowsThenColumns[5] = Column(1)
      /\ RowsThenColumns[6] = Column(2)
  BY DEF RowsThenColumns
<1>3. /\ Corner \in Row(0) /\ Corner \in Column(0) /\ Centre \in Row(1) /\ Centre \in Column(1)
      /\ \A j \in {0, 1, 2} : <<2, j>> \in Row(2) /\ <<2, j>> \in Column(j)
  BY DEF Corner, Centre, Row, Column, Side
<1>4. Mark(p) # Free
  BY DEF Mark, Free
<1>5. n \notin {1, 2, 4, 5}
  BY <1>1, <1>2, <1>3
<1>6. n = 3 \/ n = 6
  BY <1>5
<1>7. CASE n = 6
  BY <1>1, <1>2, <1>3, <1>4, <1>7
<1>8. CASE n = 3
  <2>1. m \in {3, 4, 5, 6}
    BY <1>1, <1>8
  <2> QED
    BY <1>1, <1>2, <1>3, <1>4, <1>8, <2>1
<1> QED
  BY <1>6, <1>7, <1>8

\* One mark is no line.
LEMMA OneMark ==
  ASSUME NEW b, NEW p \in Players, NEW c, \A e \in Cells : e # c => b[e] = Free
  PROVE  ~HasLine(b, p)
<1> SUFFICES ASSUME NEW line \in Lines, \A e \in line : b[e] = Mark(p) PROVE FALSE
  BY DEF HasLine
<1>1. Side = {0, 1, 2}
  BY DEF Side
<1>2. \E e, f \in line : e \in Cells /\ f \in Cells /\ e # f
  <2>1. CASE line \in {Row(i) : i \in Side} \cup {Column(i) : i \in Side}
    <3>1. PICK i \in Side : line \in {Row(i), Column(i)}
      BY <2>1
    <3>2. \A x \in {<<i, 0>>, <<i, 1>>} : x \in Row(i) /\ x \in Cells
      BY <1>1 DEF Row, Cells
    <3>3. \A x \in {<<0, i>>, <<1, i>>} : x \in Column(i) /\ x \in Cells
      BY <1>1 DEF Column, Cells
    <3> QED
      BY <3>1, <3>2, <3>3
  <2>2. CASE line \in {Diagonal, Counter}
    <3>1. \A x \in {<<0, 0>>, <<1, 1>>} : x \in Diagonal /\ x \in Cells
      BY <1>1 DEF Diagonal, Cells
    <3>2. \A x \in {<<0, 2>>, <<1, 1>>} : x \in Counter /\ x \in Cells
      <4>1. 2 - 0 = 2 /\ 2 - 1 = 1
        OBVIOUS
      <4> QED
        BY <1>1, <4>1 DEF Counter, Cells
    <3> QED
      BY <2>2, <3>1, <3>2
  <2> QED
    BY <2>1, <2>2 DEF Lines
<1>3. Mark(p) # Free
  BY DEF Mark, Free
<1> QED
  BY <1>2, <1>3

\* The empty board, and the one with a mark in the centre.
LEMMA FirstBoards ==
  /\ NewGame \in Games /\ OneMove \in Games
  /\ Centre \in FreeCells(NewGame.board) /\ Corner \in FreeCells(OneMove.board)
  /\ Taken(NewGame.board) = {} /\ Taken(OneMove.board) = {Centre}
  /\ NewGame.turn = "X" /\ OneMove.turn = "O" /\ OneMove.board[Centre] = "X"
  /\ \A p \in Players : ~HasLine(NewGame.board, p) /\ ~HasLine(OneMove.board, p)
  /\ ~isDone(NewGame.board) /\ ~isDone(OneMove.board)
<1>1. Centre \in Cells /\ Corner \in Cells /\ Centre # Corner
  BY DEF Centre, Corner, Cells, Side
<1>2. NewGame \in Games /\ NewGame.turn = "X" /\ \A c \in Cells : NewGame.board[c] = Free
  BY DEF NewGame, Games, Marks
<1>3. Taken(NewGame.board) = {} /\ \A c \in Cells : c \in FreeCells(NewGame.board)
  BY <1>2 DEF Taken, FreeCells
<1>4. OneMove \in Games /\ Taken(OneMove.board) = {Centre}
  BY <1>1, <1>2, <1>3, Moved DEF OneMove
<1>5. /\ OneMove.turn = "O" /\ OneMove.board[Centre] = "X"
      /\ \A e \in Cells : e # Centre => OneMove.board[e] = Free
  BY <1>1, <1>2 DEF OneMove, makeMove, NewGame, Foe
<1>6. Corner \in FreeCells(OneMove.board)
  BY <1>1, <1>5 DEF FreeCells
<1>7. \A p \in Players : ~HasLine(NewGame.board, p) /\ ~HasLine(OneMove.board, p)
  BY <1>2, <1>5, OneMark
<1>8. ~isDone(NewGame.board) /\ ~isDone(OneMove.board)
  <2>1. getWinner(NewGame.board) = Free /\ getWinner(OneMove.board) = Free
    BY <1>7, WinnerHasLine
  <2> QED
    BY <1>1, <1>3, <1>6, <2>1 DEF isDone
<1> QED
  BY <1>1, <1>2, <1>3, <1>4, <1>5, <1>6, <1>7, <1>8

-----------------------------------------------------------------------------
(* What getAutoMove returns.                                               *)

\* The lines looked at are lines of the board.
LEMMA LinesFromCells ==
  ASSUME NEW h \in Cells \X (1 .. 4)
  PROVE  LinesFrom(h[1])[h[2]] \subseteq Cells
<1>1. h[1] \in Cells /\ h[1][1] \in Side /\ h[1][2] \in Side /\ h[2] \in {1, 2, 3, 4}
  BY DEF Cells
<1>2. /\ \A i \in Side : Row(i) \subseteq Cells /\ Column(i) \subseteq Cells
      /\ Diagonal \subseteq Cells /\ Counter \subseteq Cells
  BY DEF Row, Column, Diagonal, Counter, Cells, Side
<1>3. /\ LinesFrom(h[1])[1] = Column(h[1][2]) /\ LinesFrom(h[1])[2] = Row(h[1][1])
      /\ LinesFrom(h[1])[3] = Diagonal /\ LinesFrom(h[1])[4] = Counter
  BY DEF LinesFrom
<1> QED
  BY <1>1, <1>2, <1>3

\* It completes a line with a free cell.
LEMMA CompletionIsFree == ASSUME NEW b, NEW m PROVE Completion(b, m) \subseteq FreeCells(b)
<1> DEFINE hits == {h \in Cells \X (1 .. 4) :
                      /\ b[h[1]] = m
                      /\ Cardinality({c \in LinesFrom(h[1])[h[2]] : b[c] = m}) = 2
                      /\ \E c \in LinesFrom(h[1])[h[2]] : b[c] = Free}
<1> DEFINE Rank(h) == 12 * h[1][1] + 4 * h[1][2] + h[2]
<1> DEFINE first == CHOOSE h \in hits : \A k \in hits : Rank(h) <= Rank(k)
<1>1. Completion(b, m) = IF hits = {} THEN {}
                         ELSE {c \in LinesFrom(first[1])[first[2]] : b[c] = Free}
  BY DEF Completion
<1>2. ASSUME hits # {} PROVE first \in hits
  <2> DEFINE ranks == {Rank(h) : h \in hits}
  <2>1. \A h \in hits : Rank(h) \in Nat
    BY DEF Cells, Side
  <2>2. ranks \in SUBSET Nat /\ ranks # {}
    <3> HIDE DEF hits, Rank
    <3> QED
      BY <1>2, <2>1
  <2>3. \E r \in ranks : \A s \in ranks : r <= s
    <3> HIDE DEF ranks
    <3> QED
      BY <2>2, Least
  <2>4. \E h \in hits : \A k \in hits : Rank(h) <= Rank(k)
    <3> HIDE DEF hits, Rank
    <3> QED
      BY <2>3
  <2> QED
    BY <2>4
<1>3. ASSUME hits # {} PROVE LinesFrom(first[1])[first[2]] \subseteq Cells
  BY <1>2, <1>3, LinesFromCells
<1> HIDE DEF hits, first
<1> QED
  BY <1>1, <1>3 DEF FreeCells

\* A free corner, the first one.
LEMMA CornerIsFree ==
  ASSUME NEW b
  PROVE  LET k == {n \in DOMAIN Corners : b[Corners[n]] = Free} IN
         k # {} => Corners[CHOOSE n \in k : \A m \in k : n <= m] \in FreeCells(b)
<1> DEFINE k == {n \in DOMAIN Corners : b[Corners[n]] = Free}
<1> SUFFICES ASSUME k # {} PROVE Corners[CHOOSE n \in k : \A m \in k : n <= m] \in FreeCells(b)
  OBVIOUS
<1>1. DOMAIN Corners = 1 .. 4 /\ \A n \in 1 .. 4 : Corners[n] \in Cells
  BY DEF Corners, Cells, Side
<1>2. k \in SUBSET Nat
  BY <1>1
<1>3. \E n \in k : \A m \in k : n <= m
  <2> HIDE DEF k
  <2> QED
    BY <1>2, Least
<1>4. (CHOOSE n \in k : \A m \in k : n <= m) \in k
  BY <1>3
<1> QED
  BY <1>1, <1>4 DEF FreeCells

\* While the game goes on the move is onto a free cell; then it is "-1 -1".
LEMMA AutoMoveIsFree ==
  ASSUME NEW g
  PROVE  /\ isDone(g.board) => getAutoMove(g) = {NoMove}
         /\ ~isDone(g.board) => getAutoMove(g) \subseteq FreeCells(g.board)
<1>1. isDone(g.board) => getAutoMove(g) = {NoMove}
  BY DEF getAutoMove
<1>2. ASSUME ~isDone(g.board) PROVE getAutoMove(g) \subseteq FreeCells(g.board)
  <2> DEFINE b == g.board
  <2> DEFINE k == {n \in DOMAIN Corners : b[Corners[n]] = Free}
  <2> DEFINE corner == Corners[CHOOSE n \in k : \A m \in k : n <= m]
  <2>1. getAutoMove(g) =
          IF isDone(b) THEN {NoMove}
          ELSE IF b[Centre] = Free THEN {Centre}
          ELSE IF Completion(b, g.turn) # {} THEN Completion(b, g.turn)
          ELSE IF Completion(b, Foe(g.turn)) # {} THEN Completion(b, Foe(g.turn))
          ELSE IF b[Centre] = Foe(g.turn) /\ k # {} THEN {corner}
          ELSE FreeCells(b)
    BY DEF getAutoMove, Centre
  <2>2. b[Centre] = Free => Centre \in FreeCells(b)
    BY DEF Centre, Cells, Side, FreeCells
  <2>3. k # {} => corner \in FreeCells(b)
    BY CornerIsFree
  <2>4. /\ Completion(b, g.turn) \subseteq FreeCells(b)
        /\ Completion(b, Foe(g.turn)) \subseteq FreeCells(b)
    BY CompletionIsFree
  <2> HIDE DEF corner, k
  <2> QED
    BY <1>2, <2>1, <2>2, <2>3, <2>4
<1> QED
  BY <1>1, <1>2

\* Whoever finds a mark in the centre and nothing else takes the first corner.
LEMMA SecondMove == getAutoMove(OneMove) = {Corner}
<1> DEFINE b == OneMove.board
<1>1. /\ b[Centre] = "X" /\ OneMove.turn = "O" /\ ~isDone(b)
      /\ \A e \in Cells : e # Centre => b[e] = Free
      /\ Corner \in Cells /\ Corner # Centre /\ Free # "X" /\ Free # "O"
  <2>1. \A e \in Cells : e # Centre => e \notin Taken(OneMove.board)
    BY FirstBoards
  <2> QED
    BY <2>1, FirstBoards DEF Taken, FreeCells, Free, Corner, Centre
<1>2. Completion(b, "O") = {}
  <2>1. \A h \in Cells \X (1 .. 4) : b[h[1]] # "O"
    BY <1>1
  <2> QED
    BY <2>1 DEF Completion
<1>3. Completion(b, "X") = {}
  <2>1. ASSUME NEW line \in SUBSET Cells PROVE Cardinality({c \in line : b[c] = "X"}) # 2
    <3>1. {c \in line : b[c] = "X"} \in SUBSET {Centre}
      BY <1>1
    <3>2. IsFiniteSet({Centre}) /\ Cardinality({Centre}) = 1
      BY FS_Singleton
    <3>3. /\ Cardinality({c \in line : b[c] = "X"}) <= 1
          /\ Cardinality({c \in line : b[c] = "X"}) \in Nat
      BY <3>1, <3>2, FS_Subset, FS_CardinalityType
    <3> QED
      BY <3>3
  <2>2. \A h \in Cells \X (1 .. 4) : LinesFrom(h[1])[h[2]] \in SUBSET Cells
    BY LinesFromCells
  <2>3. \A h \in Cells \X (1 .. 4) : Cardinality({c \in LinesFrom(h[1])[h[2]] : b[c] = "X"}) # 2
    BY <2>1, <2>2
  <2> HIDE DEF b
  <2> QED
    BY <2>3 DEF Completion
<1>4. Foe("O") = "X"
  BY DEF Foe
<1> DEFINE k == {n \in DOMAIN Corners : b[Corners[n]] = Free}
<1>5. /\ k # {} /\ Corners[CHOOSE n \in k : \A m \in k : n <= m] = Corner
  <2>1. DOMAIN Corners = 1 .. 4 /\ Corners[1] = Corner
    BY DEF Corners, Corner
  <2>2. 1 \in k /\ k \subseteq 1 .. 4
    BY <1>1, <2>1
  <2>3. \A n \in k : (\A m \in k : n <= m) => n = 1
    BY <2>2
  <2>4. (\A m \in k : 1 <= m)
    BY <2>2
  <2>5. (CHOOSE n \in k : \A m \in k : n <= m) = 1
    <3> HIDE DEF k
    <3> QED
      BY <2>2, <2>3, <2>4
  <2> QED
    BY <2>1, <2>2, <2>5
<1>6. getAutoMove(OneMove) =
        IF isDone(b) THEN {NoMove}
        ELSE IF b[Centre] = Free THEN {Centre}
        ELSE IF Completion(b, OneMove.turn) # {} THEN Completion(b, OneMove.turn)
        ELSE IF Completion(b, Foe(OneMove.turn)) # {} THEN Completion(b, Foe(OneMove.turn))
        ELSE IF b[Centre] = Foe(OneMove.turn) /\ k # {}
             THEN {Corners[CHOOSE n \in k : \A m \in k : n <= m]}
        ELSE FreeCells(b)
  BY DEF getAutoMove, Centre
<1> HIDE DEF b, k
<1> QED
  BY <1>1, <1>2, <1>3, <1>4, <1>5, <1>6

-----------------------------------------------------------------------------
(* Lines and answers.                                                      *)

\* The judger's lines.
LEMMA PrintedLines ==
  /\ Log \in Printed /\ Draw \in Printed
  /\ \A p \in Players : Win(p) \in Printed /\ Continue(p) \in Printed
  /\ \A p \in Players : \A c \in Cells : Send(p, c) \in Printed
BY DEF Printed

\* A cell, and what is printed when the game is over, are lines of two numbers.
LEMMA MovesAreBrief ==
  ASSUME NEW m \in Moves
  PROVE  m \in Brief /\ m \in Seq(Tokens) /\ Len(m) = 2 /\ m[1] \in Int /\ m[2] \in Int
<1>1. m = <<m[1], m[2]>> /\ m[1] \in Int /\ m[2] \in Int
  <2>1. CASE m \in Cells
    BY <2>1 DEF Cells, Side
  <2>2. CASE m = NoMove
    BY <2>2 DEF NoMove
  <2> QED
    BY <2>1, <2>2 DEF Moves
<1>2. \A x, y \in Int : <<x, y>> \in Seq(Tokens) /\ Len(<<x, y>>) = 2
  BY DEF Tokens
<1>3. m \in Seq(Tokens) /\ Len(m) = 2
  BY <1>1, <1>2
<1> QED
  BY <1>1, <1>3 DEF Brief

\* Inside the board, the cell named by two numbers is the cell that they name.
LEMMA AtIsCell == \A c \in Cells : At(c[1], c[2]) = c
<1> SUFFICES ASSUME NEW i \in Side, NEW j \in Side PROVE At(i, j) = <<i, j>>
  BY DEF Cells
<1>1. (3 * i + j) \div 3 = i /\ (3 * i + j) % 3 = j
  BY DEF Side
<1> QED
  BY <1>1 DEF At

\* Each line that is printed is one of these.
LEMMA PrintedIs ==
  ASSUME NEW line \in Printed
  PROVE  /\ line.cmd = "send" => \E p \in Players : \E c \in Cells : line = Send(p, c)
         /\ line.cmd = "continue" => \E p \in Players : line = Continue(p)
         /\ Final(line) => line = Draw \/ \E p \in Players : line = Win(p)
         /\ line.cmd \in Commands /\ line.to \in 0 .. 2
<1>1. \/ line = Log \/ line = Draw
      \/ \E p \in Players : line = Win(p)
      \/ \E p \in Players : line = Continue(p)
      \/ \E p \in Players : \E c \in Cells : line = Send(p, c)
  BY DEF Printed
<1>2. Log.to = 0 /\ Draw.to = 0 /\ \A p \in Players : p \in 0 .. 2
  BY DEF Log, Draw, Judger, Players
<1>3. CASE line = Log \/ line = Draw
  BY <1>2, <1>3, Kinds DEF Final, Commands
<1>4. CASE \E p \in Players : line = Win(p)
  BY <1>2, <1>4, Kinds DEF Final, Commands
<1>5. CASE \E p \in Players : line = Continue(p)
  BY <1>2, <1>5, Kinds DEF Final, Commands
<1>6. CASE \E p \in Players : \E c \in Cells : line = Send(p, c)
  <2>1. PICK p \in Players : \E c \in Cells : line = Send(p, c)
    BY <1>6
  <2>2. line.cmd = "send" /\ line.to = p
    BY <2>1, Kinds
  <2> QED
    BY <1>2, <2>1, <2>2 DEF Final, Commands
<1> QED
  BY <1>1, <1>3, <1>4, <1>5, <1>6

\* While the game, whose turn it is, and the answers stay, so does what is right.
LEMMA SameRight ==
  ASSUME UNCHANGED <<game, now, answers>>
  PROVE  \A line : Right(line)' <=> Right(line)
BY DEF Right, Offence

-----------------------------------------------------------------------------
(* A step of the relay, whatever the players print.                        *)

\* The relay leaves the programs and what they know alone.
LEMMA RelayFrame ==
  ASSUME Relays
  PROVE  UNCHANGED <<up, stuck, kind, game, now, view, opened, answers>>
BY RelayRunsNothing DEF Relays

\* A line that is read is the first of what the judger has printed.
LEMMA FirstLine ==
  ASSUME Types, NEW cmd, NextCommand(cmd)
  PROVE  /\ jout # <<>> /\ Head(jout) = jout[1] /\ Head(jout) \in Printed /\ Head(jout).cmd = cmd
         /\ jout' = Tail(jout) /\ jout' \in Seq(Printed) /\ Len(jout) \in Nat \ {0}
         /\ Len(jout') = Len(jout) - 1
         /\ \A k \in 1 .. Len(jout) - 1 : jout'[k] = jout[k + 1]
         /\ UNCHANGED <<jin, pout, up, stuck>> /\ Playing /\ asked = 0
<1>1. jout \in Seq(Printed) /\ jout # <<>> /\ Head(jout).cmd = cmd /\ jout' = Tail(jout)
  BY DEF NextCommand, Types, StreamTypes
<1>2. /\ Head(jout) = jout[1] /\ Head(jout) \in Printed
      /\ Len(jout) \in Nat \ {0} /\ jout' \in Seq(Printed)
      /\ Len(jout') = Len(jout) - 1
      /\ \A k \in 1 .. Len(jout) - 1 : jout'[k] = jout[k + 1]
  BY <1>1, HeadAndTail
<1> QED
  BY <1>1, <1>2 DEF NextCommand, Waits

\* A step of the relay keeps the types.
LEMMA RelayTyped == ASSUME Types, Relays PROVE Types'
<1>1. UNCHANGED <<up, stuck, kind, game, now, view, opened, answers>>
  BY RelayFrame
<1>2. BoardTypes'
  BY <1>1 DEF Types, BoardTypes
<1>3. CASE ObeySend
  <2>1. /\ Head(jout) \in Printed /\ Head(jout).cmd = "send" /\ jout' \in Seq(Printed)
        /\ UNCHANGED <<jin, pout, up, stuck>>
    BY <1>3, FirstLine DEF ObeySend
  <2>2. PICK p \in Players : \E c \in Cells : Head(jout) = Send(p, c)
    BY <2>1, PrintedIs
  <2>3. PICK c \in Cells : Head(jout) = Send(p, c)
    BY <2>2
  <2>3a. Head(jout).to = p /\ Head(jout).msg = c
    BY <2>3, Kinds
  <2>4. pin' = IF p \in up THEN [pin EXCEPT ![p] = Append(@, c)] ELSE pin
    BY <1>3, <2>3a DEF ObeySend
  <2>5. pin' \in [Players -> Seq(Cells)]
    <3>1. pin[p] \in Seq(Cells) /\ Append(pin[p], c) \in Seq(Cells)
      BY Longer DEF Types, StreamTypes
    <3> QED
      BY <2>4, <3>1 DEF Types, StreamTypes
  <2>6. StreamTypes'
    BY <2>1, <2>5 DEF Types, StreamTypes
  <2> QED
    BY <1>1, <1>2, <1>3, <2>6 DEF ObeySend, Types, RelayTypes
<1>4. CASE ObeyContinue \/ Skip \/ Verdict
  <2>1. /\ jout' \in Seq(Printed) /\ UNCHANGED <<jin, pout, pin>>
    BY <1>4, FirstLine DEF ObeyContinue, Skip, Verdict
  <2>2. StreamTypes'
    BY <2>1 DEF Types, StreamTypes
  <2>3. asked' \in {asked, 0} \cup Players
    <3>1. CASE ObeyContinue
      <4>1. PICK p \in Players : Head(jout) = Continue(p)
        BY <3>1, FirstLine, PrintedIs DEF ObeyContinue
      <4> QED
        BY <3>1, <4>1, Kinds DEF ObeyContinue
    <3>2. CASE Skip \/ Verdict
      BY <3>2 DEF Skip, Verdict
    <3> QED
      BY <1>4, <3>1, <3>2
  <2>4. result'.kind \in {"none", "win", "draw", "error"} /\ result'.who \in 0 .. 2
    <3>1. CASE ObeyContinue \/ Skip
      BY <3>1 DEF ObeyContinue, Skip, Types, RelayTypes
    <3>2. CASE Verdict
      <4>1. PICK cmd \in {"win", "draw"} : NextCommand(cmd)
        BY <3>2 DEF Verdict
      <4>2. Head(jout) \in Printed /\ Head(jout).cmd = cmd
        BY <4>1, FirstLine
      <4>3. Head(jout).to \in 0 .. 2
        BY <4>2, PrintedIs
      <4>4. result' = [kind |-> Head(jout).cmd, who |-> Head(jout).to, scores |-> Head(jout).msg]
        BY <3>2 DEF Verdict
      <4>5. result'.kind = cmd /\ result'.who = Head(jout).to
        BY <4>2, <4>4
      <4> QED
        BY <4>3, <4>5
    <3> QED
      BY <1>4, <3>1, <3>2
  <2>5. RelayTypes'
    BY <1>1, <2>3, <2>4 DEF Types, RelayTypes, Players
  <2> QED
    BY <1>2, <2>2, <2>5 DEF Types
<1>5. CASE PassAnswer
  <2>1. asked \in Players /\ pout[asked] \in Seq(Seq(Tokens)) /\ pout[asked] # <<>>
    BY <1>5 DEF PassAnswer, Types, RelayTypes, StreamTypes, Players
  <2>2. Head(pout[asked]) \in Seq(Tokens) /\ Tail(pout[asked]) \in Seq(Seq(Tokens))
    BY <2>1, HeadAndTail
  <2>3. <<asked>> \in Seq(Tokens)
    BY <2>1 DEF Tokens, Players
  <2>4. jin' \in Seq(Tokens)
    <3>1. jin \o <<asked>> \in Seq(Tokens)
      BY <2>3 DEF Types, StreamTypes
    <3>2. jin \o <<asked>> \o Head(pout[asked]) \in Seq(Tokens)
      BY <2>2, <3>1
    <3> QED
      BY <1>5, <3>2 DEF PassAnswer, Types, StreamTypes
  <2>5. pout' \in [Players -> Seq(Seq(Tokens))]
    BY <1>5, <2>2 DEF PassAnswer, Types, StreamTypes
  <2>6. StreamTypes'
    BY <1>5, <2>4, <2>5 DEF PassAnswer, Types, StreamTypes
  <2> QED
    BY <1>1, <1>2, <1>5, <2>6 DEF PassAnswer, Types, RelayTypes
<1>6. CASE PlayerFails(opened) \/ JudgerFails
  <2>1. result'.kind = "error" /\ result'.who \in 0 .. 2
    <3>1. asked \in 0 .. 2
      BY DEF Types, RelayTypes
    <3>2. CASE PlayerFails(opened)
      BY <3>1, <3>2 DEF PlayerFails, NoResult
    <3>3. CASE JudgerFails
      BY <3>3 DEF JudgerFails, NoResult, Judger
    <3> QED
      BY <1>6, <3>2, <3>3
  <2>2. UNCHANGED <<jout, jin, pin, pout, asked>>
    BY <1>6 DEF PlayerFails, JudgerFails
  <2> QED
    BY <1>1, <1>2, <2>1, <2>2 DEF Types, RelayTypes, StreamTypes
<1> QED
  BY <1>3, <1>4, <1>5, <1>6 DEF Relays, Relay

\* A verdict that is read is one that the judger printed; the others stay.
LEMMA RelayRules ==
  ASSUME Types, Relays, Verdicts, Ruled
  PROVE  Verdicts' /\ Ruled'
<1>1. UNCHANGED <<up, stuck, kind, game, now, view, opened, answers>>
  BY RelayFrame
<1>2. \A line : Right(line)' <=> Right(line)
  BY <1>1, SameRight
<1>3. ASSUME NEW cmd, NextCommand(cmd) PROVE Verdicts'
  <2>1. /\ Len(jout) \in Nat \ {0} /\ Len(jout') = Len(jout) - 1
        /\ \A k \in 1 .. Len(jout) - 1 : jout'[k] = jout[k + 1]
    BY <1>3, FirstLine
  <2>2. \A k \in 1 .. Len(jout') : k + 1 \in 1 .. Len(jout) /\ jout'[k] = jout[k + 1]
    BY <2>1
  <2>3. \A k \in 1 .. Len(jout') : Final(jout'[k]) => Judger \notin up' /\ Right(jout'[k])
    BY <1>1, <2>2 DEF Verdicts
  <2>4. \A line : Final(line)' <=> Final(line)
    BY DEF Final
  <2> QED
    BY <1>2, <2>3 DEF Verdicts, Final
<1>4. UNCHANGED jout => Verdicts'
  BY <1>1, <1>2 DEF Verdicts, Final
<1>5. UNCHANGED result => Ruled'
  BY <1>1, <1>2 DEF Ruled
<1>6. CASE ObeySend \/ ObeyContinue \/ Skip
  BY <1>3, <1>5, <1>6 DEF ObeySend, ObeyContinue, Skip
<1>7. CASE PassAnswer
  BY <1>4, <1>5, <1>7 DEF PassAnswer
<1>8. CASE PlayerFails(opened) \/ JudgerFails
  <2>1. result'.kind = "error" /\ UNCHANGED jout
    BY <1>8 DEF PlayerFails, JudgerFails, NoResult
  <2> QED
    BY <1>4, <2>1 DEF Ruled
<1>9. CASE Verdict
  <2>1. PICK cmd \in {"win", "draw"} : NextCommand(cmd)
    BY <1>9 DEF Verdict
  <2>2. /\ Head(jout) = jout[1] /\ Head(jout) \in Printed /\ Head(jout).cmd = cmd
        /\ 1 \in 1 .. Len(jout)
    BY <2>1, FirstLine
  <2>3. Judger \notin up /\ Right(Head(jout))
    BY <2>2 DEF Verdicts, Final
  <2>4. result' = [kind |-> Head(jout).cmd, who |-> Head(jout).to, scores |-> Head(jout).msg]
    BY <1>9 DEF Verdict
  <2>5. /\ result'.kind = cmd /\ result'.who = Head(jout).to
        /\ result'.scores = Head(jout).msg
    BY <2>2, <2>4
  <2>6. Ruled'
    <3>1. CASE \E p \in Players : Head(jout) = Win(p)
      <4>1. PICK p \in Players : Head(jout) = Win(p)
        BY <3>1
      <4>2. result'.kind = "win" /\ result'.who = p /\ result'.scores = Win(p).msg
        BY <2>2, <2>5, <4>1, Kinds
      <4>3. Right(Win(p))'
        BY <1>2, <2>3, <4>1
      <4>4. /\ result'.kind = "win" => Right(Win(result.who))' /\ result'.who \in Players
                                        /\ result'.scores = Win(result'.who).msg
            /\ result'.kind # "draw"
        BY <4>2, <4>3
      <4> QED
        BY <1>1, <2>3, <4>4 DEF Ruled
    <3>2. CASE Head(jout) = Draw
      <4>1. result'.kind = "draw" /\ result'.scores = Draw.msg
        BY <2>2, <2>5, <3>2, Kinds
      <4>2. Right(Draw)'
        BY <1>2, <2>3, <3>2
      <4> QED
        BY <1>1, <2>3, <4>1, <4>2 DEF Ruled
    <3> QED
      BY <2>2, <3>1, <3>2, PrintedIs DEF Final
  <2> QED
    BY <1>3, <2>1, <2>6
<1> QED
  BY <1>6, <1>7, <1>8, <1>9 DEF Relays, Relay

-----------------------------------------------------------------------------
(* A step of a player, whatever it prints.                                 *)

\* A move onto any cell makes a board of a board.
LEMMA Made ==
  ASSUME NEW g \in Games, NEW c \in Cells
  PROVE  makeMove(g, c) \in Games
<1>1. g.board \in [Cells -> Marks] /\ g.turn \in {"X", "O"} /\ g.turn \in Marks
  BY DEF Games, Marks
<1>2. [g.board EXCEPT ![c] = g.turn] \in [Cells -> Marks]
  BY <1>1
<1> QED
  BY <1>1, <1>2 DEF makeMove, Games, Foe

\* What main answers with is a move, which makes a board of the board it knows.
LEMMA AutoMoveIsMove ==
  ASSUME NEW g \in Games, NEW move \in getAutoMove(g)
  PROVE  move \in Moves /\ (move # NoMove => move \in Cells /\ makeMove(g, move) \in Games)
<1>1. move = NoMove \/ move \in FreeCells(g.board)
  BY AutoMoveIsFree
<1>2. FreeCells(g.board) \subseteq Cells
  BY DEF FreeCells
<1> QED
  BY <1>1, <1>2, Made DEF Moves

\* What a player leaves alone.
LEMMA PlayerFrame ==
  ASSUME Types, NEW p \in Players, Plays(p)
  PROVE  /\ UNCHANGED <<jout, jin, asked, result, kind, game, now, answers>>
         /\ pin' = pin \/ (pin[p] # <<>> /\ pin' = [pin EXCEPT ![p] = Tail(@)])
         /\ p \in up \ stuck
         /\ up' \in {up, up \ {p}} /\ stuck' \in {stuck, stuck \cup {p}}
         /\ up' = up \/ stuck' = stuck
         /\ Judger \in up' <=> Judger \in up
         /\ opened' \in {opened, opened \cup {p}}
<1>1. /\ UNCHANGED <<jout, jin, asked, result, kind, game, now, answers>>
      /\ Runs(p)
      /\ UNCHANGED pin \/ PlayerReads(p)
      /\ opened' \in {opened, opened \cup {p}}
  <2>1. CASE Opens(p)
    BY <2>1 DEF Opens, playerFrame
  <2>2. CASE ShippedMoves(p) \/ BadMoves(p) \/ GivesUp(p)
    BY <2>2 DEF ShippedMoves, BadMoves, GivesUp, Hears, Told, PlayerReads, playerFrame
  <2>3. CASE StrangerMoves(p)
    BY <2>3 DEF StrangerMoves, PlayerReads, playerFrame
  <2> QED
    BY <2>1, <2>2, <2>3 DEF Plays
<1>2. /\ up' \in {up, up \ {p}} /\ stuck' \in {stuck, stuck \cup {p}}
      /\ up' = up \/ stuck' = stuck
  BY DEF Plays, Opens, ShippedMoves, BadMoves, GivesUp, StrangerMoves, Whatever, Stays, Spins,
    Exits
<1>3. Judger \in up' <=> Judger \in up
  BY <1>2 DEF Players, Judger
<1> QED
  BY <1>1, <1>2, <1>3 DEF PlayerReads, Runs

\* What a player has printed, and its board, are its own.
LEMMA PlayerOwns ==
  ASSUME Types, NEW p \in Players, Plays(p)
  PROVE  /\ \/ pout' = pout
            \/ \E r \in Seq(Tokens) : pout' = [pout EXCEPT ![p] = Append(@, r)]
         /\ \/ view' = view
            \/ \E g \in Games : view' = [view EXCEPT ![p] = g]
<1>1. view[p] \in Games /\ view \in [Players -> Games]
  BY DEF Types, BoardTypes
<1>2. CASE Opens(p)
  <2>1. PICK c : c = <<1, 1>>
    OBVIOUS
  <2>2. c \in Cells /\ c \in Moves
    BY <2>1 DEF Cells, Side, Moves
  <2>3. \/ pout' = [pout EXCEPT ![p] = Append(@, c)] /\ view' = [view EXCEPT ![p] = makeMove(@, c)]
        \/ UNCHANGED <<pout, view>>
    BY <1>2, <2>1 DEF Opens, PlayerPrints
  <2>4. c \in Seq(Tokens) /\ makeMove(view[p], c) \in Games
    BY <1>1, <2>2, MovesAreBrief, Made
  <2>5. view' = view \/ view' = [view EXCEPT ![p] = makeMove(view[p], c)]
    BY <1>1, <2>3
  <2> QED
    BY <2>3, <2>4, <2>5
<1>3. ASSUME NEW what, Hears(p, what) PROVE Heard(p) \in Games
  BY <1>1, <1>3, Made DEF Hears, Heard, FreeCells
<1>4. CASE ShippedMoves(p)
  <2>1. Heard(p) \in Games
    BY <1>3, <1>4 DEF ShippedMoves
  <2>2. PICK move \in getAutoMove(Heard(p)) :
          /\ PlayerPrints(p, move)
          /\ \/ Makes(p, Heard(p))
             \/ move # NoMove /\ Makes(p, makeMove(Heard(p), move))
    BY <1>4 DEF ShippedMoves
  <2>3. move \in Moves /\ (move # NoMove => makeMove(Heard(p), move) \in Games)
    BY <2>1, <2>2, AutoMoveIsMove
  <2>4. move \in Seq(Tokens)
    BY <2>3, MovesAreBrief
  <2> QED
    BY <2>1, <2>2, <2>3, <2>4 DEF PlayerPrints, Makes
<1>5. CASE BadMoves(p)
  <2>1. Heard(p) \in Games
    BY <1>3, <1>5 DEF BadMoves
  <2>2. PICK move \in getAutoMove(Heard(p)) : PlayerPrints(p, move) /\ Makes(p, Heard(p))
    BY <1>5 DEF BadMoves
  <2>3. move \in Moves
    BY <2>1, <2>2, AutoMoveIsMove
  <2>4. move \in Seq(Tokens)
    BY <2>3, MovesAreBrief
  <2> QED
    BY <2>1, <2>2, <2>4 DEF PlayerPrints, Makes
<1>6. CASE GivesUp(p)
  BY <1>6 DEF GivesUp
<1>7. CASE StrangerMoves(p)
  <2>1. UNCHANGED view
    BY <1>7 DEF StrangerMoves
  <2>2. (IF p = 1 \/ p \in opened THEN LinesOf(kind[p]) ELSE {}) \subseteq Seq(Tokens)
    BY LinesAreTokens
  <2>3. pout' = pout \/ \E r \in Seq(Tokens) : pout' = [pout EXCEPT ![p] = Append(@, r)]
    BY <1>7, <2>2 DEF StrangerMoves, Whatever, PlayerPrints
  <2> QED
    BY <2>1, <2>3
<1> QED
  BY <1>2, <1>4, <1>5, <1>6, <1>7 DEF Plays

\* A step of a player keeps the types.
LEMMA PlayerTyped == ASSUME Types, NEW p \in Players, Plays(p) PROVE Types'
<1>1. /\ UNCHANGED <<jout, jin, asked, result, kind, game, now, answers>>
      /\ pin' = pin \/ (pin[p] # <<>> /\ pin' = [pin EXCEPT ![p] = Tail(@)])
      /\ p \in up \ stuck
      /\ up' \in {up, up \ {p}} /\ stuck' \in {stuck, stuck \cup {p}}
      /\ up' = up \/ stuck' = stuck
      /\ opened' \in {opened, opened \cup {p}}
  BY PlayerFrame
<1>2. pin' \in [Players -> Seq(Cells)]
  <2>1. pin[p] # <<>> => Tail(pin[p]) \in Seq(Cells)
    BY HeadAndTail DEF Types, StreamTypes
  <2> QED
    BY <1>1, <2>1 DEF Types, StreamTypes
<1>3. pout' \in [Players -> Seq(Seq(Tokens))]
  <2>1. pout \in [Players -> Seq(Seq(Tokens))]
    BY DEF Types, StreamTypes
  <2>2. \A r \in Seq(Tokens) : Append(pout[p], r) \in Seq(Seq(Tokens))
    BY <2>1, Longer
  <2>3. CASE \E r \in Seq(Tokens) : pout' = [pout EXCEPT ![p] = Append(@, r)]
    <3>1. PICK r \in Seq(Tokens) : pout' = [pout EXCEPT ![p] = Append(@, r)]
      BY <2>3
    <3>2. Append(pout[p], r) \in Seq(Seq(Tokens))
      BY <2>2
    <3> QED
      BY <2>1, <3>1, <3>2
  <2> QED
    BY <2>1, <2>3, PlayerOwns
<1>4. StreamTypes'
  BY <1>1, <1>2, <1>3 DEF Types, StreamTypes
<1>5. view' \in [Players -> Games]
  BY PlayerOwns DEF Types, BoardTypes
<1>6. RelayTypes'
  BY <1>1 DEF Types, RelayTypes
<1> QED
  BY <1>1, <1>4, <1>5, <1>6 DEF Types, BoardTypes

\* A step of a player keeps what is said of the judger and of the result.
LEMMA PlayerRules ==
  ASSUME Types, NEW p \in Players, Plays(p), Verdicts, Ruled, Counts
  PROVE  Verdicts' /\ Ruled' /\ Counts'
<1>1. /\ UNCHANGED <<jout, result, kind, game, now, answers>>
      /\ Judger \in up' <=> Judger \in up
  BY PlayerFrame
<1>2. \A line : Right(line)' <=> Right(line)
  BY <1>1, SameRight
<1>3. Verdicts'
  BY <1>1, <1>2 DEF Verdicts, Final
<1>4. Ruled'
  BY <1>1, <1>2 DEF Ruled
<1>5. Counts'
  BY <1>1 DEF Counts, Offence
<1> QED
  BY <1>3, <1>4, <1>5

-----------------------------------------------------------------------------
(* A step of the judger, whatever it reads.                                *)

\* It takes three tokens, the first of which is the id.
LEMMA Reads ==
  ASSUME Types, Counts, JudgerReads
  PROVE  /\ Judger \in up /\ Complete /\ jin' \in Seq(Tokens) /\ jin # <<>>
         /\ Len(jin) = 3 => jin' = <<>>
         /\ answers' = Append(answers, jin[1]) /\ answers' \in Seq(Int)
         /\ Len(answers') = 10 - Cardinality(FreeCells(game.board))
         /\ answers'[Len(answers')] = jin[1]
         /\ ~isDone(game.board)
         /\ UNCHANGED <<kind, view, opened>>
<1>1. /\ Judger \in up /\ Complete /\ jin' = SubSeq(jin, 4, Len(jin))
      /\ answers' = Append(answers, jin[1]) /\ UNCHANGED <<kind, view, opened>>
  BY DEF JudgerReads, JudgerTakes
<1>2. jin \in Seq(Tokens) /\ Len(jin) \in Nat /\ Len(jin) >= 3 /\ answers \in Seq(Int)
  BY <1>1 DEF Types, StreamTypes, BoardTypes, Complete
<1>3. jin' \in Seq(Tokens) /\ (Len(jin) = 3 => jin' = <<>>) /\ jin # <<>>
  BY <1>1, <1>2, BehindAnAnswer, EmptySeq
<1>4. jin[1] \in Int
  <2>1. 1 \in DOMAIN jin \cap (1 .. 3) /\ jin[1] \in Tokens
    BY <1>2
  <2>2. jin[1] \in NextTokens /\ Word \notin NextTokens
    BY <1>1, <2>1 DEF NextTokens, Complete, Garbled
  <2> QED
    BY <2>1, <2>2 DEF Tokens
<1>5. /\ answers' \in Seq(Int) /\ Len(answers') = Len(answers) + 1
      /\ answers'[Len(answers')] = jin[1]
  BY <1>1, <1>2, <1>4
<1>6. Len(answers) = 9 - Cardinality(FreeCells(game.board)) /\ ~isDone(game.board)
  <2>1. /\ Len(answers) >= 9 - Cardinality(FreeCells(game.board))
        /\ ~(Len(answers) > 9 - Cardinality(FreeCells(game.board))) /\ ~isDone(game.board)
    BY <1>1 DEF Counts, Offence
  <2>2. Cardinality(FreeCells(game.board)) \in Int /\ Len(answers) \in Int
    BY <1>2, Nine
  <2> QED
    BY <2>1, <2>2
<1>7. Len(answers') = 10 - Cardinality(FreeCells(game.board))
  <2>1. Cardinality(FreeCells(game.board)) \in Int
    BY Nine
  <2> QED
    BY <1>5, <1>6, <2>1
<1> QED
  BY <1>1, <1>3, <1>5, <1>6, <1>7

\* What the judger adds to its lines holds no verdict that is wrong, or not its last word.
LEMMA Appended ==
  ASSUME Types, Verdicts, Ruled, Judger \in up, UNCHANGED result,
         NEW lines \in Seq(Printed), jout' = jout \o lines,
         \A i \in 1 .. Len(lines) : Final(lines[i]) => Judger \notin up' /\ Right(lines[i])'
  PROVE  jout' \in Seq(Printed) /\ Verdicts' /\ Ruled'
<1>1. /\ jout' \in Seq(Printed)
      /\ \A k \in 1 .. Len(jout) : jout'[k] = jout[k]
      /\ \A k \in 1 .. Len(jout') : ~(k <= Len(jout)) =>
           k - Len(jout) \in 1 .. Len(lines) /\ jout'[k] = lines[k - Len(jout)]
  BY Joined DEF Types, StreamTypes
<1>2. ASSUME NEW k \in 1 .. Len(jout'), Final(jout'[k])
      PROVE  Judger \notin up' /\ Right(jout[k])'
  <2>1. ~(k <= Len(jout))
    <3>1. k <= Len(jout) => k \in 1 .. Len(jout) /\ Final(jout[k])
      BY <1>1, <1>2
    <3> QED
      BY <3>1 DEF Verdicts
  <2>2. k - Len(jout) \in 1 .. Len(lines) /\ jout'[k] = lines[k - Len(jout)]
    BY <1>1, <2>1
  <2>3. PICK line : line = jout'[k]
    OBVIOUS
  <2>4. Judger \notin up' /\ Right(line)'
    BY <1>2, <2>2, <2>3
  <2>5. Right(jout[k])'
    BY <2>3, <2>4 DEF Right
  <2> QED
    BY <2>4, <2>5
<1>3. Verdicts'
  BY <1>2 DEF Verdicts, Final
<1> QED
  BY <1>1, <1>3 DEF Ruled

\* An answer that is no free cell is an offence, and the other player wins.
LEMMA RefusesRules == ASSUME WInv, JudgerRefuses PROVE WInv'
<1>0. Types /\ Verdicts /\ Ruled /\ Counts
  BY DEF WInv
<1>1. /\ JudgerReads /\ now' = Other(now) /\ game' = game
      /\ JudgerPrints(<<Win(Other(now))>>)
  BY DEF JudgerRefuses
<1>2. now \in Players /\ now' \in Players
  BY <1>0, <1>1, Others DEF Types, BoardTypes
<1>2a. PICK q \in Players : q = now'
  BY <1>2
<1>2b. PICK line : line = Win(q)
  OBVIOUS
<1>3. line \in Printed /\ Final(line) /\ JudgerPrints(<<line>>)
  BY <1>1, <1>2a, <1>2b, PrintedLines, Kinds DEF Final
<1>3a. PICK lines : lines = <<line>>
  OBVIOUS
<1>4. /\ lines \in Seq(Printed) /\ Len(lines) = 1 /\ lines[1] = line
      /\ \A i \in 1 .. Len(lines) : lines[i] = line
  BY <1>3, <1>3a
<1>5. JudgerPrints(lines)
  BY <1>3, <1>3a
<1>6. jout' = jout \o lines /\ up' = up \ {Judger}
  BY <1>3, <1>4, <1>5, Prints
<1>7. /\ Judger \in up /\ jin' \in Seq(Tokens) /\ answers' \in Seq(Int)
      /\ Len(answers') = 10 - Cardinality(FreeCells(game.board))
      /\ UNCHANGED <<kind, view, opened>>
  BY <1>0, <1>1, Reads
<1>8. Offence' /\ Counts'
  <2>1. Cardinality(FreeCells(game'.board)) \in Int
    BY Nine
  <2> QED
    BY <1>1, <1>6, <1>7, <2>1 DEF Offence, Counts
<1>9. Right(line)'
  BY <1>8, <1>2a, <1>2b DEF Right
<1>10. UNCHANGED <<pin, pout, asked, stuck, result>>
  BY <1>1 DEF JudgerPrints
<1>11. \A i \in 1 .. Len(lines) : Final(lines[i]) => Judger \notin up' /\ Right(lines[i])'
  BY <1>4, <1>6, <1>9
<1>12. jout' \in Seq(Printed) /\ Verdicts' /\ Ruled'
  BY <1>0, <1>4, <1>6, <1>7, <1>10, <1>11, Appended
<1>13. Types'
  <2>1. StreamTypes'
    BY <1>0, <1>7, <1>10, <1>12 DEF Types, StreamTypes
  <2>2. RelayTypes'
    BY <1>0, <1>6, <1>10 DEF Types, RelayTypes, Players, Judger
  <2>3. BoardTypes'
    BY <1>0, <1>1, <1>2, <1>7 DEF Types, BoardTypes
  <2> QED
    BY <2>1, <2>2, <2>3 DEF Types
<1> QED
  BY <1>8, <1>12, <1>13 DEF WInv

\* A judger that loses its input leaves without a word.
LEMMA LeavesRules == ASSUME WInv, JudgerLeaves PROVE WInv'
<1>0. Types /\ Verdicts /\ Ruled /\ Counts
  BY DEF WInv
<1>1. /\ Judger \in up /\ jin' = <<>> /\ up' = up \ {Judger}
      /\ UNCHANGED <<jout, pin, pout, asked, stuck, result, game, now, kind, view, opened, answers>>
  BY DEF JudgerLeaves, JudgerLosesInput
<1>2. \A line : Right(line)' <=> Right(line)
  BY <1>1, SameRight
<1>3. Verdicts'
  BY <1>0, <1>1, <1>2 DEF Verdicts, Final
<1>4. Ruled'
  BY <1>0, <1>1, <1>2 DEF Ruled
<1>5. Counts'
  BY <1>0, <1>1 DEF Counts
<1>6. Types'
  <2>1. jin' \in Seq(Tokens)
    BY <1>1, EmptySeq
  <2>2. StreamTypes'
    BY <1>0, <1>1, <2>1 DEF Types, StreamTypes
  <2>3. RelayTypes'
    BY <1>0, <1>1 DEF Types, RelayTypes, Players, Judger
  <2>4. BoardTypes'
    BY <1>0, <1>1 DEF Types, BoardTypes
  <2> QED
    BY <2>2, <2>3, <2>4 DEF Types
<1> QED
  BY <1>3, <1>4, <1>5, <1>6 DEF WInv

\* What the judger prints once a move is made: a log, the move, and what comes next.
LEMMA AfterMoveIs ==
  ASSUME NEW c \in Cells, NEW b, NEW lines, lines = AfterMove(b, c), now \in Players
  PROVE  \E last \in Printed :
           /\ last = IF ~isDone(b) THEN Continue(Other(now))
                     ELSE IF getWinner(b) # Free THEN Win(Player(getWinner(b))) ELSE Draw
           /\ lines \in Seq(Printed) /\ Len(lines) = 3
           /\ lines[1] = Log /\ lines[2] = Send(Other(now), c) /\ lines[3] = last
<1> DEFINE last == IF ~isDone(b) THEN Continue(Other(now))
                   ELSE IF getWinner(b) # Free THEN Win(Player(getWinner(b))) ELSE Draw
<1>1. last \in Printed
  <2>1. CASE ~isDone(b)
    BY <2>1, Others DEF Printed
  <2>2. CASE isDone(b) /\ getWinner(b) # Free
    BY <2>2, WinnerHasLine DEF Printed
  <2>3. CASE isDone(b) /\ getWinner(b) = Free
    BY <2>3 DEF Printed
  <2> QED
    BY <2>1, <2>2, <2>3
<1>2. lines = <<Log, Send(Other(now), c)>> \o <<last>>
  <2>1. CASE ~isDone(b)
    BY <2>1 DEF AfterMove
  <2>2. CASE isDone(b) /\ getWinner(b) # Free
    BY <2>2 DEF AfterMove
  <2>3. CASE isDone(b) /\ getWinner(b) = Free
    BY <2>3 DEF AfterMove
  <2> QED
    BY <2>1, <2>2, <2>3
<1>3. Log \in Printed /\ Send(Other(now), c) \in Printed
  BY Others, PrintedLines
<1>4. ASSUME NEW x \in Printed, NEW y \in Printed, NEW z \in Printed
      PROVE  LET s == <<x, y>> \o <<z>> IN
             s \in Seq(Printed) /\ Len(s) = 3 /\ s[1] = x /\ s[2] = y /\ s[3] = z
  OBVIOUS
<1> HIDE DEF last
<1>5. /\ lines \in Seq(Printed) /\ Len(lines) = 3
      /\ lines[1] = Log /\ lines[2] = Send(Other(now), c) /\ lines[3] = last
  BY <1>1, <1>2, <1>3, <1>4
<1> QED
  BY <1>1, <1>5 DEF last

\* A move that is accepted, the lines that follow it, and whether the judger goes on.
LEMMA AcceptsMove ==
  ASSUME Types, Counts, JudgerAccepts
  PROVE  \E c \in FreeCells(game.board), lines \in Seq(Printed) :
           /\ c = Answer /\ c \in Cells
           /\ game' = makeMove(game, c) /\ game' \in Games /\ game'.board[c] # Free
           /\ FreeCells(game'.board) = FreeCells(game.board) \ {c}
           /\ Taken(game'.board) = Taken(game.board) \cup {c}
           /\ now' = Other(now) /\ now \in Players /\ now' \in Players
           /\ jout' = jout \o lines /\ Len(lines) = 3
           /\ lines[1] = Log /\ lines[2] = Send(now', c)
           /\ lines[3] = IF ~isDone(game'.board) THEN Continue(now')
                         ELSE IF getWinner(game'.board) # Free
                              THEN Win(Player(getWinner(game'.board))) ELSE Draw
           /\ up' = IF isDone(game'.board) THEN up \ {Judger} ELSE up
           /\ Final(lines[3]) <=> isDone(game'.board)
           /\ Judger \in up' <=> ~isDone(game'.board)
           /\ UNCHANGED <<pin, pout, asked, stuck, result>>
           /\ ~Offence' /\ Len(answers') = 9 - Cardinality(FreeCells(game'.board))
<1>0. game \in Games /\ now \in Players /\ Other(now) \in Players
  BY Others DEF Types, BoardTypes
<1>1. PICK c \in FreeCells(game.board) :
        /\ c = Answer /\ game' = makeMove(game, c) /\ now' = Other(now)
        /\ JudgerReads /\ JudgerPrints(AfterMove(game'.board, c))
  BY DEF JudgerAccepts
<1>2. c \in Cells
  BY DEF FreeCells
<1>3. /\ game' \in Games /\ game'.board[c] # Free
      /\ FreeCells(game'.board) = FreeCells(game.board) \ {c}
      /\ Taken(game'.board) = Taken(game.board) \cup {c}
      /\ Cardinality(FreeCells(game'.board)) = Cardinality(FreeCells(game.board)) - 1
  BY <1>0, <1>1, Moved
<1>4. PICK lines : lines = AfterMove(game'.board, c)
  OBVIOUS
<1>5. PICK last \in Printed :
        /\ last = IF ~isDone(game'.board) THEN Continue(Other(now))
                  ELSE IF getWinner(game'.board) # Free
                       THEN Win(Player(getWinner(game'.board))) ELSE Draw
        /\ lines \in Seq(Printed) /\ Len(lines) = 3
        /\ lines[1] = Log /\ lines[2] = Send(Other(now), c) /\ lines[3] = last
  BY <1>0, <1>2, <1>4, AfterMoveIs
<1>6. Final(last) <=> isDone(game'.board)
  BY <1>5, Kinds DEF Final
<1>7. /\ jout' = jout \o lines
      /\ up' = IF isDone(game'.board) THEN up \ {Judger} ELSE up
      /\ UNCHANGED <<pin, pout, asked, stuck, result>>
  <2>1. JudgerPrints(lines)
    BY <1>1, <1>4
  <2>2. lines[Len(lines)] = last
    BY <1>5
  <2> QED
    BY <1>6, <2>1, <2>2, Prints DEF JudgerPrints
<1>8. Judger \in up' <=> ~isDone(game'.board)
  <2>1. Judger \in up
    BY <1>1, Reads
  <2> QED
    BY <1>7, <2>1
<1>9. ~Offence' /\ Len(answers') = 9 - Cardinality(FreeCells(game'.board))
  <2>1. Len(answers') = 10 - Cardinality(FreeCells(game.board))
    BY <1>1, Reads
  <2>2. Cardinality(FreeCells(game.board)) \in Int
    BY Nine
  <2>3. Len(answers') = 9 - Cardinality(FreeCells(game'.board))
    BY <1>3, <2>1, <2>2
  <2>4. Cardinality(FreeCells(game'.board)) \in Int
    BY Nine
  <2> QED
    BY <2>3, <2>4 DEF Offence
<1> QED
  BY <1>0, <1>1, <1>2, <1>3, <1>5, <1>6, <1>7, <1>8, <1>9

\* A move onto a free cell is no offence, and what ends the game is a line, or a full board
\* without one.
LEMMA AcceptsRules == ASSUME WInv, JudgerAccepts PROVE WInv'
<1>0. Types /\ Verdicts /\ Ruled /\ Counts
  BY DEF WInv
<1>1. PICK c \in FreeCells(game.board), lines \in Seq(Printed) :
        /\ game' \in Games /\ now' \in Players
        /\ jout' = jout \o lines /\ Len(lines) = 3
        /\ lines[1] = Log /\ lines[2] = Send(now', c)
        /\ lines[3] = IF ~isDone(game'.board) THEN Continue(now')
                      ELSE IF getWinner(game'.board) # Free
                           THEN Win(Player(getWinner(game'.board))) ELSE Draw
        /\ up' = IF isDone(game'.board) THEN up \ {Judger} ELSE up
        /\ Final(lines[3]) <=> isDone(game'.board)
        /\ Judger \in up' <=> ~isDone(game'.board)
        /\ UNCHANGED <<pin, pout, asked, stuck, result>>
        /\ ~Offence' /\ Len(answers') = 9 - Cardinality(FreeCells(game'.board))
  BY <1>0, AcceptsMove
<1>2. /\ Judger \in up /\ jin' \in Seq(Tokens) /\ answers' \in Seq(Int)
      /\ UNCHANGED <<kind, view, opened>>
  BY <1>0, Reads DEF JudgerAccepts
<1>3. PICK line : line = lines[3]
  OBVIOUS
<1>4. ASSUME isDone(game'.board) PROVE Right(line)'
  <2>1. CASE getWinner(game'.board) # Free
    <3>1. PICK p \in Players : p = Player(getWinner(game'.board)) /\ HasLine(game'.board, p)
      BY <2>1, WinnerHasLine
    <3>2. line = Win(p)
      BY <1>1, <1>3, <1>4, <2>1, <3>1
    <3> QED
      BY <1>1, <3>1, <3>2 DEF Right
  <2>2. CASE getWinner(game'.board) = Free
    <3>1. line = Draw /\ FreeCells(game'.board) = {}
      BY <1>1, <1>3, <1>4, <2>2 DEF isDone
    <3>2. \A p \in Players : ~HasLine(game'.board, p)
      BY <2>2, <3>1, FullBoard
    <3> QED
      BY <1>1, <3>1, <3>2 DEF Right
  <2> QED
    BY <2>1, <2>2
<1>5. \A i \in 1 .. Len(lines) : Final(lines[i]) => Judger \notin up' /\ Right(lines[i])'
  <2>1. ~Final(lines[1]) /\ ~Final(lines[2])
    BY <1>1, Kinds DEF Final
  <2> SUFFICES ASSUME NEW i \in 1 .. Len(lines), Final(lines[i])
               PROVE  Judger \notin up' /\ Right(lines[i])'
    OBVIOUS
  <2>2. i = 3
    BY <1>1, <2>1
  <2>3. isDone(game'.board) /\ Judger \notin up'
    BY <1>1, <2>2
  <2>4. lines[i] = line /\ Right(line)'
    BY <1>3, <1>4, <2>2, <2>3
  <2> QED
    BY <2>3, <2>4
<1>6. jout' \in Seq(Printed) /\ Verdicts' /\ Ruled'
  BY <1>0, <1>1, <1>2, <1>5, Appended
<1>7. Counts'
  <2>1. Cardinality(FreeCells(game'.board)) \in Int
    BY Nine
  <2> QED
    BY <1>1, <2>1 DEF Counts
<1>8. Types'
  <2>1. StreamTypes'
    BY <1>0, <1>1, <1>2, <1>6 DEF Types, StreamTypes
  <2>2. RelayTypes'
    BY <1>0, <1>1 DEF Types, RelayTypes, Players, Judger
  <2>3. BoardTypes'
    BY <1>0, <1>1, <1>2 DEF Types, BoardTypes
  <2> QED
    BY <2>1, <2>2, <2>3 DEF Types
<1> QED
  BY <1>6, <1>7, <1>8 DEF WInv

-----------------------------------------------------------------------------
(* WInv.                                                                   *)

\* The match begins as the invariant says.
LEMMA InitWInv == Init => WInv
<1> SUFFICES ASSUME Init PROVE WInv
  OBVIOUS
<1>1. /\ jin = <<>> /\ pin = [p \in Players |-> <<>>] /\ pout = [p \in Players |-> <<>>]
      /\ asked = 0 /\ up = 0 .. 2 /\ stuck = {} /\ result = NoResult
      /\ kind \in LineUps /\ game = NewGame /\ now = 1
      /\ view = [p \in Players |-> NewGame] /\ opened = {} /\ answers = <<>>
      /\ jout = <<Continue(1)>> /\ Judger \in up
  BY DEF Init, MatchInit, Judger
<1>2. PICK line \in Printed : line = Continue(1)
  BY PrintedLines DEF Players
<1>3. /\ <<line>> \in Seq(Printed) /\ Len(<<line>>) = 1 /\ <<line>>[1] = line
  OBVIOUS
<1>4. /\ jout \in Seq(Printed) /\ Len(jout) = 1 /\ jout[1] = line
  BY <1>1, <1>2, <1>3
<1>5. Types
  <2>1. \A S : <<>> \in Seq(S)
    BY EmptySeq
  <2>2. StreamTypes
    BY <1>1, <1>4, <2>1 DEF StreamTypes
  <2>3. RelayTypes
    BY <1>1 DEF RelayTypes, NoResult, Judger
  <2>4. BoardTypes
    BY <1>1, <2>1, FirstBoards DEF BoardTypes, Players
  <2> QED
    BY <2>2, <2>3, <2>4 DEF Types
<1>6. Verdicts
  <2>1. ~Final(line)
    BY <1>2, Kinds DEF Final
  <2>2. \A k \in 1 .. Len(jout) : jout[k] = line
    BY <1>4
  <2> QED
    BY <2>1, <2>2 DEF Verdicts
<1>7. Ruled
  BY <1>1 DEF Ruled, NoResult
<1>8. Counts
  <2>1. Len(answers) = 0
    BY <1>1, EmptySeq
  <2>2. FreeCells(game.board) = Cells
    BY <1>1 DEF FreeCells, NewGame
  <2>3. Cardinality(FreeCells(game.board)) = 9 /\ ~isDone(game.board)
    BY <1>1, <2>2, Nine, FirstBoards
  <2> QED
    BY <2>1, <2>3 DEF Counts, Offence
<1> QED
  BY <1>5, <1>6, <1>7, <1>8 DEF WInv

\* Every step keeps the invariant.
LEMMA StepWInv == WInv /\ [Next]_vars => WInv'
<1> SUFFICES ASSUME WInv, [Next]_vars PROVE WInv'
  OBVIOUS
<1>0. Types /\ Verdicts /\ Ruled /\ Counts
  BY DEF WInv
<1>1. CASE Relays
  <2>1. Counts'
    BY <1>0, <1>1, RelayFrame DEF Counts, Offence
  <2> QED
    BY <1>0, <1>1, <2>1, RelayTyped, RelayRules DEF WInv
<1>2. CASE Judges
  BY <1>2, AcceptsRules, RefusesRules, LeavesRules DEF Judges
<1>3. ASSUME NEW p \in Players, Plays(p) PROVE WInv'
  BY <1>0, <1>3, PlayerTyped, PlayerRules DEF WInv
<1>4. CASE UNCHANGED vars
  <2>1. /\ UNCHANGED <<jout, jin, pin, pout, asked, up, stuck, result>>
        /\ UNCHANGED <<kind, game, now, view, opened, answers>>
    BY <1>4 DEF vars, matchVars
  <2>2. \A line : Right(line)' <=> Right(line)
    BY <2>1, SameRight
  <2>3. Types'
    BY <1>0, <2>1 DEF Types, StreamTypes, RelayTypes, BoardTypes
  <2>4. Verdicts' /\ Ruled' /\ Counts'
    BY <1>0, <2>1, <2>2 DEF Verdicts, Final, Ruled, Counts, Offence
  <2> QED
    BY <2>3, <2>4 DEF WInv
<1> QED
  BY <1>1, <1>2, <1>3, <1>4 DEF Next

-----------------------------------------------------------------------------
(* The streams, if each line is one answer.                                *)

\* The lines in a stream that holds none, or one.
LEMMA OneLine ==
  ASSUME NEW S, NEW s \in Seq(S)
  PROVE  /\ s = <<>> => {s[k] : k \in DOMAIN s} = {}
         /\ Len(s) = 1 => {s[k] : k \in DOMAIN s} = {s[1]}
BY EmptySeq

\* A sequence of one element.
LEMMA OneElement == ASSUME NEW S, NEW s \in Seq(S), Len(s) = 1 PROVE s = <<s[1]>>
<1>1. <<s[1]>> \in Seq(S) /\ Len(<<s[1]>>) = 1 /\ <<s[1]>>[1] = s[1]
  OBVIOUS
<1> QED
  BY <1>1, SeqEqual

\* What is left of a sequence of three.
LEMMA LastTwo ==
  ASSUME NEW S, NEW s \in Seq(S), Len(s) = 3
  PROVE  Tail(s)[1] = s[2] /\ Tail(s)[2] = s[3]
<1> DEFINE t == Tail(s)
<1>1. s # <<>>
  BY EmptySeq
<1>2. \A k \in 1 .. 2 : t[k] = s[k + 1]
  <2>1. \A k \in 1 .. Len(s) - 1 : t[k] = s[k + 1]
    BY <1>1, HeadAndTail
  <2>2. Len(s) - 1 = 2
    OBVIOUS
  <2> QED
    BY <2>1, <2>2
<1> HIDE DEF t
<1>3. \A n \in Int : n \in 1 .. 2 => t[n] = s[n + 1]
  BY <1>2
<1> QED
  BY <1>3 DEF t

\* The line that is read next, by the command in it.
LEMMA NextLine ==
  ASSUME Types, Script, jout # <<>>
  PROVE  /\ Head(jout).cmd = "send" =>
              Len(jout) = 2 /\ \E c \in Cells : Head(jout) = Send(now, c) /\ Sent = c
         /\ Head(jout).cmd = "continue" =>
              Len(jout) = 1 /\ Judger \in up /\ Head(jout) = Continue(now)
         /\ Head(jout).cmd = "log" => Len(jout) = 3
         /\ Head(jout).cmd # "blank"
         /\ Head(jout).cmd \in {"win", "draw"} =>
              Len(jout) = 1 /\ Judger \notin up
<1>1. Head(jout) = jout[1] /\ Len(jout) \in {1, 2, 3}
  <2>1. jout \in Seq(Printed)
    BY DEF Types, StreamTypes
  <2>2. Head(jout) = jout[1] /\ Len(jout) \in Nat \ {0}
    BY <2>1, HeadAndTail
  <2>3. Len(jout) <= 3
    BY DEF Script
  <2>4. \A n \in Nat \ {0} : n <= 3 => n \in {1, 2, 3}
    OBVIOUS
  <2> QED
    BY <2>2, <2>3, <2>4
<1>2. CASE Len(jout) = 1
  <2>1. CASE Judger \in up
    BY <1>1, <1>2, <2>1, Kinds DEF Script
  <2>2. CASE Judger \notin up
    <3>1. jout[1].cmd \in {"win", "draw"}
      BY <1>2, <2>2 DEF Script, Final
    <3> QED
      BY <1>1, <1>2, <2>2, <3>1
  <2> QED
    BY <2>1, <2>2
<1>3. CASE Len(jout) = 2
  <2>1. PICK c \in Cells : jout[1] = Send(now, c)
    BY <1>3 DEF Script
  <2>2. Sent = c /\ jout[1].cmd = "send"
    BY <1>3, <2>1, Kinds DEF Sent
  <2> QED
    BY <1>1, <1>3, <2>1, <2>2
<1>4. CASE Len(jout) = 3
  BY <1>1, <1>4, Kinds DEF Script
<1> QED
  BY <1>1, <1>2, <1>3, <1>4

\* No player is declared the winner of a match that goes on, nor blamed.
LEMMA NotJudged == ASSUME Playing PROVE result.kind = "none"
BY DEF Playing, NoResult

\* A match that has an outcome does not go on.
LEMMA Over == ASSUME NEW r, r.kind # "none" PROVE r # NoResult
BY DEF NoResult

-----------------------------------------------------------------------------
(* A step of the relay, if each line is one answer.                        *)

relayFrame == <<up, stuck, kind, game, now, view, opened, answers>>

\* While the judger has the same to read and the players have printed nothing, so does
\* what is pending.
LEMMA SamePending ==
  ASSUME UNCHANGED <<jin, pout, now>>
  PROVE  /\ \A p : Pending(p)' = Pending(p)
         /\ Answer' = Answer /\ (Complete' <=> Complete)
BY DEF Pending, Answer, Complete, Garbled, NextTokens

\* It leaves the judger's last word, and who is to blame while nobody is blamed.
LEMMA RelayKeeps ==
  ASSUME Calm, Relays
  PROVE  Named' /\ (UNCHANGED result => Blamed')
<1>1. UNCHANGED relayFrame
  BY RelayFrame DEF relayFrame
<1>2. Named'
  BY <1>1 DEF Calm, Named, Offence, relayFrame
<1>3. UNCHANGED result => Blamed'
  BY <1>1 DEF Calm, Blamed, relayFrame
<1> QED
  BY <1>2, <1>3

\* It passes on the move the judger sent.
LEMMA ObeysSend == ASSUME Calm, Relays, ObeySend PROVE BInv'
<1> USE DEF relayFrame
<1>1. UNCHANGED relayFrame
  BY RelayFrame DEF relayFrame
<1>2. /\ jout # <<>> /\ Head(jout).cmd = "send" /\ jout' = Tail(jout) /\ Playing /\ asked = 0
      /\ UNCHANGED <<jin, pout, asked, result>>
      /\ pin' = IF Head(jout).to \in up
                THEN [pin EXCEPT ![Head(jout).to] = Append(@, Head(jout).msg)] ELSE pin
  BY DEF ObeySend, NextCommand, Waits
<1>3. Len(jout) = 2 /\ \E c \in Cells : Head(jout) = Send(now, c) /\ Sent = c
  BY <1>2, NextLine DEF Calm
<1>4. PICK c \in Cells : Head(jout) = Send(now, c) /\ Sent = c
  BY <1>3
<1>5. jout' \in Seq(Printed) /\ Len(jout') = 1 /\ jout'[1] = jout[2] /\ jout' # <<>>
  <2>1. jout \in Seq(Printed)
    BY DEF Calm, Types, StreamTypes, RelayTypes, BoardTypes
  <2>2. /\ Tail(jout) \in Seq(Printed) /\ Len(Tail(jout)) = Len(jout) - 1
        /\ \A k \in 1 .. Len(jout) - 1 : Tail(jout)[k] = jout[k + 1]
        /\ Len(jout) > 1 => Tail(jout) # <<>>
    BY <1>2, <2>1, HeadAndTail
  <2> QED
    BY <1>2, <1>3, <2>2
<1>6. jin = <<>>
  BY <1>2 DEF Calm, Turns
<1>7. pin' = IF now \in up THEN [pin EXCEPT ![now] = Append(@, c)] ELSE pin
  <2>1. Head(jout).to = now /\ Head(jout).msg = c
    BY <1>4, Kinds
  <2> QED
    BY <1>2, <2>1
<1>9. Script'
  <2>1. IF Judger \in up THEN jout[2] = Continue(now) ELSE Final(jout[2])
    BY <1>3 DEF Calm, Script
  <2> QED
    BY <1>1, <1>5, <2>1 DEF Script, Final
<1>10. Turns'
  BY <1>1, <1>2, <1>5, <1>6 DEF Calm, Turns
<1>12. ASSUME NEW p \in Players, Listens(p)
       PROVE  /\ Listens(p)'
              /\ p = now => pin[p] = <<>> /\ pout[p] = <<>> /\ pin'[p] \in {<<>>, <<c>>}
              /\ p = now /\ p \in up => pin'[p] = <<c>>
              /\ p # now => pin'[p] = pin[p]
  <2>1. pin \in [Players -> Seq(Cells)] /\ now \in Players
    BY DEF Calm, Types, StreamTypes, RelayTypes, BoardTypes
  <2>2. p # now => pin'[p] = pin[p]
    BY <1>7, <2>1
  <2>3. p = now => /\ pin[p] = <<>> /\ pout[p] = <<>>
                   /\ c \in FreeCells(view[p].board) \ FreeCells(game.board)
    BY <1>3, <1>4, <1>12 DEF Listens
  <2>4. p = now => pin'[p] = IF now \in up THEN <<c>> ELSE <<>>
    BY <1>7, <2>1, <2>3, Longer
  <2>5. Pending(p)' = Pending(p)
    BY <1>1, <1>2, SamePending
  <2>6. p = 1 => p \in opened
    BY <1>3, <1>12 DEF Listens, Unopened
  <2>7. Listens(p)'
    <3>1. CASE p # now
      BY <1>1, <1>2, <1>5, <1>6, <1>12, <2>2, <2>5, <2>6, <3>1 DEF Listens
    <3>2. CASE p = now
      BY <1>1, <1>2, <1>5, <1>6, <1>12, <2>3, <2>4, <2>5, <2>6, <3>2 DEF Listens
    <3> QED
      BY <3>1, <3>2
  <2> QED
    BY <2>2, <2>3, <2>4, <2>7
<1>13. PlayersListen'
  BY <1>1, <1>12 DEF Calm, PlayersListen, Examples
<1>14. ASSUME NEW p \in Players, kind[p] = "shipped" PROVE Follows(p)'
  <2>1. Listens(p) /\ Follows(p)
    BY <1>14 DEF Calm, PlayersListen, Examples, ShippedFollow
  <2>2. Judger \in up /\ p = now =>
          pin'[p] = <<c>> /\ pin'[p] # <<>> /\ pin'[p][1] = c /\ makeMove(view[p], c) = game
    BY <1>3, <1>4, <1>12, <2>1 DEF Follows
  <2> QED
    BY <1>1, <1>2, <1>5, <1>6, <1>12, <2>1, <2>2 DEF Follows
<1>15. ShippedFollow'
  BY <1>1, <1>14 DEF ShippedFollow
<1>16. BookOpens'
  <2>1. SUFFICES ASSUME ByTheBook PROVE Opening'
    BY <1>1 DEF BookOpens, ByTheBook
  <2>2. Opening /\ Listens(1) /\ Listens(2)
    BY <2>1 DEF Calm, BookOpens, PlayersListen, Examples, ByTheBook, Players
  <2>3. ~NothingMoved
    BY <1>3 DEF NothingMoved
  <2>4. Pending(2)' = Pending(2)
    BY <1>1, <1>2, SamePending
  <2>5. CentreTaken => CentreTaken'
    BY <1>1, <1>2, <1>3, <1>4, <1>5, <1>12, <2>2, <2>4 DEF CentreTaken, Players
  <2>6. CornerTaken => CornerTaken'
    BY <1>1 DEF CornerTaken
  <2> QED
    BY <2>2, <2>3, <2>5, <2>6 DEF Opening
<1> QED
  BY <1>2, <1>9, <1>10, <1>13, <1>15, <1>16, RelayKeeps DEF BInv

\* It asks the player whose turn it is.
LEMMA ObeysContinue == ASSUME Calm, Relays, ObeyContinue PROVE BInv'
<1> USE DEF relayFrame
<1>1. UNCHANGED relayFrame
  BY RelayFrame DEF relayFrame
<1>2. /\ jout # <<>> /\ Head(jout).cmd = "continue" /\ jout' = Tail(jout) /\ Playing /\ asked = 0
      /\ asked' = Head(jout).to
      /\ UNCHANGED <<jin, pin, pout, result>>
  BY DEF ObeyContinue, NextCommand, Waits
<1>3. Len(jout) = 1 /\ Judger \in up /\ Head(jout) = Continue(now)
  BY <1>2, NextLine DEF Calm
<1>4. asked' = now
  BY <1>2, <1>3, Kinds
<1>5. jout' = <<>> /\ jout' \in Seq(Printed) /\ Len(jout') = 0
  <2>1. jout \in Seq(Printed)
    BY DEF Calm, Types, StreamTypes, RelayTypes, BoardTypes
  <2>2. Len(jout) = 1 => Tail(jout) = <<>>
    BY <1>2, <2>1, HeadAndTail
  <2>3. jout' = <<>>
    BY <1>2, <1>3, <2>2
  <2>4. <<>> \in Seq(Printed) /\ Len(<<>>) = 0
    BY EmptySeq
  <2> QED
    BY <2>3, <2>4
<1>6. ~(Len(jout) >= 2) /\ ~(Len(jout') >= 2) /\ Len(jout) <= 1 /\ Len(jout') <= 1
  BY <1>3, <1>5
<1>7. jin = <<>>
  BY <1>2 DEF Calm, Turns
<1>9. Script'
  BY <1>5 DEF Script, Final
<1>10. Turns'
  <2>1. now # 0
    BY DEF Calm, Types, StreamTypes, RelayTypes, BoardTypes, Players
  <2> QED
    BY <1>1, <1>2, <1>3, <1>4, <1>5, <1>7, <2>1 DEF Calm, Turns
<1>12. \A p : Pending(p)' = Pending(p)
  BY <1>1, <1>2, SamePending
<1>13. ASSUME NEW p \in Players, Listens(p) PROVE Listens(p)'
  BY <1>1, <1>2, <1>7, <1>12, <1>13, <1>6 DEF Listens, Unopened
<1>14. PlayersListen'
  BY <1>1, <1>13 DEF Calm, PlayersListen, Examples
<1>15. ASSUME NEW p \in Players, Follows(p) PROVE Follows(p)'
  BY <1>1, <1>2, <1>15, <1>6, SamePending DEF Follows
<1>16. ShippedFollow'
  BY <1>1, <1>15 DEF Calm, ShippedFollow
<1>17. BookOpens'
  <2>1. NothingMoved => NothingMoved'
    BY <1>1, <1>2, <1>12, <1>6 DEF NothingMoved
  <2>2. CentreTaken => CentreTaken'
    BY <1>1, <1>2, <1>12, <1>6 DEF CentreTaken
  <2>3. CornerTaken => CornerTaken'
    BY <1>1 DEF CornerTaken
  <2> QED
    BY <1>1, <2>1, <2>2, <2>3 DEF Calm, BookOpens, ByTheBook, Opening
<1> QED
  BY <1>2, <1>9, <1>10, <1>14, <1>16, <1>17, RelayKeeps DEF BInv

\* It skips a line that is logged.
LEMMA Skips == ASSUME Calm, Relays, Skip PROVE BInv'
<1> USE DEF relayFrame
<1>1. UNCHANGED relayFrame
  BY RelayFrame DEF relayFrame
<1>2. /\ jout # <<>> /\ Head(jout).cmd \in {"log", "blank"} /\ jout' = Tail(jout) /\ Playing
      /\ asked = 0
      /\ UNCHANGED <<jin, pin, pout, asked, result>>
  BY DEF Skip, NextCommand, Waits
<1>3. Len(jout) = 3
  BY <1>2, NextLine DEF Calm
<1>4. /\ jout' \in Seq(Printed) /\ Len(jout') = 2 /\ jout' # <<>>
      /\ jout'[1] = jout[2] /\ jout'[2] = jout[3]
  <2>1. jout \in Seq(Printed)
    BY DEF Calm, Types, StreamTypes, RelayTypes, BoardTypes
  <2>2. /\ Tail(jout) \in Seq(Printed) /\ Len(Tail(jout)) = Len(jout) - 1
        /\ \A k \in 1 .. Len(jout) - 1 : Tail(jout)[k] = jout[k + 1]
        /\ Len(jout) > 1 => Tail(jout) # <<>>
    BY <1>2, <2>1, HeadAndTail
  <2>3. Tail(jout)[1] = jout[2] /\ Tail(jout)[2] = jout[3]
    BY <1>3, <2>1, LastTwo
  <2>4. Tail(jout) \in Seq(Printed) /\ Len(Tail(jout)) = 2 /\ Tail(jout) # <<>>
    BY <1>3, <2>2
  <2>5. jout' = Tail(jout)
    BY <1>2
  <2> QED
    BY <2>3, <2>4, <2>5
<1>5. Sent' = Sent
  BY <1>3, <1>4 DEF Sent
<1>6. Len(jout) >= 2 /\ Len(jout') >= 2 /\ ~(Len(jout) <= 1) /\ ~(Len(jout') <= 1)
  BY <1>3, <1>4
<1>7. jin = <<>>
  BY <1>2 DEF Calm, Turns
<1>9. Script'
  <2>1. IF Judger \in up THEN jout[3] = Continue(now) ELSE Final(jout[3])
    BY <1>3 DEF Calm, Script
  <2>2. \E c \in Cells : jout[2] = Send(now, c)
    BY <1>3 DEF Calm, Script
  <2> QED
    BY <1>1, <1>4, <2>1, <2>2 DEF Script, Final
<1>10. Turns'
  BY <1>1, <1>2, <1>4, <1>7 DEF Calm, Turns
<1>12. \A p : Pending(p)' = Pending(p)
  BY <1>1, <1>2, SamePending
<1>13. ASSUME NEW p \in Players, Listens(p) PROVE Listens(p)'
  <2>1. p = 1 => p \in opened
    BY <1>3, <1>13 DEF Listens, Unopened
  <2> QED
    BY <1>1, <1>2, <1>5, <1>6, <1>7, <1>12, <1>13, <2>1 DEF Listens
<1>14. PlayersListen'
  BY <1>1, <1>13 DEF Calm, PlayersListen, Examples
<1>15. ASSUME NEW p \in Players, Follows(p) PROVE Follows(p)'
  BY <1>1, <1>2, <1>5, <1>15, <1>6, SamePending DEF Follows
<1>16. ShippedFollow'
  BY <1>1, <1>15 DEF Calm, ShippedFollow
<1>17. BookOpens'
  <2>1. ~NothingMoved
    BY <1>3 DEF NothingMoved
  <2>2. CentreTaken => CentreTaken'
    BY <1>1, <1>2, <1>3, <1>4, <1>5, <1>12 DEF CentreTaken
  <2>3. CornerTaken => CornerTaken'
    BY <1>1 DEF CornerTaken
  <2> QED
    BY <1>1, <2>1, <2>2, <2>3 DEF Calm, BookOpens, ByTheBook, Opening
<1> QED
  BY <1>2, <1>9, <1>10, <1>14, <1>16, <1>17, RelayKeeps DEF BInv

\* Nobody's knowledge changes when lines are read that tell nobody anything.
LEMMA OnlyRead ==
  ASSUME Calm, UNCHANGED <<jin, pin, pout, relayFrame>>,
         UNCHANGED jout \/ (Judger \notin up /\ Len(jout) = 1 /\ jout' = <<>>)
  PROVE  PlayersListen' /\ ShippedFollow' /\ BookOpens' /\ Script'
<1> USE DEF relayFrame
<1>1. /\ \A p : Pending(p)' = Pending(p)
      /\ Answer' = Answer /\ (Complete' <=> Complete)
      /\ Len(jout') <= Len(jout)
      /\ Judger \in up => UNCHANGED jout
      /\ Len(jout') >= 1 => UNCHANGED jout
      /\ Len(jout') >= 1 => UNCHANGED Sent
  <2>1. jout' = <<>> => Len(jout') = 0
    BY EmptySeq
  <2>2. jout \in Seq(Printed)
    BY DEF Calm, Types, StreamTypes
  <2>3. Len(jout) \in Nat
    BY <2>2
  <2> QED
    BY <2>1, <2>3, SamePending DEF Sent
<1>2. ASSUME NEW p \in Players, Listens(p) PROVE Listens(p)'
  <2>1. CASE UNCHANGED jout
    BY <1>1, <1>2, <2>1 DEF Listens, Unopened, Sent
  <2>2. CASE Judger \notin up /\ Len(jout) = 1 /\ jout' = <<>>
    <3>1. Len(jout') = 0
      BY <2>2, EmptySeq
    <3> QED
      BY <1>1, <1>2, <2>2, <3>1 DEF Listens, Unopened
  <2> QED
    BY <2>1, <2>2
<1>3. ASSUME NEW p \in Players, Follows(p) PROVE Follows(p)'
  BY <1>1, <1>3 DEF Follows, Sent
<1>4. BookOpens'
  <2>1. NothingMoved => NothingMoved'
    BY <1>1 DEF NothingMoved
  <2>2. CentreTaken => CentreTaken'
    BY <1>1 DEF CentreTaken, Sent
  <2>3. CornerTaken => CornerTaken'
    BY DEF CornerTaken
  <2> QED
    BY <2>1, <2>2, <2>3 DEF Calm, BookOpens, ByTheBook, Opening
<1>5. Script'
  <2>1. CASE UNCHANGED jout
    BY <2>1 DEF Calm, Script, Final
  <2>2. CASE jout' = <<>>
    <3>1. Len(jout') = 0
      BY <2>2, EmptySeq
    <3> QED
      BY <3>1 DEF Script
  <2> QED
    BY <2>1, <2>2
<1> QED
  BY <1>2, <1>3, <1>4, <1>5 DEF Calm, PlayersListen, ShippedFollow

\* It takes a verdict.
LEMMA TakesVerdict == ASSUME Calm, Relays, Verdict PROVE BInv'
<1>1. UNCHANGED relayFrame
  BY RelayFrame DEF relayFrame
<1>2. /\ jout # <<>> /\ Head(jout).cmd \in {"win", "draw"} /\ jout' = Tail(jout) /\ asked = 0
      /\ UNCHANGED <<jin, pin, pout, asked>>
      /\ result' = [kind |-> Head(jout).cmd, who |-> Head(jout).to, scores |-> Head(jout).msg]
  BY DEF Verdict, NextCommand, Waits
<1>3. Len(jout) = 1 /\ Judger \notin up
  BY <1>2, NextLine DEF Calm
<1>4. jout' = <<>>
  <2>1. jout \in Seq(Printed)
    BY DEF Calm, Types, StreamTypes
  <2>2. Len(jout) = 1 => Tail(jout) = <<>>
    BY <1>2, <2>1, HeadAndTail
  <2> QED
    BY <1>2, <1>3, <2>2
<1>5. jin = <<>>
  BY <1>3 DEF Calm, Turns
<1>6. result'.kind \in {"win", "draw"}
  BY <1>2
<1>7. Turns'
  <2>1. ~Playing'
    BY <1>6, Over DEF Playing
  <2> QED
    BY <1>1, <1>2, <1>4, <1>5, <2>1 DEF Calm, Turns
<1>8. Blamed'
  BY <1>6 DEF Blamed
<1> QED
  BY <1>1, <1>2, <1>3, <1>4, <1>7, <1>8, OnlyRead, RelayKeeps DEF BInv

\* It blames a player, who is not a shipped one.
LEMMA BlamesPlayer == ASSUME Calm, Relays, PlayerFails(opened) PROVE BInv'
<1>1. UNCHANGED relayFrame
  BY RelayFrame DEF relayFrame
<1>2. /\ asked # 0 /\ pout[asked] = <<>>
      /\ asked \notin up \ stuck \/ (asked \in opened /\ pin[asked] = <<>>)
      /\ result'.kind = "error" /\ result'.who = asked
      /\ UNCHANGED <<jout, jin, pin, pout, asked>>
  BY DEF PlayerFails, NoResult
<1>3. asked = now /\ now \in Players /\ Judger \in up /\ jout = <<>> /\ jin = <<>> /\ Len(jout) = 0
  BY <1>2, EmptySeq DEF Calm, Turns, Types, BoardTypes
<1>4. kind[now] # "shipped"
  <2>1. ~Follows(now)
    BY <1>2, <1>3 DEF Follows
  <2> QED
    BY <1>3, <2>1 DEF Calm, ShippedFollow
<1>5. Turns'
  <2>1. ~Playing'
    BY <1>2, Over DEF Playing
  <2> QED
    BY <1>1, <1>2, <1>3, <2>1 DEF Calm, Turns, relayFrame
<1>6. Blamed'
  BY <1>1, <1>2, <1>3, <1>4 DEF Blamed, relayFrame
<1> QED
  BY <1>1, <1>2, <1>5, <1>6, OnlyRead, RelayKeeps DEF BInv

\* It blames the judger, who has left, or waits for the rest of an answer; the player whose
\* answer it was is not a shipped one.
LEMMA BlamesJudger == ASSUME Calm, Relays, JudgerFails PROVE BInv'
<1>1. UNCHANGED relayFrame
  BY RelayFrame DEF relayFrame
<1>2. /\ Playing /\ asked = 0 /\ jout = <<>>
      /\ Judger \in up => ~Complete
      /\ result'.kind = "error" /\ result'.who = Judger
      /\ UNCHANGED <<jout, jin, pin, pout, asked>>
  BY DEF JudgerFails, Waits, NoResult
<1>3. Turns'
  <2>1. ~Playing'
    BY <1>2, Over DEF Playing
  <2> QED
    BY <1>1, <1>2, <2>1 DEF Calm, Turns, relayFrame
<1>4. \E p \in Players : kind[p] # "shipped"
  <2>1. CASE jin = <<>>
    BY <1>2, <2>1 DEF Calm, Turns
  <2>2. CASE jin # <<>>
    <3>1. Judger \in up /\ ~Complete /\ now \in Players
      BY <1>2, <2>2 DEF Calm, Turns, Types, BoardTypes
    <3>2. ~Listens(now)
      BY <2>2, <3>1 DEF Listens
    <3> QED
      BY <3>1, <3>2 DEF Calm, PlayersListen, Examples
  <2> QED
    BY <2>1, <2>2
<1>5. Blamed'
  BY <1>1, <1>2, <1>4 DEF Blamed, relayFrame
<1> QED
  BY <1>1, <1>2, <1>3, <1>5, OnlyRead, RelayKeeps DEF BInv

\* It hands the judger the line it has asked for, which is one answer, or half of one.
LEMMA PassesAnswer == ASSUME Calm, Relays, PassAnswer PROVE BInv'
<1> USE DEF relayFrame
<1>1. UNCHANGED relayFrame
  BY RelayFrame DEF relayFrame
<1>2. /\ Playing /\ asked # 0 /\ pout[asked] # <<>> /\ asked' = 0
      /\ jin' = IF Judger \in up THEN jin \o <<asked>> \o Head(pout[asked]) ELSE jin
      /\ pout' = [pout EXCEPT ![asked] = Tail(@)]
      /\ UNCHANGED <<jout, pin, result>>
  BY DEF PassAnswer
<1>3. asked = now /\ now \in Players /\ Judger \in up /\ jout = <<>> /\ jin = <<>> /\ Len(jout) = 0
  BY <1>2, EmptySeq DEF Calm, Turns, Types, BoardTypes
<1>4. pout \in [Players -> Seq(Brief)] /\ pout[now] \in Seq(Brief) /\ pout[now] # <<>>
  BY <1>2, <1>3 DEF Calm, Turns
<1>5. /\ Head(pout[now]) = pout[now][1] /\ pout[now][1] \in Brief
      /\ Tail(pout[now]) \in Seq(Brief)
      /\ Len(pout[now]) = 1 => Tail(pout[now]) = <<>>
      /\ Len(pout[now]) \in Nat \ {0}
  BY <1>4, HeadAndTail
<1>6. PICK line \in Brief : line = pout[now][1]
  BY <1>5
<1>7. /\ Len(jin') = Len(line) + 1 /\ jin' # <<>> /\ jin'[1] = now
      /\ \A k \in 1 .. Len(line) : jin'[k + 1] = line[k]
      /\ Len(line) \in 1 .. 2 /\ jin' \in Seq(Tokens)
  <2>1. now \in Tokens /\ line \in Seq(Tokens) /\ Len(line) \in 1 .. 2
    BY <1>3, <1>6 DEF Tokens, Players, Brief
  <2>2. jin' = <<>> \o <<now>> \o line
    BY <1>2, <1>3, <1>5, <1>6
  <2>3. /\ jin' \in Seq(Tokens) /\ Len(jin') = Len(line) + 1 /\ jin'[1] = now
        /\ \A k \in 1 .. Len(line) : jin'[k + 1] = line[k]
    BY <2>1, <2>2, Handed
  <2>4. jin' # <<>>
    BY <2>1, <2>3, EmptySeq
  <2> QED
    BY <2>1, <2>3, <2>4
<1>8. /\ pout'[now] = Tail(pout[now])
      /\ \A p \in Players : p # now => pout'[p] = pout[p]
      /\ pout' \in [Players -> Seq(Brief)]
  BY <1>2, <1>3, <1>4, <1>5
<1>9. Script'
  BY <1>2, <1>3 DEF Script
<1>10. Turns'
  <2>1. PICK n : n = Len(line)
    OBVIOUS
  <2>2. n \in 1 .. 2 /\ Len(jin') = n + 1
    BY <1>7, <2>1
  <2>3. Len(jin') \in 2 .. 3
    BY <2>2
  <2> QED
    BY <1>1, <1>2, <1>3, <1>7, <1>8, <2>3 DEF Turns
<1>11. ASSUME line \in Moves
       PROVE  /\ Complete'
              /\ Answer' = At(line[1], line[2])
              /\ line \in Cells => Answer' = line
  <2>1. Len(line) = 2 /\ line[1] \in Int /\ line[2] \in Int
    BY <1>11, MovesAreBrief
  <2>2. Len(jin') = 3 /\ jin'[1] = now /\ jin'[2] = line[1] /\ jin'[3] = line[2]
    <3>1. 1 \in 1 .. Len(line) /\ 2 \in 1 .. Len(line) /\ 1 + 1 = 2 /\ 2 + 1 = 3
      BY <2>1
    <3>2. jin'[1 + 1] = line[1] /\ jin'[2 + 1] = line[2]
      BY <1>7, <3>1
    <3> QED
      BY <1>7, <2>1, <3>2
  <2>3. \A k \in 1 .. 3 : jin'[k] \in Int
    <3>1. now \in Int
      BY <1>3 DEF Players
    <3>2. \A k \in 1 .. 3 : k = 1 \/ k = 2 \/ k = 3
      OBVIOUS
    <3> QED
      BY <2>1, <2>2, <3>1, <3>2
  <2>4. Complete'
    BY <2>2, <2>3, TokensAssumption DEF Complete, Garbled, NextTokens
  <2>5. Answer' = At(line[1], line[2])
    BY <2>2 DEF Answer
  <2> QED
    BY <2>4, <2>5, AtIsCell
<1>12. ASSUME NEW p \in Players, Listens(p)
       PROVE  /\ Listens(p)' /\ pin[p] = <<>> /\ pout'[p] = <<>>
              /\ p = now => /\ Len(pout[p]) = 1 /\ line \in Moves
                            /\ Pending(p) = {line} /\ Pending(p)' = {Answer'}
              /\ p # now => Pending(p)' = {} /\ Pending(p) = {}
  <2>1. p = now => Len(pout[p]) = 1 /\ line \in Moves
    <3>1. p = now => Len(pout[p]) <= 1 /\ line \in Moves
      BY <1>4, <1>6, <1>12 DEF Listens
    <3>2. \A n \in Nat \ {0} : n <= 1 => n = 1
      OBVIOUS
    <3> QED
      BY <1>5, <3>1, <3>2
  <2>2. pin[p] = <<>> /\ pout'[p] = <<>>
    BY <1>3, <1>4, <1>5, <1>8, <1>12, <2>1 DEF Listens
  <2>3. Pending(p)' = IF p = now THEN {Answer'} ELSE {}
    <3>1. {pout'[p][k] : k \in DOMAIN pout'[p]} = {}
      BY <2>2
    <3> QED
      BY <1>1, <1>7, <3>1 DEF Pending
  <2>4. Pending(p) = IF p = now THEN {line} ELSE {}
    <3>1. pout[p] \in Seq(Brief)
      BY <1>4
    <3>2. Pending(p) = {pout[p][k] : k \in DOMAIN pout[p]}
      BY <1>3 DEF Pending
    <3>3. p # now => pout[p] = <<>>
      BY <1>8, <2>2
    <3> QED
      BY <1>6, <2>1, <3>1, <3>2, <3>3, OneLine
  <2>5. p = 1 => p \in opened
    <3>1. p = now => pout[p] # <<>>
      BY <1>4
    <3> QED
      BY <1>3, <1>12, <3>1 DEF Listens, Unopened
  <2>6. Taken(view[p].board) \subseteq Taken(game.board) \cup Pending(p)'
    <3> SUFFICES ASSUME NEW d \in Taken(view[p].board), d \notin Taken(game.board)
                 PROVE  d \in Pending(p)'
      OBVIOUS
    <3>1. d \in Cells /\ d \in Pending(p)
      BY <1>12 DEF Taken, Listens
    <3>2. p = now /\ d = line
      BY <2>4, <3>1
    <3> QED
      BY <1>11, <2>1, <2>3, <3>1, <3>2
  <2>7. Listens(p)'
    <3>1. ~(Len(jout') >= 2)
      BY <1>2, <1>3
    <3>2. p = now => Complete'
      BY <1>11, <2>1
    <3> QED
      BY <1>1, <1>2, <2>2, <2>5, <2>6, <3>1, <3>2 DEF Listens
  <2> QED
    BY <2>1, <2>2, <2>3, <2>4, <2>7
<1>13. PlayersListen'
  BY <1>1, <1>12 DEF Calm, PlayersListen, Examples
<1>14. ASSUME NEW p \in Players, kind[p] = "shipped" PROVE Follows(p)'
  <2>1. Listens(p) /\ Follows(p)
    BY <1>14 DEF Calm, PlayersListen, Examples, ShippedFollow
  <2>2. CASE p = now
    <3>1. /\ line \in FreeCells(game.board) /\ view[p] = makeMove(game, line)
          /\ p \in up \ stuck
      BY <1>3, <1>4, <1>6, <2>1, <2>2 DEF Follows
    <3>2. line \in Cells
      BY <3>1 DEF FreeCells
    <3>3. Answer' = line /\ pin'[p] = <<>> /\ pout'[p] = <<>> /\ ~(Len(jout') >= 2)
      BY <1>2, <1>3, <1>11, <1>12, <2>1, <2>2, <3>2
    <3> QED
      BY <1>1, <1>7, <2>2, <3>1, <3>3 DEF Follows
  <2>3. CASE p # now
    BY <1>1, <2>1, <2>3 DEF Follows
  <2> QED
    BY <2>2, <2>3
<1>15. ShippedFollow'
  BY <1>1, <1>14 DEF ShippedFollow
<1>16. BookOpens'
  <2>1. SUFFICES ASSUME ByTheBook PROVE Opening'
    BY <1>1 DEF BookOpens, ByTheBook
  <2>2. Opening /\ Listens(1) /\ Listens(2) /\ 1 \in Players /\ 2 \in Players
    BY <2>1 DEF Calm, BookOpens, PlayersListen, Examples, ByTheBook, Players
  <2>3. Centre \in Cells /\ Corner \in Cells
    BY DEF Centre, Corner, Cells, Side
  <2>4. NothingMoved => NothingMoved'
    <3>1. NothingMoved => now = 1 /\ line = Centre
      BY <1>12, <2>2 DEF NothingMoved
    <3>2. NothingMoved => Pending(1)' = {Centre}
      BY <1>11, <1>12, <2>2, <2>3, <3>1
    <3> QED
      BY <1>1, <1>2, <1>12, <2>2, <3>2 DEF NothingMoved
  <2>5. CentreTaken => CentreTaken'
    <3>1. CentreTaken => now = 2 /\ line = Corner
      BY <1>12, <2>2 DEF CentreTaken
    <3>2. CentreTaken => Pending(2)' = {Corner}
      BY <1>11, <1>12, <2>2, <2>3, <3>1
    <3> QED
      BY <1>1, <1>2, <1>3, <1>12, <2>2, <3>2 DEF CentreTaken
  <2>6. CornerTaken => CornerTaken'
    BY <1>1 DEF CornerTaken
  <2> QED
    BY <2>2, <2>4, <2>5, <2>6 DEF Opening
<1> QED
  BY <1>2, <1>9, <1>10, <1>13, <1>15, <1>16, RelayKeeps DEF BInv

-----------------------------------------------------------------------------
(* A step of a player, if each line is one answer.                         *)

boardFrame == <<jout, jin, asked, result, kind, game, now, answers>>

\* A player's step leaves what the judger has printed and decided as it is.
LEMMA PlayerKeeps ==
  ASSUME Calm, NEW p \in Players, Plays(p)
  PROVE  Script' /\ Named' /\ Blamed' /\ (pout' \in [Players -> Seq(Brief)] => Turns')
<1>1. UNCHANGED boardFrame /\ (Judger \in up' <=> Judger \in up)
  BY PlayerFrame DEF Calm, boardFrame
<1>2. Script'
  BY <1>1 DEF Calm, Script, Final, boardFrame
<1>3. Named'
  BY <1>1 DEF Calm, Named, Offence, boardFrame
<1>4. Blamed'
  BY <1>1 DEF Calm, Blamed, boardFrame
<1>5. pout' \in [Players -> Seq(Brief)] => Turns'
  BY <1>1 DEF Calm, Turns, Playing, boardFrame
<1> QED
  BY <1>2, <1>3, <1>4, <1>5

\* And what another player knows.
LEMMA Bystander ==
  ASSUME NEW p \in Players, UNCHANGED boardFrame, Judger \in up' <=> Judger \in up,
         UNCHANGED <<pin[p], pout[p], view[p]>>,
         p \in (up \ stuck)' <=> p \in up \ stuck, p \in opened' <=> p \in opened
  PROVE  /\ Listens(p) => Listens(p)'
         /\ Follows(p) => Follows(p)'
         /\ Pending(p)' = Pending(p)
<1> USE DEF boardFrame
<1>1. Pending(p)' = Pending(p)
  BY DEF Pending, Answer
<1>2. Sent' = Sent /\ Answer' = Answer /\ (Complete' <=> Complete)
  BY DEF Sent, Answer, Complete, Garbled, NextTokens
<1>3. p = 1 => (Unopened' <=> Unopened)
  BY DEF Unopened
<1>4. Listens(p) => Listens(p)'
  BY <1>1, <1>2, <1>3 DEF Listens
<1>5. Follows(p) => Follows(p)'
  BY <1>2 DEF Follows
<1> QED
  BY <1>1, <1>4, <1>5

\* Which the players that do not move all are.
LEMMA Bystanders ==
  ASSUME Types, NEW p \in Players, Plays(p), NEW q \in Players, q # p
  PROVE  /\ Listens(q) => Listens(q)'
         /\ Follows(q) => Follows(q)'
         /\ Pending(q)' = Pending(q)
         /\ UNCHANGED <<pin[q], pout[q], view[q]>>
<1>1. /\ UNCHANGED boardFrame /\ (Judger \in up' <=> Judger \in up)
      /\ pin' = pin \/ pin' = [pin EXCEPT ![p] = Tail(@)]
      /\ up' \in {up, up \ {p}} /\ stuck' \in {stuck, stuck \cup {p}}
      /\ opened' \in {opened, opened \cup {p}}
  BY PlayerFrame DEF boardFrame
<1>2. UNCHANGED pin[q]
  BY <1>1 DEF Types, StreamTypes
<1>3. UNCHANGED pout[q]
  BY PlayerOwns DEF Types, StreamTypes
<1>4. UNCHANGED view[q]
  BY PlayerOwns DEF Types, BoardTypes
<1>5. (q \in (up \ stuck)' <=> q \in up \ stuck) /\ (q \in opened' <=> q \in opened)
  BY <1>1
<1> QED
  BY <1>1, <1>2, <1>3, <1>4, <1>5, Bystander

\* Player 1 starts in the centre of an empty board.
LEMMA OpensRight == ASSUME Calm, NEW p \in Players, Opens(p) PROVE BInv'
<1>0. Plays(p) /\ Types
  BY DEF Plays, Calm
<1>1. /\ p \notin opened /\ kind[p] \in Examples /\ opened' = opened \cup {p}
      /\ UNCHANGED <<pin, up, stuck>>
      /\ p = 1 => /\ pout' = [pout EXCEPT ![p] = Append(@, Centre)]
                  /\ view' = [view EXCEPT ![p] = makeMove(@, Centre)]
      /\ p # 1 => UNCHANGED <<pout, view>>
  BY DEF Opens, PlayerPrints, Stays, Centre, Examples
<1>2. /\ pout \in [Players -> Seq(Brief)] /\ view \in [Players -> Games]
      /\ Centre \in Moves /\ Centre \in Cells
  BY <1>0 DEF Calm, Turns, Types, BoardTypes, Centre, Moves, Cells, Side
<1>3. Centre \in Brief
  BY <1>2, MovesAreBrief
<1>4. ASSUME NEW q \in Players, q # p
      PROVE  /\ Listens(q) => Listens(q)'
             /\ Follows(q) => Follows(q)'
             /\ Pending(q)' = Pending(q)
             /\ UNCHANGED <<pin[q], pout[q], view[q]>>
  BY <1>0, <1>4, Bystanders
<1>5. UNCHANGED <<kind, game, now, jout, jin, asked>>
  BY <1>0, PlayerFrame
<1>6. CASE p = 1
  <2>1. Listens(1) /\ Unopened
    BY <1>1, <1>6 DEF Calm, PlayersListen, Listens
  <2>2. /\ game = NewGame /\ now = 1 /\ Judger \in up /\ 1 \in up \ stuck
        /\ pin[1] = <<>> /\ pout[1] = <<>> /\ jin = <<>> /\ view[1] = NewGame /\ Len(jout) <= 1
    BY <2>1 DEF Unopened
  <2>3. /\ pout'[1] = <<Centre>> /\ pout'[1] # <<>> /\ Len(pout'[1]) = 1 /\ pout'[1][1] = Centre
        /\ pout' \in [Players -> Seq(Brief)]
    <3>1. pout' = [pout EXCEPT ![1] = Append(@, Centre)] /\ pout[1] \in Seq(Brief)
      BY <1>1, <1>2, <1>6
    <3>2. Append(pout[1], Centre) \in Seq(Brief)
      BY <1>3, <3>1, Longer
    <3>3. pout'[1] = Append(pout[1], Centre) /\ pout' \in [Players -> Seq(Brief)]
      BY <1>2, <1>6, <3>1, <3>2
    <3>4. pout'[1] = <<Centre>> /\ Len(pout'[1]) = 1 /\ pout'[1][1] = Centre
      BY <1>3, <2>2, <3>1, <3>3, Longer
    <3>5. pout'[1] # <<>>
      BY <3>4, EmptySeq
    <3> QED
      BY <3>3, <3>4, <3>5
  <2>4. view'[1] = OneMove /\ view' \in [Players -> Games]
    BY <1>1, <1>2, <1>6, <2>2, FirstBoards DEF OneMove
  <2>5. Script' /\ Turns' /\ Named' /\ Blamed'
    BY <1>0, <2>3, PlayerKeeps
  <2>6. Pending(1)' = {Centre}
    <3>1. pout'[1] \in Seq(Brief)
      BY <1>6, <2>3
    <3>2. {pout'[1][k] : k \in DOMAIN pout'[1]} = {Centre}
      BY <2>3, <3>1, OneLine
    <3>3. jin' = <<>>
      BY <1>5, <2>2
    <3> QED
      BY <3>2, <3>3 DEF Pending
  <2>7. ~(Len(jout) >= 2)
    <3>1. Len(jout) \in Nat
      BY <1>0 DEF Types, StreamTypes
    <3> QED
      BY <2>2, <3>1
  <2>8. Listens(1)'
    <3>1. Taken(view'[1].board) = {Centre}
      BY <2>4, FirstBoards
    <3>2. 1 \in opened'
      BY <1>1, <1>6
    <3> QED
      BY <1>1, <1>2, <1>5, <2>2, <2>3, <2>6, <2>7, <3>1, <3>2 DEF Listens
  <2>9. Follows(1)'
    <3>1. Centre \in FreeCells(game.board) /\ view'[1] = makeMove(game, Centre)
      BY <2>2, <2>4, FirstBoards DEF OneMove
    <3> QED
      BY <1>1, <1>5, <2>2, <2>3, <2>7, <3>1 DEF Follows
  <2>10. PlayersListen' /\ ShippedFollow'
    BY <1>4, <1>5, <1>6, <2>8, <2>9 DEF Calm, PlayersListen, ShippedFollow
  <2>11. BookOpens'
    <3>1. SUFFICES ASSUME ByTheBook, Opening PROVE Opening'
      BY <1>5 DEF Calm, BookOpens, ByTheBook
    <3>2. 2 \in Players /\ 2 # p
      BY <1>6 DEF Players
    <3>3. NothingMoved => NothingMoved'
      BY <1>1, <1>4, <1>5, <2>2, <2>6, <3>2 DEF NothingMoved
    <3>4. ~CentreTaken
      BY <2>2 DEF CentreTaken
    <3>5. CornerTaken => CornerTaken'
      BY <1>5 DEF CornerTaken
    <3> QED
      BY <3>1, <3>3, <3>4, <3>5 DEF Opening
  <2> QED
    BY <2>5, <2>10, <2>11 DEF BInv
<1>7. CASE p # 1
  <2>1. Script' /\ Turns' /\ Named' /\ Blamed'
    BY <1>0, <1>1, <1>2, <1>7, PlayerKeeps
  <2>2. /\ Pending(p)' = Pending(p) /\ Sent' = Sent /\ Answer' = Answer
        /\ Complete' <=> Complete
    BY <1>1, <1>5, <1>7, SamePending DEF Sent
  <2>3. Listens(p) => Listens(p)'
    BY <1>1, <1>5, <1>7, <2>2 DEF Listens
  <2>4. Follows(p) => Follows(p)'
    BY <1>1, <1>5, <1>7, <2>2 DEF Follows
  <2>5. PlayersListen' /\ ShippedFollow'
    BY <1>4, <1>5, <2>3, <2>4 DEF Calm, PlayersListen, ShippedFollow
  <2>6. BookOpens'
    <3>1. \A q \in Players : Pending(q)' = Pending(q)
      BY <1>4, <2>2
    <3>2. 1 \in Players /\ 2 \in Players
      BY DEF Players
    <3>3. NothingMoved => NothingMoved'
      BY <1>1, <1>5, <1>7, <3>1, <3>2 DEF NothingMoved
    <3>4. CentreTaken => CentreTaken'
      BY <1>1, <1>5, <1>7, <2>2, <3>1, <3>2 DEF CentreTaken
    <3>5. CornerTaken => CornerTaken'
      BY <1>5 DEF CornerTaken
    <3> QED
      BY <1>5, <3>3, <3>4, <3>5 DEF Calm, BookOpens, ByTheBook, Opening
  <2> QED
    BY <2>1, <2>5, <2>6 DEF BInv
<1> QED
  BY <1>6, <1>7

\* A player of the examples takes what it is told, and prints one answer, which fits its
\* own board; a shipped one notes it.
LEMMA BookMove ==
  ASSUME Calm, NEW p \in Players, Plays(p), NEW what \in Examples, Hears(p, what),
         NEW move \in getAutoMove(Heard(p)), PlayerPrints(p, move),
         NEW g, Makes(p, g), Stays \/ Spins(p) \/ Exits(p),
         IF what = "shipped" /\ move # NoMove THEN g = makeMove(Heard(p), move) /\ Stays
                                              ELSE g = Heard(p)
  PROVE  BInv'
<1>1. /\ kind[p] = what /\ kind[p] \in Examples /\ p \in opened /\ p \in up \ stuck
      /\ pin[p] # <<>> /\ pin' = [pin EXCEPT ![p] = Tail(@)]
      /\ Head(pin[p]) \in FreeCells(view[p].board)
      /\ opened' = opened
      /\ pout' = [pout EXCEPT ![p] = Append(@, move)]
      /\ view' = [view EXCEPT ![p] = g]
  BY DEF Hears, Told, PlayerReads, Runs, PlayerPrints, Makes
<1>2. /\ pout \in [Players -> Seq(Brief)] /\ view \in [Players -> Games]
      /\ pin \in [Players -> Seq(Cells)] /\ Types /\ now \in Players
      /\ pin[p] \in Seq(Cells) /\ view[p] \in Games
  BY DEF Calm, Turns, Types, StreamTypes, BoardTypes
<1>3. Judger \in up' <=> Judger \in up
  BY <1>2, PlayerFrame
<1>4. UNCHANGED <<kind, game, now, jout, jin, asked>> /\ Sent' = Sent
  BY <1>2, PlayerFrame DEF Sent
<1>5. Listens(p)
  BY <1>1 DEF Calm, PlayersListen
<1>6. PICK c \in FreeCells(view[p].board) \ FreeCells(game.board) : pin[p] = <<c>>
  BY <1>1, <1>5 DEF Listens
<1>7. Head(pin[p]) = c /\ pin[p][1] = c /\ Tail(pin[p]) = <<>> /\ Heard(p) = makeMove(view[p], c)
  BY <1>6 DEF Heard
<1>8. /\ pout[p] = <<>> /\ ~(p = now /\ Len(jout) >= 2)
      /\ Judger \in up => p = now
      /\ jin = <<>>
  <2>1. jin # <<>> => Judger \in up
    BY DEF Calm, Turns
  <2> QED
    BY <1>1, <1>5, <2>1 DEF Listens
<1>9. /\ Heard(p) \in Games /\ c \in Taken(game.board)
      /\ Taken(Heard(p).board) = Taken(view[p].board) \cup {c}
  <2>1. c \in Cells \ FreeCells(game.board)
    BY <1>6 DEF FreeCells
  <2> QED
    BY <1>2, <1>6, <1>7, <2>1, Moved DEF Taken
<1>10. /\ move \in FreeCells(Heard(p).board) \cup {NoMove} /\ move \in Moves
       /\ move \in Brief
  BY <1>9, AutoMoveIsFree, AutoMoveIsMove, MovesAreBrief
<1>11. g \in Games /\ Taken(g.board) \subseteq Taken(view[p].board) \cup {c, move}
  <2>1. CASE g = Heard(p)
    BY <1>9, <2>1
  <2>2. CASE move # NoMove /\ g = makeMove(Heard(p), move)
    BY <1>9, <1>10, <2>2, Moved
  <2> QED
    BY <2>1, <2>2
<1>12. /\ pout'[p] = <<move>> /\ pout'[p] # <<>> /\ Len(pout'[p]) = 1 /\ pout'[p][1] = move
       /\ pin'[p] = <<>> /\ view'[p] = g
       /\ pout' \in [Players -> Seq(Brief)]
  <2>1. pout[p] \in Seq(Brief)
    BY <1>2
  <2>2. Append(pout[p], move) \in Seq(Brief)
    BY <1>10, <2>1, Longer
  <2>3. /\ pout'[p] = Append(pout[p], move) /\ pout' \in [Players -> Seq(Brief)]
    BY <1>1, <1>2, <2>2
  <2>4. pout'[p] = <<move>> /\ Len(pout'[p]) = 1 /\ pout'[p][1] = move
    BY <1>8, <1>10, <2>1, <2>3, Longer
  <2>5. pout'[p] # <<>>
    BY <2>4, EmptySeq
  <2>6. pin'[p] = <<>>
    BY <1>1, <1>2, <1>7
  <2>7. view'[p] = g
    BY <1>1, <1>2, <1>11
  <2> QED
    BY <2>3, <2>4, <2>5, <2>6, <2>7
<1>13. ASSUME NEW q \in Players, q # p
       PROVE  /\ Listens(q) => Listens(q)'
              /\ Follows(q) => Follows(q)'
              /\ Pending(q)' = Pending(q)
              /\ UNCHANGED <<pin[q], pout[q], view[q]>>
  BY <1>2, <1>13, Bystanders
<1>14. Script' /\ Turns' /\ Named' /\ Blamed'
  BY <1>12, PlayerKeeps
<1>15. jin' = <<>>
  BY <1>4, <1>8
<1>16. Pending(p)' = {move} /\ Pending(p) = {}
  <2>1. pout'[p] \in Seq(Brief)
    BY <1>12
  <2>2. {pout'[p][k] : k \in DOMAIN pout'[p]} = {move}
    BY <1>12, <2>1, OneLine
  <2>3. {pout[p][k] : k \in DOMAIN pout[p]} = {}
    BY <1>2, <1>8, OneLine
  <2> QED
    BY <1>8, <1>15, <2>2, <2>3 DEF Pending
<1>17. Listens(p)'
  <2>1. Taken(view'[p].board) \subseteq Taken(game.board) \cup {move}
    BY <1>5, <1>9, <1>11, <1>12, <1>16 DEF Listens
  <2> QED
    BY <1>1, <1>3, <1>4, <1>8, <1>10, <1>12, <1>15, <1>16, <2>1 DEF Listens
<1>18. kind[p] = "shipped" => Follows(p)'
  <2>1. SUFFICES ASSUME what = "shipped", Judger \in up PROVE Follows(p)'
    BY <1>1, <1>3 DEF Follows
  <2>2. Heard(p) = game /\ p = now
    BY <1>1, <1>7, <1>8, <2>1 DEF Calm, ShippedFollow, Follows
  <2>3. move \in FreeCells(game.board) /\ move # NoMove
    <3>1. ~isDone(game.board)
      BY <2>1 DEF Calm, Counts
    <3>2. move \in FreeCells(game.board)
      BY <2>2, <3>1, AutoMoveIsFree
    <3> QED
      BY <3>2 DEF FreeCells, NoMove, Cells, Side
  <2>4. g = makeMove(game, move) /\ Stays
    BY <2>1, <2>2, <2>3
  <2> QED
    BY <1>1, <1>4, <1>8, <1>12, <1>15, <2>2, <2>3, <2>4 DEF Follows, Stays
<1>19. PlayersListen' /\ ShippedFollow'
  BY <1>4, <1>13, <1>17, <1>18 DEF Calm, PlayersListen, ShippedFollow
<1>20. BookOpens'
  <2>1. SUFFICES ASSUME ByTheBook, Opening PROVE Opening'
    BY <1>4 DEF Calm, BookOpens, ByTheBook
  <2>2. 1 \in Players /\ 2 \in Players /\ \A q \in Players : q = 1 \/ q = 2
    BY DEF Players
  <2>3. ~NothingMoved
    BY <1>1, <2>2 DEF NothingMoved
  <2>4. CentreTaken => CentreTaken'
    <3>1. SUFFICES ASSUME CentreTaken PROVE CentreTaken'
      OBVIOUS
    <3>2. p = 2
      BY <1>8, <3>1 DEF CentreTaken
    <3>3. view[2] = NewGame /\ c = Centre
      BY <1>1, <1>7, <3>1, <3>2 DEF CentreTaken
    <3>4. Heard(p) = OneMove
      BY <1>7, <3>2, <3>3 DEF OneMove
    <3>5. move = Corner
      BY <3>4, SecondMove
    <3> QED
      BY <1>3, <1>4, <1>8, <1>12, <1>16, <3>1, <3>2, <3>5 DEF CentreTaken
  <2>5. CornerTaken => CornerTaken'
    BY <1>4 DEF CornerTaken
  <2> QED
    BY <2>1, <2>3, <2>4, <2>5 DEF Opening
<1> QED
  BY <1>14, <1>19, <1>20 DEF BInv

\* A shipped player moves.
LEMMA ShippedMovesRight == ASSUME Calm, NEW p \in Players, ShippedMoves(p) PROVE BInv'
<1>1. PICK move \in getAutoMove(Heard(p)) :
        /\ PlayerPrints(p, move)
        /\ IF move = NoMove THEN Makes(p, Heard(p)) /\ (Stays \/ Exits(p))
                            ELSE Makes(p, makeMove(Heard(p), move)) /\ Stays
  BY DEF ShippedMoves
<1>2. Hears(p, "shipped") /\ Plays(p) /\ "shipped" \in Examples
  BY DEF ShippedMoves, Plays, Examples
<1>3. \E g : /\ Makes(p, g)
             /\ IF move # NoMove THEN g = makeMove(Heard(p), move) /\ Stays ELSE g = Heard(p)
  BY <1>1
<1>4. PICK g : /\ Makes(p, g)
               /\ IF move # NoMove THEN g = makeMove(Heard(p), move) /\ Stays ELSE g = Heard(p)
  BY <1>3
<1> QED
  BY <1>1, <1>2, <1>4, BookMove

\* The player of bad_runtime moves, and then may stop.
LEMMA BadMovesRight == ASSUME Calm, NEW p \in Players, BadMoves(p) PROVE BInv'
<1>1. PICK move \in getAutoMove(Heard(p)) : PlayerPrints(p, move)
  BY DEF BadMoves
<1>2. /\ Hears(p, "bad") /\ Makes(p, Heard(p)) /\ (Stays \/ Spins(p) \/ Exits(p))
      /\ Plays(p) /\ "bad" \in Examples
  BY DEF BadMoves, Plays, Examples
<1>3. \E g : Makes(p, g) /\ g = Heard(p)
  BY <1>2
<1>4. PICK g : Makes(p, g) /\ g = Heard(p)
  BY <1>3
<1> QED
  BY <1>1, <1>2, <1>4, BookMove

\* No player of the examples is told a move it takes for invalid.
LEMMA NobodyGivesUp == ASSUME Calm, NEW p \in Players PROVE ~GivesUp(p)
<1> SUFFICES ASSUME GivesUp(p) PROVE FALSE
  OBVIOUS
<1>1. kind[p] \in Examples /\ pin[p] # <<>> /\ Head(pin[p]) \notin FreeCells(view[p].board)
  BY DEF GivesUp, Told, PlayerReads, Examples
<1>2. PICK c \in FreeCells(view[p].board) : pin[p] = <<c>>
  BY <1>1 DEF Calm, PlayersListen, Listens
<1> QED
  BY <1>1, <1>2

\* Any other program gives one answer a line, right or wrong, or half of one.
LEMMA StrangersMove == ASSUME Calm, NEW p \in Players, StrangerMoves(p) PROVE BInv'
<1>0. Plays(p) /\ Types
  BY DEF Plays, Calm
<1>1. kind[p] = "stranger" /\ kind[p] \notin Examples
  BY DEF StrangerMoves, Calm, Orderly, Examples
<1>2. pout' \in [Players -> Seq(Brief)]
  <2>1. pout \in [Players -> Seq(Brief)]
    BY DEF Calm, Turns
  <2>2. \/ UNCHANGED pout
        \/ \E line \in OneAnswer : PlayerPrints(p, line)
    BY <1>1 DEF StrangerMoves, Whatever, LinesOf
  <2>3. ASSUME NEW line \in OneAnswer, PlayerPrints(p, line)
        PROVE  pout' \in [Players -> Seq(Brief)]
    <3>1. Append(pout[p], line) \in Seq(Brief)
      BY <2>1, OneAnswerIsBrief, Longer
    <3> QED
      BY <2>1, <2>3, <3>1 DEF PlayerPrints
  <2> QED
    BY <2>1, <2>2, <2>3
<1>3. Script' /\ Turns' /\ Named' /\ Blamed'
  BY <1>0, <1>2, PlayerKeeps
<1>4. UNCHANGED kind
  BY <1>0, PlayerFrame
<1>5. PlayersListen' /\ ShippedFollow'
  <2>1. ASSUME NEW q \in Players, kind[q] \in Examples
        PROVE  (Listens(q) => Listens(q)') /\ (Follows(q) => Follows(q)')
    BY <1>0, <1>1, <2>1, Bystanders
  <2> QED
    BY <1>4, <2>1 DEF Calm, PlayersListen, ShippedFollow, Examples
<1>6. BookOpens'
  BY <1>1, <1>4 DEF BookOpens, ByTheBook, Examples
<1> QED
  BY <1>3, <1>5, <1>6 DEF BInv

\* So does a step of any player.
LEMMA PlayersPlay == ASSUME Calm, NEW p \in Players, Plays(p) PROVE BInv'
BY OpensRight, ShippedMovesRight, BadMovesRight, NobodyGivesUp, StrangersMove DEF Plays

-----------------------------------------------------------------------------
(* A step of the judger, if each line is one answer.                       *)

\* The judger that has something to read has accepted all before it, and nobody has
\* anything else to read or to say.
LEMMA JudgersTurn ==
  ASSUME Calm, jin # <<>>
  PROVE  /\ Judger \in up /\ jout = <<>> /\ Len(jout) = 0 /\ asked = 0 /\ now \in Players
         /\ jin[1] = now /\ Len(jin) \in 2 .. 3 /\ ~Offence /\ ~isDone(game.board)
         /\ \A p \in Players : kind[p] \in Examples /\ Listens(p) =>
              /\ pin[p] = <<>> /\ pout[p] = <<>> /\ (p = 1 => p \in opened)
              /\ Pending(p) = IF p = now THEN {Answer} ELSE {}
              /\ p = now => Complete
<1>1. /\ Judger \in up /\ jout = <<>> /\ asked = 0 /\ jin[1] = now /\ Len(jin) \in 2 .. 3
      /\ now \in Players /\ ~Offence /\ ~isDone(game.board)
  BY DEF Calm, Turns, Types, BoardTypes, Counts
<1>2. Len(jout) = 0
  BY <1>1, EmptySeq
<1>3. ASSUME NEW p \in Players, Listens(p)
      PROVE  /\ pin[p] = <<>> /\ pout[p] = <<>> /\ (p = 1 => p \in opened)
             /\ Pending(p) = IF p = now THEN {Answer} ELSE {}
             /\ p = now => Complete
  <2>1. /\ pin[p] = <<>> /\ pout[p] = <<>> /\ (p = 1 => p \in opened)
        /\ p = now => Complete
    BY <1>1, <1>3 DEF Listens, Unopened
  <2>2. pout[p] \in Seq(Brief)
    BY DEF Calm, Turns
  <2>3. {pout[p][k] : k \in DOMAIN pout[p]} = {}
    BY <2>1, <2>2, OneLine
  <2> QED
    BY <2>1, <2>3 DEF Pending
<1> QED
  BY <1>1, <1>2, <1>3

\* It reads the answer of the player whose turn it is, and nothing is left.
LEMMA ReadsTheAnswer ==
  ASSUME Calm, JudgerReads
  PROVE  /\ jin # <<>> /\ jin' = <<>> /\ answers'[Len(answers')] = now
         /\ UNCHANGED <<kind, view, opened>>
<1>1. /\ Complete /\ jin # <<>> /\ (Len(jin) = 3 => jin' = <<>>)
      /\ answers'[Len(answers')] = jin[1] /\ UNCHANGED <<kind, view, opened>>
  BY Reads DEF Calm
<1>2. jin[1] = now /\ Len(jin) \in 2 .. 3
  BY <1>1, JudgersTurn
<1>3. PICK n : n = Len(jin)
  OBVIOUS
<1>4. n = 3
  BY <1>1, <1>2, <1>3 DEF Complete
<1> QED
  BY <1>1, <1>2, <1>3, <1>4

\* Nothing is pending then, and a player of the examples has marked on its board what is
\* marked on the judger's, and its answer.
LEMMA NothingPends ==
  ASSUME Calm, jin # <<>>, jin' = <<>>, UNCHANGED <<pin, pout, kind, view, opened>>,
         NEW p \in Players, kind[p] \in Examples
  PROVE  /\ Listens(p) /\ pin'[p] = <<>> /\ pout'[p] = <<>> /\ Len(pout'[p]) = 0
         /\ Pending(p)' = {} /\ (p = 1 => p \in opened')
         /\ Taken(view'[p].board) \subseteq Taken(game.board)
                                            \cup (IF p = now THEN {Answer} ELSE {})
<1>1. Listens(p)
  BY DEF Calm, PlayersListen
<1>2. /\ pin'[p] = <<>> /\ pout'[p] = <<>> /\ (p = 1 => p \in opened')
      /\ Pending(p) = IF p = now THEN {Answer} ELSE {}
  BY <1>1, JudgersTurn
<1>3. Len(pout'[p]) = 0
  BY <1>2, EmptySeq
<1>4. pout[p] \in Seq(Brief) /\ pout[p] = <<>>
  BY <1>2 DEF Calm, Turns
<1>5. {pout[p][k] : k \in DOMAIN pout[p]} = {}
  BY <1>4, OneLine
<1>6. Pending(p)' = {}
  BY <1>5 DEF Pending
<1> QED
  BY <1>1, <1>2, <1>3, <1>6 DEF Listens

\* Between players of the examples the first answer is the centre, the second the corner.
LEMMA BookAnswers ==
  ASSUME Calm, JudgerReads, ByTheBook
  PROVE  /\ NothingMoved => Answer = Centre
         /\ CentreTaken => Answer = Corner
         /\ NothingMoved \/ CentreTaken => Answer \in FreeCells(game.board)
         /\ NothingMoved \/ CentreTaken \/ CornerTaken
<1>1. 1 \in Players /\ 2 \in Players /\ kind[1] \in Examples /\ kind[2] \in Examples
  BY DEF Players, ByTheBook, Examples
<1>2. Listens(1) /\ Listens(2) /\ Opening
  BY <1>1 DEF Calm, PlayersListen, BookOpens
<1>3. /\ now = 1 => Pending(1) = {Answer}
      /\ now = 2 => Pending(2) = {Answer}
  BY <1>1, <1>2, ReadsTheAnswer, JudgersTurn
<1>4. (NothingMoved => Answer = Centre) /\ (CentreTaken => Answer = Corner)
  BY <1>3 DEF NothingMoved, CentreTaken
<1> QED
  BY <1>2, <1>4, FirstBoards DEF NothingMoved, CentreTaken, Opening

\* It refuses an answer that is no free cell.
LEMMA JudgerRefusesRight == ASSUME Calm, JudgerRefuses PROVE BInv'
<1>1. /\ JudgerReads /\ Answer \notin FreeCells(game.board) /\ now' = Other(now)
      /\ game' = game /\ JudgerPrints(<<Win(Other(now))>>)
      /\ UNCHANGED <<pin, pout, asked, stuck, result>>
  BY DEF JudgerRefuses, JudgerPrints
<1>2. /\ jin # <<>> /\ jin' = <<>> /\ answers'[Len(answers')] = now
      /\ UNCHANGED <<kind, view, opened>>
  BY <1>1, ReadsTheAnswer
<1>3. jout = <<>> /\ asked = 0 /\ now \in Players
  BY <1>2, JudgersTurn
<1>4. now' \in Players /\ Other(now') = now
  BY <1>1, <1>3, Others
<1>5. PICK q \in Players : q = now'
  BY <1>4
<1>6. PICK line : line = Win(q)
  OBVIOUS
<1>7. line \in Printed /\ Final(line) /\ JudgerPrints(<<line>>)
  BY <1>1, <1>5, <1>6, PrintedLines, Kinds DEF Final
<1>8. PICK lines : lines = <<line>>
  OBVIOUS
<1>9. lines \in Seq(Printed) /\ Len(lines) = 1 /\ lines[1] = line /\ JudgerPrints(lines)
  BY <1>7, <1>8
<1>10. up' = up \ {Judger} /\ Judger \notin up'
  BY <1>7, <1>9, Prints
<1>11. jout' = lines /\ Len(jout') = 1 /\ jout'[1] = line /\ jout' # <<>>
  <2>1. jout' = lines
    BY <1>3, <1>9, Prints, ConcatEmptySeq
  <2>2. lines # <<>>
    BY <1>9, EmptySeq
  <2> QED
    BY <1>9, <2>1, <2>2
<1>12. Script'
  BY <1>7, <1>10, <1>11 DEF Script, Final
<1>13. Turns'
  BY <1>1, <1>2, <1>3, <1>11 DEF Calm, Turns
<1>14. Named'
  BY <1>2, <1>4 DEF Named
<1>15. Blamed'
  BY <1>1, <1>2 DEF Calm, Blamed
<1>16. ASSUME NEW p \in Players, kind[p] \in Examples PROVE Listens(p)'
  <2>1. /\ pin'[p] = <<>> /\ pout'[p] = <<>> /\ Len(pout'[p]) = 0
        /\ Pending(p)' = {} /\ (p = 1 => p \in opened')
        /\ Taken(view'[p].board) \subseteq Taken(game.board)
                                           \cup (IF p = now THEN {Answer} ELSE {})
    BY <1>1, <1>2, <1>16, NothingPends
  <2>2. Taken(view'[p].board) \subseteq Taken(game'.board)
    BY <1>1, <2>1 DEF Taken
  <2>3. ~(Len(jout') >= 2)
    BY <1>11
  <2> QED
    BY <1>2, <1>10, <2>1, <2>2, <2>3 DEF Listens
<1>17. PlayersListen' /\ ShippedFollow'
  BY <1>2, <1>10, <1>16 DEF PlayersListen, ShippedFollow, Follows, Examples
<1>18. BookOpens'
  <2>1. SUFFICES ASSUME ByTheBook PROVE CornerTaken'
    BY <1>2 DEF BookOpens, ByTheBook, Opening
  <2> QED
    BY <1>1, <2>1, BookAnswers DEF CornerTaken
<1> QED
  BY <1>12, <1>13, <1>14, <1>15, <1>17, <1>18 DEF BInv

\* It leaves at a word, which no player of the examples prints.
LEMMA JudgerLeavesRight == ASSUME Calm, JudgerLeaves PROVE BInv'
<1>1. /\ Garbled /\ jin' = <<>> /\ up' = up \ {Judger} /\ Judger \notin up'
      /\ UNCHANGED <<jout, pin, pout, asked, stuck, result, game, now>>
      /\ UNCHANGED <<kind, view, opened, answers>>
  BY DEF JudgerLeaves, JudgerLosesInput
<1>2. jin # <<>> /\ ~Complete
  BY <1>1 DEF Garbled, NextTokens, Complete
<1>3. jout = <<>> /\ Len(jout) = 0 /\ asked = 0 /\ now \in Players /\ ~Offence
  BY <1>2, JudgersTurn
<1>4. kind[now] \notin Examples
  BY <1>2, <1>3, JudgersTurn DEF Calm, PlayersListen
<1>5. Script'
  BY <1>1, <1>3 DEF Script
<1>6. Turns'
  <2>1. kind[now] # "shipped"
    BY <1>4 DEF Examples
  <2> QED
    BY <1>1, <1>3, <2>1 DEF Calm, Turns
<1>7. Named'
  BY <1>1, <1>3 DEF Named, Offence
<1>8. Blamed'
  BY <1>1 DEF Calm, Blamed
<1>9. ASSUME NEW p \in Players, kind[p] \in Examples PROVE Listens(p)'
  <2>1. /\ pin'[p] = <<>> /\ pout'[p] = <<>> /\ Len(pout'[p]) = 0
        /\ Pending(p)' = {} /\ (p = 1 => p \in opened') /\ p # now
        /\ Taken(view'[p].board) \subseteq Taken(game.board)
                                           \cup (IF p = now THEN {Answer} ELSE {})
    BY <1>1, <1>2, <1>4, <1>9, NothingPends
  <2> QED
    BY <1>1, <1>3, <2>1 DEF Listens
<1>10. PlayersListen' /\ ShippedFollow'
  BY <1>1, <1>9 DEF PlayersListen, ShippedFollow, Follows, Examples
<1>11. BookOpens'
  BY <1>1, <1>3, <1>4 DEF BookOpens, ByTheBook, Examples
<1> QED
  BY <1>5, <1>6, <1>7, <1>8, <1>10, <1>11 DEF BInv

\* It accepts a move onto a free cell, and looks whether the game is over.
LEMMA JudgerAcceptsRight == ASSUME Calm, JudgerAccepts PROVE BInv'
<1>1. PICK c \in FreeCells(game.board), lines \in Seq(Printed) :
        /\ c = Answer /\ c \in Cells
        /\ game' = makeMove(game, c) /\ game' \in Games /\ game'.board[c] # Free
        /\ FreeCells(game'.board) = FreeCells(game.board) \ {c}
        /\ Taken(game'.board) = Taken(game.board) \cup {c}
        /\ now' = Other(now) /\ now \in Players /\ now' \in Players
        /\ jout' = jout \o lines /\ Len(lines) = 3
        /\ lines[1] = Log /\ lines[2] = Send(now', c)
        /\ lines[3] = IF ~isDone(game'.board) THEN Continue(now')
                      ELSE IF getWinner(game'.board) # Free
                           THEN Win(Player(getWinner(game'.board))) ELSE Draw
        /\ up' = IF isDone(game'.board) THEN up \ {Judger} ELSE up
        /\ Final(lines[3]) <=> isDone(game'.board)
        /\ Judger \in up' <=> ~isDone(game'.board)
        /\ UNCHANGED <<pin, pout, asked, stuck, result>>
        /\ ~Offence'
  BY AcceptsMove DEF Calm
<1>2. JudgerReads
  BY DEF JudgerAccepts
<1>3. jin # <<>> /\ jin' = <<>> /\ UNCHANGED <<kind, view, opened>>
  BY <1>2, ReadsTheAnswer
<1>4. jout = <<>> /\ Len(jout) = 0 /\ asked = 0 /\ Judger \in up
  BY <1>3, JudgersTurn
<1>5. jout' = lines
  BY <1>1, <1>4, ConcatEmptySeq
<1>6. Len(jout') = 3 /\ jout'[1] = Log /\ jout'[2] = Send(now', c) /\ jout' # <<>>
  <2>1. Len(lines) # 0
    BY <1>1
  <2>2. lines # <<>>
    BY <2>1, EmptySeq
  <2> QED
    BY <1>1, <1>5, <2>2
<1>7. now' # now /\ \A q \in Players : q = now \/ q = now'
  BY <1>1, Others
<1>8. Sent' = c
  <2>1. Sent' = jout'[2].msg
    BY <1>6 DEF Sent
  <2> QED
    BY <1>6, <2>1, Kinds
<1>9. Script'
  <2>1. IF Judger \in up' THEN lines[3] = Continue(now') ELSE Final(lines[3])
    BY <1>1
  <2>2. jout'[Len(jout')] = lines[3] /\ jout'[Len(jout') - 1] = Send(now', c)
    BY <1>5, <1>6
  <2> QED
    BY <1>1, <1>6, <2>1, <2>2 DEF Script, Final
<1>10. Turns'
  BY <1>1, <1>3, <1>4, <1>6 DEF Calm, Turns
<1>11. Named'
  BY <1>1 DEF Named
<1>12. Blamed'
  BY <1>1, <1>3 DEF Calm, Blamed
<1>13. ASSUME NEW p \in Players, kind[p] \in Examples
       PROVE  /\ Listens(p)' /\ Listens(p)
              /\ pin'[p] = <<>> /\ pout'[p] = <<>> /\ Pending(p)' = {}
  <2>1. /\ pin'[p] = <<>> /\ pout'[p] = <<>> /\ Len(pout'[p]) = 0
        /\ Pending(p)' = {} /\ (p = 1 => p \in opened') /\ Listens(p)
        /\ Taken(view'[p].board) \subseteq Taken(game.board)
                                           \cup (IF p = now THEN {Answer} ELSE {})
    BY <1>1, <1>3, <1>13, NothingPends
  <2>2. Taken(view'[p].board) \subseteq Taken(game'.board)
    BY <1>1, <2>1
  <2>3. p = now' => c \in FreeCells(view'[p].board) \ FreeCells(game'.board)
    BY <1>1, <1>7, <2>1 DEF Taken, FreeCells
  <2>4. Listens(p)'
    BY <1>3, <1>8, <2>1, <2>2, <2>3 DEF Listens
  <2> QED
    BY <2>1, <2>4
<1>14. PlayersListen'
  BY <1>3, <1>13 DEF PlayersListen, Examples
<1>15. ASSUME NEW p \in Players, kind[p] = "shipped" PROVE Follows(p)'
  <2>1. /\ Follows(p) /\ pin'[p] = <<>> /\ pout'[p] = <<>>
    BY <1>13, <1>15 DEF Calm, ShippedFollow, Examples
  <2>2. p \in up \ stuck /\ Judger # p
    BY <1>4, <2>1 DEF Follows, Judger, Players
  <2>3. p \in (up \ stuck)'
    BY <1>1, <2>2
  <2>4. p = now => view[p] = game'
    BY <1>1, <1>3, <1>4, <2>1 DEF Follows
  <2>5. p = now' => makeMove(view[p], c) = game'
    BY <1>1, <1>4, <1>7, <2>1 DEF Follows
  <2>6. Len(jout') >= 2 /\ ~(Len(jout') <= 1)
    BY <1>6
  <2> QED
    BY <1>3, <1>7, <1>8, <2>1, <2>3, <2>4, <2>5, <2>6 DEF Follows
<1>16. ShippedFollow'
  BY <1>3, <1>15 DEF ShippedFollow
<1>17. BookOpens'
  <2>1. SUFFICES ASSUME ByTheBook PROVE Opening'
    BY <1>3 DEF BookOpens, ByTheBook
  <2>2. /\ NothingMoved => c = Centre
        /\ CentreTaken => c = Corner
        /\ NothingMoved \/ CentreTaken \/ CornerTaken
    BY <1>1, <1>2, <2>1, BookAnswers
  <2>3. NothingMoved => CentreTaken'
    <3>1. SUFFICES ASSUME NothingMoved PROVE CentreTaken'
      OBVIOUS
    <3>2. game' = OneMove /\ now' = 2 /\ Judger \in up'
      BY <1>1, <2>2, <3>1, FirstBoards DEF NothingMoved, OneMove, Other
    <3>3. 2 \in Players /\ kind[2] \in Examples
      BY <2>1 DEF Players, ByTheBook, Examples
    <3>4. Pending(2)' = {} /\ pin'[2] = <<>> /\ view'[2] = NewGame
      BY <1>3, <1>13, <3>1, <3>3 DEF NothingMoved
    <3> QED
      BY <1>8, <2>2, <3>1, <3>2, <3>4 DEF CentreTaken
  <2>4. CornerTaken <=> Centre \in Taken(game.board) /\ Corner \in Taken(game.board)
    BY DEF CornerTaken, Taken, FreeCells, Centre, Corner, Cells, Side
  <2>5. CornerTaken' <=> Centre \in Taken(game'.board) /\ Corner \in Taken(game'.board)
    BY DEF CornerTaken, Taken, FreeCells, Centre, Corner, Cells, Side
  <2>6. CentreTaken => CornerTaken'
    BY <1>1, <2>2, <2>5, FirstBoards DEF CentreTaken
  <2>7. CornerTaken => CornerTaken'
    BY <1>1, <2>4, <2>5
  <2> QED
    BY <2>2, <2>3, <2>6, <2>7 DEF Opening
<1> QED
  BY <1>9, <1>10, <1>11, <1>12, <1>14, <1>16, <1>17 DEF BInv

-----------------------------------------------------------------------------
(* The match.                                                              *)

\* A match in which each line is one answer begins so.
LEMMA InitBInv == Init => BInv
<1> SUFFICES ASSUME Init PROVE BInv
  OBVIOUS
<1>1. /\ jout = <<Continue(1)>> /\ jin = <<>> /\ asked = 0 /\ up = 0 .. 2 /\ stuck = {}
      /\ pin = [p \in Players |-> <<>>] /\ pout = [p \in Players |-> <<>>]
      /\ result = NoResult
      /\ kind \in LineUps /\ game = NewGame /\ now = 1 /\ view = [p \in Players |-> NewGame]
      /\ opened = {} /\ answers = <<>>
  BY DEF Init, MatchInit
<1>2. 1 \in Players /\ Judger \in up /\ 1 \in up \ stuck /\ 2 \in up \ stuck
  BY <1>1 DEF Players, Judger
<1>3. Continue(1) \in Printed
  BY <1>2, PrintedLines
<1>4. /\ jout \in Seq(Printed) /\ Len(jout) = 1 /\ jout[1] = Continue(1) /\ jout # <<>>
      /\ ~(Len(jout) >= 2) /\ Len(jout) <= 1
  BY <1>1, <1>3
<1>5. Script
  BY <1>1, <1>2, <1>4 DEF Script
<1>6. Turns
  <2>1. <<>> \in Seq(Brief)
    BY EmptySeq
  <2>2. pout \in [Players -> Seq(Brief)]
    BY <1>1, <2>1
  <2> QED
    BY <1>1, <1>4, <2>2 DEF Turns
<1>7. Named
  BY <1>2 DEF Named
<1>8. Blamed
  BY <1>1 DEF Blamed, NoResult
<1>9. ASSUME NEW p \in Players
      PROVE  pin[p] = <<>> /\ pout[p] = <<>> /\ view[p] = NewGame /\ Pending(p) = {}
  <2>1. pin[p] = <<>> /\ pout[p] = <<>> /\ view[p] = NewGame
    BY <1>1
  <2>2. pout[p] \in Seq(Brief)
    BY <1>6 DEF Turns
  <2>3. {pout[p][k] : k \in DOMAIN pout[p]} = {}
    BY <2>1, <2>2, OneLine
  <2> QED
    BY <1>1, <2>1, <2>3 DEF Pending
<1>10. PlayersListen
  <2>1. Unopened
    BY <1>1, <1>2, <1>4, <1>9 DEF Unopened
  <2>2. ASSUME NEW p \in Players PROVE Listens(p)
    <3>1. Taken(view[p].board) = {}
      BY <1>9, FirstBoards
    <3> QED
      BY <1>1, <1>4, <1>9, <2>1, <3>1 DEF Listens
  <2> QED
    BY <2>2 DEF PlayersListen
<1>11. ShippedFollow
  <2>1. ASSUME NEW p \in Players PROVE Follows(p)
    <3>1. p = 1 \/ p = 2
      BY DEF Players
    <3> QED
      BY <1>1, <1>2, <1>4, <1>9, <3>1 DEF Follows
  <2> QED
    BY <2>1 DEF ShippedFollow
<1>12. BookOpens
  <2>1. 2 \in Players
    BY DEF Players
  <2>2. NothingMoved
    BY <1>1, <1>2, <1>4, <1>9, <2>1 DEF NothingMoved
  <2> QED
    BY <2>2 DEF BookOpens, Opening
<1> QED
  BY <1>5, <1>6, <1>7, <1>8, <1>10, <1>11, <1>12 DEF BInv

\* And goes on so.
LEMMA StepBInv == Calm /\ [Next]_vars => BInv'
<1> SUFFICES ASSUME Calm, [Next]_vars PROVE BInv'
  OBVIOUS
<1>1. CASE UNCHANGED vars
  <2>1. UNCHANGED <<jout, jin, pin, pout, asked, result, relayFrame>>
    BY <1>1 DEF vars, matchVars, relayFrame
  <2>2. PlayersListen' /\ ShippedFollow' /\ BookOpens' /\ Script'
    BY <2>1, OnlyRead
  <2>3. Turns'
    BY <2>1 DEF Calm, Turns, Playing, relayFrame
  <2>4. Named' /\ Blamed'
    BY <2>1 DEF Calm, Named, Blamed, Offence, relayFrame
  <2> QED
    BY <2>2, <2>3, <2>4 DEF BInv
<1>2. CASE Relays
  <2>1. \/ ObeySend \/ ObeyContinue \/ Skip \/ Verdict
        \/ PassAnswer \/ PlayerFails(opened) \/ JudgerFails
    BY <1>2 DEF Relays, Relay
  <2> QED
    BY <1>2, <2>1, ObeysSend, ObeysContinue, Skips, TakesVerdict, PassesAnswer, BlamesPlayer,
       BlamesJudger
<1>3. CASE Judges
  BY <1>3, JudgerAcceptsRight, JudgerRefusesRight, JudgerLeavesRight DEF Judges
<1>4. ASSUME NEW p \in Players, Plays(p) PROVE BInv'
  BY <1>4, PlayersPlay
<1> QED
  BY <1>1, <1>2, <1>3, <1>4 DEF Next

\* Nobody changes the programs that play.
LEMMA SameKinds == Types /\ [Next]_vars => kind' = kind
<1> SUFFICES ASSUME Types, [Next]_vars PROVE kind' = kind
  OBVIOUS
<1>1. CASE Relays
  BY <1>1, RelayFrame
<1>2. CASE Judges
  BY <1>2 DEF Judges, JudgerAccepts, JudgerRefuses, JudgerLeaves, JudgerReads
<1>3. ASSUME NEW p \in Players, Plays(p) PROVE kind' = kind
  BY <1>3, PlayerFrame
<1>4. CASE UNCHANGED vars
  BY <1>4 DEF vars
<1> QED
  BY <1>1, <1>2, <1>3, <1>4 DEF Next

\* So at all times.
LEMMA AlwaysIInv == Spec => []IInv
<1>1. Init => IInv
  BY InitWInv, InitBInv DEF IInv
<1>2. IInv /\ [Next]_vars => IInv'
  <2> SUFFICES ASSUME IInv, [Next]_vars PROVE IInv'
    OBVIOUS
  <2>1. WInv'
    BY StepWInv DEF IInv
  <2>2. Orderly' => Calm
    <3>1. Types /\ Counts
      BY DEF IInv, WInv
    <3>2. Orderly' => Orderly
      BY <3>1, SameKinds DEF Orderly
    <3> QED
      BY <3>1, <3>2 DEF IInv, BInv, Calm
  <2>3. Orderly' => BInv'
    BY <2>2, StepBInv
  <2> QED
    BY <2>1, <2>3 DEF IInv
<1> QED
  BY <1>1, <1>2, PTL DEF Spec

\* Every message, board and outcome is what its stream and its record are for, whichever
\* programs play, and whatever they print.
THEOREM TypeCorrect == Spec => []TypeOK
<1>1. IInv => TypeOK
  <2>1. SUFFICES ASSUME IInv PROVE TypeOK
    OBVIOUS
  <2>2. StreamTypes /\ RelayTypes /\ BoardTypes
    BY <2>1 DEF IInv, WInv, Types
  <2>3. /\ \A k \in DOMAIN jout : jout[k] \in Printed
        /\ \A k \in DOMAIN jin : jin[k] \in Tokens
    <3>1. jout \in Seq(Printed) /\ jin \in Seq(Tokens)
      BY <2>2 DEF StreamTypes
    <3>2. \A S : \A s \in Seq(S) : \A k \in DOMAIN s : s[k] \in S
      OBVIOUS
    <3> QED
      BY <3>1, <3>2
  <2>4. MatchTypeOK
    BY <2>2, <2>3, PrintedIs DEF StreamTypes, RelayTypes, MatchTypeOK
  <2>5. Marks = {Free, "X", "O"}
    BY DEF Marks
  <2> QED
    BY <2>2, <2>4, <2>5 DEF TypeOK, BoardTypes, Games
<1> QED
  BY <1>1, AlwaysIInv, PTL

\* Who wins has three in a line, or there was an answer that was no free cell, which was
\* the other's if each line is one answer; a draw is a full board without a line; the
\* scores say the same; and if each line is one answer shipped players are not blamed.
THEOREM VerdictsAreRight == Spec => []VerdictIsRight
<1>1. IInv => VerdictIsRight
  <2>1. SUFFICES ASSUME IInv PROVE VerdictIsRight
    OBVIOUS
  <2>2. Ruled /\ Types
    BY <2>1 DEF IInv, WInv
  <2>3. ASSUME result.kind = "win"
        PROVE  /\ IF Offence THEN Orderly => answers[Len(answers)] = Other(result.who)
                              ELSE HasLine(game.board, result.who)
               /\ \A p \in Players : result.scores[p] = IF p = result.who THEN 1 ELSE 0
    <3>1. /\ Right(Win(result.who)) /\ result.who \in Players
          /\ result.scores = Win(result.who).msg /\ Judger \notin up
      BY <2>2, <2>3 DEF Ruled
    <3>2. Win(result.who) # Draw
      <4>1. Win(result.who).cmd = "win" /\ Draw.cmd = "draw"
        BY Kinds
      <4> QED
        BY <4>1
    <3>3. \A p : Win(p) = Win(result.who) => p = result.who
      <4>1. \A p : Win(p).to = p
        BY Kinds
      <4> QED
        BY <4>1
    <3>4. IF Offence THEN result.who = now ELSE HasLine(game.board, result.who)
      BY <3>1, <3>2, <3>3 DEF Right
    <3>5. Orderly => Named
      BY <2>1 DEF IInv, BInv
    <3>6. Offence /\ Orderly => answers[Len(answers)] = Other(result.who)
      BY <3>1, <3>4, <3>5 DEF Named
    <3>7. \A p \in Players : result.scores[p] = IF p = result.who THEN 1 ELSE 0
      BY <3>1 DEF Win
    <3> QED
      BY <3>4, <3>6, <3>7
  <2>4. ASSUME result.kind = "draw"
        PROVE  /\ ~Offence /\ FreeCells(game.board) = {}
               /\ \A p \in Players : ~HasLine(game.board, p) /\ result.scores[p] = 0
    <3>1. Right(Draw) /\ result.scores = Draw.msg
      BY <2>2, <2>4 DEF Ruled
    <3>2. \A p : Win(p) # Draw
      <4>1. Draw.cmd = "draw" /\ \A p : Win(p).cmd = "win"
        BY Kinds
      <4> QED
        BY <4>1
    <3>3. \A p \in Players : result.scores[p] = 0
      BY <3>1 DEF Draw
    <3> QED
      BY <3>1, <3>2, <3>3 DEF Right
  <2>5. Orderly => Blamed
    BY <2>1 DEF IInv, BInv
  <2> QED
    BY <2>3, <2>4, <2>5 DEF VerdictIsRight, Blamed
<1> QED
  BY <1>1, AlwaysIInv, PTL

\* Between players of the examples the judger asks for no move once there are three in a
\* line, although it may overlook a line.
THEOREM LinesAreSeen == Spec => []ShippedLinesAreSeen
<1>1. IInv => ShippedLinesAreSeen
  <2>1. SUFFICES ASSUME IInv, ByTheBook, Judger \in up, NEW p \in Players
                 PROVE  ~HasLine(game.board, p)
    BY DEF ShippedLinesAreSeen, EveryLineIsSeen
  <2>2. Orderly
    BY <2>1 DEF ByTheBook, Orderly
  <2>3. Opening
    BY <2>1, <2>2 DEF IInv, BInv, BookOpens
  <2>4. getWinner(game.board) = Free
    BY <2>1 DEF IInv, WInv, Counts, isDone
  <2>5. CASE NothingMoved \/ CentreTaken
    BY <2>5, FirstBoards DEF NothingMoved, CentreTaken
  <2>6. CASE CornerTaken
    BY <2>4, <2>6, CornerTakenSees DEF CornerTaken
  <2> QED
    BY <2>3, <2>5, <2>6 DEF Opening
<1> QED
  BY <1>1, AlwaysIInv, PTL

\* If each line is one answer, right or wrong, a shipped player that is told the move it
\* does not know has the judger's board, and it answers with a cell that is free there.
THEOREM ShippedSeeTheBoard == Spec => []PlayersSeeTheBoard
<1>1. IInv => PlayersSeeTheBoard
  <2>1. SUFFICES ASSUME IInv, Orderly, NEW p \in Players
        PROVE  /\ kind[p] \in {"shipped", "bad"} /\ pin[p] # <<>> =>
                    Head(pin[p]) \in FreeCells(view[p].board)
               /\ kind[p] = "shipped" /\ asked = p =>
                    /\ pin[p] # <<>> => Heard(p) = game
                    /\ pout[p] # <<>> => /\ Head(pout[p]) \in FreeCells(game.board)
                                         /\ view[p] = makeMove(game, Head(pout[p]))
    BY DEF PlayersSeeTheBoard
  <2>2. Types /\ Turns /\ PlayersListen /\ ShippedFollow
    BY <2>1 DEF IInv, WInv, BInv
  <2>3. /\ pin[p] # <<>> => Head(pin[p]) = pin[p][1]
        /\ pout[p] # <<>> => Head(pout[p]) = pout[p][1]
    <3>1. pin[p] \in Seq(Cells) /\ pout[p] \in Seq(Seq(Tokens))
      BY <2>2 DEF Types, StreamTypes
    <3> QED
      BY <3>1, HeadAndTail
  <2>4. ASSUME kind[p] \in Examples, pin[p] # <<>>
        PROVE  Head(pin[p]) \in FreeCells(view[p].board)
    <3>1. PICK c \in FreeCells(view[p].board) : pin[p] = <<c>>
      BY <2>2, <2>4 DEF PlayersListen, Listens
    <3> QED
      BY <3>1
  <2>5. ASSUME kind[p] = "shipped", asked = p
        PROVE  /\ pin[p] # <<>> => Heard(p) = game
               /\ pout[p] # <<>> => /\ Head(pout[p]) \in FreeCells(game.board)
                                    /\ view[p] = makeMove(game, Head(pout[p]))
    <3>1. Judger \in up /\ p = now
      BY <2>2, <2>5 DEF Turns, Players
    <3>2. Follows(p)
      BY <2>2, <2>5 DEF ShippedFollow
    <3> QED
      BY <2>3, <3>1, <3>2 DEF Follows, Heard
  <2> QED
    BY <2>4, <2>5 DEF Examples
<1> QED
  BY <1>1, AlwaysIInv, PTL
=============================================================================
