----------------------------- MODULE Gomoku_proofs -----------------------------
(***************************************************************************)
(* Gomoku on a board of any size, with rows of any length.  Whatever the   *)
(* players print, the judger sees every row and its verdict follows from   *)
(* its board; if each line of theirs is one answer, right or wrong, it is  *)
(* right about who gave it, and a shipped player sees the judger's board.  *)
(***************************************************************************)
EXTENDS Gomoku, Match_proofs

-----------------------------------------------------------------------------
(* Windows and rows.                                                       *)

\* The cells of a row to the right, without products.
LEMMA RowAcross ==
  ASSUME NEW b, NEW p, NEW i \in Int, NEW j \in Int
  PROVE  Row(b, p, <<i, j>>, <<0, 1>>)
            <=> \A k \in Span : <<i, j + k>> \in Cells /\ b[<<i, j + k>>] = p
<1>1. Span \subseteq Int
  BY BoardAssumption DEF Span
<1>2. \A k \in Span : <<i + k * <<0, 1>>[1], j + k * <<0, 1>>[2]>> = <<i, j + k>>
  BY <1>1
<1> QED
  BY <1>2 DEF Row

\* The cells of a row downwards, without products.
LEMMA RowDown ==
  ASSUME NEW b, NEW p, NEW i \in Int, NEW j \in Int
  PROVE  Row(b, p, <<i, j>>, <<1, 0>>)
            <=> \A k \in Span : <<i + k, j>> \in Cells /\ b[<<i + k, j>>] = p
<1>1. Span \subseteq Int
  BY BoardAssumption DEF Span
<1>2. \A k \in Span : <<i + k * <<1, 0>>[1], j + k * <<1, 0>>[2]>> = <<i + k, j>>
  BY <1>1
<1> QED
  BY <1>2 DEF Row

\* The cells of a row down and to the right, without products.
LEMMA RowDiagonal ==
  ASSUME NEW b, NEW p, NEW i \in Int, NEW j \in Int
  PROVE  Row(b, p, <<i, j>>, <<1, 1>>)
            <=> \A k \in Span : <<i + k, j + k>> \in Cells /\ b[<<i + k, j + k>>] = p
<1>1. Span \subseteq Int
  BY BoardAssumption DEF Span
<1>2. \A k \in Span : <<i + k * <<1, 1>>[1], j + k * <<1, 1>>[2]>> = <<i + k, j + k>>
  BY <1>1
<1> QED
  BY <1>2 DEF Row

\* The cells of a row down and to the left, without products.
LEMMA RowAntidiagonal ==
  ASSUME NEW b, NEW p, NEW i \in Int, NEW j \in Int
  PROVE  Row(b, p, <<i, j>>, <<1, -1>>)
            <=> \A k \in Span : <<i + k, j - k>> \in Cells /\ b[<<i + k, j - k>>] = p
<1>1. Span \subseteq Int
  BY BoardAssumption DEF Span
<1>2. \A k \in Span : <<i + k * <<1, -1>>[1], j + k * <<1, -1>>[2]>> = <<i + k, j - k>>
  BY <1>1
<1> QED
  BY <1>2 DEF Row

\* A window is a row from a cell of the board.
LEMMA WindowIsRow ==
  ASSUME NEW b, NEW p, NEW w \in Windows, Holds(b, p, w)
  PROVE  HasFive(b, p)
<1>0. /\ Size \in Nat /\ Five \in Nat /\ 1 <= Five /\ Five <= Size
      /\ Start \subseteq Int /\ Side \subseteq Int
  BY BoardAssumption DEF Start, Side
<1>1. CASE \E i \in Side, j \in Start : w = {<<i, j + k>> : k \in Span}
  <2>1. PICK i \in Side, j \in Start : w = {<<i, j + k>> : k \in Span}
    BY <1>1
  <2>2. \A k \in Span : <<i, j + k>> \in Cells /\ b[<<i, j + k>>] = p
    BY <1>0, <2>1 DEF Holds, Span, Start, Side, Cells
  <2>3. Row(b, p, <<i, j>>, <<0, 1>>)
    BY <1>0, <2>2, RowAcross
  <2>4. <<i, j>> \in Cells /\ <<0, 1>> \in Directions
    BY <1>0 DEF Cells, Start, Side, Directions
  <2> QED
    BY <2>3, <2>4 DEF HasFive
<1>2. CASE \E i \in Start, j \in Side : w = {<<i + k, j>> : k \in Span}
  <2>1. PICK i \in Start, j \in Side : w = {<<i + k, j>> : k \in Span}
    BY <1>2
  <2>2. \A k \in Span : <<i + k, j>> \in Cells /\ b[<<i + k, j>>] = p
    BY <1>0, <2>1 DEF Holds, Span, Start, Side, Cells
  <2>3. Row(b, p, <<i, j>>, <<1, 0>>)
    BY <1>0, <2>2, RowDown
  <2>4. <<i, j>> \in Cells /\ <<1, 0>> \in Directions
    BY <1>0 DEF Cells, Start, Side, Directions
  <2> QED
    BY <2>3, <2>4 DEF HasFive
<1>3. CASE \E i \in Start, j \in Start : w = {<<i + k, j + k>> : k \in Span}
  <2>1. PICK i \in Start, j \in Start : w = {<<i + k, j + k>> : k \in Span}
    BY <1>3
  <2>2. \A k \in Span : <<i + k, j + k>> \in Cells /\ b[<<i + k, j + k>>] = p
    BY <1>0, <2>1 DEF Holds, Span, Start, Side, Cells
  <2>3. Row(b, p, <<i, j>>, <<1, 1>>)
    BY <1>0, <2>2, RowDiagonal
  <2>4. <<i, j>> \in Cells /\ <<1, 1>> \in Directions
    BY <1>0 DEF Cells, Start, Side, Directions
  <2> QED
    BY <2>3, <2>4 DEF HasFive
<1>4. CASE \E i \in Start, j \in Start : w = {<<i + Five - 1 - k, j + k>> : k \in Span}
  <2>1. PICK i \in Start, j \in Start : w = {<<i + Five - 1 - k, j + k>> : k \in Span}
    BY <1>4
  <2> DEFINE jj == j + Five - 1
  <2>2. \A k \in Span : <<i + k, jj - k>> \in Cells /\ b[<<i + k, jj - k>>] = p
    <3> TAKE k \in Span
    <3> DEFINE m == Five - 1 - k
    <3>1. m \in Span /\ i + Five - 1 - m = i + k /\ j + m = jj - k
      BY <1>0 DEF Span
    <3>2. <<i + k, jj - k>> \in w
      BY <2>1, <3>1
    <3> QED
      BY <1>0, <3>2 DEF Holds, Span, Start, Side, Cells
  <2>3. Row(b, p, <<i, jj>>, <<1, -1>>)
    <3>1. i \in Int /\ jj \in Int
      BY <1>0
    <3> HIDE DEF jj
    <3> QED
      BY <2>2, <3>1, RowAntidiagonal
  <2>4. <<i, jj>> \in Cells /\ <<1, -1>> \in Directions
    BY <1>0 DEF Cells, Start, Side, Directions
  <2> QED
    BY <2>3, <2>4 DEF HasFive
<1> QED
  BY <1>1, <1>2, <1>3, <1>4 DEF Windows

\* A row, in any direction from any cell, is a window.
LEMMA RowIsWindow ==
  ASSUME NEW b, NEW p, HasFive(b, p)
  PROVE  \E w \in Windows : Holds(b, p, w)
<1>0. /\ Size \in Nat /\ Five \in Nat /\ 1 <= Five /\ Five <= Size
      /\ Start \subseteq Int /\ Side \subseteq Int
      /\ 0 \in Span /\ Five - 1 \in Span
  BY BoardAssumption DEF Start, Side, Span
<1>1. PICK c \in Cells, d \in Directions : Row(b, p, c, d)
  BY DEF HasFive
<1>2. PICK i \in Side, j \in Side : c = <<i, j>>
  BY DEF Cells
<1>. i \in Int /\ j \in Int
  BY <1>0
<1>3. CASE d = <<0, 1>>
  <2>1. \A k \in Span : <<i, j + k>> \in Cells /\ b[<<i, j + k>>] = p
    <3>1. Row(b, p, <<i, j>>, <<0, 1>>)
      BY <1>1, <1>2, <1>3
    <3> QED
      BY <3>1, RowAcross
  <2>2. j \in Start
    <3>1. <<i, j + (Five - 1)>> \in Cells
      BY <1>0, <2>1
    <3> QED
      BY <1>0, <3>1 DEF Cells, Side, Start
  <2> DEFINE w == {<<i, j + k>> : k \in Span}
  <2>3. w \in Windows
    <3>1. w \in {{<<x, y + k>> : k \in Span} : x \in Side, y \in Start}
      BY <2>2
    <3> HIDE DEF w
    <3> QED
      BY <3>1 DEF Windows
  <2>4. Holds(b, p, w)
    BY <2>1 DEF Holds
  <2> QED
    BY <2>3, <2>4
<1>4. CASE d = <<1, 0>>
  <2>1. \A k \in Span : <<i + k, j>> \in Cells /\ b[<<i + k, j>>] = p
    <3>1. Row(b, p, <<i, j>>, <<1, 0>>)
      BY <1>1, <1>2, <1>4
    <3> QED
      BY <3>1, RowDown
  <2>2. i \in Start
    <3>1. <<i + (Five - 1), j>> \in Cells
      BY <1>0, <2>1
    <3> QED
      BY <1>0, <3>1 DEF Cells, Side, Start
  <2> DEFINE w == {<<i + k, j>> : k \in Span}
  <2>3. w \in Windows
    <3>1. w \in {{<<x + k, y>> : k \in Span} : x \in Start, y \in Side}
      BY <2>2
    <3> HIDE DEF w
    <3> QED
      BY <3>1 DEF Windows
  <2>4. Holds(b, p, w)
    BY <2>1 DEF Holds
  <2> QED
    BY <2>3, <2>4
<1>5. CASE d = <<1, 1>>
  <2>1. \A k \in Span : <<i + k, j + k>> \in Cells /\ b[<<i + k, j + k>>] = p
    <3>1. Row(b, p, <<i, j>>, <<1, 1>>)
      BY <1>1, <1>2, <1>5
    <3> QED
      BY <3>1, RowDiagonal
  <2>2. i \in Start /\ j \in Start
    <3>1. <<i + (Five - 1), j + (Five - 1)>> \in Cells
      BY <1>0, <2>1
    <3> QED
      BY <1>0, <3>1 DEF Cells, Side, Start
  <2> DEFINE w == {<<i + k, j + k>> : k \in Span}
  <2>3. w \in Windows
    <3>1. w \in {{<<x + k, y + k>> : k \in Span} : x \in Start, y \in Start}
      BY <2>2
    <3> HIDE DEF w
    <3> QED
      BY <3>1 DEF Windows
  <2>4. Holds(b, p, w)
    BY <2>1 DEF Holds
  <2> QED
    BY <2>3, <2>4
<1>6. CASE d = <<1, -1>>
  <2>1. \A k \in Span : <<i + k, j - k>> \in Cells /\ b[<<i + k, j - k>>] = p
    <3>1. Row(b, p, <<i, j>>, <<1, -1>>)
      BY <1>1, <1>2, <1>6
    <3> QED
      BY <3>1, RowAntidiagonal
  <2> DEFINE jj == j - (Five - 1)
  <2>2. i \in Start /\ jj \in Start
    <3>1. <<i + (Five - 1), j - (Five - 1)>> \in Cells
      BY <1>0, <2>1
    <3> QED
      BY <1>0, <3>1 DEF Cells, Side, Start
  <2> DEFINE w == {<<i + Five - 1 - k, jj + k>> : k \in Span}
  <2>3. w \in Windows
    <3> HIDE DEF jj
    <3>1. w \in {{<<x + Five - 1 - k, y + k>> : k \in Span} : x \in Start, y \in Start}
      BY <2>2
    <3> HIDE DEF w
    <3> QED
      BY <3>1 DEF Windows
  <2>4. \A k \in Span : b[<<i + Five - 1 - k, jj + k>>] = p
    <3> TAKE k \in Span
    <3> DEFINE m == Five - 1 - k
    <3>1. m \in Span /\ i + m = i + Five - 1 - k /\ j - m = jj + k
      BY <1>0 DEF Span
    <3> QED
      BY <2>1, <3>1
  <2>5. Holds(b, p, w)
    BY <2>4 DEF Holds
  <2> QED
    BY <2>3, <2>5
<1> QED
  BY <1>3, <1>4, <1>5, <1>6 DEF Directions

\* checkWin finds exactly the players with five in a row: the code's four pairs of loop
\* bounds are right for every board.
THEOREM CheckWinIsExact ==
  ASSUME NEW b
  PROVE  checkWin(b) = {p \in Players : HasFive(b, p)}
BY WindowIsRow, RowIsWindow DEF checkWin

-----------------------------------------------------------------------------
(* The judger stops.                                                             *)

\* A board with a full window ends the program.
LEMMA WinEndsJudger ==
  ASSUME NEW b, NEW c, checkWin(b) # {}, JudgerPrints(AfterMove(b, c))
  PROVE  Judger \notin up'
<1> DEFINE line == Win(CHOOSE p \in checkWin(b) : TRUE)
<1>1. AfterMove(b, c) = <<Log>> \o <<line>>
  BY DEF AfterMove
<1>2. AfterMove(b, c)[Len(AfterMove(b, c))] = line
  <2>1. <<Log>> \in Seq({Log, line}) /\ line \in {Log, line}
    OBVIOUS
  <2> QED
    BY <1>1, <2>1, LastLine
<1>3. line.cmd = "win"
  BY DEF Win
<1> QED
  BY <1>2, <1>3 DEF JudgerPrints

\* No player moves first with five in a row.
LEMMA EmptyBoard ==
  ASSUME NEW p \in Players
  PROVE  ~HasFive([c \in Cells |-> Free], p)
<1> SUFFICES ASSUME HasFive([c \in Cells |-> Free], p) PROVE FALSE
  OBVIOUS
<1> DEFINE b == [c \in Cells |-> Free]
<1>1. PICK c \in Cells, d \in Directions : Row(b, p, c, d)
  BY DEF HasFive
<1>2. 0 \in Span
  BY BoardAssumption DEF Span
<1>3. PICK e \in Cells : b[e] = p
  BY <1>1, <1>2 DEF Row
<1> QED
  BY <1>3 DEF Free, Players

\* The programs that run are never more; only the judger's accepting changes the board.
LEMMA OtherSteps ==
  ASSUME Relays \/ (\E p \in Players : Plays(p)) \/ JudgerRefuses
  PROVE  up' \subseteq up /\ board' = board
<1>1. CASE Relays
  BY <1>1 DEF Relays, Relay, ObeySend, ObeyContinue, Skip, Verdict, NextCommand, PassAnswer,
    PlayerFails, JudgerFails
<1>2. CASE \E p \in Players : Plays(p)
  <2>1. PICK p \in Players : Plays(p)
    BY <1>2
  <2>2. board' = board
    BY <2>1 DEF Plays, ShippedMoves, ShippedMarks, StrangerMoves, Hears, playerFrame
  <2>3. up' = up \/ up' = up \ {p}
    BY <2>1 DEF Plays, ShippedMoves, ShippedMarks, StrangerMoves, Whatever, Stays, Spins, Exits
  <2> QED
    BY <2>2, <2>3
<1>3. CASE JudgerRefuses
  BY <1>3 DEF JudgerRefuses, JudgerPrints
<1> QED
  BY <1>1, <1>2, <1>3

\* After a move that the judger takes, it runs only if nobody has won by it.
LEMMA AfterAMove ==
  ASSUME JudgerAccepts \/ JudgerMisreads, Judger \in up'
  PROVE  checkWin(board') = {}
<1> SUFFICES ASSUME checkWin(board') # {} PROVE FALSE
  OBVIOUS
<1>1. CASE JudgerAccepts
  BY <1>1, WinEndsJudger DEF JudgerAccepts
<1>2. CASE JudgerMisreads
  <2>1. PICK c \in Misread :
          IF ~validate(c)
          THEN JudgerPrints(<<Log, Win(Other(now))>>) /\ UNCHANGED <<board, now>>
          ELSE /\ board' = Place(c)
               /\ now' = IF Ended(board') THEN now ELSE Other(now)
               /\ JudgerPrints(AfterMove(board', c)
                                 \o IF Ended(board') THEN <<>> ELSE <<Log, Win(now)>>)
    BY <1>2 DEF JudgerMisreads
  <2>2. CASE ~validate(c)
    <3>1. JudgerPrints(<<Log, Win(Other(now))>>)
      BY <2>1, <2>2
    <3>2. Judger \notin up'
      BY <3>1 DEF JudgerPrints, Win
    <3> QED
      BY <3>2
  <2>3. CASE validate(c)
    <3>1. Ended(board')
      BY DEF Ended
    <3>2. JudgerPrints(AfterMove(board', c) \o <<>>)
      BY <2>1, <2>3, <3>1
    <3>3. AfterMove(board', c) \o <<>> = AfterMove(board', c)
      <4> DEFINE line == Win(CHOOSE p \in checkWin(board') : TRUE)
      <4>1. AfterMove(board', c) = <<Log>> \o <<line>>
        BY DEF AfterMove
      <4>2. <<Log>> \in Seq({Log, line}) /\ <<line>> \in Seq({Log, line})
        OBVIOUS
      <4>3. AfterMove(board', c) \in Seq({Log, line})
        BY <4>1, <4>2, Appending
      <4> QED
        BY <4>3, Appending
    <3> QED
      BY <3>2, <3>3, WinEndsJudger
  <2> QED
    BY <2>2, <2>3
<1> QED
  BY <1>1, <1>2

\* EveryRowIsSeen, for a board of any size and rows of any length, whatever the
\* players print.
THEOREM RowsAlwaysSeen == Spec => []EveryRowIsSeen
<1>1. Init => EveryRowIsSeen
  BY EmptyBoard DEF Init, EveryRowIsSeen
<1>2. EveryRowIsSeen /\ [Next]_vars => EveryRowIsSeen'
  <2> SUFFICES ASSUME EveryRowIsSeen, [Next]_vars, Judger \in up'
               PROVE  \A p \in Players : ~HasFive(board', p)
    BY DEF EveryRowIsSeen, HasFive, Row
  <2>1. CASE Relays \/ (\E p \in Players : Plays(p)) \/ JudgerRefuses
    BY <2>1, OtherSteps DEF EveryRowIsSeen
  <2>2. CASE JudgerAccepts \/ JudgerMisreads
    BY <2>2, AfterAMove, CheckWinIsExact
  <2>3. CASE UNCHANGED vars
    BY <2>3 DEF EveryRowIsSeen, vars, matchVars
  <2> QED
    BY <2>1, <2>2, <2>3 DEF Next, Judges
<1> QED
  BY <1>1, <1>2, PTL DEF Spec

-----------------------------------------------------------------------------
(* The match, whatever the players print.  WInv says of what streams they  *)
(* are made (Types), that a verdict is printed by a judger that ends, and  *)
(* follows from its board (Verdicts, Ruled), and that its board fits whose *)
(* turn it is there (Counts).                                              *)

News(p, c) == <<Other(p)>> \o c
Messages(p) == {<<p>>} \cup {News(p, c) : c \in Cells}

Printed == {Log, Blank, Draw} \cup {Win(p) : p \in Players} \cup {Continue(p) : p \in Players}
           \cup UNION {{Send(p, m) : m \in Messages(p)} : p \in Players}

StreamTypes ==
  /\ jout \in Seq(Printed)
  /\ jin \in Seq(Tokens)
  /\ DOMAIN pin = Players /\ \A p \in Players : pin[p] \in Seq(Messages(p))
  /\ pout \in [Players -> Seq(Seq(Tokens))]

RelayTypes ==
  /\ asked \in 0 .. 2
  /\ up \subseteq 0 .. 2
  /\ stuck \subseteq up \cap Players
  /\ result.kind \in {"none", "win", "draw", "error"} /\ result.who \in 0 .. 2

BoardTypes ==
  /\ kind \in LineUps
  /\ board \in [Cells -> {Free} \cup Players]
  /\ now \in Players
  /\ seen \in [Players -> SUBSET Cells]
  /\ last \in [id : Tokens, sane : BOOLEAN]

Types == StreamTypes /\ RelayTypes /\ BoardTypes

\* A verdict is right, as VerdictIsRight says it of the result.
Right(line) ==
  \/ \E p \in Players :
       /\ line = Win(p)
       /\ last.sane => /\ HasFive(board, p) \/ now = Other(p)
                       /\ ~HasFive(board, Other(p))
  \/ /\ line = Draw
     /\ FreeCells(board) = {}
     /\ \A p \in Players : ~HasFive(board, p)

Verdicts ==
  \A k \in 1 .. Len(jout) : Final(jout[k]) => Judger \notin up /\ Right(jout[k])

Ruled ==
  /\ result.kind \in {"win", "draw"} => Judger \notin up
  /\ result.kind = "win" => Right(Win(result.who)) /\ result.who \in Players
                            /\ result.scores = Win(result.who).msg
  /\ result.kind = "draw" => Right(Draw) /\ result.scores = Draw.msg

Counts ==
  /\ Moves(1) - Moves(2) \in 0 .. 1
  /\ Judger \in up => Moves(1) - Moves(2) = now - 1

WInv == Types /\ Verdicts /\ Ruled /\ Counts

-----------------------------------------------------------------------------
(* The match, if each line is one answer (Orderly).  What the judger has   *)
(* printed is a script then, whose lines are counted from where it asks    *)
(* for an answer (Ahead): behind that there is nothing, or the two lines   *)
(* of a judger that has ended.  BInv says who is to answer, and that       *)
(* nothing is left in the judger's stream (Turns), what the script tells   *)
(* that player (Script), how it ends (Ends), whose answer a verdict is     *)
(* about (Named), what a shipped player knows when (Follows), and whom an  *)
(* error blames (Blamed).                                                  *)

\* The lines up to the one that asks for an answer; a judger that has ended has printed
\* two more, or only those.
Ahead == Len(jout) - IF Judger \in up THEN 0 ELSE 2

Script ==
  /\ Ahead <= 4
  /\ Ahead >= 1 => jout[Ahead] = Continue(now)
  /\ Ahead >= 2 => jout[Ahead - 1] = Send(now, <<now>>)
  /\ Ahead >= 3 => \/ jout[Ahead - 2] = Blank
                   \/ \E c \in Cells : jout[Ahead - 2] = Send(now, News(now, c))
  /\ Ahead >= 4 => jout[Ahead - 3] = Log

Ends ==
  Judger \notin up =>
    /\ jout # <<>> => Final(jout[Len(jout)])
    /\ Len(jout) >= 2 => jout[Len(jout) - 1] = Log

Turns ==
  /\ pout \in [Players -> Seq(Brief)]
  /\ asked \in {0, now}
  /\ asked # 0 => Ahead = 0
  /\ Judger \in up /\ jin # <<>> =>
       /\ Len(jin) \in 2 .. 3 /\ jin[1] = now
       /\ jout = <<>> /\ asked = 0
  /\ Playing => \/ jout # <<>>
                \/ Judger \in up /\ (asked # 0 \/ jin # <<>>)

Named == Judger \notin up /\ last.sane => last.id = now

Taken == Cells \ FreeCells(board)

\* The player whose turn comes, or has come, has not been told the last move; or has,
\* and been told to move; or has answered.
Uptodate(p) ==
  /\ pout[p] = <<>> /\ seen[p] = Taken
  /\ Ahead >= 3 => jout[Ahead - 2] = Blank
  /\ pin[p] = IF Ahead <= 1 THEN <<<<p>>>> ELSE <<>>

Untold(p) ==
  /\ pout[p] = <<>>
  /\ \E c \in Cells :
       /\ seen[p] \cup {c} = Taken
       /\ \/ Ahead >= 3 /\ jout[Ahead - 2] = Send(p, News(p, c)) /\ pin[p] = <<>>
          \/ Ahead = 2 /\ pin[p] = <<News(p, c)>>
          \/ Ahead <= 1 /\ pin[p] = <<News(p, c), <<p>>>>

Answered(p) ==
  /\ Ahead <= 1 /\ pin[p] = <<>>
  /\ \E c \in FreeCells(board) : pout[p] = <<c>> /\ seen[p] = Taken \cup {c}

Follows(p) ==
  /\ p \in up \ stuck
  /\ p = now /\ (Ahead >= 1 \/ asked = p) => Uptodate(p) \/ Untold(p) \/ Answered(p)
  /\ Judger \in up /\ p # now => pin[p] = <<>> /\ pout[p] = <<>> /\ seen[p] = Taken
  /\ Judger \in up /\ p = now /\ jin # <<>> =>
       /\ pin[p] = <<>> /\ pout[p] = <<>> /\ Len(jin) = 3
       /\ Answer \in FreeCells(board) /\ seen[p] = Taken \cup {Answer}

ShippedFollow == \A p \in Players : kind[p] = "shipped" => Follows(p)

Blamed ==
  result.kind = "error" =>
    \E p \in Players : kind[p] # "shipped" /\ result.who \in {p, Judger}

BInv == Script /\ Ends /\ Turns /\ Named /\ ShippedFollow /\ Blamed

IInv == WInv /\ (Orderly => BInv)

USE BoardAssumption, TokensAssumption

-----------------------------------------------------------------------------
(* Sequences and lines.                                                    *)

\* What the judger prints when the match goes on, line by line.
LEMMA FourLines ==
  ASSUME NEW S, NEW a \in S, NEW b \in S, NEW c \in S, NEW d \in S
  PROVE  LET s == <<a>> \o (<<b>> \o <<c, d>>) IN
         /\ s \in Seq(S) /\ Len(s) = 4
         /\ s[1] = a /\ s[2] = b /\ s[3] = c /\ s[4] = d
OBVIOUS

\* Two lines behind four, as a judger prints them that has misread.
LEMMA TwoMore ==
  ASSUME NEW S, NEW s \in Seq(S), Len(s) = 4, NEW e \in S, NEW f \in S
  PROVE  /\ s \o <<e, f>> \in Seq(S) /\ Len(s \o <<e, f>>) = 6
         /\ \A k \in 1 .. 4 : (s \o <<e, f>>)[k] = s[k]
         /\ (s \o <<e, f>>)[5] = e /\ (s \o <<e, f>>)[6] = f
<1>1. <<e, f>> \in Seq(S) /\ Len(<<e, f>>) = 2 /\ <<e, f>>[1] = e /\ <<e, f>>[2] = f
  OBVIOUS
<1> DEFINE t == <<e, f>>
<1>2. t \in Seq(S) /\ Len(t) = 2
  BY <1>1
<1>3. t[1] = e /\ t[2] = f
  BY <1>1
<1> HIDE DEF t
<1>4. /\ s \o t \in Seq(S) /\ Len(s \o t) = Len(s) + Len(t)
      /\ \A k \in 1 .. Len(s) + Len(t) :
           (s \o t)[k] = IF k <= Len(s) THEN s[k] ELSE t[k - Len(s)]
  BY <1>2, ConcatProperties
<1>5. (s \o t)[5] = t[5 - 4] /\ (s \o t)[6] = t[6 - 4]
  BY <1>2, <1>4
<1>6. \A k \in 1 .. 4 : (s \o t)[k] = s[k]
  BY <1>2, <1>4
<1>7. s \o t \in Seq(S) /\ Len(s \o t) = 6 /\ (s \o t)[5] = e /\ (s \o t)[6] = f
  BY <1>2, <1>3, <1>4, <1>5
<1> QED
  BY <1>6, <1>7 DEF t

\* A number before a cell, and the cell again: a message about a move.
LEMMA Three ==
  ASSUME NEW a, NEW x, NEW y
  PROVE  (<<a>> \o <<x, y>>)[1] = a /\ Tail(<<a>> \o <<x, y>>) = <<x, y>>
<1>1. ASSUME NEW S, NEW s \in Seq(S), NEW t \in Seq(S), Len(s) = 1, Len(t) = 2
      PROVE  (s \o t)[1] = s[1] /\ Tail(s \o t) = t
  <2>1. /\ s \o t \in Seq(S) /\ Len(s \o t) = 3
        /\ (s \o t)[1] = s[1] /\ (s \o t)[2] = t[1] /\ (s \o t)[3] = t[2]
    <3>1. /\ s \o t \in Seq(S) /\ Len(s \o t) = Len(s) + Len(t)
          /\ \A k \in 1 .. Len(s) + Len(t) :
               (s \o t)[k] = IF k <= Len(s) THEN s[k] ELSE t[k - Len(s)]
      BY ConcatProperties
    <3>2. (s \o t)[1] = s[1] /\ (s \o t)[2] = t[2 - 1] /\ (s \o t)[3] = t[3 - 1]
      BY <1>1, <3>1
    <3> QED
      BY <1>1, <3>1, <3>2
  <2>2. s \o t # <<>>
    BY <2>1, EmptySeq
  <2>3. Tail(s \o t) \in Seq(S) /\ Len(Tail(s \o t)) = 2
        /\ Tail(s \o t)[1] = t[1] /\ Tail(s \o t)[2] = t[2]
    BY <2>1, <2>2, HeadAndTail
  <2> QED
    BY <1>1, <2>1, <2>3, SeqEqual
<1>2. <<a>> \in Seq({a, x, y}) /\ Len(<<a>>) = 1 /\ <<a>>[1] = a
  OBVIOUS
<1>3. <<x, y>> \in Seq({a, x, y}) /\ Len(<<x, y>>) = 2
  OBVIOUS
<1> QED
  BY <1>1, <1>2, <1>3

\* A message tells its reader that it is its turn, or what the other player did.
LEMMA NewsIs ==
  ASSUME NEW p \in Players, NEW c \in Cells
  PROVE  /\ News(p, c)[1] = Other(p) /\ Other(p) # p /\ Tail(News(p, c)) = c
         /\ News(p, c) \in Messages(p) /\ <<p>> \in Messages(p)
<1>1. c = <<c[1], c[2]>>
  BY DEF Cells
<1>2. ASSUME NEW x, NEW y
      PROVE  (<<Other(p)>> \o <<x, y>>)[1] = Other(p) /\ Tail(<<Other(p)>> \o <<x, y>>) = <<x, y>>
  BY Three
<1>3. News(p, c)[1] = Other(p) /\ Tail(News(p, c)) = c
  BY <1>1, <1>2 DEF News
<1> QED
  BY <1>3, Others DEF Messages

\* The lines that are printed.
LEMMA PrintedLines ==
  /\ Log \in Printed /\ Blank \in Printed /\ Draw \in Printed
  /\ \A p \in Players : Win(p) \in Printed /\ Continue(p) \in Printed
  /\ \A p \in Players : \A m \in Messages(p) : Send(p, m) \in Printed
BY DEF Printed

\* A cell is a line that is one answer.
LEMMA CellsAreBrief == \A c \in Cells : c \in Brief /\ c \in Seq(Tokens)
<1> SUFFICES ASSUME NEW c \in Cells PROVE c \in Brief /\ c \in Seq(Tokens)
  OBVIOUS
<1>1. c = <<c[1], c[2]>> /\ c[1] \in Tokens /\ c[2] \in Tokens
  BY DEF Cells, Side, Tokens
<1>2. \A x, y \in Tokens : <<x, y>> \in Seq(Tokens) /\ Len(<<x, y>>) = 2
  OBVIOUS
<1>3. c \in Seq(Tokens) /\ Len(c) = 2
  BY <1>1, <1>2
<1> QED
  BY <1>3 DEF Brief

\* Each line that is printed is one of these.
LEMMA PrintedIs ==
  ASSUME NEW line \in Printed
  PROVE  /\ line.cmd = "send" => \E p \in Players : \E m \in Messages(p) : line = Send(p, m)
         /\ line.cmd = "continue" => \E p \in Players : line = Continue(p)
         /\ Final(line) => line = Draw \/ \E p \in Players : line = Win(p)
         /\ line.cmd \in Commands /\ line.to \in 0 .. 2
<1>1. \/ line = Log \/ line = Blank \/ line = Draw
      \/ \E p \in Players : line = Win(p)
      \/ \E p \in Players : line = Continue(p)
      \/ \E p \in Players : \E m \in Messages(p) : line = Send(p, m)
  BY DEF Printed
<1>2. Log.to = 0 /\ Blank.to = 0 /\ Draw.to = 0 /\ \A p \in Players : p \in 0 .. 2
  BY DEF Log, Blank, Draw, Judger, Players
<1>3. CASE line = Log \/ line = Blank \/ line = Draw
  BY <1>2, <1>3, Kinds DEF Final, Commands
<1>4. CASE \E p \in Players : line = Win(p)
  BY <1>2, <1>4, Kinds DEF Final, Commands
<1>5. CASE \E p \in Players : line = Continue(p)
  BY <1>2, <1>5, Kinds DEF Final, Commands
<1>6. CASE \E p \in Players : \E m \in Messages(p) : line = Send(p, m)
  <2>1. PICK p \in Players : \E m \in Messages(p) : line = Send(p, m)
    BY <1>6
  <2>2. line.cmd = "send" /\ line.to = p
    BY <2>1, Kinds
  <2> QED
    BY <1>2, <2>1, <2>2 DEF Final, Commands
<1> QED
  BY <1>1, <1>3, <1>4, <1>5, <1>6

-----------------------------------------------------------------------------
(* A step of the relay, whatever the players print.                        *)

\* The relay leaves the programs alone.
LEMMA RelayFrame ==
  ASSUME Relays
  PROVE  UNCHANGED <<kind, board, now, seen, last, up, stuck>>
BY DEF Relays, Relay, ObeySend, ObeyContinue, Skip, Verdict, NextCommand, PassAnswer,
  PlayerFails, JudgerFails

\* While board, turn and last answer stay, so does what is right.
LEMMA SameRight ==
  ASSUME UNCHANGED <<board, now, last>>
  PROVE  \A line : Right(line)' <=> Right(line)
BY DEF Right, HasFive, Row, FreeCells

\* What is said of the board stays with it.
LEMMA SameBoard ==
  ASSUME UNCHANGED board
  PROVE  /\ \A p : HasFive(board, p)' <=> HasFive(board, p)
         /\ \A p : Moves(p)' = Moves(p)
         /\ Taken' = Taken /\ FreeCells(board)' = FreeCells(board)
BY DEF HasFive, Row, Moves, Taken, FreeCells

\* A line that is read is the first of what the judger has printed.
LEMMA FirstLine ==
  ASSUME Types, NEW cmd, NextCommand(cmd)
  PROVE  /\ jout # <<>> /\ Head(jout) = jout[1] /\ Head(jout) \in Printed /\ Head(jout).cmd = cmd
         /\ jout' = Tail(jout) /\ jout' \in Seq(Printed) /\ Len(jout) \in Nat \ {0}
         /\ Len(jout') = Len(jout) - 1
         /\ \A k \in 1 .. Len(jout) - 1 : jout'[k] = jout[k + 1]
         /\ UNCHANGED <<jin, pout, up, stuck>> /\ Playing /\ asked = 0
<1>1. jout \in Seq(Printed) /\ jout # <<>> /\ Head(jout).cmd = cmd /\ jout' = Tail(jout)
  BY DEF NextCommand, Types, StreamTypes
<1>2. /\ Head(jout) = jout[1] /\ Head(jout) \in Printed
      /\ Len(jout) \in Nat \ {0} /\ jout' \in Seq(Printed)
      /\ Len(jout') = Len(jout) - 1
      /\ \A k \in 1 .. Len(jout) - 1 : jout'[k] = jout[k + 1]
  BY <1>1, HeadAndTail
<1> QED
  BY <1>1, <1>2 DEF NextCommand, Waits

\* A step of the relay keeps the types.
LEMMA RelayTyped == ASSUME Types, Relays PROVE Types'
<1>1. UNCHANGED <<kind, board, now, seen, last, up, stuck>>
  BY RelayFrame
<1>2. BoardTypes'
  BY <1>1 DEF Types, BoardTypes
<1>3. CASE ObeySend
  <2>1. /\ Head(jout) \in Printed /\ Head(jout).cmd = "send" /\ jout' \in Seq(Printed)
        /\ UNCHANGED <<jin, pout, up, stuck>>
    BY <1>3, FirstLine DEF ObeySend
  <2>2. PICK p \in Players : \E m \in Messages(p) : Head(jout) = Send(p, m)
    BY <2>1, PrintedIs
  <2>3. PICK m \in Messages(p) : Head(jout) = Send(p, m)
    BY <2>2
  <2>3a. Head(jout).to = p /\ Head(jout).msg = m
    BY <2>3, Kinds
  <2>4. pin' = IF p \in up THEN [pin EXCEPT ![p] = Append(@, m)] ELSE pin
    BY <1>3, <2>3a DEF ObeySend
  <2>5. DOMAIN pin' = Players /\ \A q \in Players : pin'[q] \in Seq(Messages(q))
    <3>1. pin[p] \in Seq(Messages(p)) /\ Append(pin[p], m) \in Seq(Messages(p))
      BY Longer DEF Types, StreamTypes
    <3> QED
      BY <2>4, <3>1 DEF Types, StreamTypes
  <2>6. StreamTypes'
    BY <2>1, <2>5 DEF Types, StreamTypes
  <2> QED
    BY <1>1, <1>2, <1>3, <2>6 DEF ObeySend, Types, RelayTypes
<1>4. CASE ObeyContinue \/ Skip \/ Verdict
  <2>1. /\ jout' \in Seq(Printed) /\ UNCHANGED <<jin, pout, pin>>
    BY <1>4, FirstLine DEF ObeyContinue, Skip, Verdict
  <2>2. StreamTypes'
    BY <2>1 DEF Types, StreamTypes
  <2>3. asked' \in {asked, 0} \cup Players
    <3>1. CASE ObeyContinue
      <4>1. PICK p \in Players : Head(jout) = Continue(p)
        BY <3>1, FirstLine, PrintedIs DEF ObeyContinue
      <4> QED
        BY <3>1, <4>1, Kinds DEF ObeyContinue
    <3>2. CASE Skip \/ Verdict
      BY <3>2 DEF Skip, Verdict
    <3> QED
      BY <1>4, <3>1, <3>2
  <2>4. result'.kind \in {"none", "win", "draw", "error"} /\ result'.who \in 0 .. 2
    <3>1. CASE ObeyContinue \/ Skip
      BY <3>1 DEF ObeyContinue, Skip, Types, RelayTypes
    <3>2. CASE Verdict
      <4>1. PICK cmd \in {"win", "draw"} : NextCommand(cmd)
        BY <3>2 DEF Verdict
      <4>2. Head(jout) \in Printed /\ Head(jout).cmd = cmd
        BY <4>1, FirstLine
      <4>3. Head(jout).to \in 0 .. 2
        BY <4>2, PrintedIs
      <4>4. result' = [kind |-> Head(jout).cmd, who |-> Head(jout).to, scores |-> Head(jout).msg]
        BY <3>2 DEF Verdict
      <4>5. result'.kind = cmd /\ result'.who = Head(jout).to
        BY <4>2, <4>4
      <4> QED
        BY <4>3, <4>5
    <3> QED
      BY <1>4, <3>1, <3>2
  <2>5. RelayTypes'
    BY <1>1, <2>3, <2>4 DEF Types, RelayTypes, Players
  <2> QED
    BY <1>2, <2>2, <2>5 DEF Types
<1>5. CASE PassAnswer
  <2>1. asked \in Players /\ pout[asked] \in Seq(Seq(Tokens)) /\ pout[asked] # <<>>
    BY <1>5 DEF PassAnswer, Types, RelayTypes, StreamTypes, Players
  <2>2. Head(pout[asked]) \in Seq(Tokens) /\ Tail(pout[asked]) \in Seq(Seq(Tokens))
    BY <2>1, HeadAndTail
  <2>3. <<asked>> \in Seq(Tokens)
    BY <2>1 DEF Tokens, Players
  <2>4. jin' \in Seq(Tokens)
    <3>1. jin \o <<asked>> \in Seq(Tokens)
      BY <2>3 DEF Types, StreamTypes
    <3>2. jin \o <<asked>> \o Head(pout[asked]) \in Seq(Tokens)
      BY <2>2, <3>1
    <3> QED
      BY <1>5, <3>2 DEF PassAnswer, Types, StreamTypes
  <2>5. pout' \in [Players -> Seq(Seq(Tokens))]
    BY <1>5, <2>2 DEF PassAnswer, Types, StreamTypes
  <2>6. StreamTypes'
    BY <1>5, <2>4, <2>5 DEF PassAnswer, Types, StreamTypes
  <2> QED
    BY <1>1, <1>2, <1>5, <2>6 DEF PassAnswer, Types, RelayTypes
<1>6. CASE PlayerFails(Players) \/ JudgerFails
  <2>1. result'.kind = "error" /\ result'.who \in 0 .. 2
    <3>1. asked \in 0 .. 2
      BY DEF Types, RelayTypes
    <3>2. CASE PlayerFails(Players)
      BY <3>1, <3>2 DEF PlayerFails, NoResult
    <3>3. CASE JudgerFails
      BY <3>3 DEF JudgerFails, NoResult, Judger
    <3> QED
      BY <1>6, <3>2, <3>3
  <2>2. UNCHANGED <<jout, jin, pin, pout, asked>>
    BY <1>6 DEF PlayerFails, JudgerFails
  <2> QED
    BY <1>1, <1>2, <2>1, <2>2 DEF Types, RelayTypes, StreamTypes
<1> QED
  BY <1>3, <1>4, <1>5, <1>6 DEF Relays, Relay

\* A verdict that is read is one that the judger printed; the others stay.
LEMMA RelayRules ==
  ASSUME Types, Relays, Verdicts, Ruled
  PROVE  Verdicts' /\ Ruled'
<1>1. UNCHANGED <<kind, board, now, seen, last, up, stuck>>
  BY RelayFrame
<1>2. \A line : Right(line)' <=> Right(line)
  BY <1>1, SameRight
<1>3. ASSUME NEW cmd, NextCommand(cmd) PROVE Verdicts'
  <2>1. /\ Len(jout) \in Nat \ {0} /\ Len(jout') = Len(jout) - 1
        /\ \A k \in 1 .. Len(jout) - 1 : jout'[k] = jout[k + 1]
    BY <1>3, FirstLine
  <2>2. \A k \in 1 .. Len(jout') : k + 1 \in 1 .. Len(jout) /\ jout'[k] = jout[k + 1]
    BY <2>1
  <2>3. \A k \in 1 .. Len(jout') : Final(jout'[k]) => Judger \notin up' /\ Right(jout'[k])
    BY <1>1, <2>2 DEF Verdicts
  <2>4. \A line : Final(line)' <=> Final(line)
    BY DEF Final
  <2> QED
    BY <1>2, <2>3 DEF Verdicts, Final
<1>4. UNCHANGED jout => Verdicts'
  BY <1>1, <1>2 DEF Verdicts, Final
<1>5. UNCHANGED result => Ruled'
  BY <1>1, <1>2 DEF Ruled
<1>6. CASE ObeySend \/ ObeyContinue \/ Skip
  BY <1>3, <1>5, <1>6 DEF ObeySend, ObeyContinue, Skip
<1>7. CASE PassAnswer
  BY <1>4, <1>5, <1>7 DEF PassAnswer
<1>8. CASE PlayerFails(Players) \/ JudgerFails
  <2>1. result'.kind = "error" /\ UNCHANGED jout
    BY <1>8 DEF PlayerFails, JudgerFails, NoResult
  <2> QED
    BY <1>4, <2>1 DEF Ruled
<1>9. CASE Verdict
  <2>1. PICK cmd \in {"win", "draw"} : NextCommand(cmd)
    BY <1>9 DEF Verdict
  <2>2. /\ Head(jout) = jout[1] /\ Head(jout) \in Printed /\ Head(jout).cmd = cmd
        /\ 1 \in 1 .. Len(jout)
    BY <2>1, FirstLine
  <2>3. Judger \notin up /\ Right(Head(jout))
    BY <2>2 DEF Verdicts, Final
  <2>4. result' = [kind |-> Head(jout).cmd, who |-> Head(jout).to, scores |-> Head(jout).msg]
    BY <1>9 DEF Verdict
  <2>5. /\ result'.kind = cmd /\ result'.who = Head(jout).to
        /\ result'.scores = Head(jout).msg
    BY <2>2, <2>4
  <2>6. Ruled'
    <3>1. CASE \E p \in Players : Head(jout) = Win(p)
      <4>1. PICK p \in Players : Head(jout) = Win(p)
        BY <3>1
      <4>2. result'.kind = "win" /\ result'.who = p /\ result'.scores = Win(p).msg
        BY <2>2, <2>5, <4>1, Kinds
      <4>3. Right(Win(p))'
        BY <1>2, <2>3, <4>1
      <4>4. /\ result'.kind = "win" => Right(Win(result.who))' /\ result'.who \in Players
                                        /\ result'.scores = Win(result'.who).msg
            /\ result'.kind # "draw"
        BY <4>2, <4>3
      <4> QED
        BY <1>1, <2>3, <4>4 DEF Ruled
    <3>2. CASE Head(jout) = Draw
      <4>1. result'.kind = "draw" /\ result'.scores = Draw.msg
        BY <2>2, <2>5, <3>2, Kinds
      <4>2. Right(Draw)'
        BY <1>2, <2>3, <3>2
      <4> QED
        BY <1>1, <2>3, <4>1, <4>2 DEF Ruled
    <3> QED
      BY <2>2, <3>1, <3>2, PrintedIs DEF Final
  <2> QED
    BY <1>3, <2>1, <2>6
<1> QED
  BY <1>6, <1>7, <1>8, <1>9 DEF Relays, Relay

-----------------------------------------------------------------------------
(* A step of a player, whatever it prints.                                 *)

\* What a player leaves alone.
LEMMA PlayerFrame ==
  ASSUME Types, NEW p \in Players, Plays(p)
  PROVE  /\ UNCHANGED <<jout, jin, asked, result, kind, board, now, last>>
         /\ pin[p] # <<>> /\ pin' = [pin EXCEPT ![p] = Tail(@)]
         /\ p \in up \ stuck
         /\ up' \in {up, up \ {p}} /\ stuck' \in {stuck, stuck \cup {p}}
         /\ up' = up \/ stuck' = stuck
         /\ Judger \in up' <=> Judger \in up
         /\ Ahead' = Ahead
<1>1. /\ UNCHANGED <<jout, jin, asked, result, kind, board, now, last>>
      /\ PlayerReads(p)
  BY DEF Plays, ShippedMoves, ShippedMarks, StrangerMoves, Hears, playerFrame
<1>2. /\ up' \in {up, up \ {p}} /\ stuck' \in {stuck, stuck \cup {p}}
      /\ up' = up \/ stuck' = stuck
  BY DEF Plays, ShippedMoves, ShippedMarks, StrangerMoves, Whatever, Stays, Spins, Exits
<1>3. Judger \in up' <=> Judger \in up
  BY <1>2 DEF Players, Judger
<1> QED
  BY <1>1, <1>2, <1>3 DEF PlayerReads, Runs, Ahead

\* What a player has printed, and marked, is its own.
LEMMA PlayerOwns ==
  ASSUME Types, NEW p \in Players, Plays(p)
  PROVE  /\ \/ pout' = pout
            \/ \E r \in Seq(Tokens) : pout' = [pout EXCEPT ![p] = Append(@, r)]
         /\ \/ seen' = seen
            \/ \E c \in Cells : seen' = [seen EXCEPT ![p] = @ \cup {c}]
<1>1. CASE ShippedMoves(p)
  BY <1>1, CellsAreBrief DEF ShippedMoves, PlayerPrints
<1>2. CASE ShippedMarks(p)
  <2>1. pin[p] # <<>> /\ pin[p] \in Seq(Messages(p))
    BY PlayerFrame DEF Types, StreamTypes
  <2>2. Message(p) \in Messages(p)
    BY <2>1, HeadAndTail DEF Message
  <2>3. Message(p) # <<p>>
    <3>1. <<p>>[1] = p
      OBVIOUS
    <3> QED
      BY <1>2, <3>1 DEF ShippedMarks, MyTurn
  <2>4. Tail(Message(p)) \in Cells
    BY <2>2, <2>3, NewsIs DEF Messages
  <2> QED
    BY <1>2, <2>4 DEF ShippedMarks
<1>3. CASE StrangerMoves(p)
  <2>1. UNCHANGED seen
    BY <1>3 DEF StrangerMoves
  <2>2. (IF MyTurn(p) THEN LinesOf(kind[p]) ELSE {}) \subseteq Seq(Tokens)
    BY LinesAreTokens
  <2>3. pout' = pout \/ \E r \in Seq(Tokens) : pout' = [pout EXCEPT ![p] = Append(@, r)]
    BY <1>3, <2>2 DEF StrangerMoves, Whatever, PlayerPrints
  <2> QED
    BY <2>1, <2>3
<1> QED
  BY <1>1, <1>2, <1>3 DEF Plays

\* A step of a player keeps the types.
LEMMA PlayerTyped == ASSUME Types, NEW p \in Players, Plays(p) PROVE Types'
<1>1. /\ UNCHANGED <<jout, jin, asked, result, kind, board, now, last>>
      /\ pin[p] # <<>> /\ pin' = [pin EXCEPT ![p] = Tail(@)]
      /\ p \in up \ stuck
      /\ up' \in {up, up \ {p}} /\ stuck' \in {stuck, stuck \cup {p}}
      /\ up' = up \/ stuck' = stuck
  BY PlayerFrame
<1>2. DOMAIN pin' = Players /\ \A q \in Players : pin'[q] \in Seq(Messages(q))
  <2>1. Tail(pin[p]) \in Seq(Messages(p))
    BY <1>1, HeadAndTail DEF Types, StreamTypes
  <2> QED
    BY <1>1, <2>1 DEF Types, StreamTypes
<1>3. pout' \in [Players -> Seq(Seq(Tokens))]
  <2>1. pout \in [Players -> Seq(Seq(Tokens))]
    BY DEF Types, StreamTypes
  <2>2. \A r \in Seq(Tokens) : Append(pout[p], r) \in Seq(Seq(Tokens))
    BY <2>1, Longer
  <2>3. CASE \E r \in Seq(Tokens) : pout' = [pout EXCEPT ![p] = Append(@, r)]
    <3>1. PICK r \in Seq(Tokens) : pout' = [pout EXCEPT ![p] = Append(@, r)]
      BY <2>3
    <3>2. Append(pout[p], r) \in Seq(Seq(Tokens))
      BY <2>2
    <3> QED
      BY <2>1, <3>1, <3>2
  <2> QED
    BY <2>1, <2>3, PlayerOwns
<1>4. StreamTypes'
  BY <1>1, <1>2, <1>3 DEF Types, StreamTypes
<1>5. seen' \in [Players -> SUBSET Cells]
  BY PlayerOwns DEF Types, BoardTypes
<1>6. RelayTypes'
  BY <1>1 DEF Types, RelayTypes
<1> QED
  BY <1>1, <1>4, <1>5, <1>6 DEF Types, BoardTypes

\* A step of a player keeps what is said of the judger and of the result.
LEMMA PlayerRules ==
  ASSUME Types, NEW p \in Players, Plays(p), Verdicts, Ruled, Counts
  PROVE  Verdicts' /\ Ruled' /\ Counts'
<1>1. /\ UNCHANGED <<jout, result, kind, board, now, last>>
      /\ Judger \in up' <=> Judger \in up
  BY PlayerFrame
<1>2. \A line : Right(line)' <=> Right(line)
  BY <1>1, SameRight
<1>3. \A q : Moves(q)' = Moves(q)
  BY <1>1, SameBoard
<1>4. Verdicts'
  BY <1>1, <1>2 DEF Verdicts, Final
<1>5. Ruled'
  BY <1>1, <1>2 DEF Ruled
<1>6. Counts'
  BY <1>1, <1>3 DEF Counts
<1> QED
  BY <1>4, <1>5, <1>6

-----------------------------------------------------------------------------
(* What the judger prints.                                                 *)

\* What is printed behind a move: a win, a draw, or the news and the turn.
LEMMA AfterMoveIs ==
  ASSUME NEW b, NEW c \in Cells, now \in Players
  PROVE  /\ checkWin(b) # {} => \E p \in checkWin(b) : AfterMove(b, c) = <<Log, Win(p)>>
         /\ checkWin(b) = {} /\ FreeCells(b) = {} => AfterMove(b, c) = <<Log, Draw>>
         /\ ~Ended(b) =>
              /\ AfterMove(b, c) \in Seq(Printed) /\ Len(AfterMove(b, c)) = 4
              /\ AfterMove(b, c)[1] = Log
              /\ AfterMove(b, c)[2] = Send(Other(now), News(Other(now), c))
              /\ AfterMove(b, c)[3] = Send(Other(now), <<Other(now)>>)
              /\ AfterMove(b, c)[4] = Continue(Other(now))
<1> DEFINE q == Other(now)
<1>1. q \in Players /\ Other(q) = now
  BY Others
<1>2. CASE checkWin(b) # {}
  <2> DEFINE p == CHOOSE p \in checkWin(b) : TRUE
  <2>1. p \in checkWin(b)
    BY <1>2
  <2>2. AfterMove(b, c) = <<Log, Win(p)>>
    BY <1>2, TwoLines DEF AfterMove
  <2> QED
    BY <1>2, <2>1, <2>2 DEF Ended
<1>3. CASE checkWin(b) = {} /\ FreeCells(b) = {}
  BY <1>3, TwoLines DEF AfterMove, Ended
<1>4. CASE ~Ended(b)
  <2>1. AfterMove(b, c)
          = <<Log>> \o (<<Send(q, <<now>> \o c)>> \o <<Send(q, <<q>>), Continue(q)>>)
    BY <1>4 DEF AfterMove, YourTurn, Ended
  <2>2. <<now>> \o c = News(q, c)
    BY <1>1 DEF News
  <2>3. /\ Log \in Printed /\ Send(q, News(q, c)) \in Printed
        /\ Send(q, <<q>>) \in Printed /\ Continue(q) \in Printed
    BY <1>1, PrintedLines, NewsIs
  <2> HIDE DEF q
  <2>4. LET s == <<Log>> \o (<<Send(q, News(q, c))>> \o <<Send(q, <<q>>), Continue(q)>>) IN
        /\ s \in Seq(Printed) /\ Len(s) = 4
        /\ s[1] = Log /\ s[2] = Send(q, News(q, c))
        /\ s[3] = Send(q, <<q>>) /\ s[4] = Continue(q)
    BY <2>3, FourLines
  <2>5. AfterMove(b, c)
          = <<Log>> \o (<<Send(q, News(q, c))>> \o <<Send(q, <<q>>), Continue(q)>>)
    BY <2>1, <2>2
  <2> QED
    BY <1>4, <2>4, <2>5 DEF q, Ended
<1> QED
  BY <1>2, <1>3, <1>4 DEF Ended

-----------------------------------------------------------------------------
(* A step of the judger has one of three outcomes: it refuses a cell, it   *)
(* takes one that ends the match, or it goes on to the other player.  It   *)
(* may end there too, having misread.                                      *)

Refuses(lines) ==
  /\ lines = <<Log, Win(Other(now))>> /\ up' = up \ {Judger}
  /\ UNCHANGED <<board, now>>

Finishes(lines) ==
  \E c \in FreeCells(board) :
    /\ board' = Place(c) /\ now' = now /\ up' = up \ {Judger}
    /\ \/ \E p \in checkWin(board') : lines = <<Log, Win(p)>>
       \/ checkWin(board') = {} /\ FreeCells(board') = {} /\ lines = <<Log, Draw>>

GoesOn(lines, c) ==
  /\ c \in FreeCells(board)
  /\ board' = Place(c) /\ now' = Other(now)
  /\ lines[1] = Log
  /\ lines[2] = Send(Other(now), News(Other(now), c))
  /\ lines[3] = Send(Other(now), <<Other(now)>>)
  /\ lines[4] = Continue(Other(now))
  /\ \/ Len(lines) = 4 /\ up' = up /\ c = Answer
     \/ /\ Len(lines) = 6 /\ up' = up \ {Judger}
        /\ lines[5] = Log /\ lines[6] = Win(now)
        /\ ~last'.sane

\* One of them, in the lines that are added to what is not read yet.
Outcome(lines) ==
  /\ lines \in Seq(Printed) /\ jout' = jout \o lines
  /\ Refuses(lines) \/ Finishes(lines) \/ \E c \in Cells : GoesOn(lines, c)

\* The judger reads from its stream, and leaves the players alone.
LEMMA JudgerFrame ==
  ASSUME Types, Judges
  PROVE  /\ Judger \in up /\ jin' \in Seq(Tokens) /\ last' \in [id : Tokens, sane : BOOLEAN]
         /\ last'.id = jin[1] /\ (jin' = <<>> \/ Len(jin) >= 3)
         /\ Len(jin) = 3 => jin' = <<>>
         /\ jin # <<>>
         /\ UNCHANGED <<pin, pout, asked, stuck, result, kind, seen>>
<1>1. jin \in Seq(Tokens)
  BY DEF Types, StreamTypes
<1>2. UNCHANGED <<pin, pout, asked, stuck, result, kind, seen>>
  BY DEF Judges, JudgerAccepts, JudgerRefuses, JudgerReads, JudgerMisreads, JudgerPrints
<1>3. CASE JudgerReads
  <2>1. /\ Judger \in up /\ Len(jin) >= 3 /\ jin' = SubSeq(jin, 4, Len(jin))
        /\ last' = [id |-> jin[1], sane |-> TRUE]
    BY <1>3 DEF JudgerReads, JudgerTakes, Complete
  <2>2. jin[1] \in Tokens /\ jin # <<>>
    BY <1>1, <2>1, EmptySeq
  <2>3. jin' \in Seq(Tokens) /\ (Len(jin) = 3 => jin' = <<>>)
    BY <1>1, <2>1, BehindAnAnswer
  <2> QED
    BY <1>2, <2>1, <2>2, <2>3
<1>4. CASE JudgerMisreads
  <2>1. /\ Judger \in up /\ Garbled /\ jin' = <<>>
        /\ last' = [id |-> jin[1], sane |-> FALSE]
    BY <1>4 DEF JudgerMisreads, JudgerLosesInput
  <2>2. DOMAIN jin # {}
    BY <2>1 DEF Garbled, NextTokens
  <2>3. jin # <<>>
    BY <2>2
  <2>4. jin[1] \in Tokens
    BY <1>1, <2>3, HeadAndTail
  <2>5. jin' \in Seq(Tokens)
    BY <2>1, EmptySeq
  <2> QED
    BY <1>2, <2>1, <2>3, <2>4, <2>5
<1> QED
  BY <1>3, <1>4 DEF Judges, JudgerAccepts, JudgerRefuses

\* A verdict behind a log line ends the judger.
LEMMA TwoPrinted ==
  ASSUME NEW line \in Printed, Final(line), JudgerPrints(<<Log, line>>)
  PROVE  /\ <<Log, line>> \in Seq(Printed) /\ jout' = jout \o <<Log, line>>
         /\ up' = up \ {Judger}
<1>1. <<Log, line>> \in Seq(Printed)
  BY PrintedLines
<1> DEFINE lines == <<Log, line>>
<1>2. Final(lines[Len(lines)]) /\ JudgerPrints(lines)
  BY TwoLines
<1> HIDE DEF lines
<1>3. jout' = jout \o lines /\ up' = up \ {Judger}
  BY <1>2, Prints
<1> QED
  BY <1>1, <1>3 DEF lines

\* A move that ends the match, in the words of AfterMove.
LEMMA EndIsPrinted ==
  ASSUME now \in Players, NEW c \in FreeCells(board), board' = Place(c), now' = now,
         Ended(board'), JudgerPrints(AfterMove(board', c))
  PROVE  \E lines : Outcome(lines)
<1>0. c \in Cells
  BY DEF FreeCells
<1>1. CASE checkWin(board') # {}
  <2>1. PICK p \in checkWin(board') : AfterMove(board', c) = <<Log, Win(p)>>
    BY <1>0, <1>1, AfterMoveIs
  <2>2. Win(p) \in Printed /\ Final(Win(p))
    BY Kinds, PrintedLines DEF checkWin, Final
  <2> DEFINE lines == <<Log, Win(p)>>
  <2>3. lines \in Seq(Printed) /\ jout' = jout \o lines /\ up' = up \ {Judger}
    BY <2>1, <2>2, TwoPrinted
  <2>4. Finishes(lines)
    BY <2>3 DEF Finishes
  <2> HIDE DEF lines
  <2> QED
    BY <2>3, <2>4 DEF Outcome
<1>2. CASE checkWin(board') = {}
  <2>1. FreeCells(board') = {} /\ AfterMove(board', c) = <<Log, Draw>>
    BY <1>0, <1>2, AfterMoveIs DEF Ended
  <2> DEFINE lines == <<Log, Draw>>
  <2>2. lines \in Seq(Printed) /\ jout' = jout \o lines /\ up' = up \ {Judger}
    BY <2>1, Kinds, PrintedLines, TwoPrinted DEF Final
  <2>3. Finishes(lines)
    BY <1>2, <2>1, <2>2 DEF Finishes
  <2> HIDE DEF lines
  <2> QED
    BY <2>2, <2>3 DEF Outcome
<1> QED
  BY <1>1, <1>2

\* A move after which the match goes on, or the judger ends for having misread.
LEMMA TurnIsPrinted ==
  ASSUME now \in Players, NEW c \in FreeCells(board), board' = Place(c),
         now' = Other(now), ~Ended(board'),
         \/ JudgerPrints(AfterMove(board', c)) /\ c = Answer
         \/ JudgerPrints(AfterMove(board', c) \o <<Log, Win(now)>>) /\ ~last'.sane
  PROVE  \E lines : Outcome(lines)
<1> DEFINE s == AfterMove(board', c)
<1>0. c \in Cells
  BY DEF FreeCells
<1>1. /\ s \in Seq(Printed) /\ Len(s) = 4
      /\ s[1] = Log
      /\ s[2] = Send(Other(now), News(Other(now), c))
      /\ s[3] = Send(Other(now), <<Other(now)>>)
      /\ s[4] = Continue(Other(now))
  BY <1>0, AfterMoveIs
<1> HIDE DEF s
<1>2. CASE JudgerPrints(s) /\ c = Answer
  <2>0. ~Final(s[Len(s)])
    BY <1>1, Kinds DEF Final
  <2>1. jout' = jout \o s /\ up' = up
    BY <1>1, <1>2, <2>0, Prints
  <2>2. GoesOn(s, c)
    BY <1>1, <1>2, <2>1 DEF GoesOn
  <2> QED
    BY <1>0, <1>1, <2>1, <2>2 DEF Outcome
<1>3. CASE JudgerPrints(s \o <<Log, Win(now)>>) /\ ~last'.sane
  <2> DEFINE t == s \o <<Log, Win(now)>>
  <2>1. Log \in Printed /\ Win(now) \in Printed
    BY PrintedLines
  <2>2. /\ t \in Seq(Printed) /\ Len(t) = 6
        /\ \A k \in 1 .. 4 : t[k] = s[k]
        /\ t[5] = Log /\ t[6] = Win(now)
    BY <1>1, <2>1, TwoMore
  <2>3. JudgerPrints(t)
    BY <1>3
  <2> HIDE DEF t
  <2>4. jout' = jout \o t /\ up' = up \ {Judger}
    <3>1. Final(t[Len(t)])
      BY <2>2, Kinds DEF Final
    <3> QED
      BY <2>2, <2>3, <3>1, Prints
  <2>5. t[1] = s[1] /\ t[2] = s[2] /\ t[3] = s[3] /\ t[4] = s[4]
    BY <2>2
  <2>6. GoesOn(t, c)
    BY <1>1, <1>3, <2>2, <2>4, <2>5 DEF GoesOn
  <2> QED
    BY <1>0, <2>2, <2>4, <2>6 DEF Outcome
<1> QED
  BY <1>2, <1>3 DEF s

\* There is no fourth outcome.
LEMMA JudgerStep ==
  ASSUME Types, Judges
  PROVE  \E lines : Outcome(lines)
<1>1. now \in Players /\ FreeCells(board) \subseteq Cells
  BY DEF Types, BoardTypes, FreeCells
<1>2. ASSUME JudgerPrints(<<Log, Win(Other(now))>>), UNCHANGED <<board, now>>
      PROVE  \E lines : Outcome(lines)
  <2>1. Win(Other(now)) \in Printed /\ Final(Win(Other(now)))
    BY <1>1, Others, PrintedLines, Kinds DEF Final
  <2> DEFINE lines == <<Log, Win(Other(now))>>
  <2>2. lines \in Seq(Printed) /\ jout' = jout \o lines /\ up' = up \ {Judger}
    BY <1>2, <2>1, TwoPrinted
  <2>3. Refuses(lines)
    BY <1>2, <2>2 DEF Refuses
  <2> HIDE DEF lines
  <2> QED
    BY <2>2, <2>3 DEF Outcome
<1>3. CASE JudgerAccepts
  <2>1. /\ Answer \in FreeCells(board) /\ board' = Place(Answer)
        /\ now' = IF Ended(board') THEN now ELSE Other(now)
        /\ JudgerPrints(AfterMove(board', Answer))
    BY <1>3 DEF JudgerAccepts, validate
  <2> QED
    BY <1>1, <2>1, EndIsPrinted, TurnIsPrinted
<1>4. CASE JudgerRefuses
  BY <1>2, <1>4 DEF JudgerRefuses
<1>5. CASE JudgerMisreads
  <2>1. PICK c \in Misread :
          IF ~validate(c)
          THEN JudgerPrints(<<Log, Win(Other(now))>>) /\ UNCHANGED <<board, now>>
          ELSE /\ board' = Place(c)
               /\ now' = IF Ended(board') THEN now ELSE Other(now)
               /\ JudgerPrints(AfterMove(board', c)
                                 \o IF Ended(board') THEN <<>> ELSE <<Log, Win(now)>>)
    BY <1>5 DEF JudgerMisreads
  <2>2. ~last'.sane
    BY <1>5 DEF JudgerMisreads
  <2>3. CASE ~validate(c)
    BY <1>2, <2>1, <2>3
  <2>4. CASE validate(c)
    <3>1. /\ c \in FreeCells(board) /\ c \in Cells /\ board' = Place(c)
          /\ now' = IF Ended(board') THEN now ELSE Other(now)
          /\ JudgerPrints(AfterMove(board', c)
                            \o IF Ended(board') THEN <<>> ELSE <<Log, Win(now)>>)
      BY <1>1, <2>1, <2>4 DEF validate
    <3>2. CASE Ended(board')
      <4>1. AfterMove(board', c) \o <<>> = AfterMove(board', c)
        <5>1. \/ \E p \in checkWin(board') : AfterMove(board', c) = <<Log, Win(p)>>
              \/ AfterMove(board', c) = <<Log, Draw>>
          BY <1>1, <3>1, <3>2, AfterMoveIs DEF Ended
        <5> QED
          BY <5>1, TwoLines
      <4>2. JudgerPrints(AfterMove(board', c))
        BY <3>1, <3>2, <4>1
      <4> QED
        BY <1>1, <3>1, <3>2, <4>2, EndIsPrinted
    <3>3. CASE ~Ended(board')
      <4>1. JudgerPrints(AfterMove(board', c) \o <<Log, Win(now)>>)
        BY <3>1, <3>3
      <4> QED
        BY <1>1, <2>2, <3>1, <3>3, <4>1, TurnIsPrinted
    <3> QED
      BY <3>2, <3>3
  <2> QED
    BY <2>3, <2>4
<1> QED
  BY <1>3, <1>4, <1>5 DEF Judges

-----------------------------------------------------------------------------
(* A step of the judger, whatever it reads.                                *)

\* A step of the judger keeps the types.
LEMMA JudgerTyped == ASSUME Types, Judges PROVE Types'
<1>1. /\ jin' \in Seq(Tokens) /\ last' \in [id : Tokens, sane : BOOLEAN]
      /\ UNCHANGED <<pin, pout, asked, stuck, result, kind, seen>>
      /\ now \in Players
  BY JudgerFrame DEF Types, BoardTypes
<1>2. PICK lines : Outcome(lines)
  BY JudgerStep
<1>3. jout' \in Seq(Printed)
  BY <1>2, Appending DEF Outcome, Types, StreamTypes
<1>4. up' \in {up, up \ {Judger}}
  BY <1>2 DEF Outcome, Refuses, Finishes, GoesOn
<1>5. board' = board \/ \E c \in FreeCells(board) : board' = Place(c)
  BY <1>2 DEF Outcome, Refuses, Finishes, GoesOn
<1>6. now' \in {now, Other(now)}
  BY <1>2 DEF Outcome, Refuses, Finishes, GoesOn
<1>7. StreamTypes'
  BY <1>1, <1>3 DEF Types, StreamTypes
<1>8. RelayTypes'
  BY <1>1, <1>4 DEF Types, RelayTypes, Players, Judger
<1>9. board' \in [Cells -> {Free} \cup Players]
  <2>1. board \in [Cells -> {Free} \cup Players]
    BY DEF Types, BoardTypes
  <2> QED
    BY <1>1, <1>5, <2>1 DEF Place, FreeCells
<1>10. BoardTypes'
  <2>1. now' \in Players
    BY <1>1, <1>6, Others
  <2> QED
    BY <1>1, <1>9, <2>1 DEF Types, BoardTypes
<1> QED
  BY <1>7, <1>8, <1>10 DEF Types

\* Stones can be counted.
LEMMA CellsAreFinite == IsFiniteSet(Cells) /\ \A p : Moves(p) \in Nat
<1>1. IsFiniteSet(Side)
  BY FS_Interval DEF Side
<1>2. IsFiniteSet(Cells)
  BY <1>1, FS_Product DEF Cells
<1>3. ASSUME NEW p PROVE Moves(p) \in Nat
  <2> DEFINE S == {c \in Cells : board[c] = p}
  <2>1. S \in SUBSET Cells
    OBVIOUS
  <2> HIDE DEF S
  <2>2. Cardinality(S) \in Nat
    BY <1>2, <2>1, FS_Subset, FS_CardinalityType
  <2> QED
    BY <2>2 DEF S, Moves
<1> QED
  BY <1>2, <1>3

\* A stone more for the player who has moved.
LEMMA PlacedCounts ==
  ASSUME Types, NEW c \in FreeCells(board), board' = Place(c), NEW p
  PROVE  /\ p = now => Moves(p)' = Moves(p) + 1
         /\ p \in Players /\ p # now => Moves(p)' = Moves(p)
<1>1. /\ now \in Players /\ board \in [Cells -> {Free} \cup Players]
      /\ c \in Cells /\ board[c] = Free /\ Free \notin Players
  BY DEF Types, BoardTypes, FreeCells, Free, Players
<1>2. \A e \in Cells : board'[e] = IF e = c THEN now ELSE board[e]
  BY <1>1 DEF Place
<1> DEFINE S == {e \in Cells : board[e] = p}
<1> DEFINE T == {e \in Cells : board'[e] = p}
<1>3. p = now => T = S \cup {c} /\ c \notin S
  BY <1>1, <1>2
<1>4. p \in Players /\ p # now => T = S
  BY <1>1, <1>2
<1>5. IsFiniteSet(S)
  <2>1. S \in SUBSET Cells
    OBVIOUS
  <2> QED
    BY <2>1, CellsAreFinite, FS_Subset
<1>6. p = now => Cardinality(T) = Cardinality(S) + 1
  <2> HIDE DEF S, T
  <2> QED
    BY <1>3, <1>5, FS_AddElement
<1>7. Moves(p) = Cardinality(S) /\ Moves(p)' = Cardinality(T)
  BY DEF Moves
<1> QED
  BY <1>4, <1>6, <1>7

\* A row that a move completes is of the player who has moved.
LEMMA PlacedRow ==
  ASSUME Types, NEW c \in FreeCells(board), board' = Place(c), NEW p \in Players, p # now,
         HasFive(board', p)
  PROVE  HasFive(board, p)
<1>1. /\ now \in Players /\ board \in [Cells -> {Free} \cup Players] /\ c \in Cells
  BY DEF Types, BoardTypes, FreeCells
<1>2. \A e \in Cells : board'[e] = IF e = c THEN now ELSE board[e]
  BY <1>1 DEF Place
<1>3. \A e \in Cells : board'[e] = p => board[e] = p
  BY <1>2
<1>4. PICK e \in Cells, d \in Directions : Row(board', p, e, d)
  BY DEF HasFive
<1>5. Row(board, p, e, d)
  BY <1>3, <1>4 DEF Row
<1> QED
  BY <1>4, <1>5 DEF HasFive

\* A step of the judger keeps the players even, or the first one ahead by one.
LEMMA JudgerCounts == ASSUME Types, Judges, Counts PROVE Counts'
<1>0. PICK lines : Outcome(lines)
  BY JudgerStep
<1>1. /\ Judger \in up /\ now \in Players
      /\ Moves(1) - Moves(2) = now - 1
      /\ Moves(1) \in Nat /\ Moves(2) \in Nat
  BY JudgerFrame, CellsAreFinite DEF Types, BoardTypes, Counts
<1>2. CASE Refuses(lines)
  <2>1. Moves(1)' = Moves(1) /\ Moves(2)' = Moves(2) /\ Judger \notin up'
    BY <1>2, SameBoard DEF Refuses
  <2> QED
    BY <1>1, <2>1 DEF Counts, Players
<1>3. ASSUME NEW c \in FreeCells(board), board' = Place(c)
      PROVE  \/ now = 1 /\ Moves(1)' = Moves(2)' + 1
             \/ now = 2 /\ Moves(1)' = Moves(2)'
  <2>1. /\ 1 \in Players /\ 2 \in Players /\ now \in {1, 2}
    BY <1>1 DEF Players
  <2>2. /\ Moves(1)' = IF now = 1 THEN Moves(1) + 1 ELSE Moves(1)
        /\ Moves(2)' = IF now = 2 THEN Moves(2) + 1 ELSE Moves(2)
    BY <1>3, <2>1, PlacedCounts
  <2> QED
    BY <1>1, <2>1, <2>2
<1>4. Moves(1)' \in Nat /\ Moves(2)' \in Nat
  <2>1. CASE Refuses(lines)
    BY <1>1, <2>1, SameBoard DEF Refuses
  <2>2. ASSUME NEW c \in FreeCells(board), board' = Place(c)
        PROVE  Moves(1)' \in Nat /\ Moves(2)' \in Nat
    <3>1. 1 \in Players /\ 2 \in Players /\ now \in {1, 2}
      BY <1>1 DEF Players
    <3> QED
      BY <1>1, <2>2, <3>1, PlacedCounts
  <2> QED
    BY <1>0, <2>1, <2>2 DEF Outcome, Finishes, GoesOn
<1>5. CASE Finishes(lines)
  <2>1. PICK c \in FreeCells(board) : board' = Place(c) /\ up' = up \ {Judger}
    BY <1>5 DEF Finishes
  <2> QED
    BY <1>3, <1>4, <2>1 DEF Counts
<1>6. ASSUME NEW c \in Cells, GoesOn(lines, c) PROVE Counts'
  <2>1. c \in FreeCells(board) /\ board' = Place(c) /\ now' = 3 - now
    BY <1>6 DEF GoesOn, Other
  <2> QED
    BY <1>3, <1>4, <2>1 DEF Counts
<1> QED
  BY <1>0, <1>2, <1>5, <1>6 DEF Outcome

\* A verdict that the judger prints is right, and its last: who completes a row is who has
\* moved.
LEMMA OutcomeIsRight ==
  ASSUME Types, Judges, EveryRowIsSeen, NEW lines, Outcome(lines)
  PROVE  \A i \in 1 .. Len(lines) : Final(lines[i]) => Judger \notin up' /\ Right(lines[i])'
<1>1. /\ Judger \in up /\ now \in Players /\ Judger \notin up \ {Judger}
      /\ \A p \in Players : ~HasFive(board, p)
  BY JudgerFrame DEF Types, BoardTypes, EveryRowIsSeen
<1>2. ASSUME NEW line, lines = <<Log, line>>, Right(line)', up' = up \ {Judger}
      PROVE  \A i \in 1 .. Len(lines) : Final(lines[i]) => Judger \notin up' /\ Right(lines[i])'
  <2>1. Len(lines) = 2 /\ lines[1] = Log /\ lines[2] = line
    BY <1>2, TwoLines
  <2>2. ~Final(lines[1])
    BY <2>1, Kinds DEF Final
  <2>3. Right(lines[2])'
    BY <1>2, <2>1
  <2>4. \A i \in 1 .. Len(lines) : i = 1 \/ i = 2
    BY <2>1
  <2> QED
    BY <1>1, <1>2, <2>2, <2>3, <2>4
<1>3. CASE Refuses(lines)
  <2>0. PICK q \in Players : q = Other(now)
    BY <1>1, Others
  <2>1. q \in Players /\ Other(q) = now /\ board' = board /\ now' = now
    BY <1>1, <1>3, <2>0, Others DEF Refuses
  <2>2. lines = <<Log, Win(q)>> /\ up' = up \ {Judger}
    BY <1>3, <2>0 DEF Refuses
  <2>3. ~HasFive(board', Other(q))
    BY <1>1, <2>1
  <2>4. Right(Win(q))'
    BY <2>1, <2>3 DEF Right
  <2> QED
    BY <1>2, <2>2, <2>4
<1>4. CASE Finishes(lines)
  <2>1. PICK c \in FreeCells(board) :
          /\ board' = Place(c) /\ up' = up \ {Judger}
          /\ \/ \E p \in checkWin(board') : lines = <<Log, Win(p)>>
             \/ checkWin(board') = {} /\ FreeCells(board') = {} /\ lines = <<Log, Draw>>
    BY <1>4 DEF Finishes
  <2>2. \A p \in Players : HasFive(board', p) => p = now
    BY <1>1, <2>1, PlacedRow
  <2>3. checkWin(board') = {p \in Players : HasFive(board', p)}
    BY CheckWinIsExact
  <2>4. CASE \E p \in checkWin(board') : lines = <<Log, Win(p)>>
    <3>1. PICK p \in checkWin(board') : lines = <<Log, Win(p)>>
      BY <2>4
    <3>2. p \in Players /\ HasFive(board', p) /\ ~HasFive(board', Other(p))
      BY <2>2, <2>3, Others
    <3>3. Right(Win(p))'
      BY <3>2 DEF Right
    <3> QED
      BY <1>2, <2>1, <3>1, <3>3
  <2>5. CASE checkWin(board') = {} /\ FreeCells(board') = {} /\ lines = <<Log, Draw>>
    <3>1. \A p \in Players : ~HasFive(board', p)
      BY <2>3, <2>5
    <3>2. Right(Draw)'
      BY <2>5, <3>1 DEF Right
    <3> QED
      BY <1>2, <2>1, <2>5, <3>2
  <2> QED
    BY <2>1, <2>4, <2>5
<1>5. ASSUME NEW c \in Cells, GoesOn(lines, c)
      PROVE  \A i \in 1 .. Len(lines) : Final(lines[i]) => Judger \notin up' /\ Right(lines[i])'
  <2>1. ~Final(lines[1]) /\ ~Final(lines[2]) /\ ~Final(lines[3]) /\ ~Final(lines[4])
    BY <1>5, Kinds DEF GoesOn, Final
  <2>2. CASE Len(lines) = 4
    <3>1. \A i \in 1 .. Len(lines) : i \in {1, 2, 3, 4}
      BY <2>2
    <3> QED
      BY <2>1, <3>1
  <2>3. CASE /\ Len(lines) = 6 /\ up' = up \ {Judger}
             /\ lines[5] = Log /\ lines[6] = Win(now) /\ ~last'.sane
    <3>1. \A i \in 1 .. Len(lines) : i \in {1, 2, 3, 4, 5, 6}
      BY <2>3
    <3>2. ~Final(lines[5])
      BY <2>3, Kinds DEF Final
    <3>3. Right(lines[6])'
      <4>1. \E p \in Players : lines[6] = Win(p)
        BY <1>1, <2>3
      <4> QED
        BY <2>3, <4>1 DEF Right
    <3> QED
      BY <1>1, <2>1, <2>3, <3>1, <3>2, <3>3
  <2> QED
    BY <1>5, <2>2, <2>3 DEF GoesOn
<1> QED
  BY <1>3, <1>4, <1>5 DEF Outcome

\* A step of the judger adds no wrong verdict, and comes before any result that is one.
LEMMA JudgerRules ==
  ASSUME Types, Judges, EveryRowIsSeen, Verdicts, Ruled
  PROVE  Verdicts' /\ Ruled'
<1>1. Judger \in up /\ UNCHANGED result
  BY JudgerFrame
<1>2. PICK lines : Outcome(lines)
  BY JudgerStep
<1>3. \A i \in 1 .. Len(lines) : Final(lines[i]) => Judger \notin up' /\ Right(lines[i])'
  BY <1>2, OutcomeIsRight
<1>4. /\ \A k \in 1 .. Len(jout) : jout'[k] = jout[k]
      /\ \A k \in 1 .. Len(jout') : ~(k <= Len(jout)) =>
           k - Len(jout) \in 1 .. Len(lines) /\ jout'[k] = lines[k - Len(jout)]
  BY <1>2, Joined DEF Outcome, Types, StreamTypes
<1>5. ASSUME NEW k \in 1 .. Len(jout'), Final(jout'[k])
      PROVE  Judger \notin up' /\ Right(jout[k])'
  <2>1. ~(k <= Len(jout))
    <3>1. k <= Len(jout) => k \in 1 .. Len(jout) /\ Final(jout[k])
      BY <1>4, <1>5
    <3> QED
      BY <1>1, <3>1 DEF Verdicts
  <2>2. k - Len(jout) \in 1 .. Len(lines) /\ jout'[k] = lines[k - Len(jout)]
    BY <1>4, <2>1
  <2>3. PICK line : line = jout'[k]
    OBVIOUS
  <2>4. Judger \notin up' /\ Right(line)'
    BY <1>3, <1>5, <2>2, <2>3
  <2>5. Right(jout[k])'
    BY <2>3, <2>4 DEF Right
  <2> QED
    BY <2>4, <2>5
<1>6. Verdicts'
  BY <1>5 DEF Verdicts, Final
<1> QED
  BY <1>1, <1>6 DEF Ruled

-----------------------------------------------------------------------------
(* WInv.                                                                   *)

\* The match begins as the invariant says.
LEMMA InitWInv == Init => WInv
<1> SUFFICES ASSUME Init PROVE WInv
  OBVIOUS
<1>1. /\ jin = <<>> /\ pin = [p \in Players |-> <<>>] /\ pout = [p \in Players |-> <<>>]
      /\ asked = 0 /\ up = 0 .. 2 /\ stuck = {} /\ result = NoResult
      /\ kind \in LineUps /\ board = [c \in Cells |-> Free] /\ now = 1
      /\ seen = [p \in Players |-> {}] /\ last = [id |-> 0, sane |-> TRUE]
      /\ Judger \in up
  BY DEF Init, MatchInit, Judger
<1>2. /\ jout \in Seq(Printed) /\ Len(jout) = 3
      /\ jout[1] = Blank /\ jout[2] = Send(1, <<1>>) /\ jout[3] = Continue(1)
  <2>1. jout = <<Blank>> \o <<Send(1, <<1>>), Continue(1)>>
    BY DEF Init, MatchInit, YourTurn
  <2>2. Blank \in Printed /\ Send(1, <<1>>) \in Printed /\ Continue(1) \in Printed
    BY PrintedLines DEF Players, Messages
  <2> QED
    BY <2>1, <2>2, ThreeLines
<1>3. Types
  <2>1. StreamTypes
    <3>1. \A S : <<>> \in Seq(S)
      BY EmptySeq
    <3> QED
      BY <1>1, <1>2, <3>1 DEF StreamTypes
  <2>2. RelayTypes
    BY <1>1 DEF RelayTypes, NoResult, Judger
  <2>3. BoardTypes
    BY <1>1 DEF BoardTypes, Tokens, Players
  <2> QED
    BY <2>1, <2>2, <2>3 DEF Types
<1>4. Verdicts
  <2>1. ~Final(jout[1]) /\ ~Final(jout[2]) /\ ~Final(jout[3])
    BY <1>2, Kinds DEF Final
  <2>2. \A k \in 1 .. Len(jout) : k \in {1, 2, 3}
    BY <1>2
  <2> QED
    BY <2>1, <2>2 DEF Verdicts
<1>5. Ruled
  BY <1>1 DEF Ruled, NoResult
<1>6. Counts
  <2>1. \A p \in Players : {c \in Cells : board[c] = p} = {}
    BY <1>1 DEF Free, Players
  <2>2. \A p \in Players : Moves(p) = Cardinality({})
    BY <2>1 DEF Moves
  <2>3. Moves(1) = 0 /\ Moves(2) = 0
    BY <2>2, FS_EmptySet DEF Players
  <2> QED
    BY <1>1, <2>3 DEF Counts
<1> QED
  BY <1>3, <1>4, <1>5, <1>6 DEF WInv

\* Every step keeps the invariant; that a running judger has seen every row is the theorem
\* above.
LEMMA StepWInv == EveryRowIsSeen /\ WInv /\ [Next]_vars => WInv'
<1> SUFFICES ASSUME EveryRowIsSeen, WInv, [Next]_vars PROVE WInv'
  OBVIOUS
<1>0. Types /\ Verdicts /\ Ruled /\ Counts
  BY DEF WInv
<1>1. CASE Relays
  <2>1. Counts'
    BY <1>0, <1>1, RelayFrame, SameBoard DEF Counts
  <2> QED
    BY <1>0, <1>1, <2>1, RelayTyped, RelayRules DEF WInv
<1>2. CASE Judges
  BY <1>0, <1>2, JudgerTyped, JudgerRules, JudgerCounts DEF WInv
<1>3. ASSUME NEW p \in Players, Plays(p) PROVE WInv'
  BY <1>0, <1>3, PlayerTyped, PlayerRules DEF WInv
<1>4. CASE UNCHANGED vars
  <2>1. /\ UNCHANGED <<jout, jin, pin, pout, asked, up, stuck, result>>
        /\ UNCHANGED <<kind, board, now, seen, last>>
    BY <1>4 DEF vars, matchVars
  <2>2. \A line : Right(line)' <=> Right(line)
    BY <2>1, SameRight
  <2>3. \A p : Moves(p)' = Moves(p)
    BY <2>1, SameBoard
  <2>4. Types'
    BY <1>0, <2>1 DEF Types, StreamTypes, RelayTypes, BoardTypes
  <2>5. Verdicts' /\ Ruled' /\ Counts'
    BY <1>0, <2>1, <2>2, <2>3 DEF Verdicts, Final, Ruled, Counts
  <2> QED
    BY <2>4, <2>5 DEF WInv
<1> QED
  BY <1>1, <1>2, <1>3, <1>4 DEF Next

-----------------------------------------------------------------------------
(* What the relay reads next, if each line is one answer.                  *)

\* The count of lines ahead, with and without the two behind.
LEMMA Counting ==
  ASSUME Types
  PROVE  /\ Len(jout) \in Nat /\ Ahead \in Int
         /\ Judger \in up => Ahead = Len(jout)
         /\ Judger \notin up => Ahead = Len(jout) - 2
         /\ jout = <<>> <=> Len(jout) = 0
BY EmptySeq DEF Types, StreamTypes, Ahead

\* Each command is read at its place in the script.
LEMMA WhatIsRead ==
  ASSUME Types, Script, Ends, jout # <<>>
  PROVE  /\ Ahead \in -1 .. 4
         /\ Head(jout).cmd = "continue" => Ahead = 1 /\ Head(jout) = Continue(now)
         /\ Head(jout).cmd = "send" =>
              \/ Ahead = 2 /\ Head(jout) = Send(now, <<now>>)
              \/ Ahead = 3 /\ \E c \in Cells : Head(jout) = Send(now, News(now, c))
         /\ Head(jout).cmd = "log" => Ahead \in {0, 4}
         /\ Head(jout).cmd = "blank" => Ahead = 3 /\ Head(jout) = Blank
         /\ Final(Head(jout)) => Judger \notin up /\ Len(jout) = 1 /\ Ahead = -1
<1>1. /\ Head(jout) = jout[1] /\ Len(jout) \in Nat \ {0} /\ Ahead \in Int
      /\ Judger \in up => Ahead = Len(jout)
      /\ Judger \notin up => Ahead = Len(jout) - 2
  BY Counting, HeadAndTail DEF Types, StreamTypes
<1>2. Ahead \in -1 .. 4
  BY <1>1 DEF Script
<1>3. Ahead = 4 => Head(jout) = Log
  BY <1>1 DEF Script
<1>4. Ahead = 3 => Head(jout) = Blank \/ \E c \in Cells : Head(jout) = Send(now, News(now, c))
  BY <1>1 DEF Script
<1>5. Ahead = 2 => Head(jout) = Send(now, <<now>>)
  BY <1>1 DEF Script
<1>6. Ahead = 1 => Head(jout) = Continue(now)
  BY <1>1 DEF Script
<1>7. Ahead = 0 => Head(jout) = Log
  BY <1>1 DEF Ends
<1>8. Ahead = -1 => Judger \notin up /\ Len(jout) = 1 /\ Final(Head(jout))
  BY <1>1 DEF Ends
<1>9. Ahead \in {-1, 0, 1, 2, 3, 4}
  BY <1>2
<1> QED
  BY <1>2, <1>3, <1>4, <1>5, <1>6, <1>7, <1>8, <1>9, Kinds DEF Final

\* A line that is read leaves the rest of the script.
LEMMA ReadsOn ==
  ASSUME Types, Script, Ends, jout # <<>>, jout' = Tail(jout),
         UNCHANGED <<up, now>>
  PROVE  /\ Ahead' = Ahead - 1 /\ jout' \in Seq(Printed)
         /\ Len(jout') = Len(jout) - 1
         /\ \A k \in 1 .. Len(jout) - 1 : jout'[k] = jout[k + 1]
         /\ Script' /\ Ends'
<1>1. /\ jout' \in Seq(Printed) /\ Len(jout) \in Nat \ {0} /\ Len(jout') = Len(jout) - 1
      /\ \A k \in 1 .. Len(jout) - 1 : jout'[k] = jout[k + 1]
      /\ jout' # <<>> => Len(jout) > 1
  BY HeadAndTail DEF Types, StreamTypes
<1>2. /\ Ahead \in Int /\ Ahead' = Ahead - 1 /\ Ahead <= Len(jout)
  <2>1. Ahead' = Len(jout') - IF Judger \in up THEN 0 ELSE 2
    BY DEF Ahead
  <2> QED
    BY <1>1, <2>1, Counting
<1>3. \A k \in 2 .. Len(jout) : jout'[k - 1] = jout[k]
  <2> SUFFICES ASSUME NEW k \in 2 .. Len(jout) PROVE jout'[k - 1] = jout[k]
    OBVIOUS
  <2>1. k - 1 \in 1 .. Len(jout) - 1 /\ (k - 1) + 1 = k
    BY <1>1
  <2> QED
    BY <1>1, <2>1
<1>4. Script'
  <2>1. Ahead' <= 4
    BY <1>2 DEF Script
  <2>2. Ahead' >= 1 => jout'[Ahead'] = Continue(now')
    BY <1>1, <1>2, <1>3 DEF Script
  <2>3. Ahead' >= 2 => jout'[Ahead' - 1] = Send(now', <<now'>>)
    <3>1. Ahead' >= 2 => Ahead - 1 \in 2 .. Len(jout) /\ Ahead' - 1 = (Ahead - 1) - 1
      BY <1>1, <1>2
    <3>2. Ahead' >= 2 => Ahead >= 2
      BY <1>2
    <3> QED
      BY <1>3, <3>1, <3>2 DEF Script
  <2>4. Ahead' >= 3 => \/ jout'[Ahead' - 2] = Blank
                       \/ \E c \in Cells : jout'[Ahead' - 2] = Send(now', News(now', c))
    <3>1. Ahead' >= 3 => Ahead - 2 \in 2 .. Len(jout) /\ Ahead' - 2 = (Ahead - 2) - 1
      BY <1>1, <1>2
    <3>2. Ahead' >= 3 => Ahead >= 3
      BY <1>2
    <3> QED
      BY <1>3, <3>1, <3>2 DEF Script
  <2>5. ~(Ahead' >= 4)
    BY <1>2 DEF Script
  <2> QED
    BY <2>1, <2>2, <2>3, <2>4, <2>5 DEF Script
<1>5. Ends'
  <2> SUFFICES ASSUME Judger \notin up
               PROVE  /\ jout' # <<>> => Final(jout[Len(jout)])
                      /\ jout' # <<>> => jout'[Len(jout')] = jout[Len(jout)]
                      /\ Len(jout') >= 2 => jout'[Len(jout') - 1] = Log
    BY DEF Ends, Final
  <2>1. jout' # <<>> => jout'[Len(jout')] = jout[Len(jout)]
    BY <1>1, <1>3
  <2>2. Len(jout') >= 2 => Len(jout) - 1 \in 2 .. Len(jout) /\ Len(jout') - 1 = (Len(jout) - 1) - 1
    BY <1>1
  <2>3. Len(jout') >= 2 => jout'[Len(jout') - 1] = jout[Len(jout) - 1]
    BY <1>3, <2>2
  <2> QED
    BY <1>1, <2>1, <2>3 DEF Ends
<1> QED
  BY <1>1, <1>2, <1>4, <1>5

\* The relay obeys one line of the script.
LEMMA Obeys ==
  ASSUME Types, Script, Ends, NEW cmd, NextCommand(cmd), UNCHANGED now
  PROVE  /\ jout # <<>> /\ jout' = Tail(jout) /\ Head(jout).cmd = cmd
         /\ Playing /\ asked = 0 /\ UNCHANGED <<jin, pout, up, stuck>>
         /\ Ahead' = Ahead - 1 /\ Script' /\ Ends'
BY ReadsOn DEF NextCommand, Waits

-----------------------------------------------------------------------------
(* A step of the relay, if each line is one answer.                        *)

\* A message is addressed to the player whose turn comes.
LEMMA SendsTo ==
  ASSUME Types, Script, Ends, Relays, ObeySend
  PROVE  \E m \in Messages(now) :
           /\ Head(jout) = Send(now, m)
           /\ pin' = IF now \in up THEN [pin EXCEPT ![now] = Append(@, m)] ELSE pin
           /\ \/ Ahead = 2 /\ m = <<now>>
              \/ Ahead = 3 /\ \E c \in Cells : m = News(now, c)
<1>1. jout # <<>> /\ Head(jout).cmd = "send"
  BY DEF ObeySend, NextCommand
<1>2. now \in Players
  BY DEF Types, BoardTypes
<1>3. PICK m \in Messages(now) :
        /\ Head(jout) = Send(now, m)
        /\ \/ Ahead = 2 /\ m = <<now>>
           \/ Ahead = 3 /\ \E c \in Cells : m = News(now, c)
  <2>1. <<now>> \in Messages(now) /\ \A c \in Cells : News(now, c) \in Messages(now)
    BY <1>2 DEF Messages
  <2> QED
    BY <1>1, <2>1, WhatIsRead
<1>4. pin' = IF now \in up THEN [pin EXCEPT ![now] = Append(@, m)] ELSE pin
  <2>1. Head(jout).to = now /\ Head(jout).msg = m
    BY <1>3, Kinds
  <2> QED
    BY <2>1 DEF ObeySend
<1> QED
  BY <1>3, <1>4

\* A step of the relay keeps the script, and turns an answer asked for into one handed over.
LEMMA RelayTurns ==
  ASSUME Types, Script, Ends, Turns, Relays
  PROVE  Script' /\ Ends' /\ Turns'
<1>1. UNCHANGED <<kind, board, now, seen, last, up, stuck>>
  BY RelayFrame
<1>2. /\ Len(jout) \in Nat /\ Ahead \in Int
      /\ Judger \in up => Ahead = Len(jout)
      /\ Judger \notin up => Ahead = Len(jout) - 2
      /\ jout = <<>> <=> Len(jout) = 0
      /\ now \in Players /\ 0 \notin Players
  BY Counting DEF Types, BoardTypes, Players
<1>3. ASSUME UNCHANGED jout
      PROVE  Ahead' = Ahead /\ Script' /\ Ends'
  BY <1>1, <1>3 DEF Ahead, Script, Ends, Final
<1>4. ASSUME NEW cmd, NextCommand(cmd)
      PROVE  /\ Ahead' = Ahead - 1 /\ Script' /\ Ends'
             /\ jout # <<>> /\ Head(jout).cmd = cmd /\ Playing /\ asked = 0
             /\ jin' = jin /\ pout' = pout
             /\ Judger \in up => jin = <<>>
             /\ Len(jout') = Len(jout) - 1 /\ jout' = <<>> <=> Len(jout') = 0
  <2>1. Len(jout') = Len(jout) - 1 /\ (jout' = <<>> <=> Len(jout') = 0)
    BY <1>4, FirstLine, EmptySeq
  <2> QED
    BY <1>1, <1>4, <2>1, Obeys DEF Turns
<1>5. CASE ObeySend \/ Skip
  <2>1. PICK cmd \in {"send", "log", "blank"} : NextCommand(cmd)
    BY <1>5 DEF ObeySend, Skip
  <2>2. UNCHANGED <<asked, result>>
    BY <1>5 DEF ObeySend, Skip
  <2>3. Ahead \in {0, 2, 3, 4}
    BY <1>4, <2>1, WhatIsRead
  <2>4. Playing => jout' # <<>>
    BY <1>2, <1>4, <2>1, <2>3
  <2>5. Turns'
    BY <1>1, <1>4, <2>1, <2>2, <2>4 DEF Turns, Playing
  <2> QED
    BY <1>4, <2>1, <2>5
<1>6. CASE ObeyContinue
  <2>1. NextCommand("continue") /\ Ahead = 1 /\ Head(jout) = Continue(now)
    BY <1>4, <1>6, WhatIsRead DEF ObeyContinue
  <2>2. asked' = now /\ UNCHANGED result
    BY <1>6, <2>1, Kinds DEF ObeyContinue
  <2>3. Judger \notin up => jout' # <<>>
    BY <1>2, <1>4, <2>1
  <2>4. Turns'
    BY <1>1, <1>2, <1>4, <2>1, <2>2, <2>3 DEF Turns, Playing
  <2> QED
    BY <1>4, <2>1, <2>4
<1>7. CASE Verdict
  <2>1. PICK cmd \in {"win", "draw"} : NextCommand(cmd)
    BY <1>7 DEF Verdict
  <2>2. Judger \notin up
    BY <1>4, <2>1, WhatIsRead DEF Final
  <2>3. asked' = asked /\ result'.kind = cmd
    BY <1>4, <1>7, <2>1 DEF Verdict
  <2>4. ~Playing'
    BY <2>3 DEF Playing, NoResult
  <2>5. Turns'
    BY <1>1, <1>4, <2>1, <2>2, <2>3, <2>4 DEF Turns
  <2> QED
    BY <1>4, <2>1, <2>5
<1>8. CASE PassAnswer
  <2>1. /\ asked = now /\ asked' = 0 /\ Ahead = 0 /\ UNCHANGED <<jout, result>>
        /\ Playing /\ pout[now] # <<>> /\ pout' = [pout EXCEPT ![now] = Tail(@)]
        /\ Judger \in up => jin' = jin \o <<now>> \o Head(pout[now])
    BY <1>8 DEF PassAnswer, Turns
  <2>2. Judger \in up => jout = <<>> /\ jin = <<>>
    BY <1>2, <2>1 DEF Turns
  <2>3. Head(pout[now]) \in Brief /\ Tail(pout[now]) \in Seq(Brief)
    BY <1>2, <2>1, HeadAndTail DEF Turns
  <2>4. pout' \in [Players -> Seq(Brief)]
    BY <2>1, <2>3 DEF Turns
  <2>5. Judger \in up => Len(jin') \in 2 .. 3 /\ jin'[1] = now /\ jin' # <<>>
    <3>1. now \in Tokens /\ Head(pout[now]) \in Seq(Tokens) /\ Len(Head(pout[now])) \in 1 .. 2
      BY <1>2, <2>3 DEF Tokens, Players, Brief
    <3>2. Judger \in up => jin' = <<>> \o <<now>> \o Head(pout[now])
      BY <2>1, <2>2
    <3>3. Judger \in up => /\ jin' \in Seq(Tokens) /\ jin'[1] = now
                           /\ Len(jin') = Len(Head(pout[now])) + 1
      BY <3>1, <3>2, Handed
    <3>4. Judger \in up => Len(jin') \in 2 .. 3
      <4>1. \A n \in 1 .. 2 : n + 1 \in 2 .. 3
        OBVIOUS
      <4> QED
        BY <3>1, <3>3, <4>1
    <3>5. Len(jin') # 0 => jin' # <<>>
      BY EmptySeq
    <3> QED
      BY <3>3, <3>4, <3>5
  <2>6. Judger \notin up => jout # <<>>
    <3>1. Judger \notin up => Len(jout) = 2
      BY <1>2, <2>1
    <3> QED
      BY <1>2, <3>1
  <2>7. Turns'
    BY <1>1, <1>3, <2>1, <2>2, <2>4, <2>5, <2>6 DEF Turns, Playing
  <2> QED
    BY <1>3, <2>1, <2>7
<1>9. CASE PlayerFails(Players) \/ JudgerFails
  <2>1. UNCHANGED <<jout, jin, asked, pout>> /\ result'.kind = "error"
    BY <1>9 DEF PlayerFails, JudgerFails, NoResult
  <2>2. ~Playing'
    BY <2>1 DEF Playing, NoResult
  <2>3. Turns'
    BY <1>1, <1>3, <2>1, <2>2 DEF Turns
  <2> QED
    BY <1>3, <2>1, <2>3
<1> QED
  BY <1>5, <1>6, <1>7, <1>8, <1>9 DEF Relays, Relay

\* While messages wait to be read, so does the judger.
LEMMA NothingHeard ==
  ASSUME Types, Turns, jout # <<>>
  PROVE  ~(Judger \in up /\ jin # <<>>)
BY DEF Turns

\* What a step of the relay leaves to show of a player.
LEMMA FollowsIf ==
  ASSUME Types, NEW p \in Players, Follows(p),
         UNCHANGED <<kind, board, now, seen, last, up, stuck>>,
         p = now /\ (Ahead' >= 1 \/ asked' = p)
            => Uptodate(p)' \/ Untold(p)' \/ Answered(p)',
         Judger \in up /\ p # now => pin'[p] = pin[p] /\ pout'[p] = pout[p],
         Judger \in up /\ p = now /\ jin' # <<>> =>
           \/ jin' = jin /\ pin'[p] = pin[p] /\ pout'[p] = pout[p]
           \/ /\ pin'[p] = <<>> /\ pout'[p] = <<>>
              /\ Len(jin') = 3
              /\ Answer' \in FreeCells(board) /\ seen[p] = Taken \cup {Answer'}
  PROVE  Follows(p)'
<1>1. Taken' = Taken /\ FreeCells(board)' = FreeCells(board)
  BY SameBoard
<1>2. p \in up' \ stuck'
  BY DEF Follows
<1>3. Judger \in up' /\ p # now' => pin'[p] = <<>> /\ pout'[p] = <<>> /\ seen'[p] = Taken'
  BY <1>1 DEF Follows
<1>4. Judger \in up' /\ p = now' /\ jin' # <<>> =>
        /\ pin'[p] = <<>> /\ pout'[p] = <<>> /\ Len(jin') = 3
        /\ Answer' \in FreeCells(board') /\ seen'[p] = Taken' \cup {Answer'}
  BY <1>1 DEF Follows, Answer
<1> QED
  BY <1>2, <1>3, <1>4 DEF Follows

\* A message sent is what an up-to-date player waits for.
LEMMA SendFollows ==
  ASSUME Types, Script, Ends, Turns, Relays, ObeySend, NEW p \in Players, Follows(p)
  PROVE  Follows(p)'
<1>1. UNCHANGED <<kind, board, now, seen, last, up, stuck>>
  BY RelayFrame
<1>2. /\ jout # <<>> /\ Ahead' = Ahead - 1 /\ jin' = jin /\ pout' = pout
      /\ asked = 0 /\ asked' = 0 /\ Head(jout) = jout[1]
  <2>1. Head(jout) = jout[1]
    BY HeadAndTail DEF ObeySend, NextCommand, Types, StreamTypes
  <2> QED
    BY <1>1, <2>1, Obeys DEF ObeySend
<1>3. PICK m \in Messages(now) :
        /\ Head(jout) = Send(now, m)
        /\ pin' = IF now \in up THEN [pin EXCEPT ![now] = Append(@, m)] ELSE pin
        /\ \/ Ahead = 2 /\ m = <<now>>
           \/ Ahead = 3 /\ \E c \in Cells : m = News(now, c)
  BY SendsTo
<1>4. p \in up /\ now \in Players /\ DOMAIN pin = Players
  BY DEF Follows, Types, BoardTypes, StreamTypes
<1>5. CASE p # now
  <2>1. pin'[p] = pin[p]
    BY <1>3, <1>4, <1>5
  <2> QED
    BY <1>1, <1>2, <1>5, <2>1, FollowsIf
<1>6. CASE p = now
  <2>1. pin'[p] = Append(pin[p], m)
    BY <1>3, <1>4, <1>6
  <2>2. Taken' = Taken
    BY <1>1, SameBoard
  <2>3. Uptodate(p)' \/ Untold(p)'
    <3>1. Append(<<>>, m) = <<m>> /\ \A e : Append(<<e>>, m) = <<e, m>>
      <4>1. Append(<<>>, m) = <<m>>
        OBVIOUS
      <4>2. \A e : Append(<<e>>, m) = <<e, m>>
        BY AppendTwo
      <4> QED
        BY <4>1, <4>2
    <3>2. Uptodate(p) \/ Untold(p)
      BY <1>3, <1>6 DEF Follows, Answered
    <3>3. CASE Uptodate(p)
      <4>1. Ahead = 2 /\ m = <<p>>
        <5>1. Ahead = 3 => jout[1] = Blank
          BY <3>3 DEF Uptodate
        <5> QED
          BY <1>2, <1>3, <1>6, <5>1, Kinds
      <4>2. pin'[p] = <<<<p>>>> /\ Ahead' = 1
        BY <1>2, <2>1, <3>1, <3>3, <4>1 DEF Uptodate
      <4> QED
        BY <1>1, <1>2, <2>2, <3>3, <4>2 DEF Uptodate
    <3>4. CASE Untold(p)
      <4>1. PICK c \in Cells :
              /\ seen[p] \cup {c} = Taken
              /\ \/ Ahead >= 3 /\ jout[Ahead - 2] = Send(p, News(p, c)) /\ pin[p] = <<>>
                 \/ Ahead = 2 /\ pin[p] = <<News(p, c)>>
                 \/ Ahead <= 1 /\ pin[p] = <<News(p, c), <<p>>>>
        BY <3>4 DEF Untold
      <4>2. CASE Ahead = 2
        <5>1. m = <<p>> /\ pin[p] = <<News(p, c)>> /\ Ahead' = 1
          BY <1>2, <1>3, <1>6, <4>1, <4>2
        <5>2. pin'[p] = <<News(p, c), <<p>>>>
          BY <2>1, <3>1, <5>1
        <5> QED
          BY <1>1, <1>2, <2>2, <3>4, <4>1, <5>1, <5>2 DEF Untold
      <4>3. CASE Ahead = 3
        <5>1. jout[1] = Send(p, News(p, c)) /\ pin[p] = <<>> /\ Ahead' = 2
          BY <1>2, <4>1, <4>3
        <5>2. m = News(p, c)
          BY <1>2, <1>3, <5>1, Kinds
        <5>3. pin'[p] = <<News(p, c)>>
          BY <2>1, <3>1, <5>1, <5>2
        <5> QED
          BY <1>1, <1>2, <2>2, <3>4, <4>1, <5>1, <5>3 DEF Untold
      <4> QED
        BY <1>3, <4>2, <4>3
    <3> QED
      BY <3>2, <3>3, <3>4
  <2>4. ~(Judger \in up /\ jin' # <<>>)
    BY <1>2, NothingHeard
  <2> QED
    BY <1>1, <1>6, <2>3, <2>4, FollowsIf
<1> QED
  BY <1>5, <1>6

\* A line that is no message tells a player nothing.
LEMMA ReadFollows ==
  ASSUME Types, Script, Ends, Turns, Relays, ObeyContinue \/ Skip \/ Verdict,
         NEW p \in Players, Follows(p)
  PROVE  Follows(p)'
<1>1. UNCHANGED <<kind, board, now, seen, last, up, stuck>>
  BY RelayFrame
<1>2. PICK cmd \in {"continue", "log", "blank", "win", "draw"} : NextCommand(cmd)
  BY DEF ObeyContinue, Skip, Verdict
<1>3. /\ jout # <<>> /\ Head(jout).cmd = cmd /\ Ahead' = Ahead - 1 /\ asked = 0
      /\ UNCHANGED <<jin, pin, pout>>
  BY <1>1, <1>2, Obeys DEF ObeyContinue, Skip, Verdict
<1>4. /\ Ahead \in Int /\ Head(jout) = jout[1] /\ Len(jout) \in Nat \ {0} /\ Ahead <= Len(jout)
      /\ \A k \in 1 .. Len(jout) - 1 : jout'[k] = jout[k + 1]
  <2>1. Ahead \in Int /\ Ahead <= Len(jout)
    BY Counting DEF Ahead
  <2> QED
    BY <1>1, <1>2, <1>3, <2>1, HeadAndTail DEF NextCommand, Types, StreamTypes
<1>5. asked' = 0 \/ (Ahead = 1 /\ asked' = now)
  <2>1. CASE ObeyContinue
    BY <2>1, <1>3, WhatIsRead, Kinds DEF ObeyContinue, NextCommand
  <2>2. CASE Skip \/ Verdict
    BY <1>3, <2>2 DEF Skip, Verdict
  <2> QED
    BY <2>1, <2>2
<1>6. Ahead \in {-1, 0, 1, 3, 4} /\ (Ahead = 3 => jout[1] = Blank)
  BY <1>2, <1>3, <1>4, WhatIsRead DEF Final
<1>7. ASSUME p = now, Ahead' >= 1 \/ asked' = p
      PROVE  Uptodate(p)' \/ Untold(p)' \/ Answered(p)'
  <2>1. Ahead \in {1, 3, 4}
    BY <1>3, <1>4, <1>5, <1>6, <1>7 DEF Players
  <2>2. Uptodate(p) \/ Untold(p) \/ Answered(p)
    BY <1>7, <2>1 DEF Follows
  <2>3. Taken' = Taken /\ FreeCells(board)' = FreeCells(board)
    BY <1>1, SameBoard
  <2>4. Ahead = 4 => jout'[Ahead' - 2] = jout[Ahead - 2]
    <3>1. Ahead = 4 => 1 \in 1 .. Len(jout) - 1
      BY <1>4
    <3> QED
      BY <1>3, <1>4, <3>1
  <2>5. CASE Uptodate(p)
    <3>1. Ahead' >= 3 => Ahead = 4 /\ jout'[Ahead' - 2] = Blank
      BY <1>3, <1>4, <2>1, <2>4, <2>5 DEF Uptodate
    <3>2. pin'[p] = IF Ahead' <= 1 THEN <<<<p>>>> ELSE <<>>
      BY <1>3, <2>1, <2>5 DEF Uptodate
    <3> QED
      BY <1>1, <1>3, <2>3, <2>5, <3>1, <3>2 DEF Uptodate
  <2>6. CASE Untold(p)
    <3>1. PICK c \in Cells :
            /\ seen[p] \cup {c} = Taken
            /\ \/ Ahead >= 3 /\ jout[Ahead - 2] = Send(p, News(p, c)) /\ pin[p] = <<>>
               \/ Ahead = 2 /\ pin[p] = <<News(p, c)>>
               \/ Ahead <= 1 /\ pin[p] = <<News(p, c), <<p>>>>
      BY <2>6 DEF Untold
    <3>2. Ahead # 3
      BY <1>6, <3>1, Kinds
    <3>3. CASE Ahead = 4
      <4>1. Ahead' = 3 /\ jout'[Ahead' - 2] = Send(p, News(p, c)) /\ pin'[p] = <<>>
        BY <1>3, <2>4, <3>1, <3>3
      <4> QED
        BY <1>1, <1>3, <2>3, <2>6, <3>1, <4>1 DEF Untold
    <3>4. CASE Ahead = 1
      <4>1. Ahead' = 0 /\ pin'[p] = <<News(p, c), <<p>>>>
        BY <1>3, <3>1, <3>4
      <4> QED
        BY <1>1, <1>3, <2>3, <2>6, <3>1, <4>1 DEF Untold
    <3> QED
      BY <2>1, <3>2, <3>3, <3>4
  <2>7. CASE Answered(p)
    BY <1>1, <1>3, <1>4, <2>3, <2>7 DEF Answered
  <2> QED
    BY <2>2, <2>5, <2>6, <2>7
<1> QED
  BY <1>1, <1>3, <1>7, FollowsIf

\* The answer handed over is the free cell a shipped player has chosen.
\* The answer handed over is the free cell a shipped player has chosen.
LEMMA PassFollows ==
  ASSUME Types, Script, Ends, Turns, Relays, PassAnswer, NEW p \in Players, Follows(p)
  PROVE  Follows(p)'
<1>1. UNCHANGED <<kind, board, now, seen, last, up, stuck>>
  BY RelayFrame
<1>2. /\ asked # 0 /\ asked = now /\ asked' = 0 /\ Ahead = 0 /\ Ahead' = 0
      /\ pin' = pin /\ pout' = [pout EXCEPT ![now] = Tail(@)] /\ pout[now] # <<>>
      /\ Judger \in up => jin = <<>> /\ jin' = jin \o <<now>> \o Head(pout[now])
  BY <1>1 DEF PassAnswer, Turns, Ahead
<1>3. now \in Players /\ 0 \notin Players /\ pout \in [Players -> Seq(Seq(Tokens))]
  BY DEF Types, BoardTypes, StreamTypes, Players
<1>4. CASE p # now
  <2>1. pout'[p] = pout[p]
    BY <1>2, <1>3, <1>4
  <2> QED
    BY <1>1, <1>2, <1>4, <2>1, FollowsIf
<1>5. CASE p = now
  <2>1. Answered(p)
    BY <1>2, <1>5 DEF Follows, Uptodate, Untold
  <2>2. PICK c \in FreeCells(board) : pout[p] = <<c>> /\ seen[p] = Taken \cup {c}
    BY <2>1 DEF Answered
  <2>3. pin'[p] = <<>> /\ pout'[p] = <<>> /\ Head(pout[p]) = c
    <3>1. Head(<<c>>) = c /\ Tail(<<c>>) = <<>>
      OBVIOUS
    <3> QED
      BY <1>2, <1>3, <1>5, <2>1, <2>2, <3>1 DEF Answered
  <2>4. Judger \in up => Len(jin') = 3 /\ Answer' = c
    <3>1. c \in Seq(Tokens) /\ Len(c) = 2 /\ c = <<c[1], c[2]>> /\ now \in Tokens
      <4>1. c \in Cells
        BY DEF FreeCells
      <4>2. c = <<c[1], c[2]>>
        BY <4>1 DEF Cells
      <4>3. Len(c) = 2
        BY <4>2
      <4> QED
        BY <1>3, <4>1, <4>2, <4>3, CellsAreBrief DEF Tokens, Players
    <3>2. Judger \in up => jin' = <<>> \o <<now>> \o c
      BY <1>2, <1>5, <2>3
    <3>3. ASSUME Judger \in up
          PROVE  Len(jin') = Len(c) + 1 /\ \A k \in 1 .. Len(c) : jin'[k + 1] = c[k]
      <4>1. PICK stream : stream = jin'
        OBVIOUS
      <4>2. stream = <<>> \o <<now>> \o c
        BY <3>2, <3>3, <4>1
      <4>3. Len(stream) = Len(c) + 1 /\ \A k \in 1 .. Len(c) : stream[k + 1] = c[k]
        <5>1. c \in Seq(Tokens) /\ now \in Tokens
          BY <3>1
        <5> QED
          BY <4>2, <5>1, Handed
      <4> QED
        BY <4>1, <4>3
    <3>4. 1 \in 1 .. Len(c) /\ 2 \in 1 .. Len(c)
      BY <3>1
    <3>5. Judger \in up => Len(jin') = 3 /\ jin'[1 + 1] = c[1] /\ jin'[2 + 1] = c[2]
      BY <3>1, <3>3, <3>4
    <3> QED
      BY <3>1, <3>5 DEF Answer
  <2>5. ~(Ahead' >= 1 \/ asked' = p)
    BY <1>2, <1>3
  <2> QED
    BY <1>1, <1>5, <2>2, <2>3, <2>4, <2>5, FollowsIf
<1> QED
  BY <1>4, <1>5

\* A step of the relay keeps shipped players up to date.
LEMMA RelayFollows ==
  ASSUME Types, Script, Ends, Turns, Relays, ShippedFollow
  PROVE  ShippedFollow'
<1>1. UNCHANGED <<kind, board, now, seen, last, up, stuck>>
  BY RelayFrame
<1> SUFFICES ASSUME NEW p \in Players, Follows(p) PROVE Follows(p)'
  BY <1>1 DEF ShippedFollow
<1>2. CASE PlayerFails(Players) \/ JudgerFails
  <2>1. UNCHANGED <<jout, jin, pin, pout, asked>>
    BY <1>2 DEF PlayerFails, JudgerFails
  <2>2. Taken' = Taken /\ FreeCells(board)' = FreeCells(board) /\ Ahead' = Ahead
    BY <1>1, <2>1, SameBoard DEF Ahead
  <2> QED
    BY <1>1, <2>1, <2>2, FollowsIf DEF Follows, Uptodate, Untold, Answered
<1> QED
  BY <1>2, SendFollows, ReadFollows, PassFollows DEF Relays, Relay

\* An answer that is read or handed over is complete, if it is a shipped player's.
LEMMA ShippedAnswers ==
  ASSUME Types, Turns, NEW p \in Players, Follows(p), p = now, Judger \in up, jin # <<>>
  PROVE  Complete
<1>1. /\ Len(jin) = 3 /\ jin[1] = now /\ now \in Int
      /\ <<jin[2], jin[3]>> \in Cells
  BY DEF Follows, Turns, Answer, FreeCells, Types, BoardTypes, Players
<1>2. jin[2] \in Int /\ jin[3] \in Int
  BY <1>1 DEF Cells, Side
<1>3. NextTokens \subseteq {jin[1], jin[2], jin[3]}
  <2>1. \A k \in 1 .. 3 : k = 1 \/ k = 2 \/ k = 3
    OBVIOUS
  <2> QED
    BY <2>1 DEF NextTokens
<1>4. Word \notin NextTokens
  BY <1>1, <1>2, <1>3
<1> QED
  BY <1>1, <1>4 DEF Complete, Garbled

\* An error blames no two shipped players.
LEMMA RelayBlamed ==
  ASSUME Types, Script, Ends, Turns, Relays, ShippedFollow, Blamed
  PROVE  Blamed'
<1>1. UNCHANGED <<kind, board, now, seen, last, up, stuck>> /\ now \in Players
  BY RelayFrame DEF Types, BoardTypes
<1>2. CASE UNCHANGED result
  BY <1>1, <1>2 DEF Blamed
<1>3. CASE Verdict
  <2>1. PICK cmd \in {"win", "draw"} : NextCommand(cmd)
    BY <1>3 DEF Verdict
  <2>2. result'.kind = cmd
    BY <1>3, <2>1 DEF Verdict, NextCommand
  <2> QED
    BY <2>2 DEF Blamed
<1>4. CASE PlayerFails(Players)
  <2>1. /\ asked # 0 /\ asked = now /\ Ahead = 0
        /\ result'.kind = "error" /\ result'.who = asked
        /\ pout[now] = <<>> /\ (now \in up \ stuck => pin[now] = <<>>)
    BY <1>4 DEF PlayerFails, NoResult, Turns
  <2>2. kind[now] # "shipped"
    <3> SUFFICES ASSUME kind[now] = "shipped" PROVE FALSE
      OBVIOUS
    <3>1. Follows(now)
      BY <1>1 DEF ShippedFollow
    <3>2. pin[now] = <<>> /\ (Uptodate(now) \/ Untold(now) \/ Answered(now))
      BY <2>1, <3>1 DEF Follows
    <3>3. ~Uptodate(now)
      BY <2>1, <3>2 DEF Uptodate
    <3>4. ~Untold(now)
      <4>1. \A a, b : <<a, b>> # <<>>
        OBVIOUS
      <4> QED
        BY <2>1, <3>2, <4>1 DEF Untold
    <3>5. ~Answered(now)
      BY <2>1 DEF Answered
    <3> QED
      BY <3>2, <3>3, <3>4, <3>5
  <2> QED
    BY <1>1, <2>1, <2>2 DEF Blamed
<1>5. CASE JudgerFails
  <2>1. /\ jout = <<>> /\ asked = 0 /\ Playing /\ result'.kind = "error" /\ result'.who = Judger
        /\ Judger \in up => ~Complete
    BY <1>5 DEF JudgerFails, Waits, NoResult
  <2>2. Judger \in up /\ jin # <<>>
    BY <2>1 DEF Turns
  <2>3. kind[now] # "shipped"
    BY <1>1, <2>1, <2>2, ShippedAnswers DEF ShippedFollow
  <2> QED
    BY <1>1, <2>1, <2>3 DEF Blamed
<1>6. CASE ObeySend \/ ObeyContinue \/ Skip \/ PassAnswer
  BY <1>2, <1>6 DEF ObeySend, ObeyContinue, Skip, PassAnswer
<1> QED
  BY <1>3, <1>4, <1>5, <1>6 DEF Relays, Relay

-----------------------------------------------------------------------------
(* A step of a player, if each line is one answer.                         *)

\* It prints no more than an answer.
LEMMA PlayerIsBrief ==
  ASSUME Types, Orderly, Turns, NEW p \in Players, Plays(p)
  PROVE  pout' \in [Players -> Seq(Brief)]
<1>1. pout \in [Players -> Seq(Brief)]
  BY DEF Turns
<1>2. ASSUME NEW line \in Brief, PlayerPrints(p, line)
      PROVE  pout' \in [Players -> Seq(Brief)]
  <2>1. Append(pout[p], line) \in Seq(Brief)
    BY <1>1, Longer
  <2> QED
    BY <1>1, <1>2, <2>1 DEF PlayerPrints
<1>3. CASE ShippedMoves(p)
  BY <1>2, <1>3, CellsAreBrief DEF ShippedMoves
<1>4. CASE ShippedMarks(p)
  BY <1>1, <1>4 DEF ShippedMarks
<1>5. CASE StrangerMoves(p)
  <2>1. kind[p] # "wild"
    BY DEF Orderly
  <2>2. LinesOf(kind[p]) \subseteq Brief
    BY <2>1, OneAnswerIsBrief DEF LinesOf
  <2> QED
    BY <1>1, <1>2, <1>5, <2>2 DEF StrangerMoves, Whatever
<1> QED
  BY <1>3, <1>4, <1>5 DEF Plays

\* A step of a player keeps all that is not about what players know.
LEMMA PlayerKeeps ==
  ASSUME Types, Orderly, NEW p \in Players, Plays(p), Script, Ends, Turns, Named, Blamed
  PROVE  Script' /\ Ends' /\ Turns' /\ Named' /\ Blamed'
<1>1. /\ UNCHANGED <<jout, jin, asked, result, kind, board, now, last>>
      /\ Judger \in up' <=> Judger \in up
      /\ Ahead' = Ahead
  BY PlayerFrame
<1>2. Script'
  BY <1>1 DEF Script
<1>3. Ends'
  BY <1>1 DEF Ends, Final
<1>4. Turns'
  BY <1>1, PlayerIsBrief DEF Turns, Playing
<1>5. Named' /\ Blamed'
  BY <1>1 DEF Named, Blamed
<1> QED
  BY <1>2, <1>3, <1>4, <1>5

\* What a shipped player does when it is told something leaves it up to date.
LEMMA PlayerOwnFollows ==
  ASSUME Types, NEW p \in Players, Plays(p), kind[p] = "shipped", Follows(p)
  PROVE  Follows(p)'
<1>1. /\ UNCHANGED <<jout, jin, asked, result, kind, board, now, last>>
      /\ pin[p] # <<>> /\ pin'[p] = Tail(pin[p])
      /\ Judger \in up' <=> Judger \in up
      /\ Ahead' = Ahead
  BY PlayerFrame DEF Types, StreamTypes
<1>2. ShippedMoves(p) \/ ShippedMarks(p)
  BY DEF Plays, StrangerMoves, Hears
<1>3. UNCHANGED <<up, stuck>>
  BY <1>2 DEF ShippedMoves, ShippedMarks, Stays
<1>4. Taken' = Taken /\ FreeCells(board)' = FreeCells(board)
  BY <1>1, SameBoard
<1>5. ASSUME p = now, Ahead >= 1 \/ asked = p
      PROVE  Uptodate(p)' \/ Untold(p)' \/ Answered(p)'
  <2>1. Uptodate(p) \/ Untold(p)
    BY <1>1, <1>5 DEF Follows, Answered
  <2>2. \A e : Head(<<e>>) = e /\ Tail(<<e>>) = <<>>
    OBVIOUS
  <2>3. \A e, f : Head(<<e, f>>) = e /\ Tail(<<e, f>>) = <<f>>
    OBVIOUS
  <2>4. <<p>>[1] = p
    OBVIOUS
  <2>5. CASE Uptodate(p)
    <3>1. Ahead <= 1 /\ pin[p] = <<<<p>>>>
      BY <1>1, <2>5 DEF Uptodate
    <3>2. MyTurn(p) /\ pin'[p] = <<>>
      BY <1>1, <2>2, <2>4, <3>1 DEF MyTurn, Message
    <3>3. ShippedMoves(p)
      BY <1>2, <3>2 DEF ShippedMarks
    <3>4. PICK c \in Cells \ seen[p] :
            PlayerPrints(p, c) /\ seen' = [seen EXCEPT ![p] = @ \cup {c}]
      BY <3>3 DEF ShippedMoves
    <3>5. c \in FreeCells(board) /\ seen'[p] = Taken \cup {c}
      BY <2>5, <3>4 DEF Uptodate, Taken, FreeCells, Types, BoardTypes
    <3>6. pout'[p] = <<c>>
      <4>1. Append(<<>>, c) = <<c>>
        OBVIOUS
      <4> QED
        BY <2>5, <3>4, <4>1 DEF Uptodate, PlayerPrints, Types, StreamTypes
    <3> QED
      BY <1>1, <1>4, <3>1, <3>2, <3>5, <3>6 DEF Answered
  <2>6. CASE Untold(p)
    <3>1. PICK c \in Cells :
            /\ seen[p] \cup {c} = Taken
            /\ \/ Ahead = 2 /\ pin[p] = <<News(p, c)>>
               \/ Ahead <= 1 /\ pin[p] = <<News(p, c), <<p>>>>
      BY <1>1, <2>6 DEF Untold
    <3>2. Message(p) = News(p, c)
      BY <2>2, <2>3, <3>1 DEF Message
    <3>3. ~MyTurn(p) /\ Tail(Message(p)) = c
      BY <3>2, NewsIs DEF MyTurn
    <3>4. ShippedMarks(p)
      BY <1>2, <3>3 DEF ShippedMoves
    <3>5. seen'[p] = Taken /\ pout'[p] = <<>>
      BY <2>6, <3>1, <3>3, <3>4 DEF ShippedMarks, Untold, Types, BoardTypes
    <3>6. pin'[p] = IF Ahead <= 1 THEN <<<<p>>>> ELSE <<>>
      <4>1. CASE Ahead = 2 /\ pin[p] = <<News(p, c)>>
        BY <1>1, <2>2, <4>1
      <4>2. CASE Ahead <= 1 /\ pin[p] = <<News(p, c), <<p>>>>
        BY <1>1, <2>3, <4>2
      <4> QED
        BY <3>1, <4>1, <4>2
    <3>7. ~(Ahead >= 3)
      BY <3>1, Counting
    <3> QED
      BY <1>1, <1>4, <3>5, <3>6, <3>7 DEF Uptodate
  <2> QED
    BY <2>1, <2>5, <2>6
<1>6. ~(Judger \in up /\ p # now) /\ ~(Judger \in up /\ p = now /\ jin # <<>>)
  BY <1>1 DEF Follows
<1> QED
  BY <1>1, <1>3, <1>5, <1>6 DEF Follows

\* A step of a player keeps shipped players up to date.
LEMMA PlayerFollows ==
  ASSUME Types, NEW p \in Players, Plays(p), ShippedFollow
  PROVE  ShippedFollow'
<1>1. /\ UNCHANGED <<jout, jin, asked, result, kind, board, now, last>>
      /\ pin' = [pin EXCEPT ![p] = Tail(@)]
      /\ up' \in {up, up \ {p}} /\ stuck' \in {stuck, stuck \cup {p}}
      /\ Judger \in up' <=> Judger \in up
      /\ Ahead' = Ahead
  BY PlayerFrame
<1>2. ASSUME NEW q \in Players, q # p, Follows(q) PROVE Follows(q)'
  <2>1. pin'[q] = pin[q] /\ pout'[q] = pout[q] /\ seen'[q] = seen[q]
    <3>1. pin'[q] = pin[q]
      BY <1>1, <1>2 DEF Types, StreamTypes
    <3>2. pout'[q] = pout[q]
      BY <1>2, PlayerOwns DEF Types, StreamTypes
    <3>3. seen'[q] = seen[q]
      BY <1>2, PlayerOwns DEF Types, BoardTypes
    <3> QED
      BY <3>1, <3>2, <3>3
  <2>2. q \in up \ stuck => q \in up' \ stuck'
    BY <1>1, <1>2
  <2>3. Taken' = Taken /\ FreeCells(board)' = FreeCells(board)
    BY <1>1, SameBoard
  <2>4. /\ Uptodate(q)' <=> Uptodate(q)
        /\ Untold(q)' <=> Untold(q)
        /\ Answered(q)' <=> Answered(q)
    BY <1>1, <2>1, <2>3 DEF Uptodate, Untold, Answered
  <2> QED
    BY <1>1, <1>2, <2>1, <2>2, <2>3, <2>4 DEF Follows, Answer
<1> QED
  BY <1>1, <1>2, PlayerOwnFollows DEF ShippedFollow

-----------------------------------------------------------------------------
(* A step of the judger, if each line is one answer.                       *)

\* It answers to the only answer there is, of the player whose turn it is; nothing that it
\* has printed waits to be read.
LEMMA JudgerAlone ==
  ASSUME Types, Turns, Judges
  PROVE  /\ Judger \in up /\ jin # <<>> /\ jin' = <<>> /\ last'.id = now
         /\ jout = <<>> /\ asked = 0 /\ now \in Players /\ 0 \notin Players
<1>1. Judger \in up /\ jin # <<>> /\ Len(jin) \in 2 .. 3 /\ jin[1] = now /\ jout = <<>> /\ asked = 0
  BY JudgerFrame DEF Turns
<1>2. \A n \in 2 .. 3 : n >= 3 => n = 3
  OBVIOUS
<1>3. Len(jin) >= 3 => Len(jin) = 3
  BY <1>1, <1>2
<1>4. jin' = <<>> /\ last'.id = now
  BY <1>1, <1>3, JudgerFrame
<1>5. now \in Players /\ 0 \notin Players
  BY DEF Types, BoardTypes, Players
<1> QED
  BY <1>1, <1>4, <1>5

\* How far ahead the next question is, by outcome.
LEMMA JudgerLines ==
  ASSUME Types, Turns, Judges
  PROVE  \/ /\ jout' \in Seq(Printed) /\ Len(jout') = 2 /\ jout'[1] = Log /\ Final(jout'[2])
            /\ Judger \notin up' /\ Ahead' = 0 /\ now' = now
         \/ /\ \E c \in Cells : GoesOn(jout', c)
            /\ jout' \in Seq(Printed) /\ Ahead' = 4
<1>1. Judger \in up /\ now \in Players /\ jout = <<>>
  BY JudgerAlone
<1>2. PICK lines : Outcome(lines)
  BY JudgerStep
<1>3. jout' = lines /\ jout' \in Seq(Printed)
  BY <1>1, <1>2, ConcatEmptySeq DEF Outcome
<1>4. Ahead' = Len(jout') - IF Judger \in up' THEN 0 ELSE 2
  BY DEF Ahead
<1>5. ASSUME NEW line, jout' = <<Log, line>>, Final(line)
      PROVE  Len(jout') = 2 /\ jout'[1] = Log /\ Final(jout'[2])
  BY <1>5, TwoLines
<1>6. CASE Refuses(lines)
  <2>1. jout' = <<Log, Win(Other(now))>> /\ Final(Win(Other(now)))
    BY <1>3, <1>6, Kinds DEF Refuses, Final
  <2>2. Judger \notin up' /\ now' = now
    BY <1>6 DEF Refuses
  <2> QED
    BY <1>3, <1>4, <1>5, <2>1, <2>2
<1>7. CASE Finishes(lines)
  <2>1. \E line : jout' = <<Log, line>> /\ Final(line)
    BY <1>3, <1>7, Kinds DEF Finishes, Final
  <2>2. Judger \notin up' /\ now' = now
    BY <1>7 DEF Finishes
  <2> QED
    BY <1>3, <1>4, <1>5, <2>1, <2>2
<1>8. CASE \E c \in Cells : GoesOn(lines, c)
  <2>1. Ahead' = 4
    BY <1>1, <1>3, <1>4, <1>8 DEF GoesOn
  <2> QED
    BY <1>3, <1>8, <2>1
<1> QED
  BY <1>2, <1>6, <1>7, <1>8 DEF Outcome

\* A step of the judger prints a script for the player whose turn comes.
LEMMA JudgerScript ==
  ASSUME Types, Turns, Judges
  PROVE  Script' /\ Ends' /\ Turns' /\ Named'
<1>1. /\ jin' = <<>> /\ asked' = 0 /\ result' = result /\ pout' = pout /\ last'.id = now
      /\ Judger \in up
  BY JudgerFrame, JudgerAlone
<1>2. CASE /\ jout' \in Seq(Printed) /\ Len(jout') = 2 /\ jout'[1] = Log /\ Final(jout'[2])
           /\ Judger \notin up' /\ Ahead' = 0 /\ now' = now
  <2>1. jout' # <<>>
    BY <1>2, EmptySeq
  <2>2. Script'
    BY <1>2 DEF Script
  <2>3. Ends'
    BY <1>2 DEF Ends, Final
  <2>4. Turns'
    BY <1>1, <1>2, <2>1 DEF Turns
  <2>5. Named'
    BY <1>1, <1>2 DEF Named
  <2> QED
    BY <2>2, <2>3, <2>4, <2>5
<1>3. ASSUME NEW c \in Cells, GoesOn(jout', c), Ahead' = 4
      PROVE  Script' /\ Ends' /\ Turns' /\ Named'
  <2>1. now' = Other(now)
    BY <1>3 DEF GoesOn
  <2>2. /\ jout'[1] = Log
        /\ jout'[2] = Send(now', News(now', c))
        /\ jout'[3] = Send(now', <<now'>>)
        /\ jout'[4] = Continue(now')
    BY <1>3 DEF GoesOn
  <2>3. jout' # <<>>
    BY <1>3, EmptySeq DEF GoesOn
  <2>4. Script'
    BY <1>3, <2>2 DEF Script
  <2>5. Ends'
    <3>1. CASE up' = up
      BY <1>1, <3>1 DEF Ends
    <3>2. CASE Len(jout') = 6 /\ jout'[5] = Log /\ jout'[6] = Win(now)
      BY <3>2, Kinds DEF Ends, Final
    <3> QED
      BY <1>3, <3>1, <3>2 DEF GoesOn
  <2>6. Turns'
    BY <1>1, <1>3, <2>3 DEF Turns
  <2>7. Named'
    BY <1>1, <1>3 DEF GoesOn, Named
  <2> QED
    BY <2>4, <2>5, <2>6, <2>7
<1> QED
  BY <1>2, <1>3, JudgerLines

\* A step of the judger tells the next player the cell it does not know yet.
LEMMA JudgerFollows ==
  ASSUME Types, Turns, Judges, ShippedFollow
  PROVE  ShippedFollow'
<1>1. /\ Judger \in up /\ jin # <<>> /\ jin' = <<>> /\ asked = 0 /\ asked' = 0
      /\ UNCHANGED <<pin, pout, stuck, kind, seen>>
      /\ now \in Players /\ 0 \notin Players
  BY JudgerFrame, JudgerAlone
<1>2. SUFFICES ASSUME NEW p \in Players, Follows(p) PROVE Follows(p)'
  BY <1>1 DEF ShippedFollow
<1>3. p \in up' \ stuck'
  BY <1>1, <1>2, JudgerStep DEF Follows, Outcome, Refuses, Finishes, GoesOn, Judger
<1>4. CASE Judger \notin up' /\ Ahead' = 0 /\ now' = now
  BY <1>1, <1>3, <1>4 DEF Follows
<1>5. ASSUME NEW c \in Cells, GoesOn(jout', c), Ahead' = 4 PROVE Follows(p)'
  <2>1. /\ c \in FreeCells(board) /\ board' = Place(c) /\ now' = Other(now)
        /\ jout'[2] = Send(Other(now), News(Other(now), c))
        /\ Judger \in up' => c = Answer
    <3>1. /\ c \in FreeCells(board) /\ board' = Place(c) /\ now' = Other(now)
          /\ jout'[2] = Send(Other(now), News(Other(now), c))
      BY <1>5 DEF GoesOn
    <3>2. c = Answer \/ up' = up \ {Judger}
      BY <1>5 DEF GoesOn
    <3> QED
      BY <3>1, <3>2
  <2>2. Ahead' = 4
    BY <1>5
  <2>3. Taken' = Taken \cup {c}
    <3>1. board \in [Cells -> {Free} \cup Players] /\ Free \notin Players
      BY DEF Types, BoardTypes, Free, Players
    <3> QED
      BY <1>1, <2>1, <3>1 DEF Taken, FreeCells, Place
  <2>4. now' # now /\ (p = now \/ p = Other(now))
    BY <1>1, <2>1, Others
  <2>5. CASE p = Other(now)
    <3>1. p # now /\ p = now'
      BY <2>1, <2>4, <2>5
    <3>2. pin'[p] = <<>> /\ pout'[p] = <<>> /\ seen'[p] = Taken
      BY <1>1, <1>2, <3>1 DEF Follows
    <3>3. jout'[Ahead' - 2] = Send(p, News(p, c))
      BY <2>1, <2>2, <2>5
    <3>4. Untold(p)'
      BY <2>2, <2>3, <3>2, <3>3 DEF Untold
    <3> QED
      BY <1>1, <1>3, <3>1, <3>4 DEF Follows
  <2>6. CASE p = now
    <3>1. p # now'
      BY <2>4, <2>6
    <3>2. pin'[p] = <<>> /\ pout'[p] = <<>> /\ seen'[p] = Taken \cup {Answer}
      BY <1>1, <1>2, <2>6 DEF Follows
    <3>3. Judger \in up' => seen'[p] = Taken'
      BY <2>1, <2>3, <3>2
    <3> QED
      BY <1>1, <1>3, <3>1, <3>2, <3>3 DEF Follows
  <2> QED
    BY <2>4, <2>5, <2>6
<1> QED
  BY <1>4, <1>5, JudgerLines

-----------------------------------------------------------------------------
(* The invariant.                                                          *)

\* The match begins as the invariant says.
LEMMA InitBInv == Init => BInv
<1> SUFFICES ASSUME Init PROVE BInv
  OBVIOUS
<1>1. /\ jin = <<>> /\ pin = [p \in Players |-> <<>>] /\ pout = [p \in Players |-> <<>>]
      /\ asked = 0 /\ up = 0 .. 2 /\ stuck = {} /\ result = NoResult
      /\ kind \in LineUps /\ board = [c \in Cells |-> Free] /\ now = 1
      /\ seen = [p \in Players |-> {}]
      /\ Judger \in up
  BY DEF Init, MatchInit, Judger
<1>2. /\ Len(jout) = 3
      /\ jout[1] = Blank /\ jout[2] = Send(1, <<1>>) /\ jout[3] = Continue(1)
  <2>1. jout = <<Blank>> \o <<Send(1, <<1>>), Continue(1)>>
    BY DEF Init, MatchInit, YourTurn
  <2>2. Blank \in Printed /\ Send(1, <<1>>) \in Printed /\ Continue(1) \in Printed
    BY PrintedLines DEF Players, Messages
  <2> QED
    BY <2>1, <2>2, ThreeLines
<1>3. Ahead = 3
  BY <1>1, <1>2 DEF Ahead
<1>4. Script
  BY <1>1, <1>2, <1>3 DEF Script
<1>5. Ends /\ Named
  BY <1>1 DEF Ends, Named
<1>6. jout # <<>>
  BY <1>2, EmptySeq
<1>7. Turns
  <2>1. \A S : <<>> \in Seq(S)
    BY EmptySeq
  <2> QED
    BY <1>1, <1>6, <2>1 DEF Turns
<1>8. Taken = {}
  BY <1>1 DEF Taken, FreeCells
<1>9. ShippedFollow
  <2> SUFFICES ASSUME NEW p \in Players PROVE Follows(p)
    BY DEF ShippedFollow
  <2>1. pin[p] = <<>> /\ pout[p] = <<>> /\ seen[p] = Taken /\ p \in up \ stuck
    BY <1>1, <1>8 DEF Players
  <2>2. Uptodate(p)
    BY <1>2, <1>3, <2>1 DEF Uptodate
  <2> QED
    BY <1>1, <2>1, <2>2 DEF Follows
<1>10. Blamed
  BY <1>1 DEF Blamed, NoResult
<1> QED
  BY <1>4, <1>5, <1>7, <1>9, <1>10 DEF BInv

\* Who plays is settled when the match begins.
LEMMA SameKind == ASSUME [Next]_vars, Types PROVE kind' = kind
BY RelayFrame, JudgerFrame, PlayerFrame DEF Next, vars

\* Nothing happens to the invariant when nothing happens.
LEMMA StutterBInv == ASSUME Types, BInv, UNCHANGED vars PROVE BInv'
<1>1. /\ UNCHANGED <<jout, jin, pin, pout, asked, up, stuck, result>>
      /\ UNCHANGED <<kind, board, now, seen, last>>
  BY DEF vars, matchVars
<1>2. Ahead' = Ahead /\ Taken' = Taken /\ FreeCells(board)' = FreeCells(board)
  BY <1>1, SameBoard DEF Ahead
<1>3. Script' /\ Ends' /\ Turns' /\ Named' /\ Blamed'
  BY <1>1, <1>2 DEF BInv, Script, Ends, Final, Turns, Playing, Named, Blamed
<1>4. \A p : Follows(p)' <=> Follows(p)
  BY <1>1, <1>2 DEF Follows, Uptodate, Untold, Answered, Answer
<1>5. ShippedFollow'
  BY <1>1, <1>4 DEF BInv, ShippedFollow
<1> QED
  BY <1>3, <1>5 DEF BInv

\* If each line is one answer, every step keeps what is said of that.
LEMMA StepBInv == Types /\ Orderly /\ BInv /\ [Next]_vars => BInv'
<1> SUFFICES ASSUME Types, Orderly, BInv, [Next]_vars PROVE BInv'
  OBVIOUS
<1>0. Script /\ Ends /\ Turns /\ Named /\ ShippedFollow /\ Blamed
  BY DEF BInv
<1>1. CASE Relays
  <2>1. Named'
    BY <1>0, <1>1, RelayFrame DEF Named
  <2> QED
    BY <1>0, <1>1, <2>1, RelayTurns, RelayFollows, RelayBlamed DEF BInv
<1>2. CASE Judges
  <2>1. Blamed'
    BY <1>0, <1>2, JudgerFrame DEF Blamed
  <2> QED
    BY <1>0, <1>2, <2>1, JudgerScript, JudgerFollows DEF BInv
<1>3. ASSUME NEW p \in Players, Plays(p) PROVE BInv'
  BY <1>0, <1>3, PlayerKeeps, PlayerFollows DEF BInv
<1>4. CASE UNCHANGED vars
  BY <1>4, StutterBInv
<1> QED
  BY <1>1, <1>2, <1>3, <1>4 DEF Next

\* The invariant holds in every match.
THEOREM AlwaysIInv == Spec => []IInv
<1>1. Init => IInv
  BY InitWInv, InitBInv DEF IInv
<1>2. EveryRowIsSeen /\ IInv /\ [Next]_vars => IInv'
  <2> SUFFICES ASSUME EveryRowIsSeen, IInv, [Next]_vars PROVE IInv'
    OBVIOUS
  <2>1. WInv /\ Types
    BY DEF IInv, WInv
  <2>2. WInv'
    BY <2>1, StepWInv
  <2>3. Orderly' => Orderly
    BY <2>1, SameKind DEF Orderly
  <2>4. Orderly => BInv'
    BY <2>1, StepBInv DEF IInv
  <2> QED
    BY <2>2, <2>3, <2>4 DEF IInv
<1> QED
  BY <1>1, <1>2, RowsAlwaysSeen, PTL DEF Spec

-----------------------------------------------------------------------------
(* What follows.                                                           *)

\* TypeOK, for any board and whatever the players print.
THEOREM TypeCorrect == Spec => []TypeOK
<1>1. IInv => TypeOK
  <2> SUFFICES ASSUME IInv PROVE TypeOK
    OBVIOUS
  <2>1. Types
    BY DEF IInv, WInv
  <2>2. \A k \in DOMAIN jout : jout[k].cmd \in Commands /\ jout[k].to \in 0 .. 2
    <3>1. \A k \in DOMAIN jout : jout[k] \in Printed
      BY <2>1 DEF Types, StreamTypes
    <3> QED
      BY <3>1, PrintedIs
  <2>3. \A k \in DOMAIN jin : jin[k] \in Tokens
    BY <2>1 DEF Types, StreamTypes
  <2>4. MatchTypeOK
    BY <2>1, <2>2, <2>3 DEF MatchTypeOK, Types, StreamTypes, RelayTypes
  <2> QED
    BY <2>1, <2>4 DEF TypeOK, Types, BoardTypes
<1> QED
  BY <1>1, AlwaysIInv, PTL

\* VerdictIsRight, on a board of any size.  Whatever the players print, numbers or not, one
\* answer a line or several, stones are counted right, a draw is one, and a win at numbers
\* is that of five in a row, or of an answer that was no free cell on the other's turn.  If
\* each line is one answer, right or wrong, that answer was the other's own, and two
\* shipped players have no error together.
THEOREM VerdictsAreRight == Spec => []VerdictIsRight
<1>1. IInv => VerdictIsRight
  <2> SUFFICES ASSUME IInv PROVE VerdictIsRight
    OBVIOUS
  <2>1. Counts /\ Ruled /\ (Orderly => Named /\ Blamed)
    BY DEF IInv, WInv, BInv
  <2>2. Moves(1) - Moves(2) \in 0 .. 1
    BY <2>1 DEF Counts
  <2>3. ASSUME result.kind = "win", last.sane
        PROVE  /\ \/ HasFive(board, result.who)
                  \/ now = Other(result.who) /\ (Orderly => last.id = now)
               /\ ~HasFive(board, Other(result.who))
               /\ \A p \in Players : result.scores[p] = IF p = result.who THEN 1 ELSE 0
    <3>1. /\ Right(Win(result.who)) /\ result.who \in Players
          /\ result.scores = Win(result.who).msg /\ Judger \notin up
      BY <2>1, <2>3 DEF Ruled
    <3>2. PICK p \in Players :
            /\ Win(result.who) = Win(p)
            /\ HasFive(board, p) \/ now = Other(p)
            /\ ~HasFive(board, Other(p))
      BY <2>3, <3>1, Kinds DEF Right
    <3>3. p = result.who
      BY <3>2, Kinds
    <3>4. result.scores = [q \in Players |-> IF q = result.who THEN 1 ELSE 0]
      BY <3>1 DEF Win
    <3>5. Orderly => last.id = now
      BY <2>1, <2>3, <3>1 DEF Named
    <3> QED
      BY <3>2, <3>3, <3>4, <3>5
  <2>4. ASSUME result.kind = "draw"
        PROVE  /\ FreeCells(board) = {}
               /\ \A p \in Players : ~HasFive(board, p) /\ result.scores[p] = 0
    <3>1. Right(Draw) /\ result.scores = Draw.msg
      BY <2>1, <2>4 DEF Ruled
    <3>2. FreeCells(board) = {} /\ \A p \in Players : ~HasFive(board, p)
      BY <3>1, Kinds DEF Right
    <3>3. result.scores = [q \in Players |-> 0]
      BY <3>1 DEF Draw
    <3> QED
      BY <3>2, <3>3
  <2>5. result.kind = "error" /\ Orderly =>
          \E p \in Players : kind[p] # "shipped" /\ result.who \in {p, Judger}
    BY <2>1 DEF Blamed
  <2> QED
    BY <2>2, <2>3, <2>4, <2>5 DEF VerdictIsRight
<1> QED
  BY <1>1, AlwaysIInv, PTL

\* PlayersSeeTheBoard: if each line is one answer, a shipped player never answers with a cell
\* that is taken, and what it has marked is the judger's board.
THEOREM ShippedSeeTheBoard == Spec => []PlayersSeeTheBoard
<1>1. IInv => PlayersSeeTheBoard
  <2> SUFFICES ASSUME IInv, Orderly, NEW p \in Players, kind[p] = "shipped", asked = p,
                      pout[p] # <<>>
               PROVE  /\ Head(pout[p]) \in FreeCells(board)
                      /\ seen[p] = (Cells \ FreeCells(board)) \cup {Head(pout[p])}
    BY DEF PlayersSeeTheBoard
  <2>1. Follows(p) /\ p = now
    BY DEF IInv, BInv, ShippedFollow, Turns, Players
  <2>2. Answered(p)
    BY <2>1 DEF Follows, Uptodate, Untold
  <2>3. PICK c \in FreeCells(board) : pout[p] = <<c>> /\ seen[p] = Taken \cup {c}
    BY <2>2 DEF Answered
  <2>4. Head(pout[p]) = c
    BY <2>3
  <2> QED
    BY <2>3, <2>4 DEF Taken
<1> QED
  BY <1>1, AlwaysIInv, PTL
===============================================================================
