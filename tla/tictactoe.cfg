SPECIFICATION FairSpec
CONSTANTS
  Word = Word
  Numbers <- AllNumbers
  WildLines <- ManyAnswers
  LineUps <- AllLineUps
INVARIANTS
  TypeOK
  VerdictIsRight
  ShippedLinesAreSeen
  PlayersSeeTheBoard
PROPERTIES
  MatchEnds
CHECK_DEADLOCK FALSE
