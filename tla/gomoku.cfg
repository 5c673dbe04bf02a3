SPECIFICATION FairSpec
CONSTANTS
  Word = Word
  Numbers <- AllNumbers
  WildLines <- ManyAnswers
  Size = 3
  Five = 3
  LineUps <- AllLineUps
INVARIANTS
  TypeOK
  VerdictIsRight
  EveryRowIsSeen
  PlayersSeeTheBoard
PROPERTIES
  MatchEnds
CHECK_DEADLOCK FALSE
