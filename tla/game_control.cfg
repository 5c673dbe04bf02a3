SPECIFICATION ReadingSpec
CONSTANTS
  N = 1
  JudgerLines <- OddLines
  PlayerLines <- AnyLines
  Garbage <- SomeGarbage
  StdinCap = 1
  StdoutCap = 1
  MaxJudgerLines = 3
  MaxPlayerLines = 1
  MaxExits = 1
INVARIANTS
  TypeOK
  ExitTellsOutcome
PROPERTIES
  StepEnds
  SilentGameEnds
  ClosingEnds
CHECK_DEADLOCK FALSE
