SPECIFICATION Spec
CONSTANTS
  N = 1
  JudgerLines <- LiveLines
  PlayerLines <- PlainLines
  Garbage <- NoGarbage
  StdinCap = 1
  StdoutCap = 1
  MaxJudgerLines = 2
  MaxPlayerLines = 1
  MaxExits = 0
PROPERTIES
  KillReachesChildren
CHECK_DEADLOCK FALSE
