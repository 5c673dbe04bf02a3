SPECIFICATION Spec
CONSTANTS
  N = 1
  JudgerLines <- LiveLines
  PlayerLines <- PlainLines
  Garbage <- NoGarbage
  StdinCap = 1
  StdoutCap = 1
  MaxJudgerLines = 2
  MaxPlayerLines = 1
  MaxExits = 1
INVARIANTS
  NoChildOutlivesRun
CHECK_DEADLOCK FALSE
