SPECIFICATION Spec
CONSTANTS
  N = 2
  JudgerLines <- WordLines
  PlayerLines <- PlainLines
  Garbage <- NoGarbage
  StdinCap = 1
  StdoutCap = 1
  MaxJudgerLines = 3
  MaxPlayerLines = 1
  MaxExits = 0
INVARIANTS
  DeliversToAddressees
CHECK_DEADLOCK FALSE
