SPECIFICATION Spec
CONSTANTS
  N = 3
  JudgerLines <- RoutingLines
  PlayerLines <- PlainLines
  Garbage <- NoGarbage
  StdinCap = 1
  StdoutCap = 1
  MaxJudgerLines = 3
  MaxPlayerLines = 1
  MaxExits = 0
INVARIANTS
  DeliversToAddressees
  AnswersAreAttributed
  ResultIsTheJudgers
CHECK_DEADLOCK FALSE
