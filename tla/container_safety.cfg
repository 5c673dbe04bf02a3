SPECIFICATION FairSpec
CONSTANTS
  a = a
  b = b
  none = none
  Texts <- MCTexts
  Empty = none
  Full = Full
  Eof = Eof
  MaxReads = 4
  MaxBlocks = 3
  PipeCap = 2
  Orphans = TRUE
INVARIANTS
  TypeOK
  OneReadAtATime
  InOrder
  NoReadAfterFree
PROPERTIES
  ImplementsChannel
  DestructorReturns
CHECK_DEADLOCK FALSE
