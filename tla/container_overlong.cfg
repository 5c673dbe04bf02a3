SPECIFICATION Spec
CONSTANTS
  a = a
  b = b
  none = none
  Texts <- MCTexts
  Empty = none
  Full = Full
  Eof = Eof
  MaxReads = 4
  MaxBlocks = 3
  PipeCap = 2
  Orphans = TRUE
INVARIANTS
  OverlongLineIsRefused
CHECK_DEADLOCK FALSE
