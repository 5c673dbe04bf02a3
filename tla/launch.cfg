SPECIFICATION FairSpec
CONSTANTS
  Jsons <- AllJsons
  Home <- Home_
  JsonDirs <- FileDirs
  Files <- Places
  IntMax = 15
  MaxErrors = 2
INVARIANTS
  TypeOK
  ReturnCodeTells
  RunsWhereBuilt
  ReadsWhatWasPosted
  ResultIsWhereTold
  NobodyLeftBehind
PROPERTIES
  BuildEnds
  BuiltGameLaunches
CHECK_DEADLOCK FALSE
