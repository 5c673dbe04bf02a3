SPECIFICATION FairSpec
CONSTANTS
  t1 = t1
  t2 = t2
  Tasks <- TwoTasks
  MaxCrashes = 0
  MaxDbFailures = 0
  Fates <- Talkative
PROPERTIES
  EveryTaskEnds
