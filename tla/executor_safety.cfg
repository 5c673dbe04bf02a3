SPECIFICATION FairSpec
CONSTANTS
  t1 = t1
  t2 = t2
  Tasks <- TwoTasks
  MaxCrashes = 1
  MaxDbFailures = 1
  Fates <- Courses
INVARIANTS
  TypeOK
  ChildIsOfFirstTask
  StatusTellsTruth
  NothingForgotten
PROPERTIES
  SeenNeverGoesBack
  ImplementsLifecycle
  UndisturbedTasksEnd
  NewIsAnswered
