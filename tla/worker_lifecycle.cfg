SPECIFICATION Spec
CONSTANTS
  IntMax = 7
  LongMax = 10
  DefaultWorkerCount = 2
  MaxWorkerCount = 3
  DefaultAttempts = 2
  DefaultCloneTimeout = 2
  MaxCloneTimeout = 5
  RawSettings <- MCRawSettings
INVARIANTS
  TypeOK
  DatabaseOpenWhileWorking
  NothingRunsAtExit
  FinishesCurrentJob
  AllAttemptsMade
  CloneAlwaysBounded
PROPERTIES
  ShutdownCompletes
CHECK_DEADLOCK FALSE
