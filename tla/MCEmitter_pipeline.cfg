SPECIFICATION FairSpec
CONSTANTS
  NumScopes = 1
  UnitSizes = {2}
  QueueCapacity = 2
  Flushers = {f1}
  Closer = Closer
  MaxUnits = 3
  MaxFailures = 1
INVARIANTS
  EveryRecordIsAccounted
  FlushTellsTheTruth
PROPERTIES
  WaitingEnds
CHECK_DEADLOCK FALSE
