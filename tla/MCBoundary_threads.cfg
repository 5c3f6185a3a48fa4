SPECIFICATION Spec
CONSTANTS
  Threads = {t1, t2}
  Questions = {q1}
  NoThread = NoThread
  Capacity = 1
  Lifetime = 1
  Horizon = 1
  MaxGrants = 2
  MaxRequests = 2
  MaxFlushes = 1
INVARIANTS
  NoOrphanReader
  HitsAreFresh
  GapsAreDeclared
PROPERTIES
  ThreadsEnd
CHECK_DEADLOCK FALSE
