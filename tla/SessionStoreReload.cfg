CONSTANTS
  t1 = t1
  t2 = t2
  x1 = x1
  x2 = x2
  x3 = x3
  NoId = NoId
  Threads <- MCThreads
  Ids <- MCIds
  MaxSessions = 3
  MaxRequests = 3
  MaxRestarts = 1
SPECIFICATION Spec
CHECK_DEADLOCK FALSE
INVARIANTS
  ReloadFindsNone
