CONSTANTS
  t1 = t1
  t2 = t2
  x1 = x1
  x2 = x2
  x3 = x3
  NoId = NoId
  Threads <- MCThreads
  Ids <- MCIds
  MaxSessions = 3
  MaxRequests = 4
  MaxRestarts = 1
SPECIFICATION Spec
SYMMETRY Symmetry
CHECK_DEADLOCK FALSE
INVARIANTS
  CookieHonoured
  IssuedIsDurable
  ForbidsAtLimit
PROPERTIES
  ImplementsDirectory
