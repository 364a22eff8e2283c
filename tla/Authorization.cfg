CONSTANTS
  t1 = t1
  t2 = t2
  s1 = s1
  ann = ann
  bob = bob
  eve = eve
  pw1 = pw1
  pw2 = pw2
  NoPassword = NoPassword
  Threads <- MCThreads
  Sessions <- MCSessions
  Names <- MCNames
  Users <- MCUsers
  Passwords <- MCPasswords
  Page <- MCPage
  Other <- MCOther
  CacheSize = 1
  Limit = 2
  MaxRequests = 3
  MaxChanges = 1
  SizeMax = 1000
SPECIFICATION Spec
CHECK_DEADLOCK FALSE
INVARIANTS
  TypeOK
  AcceptedByTable
  RightIsAccepted
  ResponseSound
SYMMETRY Symmetry
