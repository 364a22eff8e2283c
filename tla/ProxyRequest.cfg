CONSTANTS
  Requests <- MCRequests
  MaxRequests = 3
SPECIFICATION Spec
CHECK_DEADLOCK FALSE
INVARIANTS
  TypeOK
  NothingLost
  BodiesUntouched
  RewrittenExactly
  InStep
