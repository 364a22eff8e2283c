CONSTANTS
  Requests <- MCRequests
  KeyCBs <- MCKeyCBs
  KeyFunCBs <- MCKeyFunCBs
  DynamicCBs <- MCDynamicCBs
  Layers = 2
  Stoppers <- MCStoppers
  MaxRequests = 2
SPECIFICATION FairSpec
CHECK_DEADLOCK FALSE
INVARIANTS
  TypeOK
PROPERTIES
  ImplementsPlain
  EveryRequestAnswered
