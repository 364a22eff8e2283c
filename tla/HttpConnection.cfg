CONSTANTS
  Requests <- MCRequests
  KeyCBs <- MCKeyCBs
  KeyFunCBs <- MCKeyFunCBs
  DynamicCBs <- MCDynamicCBs
  Layers = 2
  Stoppers <- MCStoppers
  Framed = FALSE
  MaxRequests = 3
SPECIFICATION FairSpec
CHECK_DEADLOCK FALSE
INVARIANTS
  HandledAsSent
  RightCallback
PROPERTIES
  EveryRequestAnswered
