CONSTANTS
  f1 = f1
  f2 = f2
  Fds <- MCFds
  MaxConnections = 4
SPECIFICATION Spec
CHECK_DEADLOCK FALSE
INVARIANTS
  TypeOK
  NodeOutlivesHandlers
  MapIsExact
  EntryStays
  LeftHurtsOnce
SYMMETRY Symmetry
