CONSTANTS
  c1 = c1
  c2 = c2
  f1 = f1
  f2 = f2
  None = None
  Connections <- MCConnections
  Files <- MCFiles
  Initially <- MCInitially
  Sizes <- MCSizes
  Block = 2
  IntRange = 6
  MaxRequests = 3
SPECIFICATION Spec
CHECK_DEADLOCK FALSE
INVARIANTS
  TypeOK
  NoOverlap
  FileDelivered
  PageIsCurrent
PROPERTIES
  DownloadEnds
