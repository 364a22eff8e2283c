CONSTANTS
  UseSSL = TRUE
  Behaviours = {"wrongLogin", "refuse"}
SPECIFICATION FairSpec
CHECK_DEADLOCK FALSE
INVARIANTS
  TypeOK
  LiveObjectsOnly
  NodeMirrorsHalves
PROPERTIES
  ClientEndSpreads
  ServerEndSpreads
