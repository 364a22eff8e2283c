CONSTANTS
  UseSSL = TRUE
  Behaviours = {}
SPECIFICATION FairSpec
CHECK_DEADLOCK FALSE
PROPERTIES
  CloseTriggered
