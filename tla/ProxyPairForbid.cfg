CONSTANTS
  UseSSL = TRUE
  Behaviours = {"wrongLogin"}
SPECIFICATION Spec
CHECK_DEADLOCK FALSE
INVARIANTS
  ForbidCloses
