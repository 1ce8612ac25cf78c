CONSTANTS
  Runtimes = {"multi"}
SPECIFICATION Spec
INVARIANTS
  OwnCloseIsGraceful
CHECK_DEADLOCK FALSE
