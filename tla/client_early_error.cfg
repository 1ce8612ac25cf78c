CONSTANTS
  Runtimes = {"single"}
SPECIFICATION Spec
INVARIANTS
  EarlyErrorReturned
CHECK_DEADLOCK FALSE
