CONSTANTS
  Runtimes = {"single", "multi"}
SPECIFICATION FairSpec
INVARIANTS
  GracefulOnOneThread
  FailureHasCause
  NoOrphanConnection
PROPERTIES
  CloseTerminates
  DriverTerminates
CHECK_DEADLOCK FALSE
