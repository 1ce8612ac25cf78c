CONSTANTS
  Peers = {p1, p2}
  MAX_SANS = 2
  MAX_SAN_LEN = 2
SPECIFICATION Spec
INVARIANTS
  FailureHasCause
  NoneMeansClosed
  NoOrphanConnection
PROPERTIES
  CloseEndsRequests
  QueueMovesOn
CHECK_DEADLOCK FALSE
