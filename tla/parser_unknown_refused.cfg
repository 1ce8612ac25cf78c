CONSTANTS
  Kinds <- MCKinds
  MaxCapsules = 2
  MaxHeader = 3
  MaxCapsuleLength = 2
  CompactThreshold = 4
  UsizeMax = 7
SPECIFICATION Spec
INVARIANTS
  UnknownAlwaysSkipped
CHECK_DEADLOCK FALSE
