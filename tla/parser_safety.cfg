CONSTANTS
  Kinds <- MCKinds
  MaxCapsules = 3
  MaxHeader = 3
  MaxCapsuleLength = 2
  CompactThreshold = 4
  UsizeMax = 7
SPECIFICATION FairSpec
INVARIANTS
  TypeOK
  Synchronised
  DeliveredExactly
  BoundedBuffer
  FinalizeExact
  RefusesForCause
PROPERTIES
  RefusalIsSticky
  EventuallyEmitted
  AbstractSpec
CHECK_DEADLOCK FALSE
