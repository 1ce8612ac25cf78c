CONSTANTS
  Quarter = 2
  UsizeMax = 40
  Types <- MCTypes
  Payloads <- MCPayloads
  ForeignTypes = {1}
  Streams <- MCStreams
  Capacity = 25
  MaxSent = 2
  OtherErrors <- MCOtherErrors
SPECIFICATION Spec
INVARIANTS
  ReadBack
  IncompleteIsExact
  EqualErrorsAlike
  FramePreserved
CHECK_DEADLOCK FALSE
