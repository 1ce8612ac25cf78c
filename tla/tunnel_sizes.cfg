CONSTANTS
  StreamIds = {4}
  MaxVarint = 7
  Families = {"v4", "v6"}
  Settings = {"enabled", "disabled"}
  Fields = {"on"}
  Unrecorded <- Premature
  Sources = {"client", "proxy"}
  Sizes = {0, 65507, 65527, 65536}
  MaxPayloads = 2
SPECIFICATION Spec
INVARIANTS
  RefusedForCause
PROPERTIES
  RelaySpec
CHECK_DEADLOCK FALSE
