CONSTANTS
  StreamIds = {0, 4, 6}
  MaxVarint = 7
  Families = {"v4"}
  Settings = {"enabled", "disabled"}
  Fields = {"on"}
  Unrecorded <- Complete
  Sources = {"client"}
  Sizes = {0, 65536}
  MaxPayloads = 2
SPECIFICATION Spec
INVARIANTS
  CapsulesKeepOrder
  EveryCapsuleAccounted
PROPERTIES
  RelaySpec
CHECK_DEADLOCK FALSE
