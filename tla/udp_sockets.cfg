CONSTANTS
  Assocs = {a}
  Ports = {p, q}
  Payloads <- MCPayloads
  MAX_UDP_PAYLOAD = 2
  MAX_VARINT = 3
  MaxInFlight = 2
SPECIFICATION Spec
INVARIANTS
  PortsAccounted
  EchoIsWhole
PROPERTIES
  
  ClientEnds
CHECK_DEADLOCK FALSE
