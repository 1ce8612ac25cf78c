CONSTANTS
  RequestProtocols = {"connect-udp"}
  WireSettings = {"enabled","disabled","absent","invalid"}
  Binders = {"proxy"}
  MaxSettings <- ProxyRepeats
  MaxFields <- Once1
SPECIFICATION FairSpec
INVARIANTS
  CarrierAgreement
  AssociationAgrees
PROPERTIES
  ChoiceSpec
  CarrierConverges
CHECK_DEADLOCK FALSE
