CONSTANTS
  MaxHost = 6
  MaxConfig = 5
  MaxUri = 80
  MaxInteger = 3
  MaxWhole = 2
  MaxFraction = 1
  Hosts <- MCHosts
  Ports <- MCPorts
  Configs <- MCConfigs
  Authorities <- MCAuthorities
  Bases <- MCBases
  Parameters <- MCParameters
  MaxParameters = 3
  Extensions <- MCExtensions
  MaxExtended = 14
  Beginnings <- MCBeginnings
  MaxHops = 1
SPECIFICATION Spec
INVARIANTS
  RequestPreserved
  AcceptsTemplate
  FlagPreserved
  AcceptsGrammar
CHECK_DEADLOCK FALSE
