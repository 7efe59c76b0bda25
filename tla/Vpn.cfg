SPECIFICATION FairSpec
CONSTANTS
  OpenVpn <- OneOpenVpn
  WireGuard <- OneWireGuard
  None = None
  Switches <- OneSwitch
  KillSwitch = TRUE
  Retries = 1
  Checks = {"current", "target"}
INVARIANTS
  
  NeverOpen
  SteadyFollows
  
PROPERTIES
  CallsEnd
