SPECIFICATION FairSpec
CONSTANTS
  Pids <- TwoPids
  None = None
  Socks = 1
  Control = 2
  Offset = 2
  Limit = 2
  LastPort = 4
INVARIANTS
  LeavesNothing
  SameTor
  PortsDiffer
PROPERTIES
  StartEnds
