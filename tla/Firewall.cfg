SPECIFICATION Spec
CONSTANTS
  Accepts = 2
  MaxDeletes = 9
  MaxFaults = 2
INVARIANTS
  NeverPretends
  NoLeakBesideRedirect
  FlagMatchesKernel
PROPERTIES
  CleanupRemovesAll
