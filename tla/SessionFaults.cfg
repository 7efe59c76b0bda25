SPECIFICATION Spec
CONSTANTS
  t1 = t1
  t2 = t2
  NoTask = NoTask
  Tasks = {t1,t2}
  Picks <- TwoModes
  Tui = TRUE
  Strict = FALSE
  KillSwitch = TRUE
  TargetCheck = FALSE
  ForeignTor = FALSE
  LongSession = TRUE
  Toggles = TRUE
  MaxToggled = 1
  Crashes = TRUE
SYMMETRY Symmetric
INVARIANTS
  CleanExit
