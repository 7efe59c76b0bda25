SPECIFICATION Spec
CONSTANTS
  t1 = t1
  t2 = t2
  t3 = t3
  NoTask = NoTask
  Tasks = {t1,t2,t3}
  Picks <- Modes
  Tui = FALSE
  Strict = TRUE
  KillSwitch = TRUE
  TargetCheck = TRUE
  ForeignTor = FALSE
  LongSession = FALSE
  Toggles = FALSE
  MaxToggled = 0
  Crashes = FALSE
INVARIANTS
  OnlyItsHops
PROPERTIES
  OneRoute
