SPECIFICATION FairSpec
CONSTANTS
  t1 = t1
  t2 = t2
  NoTask = NoTask
  Tasks = {t1,t2}
  Picks <- Modes
  Tui = TRUE
  Strict = TRUE
  KillSwitch = TRUE
  TargetCheck = FALSE
  ForeignTor = FALSE
  LongSession = TRUE
  Toggles = FALSE
  MaxToggled = 0
  Crashes = FALSE
INVARIANTS
  LockDiscipline
  TransparentNeedsTor
  ShieldUpstreamAlive
  ConnectedIsVerified
PROPERTIES
  ShutdownEnds
