SPECIFICATION FairSpec
CONSTANTS
  k1 = k1
  k2 = k2
  Runtime = Runtime
  Keys = {k1, k2}
  Intervals = {1, 2}
  Step = 1
  MaxFailures = 2
  MaxChanges = 1
INVARIANTS
  NeverEarly
  OneRotation
  StatusIsRight
PROPERTIES
  KeepsFiring
  TriggerTaken
