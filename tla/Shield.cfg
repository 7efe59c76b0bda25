SPECIFICATION Spec
CONSTANTS
  k1 = k1
  s1 = s1
  s2 = s2
  s3 = s3
  s4 = s4
  s5 = s5
  o1 = o1
  o2 = o2
  Keys = {k1}
  Route = Route
  Servers = {s1, s2, s3, s4, s5}
  Origs = {o1, o2}
  MaxFaults = 1
  MaxChanges = 1
SYMMETRY Symmetric
INVARIANTS
  DownMeansForeign
  NeverBackupOwn
  OneListener
  ShownActive
