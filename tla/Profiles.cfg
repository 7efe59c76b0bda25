SPECIFICATION Spec
CONSTANTS
  i1 = i1
  i2 = i2
  i3 = i3
  Ids = {i1, i2, i3}
  Texts <- TheTexts
  Inner <- Contains
  Usable <- HasServer
  Detected <- HasMarkers
  MaxChanges = 4
SYMMETRY Symmetric
INVARIANTS
  Accounted
  PoolResolved
  ScanSettles
