SPECIFICATION Spec
CONSTANTS
  j1 = j1
  j2 = j2
  Jobs = {j1, j2}
  Files = {"ads"}
  Spares = {"ads-2", "ads-3"}
  Urls = {"plain", "clash"}
  Filename <- NameOf
  MaxChanges = 4
SYMMETRY Symmetric
INVARIANTS
  ListsSettle
  ChoiceKept
