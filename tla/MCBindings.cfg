\* Two assets, a category, two inheritors; one of the assets has no binding of its own.
SPECIFICATION Spec
CONSTANTS
  Asset = {a1, a2}
  Category = {c1}
  MaxHeirs = 2
  MaxLadders = 2
  BoundItem = {a1, c1}
  LadderItem = {c1}
  Request = {r1, r2}
  None = None
SYMMETRY MCSymmetry
INVARIANTS TypeOK ReferencesResolve NoHeirTwice  EveryAssetHasAnHeir
PROPERTIES  UnbindOnlyFromThatLadder
