SPECIFICATION Spec
CONSTANTS
  Servers = {a, b}
  Size = 2
  Items = {i1, i2}
  i1 = i1
  i2 = i2
  i3 = i3
  Tags <- MCTags
  NbtOf <- MCNbtOf
  None = None
INVARIANTS TypeOK NoDuplicate SavedIntact VaultInv
PROPERTIES LostOnlyIfContested NothingReturns RestoredWhole
SYMMETRY ServerSymmetry
