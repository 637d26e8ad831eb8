CONSTANTS
  Nullopt = Nullopt
  Sizes = {1, 2}
  Bytes = {0, 1}
  Args = {0, 1, 2, 3}
  SizeMod = 8
  MaxBlocks = 3
SPECIFICATION Spec
INVARIANTS
  Inv
PROPERTIES
  GrowsOnlyWhenFull
  StoreSpec
