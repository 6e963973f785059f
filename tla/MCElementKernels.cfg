CONSTANTS
  BlockDim = 2
  IntBits = 5
  Lookups <- MCLookups
  Rotations <- MCRotations
  Products <- MCProducts
  Lengths = {0, 1, 5, 17, 34}
SPECIFICATION Spec
INVARIANTS SameAsLoops
CHECK_DEADLOCK FALSE
