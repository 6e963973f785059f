CONSTANTS
  NumThreads = 4
  MaxVocab = 5
  Larger = 2
SPECIFICATION RowSpec
CHECK_DEADLOCK FALSE
INVARIANTS SameAsCpu
