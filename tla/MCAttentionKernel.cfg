CONSTANTS
  NumThreads = 4
  NumBlocks = 3
  PageSize = 2
  HeadDim = 5
  Rows = 2
  MaxLen = 3
SPECIFICATION FairSpec
CHECK_DEADLOCK FALSE
INVARIANTS RaceFree Attends
PROPERTIES KernelEnds
