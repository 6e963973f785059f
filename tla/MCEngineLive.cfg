CONSTANTS
  Capacity = 3
  PageSize = 2
  NumBlocks = 2
  NumLayers = 1
  MaxRequests = 2
  MaxLen = 5
  MaxFaults = 1
  PromptLens = {1, 2}
  MaxNews = {0, 3}
  AppendLens = {2}
  AppendMaxNews = {1}
  FaultPoints = {"forward", "sample", "batch sample"}
  RepeatInBatch = TRUE
  ReuseReleased = FALSE
SPECIFICATION FairSpec
INVARIANTS LenWithinMax ModelAccepts
PROPERTIES CallReturns
