CONSTANTS
  Capacity = 4
  PageSize = 2
  NumBlocks = 2
  NumLayers = 1
  MaxRequests = 1
  MaxLen = 4
  MaxFaults = 0
  PromptLens = {1}
  MaxNews = {1}
  AppendLens = {1}
  AppendMaxNews = {0}
  FaultPoints = {}
  RepeatInBatch = FALSE
  ReuseReleased = FALSE
SPECIFICATION Spec
INVARIANTS LenWithinMax

