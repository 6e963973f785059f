CONSTANTS
  Capacity = 4
  PageSize = 2
  NumBlocks = 2
  NumLayers = 1
  MaxRequests = 2
  MaxLen = 5
  MaxFaults = 0
  PromptLens = {1}
  MaxNews = {1, 2}
  AppendLens = {1}
  AppendMaxNews = {1}
  FaultPoints = {}
  RepeatInBatch = FALSE
  ReuseReleased = TRUE
SPECIFICATION Spec
INVARIANTS AttentionReads
