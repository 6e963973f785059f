CONSTANTS
  Capacity = 15
  PageSize = 3
  NumBlocks = 5
  NumLayers = 2
  MaxRequests = 3
  MaxLen = 4
  MaxFaults = 0
  PromptLens = {1, 2, 3}
  MaxNews = {1, 2, 3}
  AppendLens = {}
  AppendMaxNews = {}
  FaultPoints = {}
  RepeatInBatch = FALSE
  ReuseReleased = FALSE
  NumRequests = 3
  Slack = 1
SPECIFICATION BenchSpec
INVARIANTS
  NeverThrows
  AllServed
  PoolRefilled
PROPERTIES
  RunEnds
