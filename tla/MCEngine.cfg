CONSTANTS
  Capacity = 5
  PageSize = 2
  NumBlocks = 3
  NumLayers = 2
  MaxRequests = 2
  MaxLen = 4
  MaxFaults = 1
  PromptLens = {1, 2, 3}
  MaxNews = {1, 2}
  AppendLens = {0, 1}
  AppendMaxNews <- RefusedOrOne
  FaultPoints = {"forward", "batch sample"}
  RepeatInBatch = FALSE
  ReuseReleased = FALSE
SPECIFICATION Spec
INVARIANTS TypeOK LenWithinMax TableOwners CacheHolds AttentionReads ModelAccepts NoHoarding Resumable
PROPERTIES StarvesOnlyWhenFull ImplementsStream
