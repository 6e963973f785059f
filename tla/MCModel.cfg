CONSTANTS
  Addrs <- MCAddrs
  NumHiddenLayers = 2
  NumLayers = 2
  VocabSize = 5
  HiddenSize = 3
  QSize = 4
  KvSize = 2
  HeadDim = 1
  IntermediateSize = 6
  FirstKinds = {"good", "missing", "extra", "duplicate", "unparsable", "unreadable", "malformed", "misfit"}
  RetryKinds = {"good", "missing"}
  MaxLoads = 2
  MaxFaults = 1
  Requests = {1, 2}
  CacheModes = {"none", "contiguous", "paged"}
  ServedLoads = {1}
  PassLens = {1, 2}
  InitialCapacity = 0
  MinCapacity = 1
  MaxPasses = 3
  MaxTokens = 3
SPECIFICATION ForwardSpec
INVARIANTS HeapOwned LoadedWhole RefusedForCause ForwardComputes CachesHold
CHECK_DEADLOCK FALSE
