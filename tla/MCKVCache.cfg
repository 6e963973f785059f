CONSTANTS
  NumLayers = 3
  InitialCapacity = 0
  MinCapacity = 1
  PassLens = {1, 2, 3}
  MaxPasses = 5
  MaxTokens = 5
SPECIFICATION CacheSpec
INVARIANTS RowsHold PassKept CapacityAgrees
