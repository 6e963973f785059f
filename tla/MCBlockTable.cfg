CONSTANTS
  NumBlocks = 4
  PageSize = 2
  MaxTokens = 5
  MaxLive = 3
SPECIFICATION Spec
INVARIANTS TypeOK BlockPartition IndexStack TablesBounded SlotsDisjoint
PROPERTIES MappingStable ImplementsPool
