CONSTANTS
  NumBlocks = 3
  PageSize = 2
  MaxPrompt = 4
  MaxNew = 4
SPECIFICATION Spec
INVARIANTS
  SameTokens
  NeverThrows
  AllReleased
