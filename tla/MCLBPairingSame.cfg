SPECIFICATION Spec
CONSTANTS
  NTX = 4
  Blocks <- MCBlocks
  WINDOW = 2
INVARIANTS SameBlockPairs
CHECK_DEADLOCK FALSE
