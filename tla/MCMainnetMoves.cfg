SPECIFICATION MCSpec
CONSTANTS
  Operators = {"a", "b"}
  Groups <- MCGroups
  GAP = 2
  MAX_GROUPS = 4
  BUCKET_BLOCKS = 2
  SIGMA_OBS = 2
  MAX_GAP = 1
  FIRING_BAR = 2
  MIN_SPAN = 1
  RHO_LO = 1
  RHO_HI = 22
  CONSERVE = 5
  CONSERVE_SHARE = 95
  Pools = {"A", "B"}
  Owners = {5, 7}
  NFPM = 9
  LOOKBACK = 1
  BlockLogs <- MCBlocks
  MAX_BLOCK = 5
  Burned <- MCBurned
  Swapped <- MCSwapped
  Marks = {1, 2}
  Fractions = {0}
  TOL = 1
  MIN_EVENTS = 2
  N_ROWS = 2
INVARIANTS MovesAreOfBlocks
CHECK_DEADLOCK FALSE
