SPECIFICATION MCSpec
CONSTANTS
  B = 7
  Moves <- MCMoves
  Jumps <- MCJumps
  W = 3
  PEN = 0
  DWELL = 2
  PERIOD = 3
  BERN = FALSE
  COX <- NoCox
  Grid <- MCGrid
  Half <- MCHalf
  Trades <- MCTrades
  BD = 3
  ABAR = 10
  CUT = 3
  MIN_N = 1
  LIMIT <- MCLimit
  SLACK <- MCSlack
  Cells <- MCCells
  Pools <- MCPools
  Streams <- MCStreams
  Rows <- MCRows
  MAX_ROWS = 3
  PHI_UNIT = 4
  LOOKBACK = 5
  MIN_SAMPLES = 2
  Trails <- MCTrails
  TRAIL_1D = 3
  DELAY_MAX = 2
  DelayBins = {1, 2}
  SCALE_CUT = 1
  FAST_MAX = 1
  SLOW_MIN = 2
  MIN_POOL_N = 2
  MIN_STRATUM_N = 1
  MIN_HALF_N = 1
  MID = 6
  MIN_PAIRED = 1
INVARIANTS WholeExcursions LabelsCrossing NoMissedFiring FilterRespected DelayBounded CoxSure DelayMeasured ScaleIsPrior SampleKept SweepAdmits
CHECK_DEADLOCK FALSE
