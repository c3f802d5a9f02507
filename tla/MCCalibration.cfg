SPECIFICATION MCSpec
CONSTANTS
  B = 7
  Moves <- MCMoves
  Jumps <- MCJumps
  W = 3
  PERIOD = 3
  Kappas <- MCKappas
  Abars <- MCAbars
  SIGMA = 1
  Z0 = 1
  MU = 1
  S0 = 20
  H = 4
  Steps <- MCSteps
  LogPotential <- Table
  K_CAP = 40
  N_STEPS = 5
  AU = 2
  TU = 1
  AD = 3
  TD = 2
  ZooJumps <- MCZooJumps
  TRIGGER = 2
  SLOPE = 2
  SurJumps <- MCSurJumps
  B_FULL = 5
  Increments <- MCIncrements
  Widths <- MCWidths
  Mix <- MCMix
  N_OPS = 3
  Sweeps <- MCSweeps
  TRAIL = 1
  KAPPA2 = 1
  MIN_EVENTS = 1
  FirstPrice = 12
  HalfWidth = 4
  PriceMoves <- MCPriceMoves
  PATH_STEPS = 3
  Policies <- MCPolicies
  Draws <- MCDraws
INVARIANTS MapOfEvents SolverSound LawExact InversionSound
PROPERTIES ScanAgrees RecentringsPriced
CHECK_DEADLOCK FALSE
