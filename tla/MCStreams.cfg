SPECIFICATION MCSpec
CONSTANTS
  ERA_LO = 1
  ERA_HI = 5
  Matching <- MCMatching
  CKPT_BLOCKS = 1
  MAX_FAILS = 2
  RETRIES = 2
  SilentDrop = TRUE
  PIN = 5
  CHUNK = 2
  SPAN = 5
  Chain <- MCChain
  HalfLines = TRUE
  MAX_CUTS = 2
INVARIANTS OutputsAgree ScanComplete ProbeFed
PROPERTIES RunEnds LetAlone
CHECK_DEADLOCK FALSE
