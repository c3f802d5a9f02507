SPECIFICATION Spec
CONSTANTS
  ERA_LO = 1
  ERA_HI = 5
  Matching <- MCMatching
  CKPT_BLOCKS = 1
  MAX_FAILS = 2
  RETRIES = 2
  SilentDrop = FALSE
INVARIANTS TypeOK ExactlyOnce PublishedWholeEra
PROPERTIES CheckpointOnlyGrows ImplementsEra
CHECK_DEADLOCK FALSE
