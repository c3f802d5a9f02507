SPECIFICATION FairSpec
CONSTANTS
  PIN = 5
  CHUNK = 2
  Spans <- OneSpan
  Chain <- MCChain
  HalfLines = TRUE
  MAX_CUTS = 2
PROPERTIES RerunResumes
CHECK_DEADLOCK FALSE
