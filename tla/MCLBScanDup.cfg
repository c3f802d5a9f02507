SPECIFICATION Spec
CONSTANTS
  PIN = 5
  CHUNK = 2
  Spans <- OneSpan
  Chain <- MCChain
  HalfLines = FALSE
  MAX_CUTS = 2
INVARIANTS TrailingRowsDropped
CHECK_DEADLOCK FALSE
