SPECIFICATION Spec
CONSTANTS
  Burned = {2}
  Swapped <- NoSwap
  Marks = {1}
  Fractions = {0, 1, 3}
  TOL = 1
  MIN_EVENTS = 3
  N_ROWS = 3
INVARIANTS CorrectionIsPerEvent
CHECK_DEADLOCK FALSE
