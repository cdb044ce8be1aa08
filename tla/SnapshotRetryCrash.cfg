SPECIFICATION Spec
CONSTANTS
  Run = {r1, r2}
  Cells = 1
  None = None
  World <- Stopping
  MaxSource = 0
CHECK_DEADLOCK FALSE
INVARIANTS RetryIsGreen
