SPECIFICATION Spec
CONSTANTS
  Run = {r1, r2, r3}
  Cells = 2
  None = None
  World <- Either
  MaxSource = 1
SYMMETRY Symmetry
CHECK_DEADLOCK FALSE
INVARIANTS TypeOK ManifestIsBacked ManifestNamesItsSource RetryIsGreen
PROPERTIES LedgerSpec
