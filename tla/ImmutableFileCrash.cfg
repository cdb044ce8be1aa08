SPECIFICATION Spec
CONSTANTS
  Writer = {w1, w2}
  Name = {n1}
  None = None
  Dest <- OneName
  Threat = {"io", "cancel", "swap", "sweep", "crash"}
SYMMETRY Symmetry
CHECK_DEADLOCK FALSE
INVARIANTS TypeOK SuccessIsDurable NeverPartial ResidueIsReported ConflictIsClean
PROPERTIES ResultIsTruthful RegisterSpec
