SPECIFICATION Spec
CONSTANTS
  Capacity = 2
  RefillEvery = 2
  Word = 4
  MaxDuration = 7
  Caller = {c1}
  Limiter = {"fail-closed"}
  Tenant = {t1}
  Node = {n1}
  Amount = {1}
  None = None
  MaxTime = 1
SYMMETRY Symmetry
INVARIANTS CancelSpendsNothing
