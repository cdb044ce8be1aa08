SPECIFICATION Spec
CONSTANTS
  Capacity = 2
  RefillEvery = 2
  Word = 4
  MaxDuration = 7
  Caller = {c1, c2}
  Limiter = {"fail-open", "per-node"}
  Tenant = {t1}
  Node = {n1}
  Amount = {1, 3}
  None = None
  MaxTime = 2
SYMMETRY Symmetry
INVARIANTS TypeOK BudgetIsKept NoTimeRollback AnswerMatchesTokens LocalCancelSpendsNothing
PROPERTIES OutageIsQuiet
