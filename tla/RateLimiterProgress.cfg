SPECIFICATION FairSpec
CONSTANTS
  Capacity = 1
  RefillEvery = 2
  Word = 4
  MaxDuration = 7
  Caller = {c1, c2}
  Limiter = {"fail-closed"}
  Tenant = {t1}
  Node = {n1}
  Amount = {0, 1}
  None = None
  MaxTime = 1
PROPERTIES EveryCallReturns SwitchGoesThrough
