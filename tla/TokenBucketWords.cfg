SPECIFICATION Spec
CONSTANTS
  Capacity = 6
  RefillEvery = 3
  Epoch = 1
  Word = 8
  MaxDuration = 11
  MaxTime = 18
  MaxAmount = 7
  Moment <- Moments
  Amount <- Amounts
INVARIANTS TypeOK WindowIsBounded AnchorOnGrid RetryIsExact
PROPERTIES MeterSpec
