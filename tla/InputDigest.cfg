SPECIFICATION Spec
CONSTANTS
  Blob = {"b1", "b2"}
  Commit = {"first", "second", "evidence"}
  Tree <- MCTree
  Meddler <- MCMeddler
CHECK_DEADLOCK FALSE
INVARIANTS StateWasClean RefusalIsEarned
