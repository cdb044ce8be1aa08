SPECIFICATION CellSpec
CONSTANTS
  Event <- AnyEvent
  MaxEvents = 3
  MaxAsserts = 2
  Deadline = 1
  Metric = {m1}
  Unit = {"count", "second"}
  Delta <- Values
  MaxInt = 1
  None = None
  Measured <- Counts
  Threat = {"cancel", "leak", "scribble"}
CHECK_DEADLOCK FALSE
INVARIANTS CellTypeOK ExecutedInOrder MetricsAreExact PassedIsEarned RecordIsJudged
PROPERTIES CancelEndsTheRun
