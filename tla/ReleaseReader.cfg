SPECIFICATION Spec
CONSTANTS
  Threat = {"io", "replace", "rewrite"}
  MaxDeeds = 2
CHECK_DEADLOCK FALSE
INVARIANTS VerdictIsEarned AnswerIsCurrent
