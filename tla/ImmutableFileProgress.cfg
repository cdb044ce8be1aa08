SPECIFICATION FairSpec
CONSTANTS
  Writer = {w1, w2}
  Name = {n1}
  None = None
  Dest <- OneName
  Threat = {"io", "cancel", "sweep"}
CHECK_DEADLOCK FALSE
PROPERTIES EveryCallEnds
