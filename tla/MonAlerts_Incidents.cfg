CONSTANTS
  d1 = d1  d2 = d2  i1 = i1  i2 = i2  e1 = e1  e2 = e2
  None = None
  Device = {d1}
  Incident = {i1}
  Evaluation = {e1}
  Bad = {"down"}
  Interval = TRUE
  Wired = TRUE
  MaxFaults = 1
SPECIFICATION FairSpec
INVARIANT UpHasNoOutage
PROPERTIES DeadIsReported ClearIsRecovered
CHECK_DEADLOCK FALSE
