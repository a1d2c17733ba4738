CONSTANTS
  j1 = j1  j2 = j2  w1 = w1  w2 = w2  r1 = r1  q1 = q1  q2 = q2
  None = None
  Job = {j1, j2}
  Worker = {w1, w2}
  Runner = {r1}
  Request = {q1}
  MaxAttempts = 2
  MaxFaults = 1
  Faults = {"crash", "dberror", "lost", "net"}
  Logon = FALSE
SPECIFICATION FairSpec
INVARIANTS ManagedMatches NoDoubleExecution SucceededIsSealed AttemptsBounded
PROPERTIES SealsWhatTargetAccepts TerminalIsFinal ImplementsQueue JobsEnd
CHECK_DEADLOCK FALSE
