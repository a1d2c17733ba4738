CONSTANTS
  n1 = n1  n2 = n2  j1 = j1  j2 = j2  j3 = j3  x1 = x1  x2 = x2  x3 = x3
  d1 = d1  d2 = d2  s1 = s1  g1 = g1  g2 = g2  c1 = c1  c2 = c2  None = None
  Node = {n1}
  Job = {j1, j2}
  Exec = {x1, x2}
  Device = {d1}
  Single = {s1}
  Group = {g1, g2}
  NodeGroup <- OneGroup
  MaxAttempts = 2
  Concurrency = 1
  AttemptCap = 3
  BucketCap = 1
  Closure = {c1, c2}
  Faults = {"restart", "replay", "pollnow", "regroup"}
SPECIFICATION Spec
SYMMETRY Identities
CHECK_DEADLOCK FALSE
INVARIANT NoDoubleRun
