CONSTANTS
  n1 = n1  n2 = n2  j1 = j1  j2 = j2  j3 = j3  x1 = x1  x2 = x2  x3 = x3
  d1 = d1  d2 = d2  s1 = s1  g1 = g1  g2 = g2  c1 = c1  c2 = c2  None = None
  Node = {n1, n2}
  Job = {j1, j2}
  Exec = {x1, x2}
  Device = {d1}
  Single = {}
  Group = {g1}
  NodeGroup <- OneGroup
  MaxAttempts = 1
  Concurrency = 1
  AttemptCap = 2
  BucketCap = 0
  Closure = {c1}
  Faults = {"crash", "pause"}
SPECIFICATION FairSpec
PROPERTIES ClaimsEnd DuePolled PauseDrains
