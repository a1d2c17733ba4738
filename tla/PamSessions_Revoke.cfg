CONSTANTS
  g1 = g1  s1 = s1  s2 = s2  s3 = s3  t1 = t1  t2 = t2  x1 = x1  x2 = x2  c1 = c1  c2 = c2
  None = None
  Grant = {g1}
  Session = {s1, s2, s3}
  Token = {t1, t2}
  Handler = {x1, x2}
  Conn = {c1, c2}
  Limit = 1
  Allow = {"reconnect", "expiry", "silent", "refuse", "admin"}
SPECIFICATION Spec
CONSTRAINT OneAdmin
VIEW Essence
SYMMETRY Identities
INVARIANTS SingleUse ActiveWasCheckedOut DeadGrantUnused OverrunIsBounded
PROPERTY TerminatedIsFinal ActiveIsServed
CHECK_DEADLOCK FALSE
