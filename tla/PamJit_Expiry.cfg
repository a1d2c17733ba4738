CONSTANTS
  e1 = e1  e2 = e2  p1 = p1  p2 = p2  x1 = x1  x2 = x2
  None = None
  Ent = {e1, e2}
  Place = {p1, p2}
  Handler = {x1, x2}
  MaxCalls = 2
  MaxFaults = 1
  Allow = {"crash", "down", "lost"}
SPECIFICATION FairSpec
INVARIANTS MembershipsAnsweredFor ActiveIsMember
PROPERTY OverdueIsRemoved
CHECK_DEADLOCK FALSE
