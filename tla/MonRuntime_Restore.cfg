CONSTANTS
  t1 = t1  t2 = t2  p1 = p1  p2 = p2  p3 = p3  p4 = p4
  None = None
  Thread = {t1}
  Pool = {p1, p2, p3, p4}
  MaxFaults = 2
  Allow = {}
SPECIFICATION FairSpec
INVARIANTS NoPoolWhileRestoring QuietWhileRestoring
PROPERTY FollowsRow
