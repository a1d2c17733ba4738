CONSTANTS
  r1 = r1  a1 = a1  ann = ann  bob = bob  eve = eve  None = None
  Request = {r1}
  Account = {a1}
  Person = {ann, bob, eve}
  Level = {1}
  MaxQuorum = 2
  Policy <- Written
  Requester <- OneRequester
  Covers <- OneAccount
  Eligible <- Anyone
  ApprovalHandler = {x1, x2}
  ApprovalAllow = {"reject", "cancel", "breakglass"}
  Grant = {g1, g2}
  Session = {s1}
  Token = {t1}
  Conn = {c1}
  SessionHandler = {y1}
  Limit = 1
  SessionAllow = {"admin", "refuse"}
SPECIFICATION FairSpec
INVARIANT AccessIsDecided
PROPERTIES SlotsDecide DeadGrantDrains
CHECK_DEADLOCK FALSE
