CONSTANTS
  r1 = r1  a1 = a1  ann = ann  bob = bob  eve = eve
  x1 = x1  x2 = x2  g1 = g1  g2 = g2  None = None
  Request = {r1}
  Account = {a1}
  Person = {ann, bob, eve}
  Handler = {x1, x2}
  Grant = {g1, g2}
  Level = {1, 2}
  MaxQuorum = 3
  Policy <- Edited
  Requester <- OneRequester
  Covers <- OneAccount
  Eligible <- Anyone
  Allow = {"reject", "cancel", "ticket", "breakglass", "edit",
           "double", "crash"}
SPECIFICATION Spec
SYMMETRY Identities
VIEW Essence
INVARIANTS GrantNeedsQuorum LevelsInOrder RepeatsAreBounded
PROPERTY ApprovedIsGranted
CHECK_DEADLOCK FALSE
