------------------------- MODULE PamApprovals_proofs -------------------------
(***************************************************************************)
(* Proofs about the approval of access requests, for every number of       *)
(* requests, people, accounts, levels and handlers in flight, and every    *)
(* set of policies: what a grant stands on, in which order the levels are  *)
(* approved, by whom, and how often by one person.                         *)
(***************************************************************************)
EXTENDS PamApprovals, FiniteSetTheorems, TLAPS

-----------------------------------------------------------------------------
(* Types *)

LEMMA NewSlotsType ==
  ASSUME NEW p \in Policies
  PROVE  NewSlots(p) \in [SlotId -> Slot]
BY DEF NewSlots, Slot, Decision

LEMMA InFlight ==
  ASSUME TypeOK, NEW x \in Handler, h[x] # None
  PROVE  /\ h[x] \in Flight
         /\ h[x].req \in Request /\ h[x].who \in Person /\ h[x].pc \in PC
         /\ h[x].level \in Level /\ h[x].slot \in SlotId
         /\ h[x].policy \in Policies /\ h[x].todo \in SUBSET Account
BY DEF TypeOK, Flight

LEMMA BeginType ==
  ASSUME TypeOK, NEW x \in Handler, NEW pc \in PC, NEW r \in Request,
         NEW who \in Person, Begin(x, pc, r, who)
  PROVE  h' \in [Handler -> Flight \cup {None}]
<1>1. 1 \in Level /\ <<1, 1>> \in SlotId
  BY ApprovalsAssumption DEF SlotId, Index
<1> QED BY <1>1 DEF Begin, TypeOK, Flight

LEMMA GotoType ==
  ASSUME TypeOK, NEW x \in Handler, h[x] # None, NEW pc \in PC,
         Goto(x, pc) \/ End(x)
  PROVE  h' \in [Handler -> Flight \cup {None}]
<1>1. CASE Goto(x, pc)
  <2>1. [h[x] EXCEPT !.pc = pc] \in Flight
    BY InFlight DEF Flight
  <2>2. h' = [h EXCEPT ![x] = [h[x] EXCEPT !.pc = pc]]
    BY <1>1 DEF Goto, TypeOK
  <2> QED BY <2>1, <2>2 DEF TypeOK
<1>2. CASE End(x)
  BY <1>2 DEF End, TypeOK
<1> QED BY <1>1, <1>2

(* Every reachable state is well typed, whatever operations are allowed.    *)
THEOREM TypeCorrect == Spec => []TypeOK
<1>1. Init => TypeOK
  BY ApprovalsAssumption
  DEF Init, TypeOK, NoSlots, Slot, Decision, Status
<1>2. TypeOK /\ [Next]_vars => TypeOK'
  <2> SUFFICES ASSUME TypeOK, [Next]_vars PROVE TypeOK'
    OBVIOUS
  <2> USE DEF In
  <2>1. ASSUME NEW x \in Handler, NEW r \in Request, CreateRequest(x, r)
        PROVE  TypeOK'
    <3>1. Requester[r] \in Person /\ "insert" \in PC
      BY ApprovalsAssumption DEF PC
    <3> QED BY <2>1, <3>1, BeginType DEF CreateRequest, TypeOK
  <2>2. ASSUME NEW x \in Handler, InsertRequest(x) PROVE TypeOK'
    <3>1. h[x] # None /\ h[x].req \in Request /\ h[x].policy \in Policies
      BY <2>2, InFlight DEF InsertRequest
    <3>2. h' \in [Handler -> Flight \cup {None}]
      <4>1. "ticket" \in PC /\ "evaluate" \in PC
        BY DEF PC
      <4> QED BY <2>2, <3>1, <4>1, GotoType DEF InsertRequest
    <3>3. slot' \in [Request -> [SlotId -> Slot]] /\ req' \in [Request -> Status]
      BY <2>2, <3>1, NewSlotsType DEF InsertRequest, TypeOK, Status
    <3> QED BY <2>2, <3>2, <3>3 DEF InsertRequest, TypeOK
  <2>3. ASSUME NEW x \in Handler, TicketValid(x) PROVE TypeOK'
    <3>1. "evaluate" \in PC
      BY DEF PC
    <3>2. h' \in [Handler -> Flight \cup {None}]
      BY <2>3, <3>1, GotoType DEF TicketValid
    <3> QED BY <2>3, <3>2 DEF TicketValid, TypeOK
  <2>4. ASSUME NEW x \in Handler, TicketInvalid(x) PROVE TypeOK'
    <3>1. h[x].req \in Request
      BY <2>4, InFlight DEF TicketInvalid
    <3> QED BY <2>4, <3>1 DEF TicketInvalid, End, TypeOK, Status
  <2>5. ASSUME NEW x \in Handler, NEW r \in Request, NEW who \in Person,
               Approve(x, r, who)
        PROVE  TypeOK'
    <3>1. "policy" \in PC
      BY DEF PC
    <3> QED BY <2>5, <3>1, BeginType DEF Approve, TypeOK
  <2>6. ASSUME NEW x \in Handler, ReadPolicy(x) PROVE TypeOK'
    <3>1. [h[x] EXCEPT !.pc = "level", !.policy = policy] \in Flight
      BY <2>6, InFlight DEF ReadPolicy, Flight, PC, TypeOK
    <3>2. \/ End(x)
          \/ h' = [h EXCEPT ![x] = [h[x] EXCEPT !.pc = "level", !.policy = policy]]
      BY <2>6 DEF ReadPolicy, TypeOK
    <3>3. h' \in [Handler -> Flight \cup {None}]
      BY <3>1, <3>2 DEF End, TypeOK
    <3> QED BY <2>6, <3>3 DEF ReadPolicy, TypeOK
  <2>7. ASSUME NEW x \in Handler, ReadLevel(x) PROVE TypeOK'
    <3>1. \A l \in Level : [h[x] EXCEPT !.pc = "distinct", !.level = l] \in Flight
      BY <2>7, InFlight DEF ReadLevel, Flight, PC
    <3>2. \/ End(x)
          \/ \E l \in Level :
               h' = [h EXCEPT ![x] = [h[x] EXCEPT !.pc = "distinct", !.level = l]]
      BY <2>7 DEF ReadLevel, TypeOK
    <3>3. h' \in [Handler -> Flight \cup {None}]
      BY <3>1, <3>2 DEF End, TypeOK
    <3> QED BY <2>7, <3>3 DEF ReadLevel, TypeOK
  <2>8. ASSUME NEW x \in Handler, CheckDistinct(x) PROVE TypeOK'
    <3>1. "pick" \in PC
      BY DEF PC
    <3>2. h' \in [Handler -> Flight \cup {None}]
      BY <2>8, <3>1, GotoType DEF CheckDistinct
    <3> QED BY <2>8, <3>2 DEF CheckDistinct, TypeOK
  <2>9. ASSUME NEW x \in Handler, PickSlot(x) PROVE TypeOK'
    <3>1. \A i \in Index :
            [h[x] EXCEPT !.pc = "fill", !.slot = <<h[x].level, i>>] \in Flight
      BY <2>9, InFlight DEF PickSlot, Flight, PC, SlotId
    <3>2. \/ End(x)
          \/ \E i \in Index :
               h' = [h EXCEPT ![x] = [h[x] EXCEPT !.pc = "fill",
                                                  !.slot = <<h[x].level, i>>]]
      BY <2>9 DEF PickSlot, TypeOK, At
    <3>3. h' \in [Handler -> Flight \cup {None}]
      BY <3>1, <3>2 DEF End, TypeOK
    <3> QED BY <2>9, <3>3 DEF PickSlot, TypeOK
  <2>10. ASSUME NEW x \in Handler, FillSlot(x) PROVE TypeOK'
    <3>1. "evaluate" \in PC
      BY DEF PC
    <3>2. h' \in [Handler -> Flight \cup {None}]
      BY <2>10, <3>1, GotoType DEF FillSlot
    <3>3. [decision |-> "approved", by |-> h[x].who] \in Slot
      BY <2>10, InFlight DEF FillSlot, Slot, Decision
    <3>4. slot' \in [Request -> [SlotId -> Slot]]
      BY <2>10, <3>3, InFlight DEF FillSlot, TypeOK
    <3> QED BY <2>10, <3>2, <3>4 DEF FillSlot, TypeOK
  <2>11. ASSUME NEW x \in Handler, Evaluate(x) PROVE TypeOK'
    <3>1. "mark" \in PC
      BY DEF PC
    <3>2. h' \in [Handler -> Flight \cup {None}]
      BY <2>11, <3>1, GotoType DEF Evaluate
    <3> QED BY <2>11, <3>2 DEF Evaluate, TypeOK
  <2>12. ASSUME NEW x \in Handler, MarkApproved(x) PROVE TypeOK'
    <3>1. h[x].req \in Request /\ Covers[h[x].req] \in SUBSET Account
      BY <2>12, InFlight, ApprovalsAssumption DEF MarkApproved
    <3>2. [h[x] EXCEPT !.pc = "grant", !.todo = Covers[h[x].req]] \in Flight
      BY <2>12, <3>1, InFlight DEF MarkApproved, Flight, PC
    <3>3. h' = [h EXCEPT ![x] = [h[x] EXCEPT !.pc = "grant",
                                             !.todo = Covers[h[x].req]]]
      BY <2>12 DEF MarkApproved, TypeOK
    <3> QED BY <2>12, <3>1, <3>2, <3>3 DEF MarkApproved, TypeOK, Status
  <2>13. ASSUME NEW x \in Handler, NEW a \in Account, IssueGrant(x, a)
         PROVE  TypeOK'
    <3>1. [h[x] EXCEPT !.todo = h[x].todo \ {a}] \in Flight
      BY <2>13, InFlight DEF IssueGrant, Flight
    <3>2. \/ End(x)
          \/ h' = [h EXCEPT ![x] = [h[x] EXCEPT !.todo = h[x].todo \ {a}]]
      BY <2>13 DEF IssueGrant, TypeOK
    <3>3. h' \in [Handler -> Flight \cup {None}]
      BY <3>1, <3>2 DEF End, TypeOK
    <3>4. [request |-> h[x].req, account |-> a, policy |-> h[x].policy] \in Granted
      BY <2>13, InFlight DEF IssueGrant, Granted
    <3>5. grants' \in [Grant -> Granted \cup {None}]
      BY <2>13, <3>4 DEF IssueGrant, TypeOK
    <3> QED BY <2>13, <3>3, <3>5 DEF IssueGrant, TypeOK
  <2>14. ASSUME NEW x \in Handler, NEW r \in Request, NEW who \in Person,
                Reject(x, r, who)
         PROVE  TypeOK'
    <3>1. "rejectSlots" \in PC
      BY DEF PC
    <3> QED BY <2>14, <3>1, BeginType DEF Reject, TypeOK
  <2>15. ASSUME NEW x \in Handler, RejectSlots(x) PROVE TypeOK'
    <3>1. "rejectMark" \in PC
      BY DEF PC
    <3>2. h' \in [Handler -> Flight \cup {None}]
      BY <2>15, <3>1, GotoType DEF RejectSlots
    <3>3. [decision |-> "rejected", by |-> h[x].who] \in Slot /\ h[x].req \in Request
      BY <2>15, InFlight DEF RejectSlots, Slot, Decision
    <3>4. slot' \in [Request -> [SlotId -> Slot]]
      BY <2>15, <3>3 DEF RejectSlots, TypeOK
    <3> QED BY <2>15, <3>2, <3>4 DEF RejectSlots, TypeOK
  <2>16. ASSUME NEW x \in Handler, MarkRejected(x) PROVE TypeOK'
    <3>1. h[x].req \in Request
      BY <2>16, InFlight DEF MarkRejected
    <3> QED BY <2>16, <3>1 DEF MarkRejected, End, TypeOK, Status
  <2>17. ASSUME NEW x \in Handler, NEW r \in Request, Cancel(x, r) PROVE TypeOK'
    <3>1. Requester[r] \in Person /\ "cancelMark" \in PC
      BY ApprovalsAssumption DEF PC
    <3> QED BY <2>17, <3>1, BeginType DEF Cancel, TypeOK
  <2>18. ASSUME NEW x \in Handler, MarkCancelled(x) PROVE TypeOK'
    <3>1. h[x].req \in Request
      BY <2>18, InFlight DEF MarkCancelled
    <3> QED BY <2>18, <3>1 DEF MarkCancelled, End, TypeOK, Status
  <2>19. ASSUME NEW r \in Request, NEW a \in Account, BreakGlass(r, a)
         PROVE  TypeOK'
    <3>1. [request |-> r, account |-> a, policy |-> None] \in Granted
      BY DEF Granted
    <3> QED BY <2>19, <3>1 DEF BreakGlass, TypeOK, Status
  <2>20. ASSUME Administer PROVE TypeOK'
    <3>1. ASSUME NEW p \in Policy, EditPolicy(p) PROVE TypeOK'
      <4>1. p \in Policies
        BY ApprovalsAssumption
      <4> QED BY <3>1, <4>1 DEF EditPolicy, TypeOK, Policies
    <3>2. CASE DeleteRules
      <4>1. NoRules \in Rules
        BY ApprovalsAssumption DEF NoRules, Rules
      <4> QED BY <3>2, <4>1 DEF DeleteRules, TypeOK, Policies
    <3>3. ASSUME NEW l \in Level, InsertRule(l) PROVE TypeOK'
      <4>1. /\ edit \in [pc : {"delete", "insert"}, rules : Rules]
            /\ policy \in Policies
        BY <3>3 DEF InsertRule, TypeOK
      <4>2. [policy.rules EXCEPT ![l] = edit.rules[l]] \in Rules
        BY <4>1 DEF Rules, Policies
      <4>3. policy' \in Policies
        BY <3>3, <4>1, <4>2 DEF InsertRule, Policies
      <4>4. [edit.rules EXCEPT ![l] = 0] \in Rules
        BY <4>1, ApprovalsAssumption DEF Rules
      <4>5. edit' = None \/ edit' \in [pc : {"delete", "insert"}, rules : Rules]
        BY <3>3, <4>1, <4>4 DEF InsertRule
      <4> QED BY <3>3, <4>3, <4>5 DEF InsertRule, TypeOK
    <3> QED BY <2>20, <3>1, <3>2, <3>3 DEF Administer
  <2>21. ASSUME NEW x \in Handler, Abort(x) PROVE TypeOK'
    BY <2>21 DEF Abort, End, TypeOK
  <2>22. CASE UNCHANGED vars
    BY <2>22 DEF vars, TypeOK
  <2> QED
    BY <2>1, <2>2, <2>3, <2>4, <2>5, <2>6, <2>7, <2>8, <2>9, <2>10, <2>11,
       <2>12, <2>13, <2>14, <2>15, <2>16, <2>17, <2>18, <2>19, <2>20, <2>21, <2>22
    DEF Next, Step, CreateStep, ApproveStep, FinalizeStep, DecideStep, Arrive
<1> QED BY <1>1, <1>2, PTL DEF Spec

-----------------------------------------------------------------------------
(* Slots only move forward *)

(* t is a later state of the slots s: no slot appears or goes, an approved
   one stays approved, and none becomes pending again. *)
Later(s, t) ==
  \A i \in SlotId :
    /\ s[i].decision = "none" <=> t[i].decision = "none"
    /\ s[i].decision = "approved" => t[i].decision = "approved"
    /\ t[i].decision = "pending" => s[i].decision = "pending"

LEMMA LaterSets ==
  ASSUME NEW s, NEW t, Later(s, t), NEW l \in Level
  PROVE  /\ Slots(t, l) = Slots(s, l)
         /\ At(s, l, "approved") \subseteq At(t, l, "approved")
         /\ At(t, l, "pending") \subseteq At(s, l, "pending")
<1>1. \A i \in Index : <<l, i>> \in SlotId
  BY DEF SlotId
<1> QED BY <1>1 DEF Later, Slots, At

(* What a level needs, it needs for good, and what it has it keeps. *)
LEMMA QuorumKeeps ==
  ASSUME NEW s, NEW t, NEW p \in Policies, Later(s, t), QuorumMet(p, s)
  PROVE  QuorumMet(p, t)
<1> SUFFICES ASSUME NEW l \in Level, Slots(t, l) # {}
             PROVE  Cardinality(At(t, l, "approved")) >= Needed(p, t, l)
  BY DEF QuorumMet
<1>1. Slots(t, l) = Slots(s, l) /\ At(s, l, "approved") \subseteq At(t, l, "approved")
  BY LaterSets
<1>2. Needed(p, t, l) = Needed(p, s, l)
  BY <1>1 DEF Needed
<1>3. Cardinality(At(s, l, "approved")) >= Needed(p, s, l)
  BY <1>1 DEF QuorumMet
<1>4. IsFiniteSet(Index) /\ At(t, l, "approved") \subseteq Index /\ Slots(s, l) \subseteq Index
  BY FS_Interval, ApprovalsAssumption DEF Index, At, Slots
<1>5. /\ IsFiniteSet(At(t, l, "approved"))
      /\ Cardinality(At(s, l, "approved")) <= Cardinality(At(t, l, "approved"))
  BY <1>1, <1>4, FS_Subset
<1>6. /\ Cardinality(At(s, l, "approved")) \in Nat
      /\ Cardinality(At(t, l, "approved")) \in Nat
      /\ Cardinality(Slots(s, l)) \in Nat
  BY <1>1, <1>4, <1>5, FS_Subset, FS_CardinalityType
<1>7. Needed(p, s, l) \in Nat
  <2>1. Quorum(p) \in [Level -> Nat]
    BY ApprovalsAssumption DEF Quorum, Policies, Rules
  <2> QED BY <2>1, <1>6 DEF Needed
<1> QED BY <1>2, <1>3, <1>5, <1>6, <1>7

LEMMA FillIsLater ==
  ASSUME TypeOK, NEW x \in Handler, FillSlot(x),
         slot[h[x].req][h[x].slot].decision # "none", NEW r \in Request
  PROVE  Later(slot[r], slot'[r])
<1>1. h[x].req \in Request /\ h[x].slot \in SlotId
  BY InFlight DEF FillSlot, In
<1>2. \A i \in SlotId :
        slot'[r][i] = IF r = h[x].req /\ i = h[x].slot
                      THEN [decision |-> "approved", by |-> h[x].who]
                      ELSE slot[r][i]
  BY <1>1 DEF FillSlot, TypeOK
<1> QED BY <1>2 DEF Later

LEMMA RejectIsLater ==
  ASSUME TypeOK, NEW x \in Handler, RejectSlots(x), NEW r \in Request
  PROVE  Later(slot[r], slot'[r])
<1>1. h[x].req \in Request
  BY InFlight DEF RejectSlots, In
<1>2. \A i \in SlotId :
        slot'[r][i] = IF r = h[x].req /\ slot[r][i].decision = "pending"
                      THEN [decision |-> "rejected", by |-> h[x].who]
                      ELSE slot[r][i]
  BY <1>1 DEF RejectSlots, TypeOK
<1> QED BY <1>2 DEF Later

-----------------------------------------------------------------------------
(* The inductive invariant *)

Stands(p, slots) == p.type = "none" \/ QuorumMet(p, slots)

(* Nobody works on a request that does not exist yet, but the one handler
   that is about to insert it. *)
Insertion ==
  /\ \A x \in Handler : In(x, "insert") => req[h[x].req] = "none"
  /\ \A x, y \in Handler :
       In(x, "insert") /\ In(y, "insert") /\ h[x].req = h[y].req => x = y
  /\ \A x \in Handler : h[x] # None /\ h[x].pc # "insert" => req[h[x].req] # "none"
  /\ \A g \in Grant : grants[g] # None => req[grants[g].request] # "none"

(* A handler past the evaluation, and a grant, stand on a quorum. *)
Standing ==
  /\ \A x \in Handler : In(x, "fill") => slot[h[x].req][h[x].slot].decision # "none"
  /\ \A x \in Handler : In(x, "mark") \/ In(x, "grant") =>
                          Stands(h[x].policy, slot[h[x].req])
  /\ \A g \in Grant : grants[g] # None /\ grants[g].policy # None =>
                        Stands(grants[g].policy, slot[grants[g].request])

(* The level a handler approves was the lowest pending one, and still is
   above every pending one. *)
Ordering ==
  /\ \A x \in Handler :
       h[x] # None /\ h[x].pc \in {"distinct", "pick", "fill"} =>
         \A m \in Level : m < h[x].level => At(slot[h[x].req], m, "pending") = {}
  /\ \A x \in Handler : In(x, "fill") => h[x].slot[1] = h[x].level
  /\ LevelsInOrder

LEMMA StandsKeeps ==
  ASSUME NEW s, NEW t, NEW p \in Policies, Later(s, t), Stands(p, s)
  PROVE  Stands(p, t)
BY QuorumKeeps DEF Stands

LEMMA LaterSame ==
  ASSUME NEW s
  PROVE  Later(s, s)
BY DEF Later

(* A handler in flight moves on: it may change the status of its request and
   bring slots forward; it stays outside the insertion. *)
Moves(x) ==
  /\ h[x] # None /\ h[x].pc # "insert"
  /\ \/ h' = [h EXCEPT ![x] = None]
     \/ \E f \in Flight :
          /\ h' = [h EXCEPT ![x] = f]
          /\ f.req = h[x].req /\ f.pc # "insert"
          /\ f.pc = "fill" => slot'[f.req][f.slot].decision # "none"
          /\ f.pc \in {"mark", "grant"} => Stands(f.policy, slot'[f.req])
  /\ \/ req' = req
     \/ \E s \in Status \ {"none"} : req' = [req EXCEPT ![h[x].req] = s]
  /\ slot' \in [Request -> [SlotId -> Slot]]
  /\ \A r \in Request : Later(slot[r], slot'[r])
  /\ \A g \in Grant : grants'[g] # None /\ grants'[g] # grants[g] =>
       /\ grants'[g].request = h[x].req
       /\ In(x, "grant") /\ grants'[g].policy = h[x].policy

LEMMA MovesInsertion ==
  ASSUME TypeOK, Insertion, NEW x \in Handler, Moves(x)
  PROVE  Insertion'
<1>1. h[x].req \in Request /\ req[h[x].req] # "none"
  BY InFlight DEF Moves, Insertion
<1>2. \A r \in Request : /\ req[r] # "none" => req'[r] # "none"
                         /\ r # h[x].req => req'[r] = req[r]
  BY <1>1 DEF Moves, TypeOK
<1>3. \A y \in Handler : y # x => h'[y] = h[y]
  BY DEF Moves, TypeOK
<1>4. h'[x] = None \/ (h'[x].pc # "insert" /\ h'[x].req = h[x].req)
  BY DEF Moves, TypeOK
<1>5. \A y \in Handler : h[y] # None => h[y].req \in Request
  BY InFlight
<1>6. \A y \in Handler : In(y, "insert")' => y # x /\ In(y, "insert") /\ h'[y] = h[y]
  BY <1>3, <1>4 DEF In
<1>7. \A y \in Handler : In(y, "insert") => h[y].req # h[x].req
  BY <1>1 DEF Insertion
<1>8. \A y \in Handler : In(y, "insert")' => req'[h'[y].req] = "none"
  BY <1>2, <1>5, <1>6, <1>7 DEF Insertion, In
<1>9. \A y, z \in Handler :
        In(y, "insert")' /\ In(z, "insert")' /\ h'[y].req = h'[z].req => y = z
  BY <1>6 DEF Insertion
<1>10. \A y \in Handler : h'[y] # None /\ h'[y].pc # "insert" => req'[h'[y].req] # "none"
  BY <1>1, <1>2, <1>3, <1>4, <1>5 DEF Insertion
<1>11. \A g \in Grant : grants'[g] # None => req'[grants'[g].request] # "none"
  <2>1. \A g \in Grant : grants[g] # None => grants[g].request \in Request
    BY DEF TypeOK, Granted
  <2> QED BY <1>1, <1>2, <2>1 DEF Moves, Insertion
<1> QED BY <1>8, <1>9, <1>10, <1>11 DEF Insertion

LEMMA MovesStanding ==
  ASSUME TypeOK, Standing, NEW x \in Handler, Moves(x)
  PROVE  Standing'
<1>1. h[x].req \in Request /\ h[x].policy \in Policies
  BY InFlight DEF Moves
<1>2. \A y \in Handler : y # x => h'[y] = h[y]
  BY DEF Moves, TypeOK
<1>3. \A y \in Handler : h[y] # None => /\ h[y].req \in Request
                                        /\ h[y].policy \in Policies
                                        /\ h[y].slot \in SlotId
  BY InFlight
<1>4. \A y \in Handler : In(y, "fill")' => slot'[h'[y].req][h'[y].slot].decision # "none"
  <2> SUFFICES ASSUME NEW y \in Handler, In(y, "fill")'
               PROVE  slot'[h'[y].req][h'[y].slot].decision # "none"
    OBVIOUS
  <2>1. CASE y = x
    BY <2>1 DEF Moves, In, TypeOK
  <2>2. CASE y # x
    <3>1. In(y, "fill") /\ h'[y] = h[y]
      BY <2>2, <1>2 DEF In
    <3>2. slot[h[y].req][h[y].slot].decision # "none" /\ Later(slot[h[y].req], slot'[h[y].req])
      BY <3>1, <1>3 DEF Standing, Moves, In
    <3> QED BY <3>1, <3>2, <1>3 DEF Later, In
  <2> QED BY <2>1, <2>2
<1>5. \A y \in Handler : In(y, "mark")' \/ In(y, "grant")' =>
                           Stands(h'[y].policy, slot'[h'[y].req])
  <2> SUFFICES ASSUME NEW y \in Handler, In(y, "mark")' \/ In(y, "grant")'
               PROVE  Stands(h'[y].policy, slot'[h'[y].req])
    OBVIOUS
  <2>1. CASE y = x
    BY <2>1 DEF Moves, In, TypeOK
  <2>2. CASE y # x
    <3>1. (In(y, "mark") \/ In(y, "grant")) /\ h'[y] = h[y]
      BY <2>2, <1>2 DEF In
    <3>2. Stands(h[y].policy, slot[h[y].req]) /\ Later(slot[h[y].req], slot'[h[y].req])
      BY <3>1, <1>3 DEF Standing, Moves, In
    <3> QED BY <3>1, <3>2, <1>3, StandsKeeps DEF In
  <2> QED BY <2>1, <2>2
<1>6. \A g \in Grant : grants'[g] # None /\ grants'[g].policy # None =>
                         Stands(grants'[g].policy, slot'[grants'[g].request])
  <2> SUFFICES ASSUME NEW g \in Grant, grants'[g] # None, grants'[g].policy # None
               PROVE  Stands(grants'[g].policy, slot'[grants'[g].request])
    OBVIOUS
  <2>1. CASE grants'[g] = grants[g]
    <3>1. grants[g].request \in Request /\ grants[g].policy \in Policies
      BY <2>1 DEF TypeOK, Granted
    <3>2. /\ Stands(grants[g].policy, slot[grants[g].request])
          /\ Later(slot[grants[g].request], slot'[grants[g].request])
      BY <2>1, <3>1 DEF Standing, Moves
    <3> QED BY <2>1, <3>1, <3>2, StandsKeeps
  <2>2. CASE grants'[g] # grants[g]
    <3>1. Stands(h[x].policy, slot[h[x].req]) /\ Later(slot[h[x].req], slot'[h[x].req])
      BY <2>2, <1>1 DEF Standing, Moves
    <3> QED BY <2>2, <3>1, <1>1, StandsKeeps DEF Moves
  <2> QED BY <2>1, <2>2
<1> QED BY <1>4, <1>5, <1>6 DEF Standing

(* Every step of a served request, from the ticket to the last grant. *)
LEMMA StepMoves ==
  ASSUME TypeOK, TypeOK', Insertion, Standing, NEW x \in Handler,
         \/ TicketValid(x) \/ TicketInvalid(x) \/ ApproveStep(x)
         \/ FinalizeStep(x) \/ DecideStep(x)
  PROVE  Moves(x)
<1> USE DEF In
<1>1. h[x] # None => h[x] \in Flight /\ h[x].req \in Request /\ h[x].policy \in Policies
  BY InFlight
<1>2. \A r \in Request : Later(slot[r], slot[r])
  BY LaterSame
<1>3. slot' \in [Request -> [SlotId -> Slot]]
  BY DEF TypeOK
<1>4. CASE TicketValid(x)
  <2>1. [h[x] EXCEPT !.pc = "evaluate"] \in Flight
    BY <1>1, <1>4 DEF TicketValid, Flight, PC
  <2>2. h' = [h EXCEPT ![x] = None] \/ h' = [h EXCEPT ![x] = [h[x] EXCEPT !.pc = "evaluate"]]
    BY <1>4 DEF TicketValid, End, Goto, TypeOK
  <2> QED BY <1>1, <1>2, <1>3, <1>4, <2>1, <2>2 DEF Moves, TicketValid, Flight
<1>5. CASE TicketInvalid(x)
  BY <1>2, <1>3, <1>5 DEF Moves, TicketInvalid, End, Status
<1>6. CASE ReadPolicy(x)
  <2>1. [h[x] EXCEPT !.pc = "level", !.policy = policy] \in Flight
    BY <1>1, <1>6 DEF ReadPolicy, Flight, PC, TypeOK
  <2>2. \/ h' = [h EXCEPT ![x] = None]
        \/ h' = [h EXCEPT ![x] = [h[x] EXCEPT !.pc = "level", !.policy = policy]]
    BY <1>6 DEF ReadPolicy, End, TypeOK
  <2> QED BY <1>1, <1>2, <1>3, <1>6, <2>1, <2>2 DEF Moves, ReadPolicy, Flight
<1>7. CASE ReadLevel(x)
  <2>1. CASE End(x)
    BY <1>2, <1>3, <1>7, <2>1 DEF Moves, ReadLevel, End
  <2>2. ASSUME NEW l \in Level,
               h' = [h EXCEPT ![x].pc = "distinct", ![x].level = l]
        PROVE  Moves(x)
    <3> DEFINE f == [h[x] EXCEPT !.pc = "distinct", !.level = l]
    <3>1. f \in Flight /\ f.req = h[x].req /\ f.pc = "distinct"
      BY <1>1, <1>7 DEF ReadLevel, Flight, PC
    <3>2. h' = [h EXCEPT ![x] = f]
      BY <2>2, <1>7 DEF ReadLevel, TypeOK
    <3>3. slot' = slot /\ req' = req /\ grants' = grants /\ h[x] # None /\ h[x].pc = "level"
      BY <1>7 DEF ReadLevel
    <3> HIDE DEF f
    <3> QED BY <1>2, <1>3, <3>1, <3>2, <3>3 DEF Moves
  <2> QED BY <1>7, <2>1, <2>2 DEF ReadLevel
<1>8. CASE CheckDistinct(x)
  <2>1. [h[x] EXCEPT !.pc = "pick"] \in Flight
    BY <1>1, <1>8 DEF CheckDistinct, Flight, PC
  <2>2. h' = [h EXCEPT ![x] = None] \/ h' = [h EXCEPT ![x] = [h[x] EXCEPT !.pc = "pick"]]
    BY <1>8 DEF CheckDistinct, End, Goto, TypeOK
  <2> QED BY <1>1, <1>2, <1>3, <1>8, <2>1, <2>2 DEF Moves, CheckDistinct, Flight
<1>9. CASE PickSlot(x)
  <2>1. CASE End(x)
    BY <1>2, <1>3, <1>9, <2>1 DEF Moves, PickSlot, End
  <2>2. ASSUME NEW i \in At(slot[h[x].req], h[x].level, "pending"),
               h' = [h EXCEPT ![x].pc = "fill", ![x].slot = <<h[x].level, i>>]
        PROVE  Moves(x)
    <3> DEFINE f == [h[x] EXCEPT !.pc = "fill", !.slot = <<h[x].level, i>>]
    <3>1. i \in Index /\ slot[h[x].req][<<h[x].level, i>>].decision = "pending"
      BY DEF At
    <3>2. f \in Flight
      BY <1>1, <1>9, <3>1 DEF PickSlot, Flight, PC, SlotId
    <3>3. h' = [h EXCEPT ![x] = f]
      BY <2>2, <1>9 DEF PickSlot, TypeOK
    <3>4. f.req = h[x].req /\ f.pc = "fill" /\ f.slot = <<h[x].level, i>>
      BY <1>1, <1>9 DEF PickSlot, Flight
    <3>5. slot' = slot /\ req' = req /\ grants' = grants /\ h[x] # None /\ h[x].pc = "pick"
      BY <1>9 DEF PickSlot
    <3> HIDE DEF f
    <3> QED BY <1>2, <1>3, <3>1, <3>2, <3>3, <3>4, <3>5 DEF Moves
  <2> QED BY <1>9, <2>1, <2>2 DEF PickSlot
<1>10. CASE FillSlot(x)
  <2>1. [h[x] EXCEPT !.pc = "evaluate"] \in Flight
    BY <1>1, <1>10 DEF FillSlot, Flight, PC
  <2>2. h' = [h EXCEPT ![x] = [h[x] EXCEPT !.pc = "evaluate"]]
    BY <1>10 DEF FillSlot, Goto, TypeOK
  <2>3. \A r \in Request : Later(slot[r], slot'[r])
    BY <1>10, FillIsLater DEF FillSlot, Standing
  <2> QED BY <1>1, <1>3, <1>10, <2>1, <2>2, <2>3 DEF Moves, FillSlot, Flight
<1>11. CASE Evaluate(x)
  <2>1. [h[x] EXCEPT !.pc = "mark"] \in Flight
    BY <1>1, <1>11 DEF Evaluate, Flight, PC
  <2>2. \/ h' = [h EXCEPT ![x] = None]
        \/ /\ Satisfied(h[x].policy, slot[h[x].req])
           /\ h' = [h EXCEPT ![x] = [h[x] EXCEPT !.pc = "mark"]]
    BY <1>11 DEF Evaluate, End, Goto, TypeOK
  <2>3. Satisfied(h[x].policy, slot[h[x].req]) => Stands(h[x].policy, slot[h[x].req])
    BY DEF Satisfied, Stands
  <2> QED BY <1>1, <1>2, <1>3, <1>11, <2>1, <2>2, <2>3 DEF Moves, Evaluate, Flight
<1>12. CASE MarkApproved(x)
  <2>1. Covers[h[x].req] \in SUBSET Account
    BY <1>1, <1>12, ApprovalsAssumption DEF MarkApproved
  <2>2. [h[x] EXCEPT !.pc = "grant", !.todo = Covers[h[x].req]] \in Flight
    BY <1>1, <1>12, <2>1 DEF MarkApproved, Flight, PC
  <2>3. h' = [h EXCEPT ![x] = [h[x] EXCEPT !.pc = "grant", !.todo = Covers[h[x].req]]]
    BY <1>12 DEF MarkApproved, TypeOK
  <2>4. Stands(h[x].policy, slot[h[x].req])
    BY <1>12 DEF MarkApproved, Standing
  <2> QED BY <1>1, <1>2, <1>3, <1>12, <2>2, <2>3, <2>4 DEF Moves, MarkApproved, Flight, Status
<1>13. ASSUME NEW a \in Account, IssueGrant(x, a) PROVE Moves(x)
  <2>1. [h[x] EXCEPT !.todo = h[x].todo \ {a}] \in Flight
    BY <1>1, <1>13 DEF IssueGrant, Flight
  <2>2. \/ h' = [h EXCEPT ![x] = None]
        \/ h' = [h EXCEPT ![x] = [h[x] EXCEPT !.todo = h[x].todo \ {a}]]
    BY <1>13 DEF IssueGrant, End, TypeOK
  <2>3. Stands(h[x].policy, slot[h[x].req])
    BY <1>13 DEF IssueGrant, Standing
  <2>4. \A g \in Grant : grants'[g] # grants[g] =>
          /\ grants'[g].request = h[x].req
          /\ grants'[g].policy = h[x].policy
    BY <1>13 DEF IssueGrant, TypeOK
  <2> QED BY <1>1, <1>2, <1>3, <1>13, <2>1, <2>2, <2>3, <2>4 DEF Moves, IssueGrant, Flight
<1>14. CASE RejectSlots(x)
  <2>1. [h[x] EXCEPT !.pc = "rejectMark"] \in Flight
    BY <1>1, <1>14 DEF RejectSlots, Flight, PC
  <2>2. h' = [h EXCEPT ![x] = [h[x] EXCEPT !.pc = "rejectMark"]]
    BY <1>14 DEF RejectSlots, Goto, TypeOK
  <2>3. \A r \in Request : Later(slot[r], slot'[r])
    BY <1>14, RejectIsLater
  <2> QED BY <1>1, <1>3, <1>14, <2>1, <2>2, <2>3 DEF Moves, RejectSlots, Flight
<1>15. CASE MarkRejected(x)
  BY <1>2, <1>3, <1>15 DEF Moves, MarkRejected, End, Status
<1>16. CASE MarkCancelled(x)
  BY <1>2, <1>3, <1>16 DEF Moves, MarkCancelled, End, Status
<1> QED BY <1>4, <1>5, <1>6, <1>7, <1>8, <1>9, <1>10, <1>11, <1>12, <1>13,
           <1>14, <1>15, <1>16
        DEF ApproveStep, FinalizeStep, DecideStep

(* A request arrives: one more handler in flight, and nothing else. *)
LEMMA ArriveKeeps ==
  ASSUME TypeOK, Insertion, Standing, NEW x \in Handler, NEW r \in Request,
         Arrive(x, r)
  PROVE  Insertion' /\ Standing'
<1>1. PICK pc \in {"insert", "policy", "rejectSlots", "cancelMark"}, who \in Person :
        /\ h[x] = None
        /\ Begin(x, pc, r, who)
        /\ pc # "insert" => req[r] = "pending"
        /\ pc = "insert" => /\ req[r] = "none"
                            /\ \A y \in Handler : h[y] # None => h[y].req # r
        /\ UNCHANGED <<policy, edit, req, slot, grants>>
  BY ApprovalsAssumption
  DEF Arrive, CreateRequest, Cancel, Approve, Reject, Free
<1>2. /\ \A y \in Handler : y # x => h'[y] = h[y]
      /\ h'[x].pc = pc /\ h'[x].req = r
  BY <1>1 DEF Begin, TypeOK
<1>3. Insertion'
  BY <1>1, <1>2 DEF Insertion, In
<1>4. Standing'
  BY <1>1, <1>2 DEF Standing, In
<1> QED BY <1>3, <1>4

(* The insertion of a request: nobody held it, no grant named it. *)
LEMMA InsertKeeps ==
  ASSUME TypeOK, Insertion, Standing, NEW x \in Handler, InsertRequest(x)
  PROVE  Insertion' /\ Standing'
<1> DEFINE r == h[x].req
<1>1. h[x] # None /\ h[x].pc = "insert" /\ r \in Request /\ req[r] = "none"
  BY InFlight DEF InsertRequest, In, Insertion
<1>2. \A y \in Handler : y # x => h'[y] = h[y]
  BY DEF InsertRequest, Goto, End, TypeOK
<1>3. h'[x] = None \/ (h'[x].pc \in {"ticket", "evaluate"} /\ h'[x].req = r)
  <2>1. End(x) \/ Goto(x, "ticket") \/ Goto(x, "evaluate")
    BY DEF InsertRequest
  <2>2. h[x] \in Flight
    BY <1>1, InFlight
  <2> QED BY <1>1, <2>1, <2>2 DEF Goto, End, TypeOK, Flight
<1>4. /\ req' = [req EXCEPT ![r] = "pending"]
      /\ \A q \in Request : q # r => slot'[q] = slot[q]
      /\ grants' = grants
  BY <1>1 DEF InsertRequest, TypeOK
<1>5. \A y \in Handler : h[y] # None => h[y].req \in Request
  BY InFlight
<1>6. \A y \in Handler : h[y] # None /\ y # x => h[y].req # r
  BY <1>1 DEF Insertion, In
<1>7. \A g \in Grant : grants[g] # None => grants[g].request \in Request /\ grants[g].request # r
  BY <1>1 DEF Insertion, TypeOK, Granted
<1>8. Insertion'
  <2>1. \A q \in Request : /\ q # r => req'[q] = req[q]
                           /\ req[q] # "none" => req'[q] # "none"
        /\ req'[r] # "none"
    BY <1>1, <1>4 DEF TypeOK
  <2>2. \A y \in Handler : In(y, "insert")' => y # x /\ In(y, "insert") /\ h'[y] = h[y]
    BY <1>2, <1>3 DEF In
  <2>3. \A y \in Handler : In(y, "insert")' => req'[h'[y].req] = "none"
    BY <2>1, <2>2, <1>5, <1>6 DEF Insertion, In
  <2>4. \A y, z \in Handler :
          In(y, "insert")' /\ In(z, "insert")' /\ h'[y].req = h'[z].req => y = z
    BY <2>2 DEF Insertion
  <2>5. \A y \in Handler : h'[y] # None /\ h'[y].pc # "insert" => req'[h'[y].req] # "none"
    BY <2>1, <1>1, <1>2, <1>3, <1>5 DEF Insertion
  <2>6. \A g \in Grant : grants'[g] # None => req'[grants'[g].request] # "none"
    BY <2>1, <1>4, <1>7 DEF Insertion
  <2> QED BY <2>3, <2>4, <2>5, <2>6 DEF Insertion
<1>9. Standing'
  BY <1>1, <1>2, <1>3, <1>4, <1>5, <1>6, <1>7 DEF Standing, In
<1> QED BY <1>8, <1>9

LEMMA StepKeeps ==
  ASSUME TypeOK, TypeOK', Insertion, Standing, [Next]_vars
  PROVE  Insertion' /\ Standing'
<1>1. ASSUME NEW x \in Handler, Step(x) PROVE Insertion' /\ Standing'
  BY <1>1, InsertKeeps, StepMoves, MovesInsertion, MovesStanding
  DEF Step, CreateStep
<1>2. ASSUME NEW x \in Handler, Abort(x) PROVE Insertion' /\ Standing'
  BY <1>2 DEF Abort, End, Insertion, Standing, In, TypeOK
<1>3. ASSUME NEW x \in Handler, NEW r \in Request, Arrive(x, r)
      PROVE  Insertion' /\ Standing'
  BY <1>3, ArriveKeeps
<1>4. ASSUME NEW r \in Request, NEW a \in Account, BreakGlass(r, a)
      PROVE  Insertion' /\ Standing'
  <2>1. PICK g \in Grant :
          grants' = [grants EXCEPT ![g] = [request |-> r, account |-> a, policy |-> None]]
    BY <1>4 DEF BreakGlass
  <2>2. \A y \in Handler : h[y] # None => h[y].req # r
    BY <1>4 DEF BreakGlass
  <2>3. Insertion'
    BY <1>4, <2>1, <2>2 DEF BreakGlass, Insertion, In, TypeOK
  <2>4. Standing'
    BY <1>4, <2>1 DEF BreakGlass, Standing, In, TypeOK
  <2> QED BY <2>3, <2>4
<1>5. CASE Administer
  BY <1>5 DEF Administer, EditPolicy, DeleteRules, InsertRule, Insertion, Standing, In
<1>6. CASE UNCHANGED vars
  BY <1>6 DEF vars, Insertion, Standing, In
<1> QED BY <1>1, <1>2, <1>3, <1>4, <1>5, <1>6 DEF Next

(* No grant without its quorum: whatever approvers, rejections and policy   *)
(* edits interleave, and whichever handlers die on the way, a grant that is *)
(* not break-glass has at every level the approvals that the policy read by *)
(* its handler asks for.                                                    *)
THEOREM GrantsStandOnQuorum == Spec => []GrantNeedsQuorum
<1>1. Init => Insertion /\ Standing
  BY DEF Init, Insertion, Standing, In
<1>2. TypeOK /\ TypeOK' /\ Insertion /\ Standing /\ [Next]_vars
        => Insertion' /\ Standing'
  BY StepKeeps
<1>3. Standing => GrantNeedsQuorum
  BY DEF Standing, GrantNeedsQuorum, Stands
<1> QED BY <1>1, <1>2, <1>3, TypeCorrect, PTL DEF Spec

-----------------------------------------------------------------------------
(* The order of the levels *)

Selecting == {"distinct", "pick", "fill"}

(* Nothing waits below level l among these slots. *)
NoneBelow(slots, l) == \A m \in Level : m < l => At(slots, m, "pending") = {}

(* What every step but the insertion of a request does to slots and levels. *)
Climbs ==
  /\ \A r \in Request : Later(slot[r], slot'[r])
  /\ \A r \in Request : \A m \in Level :
       At(slot'[r], m, "approved") # {} =>
         At(slot[r], m, "approved") # {} \/ NoneBelow(slot[r], m)
  /\ \A y \in Handler : h'[y] # None /\ h'[y].pc \in Selecting =>
       /\ h[y] # None /\ h'[y].req = h[y].req
       /\ NoneBelow(slot[h[y].req], h'[y].level)
       /\ h'[y].pc = "fill" => h'[y].slot[1] = h'[y].level

LEMMA ClimbsOrders ==
  ASSUME TypeOK, TypeOK', Ordering, Climbs
  PROVE  Ordering'
<1>1. \A r \in Request : \A m \in Level : NoneBelow(slot[r], m) => NoneBelow(slot'[r], m)
  BY LaterSets DEF Climbs, NoneBelow
<1>2. ASSUME NEW y \in Handler, h'[y] # None, h'[y].pc \in Selecting,
             NEW m \in Level, m < h'[y].level, h'[y].level \in Level
      PROVE  At(slot'[h'[y].req], m, "pending") = {}
  <2>1. h[y].req \in Request
    BY <1>2, InFlight DEF Climbs
  <2>2. NoneBelow(slot'[h'[y].req], h'[y].level)
    BY <1>1, <1>2, <2>1 DEF Climbs
  <2> QED BY <1>2, <2>2 DEF NoneBelow
<1>3. LevelsInOrder'
  <2> SUFFICES ASSUME NEW r \in Request, NEW l \in Level, NEW m \in Level, l < m,
                      At(slot'[r], m, "approved") # {}
               PROVE  At(slot'[r], l, "pending") = {}
    BY DEF LevelsInOrder
  <2>1. At(slot[r], l, "pending") = {}
    BY DEF Climbs, Ordering, LevelsInOrder, NoneBelow
  <2> QED BY <2>1, LaterSets DEF Climbs
<1>4. \A y \in Handler : In(y, "fill")' => h'[y].slot[1] = h'[y].level
  BY DEF Climbs, In, Selecting
<1>5. \A y \in Handler : h'[y] # None => h'[y].level \in Level
  BY DEF TypeOK, Flight
<1> QED BY <1>2, <1>3, <1>4, <1>5 DEF Ordering, Selecting

LEMMA NoneBelowLowest ==
  ASSUME NEW r \in Request, NEW l \in Level,
         \A m \in Level : m < l => ~ (At(slot[r], m, "pending") # {})
  PROVE  NoneBelow(slot[r], l)
BY DEF NoneBelow

LEMMA SelectingBelow ==
  ASSUME Ordering, NEW x \in Handler, h[x] # None, h[x].pc \in Selecting
  PROVE  /\ NoneBelow(slot[h[x].req], h[x].level)
         /\ h[x].pc = "fill" => h[x].slot[1] = h[x].level
BY DEF Ordering, Selecting, NoneBelow, In

(* A step that leaves the slots alone and brings nobody to a new selection. *)
LEMMA StillClimbs ==
  ASSUME TypeOK, Ordering, slot' = slot,
         \A y \in Handler : h'[y] # None /\ h'[y].pc \in Selecting => h'[y] = h[y]
  PROVE  Climbs
<1>1. \A r \in Request : Later(slot[r], slot'[r])
  BY LaterSame
<1> QED BY <1>1, SelectingBelow DEF Climbs

LEMMA StepClimbs ==
  ASSUME TypeOK, TypeOK', Insertion, Standing, Ordering, NEW x \in Handler,
         \/ TicketValid(x) \/ TicketInvalid(x) \/ ApproveStep(x)
         \/ FinalizeStep(x) \/ DecideStep(x)
  PROVE  Climbs
<1> USE DEF In
<1>1. /\ h[x] # None => /\ h[x] \in Flight /\ h[x].req \in Request
                        /\ h[x].level \in Level /\ h[x].slot \in SlotId
      /\ \A r \in Request : Later(slot[r], slot[r])
  BY InFlight, LaterSame
<1>2. CASE TicketValid(x) \/ Evaluate(x)
  <2>1. \A y \in Handler : h'[y] # None /\ h'[y].pc \in Selecting => h'[y] = h[y]
    <3>1. End(x) \/ Goto(x, "evaluate") \/ Goto(x, "mark")
      BY <1>2 DEF TicketValid, Evaluate
    <3>2. h[x] \in Flight
      BY <1>1, <1>2 DEF TicketValid, Evaluate
    <3> QED BY <3>1, <3>2 DEF End, Goto, Selecting, TypeOK, Flight
  <2> QED BY <1>2, <2>1, StillClimbs DEF TicketValid, Evaluate
<1>3. CASE TicketInvalid(x) \/ MarkRejected(x) \/ MarkCancelled(x)
  <2>1. \A y \in Handler : h'[y] # None /\ h'[y].pc \in Selecting => h'[y] = h[y]
    BY <1>3 DEF TicketInvalid, MarkRejected, MarkCancelled, End, TypeOK
  <2> QED BY <1>3, <2>1, StillClimbs DEF TicketInvalid, MarkRejected, MarkCancelled
<1>4. CASE ReadPolicy(x)
  <2>1. \/ End(x)
        \/ h' = [h EXCEPT ![x] = [h[x] EXCEPT !.pc = "level", !.policy = policy]]
    BY <1>4 DEF ReadPolicy, TypeOK
  <2>2. \A y \in Handler : h'[y] # None /\ h'[y].pc \in Selecting => h'[y] = h[y]
    BY <1>1, <1>4, <2>1 DEF ReadPolicy, End, Selecting, TypeOK, Flight
  <2> QED BY <1>4, <2>2, StillClimbs DEF ReadPolicy
<1>5. CASE MarkApproved(x)
  <2>1. h' = [h EXCEPT ![x] = [h[x] EXCEPT !.pc = "grant", !.todo = Covers[h[x].req]]]
    BY <1>5 DEF MarkApproved, TypeOK
  <2>2. \A y \in Handler : h'[y] # None /\ h'[y].pc \in Selecting => h'[y] = h[y]
    BY <1>1, <1>5, <2>1 DEF MarkApproved, Selecting, TypeOK, Flight
  <2> QED BY <1>5, <2>2, StillClimbs DEF MarkApproved
<1>6. ASSUME NEW a \in Account, IssueGrant(x, a) PROVE Climbs
  <2>1. \/ End(x)
        \/ h' = [h EXCEPT ![x] = [h[x] EXCEPT !.todo = h[x].todo \ {a}]]
    BY <1>6 DEF IssueGrant, TypeOK
  <2>2. \A y \in Handler : h'[y] # None /\ h'[y].pc \in Selecting => h'[y] = h[y]
    BY <1>1, <1>6, <2>1 DEF IssueGrant, End, Selecting, TypeOK, Flight
  <2> QED BY <1>6, <2>2, StillClimbs DEF IssueGrant
<1>7. CASE ReadLevel(x)
  <2>1. CASE End(x)
    <3>1. \A y \in Handler : h'[y] # None /\ h'[y].pc \in Selecting => h'[y] = h[y]
      BY <2>1 DEF End, TypeOK
    <3> QED BY <1>7, <3>1, StillClimbs DEF ReadLevel
  <2>2. ASSUME NEW l \in Level,
               \A m \in Level : m < l => ~ (At(slot[h[x].req], m, "pending") # {}),
               h' = [h EXCEPT ![x].pc = "distinct", ![x].level = l]
        PROVE  Climbs
    <3> DEFINE f == [h[x] EXCEPT !.pc = "distinct", !.level = l]
    <3>1. f.req = h[x].req /\ f.pc = "distinct" /\ f.level = l
      BY <1>1, <1>7 DEF ReadLevel, Flight
    <3>2. h' = [h EXCEPT ![x] = f] /\ slot' = slot /\ h[x] # None
      BY <2>2, <1>7 DEF ReadLevel, TypeOK
    <3>3. NoneBelow(slot[h[x].req], l)
      BY <1>1, <2>2, <3>2, NoneBelowLowest
    <3> HIDE DEF f
    <3> QED BY <1>1, <3>1, <3>2, <3>3, SelectingBelow DEF Climbs, TypeOK
  <2> QED BY <1>7, <2>1, <2>2 DEF ReadLevel
<1>8. CASE CheckDistinct(x)
  <2>1. End(x) \/ h' = [h EXCEPT ![x] = [h[x] EXCEPT !.pc = "pick"]]
    BY <1>8 DEF CheckDistinct, Goto, TypeOK
  <2>2. /\ h[x] # None /\ h[x].pc \in Selecting /\ slot' = slot
        /\ NoneBelow(slot[h[x].req], h[x].level)
    BY <1>8, SelectingBelow DEF CheckDistinct, Selecting
  <2>3. CASE End(x)
    BY <1>1, <2>2, <2>3, SelectingBelow DEF Climbs, End, TypeOK
  <2>4. CASE h' = [h EXCEPT ![x] = [h[x] EXCEPT !.pc = "pick"]]
    <3> DEFINE f == [h[x] EXCEPT !.pc = "pick"]
    <3>1. f.req = h[x].req /\ f.level = h[x].level /\ f.pc = "pick"
      BY <1>1, <2>2 DEF Flight
    <3>2. h' = [h EXCEPT ![x] = f]
      BY <2>4
    <3> HIDE DEF f
    <3> QED BY <1>1, <2>2, <3>1, <3>2, SelectingBelow DEF Climbs, TypeOK
  <2> QED BY <2>1, <2>3, <2>4
<1>9. CASE PickSlot(x)
  <2>1. /\ h[x] # None /\ h[x].pc \in Selecting /\ slot' = slot
        /\ NoneBelow(slot[h[x].req], h[x].level)
    BY <1>9, SelectingBelow DEF PickSlot, Selecting
  <2>2. CASE End(x)
    BY <1>1, <2>1, <2>2, SelectingBelow DEF Climbs, End, TypeOK
  <2>3. ASSUME NEW i \in Index,
               h' = [h EXCEPT ![x].pc = "fill", ![x].slot = <<h[x].level, i>>]
        PROVE  Climbs
    <3> DEFINE f == [h[x] EXCEPT !.pc = "fill", !.slot = <<h[x].level, i>>]
    <3>1. f.req = h[x].req /\ f.level = h[x].level /\ f.slot[1] = h[x].level
      BY <1>1, <2>1 DEF Flight
    <3>2. h' = [h EXCEPT ![x] = f]
      BY <2>1, <2>3 DEF TypeOK
    <3> HIDE DEF f
    <3> QED BY <1>1, <2>1, <3>1, <3>2, SelectingBelow DEF Climbs, TypeOK
  <2> QED BY <1>9, <2>2, <2>3 DEF PickSlot, At
<1>10. CASE FillSlot(x)
  <2>1. \A r \in Request : Later(slot[r], slot'[r])
    BY <1>10, FillIsLater DEF FillSlot, Standing
  <2>2. /\ h[x] # None /\ h[x] \in Flight /\ h[x].pc = "fill"
        /\ NoneBelow(slot[h[x].req], h[x].level) /\ h[x].slot[1] = h[x].level
    BY <1>1, <1>10, SelectingBelow DEF FillSlot, Selecting
  <2>3. h' = [h EXCEPT ![x] = [h[x] EXCEPT !.pc = "evaluate"]]
    BY <1>10 DEF FillSlot, Goto, TypeOK
  <2>4. \A r \in Request : \A i \in SlotId :
          slot'[r][i].decision = "approved" =>
            \/ slot[r][i].decision = "approved"
            \/ r = h[x].req /\ i = h[x].slot
    BY <1>1, <1>10 DEF FillSlot, TypeOK
  <2>5. ASSUME NEW r \in Request, NEW m \in Level,
               At(slot'[r], m, "approved") # {}, At(slot[r], m, "approved") = {}
        PROVE  NoneBelow(slot[r], m)
    <3>1. PICK j \in Index : slot'[r][<<m, j>>].decision = "approved"
      BY <2>5 DEF At
    <3>2. slot[r][<<m, j>>].decision # "approved" /\ <<m, j>> \in SlotId
      BY <2>5, <3>1 DEF At, SlotId
    <3>3. r = h[x].req /\ <<m, j>> = h[x].slot
      BY <2>4, <3>1, <3>2
    <3> QED BY <2>2, <3>3
  <2>6. \A y \in Handler : h'[y] # None /\ h'[y].pc \in Selecting => h'[y] = h[y]
    BY <2>2, <2>3 DEF Selecting, TypeOK, Flight
  <2> QED BY <2>1, <2>5, <2>6, SelectingBelow DEF Climbs
<1>11. CASE RejectSlots(x)
  <2>1. \A r \in Request : Later(slot[r], slot'[r])
    BY <1>11, RejectIsLater
  <2>2. h' = [h EXCEPT ![x] = [h[x] EXCEPT !.pc = "rejectMark"]]
    BY <1>11 DEF RejectSlots, Goto, TypeOK
  <2>3. \A r \in Request : \A i \in SlotId :
          slot'[r][i].decision = "approved" => slot[r][i].decision = "approved"
    BY <1>1, <1>11 DEF RejectSlots, TypeOK
  <2>4. \A r \in Request : \A m \in Level :
          At(slot'[r], m, "approved") # {} => At(slot[r], m, "approved") # {}
    BY <2>3 DEF At, SlotId
  <2>5. \A y \in Handler : h'[y] # None /\ h'[y].pc \in Selecting => h'[y] = h[y]
    BY <1>1, <1>11, <2>2 DEF RejectSlots, Selecting, TypeOK, Flight
  <2> QED BY <2>1, <2>4, <2>5, SelectingBelow DEF Climbs
<1> QED BY <1>2, <1>3, <1>4, <1>5, <1>6, <1>7, <1>8, <1>9, <1>10, <1>11
        DEF ApproveStep, FinalizeStep, DecideStep

(* The slots of a new request are all pending, and nobody selects among them. *)
LEMMA InsertOrders ==
  ASSUME TypeOK, TypeOK', Insertion, Ordering, NEW x \in Handler, InsertRequest(x)
  PROVE  Ordering'
<1> DEFINE r == h[x].req
<1>1. h[x] # None /\ h[x].pc = "insert" /\ r \in Request /\ req[r] = "none"
      /\ h[x] \in Flight
  BY InFlight DEF InsertRequest, In, Insertion
<1>2. /\ \A q \in Request : q # r => slot'[q] = slot[q]
      /\ slot'[r] = NewSlots(h[x].policy)
  BY <1>1 DEF InsertRequest, TypeOK
<1>3. \A y \in Handler : h'[y] # None /\ h'[y].pc \in Selecting => y # x /\ h'[y] = h[y]
  <2>1. End(x) \/ Goto(x, "ticket") \/ Goto(x, "evaluate")
    BY DEF InsertRequest
  <2> QED BY <1>1, <2>1 DEF Goto, End, Selecting, TypeOK, Flight
<1>4. \A y \in Handler : h[y] # None /\ y # x => h[y].req # r /\ h[y].req \in Request
  BY <1>1, InFlight DEF Insertion, In
<1>5. \A m \in Level : At(slot'[r], m, "approved") = {}
  BY <1>2 DEF At, NewSlots, SlotId
<1>6. LevelsInOrder'
  BY <1>2, <1>5 DEF LevelsInOrder, Ordering
<1>7. \A y \in Handler : In(y, "fill")' => h'[y].slot[1] = h'[y].level
  BY <1>3 DEF In, Selecting, Ordering
<1>8. \A y \in Handler : h'[y] # None /\ h'[y].pc \in Selecting =>
        \A m \in Level : m < h'[y].level => At(slot'[h'[y].req], m, "pending") = {}
  BY <1>2, <1>3, <1>4 DEF Ordering, Selecting
<1> QED BY <1>6, <1>7, <1>8 DEF Ordering, Selecting

LEMMA StepOrders ==
  ASSUME TypeOK, TypeOK', Insertion, Standing, Ordering, [Next]_vars
  PROVE  Ordering'
<1>1. ASSUME NEW x \in Handler, Step(x) PROVE Ordering'
  BY <1>1, InsertOrders, StepClimbs, ClimbsOrders DEF Step, CreateStep
<1>2. ASSUME NEW x \in Handler, Abort(x) PROVE Ordering'
  <2>1. \A y \in Handler : h'[y] # None /\ h'[y].pc \in Selecting => h'[y] = h[y]
    BY <1>2 DEF Abort, End, TypeOK
  <2> QED BY <1>2, <2>1, StillClimbs, ClimbsOrders DEF Abort
<1>3. ASSUME NEW x \in Handler, NEW r \in Request, Arrive(x, r) PROVE Ordering'
  <2>1. PICK pc \in {"insert", "policy", "rejectSlots", "cancelMark"}, who \in Person :
          Begin(x, pc, r, who) /\ slot' = slot
    BY <1>3, ApprovalsAssumption DEF Arrive, CreateRequest, Cancel, Approve, Reject
  <2>2. \A y \in Handler : h'[y] # None /\ h'[y].pc \in Selecting => h'[y] = h[y]
    BY <2>1 DEF Begin, Selecting, TypeOK
  <2> QED BY <2>1, <2>2, StillClimbs, ClimbsOrders
<1>4. CASE (\E r \in Request, a \in Account : BreakGlass(r, a)) \/ Administer \/ UNCHANGED vars
  <2>1. h' = h /\ slot' = slot
    BY <1>4 DEF BreakGlass, Administer, EditPolicy, DeleteRules, InsertRule, vars
  <2> QED BY <2>1, StillClimbs, ClimbsOrders
<1> QED BY <1>1, <1>2, <1>3, <1>4 DEF Next

(* The sequential gate holds however late a slot is filled: no level gets an *)
(* approval while a slot of a lower level still waits.                       *)
THEOREM LevelsAreOrdered == Spec => []LevelsInOrder
<1>1. Init => Insertion /\ Standing /\ Ordering
  BY DEF Init, Insertion, Standing, Ordering, In, LevelsInOrder, At, NoSlots, SlotId
<1>2. TypeOK /\ TypeOK' /\ Insertion /\ Standing /\ Ordering /\ [Next]_vars
        => Insertion' /\ Standing' /\ Ordering'
  BY StepKeeps, StepOrders
<1>3. Ordering => LevelsInOrder
  BY DEF Ordering
<1> QED BY <1>1, <1>2, <1>3, TypeCorrect, PTL DEF Spec

-----------------------------------------------------------------------------
(* Who signs.  The check that an approver is eligible and has not decided at a
   level is two statements older than the slot it fills: it says nothing of the
   approver's other requests in flight, so that what one person signs is
   bounded by them and not by one. *)

Deciding == {"pick", "fill"}

(* the requests of one person that have passed the check and not yet written *)
Near(r, l, who) ==
  {x \in Handler : /\ h[x] # None /\ h[x].pc \in Deciding
                   /\ h[x].req = r /\ h[x].level = l /\ h[x].who = who}

Within(r, l, who) ==
  Cardinality(ApprovedBy(r, l, who)) + Cardinality(Near(r, l, who))
    <= Cardinality(Handler)

Repeats == \A r \in Request, l \in Level, who \in Person : Within(r, l, who)

EligibleSigned ==
  \A r \in Request : \A i \in SlotId :
    slot[r][i].decision = "approved" => slot[r][i].by \in Eligible[i[1]]

Checked ==
  /\ \A x \in Handler : h[x] # None /\ h[x].pc \in Deciding =>
       h[x].who \in Eligible[h[x].level]
  /\ EligibleSigned

(* What a step of handler x does: it approves only the slot it has picked, in
   its own name, and comes to decide only through the check. *)
Signs(x) ==
  /\ h[x] # None
  /\ \A y \in Handler : y # x => h'[y] = h[y]
  /\ \A r \in Request : \A i \in SlotId : slot'[r][i].decision = "approved" =>
       \/ slot'[r][i] = slot[r][i]
       \/ /\ r = h[x].req /\ h[x].pc = "fill" /\ i = h[x].slot
          /\ slot'[r][i].by = h[x].who
  /\ h'[x] # None /\ h'[x].pc \in Deciding =>
       /\ slot' = slot
       /\ h'[x].req = h[x].req /\ h'[x].level = h[x].level /\ h'[x].who = h[x].who
       /\ \/ h[x].pc \in Deciding
          \/ /\ ~ HasDecided(h[x].req, h[x].level, h[x].who)
             /\ h[x].who \in Eligible[h[x].level]

(* A step that leaves the slots alone and brings nobody nearer a decision. *)
LEMMA GoesSigns ==
  ASSUME TypeOK, NEW x \in Handler, h[x] # None, slot' = slot,
         \/ h' = [h EXCEPT ![x] = None]
         \/ \E f : h' = [h EXCEPT ![x] = f] /\ f.pc \notin Deciding
  PROVE  Signs(x)
BY DEF Signs, TypeOK

LEMMA StepSigns ==
  ASSUME TypeOK, NEW x \in Handler, Step(x)
  PROVE  Signs(x)
<1> USE DEF In
<1>1. h[x] # None => /\ h[x] \in Flight /\ h[x].req \in Request
                     /\ h[x].level \in Level /\ h[x].slot \in SlotId
  BY InFlight
<1>2. ASSUME h[x] # None, slot' = slot, NEW pc \in PC \ Deciding, Goto(x, pc) \/ End(x)
      PROVE  Signs(x)
  <2>1. [h[x] EXCEPT !.pc = pc].pc = pc
    BY <1>1, <1>2 DEF Flight
  <2>2. \/ h' = [h EXCEPT ![x] = None]
        \/ h' = [h EXCEPT ![x] = [h[x] EXCEPT !.pc = pc]]
    BY <1>2 DEF Goto, End, TypeOK
  <2> QED BY <1>2, <2>1, <2>2, GoesSigns
<1>3. CASE TicketValid(x) \/ TicketInvalid(x) \/ Evaluate(x)
  BY <1>2, <1>3 DEF TicketValid, TicketInvalid, Evaluate, PC, Deciding
<1>4. CASE MarkRejected(x) \/ MarkCancelled(x)
  BY <1>2, <1>4 DEF MarkRejected, MarkCancelled, PC, Deciding
<1>5. CASE ReadPolicy(x)
  <2>1. CASE End(x)
    BY <1>2, <1>5, <2>1 DEF ReadPolicy, PC, Deciding
  <2>2. CASE ~ End(x)
    <3> DEFINE f == [h[x] EXCEPT !.pc = "level", !.policy = policy]
    <3>1. f.pc \notin Deciding
      BY <1>1, <1>5 DEF ReadPolicy, Flight, Deciding
    <3>2. h' = [h EXCEPT ![x] = f] /\ slot' = slot /\ h[x] # None
      BY <1>5, <2>2 DEF ReadPolicy, TypeOK
    <3> HIDE DEF f
    <3> QED BY <3>1, <3>2, GoesSigns
  <2> QED BY <2>1, <2>2
<1>6. CASE ReadLevel(x)
  <2>1. CASE End(x)
    BY <1>2, <1>6, <2>1 DEF ReadLevel, PC, Deciding
  <2>2. CASE ~ End(x)
    <3>1. PICK l \in Level : h' = [h EXCEPT ![x].pc = "distinct", ![x].level = l]
      BY <1>6, <2>2 DEF ReadLevel
    <3> DEFINE f == [h[x] EXCEPT !.pc = "distinct", !.level = l]
    <3>2. f.pc \notin Deciding
      BY <1>1, <1>6 DEF ReadLevel, Flight, Deciding
    <3>3. h' = [h EXCEPT ![x] = f] /\ slot' = slot /\ h[x] # None
      BY <1>6, <3>1 DEF ReadLevel, TypeOK
    <3> HIDE DEF f
    <3> QED BY <3>2, <3>3, GoesSigns
  <2> QED BY <2>1, <2>2
<1>7. CASE CheckDistinct(x)
  <2>1. CASE End(x)
    BY <1>2, <1>7, <2>1 DEF CheckDistinct, PC, Deciding
  <2>2. CASE ~ End(x)
    <3> DEFINE f == [h[x] EXCEPT !.pc = "pick"]
    <3>1. f.who = h[x].who /\ f.req = h[x].req /\ f.level = h[x].level
      BY <1>1, <1>7 DEF CheckDistinct, Flight
    <3>2. /\ h' = [h EXCEPT ![x] = f] /\ slot' = slot /\ h[x] # None
          /\ ~ HasDecided(h[x].req, h[x].level, h[x].who)
          /\ h[x].who \in Eligible[h[x].level]
      BY <1>7, <2>2 DEF CheckDistinct, Goto, TypeOK
    <3>3. h'[x] = f /\ \A y \in Handler : y # x => h'[y] = h[y]
      BY <3>2 DEF TypeOK
    <3> HIDE DEF f
    <3> QED BY <3>1, <3>2, <3>3 DEF Signs
  <2> QED BY <2>1, <2>2
<1>8. CASE PickSlot(x)
  <2>1. CASE End(x)
    BY <1>2, <1>8, <2>1 DEF PickSlot, PC, Deciding
  <2>2. CASE ~ End(x)
    <3>1. PICK i \in Index : h' = [h EXCEPT ![x].pc = "fill", ![x].slot = <<h[x].level, i>>]
      BY <1>8, <2>2 DEF PickSlot, At
    <3> DEFINE f == [h[x] EXCEPT !.pc = "fill", !.slot = <<h[x].level, i>>]
    <3>2. f.who = h[x].who /\ f.req = h[x].req /\ f.level = h[x].level
      BY <1>1, <1>8 DEF PickSlot, Flight
    <3>3. /\ h' = [h EXCEPT ![x] = f] /\ slot' = slot /\ h[x] # None
          /\ h[x].pc \in Deciding
      BY <1>8, <3>1 DEF PickSlot, Deciding, TypeOK
    <3>4. h'[x] = f /\ \A y \in Handler : y # x => h'[y] = h[y]
      BY <3>3 DEF TypeOK
    <3> HIDE DEF f
    <3> QED BY <3>2, <3>3, <3>4 DEF Signs
  <2> QED BY <2>1, <2>2
<1>9. CASE FillSlot(x)
  <2>1. h[x] # None /\ h[x].pc = "fill" /\ h' = [h EXCEPT ![x] = [h[x] EXCEPT !.pc = "evaluate"]]
    BY <1>9 DEF FillSlot, Goto, TypeOK
  <2>2. \A r \in Request : \A i \in SlotId :
          \/ slot'[r][i] = slot[r][i]
          \/ r = h[x].req /\ i = h[x].slot /\ slot'[r][i].by = h[x].who
    BY <1>1, <1>9 DEF FillSlot, TypeOK
  <2>3. h'[x].pc = "evaluate" /\ \A y \in Handler : y # x => h'[y] = h[y]
    BY <1>1, <2>1 DEF Flight, TypeOK
  <2> QED BY <2>1, <2>2, <2>3 DEF Signs, Deciding
<1>10. CASE RejectSlots(x) \/ InsertRequest(x)
  <2>1. /\ h[x] # None
        /\ End(x) \/ Goto(x, "rejectMark") \/ Goto(x, "ticket") \/ Goto(x, "evaluate")
    BY <1>10 DEF RejectSlots, InsertRequest
  <2>2. \A r \in Request : \A i \in SlotId :
          slot'[r][i] = slot[r][i] \/ slot'[r][i].decision # "approved"
    BY <1>1, <1>10 DEF RejectSlots, InsertRequest, NewSlots, TypeOK
  <2>3. \A y \in Handler : y # x => h'[y] = h[y]
    BY <2>1 DEF Goto, End, TypeOK
  <2>4. h'[x] = None \/ h'[x].pc \notin Deciding
    BY <1>1, <2>1 DEF Goto, End, Deciding, TypeOK, Flight
  <2> QED BY <2>1, <2>2, <2>3, <2>4 DEF Signs
<1>11. CASE MarkApproved(x)
  <2> DEFINE f == [h[x] EXCEPT !.pc = "grant", !.todo = Covers[h[x].req]]
  <2>1. f.pc \notin Deciding
    BY <1>1, <1>11 DEF MarkApproved, Flight, Deciding
  <2>2. h' = [h EXCEPT ![x] = f] /\ slot' = slot /\ h[x] # None
    BY <1>11 DEF MarkApproved, TypeOK
  <2> HIDE DEF f
  <2> QED BY <2>1, <2>2, GoesSigns
<1>12. ASSUME NEW a \in Account, IssueGrant(x, a) PROVE Signs(x)
  <2>1. CASE End(x)
    BY <1>2, <1>12, <2>1 DEF IssueGrant, PC, Deciding
  <2>2. CASE ~ End(x)
    <3> DEFINE f == [h[x] EXCEPT !.todo = h[x].todo \ {a}]
    <3>1. f.pc \notin Deciding
      BY <1>1, <1>12 DEF IssueGrant, Flight, Deciding
    <3>2. h' = [h EXCEPT ![x] = f] /\ slot' = slot /\ h[x] # None
      BY <1>12, <2>2 DEF IssueGrant, TypeOK
    <3> HIDE DEF f
    <3> QED BY <3>1, <3>2, GoesSigns
  <2> QED BY <2>1, <2>2
<1> QED BY <1>3, <1>4, <1>5, <1>6, <1>7, <1>8, <1>9, <1>10, <1>11, <1>12
        DEF Step, CreateStep, ApproveStep, FinalizeStep, DecideStep

(* Counting: nobody more comes near, nobody has decided yet, or one that was
   near has signed one slot. *)
LEMMA WithinKeeps ==
  ASSUME IsFiniteSet(Handler), NEW r, NEW l, NEW who, Within(r, l, who),
         \/ /\ ApprovedBy(r, l, who)' \subseteq ApprovedBy(r, l, who)
            /\ Near(r, l, who)' \subseteq Near(r, l, who)
         \/ ApprovedBy(r, l, who)' = {}
         \/ \E x \in Near(r, l, who), i \in Index :
              /\ ApprovedBy(r, l, who)' \subseteq ApprovedBy(r, l, who) \cup {i}
              /\ Near(r, l, who)' \subseteq Near(r, l, who) \ {x}
  PROVE  Within(r, l, who)'
<1> DEFINE A == ApprovedBy(r, l, who)  B == ApprovedBy(r, l, who)'
           M == Near(r, l, who)        N == Near(r, l, who)'
<1>1. A \subseteq Index /\ B \subseteq Index /\ M \subseteq Handler /\ N \subseteq Handler
  BY DEF ApprovedBy, At, Near
<1>2. IsFiniteSet(Index)
  BY FS_Interval, ApprovalsAssumption DEF Index
<1> HIDE DEF A, B, M, N
<1>3. IsFiniteSet(A) /\ IsFiniteSet(B) /\ IsFiniteSet(M) /\ IsFiniteSet(N)
  BY <1>1, <1>2, FS_Subset
<1>4. /\ Cardinality(A) \in Nat /\ Cardinality(B) \in Nat
      /\ Cardinality(M) \in Nat /\ Cardinality(N) \in Nat /\ Cardinality(Handler) \in Nat
  BY <1>3, FS_CardinalityType
<1>5. Cardinality(A) + Cardinality(M) <= Cardinality(Handler)
  BY DEF Within, A, M
<1>6. CASE B \subseteq A /\ N \subseteq M
  <2>1. Cardinality(B) <= Cardinality(A) /\ Cardinality(N) <= Cardinality(M)
    BY <1>3, <1>6, FS_Subset
  <2>2. Cardinality(B) + Cardinality(N) <= Cardinality(Handler)
    BY <1>4, <1>5, <2>1
  <2> QED BY <2>2 DEF Within, B, N
<1>7. CASE B = {}
  <2>1. Cardinality(B) = 0 /\ Cardinality(N) <= Cardinality(Handler)
    BY <1>1, <1>7, FS_EmptySet, FS_Subset
  <2>2. Cardinality(B) + Cardinality(N) <= Cardinality(Handler)
    BY <1>4, <2>1
  <2> QED BY <2>2 DEF Within, B, N
<1>8. ASSUME NEW x \in M, NEW i \in Index, B \subseteq A \cup {i}, N \subseteq M \ {x}
      PROVE  Within(r, l, who)'
  <2>1. /\ IsFiniteSet(A \cup {i})
        /\ Cardinality(A \cup {i}) = Cardinality(A) \/ Cardinality(A \cup {i}) = Cardinality(A) + 1
    BY <1>3, FS_AddElement
  <2>2. /\ IsFiniteSet(M \ {x})
        /\ Cardinality(M \ {x}) = Cardinality(M) - 1
    BY <1>3, <1>8, FS_RemoveElement
  <2>3. /\ Cardinality(B) <= Cardinality(A \cup {i})
        /\ Cardinality(N) <= Cardinality(M \ {x})
    BY <1>8, <2>1, <2>2, FS_Subset
  <2>4. Cardinality(B) + Cardinality(N) <= Cardinality(Handler)
    BY <1>4, <1>5, <2>1, <2>2, <2>3
  <2> QED BY <2>4 DEF Within, B, N
<1> QED BY <1>6, <1>7, <1>8 DEF A, B, M, N

LEMMA SignsWithin ==
  ASSUME IsFiniteSet(Handler), TypeOK, Ordering, Repeats, NEW x \in Handler, Signs(x)
  PROVE  Repeats'
<1> SUFFICES ASSUME NEW r \in Request, NEW l \in Level, NEW who \in Person
             PROVE  Within(r, l, who)'
  BY DEF Repeats
<1> DEFINE Mine == h[x].req = r /\ h[x].level = l /\ h[x].who = who
<1>1. Within(r, l, who)
  BY DEF Repeats
<1>2. \A y \in Handler : y # x /\ y \in Near(r, l, who)' => y \in Near(r, l, who)
  BY DEF Signs, Near
<1>3. \A i \in Index : <<l, i>> \in SlotId
  BY DEF SlotId
<1>4. CASE h'[x] # None /\ h'[x].pc \in Deciding
  <2>1. slot' = slot /\ ApprovedBy(r, l, who)' = ApprovedBy(r, l, who)
    BY <1>4 DEF Signs, ApprovedBy, At
  <2>2. CASE h[x].pc \in Deciding \/ ~ Mine
    <3>1. x \in Near(r, l, who)' => x \in Near(r, l, who)
      BY <1>4, <2>2 DEF Signs, Near
    <3>2. Near(r, l, who)' \subseteq Near(r, l, who)
      BY <1>2, <3>1 DEF Near
    <3> QED BY <1>1, <2>1, <3>2, WithinKeeps
  <2>3. CASE h[x].pc \notin Deciding /\ Mine
    <3>1. \A i \in Index : slot[r][<<l, i>>].by # who
      BY <1>4, <2>3 DEF Signs, HasDecided
    <3>2. ApprovedBy(r, l, who)' = {}
      BY <2>1, <3>1 DEF ApprovedBy, At
    <3> QED BY <1>1, <3>2, WithinKeeps
  <2> QED BY <2>2, <2>3
<1>5. CASE ~ (h'[x] # None /\ h'[x].pc \in Deciding)
  <2>1. Near(r, l, who)' \subseteq Near(r, l, who) \ {x}
    BY <1>2, <1>5 DEF Near
  <2>2. \A i \in Index : i \in ApprovedBy(r, l, who)' =>
          \/ i \in ApprovedBy(r, l, who)
          \/ r = h[x].req /\ h[x].pc = "fill" /\ <<l, i>> = h[x].slot /\ h[x].who = who
    BY <1>3 DEF Signs, ApprovedBy, At
  <2>3. ASSUME h[x].pc = "fill" PROVE h[x].slot[1] = h[x].level
    BY <2>3 DEF Signs, Ordering, In
  <2>4. ApprovedBy(r, l, who)' \subseteq Index
    BY DEF ApprovedBy, At
  <2>5. CASE h[x].pc = "fill" /\ Mine
    <3>1. h[x].slot \in SlotId /\ x \in Near(r, l, who)
      BY <2>5, InFlight DEF Signs, Near, Deciding
    <3>2. PICK j \in Index : h[x].slot[2] = j
      BY <3>1 DEF SlotId
    <3>3. \A i \in Index : <<l, i>> = h[x].slot => i = j
      BY <3>2
    <3>4. ApprovedBy(r, l, who)' \subseteq ApprovedBy(r, l, who) \cup {j}
      BY <2>2, <2>4, <3>3
    <3> QED BY <1>1, <2>1, <3>1, <3>4, WithinKeeps
  <2>6. CASE ~ (h[x].pc = "fill" /\ Mine)
    <3>1. ASSUME NEW i \in Index, h[x].pc = "fill", <<l, i>> = h[x].slot
          PROVE  l = h[x].level
      BY <2>3, <3>1
    <3>2. ApprovedBy(r, l, who)' \subseteq ApprovedBy(r, l, who)
      BY <2>2, <2>4, <2>6, <3>1
    <3> QED BY <1>1, <2>1, <3>2, WithinKeeps
  <2> QED BY <2>5, <2>6
<1> QED BY <1>4, <1>5

LEMMA SignsChecked ==
  ASSUME TypeOK, Ordering, Checked, NEW x \in Handler, Signs(x)
  PROVE  Checked'
<1>1. ASSUME NEW y \in Handler, h'[y] # None, h'[y].pc \in Deciding
      PROVE  h'[y].who \in Eligible[h'[y].level]
  BY <1>1 DEF Signs, Checked
<1>2. ASSUME NEW r \in Request, NEW i \in SlotId, slot'[r][i].decision = "approved"
      PROVE  slot'[r][i].by \in Eligible[i[1]]
  <2>1. CASE slot'[r][i] = slot[r][i]
    BY <1>2, <2>1 DEF Checked, EligibleSigned
  <2>2. CASE slot'[r][i] # slot[r][i]
    <3>1. /\ h[x] # None /\ h[x].pc = "fill" /\ i = h[x].slot
          /\ slot'[r][i].by = h[x].who
      BY <1>2, <2>2 DEF Signs
    <3>2. h[x].slot[1] = h[x].level /\ h[x].who \in Eligible[h[x].level]
      BY <3>1 DEF Ordering, In, Checked, Deciding
    <3> QED BY <3>1, <3>2
  <2> QED BY <2>1, <2>2
<1> QED BY <1>1, <1>2 DEF Checked, EligibleSigned

(* Every step is a handler's, or leaves the slots and whoever decides alone. *)
LEMMA NextSigns ==
  ASSUME TypeOK, [Next]_vars
  PROVE  \/ \E x \in Handler : Signs(x)
         \/ /\ slot' = slot
            /\ \A y \in Handler : h'[y] # None /\ h'[y].pc \in Deciding => h'[y] = h[y]
<1>1. ASSUME NEW x \in Handler, Step(x) \/ Abort(x) PROVE Signs(x)
  BY <1>1, StepSigns, GoesSigns DEF Abort, End
<1>2. ASSUME NEW x \in Handler, NEW r \in Request, Arrive(x, r)
      PROVE  /\ slot' = slot
             /\ \A y \in Handler : h'[y] # None /\ h'[y].pc \in Deciding => h'[y] = h[y]
  <2>1. PICK pc \in {"insert", "policy", "rejectSlots", "cancelMark"}, who \in Person :
          Begin(x, pc, r, who) /\ slot' = slot
    BY <1>2, ApprovalsAssumption DEF Arrive, CreateRequest, Cancel, Approve, Reject
  <2> QED BY <2>1 DEF Begin, Deciding, TypeOK
<1>3. ASSUME \/ \E r \in Request, a \in Account : BreakGlass(r, a)
             \/ Administer \/ UNCHANGED vars
      PROVE  h' = h /\ slot' = slot
  BY <1>3 DEF BreakGlass, Administer, EditPolicy, DeleteRules, InsertRule, vars
<1> QED BY <1>1, <1>2, <1>3 DEF Next

LEMMA StepRepeats ==
  ASSUME IsFiniteSet(Handler), TypeOK, Ordering, Repeats, [Next]_vars
  PROVE  Repeats'
<1>1. CASE \E x \in Handler : Signs(x)
  BY <1>1, SignsWithin
<1>2. CASE /\ slot' = slot
           /\ \A y \in Handler : h'[y] # None /\ h'[y].pc \in Deciding => h'[y] = h[y]
  <2> SUFFICES ASSUME NEW r \in Request, NEW l \in Level, NEW who \in Person
               PROVE  Within(r, l, who)'
    BY DEF Repeats
  <2>1. ApprovedBy(r, l, who)' = ApprovedBy(r, l, who)
    BY <1>2 DEF ApprovedBy, At
  <2>2. Near(r, l, who)' \subseteq Near(r, l, who)
    BY <1>2 DEF Near
  <2> QED BY <2>1, <2>2, WithinKeeps DEF Repeats
<1> QED BY <1>1, <1>2, NextSigns

LEMMA StepChecked ==
  ASSUME TypeOK, Ordering, Checked, [Next]_vars
  PROVE  Checked'
<1>1. CASE \E x \in Handler : Signs(x)
  BY <1>1, SignsChecked
<1>2. CASE /\ slot' = slot
           /\ \A y \in Handler : h'[y] # None /\ h'[y].pc \in Deciding => h'[y] = h[y]
  BY <1>2 DEF Checked, EligibleSigned
<1> QED BY <1>1, <1>2, NextSigns

LEMMA AlwaysOrdering == Spec => []Ordering
<1>1. Init => Insertion /\ Standing /\ Ordering
  BY DEF Init, Insertion, Standing, Ordering, In, LevelsInOrder, At, NoSlots, SlotId
<1>2. TypeOK /\ TypeOK' /\ Insertion /\ Standing /\ Ordering /\ [Next]_vars
        => Insertion' /\ Standing' /\ Ordering'
  BY StepKeeps, StepOrders
<1> QED BY <1>1, <1>2, TypeCorrect, PTL DEF Spec

(* However many requests a person sends at a time, what comes of them at one  *)
(* level is at most one approval for each of the requests in flight: whoever  *)
(* has approved and waits for the answers gets no further.                    *)
THEOREM RepeatedApprovalsAreBounded ==
  ASSUME IsFiniteSet(Handler)
  PROVE  Spec => []RepeatsAreBounded
<1>1. Init => Repeats
  <2> SUFFICES ASSUME Init, NEW r \in Request, NEW l \in Level, NEW who \in Person
               PROVE  Within(r, l, who)
    BY DEF Repeats
  <2>1. ApprovedBy(r, l, who) = {} /\ Near(r, l, who) = {}
    BY DEF Init, ApprovedBy, At, NoSlots, SlotId, Near
  <2> QED BY <2>1, FS_EmptySet, FS_CardinalityType DEF Within
<1>2. TypeOK /\ Ordering /\ Repeats /\ [Next]_vars => Repeats'
  BY StepRepeats
<1>3. Repeats => RepeatsAreBounded
  <2> SUFFICES ASSUME Repeats, NEW r \in Request, NEW l \in Level, NEW who \in Person
               PROVE  Cardinality(ApprovedBy(r, l, who)) <= Cardinality(Handler)
    BY DEF RepeatsAreBounded
  <2>1. Near(r, l, who) \subseteq Handler /\ ApprovedBy(r, l, who) \subseteq Index
    BY DEF Near, ApprovedBy, At
  <2>2. IsFiniteSet(Near(r, l, who)) /\ IsFiniteSet(ApprovedBy(r, l, who))
    <3>1. IsFiniteSet(Index)
      BY FS_Interval, ApprovalsAssumption DEF Index
    <3> QED BY <2>1, <3>1, FS_Subset
  <2>3. /\ Cardinality(Near(r, l, who)) \in Nat /\ Cardinality(ApprovedBy(r, l, who)) \in Nat
        /\ Cardinality(Handler) \in Nat
    BY <2>2, FS_CardinalityType
  <2>4. Cardinality(ApprovedBy(r, l, who)) + Cardinality(Near(r, l, who))
          <= Cardinality(Handler)
    BY DEF Repeats, Within
  <2> QED BY <2>3, <2>4
<1> QED BY <1>1, <1>2, <1>3, TypeCorrect, AlwaysOrdering, PTL DEF Spec

(* Every approval bears the name of somebody who is eligible at its level:    *)
(* eligibility is checked before a slot is picked, and a slot of that level   *)
(* and no other is filled.                                                    *)
THEOREM ApprovalsAreEligible == Spec => []EligibleSigned
<1>1. Init => Checked
  BY DEF Init, Checked, EligibleSigned, NoSlots
<1>2. TypeOK /\ Ordering /\ Checked /\ [Next]_vars => Checked'
  BY StepChecked
<1>3. Checked => EligibleSigned
  BY DEF Checked
<1> QED BY <1>1, <1>2, <1>3, TypeCorrect, AlwaysOrdering, PTL DEF Spec

-----------------------------------------------------------------------------
(* Nobody approves a request of their own, if no policy allows it.  The check
   reads the flag once, several statements before the slot is filled. *)

Approving == {"level", "distinct", "pick", "fill"}

OwnUnapproved ==
  \A r \in Request : \A i \in SlotId :
    slot[r][i].decision = "approved" => slot[r][i].by # Requester[r]

NotOwn ==
  /\ ~ policy.self
  /\ \A x \in Handler : h[x] # None /\ h[x].pc \in Approving =>
       h[x].who # Requester[h[x].req]
  /\ OwnUnapproved

(* What a step of handler x does: it approves in its own name, at its own
   request, and only once it is known to be somebody else's. *)
Serves(x) ==
  /\ h[x] # None /\ policy' = policy
  /\ \A y \in Handler : y # x => h'[y] = h[y]
  /\ h'[x] # None =>
       /\ h'[x].req = h[x].req /\ h'[x].who = h[x].who
       /\ h'[x].pc \in Approving =>
            \/ h[x].pc \in Approving
            \/ policy.self
            \/ h[x].who # Requester[h[x].req]
  /\ \A r \in Request : \A i \in SlotId :
       \/ slot'[r][i] = slot[r][i]
       \/ slot'[r][i].decision # "approved"
       \/ r = h[x].req /\ h[x].pc = "fill" /\ slot'[r][i].by = h[x].who

LEMMA ServesNotOwn ==
  ASSUME TypeOK, NotOwn, NEW x \in Handler, Serves(x)
  PROVE  NotOwn'
<1>1. ~ policy'.self
  BY DEF Serves, NotOwn
<1>2. ASSUME NEW y \in Handler, h'[y] # None, h'[y].pc \in Approving
      PROVE  h'[y].who # Requester[h'[y].req]
  <2>1. CASE y = x
    BY <1>2, <2>1 DEF Serves, NotOwn
  <2>2. CASE y # x
    BY <1>2, <2>2 DEF Serves, NotOwn
  <2> QED BY <2>1, <2>2
<1>3. OwnUnapproved'
  BY DEF Serves, NotOwn, OwnUnapproved, Approving
<1> QED BY <1>1, <1>2, <1>3 DEF NotOwn

(* A step that replaces the flight of x, or ends it, and approves nothing. *)
LEMMA GoesServes ==
  ASSUME TypeOK, NEW x \in Handler, h[x] # None, policy' = policy,
         \A r \in Request : \A i \in SlotId :
           slot'[r][i] = slot[r][i] \/ slot'[r][i].decision # "approved",
         \/ h' = [h EXCEPT ![x] = None]
         \/ \E f : /\ h' = [h EXCEPT ![x] = f]
                   /\ f.req = h[x].req /\ f.who = h[x].who
                   /\ f.pc \in Approving =>
                        \/ h[x].pc \in Approving
                        \/ policy.self
                        \/ h[x].who # Requester[h[x].req]
  PROVE  Serves(x)
BY DEF Serves, TypeOK

LEMMA StepServes ==
  ASSUME TypeOK, NEW x \in Handler, Step(x)
  PROVE  Serves(x)
<1> USE DEF In
<1>1. h[x] # None => /\ h[x] \in Flight /\ h[x].req \in Request
                     /\ h[x].level \in Level /\ h[x].slot \in SlotId
  BY InFlight
<1>2. ASSUME h[x] # None, policy' = policy, NEW pc,
             \A r \in Request : \A i \in SlotId :
               slot'[r][i] = slot[r][i] \/ slot'[r][i].decision # "approved",
             Goto(x, pc) \/ End(x),
             pc \in Approving => h[x].pc \in Approving
      PROVE  Serves(x)
  <2> DEFINE f == [h[x] EXCEPT !.pc = pc]
  <2>1. f.req = h[x].req /\ f.who = h[x].who /\ f.pc = pc
    BY <1>1, <1>2 DEF Flight
  <2>2. h' = [h EXCEPT ![x] = None] \/ h' = [h EXCEPT ![x] = f]
    BY <1>2 DEF Goto, End, TypeOK
  <2> QED BY <1>2, <2>1, <2>2, GoesServes
<1>3. CASE InsertRequest(x)
  <2>1. \A r \in Request : \A i \in SlotId :
          slot'[r][i] = slot[r][i] \/ slot'[r][i].decision # "approved"
    BY <1>1, <1>3 DEF InsertRequest, NewSlots, TypeOK
  <2> QED BY <1>2, <1>3, <2>1 DEF InsertRequest, Approving
<1>4. CASE TicketValid(x) \/ TicketInvalid(x) \/ Evaluate(x)
  BY <1>2, <1>4 DEF TicketValid, TicketInvalid, Evaluate, Approving
<1>5. CASE MarkRejected(x) \/ MarkCancelled(x)
  BY <1>2, <1>5 DEF MarkRejected, MarkCancelled, Approving
<1>6. CASE ReadPolicy(x)
  <2>1. CASE End(x)
    BY <1>2, <1>6, <2>1 DEF ReadPolicy, Approving
  <2>2. CASE ~ End(x)
    <3> DEFINE f == [h[x] EXCEPT !.pc = "level", !.policy = policy]
    <3>1. f.req = h[x].req /\ f.who = h[x].who
      BY <1>1, <1>6 DEF ReadPolicy, Flight
    <3>2. /\ h' = [h EXCEPT ![x] = f] /\ slot' = slot /\ policy' = policy /\ h[x] # None
          /\ policy.self \/ h[x].who # Requester[h[x].req]
      BY <1>6, <2>2 DEF ReadPolicy, TypeOK
    <3> HIDE DEF f
    <3> QED BY <3>1, <3>2, GoesServes
  <2> QED BY <2>1, <2>2
<1>7. CASE ReadLevel(x)
  <2>1. CASE End(x)
    BY <1>2, <1>7, <2>1 DEF ReadLevel, Approving
  <2>2. CASE ~ End(x)
    <3>1. PICK l \in Level : h' = [h EXCEPT ![x].pc = "distinct", ![x].level = l]
      BY <1>7, <2>2 DEF ReadLevel
    <3> DEFINE f == [h[x] EXCEPT !.pc = "distinct", !.level = l]
    <3>2. f.req = h[x].req /\ f.who = h[x].who
      BY <1>1, <1>7 DEF ReadLevel, Flight
    <3>3. /\ h' = [h EXCEPT ![x] = f] /\ slot' = slot /\ policy' = policy
          /\ h[x] # None /\ h[x].pc \in Approving
      BY <1>7, <3>1 DEF ReadLevel, Approving, TypeOK
    <3> HIDE DEF f
    <3> QED BY <3>2, <3>3, GoesServes
  <2> QED BY <2>1, <2>2
<1>8. CASE CheckDistinct(x)
  BY <1>2, <1>8 DEF CheckDistinct, Approving
<1>9. CASE PickSlot(x)
  <2>1. CASE End(x)
    BY <1>2, <1>9, <2>1 DEF PickSlot, Approving
  <2>2. CASE ~ End(x)
    <3>1. PICK i \in Index : h' = [h EXCEPT ![x].pc = "fill", ![x].slot = <<h[x].level, i>>]
      BY <1>9, <2>2 DEF PickSlot, At
    <3> DEFINE f == [h[x] EXCEPT !.pc = "fill", !.slot = <<h[x].level, i>>]
    <3>2. f.req = h[x].req /\ f.who = h[x].who
      BY <1>1, <1>9 DEF PickSlot, Flight
    <3>3. /\ h' = [h EXCEPT ![x] = f] /\ slot' = slot /\ policy' = policy
          /\ h[x] # None /\ h[x].pc \in Approving
      BY <1>9, <3>1 DEF PickSlot, Approving, TypeOK
    <3> HIDE DEF f
    <3> QED BY <3>2, <3>3, GoesServes
  <2> QED BY <2>1, <2>2
<1>10. CASE FillSlot(x)
  <2>1. /\ h[x] # None /\ h[x].pc = "fill" /\ policy' = policy
        /\ h' = [h EXCEPT ![x] = [h[x] EXCEPT !.pc = "evaluate"]]
    BY <1>10 DEF FillSlot, Goto, TypeOK
  <2>2. \A r \in Request : \A i \in SlotId :
          \/ slot'[r][i] = slot[r][i]
          \/ r = h[x].req /\ slot'[r][i].by = h[x].who
    BY <1>1, <1>10 DEF FillSlot, TypeOK
  <2>3. /\ h'[x].who = h[x].who /\ h'[x].req = h[x].req /\ h'[x].pc = "evaluate"
        /\ \A y \in Handler : y # x => h'[y] = h[y]
    BY <1>1, <2>1 DEF Flight, TypeOK
  <2> QED BY <2>1, <2>2, <2>3 DEF Serves, Approving
<1>11. CASE RejectSlots(x)
  <2>1. \A r \in Request : \A i \in SlotId :
          slot'[r][i] = slot[r][i] \/ slot'[r][i].decision # "approved"
    BY <1>1, <1>11 DEF RejectSlots, TypeOK
  <2> QED BY <1>2, <1>11, <2>1 DEF RejectSlots, Approving
<1>12. CASE MarkApproved(x)
  <2> DEFINE f == [h[x] EXCEPT !.pc = "grant", !.todo = Covers[h[x].req]]
  <2>1. f.req = h[x].req /\ f.who = h[x].who /\ f.pc \notin Approving
    BY <1>1, <1>12 DEF MarkApproved, Flight, Approving
  <2>2. h' = [h EXCEPT ![x] = f] /\ slot' = slot /\ policy' = policy /\ h[x] # None
    BY <1>12 DEF MarkApproved, TypeOK
  <2> HIDE DEF f
  <2> QED BY <2>1, <2>2, GoesServes
<1>13. ASSUME NEW a \in Account, IssueGrant(x, a) PROVE Serves(x)
  <2>1. CASE End(x)
    BY <1>2, <1>13, <2>1 DEF IssueGrant, Approving
  <2>2. CASE ~ End(x)
    <3> DEFINE f == [h[x] EXCEPT !.todo = h[x].todo \ {a}]
    <3>1. f.req = h[x].req /\ f.who = h[x].who /\ f.pc \notin Approving
      BY <1>1, <1>13 DEF IssueGrant, Flight, Approving
    <3>2. h' = [h EXCEPT ![x] = f] /\ slot' = slot /\ policy' = policy /\ h[x] # None
      BY <1>13, <2>2 DEF IssueGrant, TypeOK
    <3> HIDE DEF f
    <3> QED BY <3>1, <3>2, GoesServes
  <2> QED BY <2>1, <2>2
<1> QED BY <1>3, <1>4, <1>5, <1>6, <1>7, <1>8, <1>9, <1>10, <1>11, <1>12, <1>13
        DEF Step, CreateStep, ApproveStep, FinalizeStep, DecideStep

LEMMA StepNotOwn ==
  ASSUME \A p \in Policy : ~ p.self, TypeOK, NotOwn, [Next]_vars
  PROVE  NotOwn'
<1>1. ASSUME NEW x \in Handler, Step(x) PROVE NotOwn'
  BY <1>1, StepServes, ServesNotOwn
<1>2. ASSUME NEW x \in Handler, Abort(x) PROVE NotOwn'
  BY <1>2, GoesServes, ServesNotOwn DEF Abort, End
<1>3. ASSUME NEW x \in Handler, NEW r \in Request, Arrive(x, r) PROVE NotOwn'
  <2>1. PICK pc \in {"insert", "policy", "rejectSlots", "cancelMark"}, who \in Person :
          Begin(x, pc, r, who) /\ slot' = slot /\ policy' = policy
    BY <1>3, ApprovalsAssumption DEF Arrive, CreateRequest, Cancel, Approve, Reject
  <2>2. h'[x].pc \notin Approving /\ \A y \in Handler : y # x => h'[y] = h[y]
    BY <2>1 DEF Begin, Approving, TypeOK
  <2> QED BY <2>1, <2>2 DEF NotOwn, OwnUnapproved
<1>4. ASSUME NEW p \in Policy, EditPolicy(p) PROVE NotOwn'
  <2>1. p \in Policies
    BY ApprovalsAssumption
  <2>2. policy'.self = p.self /\ h' = h /\ slot' = slot
    BY <1>4, <2>1 DEF EditPolicy, Policies
  <2> QED BY <2>2 DEF NotOwn, OwnUnapproved
<1>5. CASE \/ DeleteRules \/ (\E l \in Level : InsertRule(l)) \/ UNCHANGED vars
           \/ \E r \in Request, a \in Account : BreakGlass(r, a)
  <2>1. policy'.self = policy.self /\ h' = h /\ slot' = slot
    BY <1>5 DEF BreakGlass, DeleteRules, InsertRule, vars, TypeOK, Policies
  <2> QED BY <2>1 DEF NotOwn, OwnUnapproved
<1> QED BY <1>1, <1>2, <1>3, <1>4, <1>5 DEF Next, Administer

(* Where no policy lets people approve their own requests, no slot of a request
   was ever approved by whoever made it. *)
THEOREM OwnRequestsStand ==
  ASSUME \A p \in Policy : ~ p.self
  PROVE  Spec => []OwnUnapproved
<1>1. Init => NotOwn
  BY DEF Init, NotOwn, OwnUnapproved, NoSlots
<1>2. TypeOK /\ NotOwn /\ [Next]_vars => NotOwn'
  BY StepNotOwn
<1>3. NotOwn => OwnUnapproved
  BY DEF NotOwn
<1> QED BY <1>1, <1>2, <1>3, TypeCorrect, PTL DEF Spec

-----------------------------------------------------------------------------
(* Grants are complete.  A grant is never taken back here, so a request that is
   approved has all of its grants when the handler that issues them ends. *)

Has(r, a) == \E g \in Grant :
  grants[g] # None /\ grants[g].request = r /\ grants[g].account = a

Progress == \A x \in Handler : In(x, "grant") =>
  \A a \in Covers[h[x].req] \ h[x].todo : Has(h[x].req, a)

Issuing(r) == \E x \in Handler : Granting(x, r)

(* what every step does but the end of a handler that was issuing *)
Keeps == Progress' /\ \A r \in Request : Complete(r) => Complete(r)'

(* A step of handler x that issues nothing and approves nothing. *)
Aside(x) ==
  /\ grants' = grants
  /\ ~ In(x, "grant") /\ ~ In(x, "grant")'
  /\ \A y \in Handler : y # x => h'[y] = h[y]
  /\ \A r \in Request : req'[r] = "approved" => req[r] = "approved"

LEMMA AsideKeeps ==
  ASSUME TypeOK, Progress, NEW x \in Handler, Aside(x)
  PROVE  Keeps
<1>1. ASSUME NEW r, NEW a, Has(r, a) PROVE Has(r, a)'
  BY <1>1 DEF Has, Aside
<1>2. \A y \in Handler : In(y, "grant") => In(y, "grant")' /\ h'[y] = h[y]
  BY DEF Aside, In
<1>3. \A y \in Handler : In(y, "grant")' => In(y, "grant") /\ h'[y] = h[y]
  BY DEF Aside, In
<1>4. Progress'
  BY <1>1, <1>3 DEF Progress
<1>5. \A r \in Request : Complete(r) => Complete(r)'
  <2> SUFFICES ASSUME NEW r \in Request, Complete(r), req'[r] = "approved",
                      ~ Issuing(r)', NEW a \in Covers[r]
               PROVE  Has(r, a)'
    BY DEF Complete, Issuing, Has
  <2>1. ~ Issuing(r)
    BY <1>2 DEF Issuing, Granting
  <2> QED BY <1>1, <2>1 DEF Complete, Issuing, Has, Aside
<1> QED BY <1>4, <1>5 DEF Keeps

LEMMA GotoAside ==
  ASSUME TypeOK, NEW x \in Handler, h[x] # None, h[x].pc # "grant", grants' = grants,
         NEW pc \in PC \ {"grant"}, Goto(x, pc) \/ End(x),
         \A r \in Request : req'[r] = "approved" => req[r] = "approved"
  PROVE  Aside(x)
<1>1. h[x] \in Flight
  BY InFlight
<1>2. h' = [h EXCEPT ![x] = None] \/ h' = [h EXCEPT ![x] = [h[x] EXCEPT !.pc = pc]]
  BY DEF Goto, End, TypeOK
<1> QED BY <1>1, <1>2 DEF Aside, In, TypeOK, Flight

(* The same, of a handler whose row becomes f. *)
LEMMA RowAside ==
  ASSUME TypeOK, NEW x \in Handler, In(x, "grant") = FALSE, NEW f,
         h' = [h EXCEPT ![x] = f], f = None \/ f.pc # "grant",
         grants' = grants, req' = req
  PROVE  Aside(x)
<1>1. h'[x] = f /\ \A y \in Handler : y # x => h'[y] = h[y]
  BY DEF TypeOK
<1> QED BY <1>1 DEF Aside, In

LEMMA StepAside ==
  ASSUME TypeOK, NEW x \in Handler,
         CreateStep(x) \/ ApproveStep(x) \/ Evaluate(x) \/ DecideStep(x)
  PROVE  Aside(x)
<1> USE DEF In
<1>1. h[x] # None => h[x] \in Flight /\ h[x].req \in Request
  BY InFlight
<1>2. CASE req' = req
  <2>1. CASE TicketValid(x)
    BY <1>2, <2>1, GotoAside DEF TicketValid, PC
  <2>2. CASE Evaluate(x)
    BY <1>2, <2>2, GotoAside DEF Evaluate, PC
  <2>3. CASE CheckDistinct(x)
    BY <1>2, <2>3, GotoAside DEF CheckDistinct, PC
  <2>4. CASE FillSlot(x)
    BY <1>2, <2>4, GotoAside DEF FillSlot, PC
  <2>5. CASE RejectSlots(x)
    BY <1>2, <2>5, GotoAside DEF RejectSlots, PC
  <2>6. CASE ReadPolicy(x)
    <3> DEFINE f == [h[x] EXCEPT !.pc = "level", !.policy = policy]
    <3>1. h' = [h EXCEPT ![x] = None] \/ h' = [h EXCEPT ![x] = f]
      BY <2>6 DEF ReadPolicy, End, TypeOK
    <3>2. f.pc # "grant" /\ In(x, "grant") = FALSE /\ grants' = grants
      BY <1>1, <2>6 DEF ReadPolicy, Flight
    <3> HIDE DEF f
    <3> QED BY <1>2, <3>1, <3>2, RowAside
  <2>7. CASE ReadLevel(x)
    <3>1. \/ h' = [h EXCEPT ![x] = None]
          \/ \E l \in Level :
               h' = [h EXCEPT ![x] = [h[x] EXCEPT !.pc = "distinct", !.level = l]]
      BY <2>7 DEF ReadLevel, End, TypeOK
    <3>2. /\ \A l \in Level : [h[x] EXCEPT !.pc = "distinct", !.level = l].pc # "grant"
          /\ In(x, "grant") = FALSE /\ grants' = grants
      BY <1>1, <2>7 DEF ReadLevel, Flight
    <3> QED BY <1>2, <3>1, <3>2, RowAside
  <2>8. CASE PickSlot(x)
    <3>1. \/ h' = [h EXCEPT ![x] = None]
          \/ \E i \in Index :
               h' = [h EXCEPT ![x] = [h[x] EXCEPT !.pc = "fill",
                                                  !.slot = <<h[x].level, i>>]]
      BY <2>8 DEF PickSlot, End, At, TypeOK
    <3>2. /\ \A i \in Index :
               [h[x] EXCEPT !.pc = "fill", !.slot = <<h[x].level, i>>].pc # "grant"
          /\ In(x, "grant") = FALSE /\ grants' = grants
      BY <1>1, <2>8 DEF PickSlot, Flight
    <3> QED BY <1>2, <3>1, <3>2, RowAside
  <2>9. CASE InsertRequest(x) \/ TicketInvalid(x) \/ MarkRejected(x) \/ MarkCancelled(x)
    <3>1. /\ h[x] # None /\ h[x].pc # "grant" /\ grants' = grants
          /\ End(x) \/ Goto(x, "ticket") \/ Goto(x, "evaluate")
      BY <2>9 DEF InsertRequest, TicketInvalid, MarkRejected, MarkCancelled
    <3> QED BY <1>2, <3>1, GotoAside DEF PC
  <2> QED BY <2>1, <2>2, <2>3, <2>4, <2>5, <2>6, <2>7, <2>8, <2>9
          DEF CreateStep, ApproveStep, DecideStep
<1>3. CASE req' # req
  <2>1. InsertRequest(x) \/ TicketInvalid(x) \/ MarkRejected(x) \/ MarkCancelled(x)
    BY <1>3 DEF CreateStep, ApproveStep, DecideStep, TicketValid, Evaluate, ReadPolicy,
                ReadLevel, CheckDistinct, PickSlot, FillSlot, RejectSlots
  <2>2. /\ h[x] # None /\ h[x].pc # "grant" /\ grants' = grants
        /\ End(x) \/ Goto(x, "ticket") \/ Goto(x, "evaluate")
    BY <2>1 DEF InsertRequest, TicketInvalid, MarkRejected, MarkCancelled
  <2>3. \E s \in Status \ {"approved"} : req' = [req EXCEPT ![h[x].req] = s]
    BY <2>1 DEF InsertRequest, TicketInvalid, MarkRejected, MarkCancelled, Status
  <2>4. \A r \in Request : req'[r] = "approved" => req[r] = "approved"
    BY <1>1, <2>2, <2>3 DEF TypeOK
  <2> QED BY <2>2, <2>4, GotoAside DEF PC
<1> QED BY <1>2, <1>3

LEMMA MarkKeeps ==
  ASSUME TypeOK, Progress, NEW x \in Handler, MarkApproved(x)
  PROVE  Keeps
<1>1. h[x] # None /\ h[x] \in Flight /\ h[x].req \in Request /\ grants' = grants
  BY InFlight DEF MarkApproved, In
<1>2. /\ h' = [h EXCEPT ![x] = [h[x] EXCEPT !.pc = "grant", !.todo = Covers[h[x].req]]]
      /\ req' = [req EXCEPT ![h[x].req] = "approved"]
      /\ ~ In(x, "grant")
  BY DEF MarkApproved, TypeOK, In
<1>3. [h[x] EXCEPT !.pc = "grant", !.todo = Covers[h[x].req]] \in Flight
  BY <1>1, ApprovalsAssumption DEF Flight, PC
<1>4. /\ h'[x] # None /\ h'[x].pc = "grant" /\ h'[x].req = h[x].req
      /\ h'[x].todo = Covers[h[x].req]
      /\ \A y \in Handler : y # x => h'[y] = h[y]
  BY <1>1, <1>2, <1>3, RowAssumption DEF TypeOK, Flight
<1>5. ASSUME NEW r, NEW a, Has(r, a) PROVE Has(r, a)'
  BY <1>1, <1>5 DEF Has
<1>6. Progress'
  <2> SUFFICES ASSUME NEW y \in Handler, In(y, "grant")', NEW r, r = h'[y].req,
                      NEW a \in Covers[r] \ h'[y].todo
               PROVE  Has(r, a)'
    BY DEF Progress
  <2>1. y # x
    BY <1>4
  <2>2. h'[y] = h[y] /\ In(y, "grant")
    BY <1>4, <2>1 DEF In
  <2> QED BY <1>5, <2>2 DEF Progress
<1>7. \A r \in Request : Complete(r) => Complete(r)'
  <2> SUFFICES ASSUME NEW r \in Request, Complete(r), req'[r] = "approved",
                      ~ Issuing(r)', NEW a \in Covers[r]
               PROVE  Has(r, a)'
    BY DEF Complete, Issuing, Has
  <2>1. r # h[x].req
    BY <1>4 DEF Issuing, Granting, In
  <2>2. req[r] = "approved"
    BY <1>1, <1>2, <2>1 DEF TypeOK
  <2>3. ~ Issuing(r)
    BY <1>2, <1>4 DEF Issuing, Granting, In
  <2> QED BY <1>5, <2>2, <2>3 DEF Complete, Issuing, Has
<1> QED BY <1>6, <1>7 DEF Keeps

LEMMA IssueKeeps ==
  ASSUME TypeOK, Progress, NEW x \in Handler, NEW b \in Account, IssueGrant(x, b)
  PROVE  Keeps
<1>1. h[x] # None /\ h[x] \in Flight /\ h[x].req \in Request /\ In(x, "grant") /\ req' = req
  BY InFlight DEF IssueGrant, In
<1>2. PICK g0 \in Grant :
        /\ grants[g0] = None
        /\ grants' = [grants EXCEPT ![g0] =
             [request |-> h[x].req, account |-> b, policy |-> h[x].policy]]
  BY DEF IssueGrant
<1>3. [request |-> h[x].req, account |-> b, policy |-> h[x].policy] \in Granted
  BY <1>1, InFlight DEF Granted
<1>4. ASSUME NEW r, NEW a, Has(r, a) PROVE Has(r, a)'
  BY <1>2, <1>4 DEF Has, TypeOK
<1> PICK q \in Request : q = h[x].req
  BY <1>1
<1>5. Has(q, b)'
  <2>1. /\ grants'[g0] # None /\ grants'[g0].request = q
        /\ grants'[g0].account = b
    BY <1>2, <1>3, RowAssumption DEF TypeOK
  <2> QED BY <2>1 DEF Has
<1>6. ASSUME NEW a \in Covers[q] \ (h[x].todo \ {b}) PROVE Has(q, a)'
  BY <1>1, <1>4, <1>5, <1>6 DEF Progress
<1>7. \A y \in Handler : y # x => h'[y] = h[y]
  BY DEF IssueGrant, End, TypeOK
<1>8. \/ h'[x] = None /\ h[x].todo = {b}
      \/ /\ h'[x] # None /\ h'[x].pc = "grant" /\ h'[x].req = h[x].req
         /\ h'[x].todo = h[x].todo \ {b}
  <2>1. CASE h[x].todo = {b}
    BY <2>1 DEF IssueGrant, End, TypeOK
  <2>2. CASE h[x].todo # {b}
    <3>1. h' = [h EXCEPT ![x] = [h[x] EXCEPT !.todo = h[x].todo \ {b}]]
      BY <2>2 DEF IssueGrant, TypeOK
    <3>2. [h[x] EXCEPT !.todo = h[x].todo \ {b}] \in Flight
      BY <1>1 DEF Flight
    <3> QED BY <1>1, <3>1, <3>2, RowAssumption DEF TypeOK, Flight, In
  <2> QED BY <2>1, <2>2
<1>9. Progress'
  <2> SUFFICES ASSUME NEW y \in Handler, In(y, "grant")', NEW r, r = h'[y].req,
                      NEW a \in Covers[r] \ h'[y].todo
               PROVE  Has(r, a)'
    BY DEF Progress
  <2>1. CASE y = x
    BY <1>6, <1>8, <2>1 DEF In
  <2>2. CASE y # x
    <3>1. h'[y] = h[y] /\ In(y, "grant")
      BY <1>7, <2>2 DEF In
    <3> QED BY <1>4, <3>1 DEF Progress
  <2> QED BY <2>1, <2>2
<1>10. \A r \in Request : Complete(r) => Complete(r)'
  <2> SUFFICES ASSUME NEW r \in Request, Complete(r), req'[r] = "approved",
                      ~ Issuing(r)', NEW a \in Covers[r]
               PROVE  Has(r, a)'
    BY DEF Complete, Issuing, Has
  <2>1. CASE Issuing(r)
    <3>1. r = q /\ h'[x] = None
      BY <1>7, <1>8, <2>1 DEF Issuing, Granting, In
    <3> QED BY <1>6, <1>8, <3>1
  <2>2. CASE ~ Issuing(r)
    BY <1>1, <1>4, <2>2 DEF Complete, Issuing, Has
  <2> QED BY <2>1, <2>2
<1> QED BY <1>9, <1>10 DEF Keeps

LEMMA BreakGlassKeeps ==
  ASSUME TypeOK, Progress, NEW r0 \in Request, NEW b \in Account,
         BreakGlass(r0, b)
  PROVE  Keeps
<1>1. PICK g0 \in Grant :
        /\ grants[g0] = None
        /\ grants' = [grants EXCEPT ![g0] = [request |-> r0, account |-> b, policy |-> None]]
  BY DEF BreakGlass
<1>2. [request |-> r0, account |-> b, policy |-> None] \in Granted
  BY DEF Granted
<1>3. ASSUME NEW r, NEW a, Has(r, a) PROVE Has(r, a)'
  BY <1>1, <1>3 DEF Has, TypeOK
<1>4. Has(r0, b)' /\ Covers[r0] = {b}
  <2>1. grants'[g0] # None /\ grants'[g0].request = r0 /\ grants'[g0].account = b
    BY <1>1, <1>2, RowAssumption DEF TypeOK
  <2> QED BY <2>1 DEF Has, BreakGlass
<1>5. Progress'
  BY <1>3 DEF Progress, BreakGlass, In
<1>6. \A r \in Request : Complete(r) => Complete(r)'
  <2> SUFFICES ASSUME NEW r \in Request, Complete(r), req'[r] = "approved",
                      ~ Issuing(r)', NEW a \in Covers[r]
               PROVE  Has(r, a)'
    BY DEF Complete, Issuing, Has
  <2>1. CASE r = r0
    BY <1>4, <2>1
  <2>2. CASE r # r0
    <3>1. req[r] = "approved" /\ ~ Issuing(r)
      BY <2>2 DEF BreakGlass, Issuing, Granting, In, TypeOK
    <3> QED BY <1>3, <3>1 DEF Complete, Issuing, Has
  <2> QED BY <2>1, <2>2
<1> QED BY <1>5, <1>6 DEF Keeps

(* Approval is never half done, but where a handler is cut off: whatever      *)
(* requests, decisions, cancellations, second approvers and policy edits come *)
(* in between, a request that is approved has a grant for each of its         *)
(* accounts or a handler that is issuing them, until that handler dies on the *)
(* way (issueGrants is not in the transaction that marks the request).        *)
THEOREM ApprovalsAreComplete == Spec => ApprovedIsGranted
<1>1. Init => Progress
  BY DEF Init, Progress, In
<1>2. TypeOK /\ Progress /\ [Next]_vars =>
        /\ Progress'
        /\ \A r \in Request : Complete(r) /\ ~ Complete(r)' =>
             \E x \in Handler : Granting(x, r) /\ Abort(x)
  <2> SUFFICES ASSUME TypeOK, Progress, [Next]_vars
               PROVE  \/ Keeps
                      \/ /\ Progress'
                         /\ \A r \in Request : Complete(r) /\ ~ Complete(r)' =>
                              \E x \in Handler : Granting(x, r) /\ Abort(x)
    BY DEF Keeps
  <2>1. ASSUME NEW x \in Handler, Step(x) PROVE Keeps
    BY <2>1, StepAside, AsideKeeps, MarkKeeps, IssueKeeps DEF Step, FinalizeStep
  <2>2. ASSUME NEW x \in Handler, Abort(x)
        PROVE  /\ Progress'
               /\ \A r \in Request : Complete(r) /\ ~ Complete(r)' =>
                    \E y \in Handler : Granting(y, r) /\ Abort(y)
    <3>1. /\ h' = [h EXCEPT ![x] = None]
          /\ grants' = grants /\ req' = req
      BY <2>2 DEF Abort, End
    <3>2. h'[x] = None /\ \A y \in Handler : y # x => h'[y] = h[y]
      BY <3>1 DEF TypeOK
    <3>3. Progress'
      BY <3>1, <3>2 DEF Progress, Has, In
    <3>4. ASSUME NEW r \in Request, Complete(r), ~ Complete(r)' PROVE Granting(x, r)
      BY <3>1, <3>2, <3>4 DEF Complete, Granting, In
    <3> QED BY <2>2, <3>3, <3>4
  <2>3. ASSUME NEW x \in Handler, NEW r \in Request, Arrive(x, r)
        PROVE  Keeps
    <3>1. PICK pc \in {"insert", "policy", "rejectSlots", "cancelMark"}, who \in Person :
            Begin(x, pc, r, who) /\ h[x] = None /\ grants' = grants /\ req' = req
      BY <2>3, ApprovalsAssumption DEF Arrive, CreateRequest, Cancel, Approve, Reject, Free
    <3>2. Aside(x)
      BY <3>1 DEF Aside, Begin, In, TypeOK
    <3> QED BY <3>2, AsideKeeps
  <2>4. ASSUME NEW r \in Request, NEW a \in Account, BreakGlass(r, a)
        PROVE  Keeps
    BY <2>4, BreakGlassKeeps
  <2>5. ASSUME Administer \/ UNCHANGED vars PROVE Keeps
    <3>1. h' = h /\ grants' = grants /\ req' = req
      BY <2>5 DEF Administer, EditPolicy, DeleteRules, InsertRule, vars
    <3> QED BY <3>1 DEF Keeps, Progress, Complete, Has, Granting, In
  <2> QED BY <2>1, <2>2, <2>3, <2>4, <2>5 DEF Next
<1> QED BY <1>1, <1>2, TypeCorrect, PTL DEF Spec, ApprovedIsGranted

-----------------------------------------------------------------------------
(* What another module needs to know of grants and of slots. *)

(* Rows are inserted one at a time, and never changed. *)
LEMMA GrantsGrow ==
  ASSUME TypeOK, [Next]_vars
  PROVE  \/ grants' = grants
         \/ \E g \in Grant, row \in Granted :
              grants[g] = None /\ grants' = [grants EXCEPT ![g] = row]
<1> DEFINE Grows == \E g \in Grant, row \in Granted :
                     grants[g] = None /\ grants' = [grants EXCEPT ![g] = row]
<1>1. ASSUME NEW x \in Handler, Step(x), \A a \in Account : ~ IssueGrant(x, a)
      PROVE  grants' = grants
  BY <1>1 DEF Step, CreateStep, InsertRequest, TicketValid, TicketInvalid, ApproveStep,
    ReadPolicy, ReadLevel, CheckDistinct, PickSlot, FillSlot, FinalizeStep, Evaluate,
    MarkApproved, DecideStep, RejectSlots, MarkRejected, MarkCancelled
<1>2. ASSUME NEW x \in Handler, NEW a \in Account, IssueGrant(x, a)
      PROVE  Grows
  <2>1. h[x].req \in Request /\ h[x].policy \in Policies
    BY <1>2, InFlight DEF IssueGrant, In
  <2>2. [request |-> h[x].req, account |-> a, policy |-> h[x].policy] \in Granted
    BY <2>1 DEF Granted
  <2> QED BY <1>2, <2>2 DEF IssueGrant
<1>3. ASSUME NEW r \in Request, NEW a \in Account, BreakGlass(r, a)
      PROVE  Grows
  <2>1. [request |-> r, account |-> a, policy |-> None] \in Granted
    BY DEF Granted
  <2> QED BY <1>3, <2>1 DEF BreakGlass
<1>4. ASSUME NEW x \in Handler, Abort(x) \/ \E r \in Request : Arrive(x, r)
      PROVE  grants' = grants
  BY <1>4 DEF Abort, Arrive, CreateRequest, Cancel, Approve, Reject
<1>5. ASSUME Administer \/ UNCHANGED vars PROVE grants' = grants
  BY <1>5 DEF Administer, EditPolicy, DeleteRules, InsertRule, vars
<1> HIDE DEF Grows
<1>6. grants' = grants \/ Grows
  <2>1. ASSUME NEW x \in Handler, Step(x) PROVE grants' = grants \/ Grows
    BY <1>1, <1>2, <2>1
  <2>2. CASE \E r \in Request, a \in Account : BreakGlass(r, a)
    BY <1>3, <2>2
  <2>3. CASE \E x \in Handler : Abort(x) \/ \E r \in Request : Arrive(x, r)
    BY <1>4, <2>3
  <2>4. \/ \E x \in Handler : Step(x)
        \/ \E r \in Request, a \in Account : BreakGlass(r, a)
        \/ \E x \in Handler : Abort(x) \/ \E r \in Request : Arrive(x, r)
        \/ Administer \/ UNCHANGED vars
    BY DEF Next
  <2> QED BY <1>5, <2>1, <2>2, <2>3, <2>4
<1> QED BY <1>6 DEF Grows
=============================================================================
