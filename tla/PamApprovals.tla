----------------------------- MODULE PamApprovals -----------------------------
(***************************************************************************)
(* From an access request to its grants: the request and approval handlers *)
(* of the PAM layer (api/pam/v1/requests, api/pam/v1/break-glass, the      *)
(* policy editor) over pam.access_requests, pam.request_approvals,         *)
(* pam.access_grants and pam.access_policies.                              *)
(*                                                                         *)
(* A handler runs its SQL statements one by one, each in a transaction of  *)
(* its own, so each statement is an action; only the creation of a request *)
(* and break-glass are transactions of several statements.  A person is    *)
(* who acts; Eligible stands for assertApproverEligible and                *)
(* assertNoSodConflict, whose answers depend on tables nobody edits here.  *)
(***************************************************************************)
EXTENDS Integers, FiniteSets

CONSTANTS
  Request,     \* identities of access requests
  Account,     \* privileged accounts
  Person,      \* users
  Handler,     \* bound: HTTP requests in flight at a time
  Grant,       \* bound: identities of grants
  Level,       \* approval levels
  MaxQuorum,   \* bound: the largest quorum of a level
  Policy,      \* the policies an administrator writes
  Requester,   \* who makes each request
  Covers,      \* the accounts each request asks for
  Eligible,    \* who may approve at each level
  Allow,       \* which operations and faults a run includes
  None         \* a value that is no person, no handler, no grant

Index == 1 .. MaxQuorum
Types == {"none", "one", "multi_level"}
Rules == [Level -> 0 .. MaxQuorum]       \* 0: the policy has no such level
Policies == [type : Types, ticket : BOOLEAN, self : BOOLEAN, rules : Rules]

ASSUME ApprovalsAssumption ==
  /\ MaxQuorum \in Nat \ {0}
  /\ Level \subseteq Nat /\ 1 \in Level
  /\ Policy \subseteq Policies /\ Policy # {}
  /\ Requester \in [Request -> Person]
  /\ Covers \in [Request -> (SUBSET Account) \ {{}}]
  /\ Eligible \in [Level -> SUBSET Person]
  /\ Allow \subseteq {"reject", "cancel", "ticket", "breakglass", "edit",
                      "double", "crash"}
  /\ None \notin Person \cup Policies

VARIABLES
  policy,  \* the policy of the accounts' safe, with its rules
  edit,    \* the policy editor between its statements
  req,     \* access_requests.status
  slot,    \* request_approvals: one slot per unit of a level's quorum
  grants,  \* access_grants, with the policy the issuing handler held
  h        \* the handlers in flight

vars == <<policy, edit, req, slot, grants, h>>

Status == {"none", "pending", "approved", "rejected", "cancelled"}
Decision == {"none", "pending", "approved", "rejected"}
SlotId == Level \X Index
Slot == [decision : Decision, by : Person \cup {None}]
PC == {"insert", "ticket", "policy", "level", "distinct", "pick", "fill",
       "evaluate", "mark", "grant", "rejectSlots", "rejectMark", "cancelMark"}
Flight == [pc : PC, req : Request, who : Person, policy : Policies,
           level : Level, slot : SlotId, todo : SUBSET Account]
Granted == [request : Request, account : Account,
            policy : Policies \cup {None}]

ASSUME RowAssumption == None \notin Flight \cup Granted

-----------------------------------------------------------------------------
(* The policy and what it asks of a request's slots *)

(* resolveRequestPolicy: no rules stand for one manager at level 1 *)
Quorum(p) ==
  IF \A l \in Level : p.rules[l] = 0
  THEN [l \in Level |-> IF l = 1 THEN 1 ELSE 0]
  ELSE p.rules

At(slots, l, d) == {i \in Index : slots[<<l, i>>].decision = d}
Slots(slots, l) == {i \in Index : slots[<<l, i>>].decision # "none"}
Rejected(slots) == \E s \in SlotId : slots[s].decision = "rejected"

(* What a level needs: its rule's quorum, or what evaluateApprovals assumes
   of a level the policy no longer mentions. *)
Needed(p, slots, l) ==
  IF Quorum(p)[l] > 0 THEN Quorum(p)[l]
  ELSE IF p.type = "one" THEN 1 ELSE Cardinality(Slots(slots, l))

(* every level that has slots has the approvals it needs *)
QuorumMet(p, slots) ==
  \A l \in Level : Slots(slots, l) # {} =>
                     Cardinality(At(slots, l, "approved")) >= Needed(p, slots, l)

(* Mutant: one approval of any level is enough. *)
SatisfiedByOne(p, slots) ==
  p.type = "none" \/ \E s \in SlotId : slots[s].decision = "approved"

Satisfied(p, slots) ==
  \/ p.type = "none"
  \/ /\ ~ Rejected(slots)
     /\ \E l \in Level : Slots(slots, l) # {}
     /\ QuorumMet(p, slots)

NewSlots(p) ==
  [s \in SlotId |->
     [decision |-> IF p.type # "none" /\ s[2] <= Quorum(p)[s[1]]
                   THEN "pending" ELSE "none",
      by |-> None]]

NoSlots == [s \in SlotId |-> [decision |-> "none", by |-> None]]

(* Mutant: an approver may decide again. *)
NeverDecided(r, l, who) == FALSE

(* hasDecidedAtLevel *)
HasDecided(r, l, who) == \E i \in Index : slot[r][<<l, i>>].by = who

-----------------------------------------------------------------------------
Begin(x, pc, r, who) ==
  h' = [h EXCEPT ![x] = [pc |-> pc, req |-> r, who |-> who, policy |-> policy,
                         level |-> 1, slot |-> <<1, 1>>, todo |-> {}]]
Goto(x, pc) == h' = [h EXCEPT ![x].pc = pc]
End(x) == h' = [h EXCEPT ![x] = None]

In(x, pc) == h[x] # None /\ h[x].pc = pc

(* Without "double" a person waits for one request to answer before sending
   the next. *)
Free(x, who) ==
  /\ h[x] = None
  /\ "double" \in Allow \/ \A y \in Handler : h[y] # None => h[y].who # who

Init ==
  /\ policy \in Policy
  /\ edit = None
  /\ req = [r \in Request |-> "none"]
  /\ slot = [r \in Request |-> NoSlots]
  /\ grants = [g \in Grant |-> None]
  /\ h = [x \in Handler |-> None]

-----------------------------------------------------------------------------
(* requests/index.post.ts: create a request *)

CreateRequest(x, r) ==
  /\ Free(x, Requester[r])
  /\ req[r] = "none"
  /\ \A y \in Handler : h[y] # None => h[y].req # r
  /\ Begin(x, "insert", r, Requester[r])
  /\ UNCHANGED <<policy, edit, req, slot, grants>>

(* the transaction: request, accounts and slots *)
InsertRequest(x) ==
  /\ In(x, "insert")
  /\ LET r == h[x].req
         p == h[x].policy
     IN /\ req' = [req EXCEPT ![r] = "pending"]
        /\ slot' = [slot EXCEPT ![r] = NewSlots(p)]
        /\ IF p.ticket THEN Goto(x, "ticket")
           ELSE IF p.type = "none" THEN Goto(x, "evaluate")
           ELSE End(x)
  /\ UNCHANGED <<policy, edit, grants>>

TicketValid(x) ==
  /\ In(x, "ticket")
  /\ IF h[x].policy.type = "none" THEN Goto(x, "evaluate") ELSE End(x)
  /\ UNCHANGED <<policy, edit, req, slot, grants>>

TicketInvalid(x) ==
  /\ In(x, "ticket") /\ "ticket" \in Allow
  /\ req' = [req EXCEPT ![h[x].req] = "rejected"]
  /\ End(x)
  /\ UNCHANGED <<policy, edit, slot, grants>>

-----------------------------------------------------------------------------
(* requests/[id]/approve.post.ts *)

Approve(x, r, who) ==
  /\ Free(x, who)
  /\ req[r] = "pending"
  /\ Begin(x, "policy", r, who)
  /\ UNCHANGED <<policy, edit, req, slot, grants>>

(* Mutant: the requester may approve. *)
ReadPolicyOnly(x) ==
  /\ In(x, "policy")
  /\ h' = [h EXCEPT ![x].pc = "level", ![x].policy = policy]
  /\ UNCHANGED <<policy, edit, req, slot, grants>>

(* resolveRequestPolicy, then no self-approval *)
ReadPolicy(x) ==
  /\ In(x, "policy")
  /\ IF h[x].who = Requester[h[x].req] /\ ~ policy.self
     THEN End(x)
     ELSE h' = [h EXCEPT ![x].pc = "level", ![x].policy = policy]
  /\ UNCHANGED <<policy, edit, req, slot, grants>>

(* Mutant: any level with a pending slot. *)
ReadAnyLevel(x) ==
  /\ In(x, "level")
  /\ \E l \in Level :
       /\ At(slot[h[x].req], l, "pending") # {}
       /\ h' = [h EXCEPT ![x].pc = "distinct", ![x].level = l]
  /\ UNCHANGED <<policy, edit, req, slot, grants>>

(* the sequential gate: the lowest level with a pending slot, or 409 *)
ReadLevel(x) ==
  /\ In(x, "level")
  /\ LET Pending(l) == At(slot[h[x].req], l, "pending") # {}
     IN \/ /\ \A l \in Level : ~ Pending(l)
           /\ End(x)
        \/ \E l \in Level :
             /\ Pending(l)
             /\ \A m \in Level : m < l => ~ Pending(m)
             /\ h' = [h EXCEPT ![x].pc = "distinct", ![x].level = l]
  /\ UNCHANGED <<policy, edit, req, slot, grants>>

CheckDistinct(x) ==
  /\ In(x, "distinct")
  /\ IF \/ HasDecided(h[x].req, h[x].level, h[x].who)
        \/ h[x].who \notin Eligible[h[x].level]
     THEN End(x) ELSE Goto(x, "pick")
  /\ UNCHANGED <<policy, edit, req, slot, grants>>

(* SELECT one pending slot of the level, or 409 *)
PickSlot(x) ==
  /\ In(x, "pick")
  /\ LET free == At(slot[h[x].req], h[x].level, "pending")
     IN \/ free = {} /\ End(x)
        \/ \E i \in free :
             h' = [h EXCEPT ![x].pc = "fill",
                            ![x].slot = <<h[x].level, i>>]
  /\ UNCHANGED <<policy, edit, req, slot, grants>>

(* Mutant: the last approver's handler answers without finalizing. *)
FillOnly(x) ==
  /\ In(x, "fill")
  /\ slot' = [slot EXCEPT ![h[x].req][h[x].slot] =
                [decision |-> "approved", by |-> h[x].who]]
  /\ End(x)
  /\ UNCHANGED <<policy, edit, req, grants>>

(* UPDATE that slot by its id, whatever became of it *)
FillSlot(x) ==
  /\ In(x, "fill")
  /\ slot' = [slot EXCEPT ![h[x].req][h[x].slot] =
                [decision |-> "approved", by |-> h[x].who]]
  /\ Goto(x, "evaluate")
  /\ UNCHANGED <<policy, edit, req, grants>>

-----------------------------------------------------------------------------
(* finalizeIfApproved and issueGrants *)

Evaluate(x) ==
  /\ In(x, "evaluate")
  /\ IF Satisfied(h[x].policy, slot[h[x].req]) THEN Goto(x, "mark") ELSE End(x)
  /\ UNCHANGED <<policy, edit, req, slot, grants>>

(* Mutant: the request is approved and its grants forgotten. *)
MarkOnly(x) ==
  /\ In(x, "mark")
  /\ req' = [req EXCEPT ![h[x].req] = "approved"]
  /\ End(x)
  /\ UNCHANGED <<policy, edit, slot, grants>>

MarkApproved(x) ==
  /\ In(x, "mark")
  /\ req' = [req EXCEPT ![h[x].req] = "approved"]
  /\ h' = [h EXCEPT ![x].pc = "grant", ![x].todo = Covers[h[x].req]]
  /\ UNCHANGED <<policy, edit, slot, grants>>

IssueGrant(x, a) ==
  /\ In(x, "grant") /\ a \in h[x].todo
  /\ \E g \in Grant :
       /\ grants[g] = None
       /\ grants' = [grants EXCEPT ![g] =
            [request |-> h[x].req, account |-> a, policy |-> h[x].policy]]
  /\ IF h[x].todo = {a} THEN End(x)
     ELSE h' = [h EXCEPT ![x].todo = @ \ {a}]
  /\ UNCHANGED <<policy, edit, req, slot>>

-----------------------------------------------------------------------------
(* requests/[id]/reject.post.ts *)

Reject(x, r, who) ==
  /\ Free(x, who) /\ "reject" \in Allow
  /\ req[r] = "pending"
  /\ Begin(x, "rejectSlots", r, who)
  /\ UNCHANGED <<policy, edit, req, slot, grants>>

RejectSlots(x) ==
  /\ In(x, "rejectSlots")
  /\ slot' = [slot EXCEPT ![h[x].req] =
       [s \in SlotId |->
          IF slot[h[x].req][s].decision = "pending"
          THEN [decision |-> "rejected", by |-> h[x].who]
          ELSE slot[h[x].req][s]]]
  /\ Goto(x, "rejectMark")
  /\ UNCHANGED <<policy, edit, req, grants>>

MarkRejected(x) ==
  /\ In(x, "rejectMark")
  /\ req' = [req EXCEPT ![h[x].req] = "rejected"]
  /\ End(x)
  /\ UNCHANGED <<policy, edit, slot, grants>>

(* requests/[id]/cancel.post.ts *)

Cancel(x, r) ==
  /\ Free(x, Requester[r]) /\ "cancel" \in Allow
  /\ req[r] = "pending"
  /\ Begin(x, "cancelMark", r, Requester[r])
  /\ UNCHANGED <<policy, edit, req, slot, grants>>

MarkCancelled(x) ==
  /\ In(x, "cancelMark")
  /\ req' = [req EXCEPT ![h[x].req] = "cancelled"]
  /\ End(x)
  /\ UNCHANGED <<policy, edit, slot, grants>>

(* break-glass.post.ts: an approved request and its grant, in one transaction *)
BreakGlass(r, a) ==
  /\ "breakglass" \in Allow
  /\ req[r] = "none" /\ Covers[r] = {a}
  /\ \A y \in Handler : h[y] # None => h[y].req # r
  /\ req' = [req EXCEPT ![r] = "approved"]
  /\ \E g \in Grant :
       /\ grants[g] = None
       /\ grants' = [grants EXCEPT ![g] =
            [request |-> r, account |-> a, policy |-> None]]
  /\ UNCHANGED <<policy, edit, slot, h>>

-----------------------------------------------------------------------------
(* pamPolicyStore.updatePolicy and replaceRules *)

NoRules == [l \in Level |-> 0]

EditPolicy(p) ==
  /\ "edit" \in Allow /\ edit = None
  /\ policy' = [p EXCEPT !.rules = policy.rules]
  /\ edit' = [pc |-> "delete", rules |-> p.rules]
  /\ UNCHANGED <<req, slot, grants, h>>

DeleteRules ==
  /\ edit # None /\ edit.pc = "delete"
  /\ policy' = [policy EXCEPT !.rules = NoRules]
  /\ edit' = IF edit.rules = NoRules THEN None ELSE [edit EXCEPT !.pc = "insert"]
  /\ UNCHANGED <<req, slot, grants, h>>

InsertRule(l) ==
  /\ edit # None /\ edit.pc = "insert" /\ edit.rules[l] > 0
  /\ policy' = [policy EXCEPT !.rules[l] = edit.rules[l]]
  /\ edit' = LET left == [edit.rules EXCEPT ![l] = 0]
             IN IF left = NoRules THEN None ELSE [edit EXCEPT !.rules = left]
  /\ UNCHANGED <<req, slot, grants, h>>

-----------------------------------------------------------------------------
(* A statement fails, or the server dies: the handler goes no further. *)
Abort(x) ==
  /\ "crash" \in Allow /\ h[x] # None
  /\ End(x)
  /\ UNCHANGED <<policy, edit, req, slot, grants>>

ApproveStep(x) ==
  \/ ReadPolicy(x)
  \/ ReadLevel(x)
  \/ CheckDistinct(x)
  \/ PickSlot(x)
  \/ FillSlot(x)

FinalizeStep(x) ==
  \/ Evaluate(x)
  \/ MarkApproved(x)
  \/ \E a \in Account : IssueGrant(x, a)

DecideStep(x) ==
  \/ RejectSlots(x)
  \/ MarkRejected(x)
  \/ MarkCancelled(x)

CreateStep(x) ==
  \/ InsertRequest(x)
  \/ TicketValid(x)
  \/ TicketInvalid(x)

(* what a handler in flight does next *)
Step(x) ==
  \/ CreateStep(x)
  \/ ApproveStep(x)
  \/ FinalizeStep(x)
  \/ DecideStep(x)

Arrive(x, r) ==
  \/ CreateRequest(x, r)
  \/ Cancel(x, r)
  \/ \E who \in Person : Approve(x, r, who) \/ Reject(x, r, who)

Administer ==
  \/ \E p \in Policy : EditPolicy(p)
  \/ DeleteRules
  \/ \E l \in Level : InsertRule(l)

Next ==
  \/ \E x \in Handler : Step(x) \/ Abort(x)
  \/ \E x \in Handler, r \in Request : Arrive(x, r)
  \/ \E r \in Request, a \in Account : BreakGlass(r, a)
  \/ Administer

Spec == Init /\ [][Next]_vars

(* A request being served is served to its end; nobody has to send one. *)
FairSpec == Spec /\ \A x \in Handler : WF_vars(Step(x))

-----------------------------------------------------------------------------
(* Properties *)

(* Type correctness. *)
TypeOK ==
  /\ policy \in Policies
  /\ edit = None \/ edit \in [pc : {"delete", "insert"}, rules : Rules]
  /\ req \in [Request -> Status]
  /\ slot \in [Request -> [SlotId -> Slot]]
  /\ grants \in [Grant -> Granted \cup {None}]
  /\ h \in [Handler -> Flight \cup {None}]

(* A grant that does not come from break-glass stands on approvals: at every
   level of its request at least the quorum of the policy that the handler
   which issued it had read, in spite of rejections, slots overwritten by two
   approvers and policy edits since (finalizeIfApproved, issueGrants). *)
GrantNeedsQuorum ==
  \A g \in Grant :
    grants[g] # None /\ grants[g].policy # None =>
      \/ grants[g].policy.type = "none"
      \/ QuorumMet(grants[g].policy, slot[grants[g].request])

(* Levels are approved in order: when a slot of a level is approved, no slot
   of a lower one still waits (currentPendingLevel, read long before the slot
   is filled). *)
LevelsInOrder ==
  \A r \in Request : \A l, m \in Level :
    l < m /\ At(slot[r], m, "approved") # {} => At(slot[r], l, "pending") = {}

(* What one person approves of a level stays within the requests he can have in
   flight: hasDecidedAtLevel turns away whoever has already decided, and only
   those of his requests pass it that have read before the first of them wrote.
   More than one slot is his when two of them do. *)
ApprovedBy(r, l, who) ==
  {i \in At(slot[r], l, "approved") : slot[r][<<l, i>>].by = who}

RepeatsAreBounded ==
  \A r \in Request, l \in Level, who \in Person :
    Cardinality(ApprovedBy(r, l, who)) <= Cardinality(Handler)

(* An approved request has a grant for each of its accounts, or a handler is
   still issuing them; only a handler that is cut off between its statements
   (finalizeIfApproved, issueGrants) ends that, and no rejection, cancellation
   or second approver that finalizes the same request. *)
Granting(x, r) == In(x, "grant") /\ h[x].req = r

Complete(r) ==
  req[r] = "approved" =>
    \/ \E x \in Handler : Granting(x, r)
    \/ \A a \in Covers[r] : \E g \in Grant :
         grants[g] # None /\ grants[g].request = r /\ grants[g].account = a

ApprovedIsGranted ==
  [][\A r \in Request : Complete(r) /\ ~ Complete(r)' =>
        \E x \in Handler : Granting(x, r) /\ Abort(x)]_vars

(* When the approvals a request needs are all there, somebody's handler
   finalizes it: of approvers that finish together, one sees them all. *)
FullyApproved(r) ==
  /\ \A s \in SlotId : slot[r][s].decision \in {"none", "approved"}
  /\ \E s \in SlotId : slot[r][s].decision = "approved"

SlotsDecide == \A r \in Request : FullyApproved(r) ~> req[r] # "pending"
=============================================================================
