---------------------------- MODULE PamAccess_proofs ----------------------------
(***************************************************************************)
(* The two sides of access together: each keeps what was proved of it      *)
(* alone, and the table they share carries the approvals of one side over  *)
(* to the sessions of the other.                                           *)
(***************************************************************************)
EXTENDS PamAccess, TLAPS

AP == INSTANCE PamApprovals_proofs
  WITH Handler <- ApprovalHandler, Allow <- ApprovalAllow, h <- ah

SP == INSTANCE PamSessions_proofs
  WITH Handler <- SessionHandler, Allow <- SessionAllow, h <- sh

-----------------------------------------------------------------------------
(* AP and SP name the definitions that PamAccess names Approvals and Sessions. *)

LEMMA SameApprovalSets ==
  /\ Approvals!SlotId = AP!SlotId
  /\ Approvals!Policies = AP!Policies
  /\ Approvals!Flight = AP!Flight
  /\ Approvals!Granted = AP!Granted
<1>1. Approvals!Index = AP!Index /\ Approvals!PC = AP!PC /\ Approvals!Types = AP!Types
  BY DEF Approvals!Index, AP!Index, Approvals!PC, AP!PC, Approvals!Types, AP!Types
<1>2. Approvals!SlotId = AP!SlotId
  BY <1>1 DEF Approvals!SlotId, AP!SlotId
<1>3. Approvals!Policies = AP!Policies
  BY <1>1 DEF Approvals!Policies, AP!Policies, Approvals!Rules, AP!Rules
<1>4. Approvals!Flight = AP!Flight
  BY <1>1, <1>2, <1>3 DEF Approvals!Flight, AP!Flight
<1>5. Approvals!Granted = AP!Granted
  BY <1>3 DEF Approvals!Granted, AP!Granted
<1> QED BY <1>2, <1>3, <1>4, <1>5

LEMMA SameSessionSets ==
  /\ Sessions!Live = SP!Live
  /\ Sessions!Flight = SP!Flight
  /\ Sessions!Connection = SP!Connection
BY DEF Sessions!Live, SP!Live, Sessions!PC, SP!PC, Sessions!ConnPC, SP!ConnPC,
       Sessions!Flight, SP!Flight, Sessions!Connection, SP!Connection

(* What either side assumes of its constants. *)
LEMMA Assumptions ==
  /\ AP!ApprovalsAssumption /\ AP!RowAssumption
  /\ SP!SessionsAssumption /\ SP!NoneAssumption
BY AccessAssumption, SameApprovalSets, SameSessionSets
DEF AP!ApprovalsAssumption, AP!RowAssumption, SP!SessionsAssumption, SP!NoneAssumption

LEMMA SameCardinality ==
  ASSUME NEW S
  PROVE  /\ Approvals!Cardinality(S) = Cardinality(S)
         /\ AP!Cardinality(S) = Cardinality(S)
         /\ Sessions!Cardinality(S) = Cardinality(S)
         /\ SP!Cardinality(S) = Cardinality(S)
BY DEF Cardinality, Approvals!Cardinality, AP!Cardinality, Sessions!Cardinality, SP!Cardinality

LEMMA SameQuorum ==
  ASSUME NEW p, NEW slots, NEW l
  PROVE  /\ Approvals!Slots(slots, l) = AP!Slots(slots, l)
         /\ Approvals!At(slots, l, "approved") = AP!At(slots, l, "approved")
         /\ Approvals!Needed(p, slots, l) = AP!Needed(p, slots, l)
<1>1. Approvals!Slots(slots, l) = AP!Slots(slots, l)
  BY DEF Approvals!Slots, AP!Slots, Approvals!Index, AP!Index
<1>2. Approvals!At(slots, l, "approved") = AP!At(slots, l, "approved")
  BY DEF Approvals!At, AP!At, Approvals!Index, AP!Index
<1>3. Approvals!Quorum(p) = AP!Quorum(p)
  BY DEF Approvals!Quorum, AP!Quorum
<1> QED BY <1>1, <1>2, <1>3, SameCardinality DEF Approvals!Needed, AP!Needed

LEMMA SameSatisfied ==
  ASSUME NEW p, NEW slots
  PROVE  Approvals!Satisfied(p, slots) = AP!Satisfied(p, slots)
<1>1. ASSUME NEW l PROVE Approvals!At(slots, l, "approved") = AP!At(slots, l, "approved")
                         /\ Approvals!Needed(p, slots, l) = AP!Needed(p, slots, l)
  BY SameQuorum
<1>2. ASSUME NEW l PROVE Approvals!Slots(slots, l) = AP!Slots(slots, l)
  BY SameQuorum
<1>3. Approvals!QuorumMet(p, slots) = AP!QuorumMet(p, slots)
  BY <1>1, <1>2, SameCardinality DEF Approvals!QuorumMet, AP!QuorumMet
<1> QED BY <1>2, <1>3, SameApprovalSets DEF Approvals!Satisfied, AP!Satisfied,
           Approvals!Rejected, AP!Rejected

LEMMA SameSteps ==
  ASSUME NEW x \in ApprovalHandler
  PROVE  /\ Approvals!CreateStep(x) => AP!CreateStep(x)
         /\ Approvals!ApproveStep(x) => AP!ApproveStep(x)
         /\ Approvals!FinalizeStep(x) => AP!FinalizeStep(x)
         /\ Approvals!DecideStep(x) => AP!DecideStep(x)
<1> USE DEF Approvals!In, AP!In, Approvals!Goto, AP!Goto, Approvals!End, AP!End
<1>1. Approvals!CreateStep(x) => AP!CreateStep(x)
  <2>1. ASSUME NEW p PROVE Approvals!NewSlots(p) = AP!NewSlots(p)
    BY SameApprovalSets DEF Approvals!NewSlots, AP!NewSlots, Approvals!Quorum, AP!Quorum
  <2> QED BY <2>1 DEF Approvals!CreateStep, AP!CreateStep, Approvals!InsertRequest, AP!InsertRequest,
         Approvals!TicketValid, AP!TicketValid, Approvals!TicketInvalid, AP!TicketInvalid
<1>2. Approvals!ApproveStep(x) => AP!ApproveStep(x)
  BY DEF Approvals!ApproveStep, AP!ApproveStep, Approvals!ReadPolicy, AP!ReadPolicy,
         Approvals!ReadLevel, AP!ReadLevel, Approvals!CheckDistinct, AP!CheckDistinct,
         Approvals!HasDecided, AP!HasDecided, Approvals!PickSlot, AP!PickSlot,
         Approvals!FillSlot, AP!FillSlot, Approvals!At, AP!At, Approvals!Index, AP!Index
<1>3. Approvals!FinalizeStep(x) => AP!FinalizeStep(x)
  BY SameSatisfied DEF Approvals!FinalizeStep, AP!FinalizeStep, Approvals!Evaluate, AP!Evaluate,
         Approvals!MarkApproved, AP!MarkApproved, Approvals!IssueGrant, AP!IssueGrant
<1>4. Approvals!DecideStep(x) => AP!DecideStep(x)
  BY SameApprovalSets DEF Approvals!DecideStep, AP!DecideStep, Approvals!RejectSlots, AP!RejectSlots,
         Approvals!MarkRejected, AP!MarkRejected, Approvals!MarkCancelled, AP!MarkCancelled
<1> QED BY <1>1, <1>2, <1>3, <1>4

LEMMA SameApprovals ==
  /\ Approvals!Init => AP!Init
  /\ Approvals!Next => AP!Next
<1>1. Approvals!Init => AP!Init
  BY SameApprovalSets DEF Approvals!Init, AP!Init, Approvals!NoSlots, AP!NoSlots
<1>2. ASSUME NEW x \in ApprovalHandler, Approvals!Step(x) PROVE AP!Step(x)
  BY <1>2, SameSteps DEF Approvals!Step, AP!Step
<1>3. ASSUME NEW x \in ApprovalHandler, NEW r \in Request, Approvals!Arrive(x, r)
      PROVE  AP!Arrive(x, r)
  BY <1>3 DEF Approvals!Arrive, AP!Arrive, Approvals!CreateRequest, AP!CreateRequest,
         Approvals!Cancel, AP!Cancel, Approvals!Approve, AP!Approve, Approvals!Reject,
         AP!Reject, Approvals!Free, AP!Free, Approvals!Begin, AP!Begin
<1>4. ASSUME NEW x \in ApprovalHandler, Approvals!Abort(x) PROVE AP!Abort(x)
  BY <1>4 DEF Approvals!Abort, AP!Abort, Approvals!End, AP!End
<1>5. ASSUME NEW r \in Request, NEW a \in Account, Approvals!BreakGlass(r, a)
      PROVE  AP!BreakGlass(r, a)
  BY <1>5 DEF Approvals!BreakGlass, AP!BreakGlass
<1>6. Approvals!Administer => AP!Administer
  BY DEF Approvals!Administer, AP!Administer, Approvals!EditPolicy, AP!EditPolicy,
         Approvals!DeleteRules, AP!DeleteRules, Approvals!InsertRule, AP!InsertRule,
         Approvals!NoRules, AP!NoRules
<1> QED BY <1>1, <1>2, <1>3, <1>4, <1>5, <1>6 DEF Approvals!Next, AP!Next

LEMMA SameSessionSteps ==
  /\ \A x \in SessionHandler : Sessions!Step(x) => SP!Step(x)
  /\ \A c \in Conn : Sessions!Checkout(c) \/ Sessions!Serve(c) \/ Sessions!Leave(c)
                       => SP!Checkout(c) \/ SP!Serve(c) \/ SP!Leave(c)
<1> USE DEF Sessions!MayUse, SP!MayUse, Sessions!Usable, SP!Usable,
            Sessions!SetState, SP!SetState, Sessions!LiveOf, SP!LiveOf, Sessions!Live, SP!Live,
            Sessions!TerminateAll, SP!TerminateAll
<1>1. ASSUME NEW x \in SessionHandler, Sessions!Step(x) PROVE SP!Step(x)
  <2> USE DEF Sessions!In, SP!In, Sessions!Goto, SP!Goto, Sessions!End, SP!End
  <2>1. Sessions!CountSessions(x) => SP!CountSessions(x)
    BY SameCardinality DEF Sessions!CountSessions, SP!CountSessions
  <2>2. \/ Sessions!InsertSession(x) \/ Sessions!IssueToken(x) \/ Sessions!Recheck(x)
        => \/ SP!InsertSession(x) \/ SP!IssueToken(x) \/ SP!Recheck(x)
    BY DEF Sessions!InsertSession, SP!InsertSession, Sessions!IssueToken, SP!IssueToken,
         Sessions!Recheck, SP!Recheck
  <2>3. \/ Sessions!TerminateSession(x) \/ Sessions!RevokeGrant(x) \/ Sessions!CleanUp(x)
        \/ Sessions!EnqueueRevoke(x)
        => \/ SP!TerminateSession(x) \/ SP!RevokeGrant(x) \/ SP!CleanUp(x)
           \/ SP!EnqueueRevoke(x)
    BY DEF Sessions!TerminateSession, SP!TerminateSession, Sessions!RevokeGrant, SP!RevokeGrant,
         Sessions!CleanUp, SP!CleanUp, Sessions!EnqueueRevoke, SP!EnqueueRevoke
  <2>4. \/ Sessions!ExpireGrant(x) \/ Sessions!ClearSessions(x)
        => \/ SP!ExpireGrant(x) \/ SP!ClearSessions(x)
    BY DEF Sessions!ExpireGrant, SP!ExpireGrant, Sessions!ClearSessions, SP!ClearSessions
  <2> QED BY <1>1, <2>1, <2>2, <2>3, <2>4 DEF Sessions!Step, SP!Step
<1> USE DEF Sessions!ConnIn, SP!ConnIn, Sessions!ConnGoto, SP!ConnGoto, Sessions!Hangup, SP!Hangup
<1>2. ASSUME NEW c \in Conn, Sessions!Checkout(c) PROVE SP!Checkout(c)
  BY <1>2 DEF Sessions!Checkout, SP!Checkout, Sessions!Consume, SP!Consume, Sessions!RecheckGrant,
         SP!RecheckGrant, Sessions!Deny, SP!Deny, Sessions!RefuseAccount, SP!RefuseAccount,
         Sessions!OpenCredential, SP!OpenCredential, Sessions!Activate, SP!Activate
<1>3. ASSUME NEW c \in Conn, Sessions!Serve(c) \/ Sessions!Leave(c) PROVE SP!Serve(c) \/ SP!Leave(c)
  BY <1>3 DEF Sessions!Serve, SP!Serve, Sessions!Leave, SP!Leave, Sessions!DialTarget,
         SP!DialTarget, Sessions!DropSilently, SP!DropSilently, Sessions!LoseReport,
         SP!LoseReport, Sessions!ReportFailed, SP!ReportFailed, Sessions!ReportActive,
         SP!ReportActive, Sessions!Ingest, SP!Ingest, Sessions!Poll, SP!Poll, Sessions!Over,
         SP!Over, Sessions!ReportEnded, SP!ReportEnded
<1> QED BY <1>1, <1>2, <1>3

LEMMA SameSessions ==
  /\ Sessions!Init => SP!Init
  /\ Sessions!Next => SP!Next
<1>1. Sessions!Init => SP!Init
  BY DEF Sessions!Init, SP!Init
<1>2. ASSUME NEW g \in Grant, Sessions!Issue(g) PROVE SP!Issue(g)
  BY <1>2 DEF Sessions!Issue, SP!Issue
<1>6. ASSUME NEW x \in SessionHandler, NEW g \in Grant, Sessions!RunRevokeJob(x, g)
      PROVE  SP!RunRevokeJob(x, g)
  BY <1>6 DEF Sessions!RunRevokeJob, SP!RunRevokeJob, Sessions!Begin, SP!Begin
<1>3. ASSUME NEW x \in SessionHandler, Sessions!Arrive(x) \/ Sessions!Sweep(x)
      PROVE  SP!Arrive(x) \/ SP!Sweep(x)
  BY <1>3 DEF Sessions!Arrive, SP!Arrive, Sessions!Sweep, SP!Sweep, Sessions!StartSession,
         SP!StartSession, Sessions!Revoke, SP!Revoke, Sessions!Reconnect, SP!Reconnect,
         Sessions!Terminate, SP!Terminate, Sessions!StartAsAdmin, SP!StartAsAdmin,
         Sessions!Begin, SP!Begin, Sessions!Usable, SP!Usable, Sessions!Live, SP!Live
<1>4. ASSUME NEW c \in Conn, NEW t \in Token, Sessions!Connect(c, t) PROVE SP!Connect(c, t)
  BY <1>4 DEF Sessions!Connect, SP!Connect, Sessions!Live, SP!Live
<1>5. Sessions!Time => SP!Time
  BY DEF Sessions!Time, SP!Time, Sessions!WindowCloses, SP!WindowCloses,
         Sessions!TokenExpires, SP!TokenExpires, Sessions!Purge, SP!Purge
<1> QED BY <1>1, <1>2, <1>3, <1>4, <1>5, <1>6, SameSessionSteps DEF Sessions!Next, SP!Next

-----------------------------------------------------------------------------
(* Each side, seen alone, is the module that models it: a step of the whole is
   a step of that side or leaves it as it was. *)

LEMMA StepIsOfBoth ==
  ASSUME [Next]_vars
  PROVE  [AP!Next]_(AP!vars) /\ [SP!Next]_(SP!vars)
<1>1. CASE Decide
  BY <1>1, SameApprovals DEF Decide, sessionVars, SP!vars
<1>2. ASSUME NEW g \in Grant, IssueGrant(g) PROVE AP!Next /\ SP!Next
  <2>1. Sessions!Next
    BY <1>2 DEF IssueGrant, Sessions!Next
  <2> QED BY <1>2, <2>1, SameApprovals, SameSessions DEF IssueGrant
<1>3. CASE Use
  BY <1>3, SameSessions DEF Use, approvalVars, AP!vars
<1>4. CASE UNCHANGED vars
  BY <1>4 DEF vars, approvalVars, sessionVars, AP!vars, SP!vars
<1> QED BY <1>1, <1>2, <1>3, <1>4 DEF Next

(* What PamApprovals promises alone it promises next to the sessions. *)
THEOREM ImplementsApprovals == Spec => AP!Spec
<1>1. Init => AP!Init
  BY SameApprovals DEF Init
<1> QED BY <1>1, StepIsOfBoth, PTL DEF Spec, AP!Spec

(* What PamSessions promises of grants from anywhere it promises of these. *)
THEOREM ImplementsSessions == Spec => SP!Spec
<1>1. Init => SP!Init
  BY SameSessions DEF Init
<1> QED BY <1>1, StepIsOfBoth, PTL DEF Spec, SP!Spec

-----------------------------------------------------------------------------
(* The two sides see the same rows. *)

Shared == \A g \in Grant : grants[g] # None <=> grant[g] # "none"

LEMMA NextShared ==
  ASSUME AP!TypeOK, SP!Typed, Shared, [Next]_vars
  PROVE  Shared'
<1>1. CASE Decide \/ UNCHANGED vars
  <2>1. grants' = grants /\ grant' = grant
    BY <1>1 DEF Decide, vars, approvalVars, sessionVars
  <2> QED BY <2>1 DEF Shared
<1>2. ASSUME NEW g \in Grant, IssueGrant(g) PROVE Shared'
  <2>1. [AP!Next]_(AP!vars) /\ grants'[g] # grants[g]
    BY <1>2, SameApprovals DEF IssueGrant
  <2>2. PICK f \in Grant, row \in AP!Granted : grants' = [grants EXCEPT ![f] = row]
    BY <2>1, Assumptions, AP!GrantsGrow
  <2>3. row # None
    BY Assumptions DEF AP!RowAssumption
  <2>4. f = g /\ grants'[g] = row /\ \A e \in Grant : e # g => grants'[e] = grants[e]
    BY <2>1, <2>2 DEF AP!TypeOK
  <2>5. grant'[g] = "active" /\ \A e \in Grant : e # g => grant'[e] = grant[e]
    BY <1>2 DEF IssueGrant, Sessions!Issue, SP!Typed, SP!TypeOK
  <2> QED BY <2>3, <2>4, <2>5 DEF Shared
<1>3. CASE Use
  <2>1. grants' = grants /\ [SP!Next]_(SP!vars)
    BY <1>3, SameSessions DEF Use, approvalVars
  <2>2. ASSUME NEW g \in Grant, grant[g] # "none" PROVE grant'[g] # "none"
    <3>1. g # None
      BY Assumptions DEF SP!SessionsAssumption
    <3>2. SP!Known(g)
      BY <2>2 DEF SP!Known
    <3>3. SP!Known(g)'
      BY <2>1, <3>2, Assumptions, SP!GrantsStay
    <3> QED BY <3>1, <3>3 DEF SP!Known
  <2>3. \A g \in Grant : grant[g] = "none" => grant'[g] = "none"
    BY <1>3 DEF Use
  <2> QED BY <2>1, <2>2, <2>3 DEF Shared
<1> QED BY <1>1, <1>2, <1>3 DEF Next

LEMMA AlwaysShared == Spec => [](AP!TypeOK /\ SP!Typed /\ Shared)
<1>1. Init => Shared
  BY DEF Init, Approvals!Init, Sessions!Init, Shared
<1>2. AP!Spec => []AP!TypeOK
  BY Assumptions, AP!TypeCorrect, PTL
<1>3. SP!Spec => []SP!Typed
  BY Assumptions, SP!AlwaysTyped, PTL
<1> QED BY <1>1, <1>2, <1>3, NextShared, ImplementsApprovals, ImplementsSessions, PTL DEF Spec

-----------------------------------------------------------------------------
(* A grant stands on the approvals its policy asked for, and each of them on
   somebody who may give it. *)
LEMMA DecidedWhenUsed ==
  ASSUME AP!TypeOK, AP!GrantNeedsQuorum, AP!EligibleSigned,
         (\E p \in Policy : p.self) \/ AP!OwnUnapproved,
         SP!OnIssued, Shared
  PROVE  AccessIsDecided
<1> SUFFICES ASSUME NEW s \in Session, sess[s].grant # None
             PROVE  LET row == grants[sess[s].grant]
                    IN /\ row # None
                       /\ \/ row.policy = None
                          \/ row.policy.type = "none"
                          \/ DecidedBy(row.policy, row.request)
  BY DEF AccessIsDecided
<1> DEFINE g == sess[s].grant
           row == grants[g]
           r == row.request
<1>1. g \in Grant /\ grant[g] # "none"
  BY DEF SP!OnIssued, SP!Known
<1>2. row # None /\ r \in Request
  BY <1>1 DEF Shared, AP!TypeOK, AP!Granted
<1>3. CASE row.policy # None /\ row.policy.type # "none"
  <2>1. AP!QuorumMet(row.policy, slot[r])
    BY <1>1, <1>2, <1>3 DEF AP!GrantNeedsQuorum
  <2> SUFFICES ASSUME NEW l \in Level
               PROVE  LET approved == Approvals!At(slot[r], l, "approved")
                      IN /\ Approvals!Slots(slot[r], l) # {} =>
                              Cardinality(approved) >= Approvals!Needed(row.policy, slot[r], l)
                         /\ \A i \in approved :
                              /\ slot[r][<<l, i>>].by \in Eligible[l]
                              /\ slot[r][<<l, i>>].by = Requester[r] =>
                                   \E q \in Policy : q.self
    BY <1>2 DEF DecidedBy
  <2>2. AP!Slots(slot[r], l) # {} =>
          Cardinality(AP!At(slot[r], l, "approved")) >= AP!Needed(row.policy, slot[r], l)
    BY <2>1, SameCardinality DEF AP!QuorumMet
  <2>3. ASSUME NEW i \in AP!At(slot[r], l, "approved")
        PROVE  /\ slot[r][<<l, i>>].by \in Eligible[l]
               /\ slot[r][<<l, i>>].by = Requester[r] => \E q \in Policy : q.self
    <3>1. <<l, i>> \in AP!SlotId /\ slot[r][<<l, i>>].decision = "approved"
      BY <2>3 DEF AP!At, AP!SlotId
    <3>2. slot[r][<<l, i>>].by \in Eligible[<<l, i>>[1]]
      BY <1>2, <3>1 DEF AP!EligibleSigned
    <3>3. AP!OwnUnapproved => slot[r][<<l, i>>].by # Requester[r]
      BY <1>2, <3>1 DEF AP!OwnUnapproved
    <3> QED BY <3>2, <3>3
  <2> QED BY <2>2, <2>3, SameQuorum
<1> QED BY <1>2, <1>3

(* Access is decided: whatever the interleaving of both sides' statements, and
   however many requests a person has in flight, no session lives on a grant
   that has not the approvals its policy asked for, each by somebody eligible
   at its level and none by the requester where no policy allows it. *)
THEOREM AccessStandsOnDecision == Spec => []AccessIsDecided
<1>1. AP!Spec => []AP!GrantNeedsQuorum
  BY Assumptions, AP!GrantsStandOnQuorum, PTL
<1>2. AP!Spec => []AP!EligibleSigned
  BY Assumptions, AP!ApprovalsAreEligible, PTL
<1>3. SP!Spec => []SP!OnIssued
  BY Assumptions, SP!SessionsAreOnIssued, PTL
<1>4. AP!Spec => []((\E p \in Policy : p.self) \/ AP!OwnUnapproved)
  <2>1. CASE \E p \in Policy : p.self
    BY <2>1, PTL
  <2>2. CASE ~ \E p \in Policy : p.self
    <3>1. \A p \in Policy : ~ p.self
      BY <2>2
    <3>2. AP!Spec => []AP!OwnUnapproved
      BY <3>1, Assumptions, AP!OwnRequestsStand, PTL
    <3> QED BY <3>2, PTL
  <2> QED BY <2>1, <2>2
<1>5. /\ AP!TypeOK /\ SP!Typed /\ Shared
      /\ AP!GrantNeedsQuorum /\ AP!EligibleSigned
      /\ (\E p \in Policy : p.self) \/ AP!OwnUnapproved
      /\ SP!OnIssued
      => AccessIsDecided
  BY DecidedWhenUsed
<1> QED BY <1>1, <1>2, <1>3, <1>4, <1>5, AlwaysShared, ImplementsApprovals,
           ImplementsSessions, PTL

-----------------------------------------------------------------------------
(* Access ends: once a grant is revoked or expired and its clean-up is over, no
   session on it is in use but one for which two tokens were exchanged, whatever
   is being decided meanwhile. *)
THEOREM AccessEnds == Spec => []SP!DeadGrantUnused
<1>1. SP!Spec => []SP!DeadGrantUnused
  BY Assumptions, SP!DeadGrantsAreUnused, PTL
<1> QED BY <1>1, ImplementsSessions, PTL
=============================================================================
