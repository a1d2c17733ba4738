------------------------------- MODULE PamAccess -------------------------------
(***************************************************************************)
(* From a request to a session: the handlers of PamApprovals and those of  *)
(* PamSessions over one table, pam.access_grants.  A row appears when an   *)
(* approved request's handler (issueGrants) or break-glass inserts it, and *)
(* from then on sessions are brokered on it; what PamSessions takes from   *)
(* outside, Issue, is here that insertion and nothing else.                *)
(***************************************************************************)
EXTENDS Integers, FiniteSets

CONSTANTS
  Request, Account, Person, Level, MaxQuorum, Policy, Requester, Covers,
  Eligible,         \* as in PamApprovals
  Session, Token, Conn,
  Limit,            \* as in PamSessions
  Grant,            \* bound: rows of access_grants
  ApprovalHandler,  \* bound: request and approval handlers in flight
  SessionHandler,   \* bound: session and grant handlers in flight
  ApprovalAllow,    \* what a run includes of PamApprovals' operations,
  SessionAllow,     \* and of PamSessions'
  None

VARIABLES
  policy, edit, req, slot, grants, ah,             \* of PamApprovals
  grant, window, sess, tok, used, job, sh, conn    \* of PamSessions

approvalVars == <<policy, edit, req, slot, grants, ah>>
sessionVars == <<grant, window, sess, tok, used, job, sh, conn>>
vars == <<approvalVars, sessionVars>>

Approvals == INSTANCE PamApprovals
  WITH Handler <- ApprovalHandler, Allow <- ApprovalAllow, h <- ah

Sessions == INSTANCE PamSessions
  WITH Handler <- SessionHandler, Allow <- SessionAllow, h <- sh

ASSUME AccessAssumption ==
  /\ MaxQuorum \in Nat \ {0}
  /\ Level \subseteq Nat /\ 1 \in Level
  /\ Policy \subseteq Approvals!Policies /\ Policy # {}
  /\ Requester \in [Request -> Person]
  /\ Covers \in [Request -> (SUBSET Account) \ {{}}]
  /\ Eligible \in [Level -> SUBSET Person]
  /\ ApprovalAllow \subseteq {"reject", "cancel", "ticket", "breakglass", "edit",
                              "double", "crash"}
  /\ None \notin Person \cup Approvals!Policies \cup Approvals!Flight
                   \cup Approvals!Granted
  /\ Limit \in Nat \ {0}
  /\ SessionAllow \subseteq {"reconnect", "expiry", "refuse", "silent", "admin"}
  /\ None \notin Grant \cup Session \cup Token \cup SessionHandler \cup Conn
                   \cup Sessions!Connection \cup Sessions!Flight

Init == Approvals!Init /\ Sessions!Init

-----------------------------------------------------------------------------
(* a request is made, decided, or changes nothing: no row is inserted *)
Decide ==
  /\ Approvals!Next
  /\ grants' = grants
  /\ UNCHANGED sessionVars

(* issueGrants, or break-glass: the row the one side inserts is the active
   grant the other side reads *)
IssueGrant(g) ==
  /\ Sessions!Issue(g)
  /\ Approvals!Next
  /\ grants'[g] # grants[g]

(* a session, a token, a connection, a revocation, or time *)
Use ==
  /\ Sessions!Next
  /\ \A g \in Grant : grant[g] = "none" => grant'[g] = "none"
  /\ UNCHANGED approvalVars

Next ==
  \/ Decide
  \/ \E g \in Grant : IssueGrant(g)
  \/ Use

Spec == Init /\ [][Next]_vars

(* A request being served is served to its end, as in PamApprovals, and a
   connection goes on: the gateway's poll is a timer.  Nothing is assumed of
   the session handlers, of the sweep or of the job worker. *)
FairSpec ==
  /\ Spec
  /\ \A x \in ApprovalHandler : WF_approvalVars(Approvals!Step(x))
  /\ \A c \in Conn : WF_sessionVars(Sessions!Checkout(c) \/ Sessions!Serve(c))

-----------------------------------------------------------------------------
(* Properties *)

(* The policy p was met by the slots of r: at each level as many approvals as
   it asked for, each by somebody eligible there, none by the requester where
   no policy lets people approve their own requests.  They need not be as many
   people: approve.post.ts does not see to that (PamApprovals'
   RepeatsAreBounded). *)
DecidedBy(p, r) ==
  \A l \in Level :
    LET approved == Approvals!At(slot[r], l, "approved")
    IN /\ Approvals!Slots(slot[r], l) # {} =>
            Cardinality(approved) >= Approvals!Needed(p, slot[r], l)
       /\ \A i \in approved :
            /\ slot[r][<<l, i>>].by \in Eligible[l]
            /\ slot[r][<<l, i>>].by = Requester[r] => \E q \in Policy : q.self

(* Behind every live session on a grant there is a request, and behind the
   request break-glass, a policy that asks for nobody, or the approvals that
   its policy asked for.  Between the first of these approvals and the session
   lie the handlers of both sides, each statement of its own transaction
   (requests/[id]/approve.post.ts, issueGrants, sessions/index.post.ts). *)
AccessIsDecided ==
  \A s \in Session :
    sess[s].state \in Sessions!Live /\ sess[s].grant # None =>
      LET row == grants[sess[s].grant]
      IN /\ row # None
         /\ \/ row.policy = None
            \/ row.policy.type = "none"
            \/ DecidedBy(row.policy, row.request)

(* PamApprovals' own: a request with all its approvals is decided, with
   sessions running on the side. *)
SlotsDecide == Approvals!SlotsDecide

(* PamSessions' own: when a grant that was decided here is over, no connection
   stays open on it. *)
DeadGrantDrains == Sessions!DeadGrantDrains
=============================================================================
