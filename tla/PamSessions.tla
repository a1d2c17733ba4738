----------------------------- MODULE PamSessions -----------------------------
(***************************************************************************)
(* Brokered sessions: from an access grant to a live connection on the     *)
(* session gateway, and back.  The control plane keeps pam.access_grants,  *)
(* pam.sessions and pam.gateway_tokens; a browser presents a token to the  *)
(* gateway (services/pam/ssh-gateway/main.go), which exchanges it once for *)
(* the credential, opens the connection, polls the session's state and     *)
(* reports what became of it.                                              *)
(*                                                                         *)
(* Each SQL statement is an action, on either side of an HTTP call.  Time  *)
(* is abstracted to the comparisons made with it: `window' is a grant's    *)
(* validity, `signed' a token's.                                           *)
(***************************************************************************)
EXTENDS Integers, FiniteSets

CONSTANTS
  Grant,     \* bound: identities of access grants
  Session,   \* bound: identities of sessions
  Token,     \* bound: identities (jti) of gateway tokens
  Handler,   \* bound: control-plane requests and jobs in flight
  Conn,      \* bound: connections of the gateway
  Limit,     \* max_concurrent_sessions of every grant
  Allow,     \* which operations and disturbances a run includes
  None       \* a value that is none of these

ASSUME SessionsAssumption ==
  /\ Limit \in Nat \ {0}
  /\ Allow \subseteq {"reconnect", "expiry", "refuse", "silent", "admin"}
  /\ None \notin Grant \cup Session \cup Token \cup Handler \cup Conn

VARIABLES
  grant,   \* access_grants.status
  window,  \* whether expires_at is in the future
  sess,    \* sessions: state and grant
  tok,     \* gateway_tokens and the signed tokens they stand for
  used,    \* history: how many checkouts each token has passed
  job,     \* the revoke_grant job of each grant is waiting
  h,       \* control-plane handlers in flight
  conn     \* gateway connections

vars == <<grant, window, sess, tok, used, job, h, conn>>

Live == {"starting", "active", "idle"}
States == Live \cup {"none", "ended", "error", "terminated"}
PC == {"count", "insert", "issue", "recheck", "terminate", "revoke", "cleanup",
       "enqueue", "expire", "clear"}
ConnPC == {"consume", "recheck", "deny", "open", "activate", "dial", "report",
           "run", "failed", "closing"}

Sess == [state : States, grant : Grant \cup {None}]
Tok == [session : Session \cup {None}, row : {"none", "fresh", "consumed"},
        signed : BOOLEAN]
Flight == [pc : PC, session : Session \cup {None}, grant : Grant \cup {None},
           todo : SUBSET Grant]
Connection == [pc : ConnPC, token : Token, session : Session,
               missed : BOOLEAN]

ASSUME NoneAssumption == None \notin Connection \cup Flight

-----------------------------------------------------------------------------
Usable(g) == grant[g] = "active" /\ window[g]

(* What a session's grant allows, read now; a session without one (an
   administrator's) always may. *)
MayUse(s) == sess[s].grant = None \/ Usable(sess[s].grant)

LiveOf(g) == {s \in Session : sess[s].grant = g /\ sess[s].state \in Live}

(* Mutant: only the sessions still starting. *)
TerminateStarting(g) ==
  sess' = [s \in Session |->
             IF sess[s].grant = g /\ sess[s].state = "starting"
             THEN [sess[s] EXCEPT !.state = "terminated"] ELSE sess[s]]

(* UPDATE sessions SET state='terminated' WHERE grant_id = g AND state live *)
TerminateAll(g) ==
  sess' = [s \in Session |->
             IF s \in LiveOf(g) THEN [sess[s] EXCEPT !.state = "terminated"]
             ELSE sess[s]]

SetState(s, state) == sess' = [sess EXCEPT ![s].state = state]

Begin(x, pc, s, g) ==
  /\ h[x] = None
  /\ h' = [h EXCEPT ![x] = [pc |-> pc, session |-> s, grant |-> g, todo |-> {}]]
Goto(x, pc) == h' = [h EXCEPT ![x].pc = pc]
End(x) == h' = [h EXCEPT ![x] = None]
In(x, pc) == h[x] # None /\ h[x].pc = pc

Init ==
  /\ grant = [g \in Grant |-> "none"]
  /\ window = [g \in Grant |-> TRUE]
  /\ sess = [s \in Session |-> [state |-> "none", grant |-> None]]
  /\ tok = [t \in Token |-> [session |-> None, row |-> "none", signed |-> FALSE]]
  /\ used = [t \in Token |-> 0]
  /\ job = [g \in Grant |-> FALSE]
  /\ h = [x \in Handler |-> None]
  /\ conn = [c \in Conn |-> None]

-----------------------------------------------------------------------------
(* issueGrants and break-glass: the approval of a request, from outside *)
Issue(g) ==
  /\ grant[g] = "none"
  /\ grant' = [grant EXCEPT ![g] = "active"]
  /\ UNCHANGED <<window, sess, tok, used, job, h, conn>>

-----------------------------------------------------------------------------
(* sessions/index.post.ts: start a session *)

StartSession(x, g) ==
  /\ Usable(g)
  /\ Begin(x, "count", None, g)
  /\ UNCHANGED <<grant, window, sess, tok, used, job, conn>>

StartAsAdmin(x) ==
  /\ "admin" \in Allow
  /\ Begin(x, "insert", None, None)
  /\ UNCHANGED <<grant, window, sess, tok, used, job, conn>>

(* Mutant: a session that nobody has connected to yet is not counted. *)
CountConnected(x) ==
  /\ In(x, "count")
  /\ LET connected == {s \in LiveOf(h[x].grant) : sess[s].state # "starting"}
     IN IF Cardinality(connected) < Limit THEN Goto(x, "insert") ELSE End(x)
  /\ UNCHANGED <<grant, window, sess, tok, used, job, conn>>

CountSessions(x) ==
  /\ In(x, "count")
  /\ IF Cardinality(LiveOf(h[x].grant)) < Limit THEN Goto(x, "insert") ELSE End(x)
  /\ UNCHANGED <<grant, window, sess, tok, used, job, conn>>

(* Mutant: the session counts as in use before anybody has connected. *)
InsertActive(x) ==
  /\ In(x, "insert")
  /\ \E s \in Session :
       /\ sess[s].state = "none"
       /\ sess' = [sess EXCEPT ![s] = [state |-> "active", grant |-> h[x].grant]]
       /\ h' = [h EXCEPT ![x].pc = "issue", ![x].session = s]
  /\ UNCHANGED <<grant, window, tok, used, job, conn>>

InsertSession(x) ==
  /\ In(x, "insert")
  /\ \E s \in Session :
       /\ sess[s].state = "none"
       /\ sess' = [sess EXCEPT ![s] = [state |-> "starting", grant |-> h[x].grant]]
       /\ h' = [h EXCEPT ![x].pc = "issue", ![x].session = s]
  /\ UNCHANGED <<grant, window, tok, used, job, conn>>

(* issueGatewayToken *)
IssueToken(x) ==
  /\ In(x, "issue")
  /\ \E t \in Token :
       /\ tok[t].row = "none" /\ tok[t].session = None
       /\ tok' = [tok EXCEPT ![t] = [session |-> h[x].session, row |-> "fresh",
                                     signed |-> TRUE]]
  /\ End(x)
  /\ UNCHANGED <<grant, window, sess, used, job, conn>>

(* sessions/[id]/token.post.ts: a fresh token for a live session *)
Reconnect(x, s) ==
  /\ "reconnect" \in Allow
  /\ sess[s].state \in Live
  /\ Begin(x, "recheck", s, sess[s].grant)
  /\ UNCHANGED <<grant, window, sess, tok, used, job, conn>>

Recheck(x) ==
  /\ In(x, "recheck")
  /\ IF MayUse(h[x].session) THEN Goto(x, "issue") ELSE End(x)
  /\ UNCHANGED <<grant, window, sess, tok, used, job, conn>>

-----------------------------------------------------------------------------
(* sessions/[id]/terminate.post.ts *)

Terminate(x, s) ==
  /\ sess[s].state \in Live
  /\ Begin(x, "terminate", s, sess[s].grant)
  /\ UNCHANGED <<grant, window, sess, tok, used, job, conn>>

TerminateSession(x) ==
  /\ In(x, "terminate")
  /\ SetState(h[x].session, "terminated")
  /\ End(x)
  /\ UNCHANGED <<grant, window, tok, used, job, conn>>

(* grants/[id]/revoke.post.ts *)

Revoke(x, g) ==
  /\ grant[g] = "active"
  /\ Begin(x, "revoke", None, g)
  /\ UNCHANGED <<grant, window, sess, tok, used, job, conn>>

RevokeGrant(x) ==
  /\ In(x, "revoke")
  /\ grant' = [grant EXCEPT ![h[x].grant] = "revoked"]
  /\ Goto(x, "cleanup")
  /\ UNCHANGED <<window, sess, tok, used, job, conn>>

CleanUp(x) ==
  /\ In(x, "cleanup")
  /\ TerminateAll(h[x].grant)
  /\ Goto(x, "enqueue")
  /\ UNCHANGED <<grant, window, tok, used, job, conn>>

EnqueueRevoke(x) ==
  /\ In(x, "enqueue")
  /\ job' = [job EXCEPT ![h[x].grant] = TRUE]
  /\ End(x)
  /\ UNCHANGED <<grant, window, sess, tok, used, conn>>

(* doRevokeGrant: its grant is no longer active, then its sessions go once more *)
RunRevokeJob(x, g) ==
  /\ job[g]
  /\ job' = [job EXCEPT ![g] = FALSE]
  /\ grant' = [grant EXCEPT ![g] = IF @ = "active" THEN "revoked" ELSE @]
  /\ Begin(x, "clear", None, g)
  /\ UNCHANGED <<window, sess, tok, used, conn>>

(* pamScheduler.sweepExpiredGrants: SELECT, then two UPDATEs per grant *)
Sweep(x) ==
  LET due == {g \in Grant : grant[g] = "active" /\ ~ window[g]}
  IN /\ h[x] = None /\ due # {}
     /\ h' = [h EXCEPT ![x] = [pc |-> "expire", session |-> None,
                               grant |-> None, todo |-> due]]
     /\ UNCHANGED <<grant, window, sess, tok, used, job, conn>>

ExpireGrant(x) ==
  /\ In(x, "expire")
  /\ \E g \in h[x].todo :
       /\ grant' = [grant EXCEPT ![g] = "expired"]
       /\ h' = [h EXCEPT ![x].pc = "clear", ![x].grant = g, ![x].todo = @ \ {g}]
  /\ UNCHANGED <<window, sess, tok, used, job, conn>>

(* the sessions of that grant, by the sweep or by the job *)
ClearSessions(x) ==
  /\ In(x, "clear")
  /\ TerminateAll(h[x].grant)
  /\ IF h[x].todo = {} THEN End(x) ELSE Goto(x, "expire")
  /\ UNCHANGED <<grant, window, tok, used, job, conn>>

-----------------------------------------------------------------------------
(* The gateway's handleSession and the control plane's gateway/checkout: a
   connection runs on the token it was opened with. *)

ConnIn(c, pc) == conn[c] # None /\ conn[c].pc = pc
ConnGoto(c, pc) == conn' = [conn EXCEPT ![c].pc = pc]
Hangup(c) == conn' = [conn EXCEPT ![c] = None]

(* The token is verified and the session read: it must not be over. *)
Connect(c, t) ==
  /\ conn[c] = None
  /\ tok[t].signed
  /\ sess[tok[t].session].state \in Live
  /\ conn' = [conn EXCEPT ![c] = [pc |-> "consume", token |-> t,
                                  session |-> tok[t].session, missed |-> FALSE]]
  /\ UNCHANGED <<grant, window, sess, tok, used, job, h>>

(* Mutant: the row is consumed without asking whether it was before. *)
ConsumeAgain(c) ==
  /\ ConnIn(c, "consume")
  /\ LET t == conn[c].token
     IN /\ tok' = [tok EXCEPT ![t].row = "consumed"]
        /\ used' = [used EXCEPT ![t] = @ + 1]
        /\ ConnGoto(c, "recheck")
  /\ UNCHANGED <<grant, window, sess, job, h>>

(* consumeGatewayToken: UPDATE ... WHERE consumed_at IS NULL *)
Consume(c) ==
  /\ ConnIn(c, "consume")
  /\ LET t == conn[c].token
     IN IF tok[t].row = "fresh"
        THEN /\ tok' = [tok EXCEPT ![t].row = "consumed"]
             /\ used' = [used EXCEPT ![t] = @ + 1]
             /\ ConnGoto(c, "recheck")
        ELSE Hangup(c) /\ UNCHANGED <<tok, used>>
  /\ UNCHANGED <<grant, window, sess, job, h>>

(* Mutant: the session is in use before its credential is opened. *)
RecheckAndActivate(c) ==
  /\ ConnIn(c, "recheck")
  /\ ConnGoto(c, IF MayUse(conn[c].session) THEN "open" ELSE "deny")
  /\ IF sess[conn[c].session].state = "starting"
     THEN SetState(conn[c].session, "active") ELSE UNCHANGED sess
  /\ UNCHANGED <<grant, window, tok, used, job, h>>

(* the grant again, at connect time *)
RecheckGrant(c) ==
  /\ ConnIn(c, "recheck")
  /\ ConnGoto(c, IF MayUse(conn[c].session) THEN "open" ELSE "deny")
  /\ UNCHANGED <<grant, window, sess, tok, used, job, h>>

Deny(c) ==
  /\ ConnIn(c, "deny")
  /\ SetState(conn[c].session, "terminated")
  /\ Hangup(c)
  /\ UNCHANGED <<grant, window, tok, used, job, h>>

(* the account is disabled or has no credential *)
RefuseAccount(c) ==
  /\ "refuse" \in Allow
  /\ ConnIn(c, "open")
  /\ Hangup(c)
  /\ UNCHANGED <<grant, window, sess, tok, used, job, h>>

OpenCredential(c) ==
  /\ ConnIn(c, "open")
  /\ ConnGoto(c, "activate")
  /\ UNCHANGED <<grant, window, sess, tok, used, job, h>>

(* Mutant: any state is set to active. *)
ActivateAny(c) ==
  /\ ConnIn(c, "activate")
  /\ SetState(conn[c].session, "active")
  /\ ConnGoto(c, "dial")
  /\ UNCHANGED <<grant, window, tok, used, job, h>>

(* UPDATE sessions SET state='active' WHERE state='starting' *)
Activate(c) ==
  /\ ConnIn(c, "activate")
  /\ IF sess[conn[c].session].state = "starting"
     THEN SetState(conn[c].session, "active") ELSE UNCHANGED sess
  /\ ConnGoto(c, "dial")
  /\ UNCHANGED <<grant, window, tok, used, job, h>>

(* gateway/ingest: a report with a token that no longer verifies is refused,
   and a terminated session takes no state *)
Ingest(c, state) ==
  LET s == conn[c].session
  IN IF tok[conn[c].token].signed /\ sess[s].state # "terminated"
     THEN SetState(s, state) ELSE UNCHANGED sess

DialTarget(c) ==
  /\ ConnIn(c, "dial")
  /\ ConnGoto(c, "report") \/ ConnGoto(c, "failed")
  /\ UNCHANGED <<grant, window, sess, tok, used, job, h>>

(* the upgrade or the target's session fails and the gateway returns at once,
   its last report is lost, or the gateway dies *)
DropSilently(c) ==
  /\ "silent" \in Allow
  /\ conn[c] # None
  /\ conn[c].pc \in {"dial", "report", "run", "failed", "closing"}
  /\ Hangup(c)
  /\ UNCHANGED <<grant, window, sess, tok, used, job, h>>

(* the report does not arrive: logged, and not repeated *)
LoseReport(c) ==
  /\ "silent" \in Allow
  /\ ConnIn(c, "report")
  /\ ConnGoto(c, "run")
  /\ UNCHANGED <<grant, window, sess, tok, used, job, h>>

ReportFailed(c) ==
  /\ ConnIn(c, "failed")
  /\ Ingest(c, "error")
  /\ Hangup(c)
  /\ UNCHANGED <<grant, window, tok, used, job, h>>

ReportActive(c) ==
  /\ ConnIn(c, "report")
  /\ Ingest(c, "active")
  /\ ConnGoto(c, "run")
  /\ UNCHANGED <<grant, window, tok, used, job, h>>

(* Mutant: the poll does not read the grant. *)
SessionOver(c) == sess[conn[c].session].state \notin Live

(* What the poll answers: the session is over, or its grant is. *)
Over(c) == sess[conn[c].session].state \notin Live \/ ~ MayUse(conn[c].session)

(* session-state, every three seconds; an error is no answer *)
Poll(c) ==
  /\ ConnIn(c, "run") /\ Over(c)
  /\ IF tok[conn[c].token].signed THEN ConnGoto(c, "closing")
     ELSE conn' = [conn EXCEPT ![c].missed = TRUE]
  /\ UNCHANGED <<grant, window, sess, tok, used, job, h>>

(* the user leaves, or the connection is idle, too long, or drained *)
Leave(c) ==
  /\ ConnIn(c, "run")
  /\ ConnGoto(c, "closing")
  /\ UNCHANGED <<grant, window, sess, tok, used, job, h>>

ReportEnded(c) ==
  /\ ConnIn(c, "closing")
  /\ Ingest(c, "ended")
  /\ Hangup(c)
  /\ UNCHANGED <<grant, window, tok, used, job, h>>

-----------------------------------------------------------------------------
(* Time *)

WindowCloses(g) ==
  /\ grant[g] # "none" /\ window[g]
  /\ window' = [window EXCEPT ![g] = FALSE]
  /\ UNCHANGED <<grant, sess, tok, used, job, h, conn>>

TokenExpires(t) ==
  /\ "expiry" \in Allow
  /\ tok[t].signed
  /\ tok' = [tok EXCEPT ![t].signed = FALSE]
  /\ UNCHANGED <<grant, window, sess, used, job, h, conn>>

(* purgeExpiredGatewayTokens *)
Purge ==
  /\ tok' = [t \in Token |-> IF tok[t].signed THEN tok[t]
                             ELSE [tok[t] EXCEPT !.row = "none"]]
  /\ tok' # tok
  /\ UNCHANGED <<grant, window, sess, used, job, h, conn>>

-----------------------------------------------------------------------------
(* what a control-plane handler does next *)
Step(x) ==
  \/ CountSessions(x)
  \/ InsertSession(x)
  \/ IssueToken(x)
  \/ Recheck(x)
  \/ TerminateSession(x)
  \/ RevokeGrant(x)
  \/ CleanUp(x)
  \/ EnqueueRevoke(x)
  \/ ExpireGrant(x)
  \/ ClearSessions(x)

(* what a connection does next by itself *)
Checkout(c) ==
  \/ Consume(c)
  \/ RecheckGrant(c)
  \/ Deny(c)
  \/ RefuseAccount(c)
  \/ OpenCredential(c)
  \/ Activate(c)

Serve(c) ==
  \/ DialTarget(c)
  \/ DropSilently(c)
  \/ LoseReport(c)
  \/ ReportFailed(c)
  \/ ReportActive(c)
  \/ Poll(c)
  \/ ReportEnded(c)

Arrive(x) ==
  \/ \E g \in Grant : StartSession(x, g) \/ Revoke(x, g)
  \/ \E s \in Session : Reconnect(x, s) \/ Terminate(x, s)
  \/ StartAsAdmin(x)

Time ==
  \/ \E g \in Grant : WindowCloses(g)
  \/ \E t \in Token : TokenExpires(t)
  \/ Purge

Next ==
  \/ \E g \in Grant : Issue(g)
  \/ \E x \in Handler : Step(x) \/ Arrive(x) \/ Sweep(x)
  \/ \E x \in Handler, g \in Grant : RunRevokeJob(x, g)
  \/ \E c \in Conn : Checkout(c) \/ Serve(c) \/ Leave(c)
  \/ \E c \in Conn, t \in Token : Connect(c, t)
  \/ Time

Spec == Init /\ [][Next]_vars

-----------------------------------------------------------------------------
(* Properties *)

(* Type correctness. *)
TypeOK ==
  /\ grant \in [Grant -> {"none", "active", "revoked", "expired"}]
  /\ window \in [Grant -> BOOLEAN]
  /\ sess \in [Session -> Sess]
  /\ tok \in [Token -> Tok]
  /\ used \in [Token -> Nat]
  /\ job \in [Grant -> BOOLEAN]
  /\ h \in [Handler -> Flight \cup {None}]
  /\ conn \in [Conn -> Connection \cup {None}]

(* A token is exchanged for the credential at most once, also by connections
   that verified it at the same time and after expired rows are purged
   (consumeGatewayToken). *)
SingleUse == \A t \in Token : used[t] <= 1

(* A session is active only after a checkout on a token of its own. *)
ActiveWasCheckedOut ==
  \A s \in Session : sess[s].state \in {"active", "idle"} =>
    \E t \in Token : tok[t].session = s /\ used[t] > 0

(* Terminated is final: no report of a gateway that has not noticed yet, and
   no checkout under way, brings a session back. *)
TerminatedIsFinal ==
  [][\A s \in Session : sess[s].state = "terminated" => sess'[s] = sess[s]]_vars

(* Once a grant is revoked or expired, and whoever did it has been through its
   sessions, none of them is in use: neither a checkout that had read the grant
   before nor a late report brings one back.  Only a session for which two tokens
   have been exchanged (sessions/[id]/token.post.ts) escapes: one connection
   reports it ended, so that the revocation passes it by, and the other, still
   dialling, reports it active. *)
Settling(g) ==
  \E x \in Handler : h[x] # None /\ h[x].grant = g /\ h[x].pc \in {"cleanup", "clear"}

InUse(s) == sess[s].state \in {"active", "idle"}

CheckedOut(s) == {t \in Token : tok[t].session = s /\ used[t] > 0}

CheckedOutTwice(s) == \E t, u \in CheckedOut(s) : t # u

DeadGrantUnused ==
  \A g \in Grant :
    grant[g] \in {"revoked", "expired"} /\ ~ Settling(g) =>
      \A s \in Session : sess[s].grant = g /\ InUse(s) => CheckedOutTwice(s)

(* The count and the INSERT of a start are separate statements
   (sessions/index.post.ts), so starts in flight together overrun the limit of their
   grant, but each request by one session at most, and not again by its next.
   Sessions checked out twice are left out: a report can revive one of them beyond
   any count. *)
OverrunIsBounded ==
  \A g \in Grant :
    Cardinality({s \in LiveOf(g) : ~ CheckedOutTwice(s)}) < Limit + Cardinality(Handler)

(* A connection that may keep its session in use. *)
Open(c, s) ==
  /\ conn[c] # None /\ conn[c].session = s
  /\ conn[c].pc \in {"dial", "report", "run", "failed", "closing"}

Unserved(s) == InUse(s) /\ \A c \in Conn : ~ Open(c, s)

(* A session in use has a connection, and goes out of use with its last one, so
   that it frees its place in the grant's limit.  Two ways only leave one in use
   that nobody serves: the connection goes without a report (a failed upgrade, a
   lost report, a dead gateway), or its token has expired and the report is
   refused. *)
Unreported(c) == DropSilently(c) \/ ~ tok[conn[c].token].signed

ActiveIsServed ==
  [][\A s \in Session : Unserved(s)' /\ ~ Unserved(s) =>
       \E c \in Conn : Open(c, s) /\ Unreported(c)]_vars

(* A connection does not outlive a poll made after its session was over. *)
RevocationPropagates ==
  \A c \in Conn : ConnIn(c, "run") => ~ conn[c].missed

(* When a grant is over, no connection stays open on it: the gateway's poll reads
   the grant, whether or not anybody has cleaned up its sessions.  Checked where
   grants come from a decision (PamAccess). *)
OpenOn(g) == \E c \in Conn : ConnIn(c, "run") /\ sess[conn[c].session].grant = g

DeadGrantDrains ==
  \A g \in Grant :
    (grant[g] \in {"revoked", "expired"} \/ ~ window[g]) ~> ~ OpenOn(g)
=============================================================================
