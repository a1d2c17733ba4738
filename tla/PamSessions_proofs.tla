-------------------------- MODULE PamSessions_proofs --------------------------
(***************************************************************************)
(* What holds of PamSessions for any number of grants, sessions, tokens,   *)
(* handlers and connections.                                               *)
(***************************************************************************)
EXTENDS PamSessions, FiniteSetTheorems, TLAPS

-----------------------------------------------------------------------------
(* Types, with what each handler and each token is about: a handler that acts
   on a session or on a grant has one, and a signed token names a session. *)

HandlerAims ==
  \A x \in Handler : h[x] # None =>
    /\ h[x].pc \in {"issue", "recheck", "terminate"} => h[x].session \in Session
    /\ h[x].pc \in {"count", "revoke", "cleanup", "enqueue", "clear"} =>
         h[x].grant \in Grant

TokenAims == \A t \in Token : tok[t].signed => tok[t].session \in Session

Typed == TypeOK /\ HandlerAims /\ TokenAims

LEMMA InitTyped == Init => Typed
BY SessionsAssumption
DEF Init, Typed, TypeOK, HandlerAims, TokenAims, Sess, States, Live, Tok

(* A session's state may be set to any state there is. *)
LEMMA SetStateType ==
  ASSUME sess \in [Session -> Sess], NEW s \in Session, NEW state \in States,
         SetState(s, state)
  PROVE  sess' \in [Session -> Sess]
BY DEF SetState, Sess

LEMMA TerminateAllType ==
  ASSUME sess \in [Session -> Sess], NEW g, TerminateAll(g)
  PROVE  sess' \in [Session -> Sess]
BY DEF TerminateAll, LiveOf, Sess, States

(* What a control-plane handler in flight holds. *)
LEMMA HandlerType ==
  ASSUME Typed, NEW x \in Handler, h[x] # None
  PROVE  /\ h[x] \in Flight
         /\ h[x].pc \in {"issue", "recheck", "terminate"} => h[x].session \in Session
         /\ h[x].pc \in {"count", "revoke", "cleanup", "enqueue", "clear"} =>
              h[x].grant \in Grant
BY DEF Typed, TypeOK, HandlerAims

(* What a connection holds. *)
LEMMA ConnType ==
  ASSUME Typed, NEW c \in Conn, conn[c] # None
  PROVE  conn[c] \in Connection
BY DEF Typed, TypeOK

(* A connection that moves on stays one. *)
LEMMA ConnGotoType ==
  ASSUME Typed, NEW c \in Conn, conn[c] # None, NEW pc \in ConnPC, ConnGoto(c, pc)
  PROVE  conn' \in [Conn -> Connection \cup {None}]
BY ConnType DEF ConnGoto, Typed, TypeOK, Connection

LEMMA HangupType ==
  ASSUME Typed, NEW c \in Conn, Hangup(c)
  PROVE  conn' \in [Conn -> Connection \cup {None}]
BY DEF Hangup, Typed, TypeOK

LEMMA IngestType ==
  ASSUME Typed, NEW c \in Conn, conn[c] # None, NEW state \in States,
         Ingest(c, state)
  PROVE  sess' \in [Session -> Sess]
<1>1. conn[c].session \in Session
  BY ConnType DEF Connection
<1> QED BY <1>1, SetStateType DEF Ingest, Typed, TypeOK

(* The control plane's own steps. *)
LEMMA StepTyped ==
  ASSUME Typed, NEW x \in Handler, Step(x)
  PROVE  Typed'
<1> USE DEF Typed, TypeOK, HandlerAims, TokenAims
<1>1. CASE CountSessions(x)
  BY <1>1, HandlerType DEF CountSessions, In, Goto, End, Flight, PC
<1>2. CASE InsertSession(x)
  <2>1. h[x] # None /\ h[x] \in Flight
    BY <1>2, HandlerType DEF InsertSession, In
  <2>2. PICK s \in Session :
          /\ sess' = [sess EXCEPT ![s] = [state |-> "starting", grant |-> h[x].grant]]
          /\ h' = [h EXCEPT ![x].pc = "issue", ![x].session = s]
    BY <1>2 DEF InsertSession
  <2>3. sess' \in [Session -> Sess]
    BY <2>1, <2>2 DEF Sess, States, Live, Flight
  <2>4. h' \in [Handler -> Flight \cup {None}]
    BY <2>1, <2>2 DEF Flight, PC
  <2>5. HandlerAims'
    BY <2>1, <2>2
  <2> QED BY <1>2, <2>3, <2>4, <2>5 DEF InsertSession
<1>3. CASE IssueToken(x)
  BY <1>3, HandlerType DEF IssueToken, In, End, Flight, PC, Tok
<1>4. CASE Recheck(x)
  BY <1>4, HandlerType DEF Recheck, In, Goto, End, Flight, PC
<1>5. CASE TerminateSession(x)
  BY <1>5, HandlerType, SetStateType DEF TerminateSession, In, End, States
<1>6. CASE RevokeGrant(x)
  BY <1>6, HandlerType DEF RevokeGrant, In, Goto, Flight, PC
<1>7. CASE CleanUp(x)
  BY <1>7, HandlerType, TerminateAllType DEF CleanUp, In, Goto, Flight, PC
<1>8. CASE EnqueueRevoke(x)
  BY <1>8, HandlerType DEF EnqueueRevoke, In, End
<1>9. CASE ExpireGrant(x)
  BY <1>9, HandlerType DEF ExpireGrant, In, Flight, PC
<1>10. CASE ClearSessions(x)
  BY <1>10, HandlerType, TerminateAllType DEF ClearSessions, In, Goto, End, Flight, PC
<1> QED BY <1>1, <1>2, <1>3, <1>4, <1>5, <1>6, <1>7, <1>8, <1>9, <1>10 DEF Step

(* A request that arrives, or the sweep that starts. *)
LEMMA ArriveTyped ==
  ASSUME Typed, NEW x \in Handler, Arrive(x) \/ Sweep(x)
  PROVE  Typed'
<1> USE DEF Typed, TypeOK, HandlerAims, TokenAims, Begin, Flight, PC
<1>1. ASSUME NEW g \in Grant, StartSession(x, g) PROVE Typed'
  BY <1>1, SessionsAssumption DEF StartSession
<1>2. ASSUME NEW g \in Grant, Revoke(x, g) PROVE Typed'
  BY <1>2, SessionsAssumption DEF Revoke
<1>3. ASSUME NEW s \in Session, Reconnect(x, s) PROVE Typed'
  BY <1>3, SessionsAssumption DEF Reconnect, Sess
<1>4. ASSUME NEW s \in Session, Terminate(x, s) PROVE Typed'
  BY <1>4, SessionsAssumption DEF Terminate, Sess
<1>5. CASE StartAsAdmin(x)
  BY <1>5, SessionsAssumption DEF StartAsAdmin
<1>6. CASE Sweep(x)
  BY <1>6, SessionsAssumption DEF Sweep
<1> QED BY <1>1, <1>2, <1>3, <1>4, <1>5, <1>6 DEF Arrive

(* A connection's steps change neither handlers nor what tokens are about. *)
LEMMA ConnTyped ==
  ASSUME Typed, NEW c \in Conn, Checkout(c) \/ Serve(c) \/ Leave(c)
  PROVE  Typed'
<1> USE DEF Typed, TypeOK, HandlerAims, TokenAims, ConnIn, ConnPC
<1>1. CASE Consume(c)
  <2>1. conn[c].token \in Token
    BY <1>1, ConnType DEF Consume, Connection
  <2>2. CASE tok[conn[c].token].row = "fresh"
    <3>1. /\ tok' = [tok EXCEPT ![conn[c].token].row = "consumed"]
          /\ used' = [used EXCEPT ![conn[c].token] = @ + 1]
          /\ ConnGoto(c, "recheck")
      BY <1>1, <2>2 DEF Consume
    <3>2. conn' \in [Conn -> Connection \cup {None}]
      BY <1>1, <3>1, ConnGotoType DEF Consume
    <3>3. tok' \in [Token -> Tok] /\ TokenAims'
      <4>1. [tok[conn[c].token] EXCEPT !.row = "consumed"] \in Tok
        BY <2>1 DEF Tok
      <4>2. tok' \in [Token -> Tok]
        BY <3>1, <2>1, <4>1
      <4>3. \A t \in Token : /\ tok'[t].signed = tok[t].signed
                             /\ tok'[t].session = tok[t].session
        BY <3>1, <2>1 DEF Tok
      <4> QED BY <4>2, <4>3
    <3>4. used' \in [Token -> Nat]
      BY <3>1, <2>1
    <3> QED BY <1>1, <3>2, <3>3, <3>4 DEF Consume
  <2>3. CASE tok[conn[c].token].row # "fresh"
    BY <1>1, <2>3, HangupType DEF Consume
  <2> QED BY <2>2, <2>3
<1>2. CASE RecheckGrant(c)
  BY <1>2, ConnGotoType DEF RecheckGrant
<1>3. CASE Deny(c)
  BY <1>3, HangupType, ConnType, SetStateType DEF Deny, Connection, States
<1>4. CASE RefuseAccount(c)
  BY <1>4, HangupType DEF RefuseAccount
<1>5. CASE OpenCredential(c)
  BY <1>5, ConnGotoType DEF OpenCredential
<1>6. CASE Activate(c)
  BY <1>6, ConnGotoType, ConnType, SetStateType DEF Activate, Connection, States, Live
<1>7. CASE DialTarget(c)
  BY <1>7, ConnGotoType DEF DialTarget
<1>8. CASE DropSilently(c)
  BY <1>8, HangupType DEF DropSilently
<1>14. CASE LoseReport(c)
  BY <1>14, ConnGotoType DEF LoseReport
<1>9. CASE ReportFailed(c)
  BY <1>9, HangupType, IngestType DEF ReportFailed, States
<1>10. CASE ReportActive(c)
  BY <1>10, ConnGotoType, IngestType DEF ReportActive, States, Live
<1>11. CASE Poll(c)
  <2>1. conn[c] # None /\ conn[c] \in Connection
    BY <1>11, ConnType DEF Poll
  <2>2. [conn[c] EXCEPT !.missed = TRUE] \in Connection
    BY <2>1 DEF Connection
  <2>3. conn' \in [Conn -> Connection \cup {None}]
    BY <1>11, <2>1, <2>2, ConnGotoType DEF Poll
  <2> QED BY <1>11, <2>3 DEF Poll
<1>12. CASE ReportEnded(c)
  BY <1>12, HangupType, IngestType DEF ReportEnded, States
<1>13. CASE Leave(c)
  BY <1>13, ConnGotoType DEF Leave
<1> QED BY <1>1, <1>2, <1>3, <1>4, <1>5, <1>6, <1>7, <1>8, <1>9, <1>10, <1>11,
           <1>12, <1>13, <1>14 DEF Checkout, Serve

LEMMA NextTyped == Typed /\ [Next]_vars => Typed'
<1> SUFFICES ASSUME Typed, [Next]_vars PROVE Typed'
  OBVIOUS
<1>1. ASSUME NEW g \in Grant, Issue(g) PROVE Typed'
  BY <1>1 DEF Issue, Typed, TypeOK, HandlerAims, TokenAims
<1>2. ASSUME NEW x \in Handler, NEW g \in Grant, RunRevokeJob(x, g) PROVE Typed'
  BY <1>2, SessionsAssumption
  DEF RunRevokeJob, Begin, Flight, PC, Typed, TypeOK, HandlerAims, TokenAims
<1>3. ASSUME NEW c \in Conn, NEW t \in Token, Connect(c, t) PROVE Typed'
  BY <1>3 DEF Connect, Typed, TypeOK, HandlerAims, TokenAims, Connection, ConnPC
<1>4. ASSUME NEW g \in Grant, WindowCloses(g) PROVE Typed'
  BY <1>4 DEF WindowCloses, Typed, TypeOK, HandlerAims, TokenAims
<1>5. ASSUME NEW t \in Token, TokenExpires(t) PROVE Typed'
  BY <1>5 DEF TokenExpires, Typed, TypeOK, HandlerAims, TokenAims, Tok
<1>6. CASE Purge
  BY <1>6 DEF Purge, Typed, TypeOK, HandlerAims, TokenAims, Tok
<1>7. CASE UNCHANGED vars
  BY <1>7 DEF vars, Typed, TypeOK, HandlerAims, TokenAims
<1> QED BY <1>1, <1>2, <1>3, <1>4, <1>5, <1>6, <1>7, StepTyped, ArriveTyped,
           ConnTyped DEF Next, Time

LEMMA AlwaysTyped == Spec => []Typed
<1>1. Init => Typed
  BY InitTyped
<1>2. Typed /\ [Next]_vars => Typed'
  BY NextTyped
<1> QED BY <1>1, <1>2, PTL DEF Spec

(* Type correctness of the sessions. *)
THEOREM TypeCorrect == Spec => []TypeOK
<1>1. Typed => TypeOK
  BY DEF Typed
<1> QED BY <1>1, AlwaysTyped, PTL

-----------------------------------------------------------------------------
(* Single use.  A token whose row is still fresh, or that stands for nothing
   yet, has not been used; consuming takes the row out of "fresh" for good,
   because a purged row keeps its token's identity. *)

Unused ==
  \A t \in Token :
    /\ used[t] \in {0, 1}
    /\ tok[t].row = "fresh" \/ tok[t].session = None => used[t] = 0
    /\ tok[t].row # "none" => tok[t].session # None

LEMMA InitUnused == Init => Unused
BY DEF Init, Unused

(* Only three actions write the tokens' rows or their use. *)
LEMMA SameTokens ==
  ASSUME Unused, UNCHANGED <<tok, used>>
  PROVE  Unused'
BY DEF Unused

LEMMA NextUnused == Typed /\ Unused /\ [Next]_vars => Unused'
<1> SUFFICES ASSUME Typed, Unused, [Next]_vars PROVE Unused'
  OBVIOUS
<1>1. ASSUME NEW x \in Handler, IssueToken(x) PROVE Unused'
  <2>1. h[x].session \in Session
    BY <1>1, HandlerType DEF IssueToken, In
  <2> QED BY <1>1, <2>1, SessionsAssumption DEF IssueToken, Unused, Typed, TypeOK, Tok
<1>2. ASSUME NEW c \in Conn, Consume(c) PROVE Unused'
  <2>1. conn[c].token \in Token
    BY <1>2, ConnType DEF Consume, ConnIn, Connection
  <2> QED BY <1>2, <2>1 DEF Consume, Unused, Typed, TypeOK, Tok
<1>3. ASSUME NEW t \in Token, TokenExpires(t) PROVE Unused'
  BY <1>3 DEF TokenExpires, Unused, Typed, TypeOK, Tok
<1>4. CASE Purge
  BY <1>4 DEF Purge, Unused, Typed, TypeOK, Tok
<1>5. ASSUME NEW x \in Handler, Step(x), ~ IssueToken(x) PROVE UNCHANGED <<tok, used>>
  BY <1>5 DEF Step, CountSessions, InsertSession, Recheck, TerminateSession,
    RevokeGrant, CleanUp, EnqueueRevoke, ExpireGrant, ClearSessions
<1>6. ASSUME NEW x \in Handler, Arrive(x) \/ Sweep(x) PROVE UNCHANGED <<tok, used>>
  BY <1>6 DEF Arrive, Sweep, StartSession, Revoke, Reconnect, Terminate, StartAsAdmin
<1>7. ASSUME NEW c \in Conn, Checkout(c) \/ Serve(c) \/ Leave(c), ~ Consume(c)
      PROVE  UNCHANGED <<tok, used>>
  BY <1>7 DEF Checkout, Serve, RecheckGrant, Deny, RefuseAccount, OpenCredential,
    Activate, DialTarget, DropSilently, LoseReport, ReportFailed, ReportActive, Poll,
    ReportEnded, Leave
<1>8. ASSUME NEW c \in Conn, NEW t \in Token, Connect(c, t)
      PROVE  UNCHANGED <<tok, used>>
  BY <1>8 DEF Connect
<1>9. ASSUME NEW g \in Grant, Issue(g) \/ WindowCloses(g)
                                \/ (\E w \in Handler : RunRevokeJob(w, g))
      PROVE  UNCHANGED <<tok, used>>
  BY <1>9 DEF Issue, RunRevokeJob, WindowCloses
<1>10. CASE UNCHANGED vars
  BY <1>10, SameTokens DEF vars
<1> QED BY <1>1, <1>2, <1>3, <1>4, <1>5, <1>6, <1>7, <1>8, <1>9, <1>10,
           SameTokens DEF Next, Time

LEMMA AlwaysUnused == Spec => []Unused
<1>1. Init => Unused
  BY InitUnused
<1>2. Typed /\ Unused /\ [Next]_vars => Unused'
  BY NextUnused
<1> QED BY <1>1, <1>2, AlwaysTyped, PTL DEF Spec

(* However many connections verify a token at the same time, and whatever is
   purged, its credential is handed out at most once. *)
THEOREM TokensAreSingleUse == Spec => []SingleUse
<1>1. Unused => SingleUse
  BY DEF Unused, SingleUse
<1> QED BY <1>1, AlwaysUnused, PTL

-----------------------------------------------------------------------------
(* Termination is final.  No inductive invariant beyond the types is needed:
   every statement that writes a session's state either writes "terminated"
   or asks for another state first. *)

Kept(s) == sess[s].state = "terminated" => sess'[s] = sess[s]

LEMMA IngestKeeps ==
  ASSUME Typed, NEW c \in Conn, conn[c] # None, NEW state, Ingest(c, state),
         NEW s \in Session
  PROVE  Kept(s)
<1>1. conn[c].session \in Session
  BY ConnType DEF Connection
<1> QED BY <1>1 DEF Ingest, SetState, Kept, Typed, TypeOK

LEMMA TerminateAllKeeps ==
  ASSUME NEW g, TerminateAll(g), NEW s \in Session
  PROVE  Kept(s)
BY DEF TerminateAll, LiveOf, Live, Kept

(* Setting "terminated" once more changes nothing. *)
LEMMA TerminatedAgain ==
  ASSUME Typed, NEW t \in Session, SetState(t, "terminated"), NEW s \in Session
  PROVE  Kept(s)
BY DEF SetState, Kept, Typed, TypeOK, Sess

LEMMA NextKeeps ==
  ASSUME Typed, [Next]_vars, NEW s \in Session
  PROVE  Kept(s)
<1> USE DEF Kept
<1>1. ASSUME NEW x \in Handler, Step(x) PROVE Kept(s)
  <2>1. CASE InsertSession(x)
    BY <2>1 DEF InsertSession, Typed, TypeOK
  <2>2. CASE TerminateSession(x)
    BY <2>2, HandlerType, TerminatedAgain DEF TerminateSession, In
  <2>3. CASE CleanUp(x)
    BY <2>3, TerminateAllKeeps DEF CleanUp
  <2>4. CASE ClearSessions(x)
    BY <2>4, TerminateAllKeeps DEF ClearSessions
  <2> QED BY <1>1, <2>1, <2>2, <2>3, <2>4 DEF Step, CountSessions, IssueToken,
             Recheck, RevokeGrant, EnqueueRevoke, ExpireGrant
<1>2. ASSUME NEW x \in Handler, Arrive(x) \/ Sweep(x) PROVE Kept(s)
  BY <1>2 DEF Arrive, Sweep, StartSession, Revoke, Reconnect, Terminate, StartAsAdmin
<1>3. ASSUME NEW c \in Conn, Checkout(c) \/ Serve(c) \/ Leave(c) PROVE Kept(s)
  <2>1. CASE Deny(c)
    BY <2>1, ConnType, TerminatedAgain DEF Deny, ConnIn, Connection
  <2>2. CASE Activate(c)
    <3>1. conn[c].session \in Session
      BY <2>2, ConnType DEF Activate, ConnIn, Connection
    <3> QED BY <2>2, <3>1 DEF Activate, SetState, Typed, TypeOK
  <2>3. CASE ReportFailed(c)
    BY <2>3, IngestKeeps DEF ReportFailed, ConnIn
  <2>4. CASE ReportActive(c)
    BY <2>4, IngestKeeps DEF ReportActive, ConnIn
  <2>5. CASE ReportEnded(c)
    BY <2>5, IngestKeeps DEF ReportEnded, ConnIn
  <2> QED BY <1>3, <2>1, <2>2, <2>3, <2>4, <2>5 DEF Checkout, Serve, Consume,
             RecheckGrant, RefuseAccount, OpenCredential, DialTarget,
             DropSilently, LoseReport, Poll, Leave
<1>4. ASSUME NEW c \in Conn, NEW t \in Token, Connect(c, t) PROVE Kept(s)
  BY <1>4 DEF Connect
<1>5. ASSUME NEW x \in Handler, NEW g \in Grant, RunRevokeJob(x, g) PROVE Kept(s)
  BY <1>5 DEF RunRevokeJob
<1>6. ASSUME NEW g \in Grant, Issue(g) \/ WindowCloses(g) PROVE Kept(s)
  BY <1>6 DEF Issue, WindowCloses
<1>7. ASSUME NEW t \in Token, TokenExpires(t) PROVE Kept(s)
  BY <1>7 DEF TokenExpires
<1>8. CASE Purge
  BY <1>8 DEF Purge
<1>9. CASE UNCHANGED vars
  BY <1>9 DEF vars
<1> QED BY <1>1, <1>2, <1>3, <1>4, <1>5, <1>6, <1>7, <1>8, <1>9 DEF Next, Time

(* No checkout and no late report of a gateway brings a terminated session
   back. *)
THEOREM TerminationIsFinal == Spec => TerminatedIsFinal
<1>1. Typed /\ [Next]_vars =>
        [\A s \in Session : sess[s].state = "terminated" => sess'[s] = sess[s]]_vars
  BY NextKeeps DEF Kept
<1> QED BY <1>1, AlwaysTyped, PTL DEF Spec, TerminatedIsFinal

-----------------------------------------------------------------------------
(* Where sessions in use come from *)

(* The connection c writes "active" into session s. *)
Activates(c, s) ==
  conn[c] # None /\ conn[c].pc \in {"activate", "report"} /\ conn[c].session = s

LEMMA IngestUse ==
  ASSUME Typed, NEW c \in Conn, conn[c] # None, NEW state, Ingest(c, state),
         state \notin {"active", "idle"} \/ conn[c].pc \in {"activate", "report"},
         NEW s \in Session, InUse(s)'
  PROVE  InUse(s) \/ Activates(c, s)
<1>1. conn[c].session \in Session
  BY ConnType DEF Connection
<1> QED BY <1>1 DEF Ingest, SetState, InUse, Activates, Typed, TypeOK, Sess

LEMMA TerminateAllUse ==
  ASSUME NEW g, TerminateAll(g), NEW s \in Session, InUse(s)'
  PROVE  InUse(s)
BY DEF TerminateAll, LiveOf, Live, InUse

LEMMA TerminateUse ==
  ASSUME Typed, NEW t \in Session, SetState(t, "terminated"), NEW s \in Session,
         InUse(s)'
  PROVE  InUse(s)
BY DEF SetState, InUse, Typed, TypeOK, Sess

(* Only a connection at its checkout's end or at its first report puts a
   session in use. *)
LEMMA NewUse ==
  ASSUME Typed, [Next]_vars, NEW s \in Session, InUse(s)', ~ InUse(s)
  PROVE  \E c \in Conn : Activates(c, s) /\ (Activate(c) \/ ReportActive(c))
<1>1. ASSUME NEW x \in Handler, Step(x) PROVE FALSE
  <2>1. CASE InsertSession(x)
    BY <2>1 DEF InsertSession, InUse, Typed, TypeOK
  <2>2. CASE TerminateSession(x)
    BY <2>2, HandlerType, TerminateUse DEF TerminateSession, In
  <2>3. CASE CleanUp(x)
    BY <2>3, TerminateAllUse DEF CleanUp
  <2>4. CASE ClearSessions(x)
    BY <2>4, TerminateAllUse DEF ClearSessions
  <2> QED BY <1>1, <2>1, <2>2, <2>3, <2>4 DEF Step, CountSessions, IssueToken,
             Recheck, RevokeGrant, EnqueueRevoke, ExpireGrant, InUse
<1>2. ASSUME NEW x \in Handler, Arrive(x) \/ Sweep(x) PROVE FALSE
  BY <1>2 DEF Arrive, Sweep, StartSession, Revoke, Reconnect, Terminate,
    StartAsAdmin, InUse
<1>3. ASSUME NEW c \in Conn, Checkout(c) \/ Serve(c) \/ Leave(c)
      PROVE  Activates(c, s) /\ (Activate(c) \/ ReportActive(c))
  <2>1. CASE Deny(c)
    BY <2>1, ConnType, TerminateUse DEF Deny, ConnIn, Connection
  <2>2. CASE Activate(c)
    <3>1. conn[c] # None /\ conn[c].pc = "activate" /\ conn[c].session \in Session
      BY <2>2, ConnType DEF Activate, ConnIn, Connection
    <3> QED BY <2>2, <3>1 DEF Activate, SetState, InUse, Activates, Typed, TypeOK
  <2>3. CASE ReportFailed(c)
    BY <2>3, IngestUse DEF ReportFailed, ConnIn, Activates
  <2>4. CASE ReportActive(c)
    BY <2>4, IngestUse DEF ReportActive, ConnIn
  <2>5. CASE ReportEnded(c)
    BY <2>5, IngestUse DEF ReportEnded, ConnIn, Activates
  <2> QED BY <1>3, <2>1, <2>2, <2>3, <2>4, <2>5 DEF Checkout, Serve, Consume,
             RecheckGrant, RefuseAccount, OpenCredential, DialTarget,
             DropSilently, LoseReport, Poll, Leave, InUse
<1>4. ASSUME NEW c \in Conn, NEW t \in Token, Connect(c, t) PROVE FALSE
  BY <1>4 DEF Connect, InUse
<1>5. ASSUME NEW x \in Handler, NEW g \in Grant, RunRevokeJob(x, g) PROVE FALSE
  BY <1>5 DEF RunRevokeJob, InUse
<1>6. ASSUME NEW g \in Grant, Issue(g) \/ WindowCloses(g) PROVE FALSE
  BY <1>6 DEF Issue, WindowCloses, InUse
<1>7. ASSUME NEW t \in Token, TokenExpires(t) PROVE FALSE
  BY <1>7 DEF TokenExpires, InUse
<1>8. CASE Purge
  BY <1>8 DEF Purge, InUse
<1>9. CASE UNCHANGED vars
  BY <1>9 DEF vars, InUse
<1> QED BY <1>1, <1>2, <1>3, <1>4, <1>5, <1>6, <1>7, <1>8, <1>9 DEF Next, Time

-----------------------------------------------------------------------------
(* A session in use was checked out: a connection past the token's
   consumption carries a used token of its session, and tokens keep their
   session and their use. *)

Traced ==
  \A c \in Conn : conn[c] # None =>
    /\ tok[conn[c].token].session = conn[c].session
    /\ conn[c].pc # "consume" => used[conn[c].token] > 0

LEMMA TokensLast ==
  ASSUME Typed, Unused, [Next]_vars, NEW t \in Token
  PROVE  /\ tok[t].session # None => tok'[t].session = tok[t].session
         /\ used[t] > 0 => used'[t] > 0
<1>1. ASSUME NEW x \in Handler, Step(x) \/ Arrive(x) \/ Sweep(x)
      PROVE  /\ tok[t].session # None => tok'[t].session = tok[t].session
             /\ used' = used
  BY <1>1 DEF Step, CountSessions, InsertSession, IssueToken, Recheck,
    TerminateSession, RevokeGrant, CleanUp, EnqueueRevoke, ExpireGrant, ClearSessions,
    Arrive, Sweep, StartSession, Revoke, Reconnect, Terminate, StartAsAdmin,
    Typed, TypeOK
<1>2. ASSUME NEW c \in Conn, Consume(c)
      PROVE  tok'[t].session = tok[t].session /\ (used[t] > 0 => used'[t] > 0)
  BY <1>2 DEF Consume, Typed, TypeOK, Tok
<1>3. ASSUME NEW c \in Conn, Checkout(c) \/ Serve(c) \/ Leave(c), ~ Consume(c)
      PROVE  UNCHANGED <<tok, used>>
  BY <1>3 DEF Checkout, Serve, RecheckGrant, Deny, RefuseAccount, OpenCredential,
    Activate, DialTarget, DropSilently, LoseReport, ReportFailed, ReportActive, Poll,
    ReportEnded, Leave
<1>4. ASSUME NEW c \in Conn, NEW u \in Token, Connect(c, u)
      PROVE  UNCHANGED <<tok, used>>
  BY <1>4 DEF Connect
<1>5. ASSUME NEW g \in Grant, Issue(g) \/ WindowCloses(g)
                                \/ (\E w \in Handler : RunRevokeJob(w, g))
      PROVE  UNCHANGED <<tok, used>>
  BY <1>5 DEF Issue, RunRevokeJob, WindowCloses
<1>6. ASSUME NEW u \in Token, TokenExpires(u)
      PROVE  tok'[t].session = tok[t].session /\ used' = used
  BY <1>6 DEF TokenExpires, Typed, TypeOK, Tok
<1>7. CASE Purge
  BY <1>7 DEF Purge, Typed, TypeOK, Tok
<1>8. CASE UNCHANGED vars
  BY <1>8 DEF vars
<1> QED BY <1>1, <1>2, <1>3, <1>4, <1>5, <1>6, <1>7, <1>8 DEF Next, Time

(* A connection keeps its token and its session, and does not return to the
   consumption; the only way out of it is a used token. *)
LEMMA ConnLasts ==
  ASSUME Typed, [Next]_vars, NEW c \in Conn, conn'[c] # None
  PROVE  \/ /\ conn[c] = None
            /\ \E t \in Token : Connect(c, t)
         \/ /\ conn[c] # None
            /\ conn'[c].token = conn[c].token /\ conn'[c].session = conn[c].session
            /\ \/ conn[c].pc = "consume" /\ conn'[c].pc = "consume"
               \/ conn[c].pc # "consume"
               \/ Consume(c) /\ tok[conn[c].token].row = "fresh"
<1>1. ASSUME NEW x \in Handler, Step(x) \/ Arrive(x) \/ Sweep(x) PROVE conn' = conn
  BY <1>1 DEF Step, CountSessions, InsertSession, IssueToken, Recheck,
    TerminateSession, RevokeGrant, CleanUp, EnqueueRevoke, ExpireGrant, ClearSessions,
    Arrive, Sweep, StartSession, Revoke, Reconnect, Terminate, StartAsAdmin
<1>2. ASSUME NEW d \in Conn, Consume(d)
      PROVE  /\ d # c => conn'[c] = conn[c]
             /\ d = c => /\ conn[c] # None /\ tok[conn[c].token].row = "fresh"
                         /\ conn'[c].token = conn[c].token
                         /\ conn'[c].session = conn[c].session
  BY <1>2, ConnType DEF Consume, ConnIn, ConnGoto, Hangup, Connection, Typed, TypeOK
<1>3. ASSUME NEW d \in Conn, Checkout(d) \/ Serve(d) \/ Leave(d), ~ Consume(d)
      PROVE  /\ d # c => conn'[c] = conn[c]
             /\ d = c => /\ conn[c] # None /\ conn[c].pc # "consume"
                         /\ conn'[c].token = conn[c].token
                         /\ conn'[c].session = conn[c].session
  <2>1. conn[d] # None /\ conn[d].pc # "consume"
    BY <1>3 DEF Checkout, Serve, RecheckGrant, Deny, RefuseAccount, OpenCredential,
      Activate, DialTarget, DropSilently, LoseReport, ReportFailed, ReportActive, Poll,
      ReportEnded, Leave, ConnIn
  <2>2. \/ \E pc \in ConnPC : ConnGoto(d, pc)
        \/ Hangup(d)
        \/ conn' = [conn EXCEPT ![d].missed = TRUE]
    BY <1>3 DEF Checkout, Serve, RecheckGrant, Deny, RefuseAccount, OpenCredential,
      Activate, DialTarget, DropSilently, LoseReport, ReportFailed, ReportActive, Poll,
      ReportEnded, Leave, ConnPC
  <2>3. conn[d] \in Connection
    BY <2>1, ConnType
  <2> QED BY <2>1, <2>2, <2>3 DEF ConnGoto, Hangup, Connection, Typed, TypeOK
<1>4. ASSUME NEW d \in Conn, NEW t \in Token, Connect(d, t)
      PROVE  (d # c => conn'[c] = conn[c]) /\ (d = c => conn[c] = None)
  BY <1>4 DEF Connect, Typed, TypeOK
<1>5. ASSUME NEW g \in Grant, Issue(g) \/ WindowCloses(g)
                                \/ (\E w \in Handler : RunRevokeJob(w, g))
      PROVE  conn' = conn
  BY <1>5 DEF Issue, RunRevokeJob, WindowCloses
<1>6. ASSUME NEW t \in Token, TokenExpires(t) PROVE conn' = conn
  BY <1>6 DEF TokenExpires
<1>7. CASE Purge \/ UNCHANGED vars
  BY <1>7 DEF Purge, vars
<1> QED BY <1>1, <1>2, <1>3, <1>4, <1>5, <1>6, <1>7 DEF Next, Time

LEMMA NextTraced ==
  ASSUME Typed, Unused, Traced, [Next]_vars
  PROVE  Traced'
<1> SUFFICES ASSUME NEW c \in Conn, conn'[c] # None
             PROVE  /\ tok'[conn'[c].token].session = conn'[c].session
                    /\ conn'[c].pc # "consume" => used'[conn'[c].token] > 0
  BY DEF Traced
<1>1. CASE conn[c] = None
  <2>1. PICK t \in Token : Connect(c, t)
    BY <1>1, ConnLasts
  <2> QED BY <2>1 DEF Connect, Typed, TypeOK
<1>2. CASE conn[c] # None
  <2>1. /\ conn'[c].token = conn[c].token /\ conn'[c].session = conn[c].session
        /\ \/ conn[c].pc = "consume" /\ conn'[c].pc = "consume"
           \/ conn[c].pc # "consume"
           \/ Consume(c) /\ tok[conn[c].token].row = "fresh"
    BY <1>2, ConnLasts
  <2>2. conn[c].token \in Token /\ conn[c].session \in Session
    BY <1>2, ConnType DEF Connection
  <2>3. tok'[conn[c].token].session = conn[c].session
    BY <1>2, <2>2, TokensLast, SessionsAssumption DEF Traced
  <2>4. CASE Consume(c) /\ tok[conn[c].token].row = "fresh"
    BY <2>1, <2>2, <2>3, <2>4 DEF Consume, Typed, TypeOK
  <2>5. CASE conn[c].pc # "consume"
    BY <1>2, <2>1, <2>2, <2>3, <2>5, TokensLast DEF Traced
  <2> QED BY <2>1, <2>3, <2>4, <2>5
<1> QED BY <1>1, <1>2

LEMMA NextCheckedOut ==
  ASSUME Typed, Unused, Traced, ActiveWasCheckedOut, [Next]_vars
  PROVE  ActiveWasCheckedOut'
<1> SUFFICES ASSUME NEW s \in Session, InUse(s)'
             PROVE  \E t \in Token : tok'[t].session = s /\ used'[t] > 0
  BY DEF ActiveWasCheckedOut, InUse
<1>1. \E t \in Token : tok[t].session = s /\ used[t] > 0
  <2>1. CASE InUse(s)
    BY <2>1 DEF InUse, ActiveWasCheckedOut
  <2>2. CASE ~ InUse(s)
    <3>1. PICK c \in Conn : Activates(c, s)
      BY <2>2, NewUse
    <3> QED BY <3>1, ConnType DEF Activates, Traced, Connection
  <2> QED BY <2>1, <2>2
<1> QED BY <1>1, TokensLast, SessionsAssumption

(* No session counts as in use unless a token of its own was exchanged for
   the credential, whatever other connections and revocations do. *)
THEOREM ActiveSessionsWereCheckedOut == Spec => []ActiveWasCheckedOut
<1> DEFINE Inv == Traced /\ ActiveWasCheckedOut
<1>1. Init => Inv
  BY DEF Init, Traced, ActiveWasCheckedOut
<1>2. Typed /\ Unused /\ Inv /\ [Next]_vars => Inv'
  BY NextTraced, NextCheckedOut
<1>3. Inv => ActiveWasCheckedOut
  OBVIOUS
<1> QED BY <1>1, <1>2, <1>3, AlwaysTyped, AlwaysUnused, PTL DEF Spec

-----------------------------------------------------------------------------
(* A session in use is served: a connection that goes away takes its session out
   of use, unless it goes unreported. *)

(* A step within the connection leaves it open. *)
LEMMA GotoOpen ==
  ASSUME Typed, NEW c \in Conn, conn[c] # None, NEW s \in Session,
         conn[c].session = s,
         NEW pc \in {"dial", "report", "run", "failed", "closing"}, ConnGoto(c, pc)
  PROVE  Open(c, s)'
<1>1. conn[c] \in Connection
  BY ConnType
<1>2. conn'[c] = [conn[c] EXCEPT !.pc = pc]
  BY DEF ConnGoto, Typed, TypeOK
<1>3. conn'[c] \in Connection /\ conn'[c].session = s /\ conn'[c].pc = pc
  BY <1>1, <1>2 DEF Connection, ConnPC
<1> QED BY <1>3, NoneAssumption DEF Open

LEMMA MissedOpen ==
  ASSUME Typed, NEW c \in Conn, NEW s \in Session, Open(c, s),
         conn' = [conn EXCEPT ![c].missed = TRUE]
  PROVE  Open(c, s)'
<1>1. conn[c] \in Connection
  BY ConnType DEF Open
<1>2. conn'[c] = [conn[c] EXCEPT !.missed = TRUE]
  BY DEF Typed, TypeOK
<1>3. /\ conn'[c] \in Connection
      /\ conn'[c].session = conn[c].session /\ conn'[c].pc = conn[c].pc
  BY <1>1, <1>2 DEF Connection
<1> QED BY <1>3, NoneAssumption DEF Open

(* An open connection stays open, its session is out of use, or it goes
   unreported. *)
LEMMA OpenLasts ==
  ASSUME Typed, [Next]_vars, NEW c \in Conn, NEW s \in Session, Open(c, s),
         ~ Unreported(c)
  PROVE  Open(c, s)' \/ ~ InUse(s)'
<1>0. /\ conn[c] \in Connection /\ conn[c].session = s
      /\ tok[conn[c].token].signed
  BY ConnType DEF Open, Unreported
<1>1. ASSUME NEW x \in Handler, Step(x) \/ Arrive(x) \/ Sweep(x) PROVE conn' = conn
  BY <1>1 DEF Step, CountSessions, InsertSession, IssueToken, Recheck,
    TerminateSession, RevokeGrant, CleanUp, EnqueueRevoke, ExpireGrant, ClearSessions,
    Arrive, Sweep, StartSession, Revoke, Reconnect, Terminate, StartAsAdmin
<1>2. ASSUME NEW d \in Conn, Checkout(d) \/ Serve(d) \/ Leave(d), d # c
      PROVE  conn'[c] = conn[c]
  BY <1>2 DEF Checkout, Serve, Consume, RecheckGrant, Deny, RefuseAccount,
    OpenCredential, Activate, DialTarget, DropSilently, LoseReport, ReportFailed, ReportActive,
    Poll, ReportEnded, Leave, ConnGoto, Hangup, Typed, TypeOK
<1>3. CASE DialTarget(c) \/ LoseReport(c) \/ Poll(c) \/ Leave(c)
  <2>1. \/ ConnGoto(c, "report") \/ ConnGoto(c, "failed") \/ ConnGoto(c, "closing")
        \/ ConnGoto(c, "run") \/ conn' = [conn EXCEPT ![c].missed = TRUE]
    BY <1>3 DEF DialTarget, LoseReport, Poll, Leave
  <2> QED BY <1>0, <2>1, GotoOpen, MissedOpen DEF Open
<1>4. CASE ReportActive(c)
  BY <1>0, <1>4, GotoOpen DEF ReportActive, Open
<1>5. CASE ReportFailed(c) \/ ReportEnded(c)
  BY <1>0, <1>5 DEF ReportFailed, ReportEnded, Ingest, SetState, InUse, Sess, Typed, TypeOK
<1>6. ~ Checkout(c) /\ ~ DropSilently(c)
  BY DEF Checkout, Consume, RecheckGrant, Deny, RefuseAccount, OpenCredential,
    Activate, Unreported, ConnIn, Open
<1>7. ASSUME NEW d \in Conn, NEW t \in Token, Connect(d, t) PROVE conn'[c] = conn[c]
  BY <1>7 DEF Connect, Open, Typed, TypeOK
<1>8. ASSUME NEW g \in Grant, Issue(g) \/ WindowCloses(g)
                                \/ (\E w \in Handler : RunRevokeJob(w, g))
      PROVE  conn' = conn
  BY <1>8 DEF Issue, RunRevokeJob, WindowCloses
<1>9. ASSUME NEW t \in Token, TokenExpires(t) PROVE conn' = conn
  BY <1>9 DEF TokenExpires
<1>10. CASE Purge \/ UNCHANGED vars
  BY <1>10 DEF Purge, vars, Open
<1>11. conn'[c] = conn[c] => Open(c, s)'
  BY DEF Open
<1> QED BY <1>1, <1>2, <1>3, <1>4, <1>5, <1>6, <1>7, <1>8, <1>9, <1>10, <1>11
        DEF Next, Time, Serve

LEMMA NextServed ==
  ASSUME Typed, [Next]_vars, NEW s \in Session, Unserved(s)', ~ Unserved(s)
  PROVE  \E c \in Conn : Open(c, s) /\ Unreported(c)
<1>0. InUse(s)' /\ \A c \in Conn : ~ Open(c, s)'
  BY DEF Unserved
<1>1. CASE InUse(s)
  <2>1. PICK c \in Conn : Open(c, s)
    BY <1>1 DEF Unserved
  <2> QED BY <1>0, <2>1, OpenLasts
<1>2. CASE ~ InUse(s)
  <2>1. PICK c \in Conn : Activates(c, s) /\ (Activate(c) \/ ReportActive(c))
    BY <1>0, <1>2, NewUse
  <2> QED BY <1>0, <2>1, GotoOpen DEF Activates, Activate, ReportActive
<1> QED BY <1>1, <1>2

(* A session comes to be in use without a connection only by a connection of its
   own that goes without a report or whose report is refused because its token has
   expired: for any number of tokens and connections of a session, and whatever
   revocations, sweeps and other connections do meanwhile. *)
THEOREM ActiveSessionsAreServed == Spec => ActiveIsServed
<1>1. Typed /\ [Next]_vars =>
        [\A s \in Session : Unserved(s)' /\ ~ Unserved(s) =>
           \E c \in Conn : Open(c, s) /\ Unreported(c)]_vars
  BY NextServed
<1> QED BY <1>1, AlwaysTyped, PTL DEF Spec, ActiveIsServed

-----------------------------------------------------------------------------
(* A grant that is over is out of use.  Revocation and expiry write the grant
   first and its sessions afterwards, while checkouts that read the grant before
   go on.  What saves them is that a session for which one token has been
   exchanged has one connection past the token's consumption: a session still
   starting when its grant ends is terminated by the clean-up, one inserted later
   finds the grant over. *)

Past == ConnPC \ {"consume"}
Granted == Past \ {"recheck", "deny"}

Uses(c, s, pcs) == conn[c] # None /\ conn[c].session = s /\ conn[c].pc \in pcs

(* Tokens, and handlers that issue one, are of sessions that exist. *)
Started ==
  /\ \A x \in Handler :
       In(x, "issue") \/ In(x, "recheck") => sess[h[x].session].state # "none"
  /\ \A t \in Token : tok[t].session # None => sess[tok[t].session].state # "none"

OneConn == \A c, d \in Conn :
  conn[c] # None /\ conn[d] # None /\ conn[c].pc \in Past /\ conn[d].pc \in Past
    /\ conn[c].token = conn[d].token => c = d

Finished == \A s \in Session :
  sess[s].state \in {"ended", "error"} /\ ~ CheckedOutTwice(s) =>
    /\ CheckedOut(s) # {}
    /\ \A c \in Conn : ~ Uses(c, s, Past)

Ended(g) == grant[g] \in {"revoked", "expired"} /\ ~ Settling(g)

Quiet == \A g \in Grant, s \in Session :
  Ended(g) /\ sess[s].grant = g /\ ~ CheckedOutTwice(s) =>
  /\ ~ InUse(s)
  /\ sess[s].state = "starting" => \A c \in Conn : ~ Uses(c, s, Granted)

(* How a session's row changes. *)
Inserted(s) ==
  /\ sess[s].state = "none" /\ sess'[s].state = "starting"
  /\ conn' = conn /\ tok' = tok /\ used' = used
  /\ \E x \in Handler : /\ InsertSession(x) /\ h[x] # None
                        /\ sess'[s].grant = h[x].grant

Reported(c, s) ==
  /\ Uses(c, s, Granted) /\ sess'[s].grant = sess[s].grant
  /\ \/ sess[s].state = "starting" /\ sess'[s].state = "active"
     \/ sess[s].state # "terminated" /\ sess'[s].state = "active"
     \/ sess'[s].state \in {"ended", "error"} /\ conn'[c] = None

LEMMA IngestReports ==
  ASSUME Typed, NEW c \in Conn, conn[c] # None, conn[c].pc \in Granted,
         NEW state \in {"active", "ended", "error"}, Ingest(c, state),
         state # "active" => conn'[c] = None, NEW s \in Session
  PROVE  sess'[s] = sess[s] \/ Reported(c, s)
<1>1. conn[c].session \in Session
  BY ConnType DEF Connection
<1> QED BY <1>1 DEF Ingest, SetState, Reported, Uses, Typed, TypeOK, Sess

LEMMA TerminateAllIs ==
  ASSUME Typed, NEW g, TerminateAll(g), NEW s \in Session
  PROVE  /\ sess'[s].grant = sess[s].grant
         /\ sess'[s] = sess[s] \/ sess'[s].state = "terminated"
         /\ sess[s].grant = g => sess'[s].state \notin Live
BY DEF TerminateAll, LiveOf, Live, Typed, TypeOK, Sess

LEMMA TerminateIs ==
  ASSUME Typed, NEW t \in Session, SetState(t, "terminated"), NEW s \in Session
  PROVE  /\ sess'[s].grant = sess[s].grant
         /\ sess'[s] = sess[s] \/ sess'[s].state = "terminated"
BY DEF SetState, Typed, TypeOK, Sess

LEMMA SessionStep ==
  ASSUME Typed, [Next]_vars, NEW s \in Session
  PROVE  \/ sess'[s] = sess[s]
         \/ Inserted(s)
         \/ sess'[s].state = "terminated" /\ sess'[s].grant = sess[s].grant
         \/ \E c \in Conn : Reported(c, s)
<1>1. ASSUME NEW x \in Handler, Step(x)
      PROVE  \/ sess'[s] = sess[s] \/ Inserted(s)
             \/ sess'[s].state = "terminated" /\ sess'[s].grant = sess[s].grant
  <2>1. CASE InsertSession(x)
    <3>1. PICK t \in Session :
            /\ sess[t].state = "none"
            /\ sess' = [sess EXCEPT ![t] = [state |-> "starting", grant |-> h[x].grant]]
      BY <2>1 DEF InsertSession
    <3>2. /\ conn' = conn /\ tok' = tok /\ used' = used /\ h[x] # None
      BY <2>1 DEF InsertSession, In
    <3> QED BY <2>1, <3>1, <3>2 DEF Inserted, Typed, TypeOK
  <2>2. CASE TerminateSession(x)
    BY <2>2, HandlerType, TerminateIs DEF TerminateSession, In
  <2>3. CASE CleanUp(x)
    BY <2>3, TerminateAllIs DEF CleanUp
  <2>4. CASE ClearSessions(x)
    BY <2>4, TerminateAllIs DEF ClearSessions
  <2> QED BY <1>1, <2>1, <2>2, <2>3, <2>4 DEF Step, CountSessions, IssueToken,
             Recheck, RevokeGrant, EnqueueRevoke, ExpireGrant
<1>2. ASSUME NEW x \in Handler, Arrive(x) \/ Sweep(x) PROVE sess' = sess
  BY <1>2 DEF Arrive, Sweep, StartSession, Revoke, Reconnect, Terminate, StartAsAdmin
<1>3. ASSUME NEW c \in Conn, Checkout(c) \/ Serve(c) \/ Leave(c)
      PROVE  \/ sess'[s] = sess[s]
             \/ sess'[s].state = "terminated" /\ sess'[s].grant = sess[s].grant
             \/ Reported(c, s)
  <2>1. CASE Deny(c)
    BY <2>1, ConnType, TerminateIs DEF Deny, ConnIn, Connection
  <2>2. CASE Activate(c)
    <3>1. /\ conn[c] # None /\ conn[c].pc = "activate" /\ conn[c].session \in Session
          /\ conn[c].pc \in Granted
      BY <2>2, ConnType DEF Activate, ConnIn, Connection, Granted, Past, ConnPC
    <3> QED BY <2>2, <3>1 DEF Activate, SetState, Reported, Uses, Typed, TypeOK, Sess
  <2>3. CASE ReportFailed(c)
    BY <2>3, IngestReports DEF ReportFailed, ConnIn, Hangup, Granted, Past, ConnPC,
       Typed, TypeOK
  <2>4. CASE ReportActive(c)
    BY <2>4, IngestReports DEF ReportActive, ConnIn, Granted, Past, ConnPC
  <2>5. CASE ReportEnded(c)
    BY <2>5, IngestReports DEF ReportEnded, ConnIn, Hangup, Granted, Past, ConnPC,
       Typed, TypeOK
  <2> QED BY <1>3, <2>1, <2>2, <2>3, <2>4, <2>5 DEF Checkout, Serve, Consume,
             RecheckGrant, RefuseAccount, OpenCredential, DialTarget,
             DropSilently, LoseReport, Poll, Leave
<1>4. ASSUME NEW c \in Conn, NEW t \in Token, Connect(c, t) PROVE sess' = sess
  BY <1>4 DEF Connect
<1>5. ASSUME NEW x \in Handler, NEW g \in Grant, RunRevokeJob(x, g) PROVE sess' = sess
  BY <1>5 DEF RunRevokeJob
<1>6. ASSUME NEW g \in Grant, Issue(g) \/ WindowCloses(g) PROVE sess' = sess
  BY <1>6 DEF Issue, WindowCloses
<1>7. ASSUME NEW t \in Token, TokenExpires(t) PROVE sess' = sess
  BY <1>7 DEF TokenExpires
<1>8. CASE Purge \/ UNCHANGED vars
  BY <1>8 DEF Purge, vars
<1> QED BY <1>1, <1>2, <1>3, <1>4, <1>5, <1>6, <1>7, <1>8 DEF Next, Time

(* A row that exists keeps existing. *)
LEMMA SessionsLast ==
  ASSUME Typed, [Next]_vars, NEW s \in Session, sess[s].state # "none"
  PROVE  sess'[s].state # "none"
BY SessionStep DEF Inserted, Reported

(* How a connection comes to hold what it holds. *)
LEMMA UsesLast ==
  ASSUME Typed, [Next]_vars, NEW c \in Conn, NEW s \in Session
  PROVE  /\ Uses(c, s, Granted)' => \/ Uses(c, s, Granted)
                                    \/ RecheckGrant(c) /\ MayUse(s)
         /\ Uses(c, s, Past)' => \/ Uses(c, s, Past)
                                 \/ /\ Consume(c) /\ conn[c].session = s
                                    /\ tok[conn[c].token].row = "fresh"
<1> SUFFICES ASSUME conn'[c] # None, conn'[c].session = s
             PROVE  /\ conn'[c].pc \in Granted => \/ Uses(c, s, Granted)
                                                  \/ RecheckGrant(c) /\ MayUse(s)
                    /\ conn'[c].pc \in Past =>
                         \/ Uses(c, s, Past)
                         \/ /\ Consume(c) /\ conn[c].session = s
                            /\ tok[conn[c].token].row = "fresh"
  BY DEF Uses
<1>1. CASE conn[c] = None
  <2>1. PICK t \in Token : Connect(c, t)
    BY <1>1, ConnLasts
  <2> QED BY <2>1 DEF Connect, Typed, TypeOK, Granted, Past
<1>2. CASE conn[c] # None
  <2>1. /\ conn'[c].session = conn[c].session /\ conn[c] \in Connection
        /\ \/ conn[c].pc = "consume" /\ conn'[c].pc = "consume"
           \/ conn[c].pc # "consume"
           \/ Consume(c) /\ tok[conn[c].token].row = "fresh"
    BY <1>2, ConnLasts, ConnType
  <2>2. ASSUME conn'[c].pc \in Past
        PROVE  \/ Uses(c, s, Past)
               \/ /\ Consume(c) /\ conn[c].session = s
                  /\ tok[conn[c].token].row = "fresh"
    BY <1>2, <2>1, <2>2 DEF Uses, Past, Connection
  <2>3. ASSUME conn'[c].pc \in Granted, conn[c].pc \notin Granted
        PROVE  RecheckGrant(c) /\ MayUse(s)
    <3>1. conn'[c] # conn[c] /\ conn[c].pc \in {"consume", "recheck", "deny"}
      BY <2>1, <2>3 DEF Granted, Past, Connection
    <3>2. ASSUME NEW d \in Conn, Checkout(d) \/ Serve(d) \/ Leave(d) PROVE d = c
      BY <3>1, <3>2 DEF Checkout, Serve, Consume, RecheckGrant, Deny, RefuseAccount,
        OpenCredential, Activate, DialTarget, DropSilently, LoseReport, ReportFailed,
        ReportActive, Poll, ReportEnded, Leave, ConnGoto, Hangup, Typed, TypeOK
    <3>3. ~ Serve(c) /\ ~ Leave(c) /\ ~ OpenCredential(c) /\ ~ Activate(c) /\ ~ RefuseAccount(c)
      BY <3>1 DEF Serve, DialTarget, DropSilently, LoseReport, ReportFailed,
        ReportActive, Poll, ReportEnded, Leave, OpenCredential, Activate, RefuseAccount, ConnIn
    <3>4. ~ Consume(c) /\ ~ Deny(c)
      BY <1>2, <2>1, <2>3 DEF Consume, Deny, ConnGoto, Hangup, Granted, Past,
        Connection, Typed, TypeOK
    <3>5. ASSUME NEW x \in Handler, Step(x) \/ Arrive(x) \/ Sweep(x) PROVE FALSE
      BY <3>1, <3>5 DEF Step, CountSessions, InsertSession, IssueToken, Recheck,
        TerminateSession, RevokeGrant, CleanUp, EnqueueRevoke, ExpireGrant, ClearSessions,
        Arrive, Sweep, StartSession, Revoke, Reconnect, Terminate, StartAsAdmin
    <3>6. ASSUME NEW d \in Conn, NEW t \in Token, Connect(d, t) PROVE FALSE
      BY <1>2, <3>1, <3>6 DEF Connect, Typed, TypeOK
    <3>7. ASSUME NEW g \in Grant, Issue(g) \/ WindowCloses(g)
                                \/ (\E w \in Handler : RunRevokeJob(w, g)) PROVE FALSE
      BY <3>1, <3>7 DEF Issue, RunRevokeJob, WindowCloses
    <3>8. ASSUME NEW t \in Token, TokenExpires(t) PROVE FALSE
      BY <3>1, <3>8 DEF TokenExpires
    <3>9. ~ Purge /\ ~ UNCHANGED vars
      BY <3>1 DEF Purge, vars
    <3>10. RecheckGrant(c)
      BY <3>2, <3>3, <3>4, <3>5, <3>6, <3>7, <3>8, <3>9 DEF Next, Time, Checkout
    <3>11. conn'[c].pc = IF MayUse(conn[c].session) THEN "open" ELSE "deny"
      BY <1>2, <2>1, <3>10 DEF RecheckGrant, ConnGoto, Connection, Typed, TypeOK
    <3> QED BY <2>1, <2>3, <3>10, <3>11 DEF Granted
  <2> QED BY <1>2, <2>1, <2>2, <2>3 DEF Uses
<1> QED BY <1>1, <1>2

(* Exchanged tokens stay so. *)
LEMMA CheckedOutStays ==
  ASSUME Typed, Unused, [Next]_vars, NEW s \in Session
  PROVE  /\ CheckedOut(s) \subseteq CheckedOut(s)'
         /\ CheckedOutTwice(s) => CheckedOutTwice(s)'
<1>1. ASSUME NEW t \in CheckedOut(s) PROVE t \in CheckedOut(s)'
  <2>1. t \in Token /\ tok[t].session = s /\ used[t] > 0 /\ s # None
    BY SessionsAssumption DEF CheckedOut
  <2> QED BY <2>1, TokensLast DEF CheckedOut
<1> QED BY <1>1 DEF CheckedOutTwice

(* A connection past its consumption holds an exchanged token of its session. *)
LEMMA PastToken ==
  ASSUME Typed, Traced, NEW s \in Session, NEW c \in Conn, Uses(c, s, Past)
  PROVE  conn[c].token \in CheckedOut(s) /\ conn[c].pc \in Past
BY ConnType DEF Uses, Traced, Past, Connection, CheckedOut

(* Where handlers that issue tokens, and tokens, come from. *)
LEMMA NextStarted ==
  ASSUME Typed, Started, [Next]_vars
  PROVE  Started'
<1> DEFINE Issues(x) == In(x, "issue") \/ In(x, "recheck")
           SameH == \A x \in Handler :
             Issues(x)' => Issues(x) /\ h'[x].session = h[x].session
           SameT == \A t \in Token : tok'[t].session = tok[t].session
<1>a. ASSUME NEW x \in Handler, Issues(x)
      PROVE  /\ h[x].session \in Session /\ sess[h[x].session].state # "none"
             /\ sess'[h[x].session].state # "none"
  <2>1. h[x].session \in Session /\ sess[h[x].session].state # "none"
    BY <1>a, HandlerType DEF In, Started
  <2> QED BY <2>1, SessionsLast
<1>b. SameT => \A t \in Token :
        tok'[t].session # None => sess'[tok'[t].session].state # "none"
  BY SessionsLast DEF Started, Typed, TypeOK, Tok
<1>c. SameH /\ SameT => Started'
  BY <1>a, <1>b DEF Started
<1>1. ASSUME NEW x \in Handler, InsertSession(x) PROVE Started'
  <2>1. h[x] # None /\ h[x] \in Flight /\ tok' = tok
    BY <1>1, HandlerType DEF InsertSession, In
  <2>2. PICK s \in Session :
          /\ sess' = [sess EXCEPT ![s] = [state |-> "starting", grant |-> h[x].grant]]
          /\ h' = [h EXCEPT ![x] = [h[x] EXCEPT !.pc = "issue", !.session = s]]
    BY <1>1 DEF InsertSession, Typed, TypeOK
  <2>3. /\ h'[x].session = s /\ \A y \in Handler : y # x => h'[y] = h[y]
        /\ sess'[s].state # "none"
    BY <2>1, <2>2 DEF Typed, TypeOK, Flight
  <2>4. \A y \in Handler : Issues(y)' => sess'[h'[y].session].state # "none"
    BY <1>a, <2>3 DEF In
  <2> QED BY <1>b, <2>1, <2>4 DEF Started
<1>2. ASSUME NEW x \in Handler, IssueToken(x) PROVE Started'
  <2>1. Issues(x) /\ h' = [h EXCEPT ![x] = None]
    BY <1>2 DEF IssueToken, End
  <2>2. PICK v \in Token :
          tok' = [tok EXCEPT ![v] = [session |-> h[x].session, row |-> "fresh",
                                     signed |-> TRUE]]
    BY <1>2 DEF IssueToken
  <2>3. \A t \in Token : tok'[t].session \in {tok[t].session, h[x].session}
    BY <2>2 DEF Typed, TypeOK
  <2>4. \A t \in Token : tok'[t].session # None => sess'[tok'[t].session].state # "none"
    BY <1>a, <2>1, <2>3, SessionsLast DEF Started, Typed, TypeOK, Tok
  <2>5. SameH
    BY <2>1 DEF In, Typed, TypeOK
  <2> QED BY <1>a, <2>4, <2>5 DEF Started
<1>3. ASSUME NEW x \in Handler, NEW s \in Session, Reconnect(x, s) PROVE Started'
  <2>1. /\ h'[x].session = s /\ \A y \in Handler : y # x => h'[y] = h[y]
        /\ sess'[s].state # "none" /\ tok' = tok
    BY <1>3 DEF Reconnect, Begin, Live, Typed, TypeOK
  <2>2. \A y \in Handler : Issues(y)' => sess'[h'[y].session].state # "none"
    BY <1>a, <2>1 DEF In
  <2> QED BY <1>b, <2>1, <2>2 DEF Started
<1>4. ASSUME NEW x \in Handler, Step(x), ~ InsertSession(x), ~ IssueToken(x)
      PROVE  SameH /\ SameT
  <2>1. h[x] # None /\ h[x] \in Flight /\ tok' = tok
    BY <1>4, HandlerType DEF Step, CountSessions, Recheck, TerminateSession, RevokeGrant,
      CleanUp, EnqueueRevoke, ExpireGrant, ClearSessions, In
  <2>2. \A y \in Handler : y # x => h'[y] = h[y]
    BY <1>4, <2>1 DEF Step, CountSessions, Recheck, TerminateSession, RevokeGrant, CleanUp,
      EnqueueRevoke, ExpireGrant, ClearSessions, Goto, End, Typed, TypeOK
  <2>3. \/ End(x)
        \/ Goto(x, "issue") /\ In(x, "recheck")
        \/ \E pc \in {"insert", "cleanup", "enqueue", "expire"} : Goto(x, pc)
        \/ ExpireGrant(x)
    BY <1>4 DEF Step, CountSessions, Recheck, TerminateSession, RevokeGrant, CleanUp,
      EnqueueRevoke, ClearSessions
  <2>4. Issues(x)' => Issues(x) /\ h'[x].session = h[x].session
    <3>1. CASE End(x)
      BY <3>1 DEF End, In, Typed, TypeOK
    <3>2. CASE Goto(x, "issue") /\ In(x, "recheck")
      <4>1. h'[x] = [h[x] EXCEPT !.pc = "issue"]
        BY <3>2 DEF Goto, Typed, TypeOK
      <4> QED BY <2>1, <3>2, <4>1 DEF Flight
    <3>3. ASSUME NEW pc \in {"insert", "cleanup", "enqueue", "expire"}, Goto(x, pc)
          PROVE  ~ Issues(x)'
      <4>1. h'[x] = [h[x] EXCEPT !.pc = pc]
        BY <3>3 DEF Goto, Typed, TypeOK
      <4>2. h'[x].pc = pc
        BY <2>1, <4>1 DEF Flight
      <4> QED BY <4>2 DEF In
    <3>4. CASE ExpireGrant(x)
      <4>1. PICK g \in h[x].todo :
              h' = [h EXCEPT ![x] = [h[x] EXCEPT !.pc = "clear", !.grant = g,
                                                 !.todo = h[x].todo \ {g}]]
        BY <3>4 DEF ExpireGrant, Typed, TypeOK
      <4>2. h'[x] = [h[x] EXCEPT !.pc = "clear", !.grant = g, !.todo = h[x].todo \ {g}]
        BY <4>1 DEF Typed, TypeOK
      <4>3. h'[x].pc = "clear"
        BY <2>1, <4>2 DEF Flight
      <4> QED BY <4>3 DEF In
    <3> QED BY <2>3, <3>1, <3>2, <3>3, <3>4
  <2> QED BY <2>1, <2>2, <2>4 DEF In
<1>5. ASSUME NEW x \in Handler, \/ Arrive(x) /\ \A s \in Session : ~ Reconnect(x, s)
                                \/ Sweep(x)
                                \/ \E g \in Grant : RunRevokeJob(x, g)
      PROVE  SameH /\ SameT
  <2>1. tok' = tok /\ \A y \in Handler : y # x => h'[y] = h[y]
    BY <1>5 DEF Arrive, Sweep, StartSession, Revoke, Terminate, StartAsAdmin, RunRevokeJob,
      Begin, Typed, TypeOK
  <2>2. h'[x].pc \in {"count", "revoke", "terminate", "insert", "expire", "clear"}
    BY <1>5 DEF Arrive, Sweep, StartSession, Revoke, Terminate, StartAsAdmin, RunRevokeJob,
      Begin, Typed, TypeOK
  <2> QED BY <2>1, <2>2 DEF In
<1>6. ASSUME NEW c \in Conn, Checkout(c) \/ Serve(c) \/ Leave(c) PROVE SameH /\ SameT
  <2>1. h' = h
    BY <1>6 DEF Checkout, Serve, Consume, RecheckGrant, Deny, RefuseAccount,
      OpenCredential, Activate, DialTarget, DropSilently, LoseReport, ReportFailed,
      ReportActive, Poll, ReportEnded, Leave
  <2>2. SameT
    BY <1>6 DEF Checkout, Serve, Consume, RecheckGrant, Deny, RefuseAccount,
      OpenCredential, Activate, DialTarget, DropSilently, LoseReport, ReportFailed,
      ReportActive, Poll, ReportEnded, Leave, Typed, TypeOK, Tok
  <2> QED BY <2>1, <2>2 DEF In
<1>7. ASSUME NEW c \in Conn, NEW t \in Token, Connect(c, t) PROVE SameH /\ SameT
  BY <1>7 DEF Connect, In
<1>8. ASSUME NEW g \in Grant, Issue(g) \/ WindowCloses(g) PROVE SameH /\ SameT
  BY <1>8 DEF Issue, WindowCloses, In
<1>9. ASSUME NEW t \in Token, TokenExpires(t) PROVE SameH /\ SameT
  BY <1>9 DEF TokenExpires, In, Typed, TypeOK, Tok
<1>10. ASSUME Purge \/ UNCHANGED vars PROVE SameH /\ SameT
  BY <1>10 DEF Purge, vars, In, Typed, TypeOK, Tok
<1> HIDE DEF SameH, SameT
<1> QED BY <1>c, <1>1, <1>2, <1>3, <1>4, <1>5, <1>6, <1>7, <1>8, <1>9, <1>10
        DEF Next, Time, Arrive

LEMMA NextOneConn ==
  ASSUME Typed, Unused, Traced, OneConn, [Next]_vars
  PROVE  OneConn'
<1> SUFFICES ASSUME NEW c \in Conn, NEW d \in Conn, conn'[c] # None, conn'[d] # None,
                    conn'[c].pc \in Past, conn'[d].pc \in Past,
                    conn'[c].token = conn'[d].token, c # d
             PROVE  FALSE
  BY DEF OneConn
(* a connection past its consumption was so before, or consumes just now *)
<1>1. ASSUME NEW e \in Conn, conn'[e] # None, conn'[e].pc \in Past
      PROVE  /\ conn[e] # None /\ conn'[e].token = conn[e].token
             /\ \/ conn[e].pc \in Past
                \/ Consume(e) /\ tok[conn[e].token].row = "fresh"
  <2>1. conn[e] # None
    <3>1. ASSUME conn[e] = None PROVE FALSE
      <4>1. PICK t \in Token : Connect(e, t)
        BY <1>1, <3>1, ConnLasts
      <4> QED BY <1>1, <4>1 DEF Connect, Typed, TypeOK, Past
    <3> QED BY <3>1
  <2>2. conn[e] \in Connection
    BY <2>1, ConnType
  <2> QED BY <1>1, <2>1, <2>2, ConnLasts DEF Past, Connection
<1>2. ASSUME NEW e \in Conn, NEW f \in Conn, e # f, Consume(e),
             tok[conn[e].token].row = "fresh", conn[f] # None, conn[f].pc \in Past,
             conn[f].token = conn[e].token, conn[e] # None
      PROVE  FALSE
  <2>1. conn[e].token \in Token
    BY <1>2, ConnType DEF Connection
  <2>2. used[conn[e].token] = 0
    BY <1>2, <2>1 DEF Unused
  <2>3. used[conn[f].token] > 0
    BY <1>2 DEF Traced, Past
  <2> QED BY <1>2, <2>2, <2>3
<1>3. ~ (Consume(c) /\ Consume(d) /\ conn'[c].pc \in Past /\ conn'[d].pc \in Past
           /\ conn[c].pc \notin Past /\ conn[d].pc \notin Past)
  BY DEF Consume, ConnIn, ConnGoto, Hangup, Past, Typed, TypeOK
<1>4. \/ conn[c].pc \in Past \/ conn[d].pc \in Past
  BY <1>1, <1>3
<1> QED BY <1>1, <1>2, <1>4 DEF OneConn

LEMMA OneSessionConn ==
  ASSUME Typed, Traced, OneConn, NEW s \in Session, ~ CheckedOutTwice(s),
         NEW c \in Conn, NEW d \in Conn, Uses(c, s, Past), Uses(d, s, Past)
  PROVE  c = d
<1>1. conn[c].token \in CheckedOut(s) /\ conn[d].token \in CheckedOut(s)
  BY PastToken
<1>2. conn[c].token = conn[d].token
  BY <1>1 DEF CheckedOutTwice
<1> QED BY <1>2 DEF OneConn, Uses

(* A connection past its consumption was so before, or its token had not been
   exchanged. *)
LEMMA PastLasts ==
  ASSUME Typed, Unused, [Next]_vars, NEW s \in Session, NEW c \in Conn,
         Uses(c, s, Past)'
  PROVE  /\ conn[c] # None /\ conn'[c].token = conn[c].token
         /\ Uses(c, s, Past) \/ conn[c].token \notin CheckedOut(s)
<1>1. \/ Uses(c, s, Past)
      \/ Consume(c) /\ tok[conn[c].token].row = "fresh"
  BY UsesLast
<1>2. conn[c] # None
  BY <1>1 DEF Uses, Consume, ConnIn
<1>3. conn'[c].token = conn[c].token /\ conn[c].token \in Token
  BY <1>2, ConnLasts, ConnType DEF Uses, Connection
<1> QED BY <1>1, <1>2, <1>3 DEF Unused, CheckedOut

LEMMA NextFinished ==
  ASSUME Typed, Unused, Traced, OneConn, Finished, [Next]_vars
  PROVE  Finished'
<1> SUFFICES ASSUME NEW s \in Session, sess'[s].state \in {"ended", "error"},
                    ~ CheckedOutTwice(s)'
             PROVE  /\ CheckedOut(s)' # {}
                    /\ \A c \in Conn : ~ Uses(c, s, Past)'
  BY DEF Finished
<1>0. /\ Granted \subseteq Past /\ ~ CheckedOutTwice(s) /\ Typed' /\ Traced'
      /\ CheckedOut(s) \subseteq CheckedOut(s)'
  BY CheckedOutStays, NextTyped, NextTraced DEF Granted
(* a newcomer would have the token that was exchanged before *)
<1>1. ASSUME NEW t \in CheckedOut(s), NEW c \in Conn, Uses(c, s, Past)'
      PROVE  Uses(c, s, Past)
  <2>1. conn'[c].token \in CheckedOut(s)'
    BY <1>0, <1>1, PastToken DEF Uses, Traced, Past, CheckedOut, Connection, Typed, TypeOK
  <2>2. conn'[c].token = t
    BY <1>0, <2>1 DEF CheckedOutTwice
  <2> QED BY <1>1, <2>2, PastLasts
<1>2. CASE sess'[s] = sess[s]
  <2>1. CheckedOut(s) # {} /\ \A c \in Conn : ~ Uses(c, s, Past)
    BY <1>0, <1>2 DEF Finished
  <2> QED BY <1>0, <1>1, <2>1
<1>3. CASE \E c \in Conn : Reported(c, s)
  <2>1. PICK c \in Conn : Reported(c, s)
    BY <1>3
  <2>2. Uses(c, s, Past) /\ conn'[c] = None
    BY <1>0, <2>1 DEF Reported, Uses
  <2>3. conn[c].token \in CheckedOut(s)
    BY <2>2, PastToken
  <2>4. ASSUME NEW d \in Conn, Uses(d, s, Past)' PROVE FALSE
    BY <1>0, <1>1, <2>2, <2>3, <2>4, OneSessionConn DEF Uses
  <2> QED BY <1>0, <2>3, <2>4
<1> QED BY <1>2, <1>3, SessionStep DEF Inserted

Settles(x, g) == h[x] # None /\ h[x].grant = g /\ h[x].pc \in {"cleanup", "clear"}

(* A handler that moves to `pc' and to the grant `g'. *)
LEMMA MovesTo ==
  ASSUME Typed, NEW x \in Handler, h[x] # None, NEW pc \in PC, NEW g \in Grant,
         NEW todo \in SUBSET Grant,
         h' = [h EXCEPT ![x] = [h[x] EXCEPT !.pc = pc, !.grant = g, !.todo = todo]]
  PROVE  h'[x] # None /\ h'[x].pc = pc /\ h'[x].grant = g
<1>1. h[x] \in Flight /\ h'[x] = [h[x] EXCEPT !.pc = pc, !.grant = g, !.todo = todo]
  BY HandlerType DEF Typed, TypeOK
<1>2. h'[x] \in Flight
  BY <1>1 DEF Flight
<1> QED BY <1>1, <1>2, NoneAssumption DEF Flight

(* A grant comes to be over by its clean-up, or it was over before. *)
LEMMA GrantStep ==
  ASSUME Typed, [Next]_vars, NEW g \in Grant, Ended(g)'
  PROVE  Ended(g) \/ (TerminateAll(g) /\ conn' = conn)
<1>0. ASSUME grant'[g] = grant[g], \A y \in Handler : Settles(y, g) => h'[y] = h[y]
      PROVE  Ended(g)
  BY <1>0 DEF Ended, Settling, Settles
<1>1. ASSUME NEW x \in Handler, RevokeGrant(x) PROVE Ended(g)
  <2>1. /\ h[x] # None /\ h[x].pc = "revoke" /\ h[x].grant \in Grant /\ h[x] \in Flight
        /\ h' = [h EXCEPT ![x] = [h[x] EXCEPT !.pc = "cleanup"]]
    BY <1>1, HandlerType DEF RevokeGrant, In, Goto, Typed, TypeOK
  <2>2. h'[x] = [h[x] EXCEPT !.pc = "cleanup"] /\ h'[x] \in Flight
    BY <2>1 DEF Flight, PC, Typed, TypeOK
  <2>3. h'[x] # None /\ h'[x].pc = "cleanup" /\ h'[x].grant = h[x].grant
    BY <2>1, <2>2, NoneAssumption DEF Flight
  <2>4. g # h[x].grant
    BY <2>3 DEF Ended, Settling
  <2>5. grant'[g] = grant[g]
    BY <1>1, <2>1, <2>4 DEF RevokeGrant, Typed, TypeOK
  <2>6. \A y \in Handler : Settles(y, g) => h'[y] = h[y]
    BY <2>1 DEF Settles, Typed, TypeOK
  <2> QED BY <1>0, <2>5, <2>6
<1>2. ASSUME NEW x \in Handler, ExpireGrant(x) PROVE Ended(g)
  <2>1. h[x] # None /\ h[x].pc = "expire" /\ h[x] \in Flight
    BY <1>2, HandlerType DEF ExpireGrant, In
  <2>2. PICK d \in h[x].todo :
          /\ grant' = [grant EXCEPT ![d] = "expired"]
          /\ h' = [h EXCEPT ![x] = [h[x] EXCEPT !.pc = "clear", !.grant = d,
                                                !.todo = h[x].todo \ {d}]]
    BY <1>2 DEF ExpireGrant, Typed, TypeOK
  <2>3. d \in Grant /\ h[x].todo \ {d} \in SUBSET Grant
    BY <2>1 DEF Flight
  <2>4. h'[x] # None /\ h'[x].pc = "clear" /\ h'[x].grant = d
    BY <2>1, <2>2, <2>3, MovesTo DEF PC
  <2>5. g # d
    BY <2>4 DEF Ended, Settling
  <2>6. grant'[g] = grant[g]
    BY <2>2, <2>3, <2>5 DEF Typed, TypeOK
  <2>7. \A y \in Handler : Settles(y, g) => h'[y] = h[y]
    BY <2>1, <2>2 DEF Settles, Typed, TypeOK
  <2> QED BY <1>0, <2>6, <2>7
<1>3. ASSUME NEW x \in Handler, CleanUp(x) \/ ClearSessions(x)
      PROVE  Ended(g) \/ (TerminateAll(g) /\ conn' = conn)
  <2>1. /\ TerminateAll(h[x].grant) /\ conn' = conn /\ grant' = grant
        /\ \A y \in Handler : y # x => h'[y] = h[y]
    BY <1>3 DEF CleanUp, ClearSessions, Goto, End, Typed, TypeOK
  <2>2. CASE h[x].grant # g
    <3>1. \A y \in Handler : Settles(y, g) => h'[y] = h[y]
      BY <2>1, <2>2 DEF Settles
    <3> QED BY <1>0, <2>1, <3>1
  <2> QED BY <2>1, <2>2
<1>4. ASSUME NEW x \in Handler, Step(x), ~ RevokeGrant(x), ~ ExpireGrant(x),
             ~ CleanUp(x), ~ ClearSessions(x)
      PROVE  Ended(g)
  <2>1. /\ grant' = grant /\ h[x] # None
        /\ h[x].pc \in {"count", "insert", "issue", "recheck", "terminate", "enqueue"}
    BY <1>4 DEF Step, CountSessions, InsertSession, IssueToken, Recheck,
      TerminateSession, EnqueueRevoke, In
  <2>2. \A y \in Handler : y # x => h'[y] = h[y]
    BY <1>4 DEF Step, CountSessions, InsertSession, IssueToken, Recheck,
      TerminateSession, EnqueueRevoke, Goto, End, Typed, TypeOK
  <2> QED BY <1>0, <2>1, <2>2 DEF Settles
<1>5. ASSUME NEW x \in Handler, Arrive(x) \/ Sweep(x) PROVE Ended(g)
  <2>1. grant' = grant /\ h[x] = None /\ \A y \in Handler : y # x => h'[y] = h[y]
    BY <1>5 DEF Arrive, Sweep, StartSession, Revoke, Reconnect, Terminate, StartAsAdmin,
      Begin, Typed, TypeOK
  <2> QED BY <1>0, <2>1 DEF Settles
<1>6. ASSUME NEW x \in Handler, NEW d \in Grant, RunRevokeJob(x, d) PROVE Ended(g)
  <2>1. h[x] = None /\ h'[x] # None /\ h'[x].pc = "clear" /\ h'[x].grant = d
    BY <1>6, NoneAssumption DEF RunRevokeJob, Begin, Flight, PC, Typed, TypeOK
  <2>2. g # d
    BY <2>1 DEF Ended, Settling
  <2>3. grant'[g] = grant[g]
    BY <1>6, <2>2 DEF RunRevokeJob, Typed, TypeOK
  <2>4. \A y \in Handler : Settles(y, g) => h'[y] = h[y]
    BY <1>6, <2>1 DEF RunRevokeJob, Begin, Settles, Typed, TypeOK
  <2> QED BY <1>0, <2>3, <2>4
<1>7. ASSUME NEW d \in Grant, Issue(d) PROVE Ended(g)
  <2>1. d # g
    BY <1>7 DEF Issue, Ended, Typed, TypeOK
  <2> QED BY <1>0, <1>7, <2>1 DEF Issue, Typed, TypeOK
<1>8. ASSUME NEW c \in Conn, Checkout(c) \/ Serve(c) \/ Leave(c) PROVE h' = h /\ grant' = grant
  BY <1>8 DEF Checkout, Serve, Consume, RecheckGrant, Deny, RefuseAccount,
    OpenCredential, Activate, DialTarget, DropSilently, LoseReport, ReportFailed, ReportActive,
    Poll, ReportEnded, Leave
<1>9. ASSUME NEW c \in Conn, NEW t \in Token, Connect(c, t) PROVE h' = h /\ grant' = grant
  BY <1>9 DEF Connect
<1>10. ASSUME NEW d \in Grant, WindowCloses(d) PROVE h' = h /\ grant' = grant
  BY <1>10 DEF WindowCloses
<1>11. ASSUME NEW t \in Token, TokenExpires(t) PROVE h' = h /\ grant' = grant
  BY <1>11 DEF TokenExpires
<1>12. ASSUME Purge \/ UNCHANGED vars PROVE h' = h /\ grant' = grant
  BY <1>12 DEF Purge, vars
<1>13. h' = h /\ grant' = grant => Ended(g)
  BY <1>0
<1> QED BY <1>1, <1>2, <1>3, <1>4, <1>5, <1>6, <1>7, <1>8, <1>9, <1>10, <1>11, <1>12,
           <1>13 DEF Next, Time

LEMMA NextQuiet ==
  ASSUME Typed, Unused, Traced, Started, Finished, Quiet, [Next]_vars
  PROVE  Quiet'
<1> SUFFICES ASSUME NEW g \in Grant, Ended(g)', NEW s \in Session, sess'[s].grant = g,
                    ~ CheckedOutTwice(s)'
             PROVE  /\ ~ InUse(s)'
                    /\ sess'[s].state = "starting" =>
                         \A c \in Conn : ~ Uses(c, s, Granted)'
  BY DEF Quiet
<1>0. ~ CheckedOutTwice(s) /\ s # None
  BY CheckedOutStays, SessionsAssumption
<1>1. CASE TerminateAll(g) /\ conn' = conn
  BY <1>1, TerminateAllIs DEF Live, InUse
<1>2. CASE Ended(g)
  <2>1. CASE sess'[s] = sess[s]
    <3>1. ~ InUse(s)' /\ ~ MayUse(s)
      BY <1>0, <1>2, <2>1, SessionsAssumption DEF Quiet, InUse, MayUse, Usable, Ended
    <3>2. ASSUME sess'[s].state = "starting", NEW c \in Conn, Uses(c, s, Granted)'
          PROVE  FALSE
      BY <1>0, <1>2, <2>1, <3>1, <3>2, UsesLast DEF Quiet
    <3> QED BY <3>1, <3>2
  <2>2. CASE Inserted(s)
    <3>1. ASSUME NEW c \in Conn, Uses(c, s, Granted)' PROVE FALSE
      <4>1. conn[c] # None /\ conn[c].session = s /\ conn[c].token \in Token
        BY <2>2, <3>1, ConnType DEF Inserted, Uses, Connection
      <4>2. tok[conn[c].token].session = s
        BY <4>1 DEF Traced
      <4> QED BY <1>0, <2>2, <4>1, <4>2 DEF Started, Inserted
    <3> QED BY <2>2, <3>1 DEF Inserted, InUse
  <2>3. CASE sess'[s].state = "terminated"
    BY <2>3 DEF InUse
  <2>4. ASSUME NEW c \in Conn, Reported(c, s), sess'[s].state = "active" PROVE FALSE
    <3>1. /\ conn[c] # None /\ conn[c].session = s /\ conn[c].token \in Token
          /\ Uses(c, s, Past) /\ Uses(c, s, Granted) /\ sess[s].grant = g
      BY <2>4, ConnType DEF Reported, Uses, Granted, Connection
    <3>2. tok[conn[c].token].session = s
      BY <3>1 DEF Traced
    <3>3. sess[s].state # "none" /\ sess[s].state \notin {"ended", "error"}
      BY <1>0, <3>1, <3>2 DEF Started, Finished
    <3>4. sess[s].state # "starting" /\ ~ InUse(s)
      BY <1>0, <1>2, <3>1 DEF Quiet
    <3>5. sess[s].state = "terminated"
      BY <3>3, <3>4 DEF Typed, TypeOK, Sess, States, Live, InUse
    <3> QED BY <2>4, <3>5 DEF Reported
  <2>5. CASE \E c \in Conn : Reported(c, s)
    BY <2>4, <2>5 DEF Reported, InUse
  <2> QED BY <2>1, <2>2, <2>3, <2>5, SessionStep
<1> QED BY <1>1, <1>2, GrantStep

(* Once a revocation or an expiry has been through the sessions of its grant,
   none of them is in use again: no checkout that had read the grant before, no
   session counted before and inserted after, no late report of a gateway, no
   token issued meanwhile brings one back, for any number of each.  The one way
   past it is a session for which two tokens have been exchanged. *)
THEOREM DeadGrantsAreUnused == Spec => []DeadGrantUnused
<1> DEFINE Inv == Traced /\ Started /\ OneConn /\ Finished /\ Quiet
<1>1. Init => Inv
  BY DEF Init, Traced, Started, OneConn, Finished, Quiet, Ended, In
<1>2. Typed /\ Unused /\ Inv /\ [Next]_vars => Inv'
  BY NextTraced, NextStarted, NextOneConn, NextFinished, NextQuiet
<1>3. Inv => DeadGrantUnused
  BY DEF Quiet, Ended, DeadGrantUnused
<1> QED BY <1>1, <1>2, <1>3, AlwaysTyped, AlwaysUnused, PTL DEF Spec

-----------------------------------------------------------------------------
(* What is brokered has been granted: whatever grant a handler or a session
   holds has been issued, whatever became of it since. *)

Known(g) == g = None \/ (g \in Grant /\ grant[g] # "none")

OnIssued ==
  /\ \A x \in Handler : h[x] # None =>
       Known(h[x].grant) /\ \A g \in h[x].todo : Known(g)
  /\ \A s \in Session : Known(sess[s].grant)
  /\ \A g \in Grant : job[g] => Known(g)

LEMMA GrantsStay ==
  ASSUME Typed, [Next]_vars, NEW g, Known(g)
  PROVE  Known(g)'
<1>1. ASSUME NEW x \in Handler, Step(x) PROVE Known(g)'
  <2>1. CASE RevokeGrant(x)
    BY <2>1 DEF RevokeGrant, Known, Typed, TypeOK
  <2>2. CASE ExpireGrant(x)
    BY <2>2 DEF ExpireGrant, Known, Typed, TypeOK
  <2> QED BY <1>1, <2>1, <2>2 DEF Step, CountSessions, InsertSession, IssueToken, Recheck,
             TerminateSession, CleanUp, EnqueueRevoke, ClearSessions, Known
<1>2. ASSUME NEW x \in Handler, Arrive(x) \/ Sweep(x) PROVE Known(g)'
  BY <1>2 DEF Arrive, Sweep, StartSession, Revoke, Reconnect, Terminate, StartAsAdmin, Known
<1>3. ASSUME NEW c \in Conn, Checkout(c) \/ Serve(c) \/ Leave(c) PROVE Known(g)'
  BY <1>3 DEF Checkout, Serve, Consume, RecheckGrant, Deny, RefuseAccount, OpenCredential,
    Activate, DialTarget, DropSilently, LoseReport, ReportFailed, ReportActive, Poll,
    ReportEnded, Leave, Known
<1>4. ASSUME NEW c \in Conn, NEW t \in Token, Connect(c, t) PROVE Known(g)'
  BY <1>4 DEF Connect, Known
<1>5. ASSUME NEW f \in Grant, Issue(f) \/ WindowCloses(f)
                                \/ (\E w \in Handler : RunRevokeJob(w, f)) PROVE Known(g)'
  BY <1>5 DEF Issue, RunRevokeJob, WindowCloses, Known, Typed, TypeOK
<1>6. ASSUME NEW t \in Token, TokenExpires(t) PROVE Known(g)'
  BY <1>6 DEF TokenExpires, Known
<1>7. CASE Purge \/ UNCHANGED vars
  BY <1>7 DEF Purge, vars, Known
<1> QED BY <1>1, <1>2, <1>3, <1>4, <1>5, <1>6, <1>7 DEF Next, Time

LEMMA HandlersKnow ==
  ASSUME Typed, OnIssued, [Next]_vars, NEW x \in Handler, h'[x] # None
  PROVE  Known(h'[x].grant) /\ \A g \in h'[x].todo : Known(g)
<1>1. CASE h'[x] = h[x]
  BY <1>1 DEF OnIssued
<1>2. ASSUME NEW y \in Handler, Step(y)
      PROVE  \/ h'[x] = h[x]
             \/ Known(h'[x].grant) /\ \A g \in h'[x].todo : Known(g)
  <2>1. h[y] # None /\ h[y] \in Flight
    BY <1>2, HandlerType DEF Step, CountSessions, InsertSession, IssueToken, Recheck,
      TerminateSession, RevokeGrant, CleanUp, EnqueueRevoke, ExpireGrant, ClearSessions, In
  <2>2. CASE InsertSession(y)
    <3>1. PICK s \in Session :
            h' = [h EXCEPT ![y] = [h[y] EXCEPT !.pc = "issue", !.session = s]]
      BY <2>2 DEF InsertSession, Typed, TypeOK
    <3>2. \/ h'[x] = h[x]
          \/ h'[x].grant = h[x].grant /\ h'[x].todo = h[x].todo /\ h[x] # None
      BY <2>1, <3>1 DEF Flight, Typed, TypeOK
    <3> QED BY <3>2 DEF OnIssued
  <2>3. CASE ExpireGrant(y)
    <3>1. PICK g \in h[y].todo :
            h' = [h EXCEPT ![y] = [h[y] EXCEPT !.pc = "clear", !.grant = g,
                                               !.todo = h[y].todo \ {g}]]
      BY <2>3 DEF ExpireGrant, Typed, TypeOK
    <3>2. \/ h'[x] = h[x]
          \/ y = x /\ h'[x].grant = g /\ h'[x].todo = h[x].todo \ {g}
      BY <2>1, <3>1 DEF Flight, Typed, TypeOK
    <3> QED BY <2>1, <3>1, <3>2 DEF OnIssued
  <2>4. CASE ~ InsertSession(y) /\ ~ ExpireGrant(y)
    <3>1. End(y) \/ \E pc \in PC : Goto(y, pc)
      BY <1>2, <2>4 DEF Step, CountSessions, IssueToken, Recheck, TerminateSession,
        RevokeGrant, CleanUp, EnqueueRevoke, ClearSessions, PC
    <3>2. \/ h'[x] = h[x]
          \/ h'[x].grant = h[x].grant /\ h'[x].todo = h[x].todo /\ h[x] # None
      BY <2>1, <3>1 DEF End, Goto, Flight, Typed, TypeOK
    <3> QED BY <3>2 DEF OnIssued
  <2> QED BY <2>2, <2>3, <2>4
<1>3. ASSUME NEW y \in Handler, \/ Arrive(y) \/ Sweep(y)
                                \/ \E g \in Grant : RunRevokeJob(y, g)
      PROVE  \/ h'[x] = h[x]
             \/ Known(h'[x].grant) /\ \A g \in h'[x].todo : Known(g)
  <2>1. CASE Arrive(y) \/ \E g \in Grant : RunRevokeJob(y, g)
    <3>1. PICK pc, s, g : Begin(y, pc, s, g) /\ Known(g)
      BY <2>1 DEF Arrive, StartSession, Revoke, Reconnect, Terminate, StartAsAdmin,
        RunRevokeJob, Usable, Known, OnIssued
    <3> QED BY <3>1 DEF Begin, Typed, TypeOK
  <2>2. CASE Sweep(y)
    <3>1. h' = [h EXCEPT ![y] = [pc |-> "expire", session |-> None, grant |-> None,
                                 todo |-> {g \in Grant : grant[g] = "active" /\ ~ window[g]}]]
      BY <2>2 DEF Sweep
    <3> QED BY <3>1 DEF Known, Typed, TypeOK
  <2> QED BY <1>3, <2>1, <2>2
<1>4. ASSUME NEW c \in Conn, Checkout(c) \/ Serve(c) \/ Leave(c) PROVE h' = h
  BY <1>4 DEF Checkout, Serve, Consume, RecheckGrant, Deny, RefuseAccount, OpenCredential,
    Activate, DialTarget, DropSilently, LoseReport, ReportFailed, ReportActive, Poll,
    ReportEnded, Leave
<1>5. ASSUME NEW c \in Conn, NEW t \in Token, Connect(c, t) PROVE h' = h
  BY <1>5 DEF Connect
<1>6. ASSUME NEW f \in Grant, Issue(f) \/ WindowCloses(f) PROVE h' = h
  BY <1>6 DEF Issue, WindowCloses
<1>7. ASSUME NEW t \in Token, TokenExpires(t) PROVE h' = h
  BY <1>7 DEF TokenExpires
<1>8. CASE Purge \/ UNCHANGED vars
  BY <1>1, <1>8 DEF Purge, vars
<1> QED BY <1>1, <1>2, <1>3, <1>4, <1>5, <1>6, <1>7, <1>8 DEF Next, Time

(* Only a revocation leaves a job. *)
LEMMA JobsKnow ==
  ASSUME Typed, OnIssued, [Next]_vars, NEW g \in Grant, job'[g]
  PROVE  Known(g)
<1>1. CASE job[g]
  BY <1>1 DEF OnIssued
<1>2. ASSUME NEW x \in Handler, EnqueueRevoke(x) PROVE job[g] \/ Known(g)
  BY <1>2 DEF EnqueueRevoke, In, OnIssued, Typed, TypeOK
<1>3. ASSUME NEW x \in Handler, Step(x), ~ EnqueueRevoke(x) PROVE job' = job
  BY <1>3 DEF Step, CountSessions, InsertSession, IssueToken, Recheck, TerminateSession,
    RevokeGrant, CleanUp, ExpireGrant, ClearSessions
<1>4. ASSUME NEW x \in Handler, Arrive(x) \/ Sweep(x) PROVE job' = job
  BY <1>4 DEF Arrive, Sweep, StartSession, Revoke, Reconnect, Terminate, StartAsAdmin
<1>5. ASSUME NEW x \in Handler, NEW f \in Grant, RunRevokeJob(x, f) PROVE job[g]
  BY <1>5 DEF RunRevokeJob, Typed, TypeOK
<1>6. ASSUME NEW c \in Conn, Checkout(c) \/ Serve(c) \/ Leave(c) PROVE job' = job
  BY <1>6 DEF Checkout, Serve, Consume, RecheckGrant, Deny, RefuseAccount, OpenCredential,
    Activate, DialTarget, DropSilently, LoseReport, ReportFailed, ReportActive, Poll,
    ReportEnded, Leave
<1>7. ASSUME NEW c \in Conn, NEW t \in Token, Connect(c, t) PROVE job' = job
  BY <1>7 DEF Connect
<1>8. ASSUME NEW f \in Grant, Issue(f) \/ WindowCloses(f) PROVE job' = job
  BY <1>8 DEF Issue, WindowCloses
<1>9. ASSUME NEW t \in Token, TokenExpires(t) PROVE job' = job
  BY <1>9 DEF TokenExpires
<1>10. Purge \/ UNCHANGED vars => job' = job
  BY DEF Purge, vars
<1> QED BY <1>1, <1>2, <1>3, <1>4, <1>5, <1>6, <1>7, <1>8, <1>9, <1>10 DEF Next, Time

LEMMA NextOnIssued ==
  ASSUME Typed, OnIssued, [Next]_vars
  PROVE  OnIssued'
<1>1. ASSUME NEW g, Known(g) PROVE Known(g)'
  BY <1>1, GrantsStay
<1>2. ASSUME NEW x \in Handler, h'[x] # None, NEW g, g = h'[x].grant \/ g \in h'[x].todo
      PROVE  Known(g)'
  BY <1>1, <1>2, HandlersKnow
<1>3. ASSUME NEW s \in Session, NEW g, g = sess'[s].grant PROVE Known(g)'
  <2>1. Known(g)
    BY <1>3, SessionStep DEF Inserted, Reported, OnIssued
  <2> QED BY <1>1, <2>1
<1>4. ASSUME NEW g \in Grant, job'[g] PROVE Known(g)'
  BY <1>1, <1>4, JobsKnow
<1> QED BY <1>2, <1>3, <1>4 DEF OnIssued, Known

(* No session, and no handler on its way to one or to revoke one, is on a grant that
   was not issued. *)
THEOREM SessionsAreOnIssued == Spec => []OnIssued
<1>1. Init => OnIssued
  BY DEF Init, OnIssued, Known
<1>2. Typed /\ OnIssued /\ [Next]_vars => OnIssued'
  BY NextOnIssued
<1> QED BY <1>1, <1>2, AlwaysTyped, PTL DEF Spec

-----------------------------------------------------------------------------
(* A grant's limit on concurrent sessions.  The count and the INSERT are separate
   statements, so starts that count at the same time all pass.  Each of them
   is a request in flight, so the limit is overrun by fewer sessions than there
   are requests: what a start has counted but not inserted is charged to the
   request that counted it. *)

Counted(g) == {x \in Handler : In(x, "insert") /\ h[x].grant = g}

(* The live sessions of a grant that were not checked out twice. *)
LiveOnce(g) == {s \in LiveOf(g) : ~ CheckedOutTwice(s)}

Limited == \A g \in Grant :
  Cardinality(LiveOnce(g)) + Cardinality(Counted(g)) < Limit + Cardinality(Handler)

FewLive == \A g \in Grant : IsFiniteSet(LiveOf(g))

(* A step writes one session, or terminates those of a grant. *)
LEMMA WritesOne ==
  ASSUME Typed, [Next]_vars
  PROVE  \/ sess' = sess
         \/ \E s \in Session, row \in Sess : sess' = [sess EXCEPT ![s] = row]
         \/ \E g \in Grant : TerminateAll(g)
<1> DEFINE One == \E s \in Session, row \in Sess : sess' = [sess EXCEPT ![s] = row]
<1>0. ASSUME NEW s \in Session, NEW state \in States, SetState(s, state) PROVE One
  <2>1. [sess[s] EXCEPT !.state = state] \in Sess
    BY DEF Typed, TypeOK, Sess
  <2>2. sess' = [sess EXCEPT ![s] = [sess[s] EXCEPT !.state = state]]
    BY <1>0 DEF SetState, Typed, TypeOK
  <2> QED BY <2>1, <2>2
<1>1. ASSUME NEW x \in Handler, Step(x)
      PROVE  sess' = sess \/ One \/ \E g \in Grant : TerminateAll(g)
  <2>1. CASE InsertSession(x)
    <3>1. PICK s \in Session :
            sess' = [sess EXCEPT ![s] = [state |-> "starting", grant |-> h[x].grant]]
      BY <2>1 DEF InsertSession
    <3>2. [state |-> "starting", grant |-> h[x].grant] \in Sess
      BY <2>1, HandlerType DEF InsertSession, In, Flight, Sess, States, Live
    <3> QED BY <3>1, <3>2
  <2>2. CASE TerminateSession(x)
    BY <1>0, <2>2, HandlerType DEF TerminateSession, In, States
  <2>3. CASE CleanUp(x) \/ ClearSessions(x)
    BY <2>3, HandlerType DEF CleanUp, ClearSessions, In
  <2> HIDE DEF One
  <2> QED BY <1>1, <2>1, <2>2, <2>3 DEF Step, CountSessions, IssueToken,
             Recheck, RevokeGrant, EnqueueRevoke, ExpireGrant
<1>2. ASSUME NEW x \in Handler, \/ Arrive(x) \/ Sweep(x)
                                \/ \E g \in Grant : RunRevokeJob(x, g)
      PROVE  sess' = sess
  BY <1>2 DEF Arrive, Sweep, StartSession, Revoke, Reconnect, Terminate, StartAsAdmin,
    RunRevokeJob
<1>3. ASSUME NEW c \in Conn, Checkout(c) \/ Serve(c) \/ Leave(c)
      PROVE  sess' = sess \/ One
  <2>1. ASSUME NEW state \in States, conn[c] # None,
               SetState(conn[c].session, state) \/ Ingest(c, state)
        PROVE  sess' = sess \/ One
    BY <1>0, <2>1, ConnType DEF Ingest, Connection
  <2> HIDE DEF One
  <2> QED BY <1>3, <2>1 DEF Checkout, Serve, Consume, RecheckGrant, Deny, RefuseAccount,
        OpenCredential, Activate, DialTarget, DropSilently, LoseReport, ReportFailed,
        ReportActive, Poll, ReportEnded, Leave, ConnIn, States, Live
<1>4. ASSUME NEW c \in Conn, NEW t \in Token, Connect(c, t) PROVE sess' = sess
  BY <1>4 DEF Connect
<1>5. ASSUME NEW g \in Grant, Issue(g) \/ WindowCloses(g) PROVE sess' = sess
  BY <1>5 DEF Issue, WindowCloses
<1>6. ASSUME NEW t \in Token, TokenExpires(t) PROVE sess' = sess
  BY <1>6 DEF TokenExpires
<1>7. CASE Purge \/ UNCHANGED vars
  BY <1>7 DEF Purge, vars
<1> HIDE DEF One
<1>8. One => \E s \in Session, row \in Sess : sess' = [sess EXCEPT ![s] = row]
  BY DEF One
<1> QED BY <1>1, <1>2, <1>3, <1>4, <1>5, <1>6, <1>7, <1>8 DEF Next, Time

LEMMA NextFewLive ==
  ASSUME Typed, FewLive, [Next]_vars
  PROVE  FewLive'
<1> SUFFICES ASSUME NEW g \in Grant PROVE IsFiniteSet(LiveOf(g)')
  BY DEF FewLive
<1>1. IsFiniteSet(LiveOf(g))
  BY DEF FewLive
<1>2. CASE sess' = sess \/ \E f \in Grant : TerminateAll(f)
  <2>1. LiveOf(g)' \subseteq LiveOf(g)
    BY <1>2 DEF TerminateAll, LiveOf, Live, Typed, TypeOK, Sess
  <2> QED BY <1>1, <2>1, FS_Subset
<1>3. CASE \E s \in Session, row \in Sess : sess' = [sess EXCEPT ![s] = row]
  <2>1. PICK s \in Session : \E row \in Sess : sess' = [sess EXCEPT ![s] = row]
    BY <1>3
  <2>2. LiveOf(g)' \subseteq LiveOf(g) \cup {s}
    BY <2>1 DEF LiveOf, Typed, TypeOK
  <2>3. IsFiniteSet(LiveOf(g) \cup {s})
    BY <1>1, FS_AddElement
  <2> QED BY <2>2, <2>3, FS_Subset
<1> QED BY <1>2, <1>3, WritesOne

(* Only an INSERT makes a session live that was not checked out twice. *)
LEMMA LiveGrows ==
  ASSUME Typed, Unused, Traced, Started, Finished, [Next]_vars, NEW g \in Grant,
         NEW s \in Session, s \in LiveOnce(g)', s \notin LiveOnce(g)
  PROVE  Inserted(s)
<1>0. ~ CheckedOutTwice(s) /\ s \in LiveOf(g)' /\ s \notin LiveOf(g)
  BY CheckedOutStays DEF LiveOnce
<1>1. sess'[s] # sess[s] /\ sess'[s].state \in Live /\ sess'[s].grant = g
  BY <1>0 DEF LiveOf
<1>2. ASSUME NEW c \in Conn, Reported(c, s) PROVE FALSE
  <2>1. /\ conn[c] # None /\ conn[c].session = s /\ conn[c].token \in Token
        /\ Uses(c, s, Past) /\ sess[s].grant = g
    BY <1>1, <1>2, ConnType DEF Reported, Uses, Granted, Connection
  <2>2. tok[conn[c].token].session = s /\ s # None
    BY <2>1, SessionsAssumption DEF Traced
  <2>3. sess[s].state # "none" /\ sess[s].state \notin {"ended", "error"}
    BY <1>0, <2>1, <2>2 DEF Started, Finished
  <2>4. sess[s].state = "terminated"
    BY <1>0, <2>1, <2>3 DEF LiveOf, Typed, TypeOK, Sess, States
  <2> QED BY <1>1, <1>2, <2>4 DEF Reported, Live
<1> QED BY <1>1, <1>2, SessionStep DEF Live

(* Only a count below the limit lets a request insert. *)
LEMMA CountedGrows ==
  ASSUME Typed, [Next]_vars, NEW g \in Grant, NEW x \in Handler,
         x \in Counted(g)', x \notin Counted(g)
  PROVE  Cardinality(LiveOf(g)) < Limit /\ LiveOf(g)' = LiveOf(g)
<1>1. /\ h'[x] # h[x] /\ h'[x] # None /\ h'[x].pc = "insert" /\ h'[x].grant = g
  BY DEF Counted, In
<1>2. ASSUME NEW y \in Handler, Step(y)
      PROVE  x = y /\ CountSessions(y) /\ h[x].grant = g
  <2>1. h[y] # None /\ h[y] \in Flight
    BY <1>2, HandlerType DEF Step, CountSessions, InsertSession, IssueToken, Recheck,
      TerminateSession, RevokeGrant, CleanUp, EnqueueRevoke, ExpireGrant, ClearSessions, In
  <2>2. ~ InsertSession(y)
    BY <1>1, <2>1 DEF InsertSession, Flight, Typed, TypeOK
  <2>3. ~ ExpireGrant(y)
    <3> SUFFICES ASSUME ExpireGrant(y) PROVE FALSE
      OBVIOUS
    <3>1. PICK f \in h[y].todo :
            h' = [h EXCEPT ![y] = [h[y] EXCEPT !.pc = "clear", !.grant = f,
                                               !.todo = h[y].todo \ {f}]]
      BY DEF ExpireGrant, Typed, TypeOK
    <3> QED BY <1>1, <2>1, <3>1 DEF Flight, Typed, TypeOK
  <2>4. PICK pc \in PC : \/ End(y)
                         \/ Goto(y, pc) /\ (CountSessions(y) \/ pc # "insert")
    BY <1>2, <2>2, <2>3 DEF Step, CountSessions, IssueToken, Recheck, TerminateSession,
      RevokeGrant, CleanUp, EnqueueRevoke, ClearSessions, PC
  <2>5. x = y /\ Goto(y, pc)
    BY <1>1, <2>4 DEF End, Goto, Typed, TypeOK
  <2>6. h'[x].pc = pc /\ h'[x].grant = h[x].grant
    BY <2>1, <2>5 DEF Goto, Flight, Typed, TypeOK
  <2> QED BY <1>1, <2>4, <2>5, <2>6 DEF End, Typed, TypeOK
<1>3. ASSUME NEW y \in Handler, \/ Arrive(y) \/ Sweep(y)
                                \/ \E f \in Grant : RunRevokeJob(y, f)
      PROVE  FALSE
  <2>1. \E pc, s, f, todo : /\ h' = [h EXCEPT ![y] = [pc |-> pc, session |-> s,
                                                      grant |-> f, todo |-> todo]]
                            /\ pc # "insert" \/ f = None
    BY <1>3 DEF Arrive, Sweep, StartSession, Revoke, Reconnect, Terminate, StartAsAdmin,
      RunRevokeJob, Begin
  <2> QED BY <1>1, <2>1, SessionsAssumption DEF Typed, TypeOK
<1>4. ASSUME NEW c \in Conn, Checkout(c) \/ Serve(c) \/ Leave(c) PROVE h' = h
  BY <1>4 DEF Checkout, Serve, Consume, RecheckGrant, Deny, RefuseAccount, OpenCredential,
    Activate, DialTarget, DropSilently, LoseReport, ReportFailed, ReportActive, Poll,
    ReportEnded, Leave
<1>5. ASSUME NEW c \in Conn, NEW t \in Token, Connect(c, t) PROVE h' = h
  BY <1>5 DEF Connect
<1>6. ASSUME NEW f \in Grant, Issue(f) \/ WindowCloses(f) PROVE h' = h
  BY <1>6 DEF Issue, WindowCloses
<1>7. ASSUME NEW t \in Token, TokenExpires(t) PROVE h' = h
  BY <1>7 DEF TokenExpires
<1>8. ~ Purge /\ ~ UNCHANGED vars
  BY <1>1 DEF Purge, vars
<1>9. CountSessions(x) /\ h[x].grant = g
  BY <1>1, <1>2, <1>3, <1>4, <1>5, <1>6, <1>7, <1>8 DEF Next, Time
<1>10. Cardinality(LiveOf(g)) < Limit /\ sess' = sess
  BY <1>1, <1>9 DEF CountSessions, End, Typed, TypeOK
<1> QED BY <1>10 DEF LiveOf

(* An INSERT makes one session live and discharges its request. *)
LEMMA InsertDischarges ==
  ASSUME Typed, NEW g \in Grant, NEW s \in Session, Inserted(s), s \in LiveOf(g)'
  PROVE  /\ LiveOf(g)' \subseteq LiveOf(g) \cup {s}
         /\ \E x \in Counted(g) : x \notin Counted(g)'
<1>1. PICK x \in Handler : InsertSession(x) /\ h[x] # None /\ sess'[s].grant = h[x].grant
  BY DEF Inserted
<1>2. PICK t \in Session :
        /\ sess' = [sess EXCEPT ![t] = [state |-> "starting", grant |-> h[x].grant]]
        /\ h' = [h EXCEPT ![x] = [h[x] EXCEPT !.pc = "issue", !.session = t]]
  BY <1>1 DEF InsertSession, Typed, TypeOK
<1>3. s = t
  BY <1>2 DEF Inserted, Typed, TypeOK
<1>4. LiveOf(g)' \subseteq LiveOf(g) \cup {s}
  BY <1>2, <1>3 DEF LiveOf, Typed, TypeOK
<1>5. x \in Counted(g)
  BY <1>1 DEF Counted, LiveOf, InsertSession
<1>6. h[x] \in Flight
  BY <1>1, HandlerType
<1>7. h'[x].pc = "issue"
  BY <1>2, <1>6 DEF Flight, Typed, TypeOK
<1> QED BY <1>4, <1>5, <1>7 DEF Counted, In

LEMMA NextLimited ==
  ASSUME IsFiniteSet(Handler), Typed, Unused, Traced, Started, Finished, FewLive, Limited,
         [Next]_vars
  PROVE  Limited'
<1> SUFFICES ASSUME NEW g \in Grant
             PROVE  Cardinality(LiveOnce(g)') + Cardinality(Counted(g)')
                      < Limit + Cardinality(Handler)
  BY DEF Limited
<1> DEFINE L == LiveOnce(g)  C == Counted(g)
<1>1. /\ C \subseteq Handler /\ C' \subseteq Handler
      /\ L \subseteq LiveOf(g) /\ L' \subseteq LiveOf(g)'
  BY DEF Counted, LiveOnce
<1>2. /\ IsFiniteSet(LiveOf(g)) /\ IsFiniteSet(L) /\ IsFiniteSet(C) /\ IsFiniteSet(C')
      /\ Cardinality(L) \in Nat /\ Cardinality(C) \in Nat /\ Cardinality(C') \in Nat
      /\ Cardinality(LiveOf(g)) \in Nat
      /\ Cardinality(Handler) \in Nat /\ Cardinality(C') <= Cardinality(Handler)
      /\ Cardinality(L) + Cardinality(C) < Limit + Cardinality(Handler) /\ Limit \in Nat
  BY <1>1, FS_Subset, FS_CardinalityType, SessionsAssumption DEF Limited, FewLive
<1>3. CASE \E x \in C' : x \notin C
  <2>1. Cardinality(LiveOf(g)) < Limit /\ LiveOf(g)' = LiveOf(g)
    BY <1>1, <1>3, CountedGrows
  <2>2. Cardinality(L') <= Cardinality(LiveOf(g)) /\ Cardinality(L') \in Nat
    BY <1>1, <1>2, <2>1, FS_Subset, FS_CardinalityType
  <2> QED BY <1>2, <2>1, <2>2
<1> HIDE DEF L, C
<1>4. CASE C' \subseteq C /\ L' \subseteq L
  <2>1. /\ Cardinality(C') <= Cardinality(C)
        /\ IsFiniteSet(L') /\ Cardinality(L') <= Cardinality(L) /\ Cardinality(L') \in Nat
    BY <1>2, <1>4, FS_Subset, FS_CardinalityType
  <2> QED BY <1>2, <2>1 DEF L, C
<1>5. CASE C' \subseteq C /\ \E s \in L' : s \notin L
  <2>1. PICK s \in Session : Inserted(s) /\ s \in L'
    BY <1>5, LiveGrows DEF L, LiveOnce, LiveOf
  <2>2. PICK x \in C : LiveOf(g)' \subseteq LiveOf(g) \cup {s} /\ x \notin C'
    BY <2>1, InsertDischarges DEF L, C, LiveOnce
  <2>a. L' \subseteq L \cup {s}
    BY <2>2, CheckedOutStays DEF L, LiveOnce, LiveOf
  <2>3. IsFiniteSet(L \cup {s}) /\ Cardinality(L \cup {s}) <= Cardinality(L) + 1
    <3>1. /\ IsFiniteSet(L \cup {s})
          /\ Cardinality(L \cup {s}) = IF s \in L THEN Cardinality(L) ELSE Cardinality(L) + 1
      BY <1>2, FS_AddElement
    <3> QED BY <1>2, <3>1
  <2>4. /\ IsFiniteSet(L') /\ Cardinality(L') <= Cardinality(L \cup {s})
        /\ Cardinality(L') \in Nat /\ Cardinality(L \cup {s}) \in Nat
    BY <2>a, <2>3, FS_Subset, FS_CardinalityType
  <2>5. IsFiniteSet(C \ {x}) /\ Cardinality(C \ {x}) = Cardinality(C) - 1
    BY <1>2, FS_RemoveElement
  <2>6. Cardinality(C') <= Cardinality(C \ {x})
    BY <1>5, <2>2, <2>5, FS_Subset
  <2> QED BY <1>2, <2>3, <2>4, <2>5, <2>6 DEF L, C
<1> QED BY <1>3, <1>4, <1>5

(* However many starts race between the count and the INSERT of
   sessions/index.post.ts, the live sessions of a grant that were not checked out
   twice overrun its limit by fewer than the requests in flight, for any number of
   each. *)
THEOREM LimitOverrunIsBounded ==
  ASSUME IsFiniteSet(Handler)
  PROVE  Spec => [](FewLive /\ OverrunIsBounded)
<1> DEFINE Inv == Traced /\ Started /\ OneConn /\ Finished /\ FewLive /\ Limited
<1>1. Init => Inv
  <2> SUFFICES ASSUME Init PROVE Inv
    OBVIOUS
  <2>1. Traced /\ Started /\ OneConn /\ Finished
    BY DEF Init, Traced, Started, OneConn, Finished, In
  <2>2. ASSUME NEW g \in Grant
        PROVE  LiveOf(g) = {} /\ LiveOnce(g) = {} /\ Counted(g) = {}
    BY DEF Init, LiveOf, LiveOnce, Counted, Live, In
  <2>3. Cardinality(Handler) \in Nat /\ Limit \in Nat /\ Limit > 0
    BY FS_CardinalityType, SessionsAssumption
  <2>4. FewLive /\ Limited
    BY <2>2, <2>3, FS_EmptySet DEF FewLive, Limited
  <2> QED BY <2>1, <2>4
<1>2. Typed /\ Unused /\ Inv /\ [Next]_vars => Inv'
  BY NextTraced, NextStarted, NextOneConn, NextFinished, NextFewLive, NextLimited
<1>3. FewLive /\ Limited => FewLive /\ OverrunIsBounded
  <2> SUFFICES ASSUME FewLive, Limited, NEW g \in Grant
               PROVE  Cardinality(LiveOnce(g)) < Limit + Cardinality(Handler)
    BY DEF OverrunIsBounded, LiveOnce
  <2>1. Counted(g) \subseteq Handler /\ LiveOnce(g) \subseteq LiveOf(g)
    BY DEF Counted, LiveOnce
  <2>2. /\ Cardinality(LiveOnce(g)) \in Nat /\ Cardinality(Counted(g)) \in Nat
        /\ Cardinality(Handler) \in Nat /\ Limit \in Nat
    BY <2>1, FS_Subset, FS_CardinalityType, SessionsAssumption DEF FewLive
  <2> QED BY <2>2 DEF Limited
<1> QED BY <1>1, <1>2, <1>3, AlwaysTyped, AlwaysUnused, PTL DEF Spec
=============================================================================
