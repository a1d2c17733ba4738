--------------------------- MODULE MonRuntime_proofs ---------------------------
(***************************************************************************)
(* What holds of the monitoring runtime for any number of pools and        *)
(* failing statements and for a restore that begins at any moment of a     *)
(* reconciliation, also during startDispatcher's INSERT.                   *)
(***************************************************************************)
EXTENDS MonRuntime, TLAPS

(* Administrators wait for one request to end before they send the next. *)
OneAtATime == "overlap" \notin Allow

Restores == {"monitoring", "portal"}
Starting == {"migrate", "config", "insert"}

-----------------------------------------------------------------------------
(* The requests: one at a time, each on its way through its operation. *)

OneRequest == \A t, u \in Thread : ~ At(t, "idle") /\ ~ At(u, "idle") => t = u

Course(r) ==
  /\ r.pc = "idle" => r.op = "none"
  /\ r.op = "none" => r.pc = "idle"
  /\ r.pc = "prune" => r.snap \in Status
  /\ r.op = "enable" =>
       r.pc \in {"test", "mark", "select", "prune"} /\ r.next = "idle"
  /\ r.op = "disable" =>
       r.pc \in {"mark", "close", "closing", "select", "prune"} /\ r.next = "idle"
  /\ r.op = "provision" =>
       /\ r.pc \in {"select", "prune", "close", "closing", "reserve", "init"}
       /\ r.next \in {"close", "init", "idle"}
  /\ r.op \in Restores =>
       /\ r.pc \in {"closing", "clear", "restore", "select", "prune", "resume"}
       /\ r.next = "resume"

Courses == \A t \in Thread : Course(th[t])

(* The pools: the only one that may be open is the module's, and it is open but
   while a request waits for its end. *)
Pools ==
  /\ open \subseteq {cur}
  /\ cur # None => cur \in open \/ \E t \in Thread : th[t].pc \in {"prune", "clear"}
  /\ \A t \in Thread : At(t, "prune") => open = {} /\ cur # None

(* While a database is being restored, it has no pool that could be used. *)
Suspended ==
  /\ suspended => \E t \in Thread : th[t].op \in Restores
  /\ \A t \in Thread : th[t].op \in Restores =>
       suspended /\ open = {} /\ (At(t, "clear") \/ cur = None)

QuietInv == OneRequest /\ Pools /\ Suspended

-----------------------------------------------------------------------------
(* Types *)

LEMMA RequestType ==
  ASSUME TypeOK, NEW t \in Thread
  PROVE  /\ th[t] \in Request
         /\ th[t].snap \in Status \cup {None} /\ th[t].db \in Pool \cup {None}
BY DEF TypeOK, Request

(* What a request's step makes of its record. *)
LEMMA RequestStep ==
  ASSUME TypeOK, NEW t \in Thread, NEW r \in Request, th' = [th EXCEPT ![t] = r]
  PROVE  /\ th' \in [Thread -> Request] /\ th'[t] = r
         /\ \A u \in Thread : u # t => th'[u] = th[u]
BY DEF TypeOK

LEMMA GotoStep ==
  ASSUME TypeOK, NEW t \in Thread,
         NEW pc \in {"mark", "close", "closing", "select", "prune", "reserve",
                     "init", "clear", "restore", "resume"},
         Goto(t, pc)
  PROVE  /\ th' \in [Thread -> Request]
         /\ th'[t].pc = pc /\ th'[t].op = th[t].op /\ th'[t].next = th[t].next
         /\ th'[t].snap = th[t].snap
         /\ \A u \in Thread : u # t => th'[u] = th[u]
<1> DEFINE r == [th[t] EXCEPT !.pc = pc]
<1>1. /\ r \in Request /\ r.pc = pc /\ r.op = th[t].op /\ r.next = th[t].next
      /\ r.snap = th[t].snap
  BY RequestType DEF Request
<1>2. th' = [th EXCEPT ![t] = r]
  BY DEF Goto
<1> HIDE DEF r
<1> QED BY <1>1, <1>2, RequestStep

LEMMA NoRequestType == NoRequest \in Request /\ Quiet \in Rec
BY DEF NoRequest, Request, Quiet, Rec

LEMMA BeginStep ==
  ASSUME TypeOK, NEW t \in Thread, NEW op \in {"enable", "provision", "disable"},
         NEW pc \in {"test", "mark", "select"}, NEW next \in {"idle", "close"},
         Begin(t, op, pc, next)
  PROVE  /\ th' \in [Thread -> Request]
         /\ th'[t].pc = pc /\ th'[t].op = op /\ th'[t].next = next
         /\ \A u \in Thread : u # t => th'[u] = th[u]
<1> DEFINE r == [NoRequest EXCEPT !.pc = pc, !.op = op, !.next = next]
<1>1. r \in Request /\ r.pc = pc /\ r.op = op /\ r.next = next
  BY DEF NoRequest, Request
<1>2. th' = [th EXCEPT ![t] = r]
  BY DEF Begin
<1> HIDE DEF r
<1> QED BY <1>1, <1>2, RequestStep

(* The end of a load: the request goes on, or it has answered. *)
LEMMA LoadedStep ==
  ASSUME TypeOK, NEW t \in Thread, NEW status \in Status, LoadedBy(t, status),
         th[t].next # "none"
  PROVE  /\ th' \in [Thread -> Request] /\ known' = status
         /\ loaded' \in Thread \cup {None}
         /\ \A u \in Thread : u # t => th'[u] = th[u]
         /\ th[t].next = "idle" => th'[t].pc = "idle" /\ th'[t].op = "none"
         /\ th[t].next # "idle" => /\ th'[t].pc = th[t].next /\ th'[t].op = th[t].op
                                  /\ th'[t].next = th[t].next
<1>1. th[t].next \in {"none", "idle", "close", "init", "resume"}
  BY RequestType DEF Request
<1>2. CASE th[t].next = "idle"
  <2>1. th' = [th EXCEPT ![t] = NoRequest]
    BY <1>2 DEF LoadedBy
  <2> QED BY <1>2, <2>1, NoRequestType, RequestStep DEF LoadedBy, TypeOK, NoRequest
<1>3. CASE th[t].next # "idle"
  <2> DEFINE r == [th[t] EXCEPT !.pc = th[t].next, !.snap = None, !.db = None]
  <2>1. r \in Request /\ r.pc = th[t].next /\ r.op = th[t].op /\ r.next = th[t].next
    BY <1>1, <1>3, RequestType DEF Request
  <2>2. th' = [th EXCEPT ![t] = r]
    BY <1>3 DEF LoadedBy
  <2> HIDE DEF r
  <2> QED BY <1>3, <2>1, <2>2, RequestStep DEF LoadedBy, TypeOK
<1> QED BY <1>2, <1>3

LEMMA GetDbType ==
  ASSUME TypeOK, NEW p \in Pool, GetDb(p)
  PROVE  /\ cur' \in Pool \cup {None} /\ open' \subseteq Pool
         /\ cur' = p
         /\ cur # None => cur' = cur /\ open' = open
         /\ cur = None => p \in open' /\ open' = open \cup {p}
         /\ ~ suspended /\ known = "ready"
BY DEF GetDb, TypeOK, Usable

Typed == TypeOK /\ Courses

(* A request's record changes, and the rest keeps its types. *)
LEMMA TypedStep ==
  ASSUME Typed, NEW t \in Thread, th' \in [Thread -> Request],
         \A u \in Thread : u # t => th'[u] = th[u], Course(th'[t])
  PROVE  th' \in [Thread -> Request] /\ Courses'
BY DEF Typed, Courses

(* The course of a request in flight, and what follows from it. *)
LEMMA CourseOf ==
  ASSUME Typed, NEW t \in Thread
  PROVE  /\ th[t] \in Request /\ Course(th[t])
         /\ th[t].pc # "idle" => th[t].next # "none"
         /\ th[t].op \in {"none", "enable", "provision", "disable", "monitoring", "portal"}
<1>1. th[t] \in Request /\ Course(th[t])
  BY RequestType DEF Typed, Courses
<1>2. th[t].op \in {"none", "enable", "provision", "disable", "monitoring", "portal"}
  BY <1>1 DEF Request
<1> QED BY <1>1, <1>2 DEF Course, Restores

LEMMA AdvanceType ==
  ASSUME Typed, NEW pc \in Starting, Advance(pc)
  PROVE  /\ rec' \in Rec /\ cur' \in Pool \cup {None} /\ open' \subseteq Pool
<1>1. ASSUME NEW p \in Pool, GetDb(p), rec' = [pc |-> pc, db |-> p, await |-> None]
      PROVE  rec' \in Rec /\ cur' \in Pool \cup {None} /\ open' \subseteq Pool
  BY <1>1, GetDbType DEF Rec, Starting, Typed
<1>2. CASE GiveUp
  BY <1>2, NoRequestType DEF GiveUp, Typed, TypeOK
<1> QED BY <1>1, <1>2 DEF Advance

LEMMA AskingType ==
  ASSUME Typed
  PROVE  Asking \in Rec
BY DEF Typed, TypeOK, Asking, Quiet, Rec

LEMMA RecTyped ==
  ASSUME Typed, Reconcile \/ RecStep \/ UseDb
  PROVE  Typed'
<1>1. th' = th
  BY DEF Reconcile, RecStep, UseDb, RecStop, RecNothing, RecMigrate, RecConfig, RecInsert,
    RecStarted, RecFails
<1>2. Courses'
  BY <1>1 DEF Typed, Courses
<1>3. TypeOK'
  <2>1. CASE Reconcile
    BY <2>1, AskingType DEF Reconcile, Typed, TypeOK, runtime
  <2>2. CASE RecStop \/ RecNothing
    BY <2>2, NoRequestType DEF RecStop, RecNothing, Stop, Typed, TypeOK, runtime
  <2>3. CASE RecMigrate
    BY <2>3, AdvanceType DEF RecMigrate, Typed, TypeOK, runtime, Starting
  <2>4. CASE RecConfig
    BY <2>4, AdvanceType DEF RecConfig, Typed, TypeOK, runtime, Starting
  <2>5. CASE RecInsert
    BY <2>5, AdvanceType DEF RecInsert, Typed, TypeOK, Starting
  <2>6. CASE RecStarted
    BY <2>6, NoRequestType DEF RecStarted, Typed, TypeOK, Rec
  <2>7. CASE RecFails
    BY <2>7, NoRequestType DEF RecFails, GiveUp, Fails, Typed, TypeOK, runtime
  <2>8. CASE UseDb
    BY <2>8, GetDbType DEF UseDb, Typed, TypeOK, runtime
  <2> QED BY <2>1, <2>2, <2>3, <2>4, <2>5, <2>6, <2>7, <2>8 DEF RecStep
<1> QED BY <1>2, <1>3 DEF Typed

LEMMA BeginTyped ==
  ASSUME Typed, NEW t \in Thread,
         \/ Enable(t) \/ Disable(t) \/ Provision(t)
         \/ \E target \in {"monitoring", "portal"} : BeginRestore(t, target)
  PROVE  Typed'
<1>1. ASSUME NEW op \in {"enable", "provision", "disable"},
             NEW pc \in {"test", "mark", "select"}, NEW next \in {"idle", "close"},
             Begin(t, op, pc, next), Course([NoRequest EXCEPT !.pc = pc, !.op = op, !.next = next])
      PROVE  th' \in [Thread -> Request] /\ Courses'
  <2>1. th'[t] = [NoRequest EXCEPT !.pc = pc, !.op = op, !.next = next]
    BY <1>1 DEF Begin, Typed, TypeOK
  <2> QED BY <1>1, <2>1, BeginStep, TypedStep DEF Typed
<1>2. CASE Enable(t)
  <2>1. Course([NoRequest EXCEPT !.pc = "test", !.op = "enable", !.next = "idle"])
    BY DEF Course, NoRequest, Restores
  <2> QED BY <1>1, <1>2, <2>1 DEF Enable, Typed, TypeOK, runtime
<1>3. CASE Disable(t)
  <2>1. Course([NoRequest EXCEPT !.pc = "mark", !.op = "disable", !.next = "idle"])
    BY DEF Course, NoRequest, Restores
  <2> QED BY <1>1, <1>3, <2>1 DEF Disable, Typed, TypeOK, runtime
<1>4. CASE Provision(t)
  <2>1. Course([NoRequest EXCEPT !.pc = "select", !.op = "provision", !.next = "close"])
    BY DEF Course, NoRequest, Restores
  <2>2. Begin(t, "provision", "select", "close")
    BY <1>4 DEF Provision
  <2>3. th' \in [Thread -> Request] /\ Courses'
    BY <1>1, <2>1, <2>2
  <2> QED BY <1>4, <2>3 DEF Provision, Loading, Typed, TypeOK, runtime
<1>5. ASSUME NEW target \in {"monitoring", "portal"}, BeginRestore(t, target)
      PROVE  Typed'
  <2> DEFINE r == [NoRequest EXCEPT !.op = target, !.next = "resume",
              !.pc = IF target = "monitoring" THEN "closing" ELSE "clear", !.db = cur]
  <2>1. r \in Request /\ Course(r)
    BY DEF NoRequest, Request, Course, Restores, Typed, TypeOK
  <2>2. th' = [th EXCEPT ![t] = r]
    BY <1>5 DEF BeginRestore
  <2>3. th' \in [Thread -> Request] /\ Courses'
    <3> HIDE DEF r
    <3> QED BY <2>1, <2>2, RequestStep, TypedStep DEF Typed
  <2> HIDE DEF r
  <2> QED BY <1>5, <2>3 DEF BeginRestore, Stop, Typed, TypeOK
<1> QED BY <1>2, <1>3, <1>4, <1>5

LEMMA StepTyped ==
  ASSUME Typed, NEW t \in Thread, Step(t)
  PROVE  Typed'
<1>0. th[t] \in Request /\ Course(th[t])
  BY CourseOf
<1>1. CASE Test(t)
  <2>1. CASE Goto(t, "mark") /\ UNCHANGED left
    <3>1. Course(th'[t])
      BY <1>0, <1>1, <2>1, GotoStep DEF Test, At, Course, Request, Restores, Typed
    <3> QED BY <1>1, <2>1, <3>1, GotoStep, TypedStep DEF Test, Typed, TypeOK, runtime
  <2>2. CASE Fails /\ th' = [th EXCEPT ![t] = NoRequest]
    <3>1. Course(NoRequest)
      BY DEF Course, NoRequest, Restores
    <3>2. th' \in [Thread -> Request] /\ Courses'
      BY <2>2, <3>1, NoRequestType, RequestStep, TypedStep DEF Typed
    <3> QED BY <1>1, <2>2, <3>2 DEF Test, Fails, Typed, TypeOK, runtime
  <2> QED BY <1>1, <2>1, <2>2 DEF Test
<1>2. CASE Mark(t)
  <2>1. PICK pc \in {"close", "select"} :
          Goto(t, pc) /\ (pc = "close" => th[t].op = "disable") /\ (pc = "select" => th[t].op # "disable")
    BY <1>2 DEF Mark
  <2>2. th[t].pc = "mark"
    BY <1>2 DEF Mark, At
  <2>3. Course(th'[t])
    BY <1>0, <2>1, <2>2, GotoStep DEF Course, Request, Restores, Typed
  <2>4. th' \in [Thread -> Request] /\ Courses'
    BY <2>1, <2>3, GotoStep, TypedStep DEF Typed
  <2>5. row' \in Status /\ loaded' \in Thread \cup {None}
    BY <1>2 DEF Mark, Loading, Typed, TypeOK, Status
  <2> QED BY <1>2, <2>4, <2>5 DEF Mark, Typed, TypeOK, runtime
<1>3. CASE Close(t)
  <2> DEFINE r == [th[t] EXCEPT !.pc = "closing", !.db = cur]
  <2>1. r \in Request /\ Course(r)
    BY <1>0, <1>3 DEF Close, At, Request, Course, Restores, Typed, TypeOK
  <2>2. th' = [th EXCEPT ![t] = r]
    BY <1>3 DEF Close
  <2>3. th' \in [Thread -> Request] /\ Courses'
    <3> HIDE DEF r
    <3> QED BY <2>1, <2>2, RequestStep, TypedStep DEF Typed
  <2> HIDE DEF r
  <2> QED BY <1>3, <2>3 DEF Close, Typed, TypeOK, runtime
<1>4. CASE Closed(t)
  <2>1. PICK pc \in {"select", "reserve", "restore"} :
          /\ th' = [th EXCEPT ![t] = [th[t] EXCEPT !.pc = pc, !.db = None]]
          /\ pc = "select" => th[t].op = "disable"
          /\ pc = "reserve" => th[t].op = "provision"
          /\ pc = "restore" => th[t].op \notin {"disable", "provision"}
          /\ loaded' \in {loaded, t}
    BY <1>4 DEF Closed, Loading
  <2> DEFINE r == [th[t] EXCEPT !.pc = pc, !.db = None]
  <2>2. r \in Request /\ Course(r) /\ th' = [th EXCEPT ![t] = r]
    BY <1>0, <1>4, <2>1 DEF Closed, At, Request, Course, Restores
  <2>3. th' \in [Thread -> Request] /\ Courses'
    <3> HIDE DEF r
    <3> QED BY <2>2, RequestStep, TypedStep DEF Typed
  <2> HIDE DEF r
  <2> QED BY <1>4, <2>1, <2>3 DEF Closed, Typed, TypeOK, runtime
<1>5. CASE Reserve(t)
  <2> DEFINE r == [th[t] EXCEPT !.pc = "select", !.next = "init"]
  <2>1. r \in Request /\ Course(r)
    BY <1>0, <1>5 DEF Reserve, At, Request, Course, Restores
  <2>2. th' = [th EXCEPT ![t] = r]
    BY <1>5 DEF Reserve
  <2>3. th' \in [Thread -> Request] /\ Courses'
    <3> HIDE DEF r
    <3> QED BY <2>1, <2>2, RequestStep, TypedStep DEF Typed
  <2> HIDE DEF r
  <2> QED BY <1>5, <2>3 DEF Reserve, Loading, Typed, TypeOK, runtime, Status
<1>6. CASE Initialize(t)
  <2> DEFINE r == [th[t] EXCEPT !.pc = "select", !.next = "idle"]
  <2>1. r \in Request /\ Course(r)
    BY <1>0, <1>6 DEF Initialize, At, Request, Course, Restores
  <2>2. th' = [th EXCEPT ![t] = r]
    BY <1>6 DEF Initialize
  <2>3. th' \in [Thread -> Request] /\ Courses'
    <3> HIDE DEF r
    <3> QED BY <2>1, <2>2, RequestStep, TypedStep DEF Typed
  <2> HIDE DEF r
  <2>4. row' \in Status /\ left' \in Nat /\ loaded' = t
    BY <1>6 DEF Initialize, Fails, Loading, Typed, TypeOK, Status
  <2> QED BY <1>6, <2>3, <2>4 DEF Initialize, Typed, TypeOK, runtime
<1>7. ASSUME NEW status \in Status, LoadedBy(t, status), th[t].pc \in {"select", "prune"}
      PROVE  /\ th' \in [Thread -> Request] /\ Courses'
             /\ known' \in Status /\ loaded' \in Thread \cup {None}
  <2>1. th[t].next # "none"
    BY <1>7, CourseOf
  <2>2. Course(th'[t])
    <3>1. CASE th[t].next = "idle"
      <4>1. th'[t] = NoRequest
        BY <1>7, <3>1 DEF LoadedBy, Typed, TypeOK
      <4> QED BY <4>1 DEF Course, NoRequest, Restores
    <3>2. CASE th[t].next # "idle"
      <4>1. th'[t].pc = th[t].next /\ th'[t].op = th[t].op /\ th'[t].next = th[t].next
        BY <1>7, <2>1, <3>2, LoadedStep DEF Typed
      <4> QED BY <1>0, <1>7, <3>2, <4>1 DEF Course, Restores, Request
    <3> QED BY <3>1, <3>2
  <2> QED BY <1>7, <2>1, <2>2, LoadedStep, TypedStep DEF Typed
<1>8. CASE Select(t)
  <2>1. CASE cur # None /\ row # "ready"
    <3> DEFINE r == [th[t] EXCEPT !.pc = "prune", !.snap = row, !.db = cur]
    <3>1. r \in Request /\ Course(r)
      BY <1>0, <1>8 DEF Select, At, Request, Course, Restores, Typed, TypeOK
    <3>2. th' = [th EXCEPT ![t] = r]
      BY <1>8, <2>1 DEF Select
    <3>3. th' \in [Thread -> Request] /\ Courses'
      <4> HIDE DEF r
      <4> QED BY <3>1, <3>2, RequestStep, TypedStep DEF Typed
    <3> HIDE DEF r
    <3> QED BY <1>8, <2>1, <3>3 DEF Select, Typed, TypeOK, runtime
  <2>2. CASE ~ (cur # None /\ row # "ready")
    BY <1>7, <1>8, <2>2 DEF Select, At, Typed, TypeOK, runtime
  <2> QED BY <2>1, <2>2
<1>9. CASE Prune(t)
  <2>1. th[t].snap \in Status
    BY <1>0, <1>9 DEF Prune, At, Course
  <2> QED BY <1>7, <1>9, <2>1 DEF Prune, At, Typed, TypeOK, runtime
<1>10. CASE Clear(t)
  <2> DEFINE r == [th[t] EXCEPT !.pc = "restore", !.db = None]
  <2>1. r \in Request /\ Course(r)
    BY <1>0, <1>10 DEF Clear, At, Request, Course, Restores
  <2>2. th' = [th EXCEPT ![t] = r]
    BY <1>10 DEF Clear
  <2>3. th' \in [Thread -> Request] /\ Courses'
    <3> HIDE DEF r
    <3> QED BY <2>1, <2>2, RequestStep, TypedStep DEF Typed
  <2> HIDE DEF r
  <2> QED BY <1>10, <2>3 DEF Clear, Typed, TypeOK, runtime
<1>11. CASE Restored(t)
  <2>1. Course(th'[t])
    BY <1>0, <1>11, GotoStep DEF Restored, At, Course, Request, Restores, Typed
  <2>2. th' \in [Thread -> Request] /\ Courses'
    BY <1>11, <2>1, GotoStep, TypedStep DEF Restored, Typed
  <2>3. row' \in Status /\ loaded' = t
    BY <1>11 DEF Restored, Loading, Typed, TypeOK
  <2> QED BY <1>11, <2>2, <2>3 DEF Restored, Typed, TypeOK, runtime
<1>12. CASE Resume(t)
  <2>1. Course(NoRequest)
    BY DEF Course, NoRequest, Restores
  <2>2. th' \in [Thread -> Request] /\ Courses'
    BY <1>12, <2>1, NoRequestType, RequestStep, TypedStep DEF Resume, Typed
  <2> QED BY <1>12, <2>2, AskingType DEF Resume, Typed, TypeOK, runtime
<1> QED BY <1>1, <1>2, <1>3, <1>4, <1>5, <1>6, <1>8, <1>9, <1>10, <1>11, <1>12 DEF Step

LEMMA NextTyped == Typed /\ [Next]_vars => Typed'
<1>1. Typed /\ UNCHANGED vars => Typed'
  BY DEF vars, runtime, Typed, TypeOK, Courses
<1> QED BY <1>1, RecTyped, BeginTyped, StepTyped DEF Next

LEMMA AlwaysTyped == Spec => []Typed
<1>1. Init => Typed
  <2>1. Init => TypeOK
    BY RuntimeAssumption, NoRequestType DEF Init, TypeOK
  <2>2. Init => Courses
    BY DEF Init, Courses, Course, NoRequest, Restores
  <2> QED BY <2>1, <2>2 DEF Typed
<1> QED BY <1>1, NextTyped, PTL DEF Spec

(* Every reachable state is well typed, whatever coincidences are allowed:   *)
(* no request leaves the course of its operation.                            *)
THEOREM TypeCorrect == Spec => []TypeOK
<1>1. Typed => TypeOK
  BY DEF Typed
<1> QED BY <1>1, AlwaysTyped, PTL

-----------------------------------------------------------------------------
(* Nothing runs while a database is being restored *)

LEMMA AlwaysCourse ==
  ASSUME Typed, NEW t \in Thread
  PROVE  /\ At(t, "idle") => th[t].op = "none"
         /\ th[t].op = "none" => At(t, "idle")
BY DEF Typed, Courses, Course, At

(* A request's step is seen by no other request. *)
LEMMA SoleQuiet ==
  ASSUME Typed, Typed', QuietInv, NEW t \in Thread,
         \A u \in Thread : u # t => th'[u] = th[u] /\ At(u, "idle"),
         open' \subseteq {cur'},
         cur' # None => cur' \in open' \/ th'[t].pc \in {"prune", "clear"},
         th'[t].pc = "prune" => open' = {} /\ cur' # None,
         suspended' => th'[t].op \in Restores,
         th'[t].op \in Restores =>
           suspended' /\ open' = {} /\ (th'[t].pc = "clear" \/ cur' = None)
  PROVE  QuietInv'
<1>1. \A u \in Thread : u # t => th'[u].pc = "idle" /\ th'[u].op \notin Restores
  BY AlwaysCourse DEF At, Restores
<1>2. OneRequest'
  BY <1>1 DEF OneRequest, At
<1>3. Pools'
  BY <1>1 DEF Pools, At
<1>4. Suspended'
  BY <1>1 DEF Suspended, At
<1> QED BY <1>2, <1>3, <1>4 DEF QuietInv, Typed

(* The request in flight is the only one. *)
LEMMA InFlightAlone ==
  ASSUME QuietInv, NEW t \in Thread, ~ At(t, "idle"), NEW u \in Thread, u # t
  PROVE  At(u, "idle")
BY DEF QuietInv, OneRequest

LEMMA BeginAlone ==
  ASSUME OneAtATime, NEW t \in Thread, NEW op, MayBegin(t, op), NEW u \in Thread
  PROVE  At(u, "idle")
BY DEF OneAtATime, MayBegin

LEMMA RecQuiet ==
  ASSUME Typed, Typed', QuietInv, Reconcile \/ RecStep \/ UseDb
  PROVE  QuietInv'
<1>1. th' = th /\ suspended' = suspended
  BY DEF Reconcile, RecStep, UseDb, RecStop, RecNothing, RecMigrate, RecConfig, RecInsert,
    RecStarted, RecFails
<1>2. UNCHANGED <<cur, open>> \/ \E p \in Pool : GetDb(p)
  BY DEF Reconcile, RecStep, UseDb, RecStop, RecNothing, RecMigrate, RecConfig, RecInsert,
    RecStarted, RecFails, Advance, GiveUp
<1>3. Pools'
  <2>1. CASE UNCHANGED <<cur, open>>
    BY <1>1, <2>1 DEF QuietInv, Pools, At
  <2>2. ASSUME NEW p \in Pool, GetDb(p) PROVE Pools'
    <3>1. CASE cur # None
      BY <1>1, <2>2, <3>1, GetDbType DEF QuietInv, Pools, At, Typed
    <3>2. CASE cur = None
      <4>1. cur' = p /\ open' = open \cup {p} /\ p \in open' /\ open \subseteq {None}
        BY <2>2, <3>2, GetDbType DEF Typed, QuietInv, Pools
      <4>2. None \notin open
        BY RuntimeAssumption DEF Typed, TypeOK
      <4>3. \A t \in Thread : ~ At(t, "prune")
        BY <3>2 DEF QuietInv, Pools
      <4> QED BY <1>1, <4>1, <4>2, <4>3 DEF Pools, At
    <3> QED BY <3>1, <3>2
  <2> QED BY <1>2, <2>1, <2>2
<1>4. Suspended'
  <2>1. CASE suspended
    <3>1. UNCHANGED <<cur, open>>
      BY <1>2, <2>1 DEF GetDb, Usable
    <3> QED BY <1>1, <2>1, <3>1 DEF QuietInv, Suspended, At
  <2>2. CASE ~ suspended
    BY <1>1, <2>2 DEF QuietInv, Suspended
  <2> QED BY <2>1, <2>2
<1> QED BY <1>1, <1>3, <1>4 DEF QuietInv, OneRequest, Courses, At

LEMMA BeginQuiet ==
  ASSUME OneAtATime, Typed, Typed', QuietInv, NEW t \in Thread,
         \/ Enable(t) \/ Disable(t) \/ Provision(t)
         \/ \E target \in {"monitoring", "portal"} : BeginRestore(t, target)
  PROVE  QuietInv'
<1>1. \A u \in Thread : At(u, "idle") /\ th[u].op = "none"
  BY BeginAlone, AlwaysCourse DEF Enable, Disable, Provision, BeginRestore
<1>2. ~ suspended /\ open \subseteq {cur} /\ (cur # None => cur \in open)
  BY <1>1 DEF QuietInv, Suspended, Pools, Restores, At
<1>3. CASE Enable(t) \/ Disable(t) \/ Provision(t)
  <2>1. /\ \A u \in Thread : u # t => th'[u] = th[u]
        /\ th'[t].op \in {"enable", "provision", "disable"}
        /\ th'[t].pc \in {"test", "mark", "select"}
    BY <1>3, BeginStep DEF Enable, Disable, Provision, Typed
  <2>2. UNCHANGED <<cur, open, suspended>>
    BY <1>3 DEF Enable, Disable, Provision
  <2> QED BY <1>1, <1>2, <2>1, <2>2, SoleQuiet DEF Restores
<1>4. ASSUME NEW target \in {"monitoring", "portal"}, BeginRestore(t, target)
      PROVE  QuietInv'
  <2> DEFINE r == [NoRequest EXCEPT !.op = target, !.next = "resume",
              !.pc = IF target = "monitoring" THEN "closing" ELSE "clear", !.db = cur]
  <2>1. /\ r \in Request /\ r.op \in Restores /\ r.pc # "prune"
        /\ target = "portal" => r.pc = "clear"
    BY DEF NoRequest, Request, Restores, Typed, TypeOK
  <2>2. th' = [th EXCEPT ![t] = r]
    BY <1>4 DEF BeginRestore
  <2> HIDE DEF r
  <2>3. /\ \A u \in Thread : u # t => th'[u] = th[u]
        /\ th'[t] = r
    BY <2>1, <2>2, RequestStep DEF Typed
  <2>4. open' = {} /\ cur' \in {cur, None} /\ (target = "monitoring" => cur' = None)
    BY <1>2, <1>4 DEF BeginRestore
  <2>5. suspended'
    BY <1>4 DEF BeginRestore
  <2>6. r.pc = "clear" \/ cur' = None
    BY <2>1, <2>4
  <2> QED BY <1>1, <2>1, <2>3, <2>4, <2>5, <2>6, SoleQuiet
<1> QED BY <1>3, <1>4

LEMMA StepQuiet ==
  ASSUME Typed, Typed', QuietInv, NEW t \in Thread, Step(t)
  PROVE  QuietInv'
<1>0. ~ At(t, "idle") /\ th[t] \in Request /\ Course(th[t])
  BY CourseOf DEF Step, Test, Mark, Close, Closed, Reserve, Initialize, Select, Prune,
    Clear, Restored, Resume, At
<1>1. \A u \in Thread : u # t => At(u, "idle") /\ th[u].op = "none"
  BY <1>0, InFlightAlone, AlwaysCourse
(* what holds of the request's own place before the step *)
<1>2. /\ open \subseteq {cur} /\ None \notin open
      /\ cur # None => cur \in open \/ th[t].pc \in {"prune", "clear"}
      /\ th[t].pc = "prune" => open = {} /\ cur # None
      /\ suspended => th[t].op \in Restores
      /\ th[t].op \in Restores =>
           suspended /\ open = {} /\ (th[t].pc = "clear" \/ cur = None)
  BY <1>1, RuntimeAssumption DEF QuietInv, Pools, Suspended, At, Restores, Typed, TypeOK
<1>3. ASSUME UNCHANGED <<cur, open, suspended>>,
             \A u \in Thread : u # t => th'[u] = th[u],
             th'[t].op = th[t].op \/ (th'[t].op = "none" /\ th[t].op \notin Restores),
             th'[t].pc # "prune",
             th[t].pc # "prune", th[t].pc # "clear"
      PROVE  QuietInv'
  BY <1>1, <1>2, <1>3, SoleQuiet DEF Restores
<1>4. CASE Test(t) \/ Mark(t) \/ Restored(t)
  <2>1. UNCHANGED <<cur, open, suspended>>
    BY <1>4 DEF Test, Mark, Restored
  <2>2. \/ \E pc \in {"mark", "close", "select"} : Goto(t, pc)
        \/ th' = [th EXCEPT ![t] = NoRequest] /\ At(t, "test")
    BY <1>4 DEF Test, Mark, Restored
  <2>3. CASE \E pc \in {"mark", "close", "select"} : Goto(t, pc)
    BY <1>3, <1>4, <2>1, <2>3, GotoStep DEF Test, Mark, Restored, At, Typed
  <2>4. CASE th' = [th EXCEPT ![t] = NoRequest] /\ At(t, "test")
    <3>1. th'[t] = NoRequest /\ \A u \in Thread : u # t => th'[u] = th[u]
      BY <2>4, NoRequestType, RequestStep DEF Typed
    <3> QED BY <1>0, <1>3, <2>1, <2>4, <3>1 DEF NoRequest, At, Course, Restores
  <2> QED BY <2>2, <2>3, <2>4
<1>5. CASE Reserve(t) \/ Initialize(t)
  <2>1. UNCHANGED <<cur, open, suspended>> /\ th[t].pc \in {"reserve", "init"}
    BY <1>5 DEF Reserve, Initialize, At
  <2>2. PICK next \in {"init", "idle"} :
          th' = [th EXCEPT ![t] = [th[t] EXCEPT !.pc = "select", !.next = next]]
    BY <1>5 DEF Reserve, Initialize
  <2> DEFINE r == [th[t] EXCEPT !.pc = "select", !.next = next]
  <2>3. r \in Request /\ r.op = th[t].op /\ r.pc = "select" /\ th' = [th EXCEPT ![t] = r]
    BY <1>0, <2>2 DEF Request
  <2> HIDE DEF r
  <2>4. th'[t] = r /\ \A u \in Thread : u # t => th'[u] = th[u]
    BY <2>3, RequestStep DEF Typed
  <2> QED BY <1>3, <2>1, <2>3, <2>4
<1>6. CASE Close(t)
  <2> DEFINE r == [th[t] EXCEPT !.pc = "closing", !.db = cur]
  <2>1. r \in Request /\ r.op = th[t].op /\ r.pc = "closing"
    BY <1>0 DEF Request, Typed, TypeOK
  <2>2. th' = [th EXCEPT ![t] = r] /\ th[t].pc = "close"
    BY <1>6 DEF Close, At
  <2>3. cur' = None /\ open' = {} /\ UNCHANGED suspended
    BY <1>2, <1>6 DEF Close
  <2> HIDE DEF r
  <2>4. th'[t] = r /\ \A u \in Thread : u # t => th'[u] = th[u]
    BY <2>1, <2>2, RequestStep DEF Typed
  <2>5. th[t].op \notin Restores
    BY <1>0, <2>2 DEF Course
  <2> QED BY <1>1, <1>2, <2>1, <2>3, <2>4, <2>5, SoleQuiet
<1>7. CASE Closed(t)
  <2>1. UNCHANGED <<cur, open, suspended>> /\ th[t].pc = "closing"
    BY <1>7 DEF Closed, At
  <2>2. PICK pc \in {"select", "reserve", "restore"} :
          th' = [th EXCEPT ![t] = [th[t] EXCEPT !.pc = pc, !.db = None]]
    BY <1>7 DEF Closed
  <2> DEFINE r == [th[t] EXCEPT !.pc = pc, !.db = None]
  <2>3. r \in Request /\ r.op = th[t].op /\ r.pc = pc /\ th' = [th EXCEPT ![t] = r]
    BY <1>0, <2>2 DEF Request
  <2> HIDE DEF r
  <2>4. th'[t] = r /\ \A u \in Thread : u # t => th'[u] = th[u]
    BY <2>3, RequestStep DEF Typed
  <2> QED BY <1>3, <2>1, <2>3, <2>4
<1>8. ASSUME NEW status \in Status, LoadedBy(t, status)
      PROVE  /\ \A u \in Thread : u # t => th'[u] = th[u]
             /\ th'[t].op = th[t].op \/ (th'[t].op = "none" /\ th[t].op \notin Restores)
             /\ th'[t].pc \in {"idle", "close", "init", "resume"}
  <2>1. th[t].next # "none" /\ th[t].next \in {"idle", "close", "init", "resume"}
    BY <1>0, CourseOf DEF At, Request
  <2>2. th[t].next = "idle" => th[t].op \notin Restores
    BY <1>0 DEF Course
  <2>3. /\ \A u \in Thread : u # t => th'[u] = th[u]
        /\ th[t].next = "idle" => th'[t].pc = "idle" /\ th'[t].op = "none"
        /\ th[t].next # "idle" => th'[t].pc = th[t].next /\ th'[t].op = th[t].op
    BY <1>8, <2>1, LoadedStep DEF Typed
  <2> QED BY <2>1, <2>2, <2>3
<1>9. CASE Select(t)
  <2>1. CASE cur # None /\ row # "ready"
    <3> DEFINE r == [th[t] EXCEPT !.pc = "prune", !.snap = row, !.db = cur]
    <3>1. r \in Request /\ r.op = th[t].op /\ r.pc = "prune"
      BY <1>0 DEF Request, Typed, TypeOK
    <3>2. th' = [th EXCEPT ![t] = r] /\ th[t].pc = "select"
      BY <1>9, <2>1 DEF Select, At
    <3>3. cur' = cur /\ open' = {} /\ UNCHANGED suspended
      BY <1>2, <1>9, <2>1 DEF Select
    <3> HIDE DEF r
    <3>4. th'[t] = r /\ \A u \in Thread : u # t => th'[u] = th[u]
      BY <3>1, <3>2, RequestStep DEF Typed
    <3>5. th[t].op \notin Restores
      BY <1>2, <2>1, <3>2
    <3> QED BY <1>1, <1>2, <2>1, <3>1, <3>3, <3>4, <3>5, SoleQuiet
  <2>2. CASE ~ (cur # None /\ row # "ready")
    <3>1. /\ LoadedBy(t, row) /\ UNCHANGED <<cur, open, suspended>>
          /\ th[t].pc = "select" /\ row \in Status
      BY <1>9, <2>2 DEF Select, At, Typed, TypeOK
    <3> QED BY <1>3, <1>8, <3>1
  <2> QED BY <2>1, <2>2
<1>10. CASE Prune(t)
  <2>1. th[t].snap \in Status /\ th[t].pc = "prune" /\ LoadedBy(t, th[t].snap)
    BY <1>0, <1>10 DEF Prune, At, Course
  <2>2. cur' = None /\ open' = {} /\ UNCHANGED suspended
    BY <1>2, <1>10, <2>1 DEF Prune
  <2>3. th[t].op \notin Restores
    BY <1>2, <2>1
  <2>4. th'[t].op \notin Restores /\ th'[t].pc # "prune" /\ ~ suspended'
    BY <1>2, <1>8, <2>1, <2>2, <2>3 DEF Restores
  <2> QED BY <1>1, <1>8, <2>1, <2>2, <2>4, SoleQuiet
<1>11. CASE Clear(t)
  <2> DEFINE r == [th[t] EXCEPT !.pc = "restore", !.db = None]
  <2>1. r \in Request /\ r.op = th[t].op /\ r.pc = "restore"
    BY <1>0 DEF Request
  <2>2. th' = [th EXCEPT ![t] = r] /\ th[t].pc = "clear"
    BY <1>11 DEF Clear, At
  <2>3. th[t].op \in Restores
    <3>1. th[t].op \in {"none", "enable", "provision", "disable", "monitoring", "portal"}
      BY CourseOf
    <3> QED BY <1>0, <2>2, <3>1 DEF Course, Restores
  <2>4. cur' = None /\ open' = {} /\ UNCHANGED suspended
    BY <1>2, <1>11, <2>3 DEF Clear
  <2> HIDE DEF r
  <2>5. th'[t] = r /\ \A u \in Thread : u # t => th'[u] = th[u]
    BY <2>1, <2>2, RequestStep DEF Typed
  <2> QED BY <1>1, <1>2, <2>1, <2>3, <2>4, <2>5, SoleQuiet
<1>12. CASE Resume(t)
  <2>1. th'[t] = NoRequest /\ \A u \in Thread : u # t => th'[u] = th[u]
    BY <1>12, NoRequestType, RequestStep DEF Resume, Typed
  <2>2. cur' = cur /\ open' = open /\ ~ suspended' /\ th[t].pc = "resume"
    BY <1>12 DEF Resume, At
  <2> QED BY <1>1, <1>2, <2>1, <2>2, SoleQuiet DEF NoRequest, Restores
<1> QED BY <1>4, <1>5, <1>6, <1>7, <1>9, <1>10, <1>11, <1>12 DEF Step

LEMMA NextQuiet == OneAtATime /\ Typed /\ Typed' /\ QuietInv /\ [Next]_vars => QuietInv'
<1>1. QuietInv /\ UNCHANGED vars => QuietInv'
  BY DEF vars, runtime, QuietInv, OneRequest, Courses, Pools, Suspended, At
<1> QED BY <1>1, RecQuiet, BeginQuiet, StepQuiet DEF Next

LEMMA InitQuiet == Init => QuietInv
<1> SUFFICES ASSUME Init PROVE QuietInv
  OBVIOUS
<1>1. \A t \in Thread : th[t].pc = "idle" /\ th[t].op = "none"
  BY DEF Init, NoRequest
<1>2. Courses
  BY <1>1 DEF Courses, Course, Restores
<1> QED BY <1>1, <1>2 DEF Init, QuietInv, OneRequest, Pools, Suspended, At, Restores

LEMMA AlwaysQuiet == OneAtATime => (Spec => []QuietInv)
<1> HAVE OneAtATime
<1>1. Typed /\ Typed' /\ QuietInv /\ [Next]_vars => QuietInv'
  BY NextQuiet
<1> QED BY <1>1, InitQuiet, AlwaysTyped, PTL DEF Spec

(* While a database is being restored its module has no open pool, whatever
   reconciliation or handler was under way when the restore began, the start of
   the dispatcher included, and whatever failed before: the suspension that
   getModuleDb asks about and the end of the pool hold for the whole restore. *)
THEOREM RestoresHaveNoPool == OneAtATime => (Spec => []NoPoolWhileRestoring)
<1>1. Typed /\ QuietInv => NoPoolWhileRestoring
  <2> SUFFICES ASSUME Typed, QuietInv, NEW t \in Thread, At(t, "restore")
               PROVE  open = {}
    BY DEF NoPoolWhileRestoring, Restoring
  <2>1. th[t].op \in Restores
    BY CourseOf DEF At, Course, Restores
  <2> QED BY <2>1 DEF QuietInv, Suspended
<1> QED BY <1>1, AlwaysQuiet, AlwaysTyped, PTL
==============================================================================
