----------------------------- MODULE MonRuntime -----------------------------
(***************************************************************************)
(* The life of the monitoring runtime in one server process:               *)
(* monitoringBootstrap.ts starts and stops the dispatcher and the          *)
(* receivers, moduleDb.ts keeps the module's connection pool and the       *)
(* records it decides by, moduleLifecycle.ts enables and disables the      *)
(* module, and POST backups/restore suspends the runtime meanwhile.        *)
(*                                                                         *)
(* JavaScript runs one callback at a time: an action is what happens       *)
(* between two awaits.  A pool that has been ended refuses new queries,    *)
(* and its end waits for those under way.  What a tick of the dispatcher   *)
(* does is the subject of MonJobs; here it can work or it cannot.          *)
(***************************************************************************)
EXTENDS Integers, FiniteSets

CONSTANTS
  Thread,     \* bound: requests of administrators in flight
  Pool,       \* bound: connection pools somebody holds at one time
  MaxFaults,  \* bound: failing statements in a behaviour
  Allow,      \* which coincidences a run includes
  None        \* a value that is none of these

ASSUME RuntimeAssumption ==
  /\ MaxFaults \in Nat
  /\ Allow \subseteq {"quick", "midstart", "overlap"}
  /\ None \notin Pool

VARIABLES
  row,         \* module_databases: the module's row in the portal database
  known,       \* moduleDb.ts records: the row this process decides by
  loaded,      \* the load of the records the module awaits, or None
  cur,         \* moduleDb.ts pools: the module's pool
  open,        \* pools that have not been ended
  suspended,   \* runtimeSuspensions, and suspended of monitoringBootstrap.ts
  active,      \* monitoringBootstrap.ts
  stopping,    \* dispatcher.ts
  dispatcher,  \* dispatcher.ts: the pool its timer was started with
  receivers,   \* whether the trap and syslog receivers listen
  rec,         \* the reconciliation under way
  th,          \* requests in flight
  left         \* failures left

runtime == <<active, stopping, dispatcher, receivers>>
vars == <<row, known, loaded, cur, open, suspended, runtime, rec, th, left>>

Status == {"absent", "initializing", "ready", "disabled", "error"}
Initialized(status) == status \in {"ready", "disabled"}
Rec == [pc : {"idle", "ask", "migrate", "config", "insert"},
        db : Pool \cup {None}, await : Thread \cup {None}]
Request == [pc : {"idle", "test", "mark", "close", "closing", "select", "prune",
                  "reserve", "init", "publish", "clear", "restore", "resume"},
            op : {"none", "enable", "provision", "disable", "monitoring", "portal"},
            snap : Status \cup {None}, db : Pool \cup {None}, next : {"none", "idle", "close",
            "init", "resume"}]

Quiet == [pc |-> "idle", db |-> None, await |-> None]
NoRequest == [pc |-> "idle", op |-> "none", snap |-> None, db |-> None, next |-> "none"]

-----------------------------------------------------------------------------
At(t, pc) == th[t].pc = pc
Goto(t, pc) == th' = [th EXCEPT ![t].pc = pc]
RecAt(pc) == rec.pc = pc
Fails == left > 0 /\ left' = left - 1

(* Mutant: getModuleDb does not ask about suspensions. *)
UsableAlways == known = "ready"

(* getModuleDb: refuses while suspended or not ready, else the module's pool,
   which is made if there is none. *)
Usable == ~ suspended /\ known = "ready"

Held(p) == p \in {cur, dispatcher, rec.db} \/ \E t \in Thread : th[t].db = p

GetDb(p) ==
  /\ Usable
  /\ IF cur # None THEN p = cur /\ UNCHANGED <<cur, open>>
     ELSE /\ p \notin open /\ ~ Held(p)
          /\ cur' = p /\ open' = open \cup {p}

(* Mutant: the flag stays. *)
StopStillActive ==
  /\ active' = active /\ stopping' = TRUE
  /\ dispatcher' = None /\ receivers' = FALSE

(* stopDispatcher, stopTrapReceiver, stopSyslogReceiver, active = false *)
Stop ==
  /\ active' = FALSE /\ stopping' = TRUE
  /\ dispatcher' = None /\ receivers' = FALSE

Init ==
  /\ row \in Status
  /\ known = row
  /\ loaded = None
  /\ cur = None /\ open = {}
  /\ suspended = FALSE
  /\ active = FALSE /\ stopping = FALSE
  /\ dispatcher = None /\ receivers = FALSE
  /\ rec = Quiet
  /\ th = [t \in Thread |-> NoRequest]
  /\ left = MaxFaults

-----------------------------------------------------------------------------
(* reconcile: awaits the records, the migrations, the default alerts and
   startDispatcher's INSERT, one after the other.  An error ends it. *)

Asking == [Quiet EXCEPT !.pc = "ask", !.await = loaded]

Reconcile ==
  /\ RecAt("idle") /\ ~ suspended
  /\ rec' = Asking
  /\ UNCHANGED <<row, known, loaded, cur, open, suspended, runtime, th, left>>

Answered == RecAt("ask") /\ (rec.await = None \/ rec.await # loaded)

GiveUp == rec' = Quiet /\ UNCHANGED <<cur, open>>

RecStop ==
  /\ Answered /\ known # "ready" /\ active
  /\ Stop /\ rec' = Quiet
  /\ UNCHANGED <<row, known, loaded, cur, open, suspended, th, left>>

RecNothing ==
  /\ Answered /\ (known = "ready") = active
  /\ rec' = Quiet
  /\ UNCHANGED <<row, known, loaded, cur, open, suspended, runtime, th, left>>

(* The next statement needs the pool; without one the reconciliation ends. *)
Advance(pc) ==
  \/ \E p \in Pool : GetDb(p) /\ rec' = [pc |-> pc, db |-> p, await |-> None]
  \/ ~ Usable /\ GiveUp

RecMigrate ==
  /\ Answered /\ known = "ready" /\ ~ active
  /\ Advance("migrate")
  /\ UNCHANGED <<row, known, loaded, suspended, runtime, th, left>>

RecConfig ==
  /\ RecAt("migrate") /\ Advance("config")
  /\ UNCHANGED <<row, known, loaded, suspended, runtime, th, left>>

(* startDispatcher up to its INSERT *)
RecInsert ==
  /\ RecAt("config") /\ Advance("insert")
  /\ stopping' = IF dispatcher = None THEN FALSE ELSE stopping
  /\ UNCHANGED <<row, known, loaded, suspended, active, dispatcher, receivers, th, left>>

RecStarted ==
  /\ RecAt("insert")
  /\ dispatcher' = rec.db /\ receivers' = TRUE /\ active' = TRUE
  /\ rec' = Quiet
  /\ UNCHANGED <<row, known, loaded, cur, open, suspended, stopping, th, left>>

(* A statement fails; on an ended pool the next one always does. *)
RecFails ==
  /\ rec.pc \in {"migrate", "config", "insert"}
  /\ IF rec.db \in open THEN Fails ELSE UNCHANGED left
  /\ GiveUp
  /\ UNCHANGED <<row, known, loaded, suspended, runtime, th>>

(* Any handler of the module's API. *)
UseDb ==
  /\ cur = None
  /\ \E p \in Pool : GetDb(p)
  /\ UNCHANGED <<row, known, loaded, suspended, runtime, rec, th, left>>

-----------------------------------------------------------------------------
(* Requests.  Those that enable or disable hold an advisory lock; a restore
   does not.  Unless a run allows it, no two requests overlap. *)

Lifecycle == {"enable", "provision", "disable"}

MayBegin(t, op) ==
  /\ At(t, "idle")
  /\ \A u \in Thread : At(u, "idle")
       \/ ("overlap" \in Allow /\ ~ (op \in Lifecycle /\ th[u].op \in Lifecycle))

Begin(t, op, pc, next) ==
  th' = [th EXCEPT ![t] = [NoRequest EXCEPT !.pc = pc, !.op = op, !.next = next]]

(* Unless a run allows it, a module that is not ready is enabled only after
   the runtime has noticed that it is not. *)
Noticed == "quick" \in Allow \/ known = "ready" \/ (~ active /\ RecAt("idle"))

Enable(t) ==
  /\ MayBegin(t, "enable") /\ Initialized(known) /\ Noticed
  /\ Begin(t, "enable", "test", "idle")
  /\ UNCHANGED <<row, known, loaded, cur, open, suspended, runtime, rec, left>>

Test(t) ==
  /\ At(t, "test")
  /\ \/ Goto(t, "mark") /\ UNCHANGED left
     \/ Fails /\ th' = [th EXCEPT ![t] = NoRequest]
  /\ UNCHANGED <<row, known, loaded, cur, open, suspended, runtime, rec>>

Disable(t) ==
  /\ MayBegin(t, "disable") /\ Initialized(known)
  /\ Begin(t, "disable", "mark", "idle")
  /\ UNCHANGED <<row, known, loaded, cur, open, suspended, runtime, rec, left>>

(* A load of the records begins; later readers await the latest. *)
Loading(t) == loaded' = t

Mark(t) ==
  /\ At(t, "mark")
  /\ IF th[t].op = "disable"
     THEN row' = "disabled" /\ Goto(t, "close") /\ UNCHANGED loaded
     ELSE row' = "ready" /\ Goto(t, "select") /\ Loading(t)
  /\ UNCHANGED <<known, cur, open, suspended, runtime, rec, left>>

(* closeModuleDb, and the end of the pool it awaits. *)
Close(t) ==
  /\ At(t, "close")
  /\ th' = [th EXCEPT ![t].pc = "closing", ![t].db = cur]
  /\ cur' = None /\ open' = open \ {cur}
  /\ UNCHANGED <<row, known, loaded, suspended, runtime, rec, left>>

Ended(t) == th[t].db = None \/ rec.db # th[t].db

Closed(t) ==
  /\ At(t, "closing") /\ Ended(t)
  /\ IF th[t].op = "disable"
     THEN th' = [th EXCEPT ![t].pc = "select", ![t].db = None] /\ Loading(t)
     ELSE /\ th' = [th EXCEPT ![t].pc = IF th[t].op = "provision" THEN "reserve"
                                        ELSE "restore", ![t].db = None]
          /\ UNCHANGED loaded
  /\ UNCHANGED <<row, known, cur, open, suspended, runtime, rec, left>>

(* The first enable: the other modules' records, the row, the schema. *)
Provision(t) ==
  /\ MayBegin(t, "provision") /\ ~ Initialized(known) /\ Noticed
  /\ Begin(t, "provision", "select", "close")
  /\ Loading(t)
  /\ UNCHANGED <<row, known, cur, open, suspended, runtime, rec, left>>

Reserve(t) ==
  /\ At(t, "reserve")
  /\ row' = "initializing"
  /\ th' = [th EXCEPT ![t].pc = "select", ![t].next = "init"]
  /\ Loading(t)
  /\ UNCHANGED <<known, cur, open, suspended, runtime, rec, left>>

Initialize(t) ==
  /\ At(t, "init")
  /\ \/ row' = "ready" /\ UNCHANGED left
     \/ row' = "error" /\ Fails
  /\ th' = [th EXCEPT ![t].pc = "select", ![t].next = "idle"]
  /\ Loading(t)
  /\ UNCHANGED <<known, cur, open, suspended, runtime, rec>>

-----------------------------------------------------------------------------
(* ensureModuleDatabaseConfigs(true): read the rows, end the pool of a module
   that is not ready, then replace the records. *)

(* Mutant: the records are replaced by themselves. *)
LoadedNothing(t, status) ==
  /\ known' = known
  /\ loaded' = IF loaded = t THEN None ELSE loaded
  /\ th' = [th EXCEPT ![t] = IF th[t].next = "idle" THEN NoRequest
                             ELSE [@ EXCEPT !.pc = th[t].next, !.snap = None, !.db = None]]

LoadedBy(t, status) ==
  /\ known' = status
  /\ loaded' = IF loaded = t THEN None ELSE loaded
  /\ th' = [th EXCEPT ![t] = IF th[t].next = "idle" THEN NoRequest
                             ELSE [@ EXCEPT !.pc = th[t].next, !.snap = None, !.db = None]]

Select(t) ==
  /\ At(t, "select")
  /\ IF cur # None /\ row # "ready"
     THEN /\ th' = [th EXCEPT ![t].pc = "prune", ![t].snap = row, ![t].db = cur]
          /\ open' = open \ {cur} /\ UNCHANGED <<known, loaded>>
     ELSE LoadedBy(t, row) /\ UNCHANGED open
  /\ UNCHANGED <<row, cur, suspended, runtime, rec, left>>

Prune(t) ==
  /\ At(t, "prune") /\ Ended(t)
  /\ cur' = None
  /\ LoadedBy(t, th[t].snap)
  /\ UNCHANGED <<row, open, suspended, runtime, rec, left>>

-----------------------------------------------------------------------------
(* POST backups/restore, of the monitoring database or of the portal's. *)

BeginRestore(t, target) ==
  /\ MayBegin(t, target)
  /\ "midstart" \in Allow \/ ~ RecAt("insert")
  /\ suspended' = TRUE /\ Stop
  /\ open' = open \ {cur}
  /\ cur' = IF target = "monitoring" THEN None ELSE cur
  /\ th' = [th EXCEPT ![t] = [NoRequest EXCEPT !.op = target, !.next = "resume",
              !.pc = IF target = "monitoring" THEN "closing" ELSE "clear", !.db = cur]]
  /\ UNCHANGED <<row, known, loaded, rec, left>>

(* closeAllModuleDbs: the map is emptied after every pool has ended. *)
Clear(t) ==
  /\ At(t, "clear") /\ Ended(t)
  /\ cur' = None
  /\ th' = [th EXCEPT ![t].pc = "restore", ![t].db = None]
  /\ UNCHANGED <<row, known, loaded, open, suspended, runtime, rec, left>>

(* The portal's backup, or half of it, brings any row back. *)
Restored(t) ==
  /\ At(t, "restore")
  /\ row' \in IF th[t].op = "portal" THEN Status ELSE {row}
  /\ Goto(t, "select") /\ Loading(t)
  /\ UNCHANGED <<known, cur, open, suspended, runtime, rec, left>>

Resume(t) ==
  /\ At(t, "resume")
  /\ suspended' = FALSE
  /\ rec' = IF RecAt("idle") THEN Asking ELSE rec
  /\ th' = [th EXCEPT ![t] = NoRequest]
  /\ UNCHANGED <<row, known, loaded, cur, open, runtime, left>>

-----------------------------------------------------------------------------
RecStep == RecStop \/ RecNothing \/ RecMigrate \/ RecConfig \/ RecInsert
             \/ RecStarted \/ RecFails

Step(t) == Test(t) \/ Mark(t) \/ Close(t) \/ Closed(t) \/ Reserve(t)
             \/ Initialize(t) \/ Select(t) \/ Prune(t) \/ Clear(t) \/ Restored(t)
             \/ Resume(t)

Next ==
  \/ Reconcile \/ RecStep \/ UseDb
  \/ \E t \in Thread :
       \/ Enable(t) \/ Disable(t) \/ Provision(t) \/ Step(t)
       \/ \E target \in {"monitoring", "portal"} : BeginRestore(t, target)

Spec == Init /\ [][Next]_vars

(* The reconciliation's timer keeps firing, and what is started goes on. *)
FairSpec ==
  /\ Spec
  /\ WF_vars(Reconcile) /\ WF_vars(RecStep)
  /\ \A t \in Thread : WF_vars(Step(t))

-----------------------------------------------------------------------------
(* Properties *)

(* Type correctness. *)
TypeOK ==
  /\ row \in Status /\ known \in Status
  /\ loaded \in Thread \cup {None}
  /\ cur \in Pool \cup {None} /\ open \subseteq Pool
  /\ suspended \in BOOLEAN /\ active \in BOOLEAN
  /\ stopping \in BOOLEAN /\ receivers \in BOOLEAN
  /\ dispatcher \in Pool \cup {None}
  /\ rec \in Rec
  /\ th \in [Thread -> Request]
  /\ left \in Nat

(* "workers never retain a closed pool" (monitoringBootstrap.ts:13): when no
   request and no reconciliation is under way and the module is ready, a
   runtime that is active has a dispatcher that works, on an open pool.  Not so
   when the suspension comes during startDispatcher's INSERT. *)
Settled == RecAt("idle") /\ \A t \in Thread : At(t, "idle")

WorkersHaveOpenPool ==
  Settled /\ known = "ready" /\ active =>
    ~ stopping /\ dispatcher \in open

Restoring == \E t \in Thread : At(t, "restore")

(* While a database is being restored the module has no open pool: none stays
   open, and neither a handler nor a reconciliation under way makes a new one
   (suspendModuleRuntime, closeModuleDb, closeAllModuleDbs). *)
NoPoolWhileRestoring == Restoring => open = {}

(* Nor does anything of the module run meanwhile: no failed statement and no
   reconciliation that the suspension found before its INSERT brings it back. *)
QuietWhileRestoring == Restoring => ~ active /\ ~ receivers /\ dispatcher = None

(* The runtime follows the module's row: with no request in flight, it comes
   to work when the module is ready and to stand still when it is not. *)
Works == active /\ receivers /\ ~ stopping /\ dispatcher \in open
Still == ~ active /\ ~ receivers /\ dispatcher = None

Busy == \E t \in Thread : ~ At(t, "idle")

FollowsRow == (row = "ready" ~> Works \/ Busy) /\ (row # "ready" ~> Still \/ Busy)
=============================================================================
