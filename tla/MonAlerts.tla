------------------------------ MODULE MonAlerts ------------------------------
(***************************************************************************)
(* From an unreachable device to a notification: polls (engine.ts,         *)
(* availability.ts, system.ts) decide a device's status and keep its       *)
(* outages; the alert evaluation (evaluate.ts) opens, suppresses, notifies *)
(* and recovers the incidents of one rule, while operators acknowledge     *)
(* them, disable devices and open maintenance windows.                     *)
(*                                                                         *)
(* Every statement is an action of its own: what a poll or an evaluation   *)
(* has read may have changed when it writes.  A row that has recovered and *)
(* that nobody holds is forgotten, so that its identity can be used again. *)
(* Time is abstract: an incident's notification delay, or the interval     *)
(* since its last notification, passes at any moment.                      *)
(***************************************************************************)
EXTENDS Integers, FiniteSets

CONSTANTS
  Device,      \* devices, all polled by ICMP and SNMP
  Incident,    \* bound: alert rows that are live or held by an evaluation
  Evaluation,  \* bound: evaluations under way at one time
  Bad,         \* the statuses the rule's condition matches
  Interval,    \* whether the rule reminds (interval_seconds > 0)
  Wired,       \* whether the rule has a transport or a channel
  MaxFaults,   \* bound: failing statements in a behaviour
  None         \* a value that is none of these

Status == {"pending", "up", "down", "degraded", "disabled", "maintenance"}

ASSUME AlertAssumption ==
  /\ Bad \subseteq Status /\ {Interval, Wired} \subseteq BOOLEAN /\ MaxFaults \in Nat
  /\ None \notin Device \cup Incident

VARIABLES
  reach,     \* whether a device answers to nothing, to ICMP, or to SNMP too
  cut,       \* whether a parent of the device is down
  window,    \* behaviour of the device's active maintenance window, or "none"
  status, disabled,  \* devices
  outage,    \* whether the device has open rows in device_outages
  poll,      \* the device's poll under way
  alert,     \* alerts
  ev,        \* evaluations under way
  left       \* failures left

devices == <<status, disabled, outage, poll>>
world == <<reach, cut, window>>
alerts == <<alert, ev>>
vars == <<world, devices, alerts, left>>

Live == {"open", "acknowledged", "suppressed"}
Row == [state : Live \cup {"recovered"}, dev : Device, sent : {0, 1},
        last : {"never", "recent", "past"}, ripe : BOOLEAN]
Poll == [pc : {"idle", "queued", "window", "skip", "ping", "down", "outage",
               "close", "up", "snmp"}, was : Status \cup {None}]
Recovering == [id : Incident, state : Live, sent : {0, 1}]
Eval == [pc : {"idle", "next", "maint", "parent", "write", "lift", "send",
               "count", "recover", "bye", "counted"},
         bad : SUBSET Device, todo : SUBSET Device, dev : Device \cup {None},
         id : Incident \cup {None}, seen : Row \cup {None}, why : BOOLEAN,
         list : SUBSET Recovering]

ASSUME RowAssumption == None \notin Row

NoPoll == [pc |-> "idle", was |-> None]
NoEval == [pc |-> "idle", bad |-> {}, todo |-> {}, dev |-> None, id |-> None,
           seen |-> None, why |-> FALSE, list |-> {}]

IsLive(i) == alert[i] # None /\ alert[i].state \in Live
LiveOf(d) == {i \in Incident : IsLive(i) /\ alert[i].dev = d}
Held(i) == \E e \in Evaluation : ev[e].id = i \/ \E r \in ev[e].list : r.id = i
Fails == left > 0 /\ left' = left - 1

Init ==
  /\ reach \in [Device -> {"none", "icmp", "full"}]
  /\ cut = [d \in Device |-> FALSE]
  /\ window = [d \in Device |-> "none"]
  /\ status = [d \in Device |-> "pending"]
  /\ disabled = [d \in Device |-> FALSE]
  /\ outage = [d \in Device |-> FALSE]
  /\ poll = [d \in Device |-> NoPoll]
  /\ alert = [i \in Incident |-> None]
  /\ ev = [e \in Evaluation |-> NoEval]
  /\ left = MaxFaults

-----------------------------------------------------------------------------
(* The world: the network, the operators and the clock. *)

Change(d) ==
  /\ \/ \E r \in {"none", "icmp", "full"} \ {reach[d]} :
          reach' = [reach EXCEPT ![d] = r] /\ UNCHANGED <<cut, window>>
     \/ cut' = [cut EXCEPT ![d] = ~ @] /\ UNCHANGED <<reach, window>>
     \/ \E w \in {"none", "skip_alerts", "skip_polling"} \ {window[d]} :
          window' = [window EXCEPT ![d] = w] /\ UNCHANGED <<reach, cut>>
  /\ UNCHANGED <<devices, alerts, left>>

(* POST devices/bulk, actions disable and enable *)
Disable(d) ==
  /\ ~ disabled[d]
  /\ disabled' = [disabled EXCEPT ![d] = TRUE]
  /\ status' = [status EXCEPT ![d] = "disabled"]
  /\ UNCHANGED <<world, outage, poll, alerts, left>>

Enable(d) ==
  /\ disabled[d]
  /\ disabled' = [disabled EXCEPT ![d] = FALSE]
  /\ status' = [status EXCEPT ![d] = "pending"]
  /\ UNCHANGED <<world, outage, poll, alerts, left>>

(* POST alerts/:id/ack *)
Ack(i) ==
  /\ alert[i] # None /\ alert[i].state \in {"open", "suppressed"}
  /\ alert' = [alert EXCEPT ![i].state = "acknowledged"]
  /\ UNCHANGED <<world, devices, ev, left>>

(* The delay since opened_at, or the interval since last_notified_at, is over. *)
Age(i) ==
  /\ IsLive(i)
  /\ \/ ~ alert[i].ripe /\ alert' = [alert EXCEPT ![i].ripe = TRUE]
     \/ alert[i].last = "recent" /\ alert' = [alert EXCEPT ![i].last = "past"]
  /\ UNCHANGED <<world, devices, ev, left>>

-----------------------------------------------------------------------------
(* A poll of a device; the queue runs one at a time (MonJobs). *)

PollAt(d, pc) == poll[d].pc = pc
PollGoto(d, pc) == poll' = [poll EXCEPT ![d] = [pc |-> pc, was |-> None]]

Schedule(d) ==
  /\ PollAt(d, "idle") /\ ~ disabled[d]
  /\ PollGoto(d, "queued")
  /\ UNCHANGED <<world, status, disabled, outage, alerts, left>>

(* runPoll: the device's row, then its maintenance window *)
Read(d) ==
  /\ PollAt(d, "queued")
  /\ poll' = [poll EXCEPT ![d] = [pc |-> "window", was |-> status[d]]]
  /\ UNCHANGED <<world, status, disabled, outage, alerts, left>>

Window(d) ==
  /\ PollAt(d, "window")
  /\ IF window[d] = "skip_polling" THEN PollGoto(d, "skip")
     ELSE poll' = [poll EXCEPT ![d].pc = "ping"]
  /\ UNCHANGED <<world, status, disabled, outage, alerts, left>>

Skip(d) ==
  /\ PollAt(d, "skip")
  /\ status' = [status EXCEPT ![d] = "maintenance"]
  /\ PollGoto(d, "idle")
  /\ UNCHANGED <<world, disabled, outage, alerts, left>>

(* Mutant: a device that is new is not asked for outages. *)
PingNotPending(d) ==
  LET was == poll[d].was IN
  /\ PollAt(d, "ping")
  /\ IF reach[d] = "none"
     THEN PollGoto(d, IF was \in {"down", "disabled", "maintenance"} THEN "idle" ELSE "down")
     ELSE PollGoto(d, CASE was = "down" -> "close" [] was = "pending" -> "up"
                        [] OTHER -> "snmp")
  /\ UNCHANGED <<world, status, disabled, outage, alerts, left>>

(* availability.ts: what the answer means for the status it has read *)
Ping(d) ==
  LET was == poll[d].was IN
  /\ PollAt(d, "ping")
  /\ IF reach[d] = "none"
     THEN PollGoto(d, IF was \in {"down", "disabled", "maintenance"} THEN "idle" ELSE "down")
     ELSE PollGoto(d, IF was \in {"down", "pending"} THEN "close" ELSE "snmp")
  /\ UNCHANGED <<world, status, disabled, outage, alerts, left>>

MarkDown(d) ==
  /\ PollAt(d, "down")
  /\ status' = [status EXCEPT ![d] = "down"]
  /\ PollGoto(d, "outage")
  /\ UNCHANGED <<world, disabled, outage, alerts, left>>

OpenOutage(d) ==
  /\ PollAt(d, "outage")
  /\ outage' = [outage EXCEPT ![d] = TRUE]
  /\ PollGoto(d, "idle")
  /\ UNCHANGED <<world, status, disabled, alerts, left>>

CloseOutages(d) ==
  /\ PollAt(d, "close")
  /\ outage' = [outage EXCEPT ![d] = FALSE]
  /\ PollGoto(d, "up")
  /\ UNCHANGED <<world, status, disabled, alerts, left>>

MarkUp(d) ==
  /\ PollAt(d, "up")
  /\ status' = [status EXCEPT ![d] = "up"]
  /\ PollGoto(d, "snmp")
  /\ UNCHANGED <<world, disabled, outage, alerts, left>>

(* system.ts: one UPDATE that reads the status it writes *)
Verdict(d) ==
  /\ PollAt(d, "snmp")
  /\ status' = [status EXCEPT ![d] =
       CASE reach[d] = "full" /\ @ = "degraded" -> "up"
         [] reach[d] # "full" /\ @ = "up" -> "degraded"
         [] OTHER -> @]
  /\ PollGoto(d, "idle")
  /\ UNCHANGED <<world, disabled, outage, alerts, left>>

(* A module that fails is left, and the next one runs; a poll that fails before
   its modules, or whose process dies, ends. *)
PollFails(d) ==
  /\ ~ PollAt(d, "idle") /\ Fails
  /\ \/ PollGoto(d, "idle")
     \/ poll[d].pc \in {"down", "outage", "close", "up"} /\ PollGoto(d, "snmp")
  /\ UNCHANGED <<world, status, disabled, outage, alerts>>

PollStep(d) ==
  Read(d) \/ Window(d) \/ Skip(d) \/ Ping(d) \/ MarkDown(d) \/ OpenOutage(d)
    \/ CloseOutages(d) \/ MarkUp(d) \/ Verdict(d)

-----------------------------------------------------------------------------
(* evaluateAlertRules and evaluateRule, for one rule *)

EvAt(e, pc) == ev[e].pc = pc
EvGoto(e, pc) == ev' = [ev EXCEPT ![e].pc = pc]

(* The entity is done with: the next one. *)
NextEntity(e) ==
  ev' = [ev EXCEPT ![e].pc = "next", ![e].dev = None, ![e].id = None,
                   ![e].seen = None, ![e].why = FALSE]

Snapshot(e) ==
  LET faulting == {d \in Device : ~ disabled[d] /\ status[d] \in Bad} IN
  /\ EvAt(e, "idle")
  /\ ev' = [ev EXCEPT ![e] = [NoEval EXCEPT !.pc = "next", !.bad = faulting,
                                            !.todo = faulting]]
  /\ UNCHANGED <<world, devices, alert, left>>

Find(e, d) ==
  /\ EvAt(e, "next") /\ d \in ev[e].todo
  /\ \/ /\ LiveOf(d) = {}
        /\ ev' = [ev EXCEPT ![e].pc = "maint", ![e].todo = @ \ {d}, ![e].dev = d]
     \/ \E i \in LiveOf(d) :
          ev' = [ev EXCEPT ![e].pc = "maint", ![e].todo = @ \ {d}, ![e].dev = d,
                           ![e].id = i, ![e].seen = alert[i]]
  /\ UNCHANGED <<world, devices, alert, left>>

(* activeMaintenance, then dependencyParentDown *)
Maintenance(e) ==
  /\ EvAt(e, "maint")
  /\ ev' = [ev EXCEPT ![e].pc = "parent", ![e].why = window[ev[e].dev] # "none"]
  /\ UNCHANGED <<world, devices, alert, left>>

Dependency(e) ==
  /\ EvAt(e, "parent")
  /\ ev' = [ev EXCEPT ![e].pc = "write", ![e].why = @ \/ cut[ev[e].dev]]
  /\ UNCHANGED <<world, devices, alert, left>>

(* The unique index admits one live row of a device: a second INSERT throws,
   and the rule's evaluation with it. *)
Insert(e) ==
  /\ EvAt(e, "write") /\ ev[e].id = None
  /\ IF LiveOf(ev[e].dev) # {}
     THEN ev' = [ev EXCEPT ![e] = NoEval] /\ UNCHANGED alert
     ELSE \E i \in Incident :
            /\ alert[i] # None => ~ IsLive(i) /\ ~ Held(i)
            /\ alert' = [alert EXCEPT ![i] =
                 [state |-> IF ev[e].why THEN "suppressed" ELSE "open", dev |-> ev[e].dev,
                  sent |-> 0, last |-> "never", ripe |-> FALSE]]
              /\ NextEntity(e)
  /\ UNCHANGED <<world, devices, left>>

(* Whether an open incident is notified now, and what becomes of the request. *)
Due(e) ==
  LET row == alert[ev[e].id] IN
  row.ripe /\ (ev[e].seen.last = "never" \/ (Interval /\ row.last = "past"))

Notify(e) == IF Due(e) THEN EvGoto(e, "send") ELSE NextEntity(e)

(* Mutant: what is suppressed stays so. *)
RefreshNoLift(e) ==
  /\ EvAt(e, "write") /\ ev[e].id # None
  /\ IF ev[e].seen.state = "open" /\ ~ ev[e].why THEN Notify(e) ELSE NextEntity(e)
  /\ UNCHANGED <<world, devices, alert, left>>

Refresh(e) ==
  /\ EvAt(e, "write") /\ ev[e].id # None
  /\ IF ev[e].seen.state = "suppressed" /\ ~ ev[e].why THEN EvGoto(e, "lift")
     ELSE IF ev[e].seen.state = "open" /\ ~ ev[e].why THEN Notify(e) ELSE NextEntity(e)
  /\ UNCHANGED <<world, devices, alert, left>>

Reopen(e) == [alert EXCEPT ![ev[e].id].state = "open"]

(* transition to open, whatever the row has become *)
Lift(e) ==
  /\ EvAt(e, "lift")
  /\ IF LiveOf(ev[e].dev) \subseteq {ev[e].id}
     THEN alert' = Reopen(e) /\ Notify(e)
     ELSE ev' = [ev EXCEPT ![e] = NoEval] /\ UNCHANGED alert
  /\ UNCHANGED <<world, devices, left>>

(* deliverAlert: the messages leave the system, then the counters are written *)
Send(e) ==
  /\ EvAt(e, "send")
  /\ EvGoto(e, "count")
  /\ UNCHANGED <<world, devices, alert, left>>

Counted(i) ==
  [alert EXCEPT ![i].sent = IF Wired THEN 1 ELSE @, ![i].last = "recent"]

Count(e) ==
  /\ EvAt(e, "count")
  /\ alert' = Counted(ev[e].id)
  /\ NextEntity(e)
  /\ UNCHANGED <<world, devices, left>>

(* Mutant: an incident that somebody has acknowledged is left alone. *)
ClearedOpen(e) ==
  /\ EvAt(e, "next") /\ ev[e].todo = {}
  /\ ev' = [ev EXCEPT ![e].pc = "recover", ![e].list =
       {[id |-> i, state |-> alert[i].state, sent |-> alert[i].sent] :
          i \in {j \in Incident : /\ IsLive(j) /\ alert[j].dev \notin ev[e].bad
                                  /\ alert[j].state # "acknowledged"}}]
  /\ UNCHANGED <<world, devices, alert, left>>

(* The live incidents whose entity no longer faults. *)
Cleared(e) ==
  /\ EvAt(e, "next") /\ ev[e].todo = {}
  /\ ev' = [ev EXCEPT ![e].pc = "recover", ![e].list =
       {[id |-> i, state |-> alert[i].state, sent |-> alert[i].sent] :
          i \in {j \in Incident : IsLive(j) /\ alert[j].dev \notin ev[e].bad}}]
  /\ UNCHANGED <<world, devices, alert, left>>

Recover(e, r) ==
  LET tells == r.state # "suppressed" /\ r.sent > 0 IN
  /\ EvAt(e, "recover") /\ r \in ev[e].list
  /\ alert' = [alert EXCEPT ![r.id].state = "recovered"]
  /\ ev' = [ev EXCEPT ![e].list = @ \ {r}, ![e].pc = IF tells THEN "bye" ELSE "recover",
                      ![e].id = IF tells THEN r.id ELSE None]
  /\ UNCHANGED <<world, devices, left>>

Bye(e) ==
  /\ EvAt(e, "bye")
  /\ EvGoto(e, "counted")
  /\ UNCHANGED <<world, devices, alert, left>>

CountBye(e) ==
  /\ EvAt(e, "counted")
  /\ alert' = Counted(ev[e].id)
  /\ ev' = [ev EXCEPT ![e].pc = "recover", ![e].id = None]
  /\ UNCHANGED <<world, devices, left>>

Evaluated(e) ==
  /\ EvAt(e, "recover") /\ ev[e].list = {}
  /\ ev' = [ev EXCEPT ![e] = NoEval]
  /\ UNCHANGED <<world, devices, alert, left>>

(* A statement fails, or the process dies: the rule's evaluation ends, also
   between a message and what is written about it. *)
EvalFails(e) ==
  /\ ~ EvAt(e, "idle") /\ Fails
  /\ ev' = [ev EXCEPT ![e] = NoEval]
  /\ UNCHANGED <<world, devices, alert>>

EvalStep(e) ==
  \/ Snapshot(e) \/ Maintenance(e) \/ Dependency(e) \/ Insert(e)
  \/ Refresh(e) \/ Lift(e) \/ Send(e) \/ Count(e) \/ Cleared(e) \/ Bye(e)
  \/ CountBye(e) \/ Evaluated(e)
  \/ \E d \in Device : Find(e, d)
  \/ \E r \in ev[e].list : Recover(e, r)

-----------------------------------------------------------------------------
Next ==
  \/ \E d \in Device : Change(d) \/ Disable(d) \/ Enable(d) \/ Schedule(d)
                         \/ PollStep(d) \/ PollFails(d)
  \/ \E i \in Incident : Ack(i) \/ Age(i)
  \/ \E e \in Evaluation : EvalStep(e) \/ EvalFails(e)

Spec == Init /\ [][Next]_vars

(* The queue keeps polling the devices that are due and running the alerts job
   (MonJobs: DuePolled, ClaimsEnd), and time passes. *)
FairSpec ==
  /\ Spec
  /\ \A d \in Device : WF_vars(Schedule(d)) /\ WF_vars(PollStep(d))
  /\ \A e \in Evaluation : WF_vars(EvalStep(e))
  /\ \A i \in Incident : WF_vars(Age(i))

-----------------------------------------------------------------------------
(* Properties *)

(* Type correctness. *)
TypeOK ==
  /\ reach \in [Device -> {"none", "icmp", "full"}] /\ cut \in [Device -> BOOLEAN]
  /\ window \in [Device -> {"none", "skip_alerts", "skip_polling"}]
  /\ status \in [Device -> Status] /\ disabled \in [Device -> BOOLEAN]
  /\ outage \in [Device -> BOOLEAN] /\ poll \in [Device -> Poll]
  /\ alert \in [Incident -> Row \cup {None}]
  /\ ev \in [Evaluation -> Eval] /\ left \in Nat

(* A device that is up, or answers in part, has no open outage, whatever polls
   failed half way and however its switching off and on met them: its
   availability is not charged with an outage that is over. *)
UpHasNoOutage ==
  \A d \in Device : status[d] \in {"up", "degraded"} => ~ outage[d]

(* A device that stays dead, outside maintenance and with its parents up, is
   reported: its incident is notified, or somebody has acknowledged it.  Not so
   for a device left in the status 'maintenance'. *)
Reported(d) == \E i \in LiveOf(d) : alert[i].state = "acknowledged" \/ alert[i].last # "never"

Dead(d) ==
  /\ reach[d] = "none" /\ ~ disabled[d]
  /\ window[d] = "none" /\ ~ cut[d] /\ status[d] # "maintenance"

DeadIsReported == \A d \in Device : <>[]Dead(d) => []<>Reported(d)

(* A device that stays reachable has, in the end, no live incident. *)
ClearIsRecovered ==
  \A d \in Device : <>[](reach[d] # "none") => []<>(LiveOf(d) = {})
=============================================================================
