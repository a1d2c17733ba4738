--------------------------- MODULE MonAlerts_proofs ---------------------------
(***************************************************************************)
(* What holds of MonAlerts for any number of devices, incidents and        *)
(* failures, and of evaluations that overlap: the types, and that outages  *)
(* end with the device's unreachability.                                   *)
(***************************************************************************)
EXTENDS MonAlerts, TLAPS

-----------------------------------------------------------------------------
(* The type invariant in parts, and what an evaluation under way holds: the row
   it is about exists, and so do the rows it is about to recover. *)

WorldType ==
  /\ reach \in [Device -> {"none", "icmp", "full"}] /\ cut \in [Device -> BOOLEAN]
  /\ window \in [Device -> {"none", "skip_alerts", "skip_polling"}]

DeviceType ==
  /\ status \in [Device -> Status] /\ disabled \in [Device -> BOOLEAN]
  /\ outage \in [Device -> BOOLEAN] /\ poll \in [Device -> Poll]

AlertType ==
  /\ alert \in [Incident -> Row \cup {None}]
  /\ ev \in [Evaluation -> Eval]

Holding(e) ==
  /\ ev[e].pc \in {"maint", "parent", "write", "lift"} => ev[e].dev \in Device
  /\ ev[e].pc \in {"lift", "send", "count", "bye", "counted"} => ev[e].id # None
  /\ ev[e].pc \in {"idle", "next", "recover"} => ev[e].id = None
  /\ ev[e].id # None => alert[ev[e].id] # None
  /\ \A r \in ev[e].list : alert[r.id] # None

Typed == TypeOK /\ \A e \in Evaluation : Holding(e)

LEMMA TypeParts == TypeOK <=> WorldType /\ DeviceType /\ AlertType /\ left \in Nat
BY DEF TypeOK, WorldType, DeviceType, AlertType

LEMMA InitTyped == Init => Typed
<1> SUFFICES ASSUME Init PROVE Typed
  OBVIOUS
<1>1. NoEval \in Eval /\ NoPoll \in Poll
  BY DEF NoEval, Eval, NoPoll, Poll
<1>2. WorldType /\ DeviceType /\ AlertType /\ left \in Nat
  BY <1>1, AlertAssumption
  DEF Init, WorldType, DeviceType, AlertType, Status
<1>3. \A e \in Evaluation : Holding(e)
  BY DEF Init, Holding, NoEval
<1> QED BY <1>2, <1>3, TypeParts DEF Typed

(* A step of a device or of the world leaves the alerts alone. *)
LEMMA DeviceStepType ==
  ASSUME Typed, NEW d \in Device,
         Change(d) \/ Disable(d) \/ Enable(d) \/ Schedule(d) \/ PollStep(d) \/ PollFails(d)
  PROVE  Typed' /\ UNCHANGED alerts
<1>1. WorldType /\ DeviceType /\ AlertType /\ left \in Nat
  BY TypeParts DEF Typed
<1> USE DEF devices, world, alerts
<1>2. UNCHANGED <<alert, ev>>
  BY DEF Change, Disable, Enable, Schedule, PollStep, PollFails, Read, Window, Skip,
         Ping, MarkDown, OpenOutage, CloseOutages, MarkUp, Verdict
<1>3. AlertType' /\ \A e \in Evaluation : Holding(e)'
  BY <1>1, <1>2 DEF AlertType, Holding, Typed
<1>4. ASSUME NEW pc \in {"idle", "queued", "window", "skip", "ping", "down", "outage",
                         "close", "up", "snmp"}, PollGoto(d, pc)
      PROVE  poll' \in [Device -> Poll]
  BY <1>1, <1>4 DEF PollGoto, DeviceType, Poll
<1>5. CASE Change(d)
  <2>1. WorldType'
    BY <1>1, <1>5 DEF Change, WorldType
  <2>2. DeviceType' /\ left' \in Nat
    BY <1>1, <1>5 DEF Change, DeviceType
  <2> QED BY <2>1, <2>2, <1>2, <1>3 DEF WorldType, DeviceType, AlertType, Typed, TypeOK
<1>6. CASE Disable(d) \/ Enable(d)
  BY <1>1, <1>2, <1>3, <1>6 DEF Disable, Enable, WorldType, DeviceType, AlertType, Typed,
     TypeOK, Status
<1>7. CASE ~ Change(d) /\ ~ Disable(d) /\ ~ Enable(d)
  <2>1. UNCHANGED world /\ UNCHANGED disabled /\ left' \in Nat
    BY <1>1, <1>7 DEF Schedule, PollStep, PollFails, Read, Window, Skip, Fails,
       Ping, MarkDown, OpenOutage, CloseOutages, MarkUp, Verdict
  <2>2. poll' \in [Device -> Poll]
    <3>1. CASE Schedule(d)
      BY <3>1, <1>4 DEF Schedule
    <3>2. CASE Read(d)
      BY <3>2, <1>1 DEF Read, DeviceType, Poll
    <3>3. CASE Window(d)
      BY <3>3, <1>1, <1>4 DEF Window, DeviceType, Poll
    <3>4. CASE Skip(d) \/ MarkDown(d) \/ OpenOutage(d) \/ CloseOutages(d) \/ MarkUp(d)
               \/ Verdict(d) \/ PollFails(d)
      BY <3>4, <1>4 DEF Skip, MarkDown, OpenOutage, CloseOutages, MarkUp, Verdict, PollFails
    <3>5. CASE Ping(d)
      <4>1. \E pc \in {"idle", "down", "close", "snmp"} : PollGoto(d, pc)
        BY <3>5 DEF Ping
      <4> QED BY <4>1, <1>4
    <3> QED BY <1>7, <3>1, <3>2, <3>3, <3>4, <3>5 DEF PollStep
  <2>3. status' \in [Device -> Status] /\ outage' \in [Device -> BOOLEAN]
    BY <1>1, <1>7 DEF Schedule, PollStep, PollFails, Read, Window, Skip, Fails, Status,
       Ping, MarkDown, OpenOutage, CloseOutages, MarkUp, Verdict, DeviceType
  <2> QED BY <1>1, <1>2, <1>3, <2>1, <2>2, <2>3 DEF WorldType, DeviceType, AlertType, Typed,
             TypeOK
<1> QED BY <1>5, <1>6, <1>7
(* An acknowledgement and the passing of time. *)
LEMMA RowStepType ==
  ASSUME Typed, NEW i \in Incident, Ack(i) \/ Age(i)
  PROVE  Typed'
<1>1. WorldType /\ DeviceType /\ AlertType /\ left \in Nat
  BY TypeParts DEF Typed
<1>2. alert[i] \in Row /\ UNCHANGED <<world, devices, ev, left>>
  BY <1>1 DEF Ack, Age, AlertType, IsLive, Live
<1>3. \E r \in Row : alert' = [alert EXCEPT ![i] = r]
  <2>1. CASE Ack(i)
    <3>1. [alert[i] EXCEPT !.state = "acknowledged"] \in Row
      BY <1>2 DEF Row, Live
    <3> QED BY <2>1, <3>1, <1>1, <1>2 DEF Ack, AlertType, Row
  <2>2. CASE Age(i)
    <3>1. /\ [alert[i] EXCEPT !.ripe = TRUE] \in Row
          /\ [alert[i] EXCEPT !.last = "past"] \in Row
      BY <1>2 DEF Row
    <3>2. alert' = [alert EXCEPT ![i] = [alert[i] EXCEPT !.ripe = TRUE]]
            \/ alert' = [alert EXCEPT ![i] = [alert[i] EXCEPT !.last = "past"]]
      BY <2>2, <1>1 DEF Age, AlertType
    <3> QED BY <3>1, <3>2
  <2> QED BY <2>1, <2>2
<1>4. /\ alert' \in [Incident -> Row \cup {None}]
      /\ \A j \in Incident : alert[j] # None => alert'[j] # None
  BY <1>1, <1>2, <1>3, RowAssumption DEF AlertType
<1>5. \A e \in Evaluation : Holding(e)'
  <2> SUFFICES ASSUME NEW e \in Evaluation PROVE Holding(e)'
    OBVIOUS
  <2>1. ev'[e] = ev[e] /\ Holding(e) /\ ev[e] \in Eval
    BY <1>1, <1>2 DEF Typed, AlertType
  <2> QED BY <2>1, <1>4 DEF Holding, Eval, Recovering
<1> QED BY <1>1, <1>2, <1>4, <1>5
        DEF Typed, TypeOK, WorldType, DeviceType, AlertType, world, devices

(* One evaluation becomes r, no row disappears: what is left to show. *)
LEMMA EvalRecord ==
  ASSUME Typed, NEW e \in Evaluation, NEW r \in Eval, ev' = [ev EXCEPT ![e] = r],
         alert' \in [Incident -> Row \cup {None}],
         \A j \in Incident : alert[j] # None => alert'[j] # None,
         UNCHANGED <<world, devices>>, left' \in Nat,
         r.pc \in {"maint", "parent", "write", "lift"} => r.dev \in Device,
         r.pc \in {"lift", "send", "count", "bye", "counted"} => r.id # None,
         r.pc \in {"idle", "next", "recover"} => r.id = None,
         r.id # None => alert'[r.id] # None,
         \A q \in r.list : alert'[q.id] # None
  PROVE  Typed'
<1>1. WorldType /\ DeviceType /\ AlertType /\ left \in Nat
  BY TypeParts DEF Typed
<1>2. ev' \in [Evaluation -> Eval]
  BY <1>1 DEF AlertType
<1>3. ASSUME NEW f \in Evaluation PROVE Holding(f)'
  <2>1. CASE f = e
    BY <2>1, <1>2 DEF Holding
  <2>2. CASE f # e
    <3>1. ev'[f] = ev[f] /\ Holding(f) /\ ev[f] \in Eval
      BY <2>2, <1>1, <1>2 DEF Typed, AlertType
    <3> QED BY <3>1 DEF Holding, Eval, Recovering
  <2> QED BY <2>1, <2>2
<1> QED BY <1>1, <1>2, <1>3
        DEF Typed, TypeOK, WorldType, DeviceType, AlertType, world, devices

(* The same, for the three ways an evaluation moves on: to another statement,
   to the next entity, to its end. *)
LEMMA GotoType ==
  ASSUME Typed, NEW e \in Evaluation,
         NEW pc \in {"parent", "write", "lift", "send", "count", "counted"}, EvGoto(e, pc),
         UNCHANGED <<world, devices, left>>,
         alert' \in [Incident -> Row \cup {None}],
         \A j \in Incident : alert[j] # None => alert'[j] # None,
         pc \in {"parent", "write", "lift"} => ev[e].dev \in Device,
         pc \notin {"parent", "write"} => ev[e].id # None
  PROVE  Typed'
<1> DEFINE r == [ev[e] EXCEPT !.pc = pc]
<1>1. WorldType /\ DeviceType /\ AlertType /\ left \in Nat /\ Holding(e)
  BY TypeParts DEF Typed
<1>2. ev[e] \in Eval
  BY <1>1 DEF AlertType
<1>3. /\ r \in Eval /\ r.pc = pc /\ r.dev = ev[e].dev /\ r.id = ev[e].id /\ r.list = ev[e].list
  BY <1>2 DEF Eval
<1>4. ev' = [ev EXCEPT ![e] = r]
  BY <1>1 DEF EvGoto, AlertType
<1>5. /\ r.id # None => alert'[r.id] # None
      /\ \A q \in r.list : alert'[q.id] # None
  BY <1>1, <1>2, <1>3 DEF Holding, Eval, Recovering
<1> HIDE DEF r
<1> QED BY <1>1, <1>3, <1>4, <1>5, EvalRecord

LEMMA NextType ==
  ASSUME Typed, NEW e \in Evaluation, NextEntity(e),
         UNCHANGED <<world, devices, left>>,
         alert' \in [Incident -> Row \cup {None}],
         \A j \in Incident : alert[j] # None => alert'[j] # None
  PROVE  Typed'
<1> DEFINE r == [ev[e] EXCEPT !.pc = "next", !.dev = None, !.id = None,
                              !.seen = None, !.why = FALSE]
<1>1. WorldType /\ DeviceType /\ AlertType /\ left \in Nat /\ Holding(e)
  BY TypeParts DEF Typed
<1>2. ev[e] \in Eval
  BY <1>1 DEF AlertType
<1>3. r \in Eval /\ r.pc = "next" /\ r.id = None /\ r.list = ev[e].list
  BY <1>2 DEF Eval
<1>4. ev' = [ev EXCEPT ![e] = r]
  BY <1>1, <1>2 DEF NextEntity, AlertType, Eval
<1>5. \A q \in r.list : alert'[q.id] # None
  BY <1>1, <1>2, <1>3 DEF Holding, Eval, Recovering
<1> HIDE DEF r
<1> QED BY <1>1, <1>3, <1>4, <1>5, EvalRecord

LEMMA EndType ==
  ASSUME Typed, NEW e \in Evaluation, ev' = [ev EXCEPT ![e] = NoEval],
         UNCHANGED <<world, devices, alert>>, left' \in Nat
  PROVE  Typed'
<1>1. AlertType
  BY TypeParts DEF Typed
<1>2. NoEval \in Eval /\ NoEval.pc = "idle" /\ NoEval.id = None /\ NoEval.list = {}
  BY DEF NoEval, Eval
<1> QED BY <1>1, <1>2, EvalRecord DEF AlertType

-----------------------------------------------------------------------------
(* One lemma for each statement of an evaluation. *)

LEMMA BeginStep ==
  ASSUME Typed, NEW e \in Evaluation, Snapshot(e) \/ Evaluated(e) \/ EvalFails(e)
  PROVE  Typed'
<1>1. AlertType /\ left \in Nat
  BY TypeParts DEF Typed
<1>2. CASE Snapshot(e)
  <2> DEFINE faulting == {d \in Device : ~ disabled[d] /\ status[d] \in Bad}
             r == [NoEval EXCEPT !.pc = "next", !.bad = faulting, !.todo = faulting]
  <2>1. r \in Eval /\ r.pc = "next" /\ r.id = None /\ r.list = {}
    BY DEF NoEval, Eval
  <2>2. ev' = [ev EXCEPT ![e] = r] /\ UNCHANGED <<world, devices, alert, left>>
    BY <1>2 DEF Snapshot
  <2> HIDE DEF r
  <2> QED BY <1>1, <2>1, <2>2, EvalRecord DEF AlertType
<1>3. CASE Evaluated(e) \/ EvalFails(e)
  <2>1. ev' = [ev EXCEPT ![e] = NoEval] /\ UNCHANGED <<world, devices, alert>>
        /\ left' \in Nat
    BY <1>1, <1>3 DEF Evaluated, EvalFails, Fails
  <2> QED BY <2>1, EndType
<1> QED BY <1>2, <1>3

LEMMA FindStep ==
  ASSUME Typed, NEW e \in Evaluation, NEW d \in Device, Find(e, d)
  PROVE  Typed'
<1>1. AlertType /\ left \in Nat /\ Holding(e)
  BY TypeParts DEF Typed
<1>2. ev[e] \in Eval /\ ev[e].pc = "next" /\ ev[e].id = None
      /\ UNCHANGED <<world, devices, alert, left>>
  BY <1>1 DEF Find, EvAt, AlertType, Holding
<1>3. \A q \in ev[e].list : alert'[q.id] # None
  BY <1>1, <1>2 DEF Holding
<1>4. CASE ev' = [ev EXCEPT ![e].pc = "maint", ![e].todo = @ \ {d}, ![e].dev = d]
  <2> DEFINE r == [ev[e] EXCEPT !.pc = "maint", !.todo = ev[e].todo \ {d}, !.dev = d]
  <2>1. /\ r \in Eval /\ r.pc = "maint" /\ r.dev = d /\ r.id = None
        /\ r.list = ev[e].list
    BY <1>2 DEF Eval
  <2>2. ev' = [ev EXCEPT ![e] = r]
    BY <1>1, <1>2, <1>4 DEF AlertType, Eval
  <2> HIDE DEF r
  <2> QED BY <1>1, <1>2, <1>3, <2>1, <2>2, EvalRecord DEF AlertType
<1>5. CASE \E i \in LiveOf(d) :
             ev' = [ev EXCEPT ![e].pc = "maint", ![e].todo = @ \ {d}, ![e].dev = d,
                              ![e].id = i, ![e].seen = alert[i]]
  <2>1. PICK i \in LiveOf(d) :
             ev' = [ev EXCEPT ![e].pc = "maint", ![e].todo = @ \ {d}, ![e].dev = d,
                              ![e].id = i, ![e].seen = alert[i]]
    BY <1>5
  <2> DEFINE r == [ev[e] EXCEPT !.pc = "maint", !.todo = ev[e].todo \ {d}, !.dev = d,
                                !.id = i, !.seen = alert[i]]
  <2>2. i \in Incident /\ IsLive(i) /\ alert[i] \in Row /\ alert[i] # None
    BY <1>1, <2>1 DEF LiveOf, IsLive, AlertType
  <2>3. /\ r \in Eval /\ r.pc = "maint" /\ r.dev = d /\ r.id = i /\ r.seen = alert[i]
        /\ r.list = ev[e].list
    BY <1>2, <2>2 DEF Eval
  <2>4. ev' = [ev EXCEPT ![e] = r]
    BY <1>1, <1>2, <2>1 DEF AlertType, Eval
  <2> HIDE DEF r
  <2> QED BY <1>1, <1>2, <1>3, <2>2, <2>3, <2>4, EvalRecord DEF AlertType
<1> QED BY <1>4, <1>5 DEF Find

LEMMA CheckStep ==
  ASSUME Typed, NEW e \in Evaluation, Maintenance(e) \/ Dependency(e)
  PROVE  Typed'
<1>1. WorldType /\ AlertType /\ left \in Nat /\ Holding(e)
  BY TypeParts DEF Typed
<1>2. /\ ev[e] \in Eval /\ ev[e].pc \in {"maint", "parent"} /\ ev[e].dev \in Device
      /\ UNCHANGED <<world, devices, alert, left>>
  BY <1>1 DEF Maintenance, Dependency, EvAt, AlertType, Holding
<1>3. PICK pc \in {"parent", "write"}, why \in BOOLEAN :
        ev' = [ev EXCEPT ![e] = [ev[e] EXCEPT !.pc = pc, !.why = why]]
  <2>1. CASE Maintenance(e)
    BY <1>1, <1>2, <2>1 DEF Maintenance, AlertType, Eval
  <2>2. CASE Dependency(e)
    <3>1. ev[e].why \in BOOLEAN /\ cut[ev[e].dev] \in BOOLEAN
      BY <1>1, <1>2 DEF WorldType, Eval
    <3> QED BY <1>1, <1>2, <2>2, <3>1 DEF Dependency, AlertType, Eval
  <2> QED BY <2>1, <2>2
<1> DEFINE r == [ev[e] EXCEPT !.pc = pc, !.why = why]
<1>4. /\ r \in Eval /\ r.pc = pc /\ r.dev = ev[e].dev /\ r.id = ev[e].id /\ r.seen = ev[e].seen
      /\ r.list = ev[e].list
  BY <1>2, <1>3 DEF Eval
<1>5. /\ r.id # None => alert'[r.id] # None
      /\ \A q \in r.list : alert'[q.id] # None
  BY <1>1, <1>2, <1>4 DEF Holding
<1>6. ev' = [ev EXCEPT ![e] = r]
  BY <1>3
<1> HIDE DEF r
<1> QED BY <1>1, <1>2, <1>3, <1>4, <1>5, <1>6, EvalRecord DEF AlertType

LEMMA InsertStep ==
  ASSUME Typed, NEW e \in Evaluation, Insert(e)
  PROVE  Typed'
<1>1. AlertType /\ left \in Nat /\ Holding(e)
  BY TypeParts DEF Typed
<1>2. /\ ev[e] \in Eval /\ ev[e].dev \in Device /\ UNCHANGED <<world, devices, left>>
  BY <1>1 DEF Insert, EvAt, AlertType, Holding
<1>3. CASE ev' = [ev EXCEPT ![e] = NoEval] /\ UNCHANGED alert
  BY <1>1, <1>2, <1>3, EndType
<1>4. CASE ~ (LiveOf(ev[e].dev) # {})
  <2> DEFINE row == [state |-> IF ev[e].why THEN "suppressed" ELSE "open",
                     dev |-> ev[e].dev, sent |-> 0, last |-> "never", ripe |-> FALSE]
  <2>1. row \in Row
    BY <1>2 DEF Row, Live
  <2>2. PICK i \in Incident : alert' = [alert EXCEPT ![i] = row] /\ NextEntity(e)
    BY <1>4 DEF Insert
  <2> HIDE DEF row
  <2>3. /\ alert' \in [Incident -> Row \cup {None}]
        /\ \A j \in Incident : alert[j] # None => alert'[j] # None
    BY <1>1, <2>1, <2>2, RowAssumption DEF AlertType
  <2> QED BY <1>2, <2>2, <2>3, NextType
<1> QED BY <1>3, <1>4 DEF Insert

LEMMA NotifyType ==
  ASSUME Typed, NEW e \in Evaluation, Notify(e), ev[e].id # None,
         UNCHANGED <<world, devices, left>>,
         alert' \in [Incident -> Row \cup {None}],
         \A j \in Incident : alert[j] # None => alert'[j] # None
  PROVE  Typed'
<1>1. CASE EvGoto(e, "send")
  BY <1>1, GotoType
<1>2. CASE NextEntity(e)
  BY <1>2, NextType
<1> QED BY <1>1, <1>2 DEF Notify

LEMMA RefreshStep ==
  ASSUME Typed, NEW e \in Evaluation, Refresh(e)
  PROVE  Typed'
<1>1. AlertType /\ left \in Nat /\ Holding(e)
  BY TypeParts DEF Typed
<1>2. /\ ev[e].id # None /\ ev[e].dev \in Device
      /\ UNCHANGED <<world, devices, alert, left>>
  BY <1>1 DEF Refresh, EvAt, Holding
<1>3. /\ alert' \in [Incident -> Row \cup {None}]
      /\ \A j \in Incident : alert[j] # None => alert'[j] # None
  BY <1>1, <1>2 DEF AlertType
<1>4. CASE EvGoto(e, "lift")
  BY <1>2, <1>3, <1>4, GotoType
<1>5. CASE Notify(e)
  BY <1>2, <1>3, <1>5, NotifyType
<1>6. CASE NextEntity(e)
  BY <1>2, <1>3, <1>6, NextType
<1> QED BY <1>4, <1>5, <1>6 DEF Refresh

(* A row that is written. *)
LEMMA RowWrite ==
  ASSUME Typed, NEW i \in Incident, alert[i] # None, NEW r \in Row,
         alert' = [alert EXCEPT ![i] = r]
  PROVE  /\ alert' \in [Incident -> Row \cup {None}]
         /\ \A j \in Incident : alert[j] # None => alert'[j] # None
<1>1. AlertType
  BY TypeParts DEF Typed
<1> QED BY <1>1, RowAssumption DEF AlertType

LEMMA LiftStep ==
  ASSUME Typed, NEW e \in Evaluation, Lift(e)
  PROVE  Typed'
<1>1. AlertType /\ left \in Nat /\ Holding(e)
  BY TypeParts DEF Typed
<1>2. ev[e] \in Eval /\ ev[e].id # None /\ UNCHANGED <<world, devices, left>>
  BY <1>1 DEF Lift, EvAt, AlertType, Holding
<1>3. ev[e].id \in Incident /\ alert[ev[e].id] # None /\ alert[ev[e].id] \in Row
  BY <1>1, <1>2 DEF Eval, Holding, AlertType
<1>4. CASE ev' = [ev EXCEPT ![e] = NoEval] /\ UNCHANGED alert
  BY <1>1, <1>2, <1>4, EndType
<1>5. CASE alert' = Reopen(e) /\ Notify(e)
  <2> DEFINE r == [alert[ev[e].id] EXCEPT !.state = "open"]
  <2>1. r \in Row
    BY <1>3 DEF Row, Live
  <2>2. alert' = [alert EXCEPT ![ev[e].id] = r]
    BY <1>1, <1>3, <1>5 DEF Reopen, AlertType
  <2> HIDE DEF r
  <2>3. /\ alert' \in [Incident -> Row \cup {None}]
        /\ \A j \in Incident : alert[j] # None => alert'[j] # None
    BY <1>3, <2>1, <2>2, RowWrite
  <2> QED BY <1>2, <1>5, <2>3, NotifyType
<1> QED BY <1>4, <1>5 DEF Lift

LEMMA SendStep ==
  ASSUME Typed, NEW e \in Evaluation, Send(e) \/ Bye(e)
  PROVE  Typed'
<1>1. AlertType /\ left \in Nat /\ Holding(e)
  BY TypeParts DEF Typed
<1>2. ev[e].id # None /\ UNCHANGED <<world, devices, alert, left>>
  BY <1>1 DEF Send, Bye, EvAt, Holding
<1>3. /\ alert' \in [Incident -> Row \cup {None}]
      /\ \A j \in Incident : alert[j] # None => alert'[j] # None
  BY <1>1, <1>2 DEF AlertType
<1>4. PICK pc \in {"count", "counted"} : EvGoto(e, pc)
  BY DEF Send, Bye
<1> QED BY <1>2, <1>3, <1>4, GotoType

(* What the counters' statement writes. *)
LEMMA CountedRow ==
  ASSUME Typed, NEW i \in Incident, alert[i] # None, alert' = Counted(i)
  PROVE  /\ alert' \in [Incident -> Row \cup {None}]
         /\ \A j \in Incident : alert[j] # None => alert'[j] # None
<1> DEFINE r == [alert[i] EXCEPT !.sent = IF Wired THEN 1 ELSE alert[i].sent, !.last = "recent"]
<1>1. AlertType
  BY TypeParts DEF Typed
<1>2. alert[i] \in Row
  BY <1>1 DEF AlertType
<1>3. r \in Row
  BY <1>2 DEF Row
<1>4. alert' = [alert EXCEPT ![i] = r]
  BY <1>1, <1>2 DEF Counted, AlertType, Row
<1> HIDE DEF r
<1> QED BY <1>3, <1>4, RowWrite

LEMMA CountStep ==
  ASSUME Typed, NEW e \in Evaluation, Count(e) \/ CountBye(e)
  PROVE  Typed'
<1>1. AlertType /\ left \in Nat /\ Holding(e)
  BY TypeParts DEF Typed
<1>2. /\ ev[e] \in Eval /\ ev[e].id # None
      /\ UNCHANGED <<world, devices, left>> /\ alert' = Counted(ev[e].id)
  BY <1>1 DEF Count, CountBye, EvAt, AlertType, Holding
<1>3. ev[e].id \in Incident /\ alert[ev[e].id] # None
  BY <1>1, <1>2 DEF Eval, Holding
<1>4. /\ alert' \in [Incident -> Row \cup {None}]
      /\ \A j \in Incident : alert[j] # None => alert'[j] # None
  BY <1>2, <1>3, CountedRow
<1>5. CASE Count(e)
  BY <1>2, <1>4, <1>5, NextType DEF Count
<1>6. CASE CountBye(e)
  <2> DEFINE r == [ev[e] EXCEPT !.pc = "recover", !.id = None]
  <2>1. r \in Eval /\ r.pc = "recover" /\ r.id = None /\ r.list = ev[e].list
    BY <1>2 DEF Eval
  <2>2. ev' = [ev EXCEPT ![e] = r]
    BY <1>1, <1>2, <1>6 DEF CountBye, AlertType, Eval
  <2>3. \A q \in r.list : alert'[q.id] # None
    BY <1>1, <1>2, <1>4, <2>1 DEF Holding, Eval, Recovering
  <2> HIDE DEF r
  <2> QED BY <1>1, <1>2, <1>4, <2>1, <2>2, <2>3, EvalRecord
<1> QED BY <1>5, <1>6

LEMMA ClearedStep ==
  ASSUME Typed, NEW e \in Evaluation, Cleared(e)
  PROVE  Typed'
<1> DEFINE those == {j \in Incident : IsLive(j) /\ alert[j].dev \notin ev[e].bad}
           ListOf(i) == [id |-> i, state |-> alert[i].state, sent |-> alert[i].sent]
           list == {ListOf(i) : i \in those}
           r == [ev[e] EXCEPT !.pc = "recover", !.list = list]
<1>1. AlertType /\ left \in Nat /\ Holding(e)
  BY TypeParts DEF Typed
<1>2. /\ ev[e] \in Eval /\ ev[e].id = None /\ UNCHANGED <<world, devices, alert, left>>
  BY <1>1 DEF Cleared, EvAt, AlertType, Holding
<1>3. \A i \in those : ListOf(i) \in Recovering /\ alert[ListOf(i).id] # None
  <2> SUFFICES ASSUME NEW i \in those
               PROVE  ListOf(i) \in Recovering /\ alert[ListOf(i).id] # None
    OBVIOUS
  <2>1. i \in Incident /\ IsLive(i) /\ alert[i] \in Row
    BY <1>1 DEF IsLive, AlertType
  <2> QED BY <2>1 DEF Recovering, Row, IsLive
<1>4. list \subseteq Recovering /\ \A q \in list : alert[q.id] # None
  BY <1>3
<1>5. ev' = [ev EXCEPT ![e] = r]
  BY <1>1, <1>2 DEF Cleared, AlertType, Eval
<1> HIDE DEF list, those, ListOf
<1>6. r \in Eval /\ r.pc = "recover" /\ r.id = None /\ r.list = list
  BY <1>2, <1>4 DEF Eval
<1>7. \A q \in r.list : alert'[q.id] # None
  BY <1>2, <1>4, <1>6
<1> HIDE DEF r
<1> QED BY <1>1, <1>2, <1>5, <1>6, <1>7, EvalRecord DEF AlertType

LEMMA RecoverStep ==
  ASSUME Typed, NEW e \in Evaluation, NEW r \in ev[e].list, Recover(e, r)
  PROVE  Typed'
<1> DEFINE row == [alert[r.id] EXCEPT !.state = "recovered"]
           tells == r.state # "suppressed" /\ r.sent > 0
           x == [ev[e] EXCEPT !.list = ev[e].list \ {r},
                              !.pc = IF tells THEN "bye" ELSE "recover",
                              !.id = IF tells THEN r.id ELSE None]
<1>1. AlertType /\ left \in Nat /\ Holding(e)
  BY TypeParts DEF Typed
<1>2. /\ ev[e] \in Eval /\ UNCHANGED <<world, devices, left>>
  BY <1>1 DEF Recover, AlertType
<1>3. r \in Recovering /\ r.id \in Incident /\ alert[r.id] # None /\ alert[r.id] \in Row
  BY <1>1, <1>2 DEF Eval, Recovering, Holding, AlertType
<1>4. row \in Row
  BY <1>3 DEF Row
<1>5. alert' = [alert EXCEPT ![r.id] = row]
  BY <1>1, <1>3 DEF Recover, AlertType, Row
<1> HIDE DEF row
<1>6. /\ alert' \in [Incident -> Row \cup {None}]
      /\ \A j \in Incident : alert[j] # None => alert'[j] # None
  BY <1>3, <1>4, <1>5, RowWrite
<1>7. ev' = [ev EXCEPT ![e] = x]
  BY <1>1, <1>2 DEF Recover, AlertType, Eval
<1>8. /\ x \in Eval /\ x.list = ev[e].list \ {r}
      /\ IF tells THEN x.pc = "bye" /\ x.id = r.id ELSE x.pc = "recover" /\ x.id = None
  BY <1>2, <1>3 DEF Eval
<1>9. \A q \in x.list : alert'[q.id] # None
  BY <1>1, <1>2, <1>6, <1>8 DEF Holding, Eval, Recovering
<1>10. r.id # None
  BY <1>3, AlertAssumption
<1> HIDE DEF x, tells
<1>11. /\ x.pc \in {"bye", "recover"} /\ (x.pc = "bye" => x.id = r.id)
       /\ (x.pc = "recover" => x.id = None) /\ (x.id # None => alert'[x.id] # None)
  BY <1>3, <1>6, <1>8
<1> QED BY <1>1, <1>2, <1>6, <1>7, <1>8, <1>9, <1>10, <1>11, EvalRecord

LEMMA TypedStep == Typed /\ [Next]_vars => Typed'
<1> SUFFICES ASSUME Typed, [Next]_vars PROVE Typed'
  OBVIOUS
<1>1. ASSUME NEW d \in Device,
             Change(d) \/ Disable(d) \/ Enable(d) \/ Schedule(d) \/ PollStep(d) \/ PollFails(d)
      PROVE  Typed'
  BY <1>1, DeviceStepType
<1>2. ASSUME NEW i \in Incident, Ack(i) \/ Age(i) PROVE Typed'
  BY <1>2, RowStepType
<1>3. ASSUME NEW e \in Evaluation, EvalStep(e) \/ EvalFails(e) PROVE Typed'
  BY <1>3, BeginStep, FindStep, CheckStep, InsertStep, RefreshStep, LiftStep, SendStep,
     CountStep, ClearedStep, RecoverStep
  DEF EvalStep
<1>4. CASE UNCHANGED vars
  BY <1>4 DEF vars, devices, world, alerts, Typed, TypeOK, Holding
<1> QED BY <1>1, <1>2, <1>3, <1>4 DEF Next

(* Every variable keeps its type: statuses stay statuses, and no incident or
   evaluation gets a value that the code could not have written. *)
THEOREM TypeCorrect == Spec => []TypeOK
<1>1. Init => Typed
  BY InitTyped
<1>2. Typed /\ [Next]_vars => Typed'
  BY TypedStep
<1>3. Typed => TypeOK
  BY DEF Typed
<1> QED BY <1>1, <1>2, <1>3, PTL DEF Spec

-----------------------------------------------------------------------------
(* Outages.  The status is written before the outage is opened and after it is
   closed: between the two statements the status is not yet, or no longer, that
   of a device that answers. *)

Outages ==
  /\ UpHasNoOutage
  /\ \A d \in Device : /\ poll[d].pc = "outage" => status[d] \notin {"up", "degraded"}
                       /\ poll[d].pc = "up" => ~ outage[d]

LEMMA InitOutages == Init => Outages
BY DEF Init, Outages, UpHasNoOutage, NoPoll

LEMMA OutagesStep == Typed /\ Outages /\ [Next]_vars => Outages'
<1> SUFFICES ASSUME Typed, Outages, [Next]_vars PROVE Outages'
  OBVIOUS
<1> USE DEF devices, world, alerts
<1>1. DeviceType
  BY TypeParts DEF Typed
<1>2. CASE UNCHANGED devices
  BY <1>2 DEF Outages, UpHasNoOutage
<1>3. ASSUME NEW d \in Device,
             Disable(d) \/ Enable(d) \/ Schedule(d) \/ PollStep(d) \/ PollFails(d)
      PROVE  Outages'
  <2>1. \A c \in Device \ {d} : UNCHANGED <<poll[c], status[c], outage[c]>>
    BY <1>1, <1>3 DEF Disable, Enable, Schedule, PollStep, PollFails, Read, Window, Skip,
       Ping, MarkDown, OpenOutage, CloseOutages, MarkUp, Verdict, PollGoto, DeviceType
  <2>2. /\ status'[d] \in {"up", "degraded"} => ~ outage'[d]
        /\ poll'[d].pc = "outage" => status'[d] \notin {"up", "degraded"}
        /\ poll'[d].pc = "up" => ~ outage'[d]
    <3> USE <1>1 DEF Outages, UpHasNoOutage, DeviceType, PollAt, PollGoto, Poll
    <3>1. CASE Disable(d) \/ Enable(d)
      BY <3>1 DEF Disable, Enable
    <3>2. CASE Schedule(d) \/ Read(d) \/ Window(d) \/ Skip(d)
      BY <3>2 DEF Schedule, Read, Window, Skip
    <3>3. CASE Ping(d)
      BY <3>3 DEF Ping
    <3>4. CASE MarkDown(d) \/ OpenOutage(d)
      BY <3>4 DEF MarkDown, OpenOutage
    <3>5. CASE CloseOutages(d) \/ MarkUp(d)
      BY <3>5 DEF CloseOutages, MarkUp
    <3>6. CASE Verdict(d)
      BY <3>6 DEF Verdict
    <3>7. CASE PollFails(d)
      BY <3>7 DEF PollFails
    <3> QED BY <1>3, <3>1, <3>2, <3>3, <3>4, <3>5, <3>6, <3>7 DEF PollStep
  <2> QED BY <2>1, <2>2 DEF Outages, UpHasNoOutage
<1>4. ASSUME NEW d \in Device, Change(d) PROVE UNCHANGED devices
  BY <1>4 DEF Change
<1>5. ASSUME NEW i \in Incident, Ack(i) \/ Age(i) PROVE UNCHANGED devices
  BY <1>5 DEF Ack, Age
<1>6. ASSUME NEW e \in Evaluation, EvalStep(e) \/ EvalFails(e) PROVE UNCHANGED devices
  BY <1>6 DEF EvalStep, EvalFails, Snapshot, Maintenance, Dependency, Insert, Refresh, Lift,
     Send, Count, Cleared, Bye, CountBye, Evaluated, Find, Recover
<1> QED BY <1>2, <1>3, <1>4, <1>5, <1>6 DEF Next, vars

(* A device that answers has no open outage, whatever fails between the two
   statements of availability.ts and however operators switch the device off and
   on meanwhile. *)
THEOREM OutagesEnd == Spec => []UpHasNoOutage
<1>1. Init => Typed /\ Outages
  BY InitTyped, InitOutages
<1>2. (Typed /\ Outages) /\ [Next]_vars => (Typed /\ Outages)'
  BY TypedStep, OutagesStep
<1>3. Typed /\ Outages => UpHasNoOutage
  BY DEF Outages
<1> QED BY <1>1, <1>2, <1>3, PTL DEF Spec

==============================================================================
