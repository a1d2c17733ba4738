------------------------------- MODULE MonJobs -------------------------------
(***************************************************************************)
(* The durable job queue of the monitoring layer and the dispatchers that  *)
(* drain it: monitoring.jobs (jobs/queue.ts), one dispatcher per poller    *)
(* node (jobs/dispatcher.ts), and the requests that reach them (poll now,  *)
(* replay, pause).                                                         *)
(*                                                                         *)
(* Every SQL statement is one action, so the interleavings of the nodes,   *)
(* of the ticks and of the executions are those of the program.  Clocks    *)
(* are abstracted to the comparisons the statements make: a row carries    *)
(* `due' (run_at <= now()) and `lease' (lease_until against now()); time   *)
(* passing is an action that flips one of them.                            *)
(***************************************************************************)
EXTENDS Integers, FiniteSets

CONSTANTS
  Node,         \* poller nodes: one server process each
  Job,          \* identities of the rows of monitoring.jobs alive at a time
  Exec,         \* identities of the in-flight promises of claimAndRun
  Device,       \* work with its own due time (poll:<id>, discovery:<id>)
  Single,       \* periodic singleton types (alerts, billing, housekeeping)
  Group,        \* poller groups
  NodeGroup,    \* the configured group of each node
  MaxAttempts,  \* max_attempts of a device job; singletons have 1
  Concurrency,  \* workerConcurrency of every node
  AttemptCap,   \* bound: attempts saturates here, past every max_attempts
  BucketCap,    \* bound: the last time bucket
  Closure,      \* identities of the interval closures of startDispatcher
  Faults,       \* which disturbances of the environment a run allows
  None          \* a value that is no node, no execution and no closure

AllFaults == {"crash", "slow", "dberror", "restart", "pause", "regroup",
              "replay", "pollnow"}

Bucket == 0 .. BucketCap
SingleKey == Single \X Bucket
Key == Device \cup SingleKey          \* the values of dedupe_key

ASSUME JobsAssumption ==
  /\ NodeGroup \in [Node -> Group]
  /\ Key # {} /\ Group # {}
  /\ IsFiniteSet(Job)
  /\ MaxAttempts \in Nat \ {0}
  /\ Concurrency \in Nat
  /\ AttemptCap \in Nat /\ AttemptCap > MaxAttempts
  /\ BucketCap \in Nat
  /\ Faults \subseteq AllFaults
  /\ None \notin Node \cup Job \cup Closure

VARIABLES
  jobs,      \* the rows of monitoring.jobs
  runs,      \* executions in flight, over all nodes
  tick,      \* the state of each interval closure's current tick
  closure,   \* `dispatcher': the closure the interval timer calls, or None
  running,   \* `running': each process's own count of executions
  up,        \* whether the process of a node is alive
  enabled,   \* monitoring.poller_nodes.enabled
  dueDevice, \* next_poll_at <= now()
  devGroup,  \* monitoring.devices.poller_group
  bucket,    \* the current time bucket
  stamped    \* poll-now requests between their UPDATE and their INSERT

vars == <<jobs, runs, tick, closure, running, up, enabled, dueDevice,
          devGroup, bucket, stamped>>

States == {"absent", "pending", "running", "done", "dead"}
Active == {"pending", "running"}
Phases == {"work", "complete", "count", "fail"}
TickPhases == {"idle", "schedule", "check", "claim"}

Row == [state : States, key : Key, group : Group, prio : Nat, attempts : Nat,
        due : BOOLEAN, lockedBy : Node \cup {None},
        lease : {"none", "live", "lapsed"}]

Flight == [job : Job, node : Node, key : Key, attempts : Nat, phase : Phases]

ASSUME FlightAssumption == None \notin Flight

Ticks == [phase : TickPhases, todo : SUBSET (Key \X Group), cap : Nat]

IdleTick == [phase |-> "idle", todo |-> {}, cap |-> 0]

NextAttempt(a) == IF a < AttemptCap THEN a + 1 ELSE a

MaxOf(k) == IF k \in Device THEN MaxAttempts ELSE 1

(* Priorities: lower runs first. *)
OperatorPrio == 5
SinglePrio == 10
DevicePrio == 50

-----------------------------------------------------------------------------
(* State functions *)

InFlight == {x \in Exec : runs[x] # None}
Idle(n, c) == tick[<<n, c>>].phase = "idle"

(* Mutant: the unique index covers the pending rows only. *)
KeyFreeOfPending(k, rows) ==
  \A j \in Job : rows[j].state = "pending" => rows[j].key # k

(* The partial unique index: a second active row of a key is refused. *)
KeyFree(k, rows) ==
  \A j \in Job : rows[j].state \in Active => rows[j].key # k

NewRow(k, g, p) ==
  [state |-> "pending", key |-> k, group |-> g, prio |-> p, attempts |-> 0,
   due |-> TRUE, lockedBy |-> None, lease |-> "none"]

(* No row: its other fields mean nothing. *)
AbsentRow == [NewRow(CHOOSE k \in Key : TRUE, CHOOSE g \in Group : TRUE, 0)
                EXCEPT !.state = "absent", !.due = FALSE]

(* enqueue(): INSERT ... ON CONFLICT DO NOTHING *)
Enqueue(k, g, p) ==
  IF KeyFree(k, jobs)
  THEN \E j \in Job : /\ jobs[j].state = "absent"
                      /\ jobs' = [jobs EXCEPT ![j] = NewRow(k, g, p)]
  ELSE UNCHANGED jobs

Pending(row) == [row EXCEPT !.state = "pending", !.lockedBy = None,
                            !.lease = "none"]

(* What claim() makes of a row. *)
Claimed(row, n) ==
  [row EXCEPT !.state = "running", !.lockedBy = n, !.lease = "live",
              !.attempts = NextAttempt(@)]

(* Mutant: dead-lettered one attempt early. *)
ExhaustedEarly(r) == r.attempts + 1 >= MaxOf(r.key)

(* fail() dead-letters by the attempts its execution was claimed with. *)
Exhausted(r) == r.attempts >= MaxOf(r.key)

(* Mutants of the reaper's condition: the leases that have not lapsed, and  *)
(* every running row.                                                       *)
LapsedBackwards(j) == jobs[j].state = "running" /\ jobs[j].lease = "live"
LapsedOrNot(j) == jobs[j].state = "running"

(* The rows reapExpiredLeases() returns to pending. *)
Lapsed(j) == jobs[j].state = "running" /\ jobs[j].lease = "lapsed"

(* Mutant: only rows nobody has attempted yet. *)
ClaimableOnce(n) ==
  {j \in Job : /\ jobs[j].state = "pending" /\ jobs[j].due
               /\ jobs[j].attempts = 0
               /\ jobs[j].group = NodeGroup[n] \/ jobs[j].key \in SingleKey}

Claimable(n) ==
  {j \in Job : /\ jobs[j].state = "pending" /\ jobs[j].due
               /\ jobs[j].group = NodeGroup[n] \/ jobs[j].key \in SingleKey}

(* What ORDER BY priority LIMIT cap may select for node n. *)
Batch(n, cap) ==
  {S \in SUBSET Claimable(n) :
     /\ Cardinality(S) <= cap
     /\ Cardinality(S) < cap => S = Claimable(n)
     /\ \A i \in S, j \in Claimable(n) \ S : jobs[i].prio <= jobs[j].prio}

-----------------------------------------------------------------------------
Init ==
  /\ jobs = [j \in Job |-> AbsentRow]
  /\ runs = [x \in Exec |-> None]
  /\ tick = [nc \in Node \X Closure |-> IdleTick]
  /\ closure = [n \in Node |-> None]
  /\ running = [n \in Node |-> 0]
  /\ up = [n \in Node |-> TRUE]
  /\ enabled = [n \in Node |-> TRUE]
  /\ dueDevice = Device
  /\ devGroup \in [Device -> Group]
  /\ bucket = 0
  /\ stamped = {}

-----------------------------------------------------------------------------
(* The dispatcher of node n *)

(* startDispatcher(): a second call is ignored; the interval calls a fresh *)
(* closure with its own tickRunning flag.  `enabled' is left alone.        *)
StartDispatcher(n) ==
  /\ up[n] /\ closure[n] = None
  /\ \E c \in Closure : Idle(n, c) /\ closure' = [closure EXCEPT ![n] = c]
  /\ UNCHANGED <<jobs, runs, tick, running, up, enabled, dueDevice, devGroup,
                 bucket, stamped>>

(* stopDispatcher(): the timer is cleared; a tick in flight runs on. *)
StopDispatcher(n) ==
  /\ "restart" \in Faults
  /\ closure[n] # None
  /\ closure' = [closure EXCEPT ![n] = None]
  /\ UNCHANGED <<jobs, runs, tick, running, up, enabled, dueDevice, devGroup,
                 bucket, stamped>>

(* The interval fires and tickRunning is false: the due work is read. *)
TickStart(n, c) ==
  /\ closure[n] = c /\ Idle(n, c)
  /\ tick' = [tick EXCEPT ![<<n, c>>] =
       [phase |-> "schedule", cap |-> 0,
        todo |-> {<<d, devGroup[d]>> : d \in dueDevice}
                   \cup {<<<<s, bucket>>, NodeGroup[n]>> : s \in Single}]]
  /\ UNCHANGED <<jobs, runs, closure, running, up, enabled, dueDevice,
                 devGroup, bucket, stamped>>

(* scheduleDueWork(): one enqueue per key read, devices before singletons. *)
Schedule(n, c) ==
  LET t == tick[<<n, c>>] IN
  /\ t.phase = "schedule"
  /\ \E kg \in t.todo :
       /\ kg[1] \in SingleKey => \A o \in t.todo : o[1] \in SingleKey
       /\ Enqueue(kg[1], kg[2],
                  IF kg[1] \in Device THEN DevicePrio ELSE SinglePrio)
       /\ tick' = [tick EXCEPT ![<<n, c>>].todo = @ \ {kg}]
  /\ UNCHANGED <<runs, closure, running, up, enabled, dueDevice, devGroup,
                 bucket, stamped>>

(* reapExpiredLeases(), for every node's rows at once. *)
Reap(n, c) ==
  /\ tick[<<n, c>>].phase = "schedule" /\ tick[<<n, c>>].todo = {}
  /\ jobs' = [j \in Job |-> IF Lapsed(j) THEN Pending(jobs[j]) ELSE jobs[j]]
  /\ tick' = [tick EXCEPT ![<<n, c>>].phase = "check"]
  /\ UNCHANGED <<runs, closure, running, up, enabled, dueDevice, devGroup,
                 bucket, stamped>>

(* Mutants: the claim takes up to the whole concurrency, whatever runs      *)
(* already; the pause flag is not read.                                     *)
CheckPauseOnly(n, c) ==
  /\ tick[<<n, c>>].phase = "check"
  /\ tick' = [tick EXCEPT ![<<n, c>>] =
       IF enabled[n]
       THEN [phase |-> "claim", todo |-> {}, cap |-> Concurrency] ELSE IdleTick]
  /\ UNCHANGED <<jobs, runs, closure, running, up, enabled, dueDevice,
                 devGroup, bucket, stamped>>

CheckCapacityOnly(n, c) ==
  /\ tick[<<n, c>>].phase = "check"
  /\ tick' = [tick EXCEPT ![<<n, c>>] =
       IF running[n] < Concurrency
       THEN [phase |-> "claim", todo |-> {}, cap |-> Concurrency - running[n]]
       ELSE IdleTick]
  /\ UNCHANGED <<jobs, runs, closure, running, up, enabled, dueDevice,
                 devGroup, bucket, stamped>>

(* claimAndRun() up to the claim: the capacity and the pause flag are read. *)
Check(n, c) ==
  /\ tick[<<n, c>>].phase = "check"
  /\ tick' = [tick EXCEPT ![<<n, c>>] =
       IF running[n] < Concurrency /\ enabled[n]
       THEN [phase |-> "claim", todo |-> {}, cap |-> Concurrency - running[n]]
       ELSE IdleTick]
  /\ UNCHANGED <<jobs, runs, closure, running, up, enabled, dueDevice,
                 devGroup, bucket, stamped>>

(* claim() and the loop that starts an execution for every row it returned. *)
Claim(n, c) ==
  /\ tick[<<n, c>>].phase = "claim"
  /\ \E S \in Batch(n, tick[<<n, c>>].cap) :
     \E at \in [S -> Exec \ InFlight] :
       /\ \A i, j \in S : at[i] = at[j] => i = j
       /\ jobs' = [j \in Job |->
            IF j \in S
            THEN Claimed(jobs[j], n)
            ELSE jobs[j]]
       /\ runs' = [x \in Exec |->
            IF \E j \in S : at[j] = x
            THEN LET j == CHOOSE j \in S : at[j] = x IN
                 [job |-> j, node |-> n, key |-> jobs[j].key,
                  attempts |-> NextAttempt(jobs[j].attempts), phase |-> "work"]
            ELSE runs[x]]
       /\ running' = [running EXCEPT ![n] = @ + Cardinality(S)]
  /\ tick' = [tick EXCEPT ![<<n, c>>] = IdleTick]
  /\ UNCHANGED <<closure, up, enabled, dueDevice, devGroup, bucket, stamped>>

(* A statement of the tick throws: logged, and the tick ends. *)
TickFails(n, c) ==
  /\ "dberror" \in Faults
  /\ ~Idle(n, c)
  /\ tick' = [tick EXCEPT ![<<n, c>>] = IdleTick]
  /\ UNCHANGED <<jobs, runs, closure, running, up, enabled, dueDevice,
                 devGroup, bucket, stamped>>

-----------------------------------------------------------------------------
(* Executions: the promise chain claimAndRun attaches to every claimed job *)

Land(x) ==   \* .finally(() => running--)
  /\ runs' = [runs EXCEPT ![x] = None]
  /\ running' = [running EXCEPT ![runs[x].node] = @ - 1]

Goto(x, phase) ==
  /\ runs' = [runs EXCEPT ![x].phase = phase]
  /\ UNCHANGED running

(* The engine returns; runPoll's last statement moves next_poll_at on. *)
EngineReturns(x) ==
  /\ runs[x] # None /\ runs[x].phase = "work"
  /\ Goto(x, "complete")
  /\ dueDevice' = dueDevice \ {runs[x].key}
  /\ UNCHANGED <<jobs, tick, closure, up, enabled, devGroup, bucket, stamped>>

(* executeJob() throws (a lost device, a database error). *)
EngineThrows(x) ==
  /\ "dberror" \in Faults
  /\ runs[x] # None /\ runs[x].phase = "work"
  /\ Goto(x, "fail")
  /\ UNCHANGED <<jobs, tick, closure, up, enabled, dueDevice, devGroup,
                 bucket, stamped>>

(* complete(): WHERE id = $1, whatever the row's state and owner. *)
Complete(x) ==
  /\ runs[x] # None /\ runs[x].phase = "complete"
  /\ LET j == runs[x].job IN
     jobs' = IF jobs[j].state = "absent" THEN jobs
             ELSE [jobs EXCEPT ![j].state = "done", ![j].lease = "none"]
  /\ Goto(x, "count")
  /\ UNCHANGED <<tick, closure, up, enabled, dueDevice, devGroup, bucket,
                 stamped>>

(* The jobs_completed counter is written and the chain ends. *)
Count(x) ==
  /\ runs[x] # None /\ runs[x].phase = "count"
  /\ Land(x)
  /\ UNCHANGED <<jobs, tick, closure, up, enabled, dueDevice, devGroup,
                 bucket, stamped>>

(* complete() or the counter throws: .catch() then fails the job. *)
CompletionThrows(x) ==
  /\ "dberror" \in Faults
  /\ runs[x] # None /\ runs[x].phase \in {"complete", "count"}
  /\ Goto(x, "fail")
  /\ UNCHANGED <<jobs, tick, closure, up, enabled, dueDevice, devGroup,
                 bucket, stamped>>

(* fail(): dead-letter or retry, by the attempts read at claim time and not *)
(* fenced by the row's state or owner; the retry is refused (23505) when    *)
(* another row of the key is active and this one is not.                    *)
Fail(x) ==
  LET r == runs[x]
      row == jobs[r.job]
  IN
  /\ r # None /\ r.phase = "fail"
  /\ jobs' =
       IF row.state = "absent" THEN jobs
       ELSE IF Exhausted(r)
       THEN [jobs EXCEPT ![r.job].state = "dead", ![r.job].lease = "none"]
       ELSE IF row.state \in Active \/ KeyFree(r.key, jobs)
       THEN [jobs EXCEPT ![r.job] = [Pending(row) EXCEPT !.due = FALSE]]
       ELSE jobs
  /\ Land(x)
  /\ UNCHANGED <<tick, closure, up, enabled, dueDevice, devGroup, bucket,
                 stamped>>

(* fail() itself throws: the row stays running until its lease lapses. *)
FailThrows(x) ==
  /\ "dberror" \in Faults
  /\ runs[x] # None /\ runs[x].phase = "fail"
  /\ Land(x)
  /\ UNCHANGED <<jobs, tick, closure, up, enabled, dueDevice, devGroup,
                 bucket, stamped>>

-----------------------------------------------------------------------------
(* Operators *)

(* PUT pollers/:id *)
SetEnabled(n) ==
  /\ "pause" \in Faults
  /\ enabled' = [enabled EXCEPT ![n] = ~@]
  /\ UNCHANGED <<jobs, runs, tick, closure, running, up, dueDevice, devGroup,
                 bucket, stamped>>

(* POST devices/:id/poll, its two statements: stamp the device ... *)
PollNowStamp(d) ==
  /\ "pollnow" \in Faults
  /\ d \notin {dg[1] : dg \in stamped}
  /\ dueDevice' = dueDevice \cup {d}
  /\ stamped' = stamped \cup {<<d, devGroup[d]>>}
  /\ UNCHANGED <<jobs, runs, tick, closure, running, up, enabled, devGroup,
                 bucket>>

(* ... then enqueue, and answer queued: true. *)
PollNowEnqueue(d, g) ==
  /\ <<d, g>> \in stamped
  /\ stamped' = stamped \ {<<d, g>>}
  /\ Enqueue(d, g, OperatorPrio)
  /\ UNCHANGED <<runs, tick, closure, running, up, enabled, dueDevice,
                 devGroup, bucket>>

(* replayJob(): 'conflict' when a newer row of the key is active. *)
Replay(j) ==
  /\ "replay" \in Faults
  /\ jobs[j].state \in {"dead", "pending"}
  /\ jobs[j].state = "pending" \/ KeyFree(jobs[j].key, jobs)
  /\ jobs' = [jobs EXCEPT ![j] =
       [Pending(jobs[j]) EXCEPT !.attempts = 0, !.due = TRUE,
          !.group = IF jobs[j].key \in Device
                    THEN devGroup[jobs[j].key] ELSE jobs[j].group]]
  /\ UNCHANGED <<runs, tick, closure, running, up, enabled, dueDevice,
                 devGroup, bucket, stamped>>

(* A device is moved to another poller group; its queued job is not. *)
Regroup(d, g) ==
  /\ "regroup" \in Faults
  /\ devGroup[d] # g
  /\ devGroup' = [devGroup EXCEPT ![d] = g]
  /\ UNCHANGED <<jobs, runs, tick, closure, running, up, enabled, dueDevice,
                 bucket, stamped>>

-----------------------------------------------------------------------------
(* The environment: processes and time *)

Crash(n) ==
  /\ "crash" \in Faults
  /\ up[n]
  /\ up' = [up EXCEPT ![n] = FALSE]
  /\ runs' = [x \in Exec |->
               IF x \in InFlight /\ runs[x].node = n THEN None ELSE runs[x]]
  /\ running' = [running EXCEPT ![n] = 0]
  /\ closure' = [closure EXCEPT ![n] = None]
  /\ tick' = [nc \in Node \X Closure |->
               IF nc[1] = n THEN IdleTick ELSE tick[nc]]
  /\ UNCHANGED <<jobs, enabled, dueDevice, devGroup, bucket, stamped>>

Restart(n) ==
  /\ ~up[n]
  /\ up' = [up EXCEPT ![n] = TRUE]
  /\ UNCHANGED <<jobs, runs, tick, closure, running, enabled, dueDevice,
                 devGroup, bucket, stamped>>

(* lease_until passes.  A lease is 600 s and never renewed; unless "slow"   *)
(* is allowed, an execution in flight is taken to end within its lease.     *)
LeaseLapses(j) ==
  /\ jobs[j].state = "running" /\ jobs[j].lease = "live"
  /\ "slow" \in Faults \/ \A x \in InFlight : runs[x].job # j
  /\ jobs' = [jobs EXCEPT ![j].lease = "lapsed"]
  /\ UNCHANGED <<runs, tick, closure, running, up, enabled, dueDevice,
                 devGroup, bucket, stamped>>

(* The backoff of a retried job elapses. *)
BackoffElapses(j) ==
  /\ jobs[j].state = "pending" /\ ~jobs[j].due
  /\ jobs' = [jobs EXCEPT ![j].due = TRUE]
  /\ UNCHANGED <<runs, tick, closure, running, up, enabled, dueDevice,
                 devGroup, bucket, stamped>>

(* next_poll_at passes. *)
DeviceDue(d) ==
  /\ d \notin dueDevice
  /\ dueDevice' = dueDevice \cup {d}
  /\ UNCHANGED <<jobs, runs, tick, closure, running, up, enabled, devGroup,
                 bucket, stamped>>

NextBucket ==
  /\ bucket < BucketCap
  /\ bucket' = bucket + 1
  /\ UNCHANGED <<jobs, runs, tick, closure, running, up, enabled, dueDevice,
                 devGroup, stamped>>

(* trimFinishedJobs(): done rows only, days after the last execution of the *)
(* row has ended; the identity may then stand for a new row.                *)
Trim(j) ==
  /\ jobs[j].state = "done"
  /\ \A x \in InFlight : runs[x].job # j
  /\ jobs' = [jobs EXCEPT ![j] = AbsentRow]
  /\ UNCHANGED <<runs, tick, closure, running, up, enabled, dueDevice,
                 devGroup, bucket, stamped>>

-----------------------------------------------------------------------------
TickStep(n, c) == \/ TickStart(n, c) \/ Schedule(n, c) \/ Reap(n, c)
                  \/ Check(n, c) \/ Claim(n, c)

ExecStep(x) == EngineReturns(x) \/ Complete(x) \/ Count(x) \/ Fail(x)

Next ==
  \/ \E n \in Node : StartDispatcher(n) \/ StopDispatcher(n)
  \/ \E n \in Node, c \in Closure : TickStep(n, c) \/ TickFails(n, c)
  \/ \E x \in Exec : \/ ExecStep(x) \/ EngineThrows(x)
                      \/ CompletionThrows(x) \/ FailThrows(x)
  \/ \E n \in Node : SetEnabled(n) \/ Crash(n) \/ Restart(n)
  \/ \E d \in Device : PollNowStamp(d) \/ DeviceDue(d)
  \/ \E d \in Device, g \in Group : PollNowEnqueue(d, g) \/ Regroup(d, g)
  \/ \E j \in Job : \/ Replay(j) \/ LeaseLapses(j) \/ BackoffElapses(j)
                     \/ Trim(j)
  \/ NextBucket

Spec == Init /\ [][Next]_vars

(* Fairness: setInterval keeps calling the closure of a running process and *)
(* promises settle; time passes.  Nothing is promised for a crashed node.   *)
Fairness ==
  /\ \A n \in Node : WF_vars(StartDispatcher(n))
  /\ \A n \in Node, c \in Closure : WF_vars(TickStep(n, c))
  /\ \A x \in Exec : WF_vars(ExecStep(x))
  /\ \A j \in Job : WF_vars(LeaseLapses(j)) /\ WF_vars(BackoffElapses(j))
  /\ \A j \in Job : WF_vars(Trim(j))

FairSpec == Spec /\ Fairness

-----------------------------------------------------------------------------
(* Types *)

(* Every variable holds values of its kind. *)
TypeOK ==
  /\ jobs \in [Job -> Row]
  /\ runs \in [Exec -> Flight \cup {None}]
  /\ tick \in [Node \X Closure -> Ticks]
  /\ closure \in [Node -> Closure \cup {None}]
  /\ running \in [Node -> Int]
  /\ up \in [Node -> BOOLEAN]
  /\ enabled \in [Node -> BOOLEAN]
  /\ dueDevice \subseteq Device
  /\ devGroup \in [Device -> Group]
  /\ bucket \in Bucket
  /\ stamped \subseteq Device \X Group

(* The partial unique index over the pending and running rows.              *)
KeyUnique ==
  \A i, j \in Job :
    (/\ jobs[i].state \in Active /\ jobs[j].state \in Active
     /\ jobs[i].key = jobs[j].key) => i = j

(* A row is in the hands of at most one execution at a time.                *)
OneRunPerRow ==
  \A x, y \in InFlight : runs[x].job = runs[y].job => x = y

(* An execution owns its row until it ends: the row is running under that   *)
(* execution's node, attempt and a live lease, or this execution completed  *)
(* it.  This is what makes complete() and fail(), which fence neither the   *)
(* state nor the owner, harmless while no execution outlives its lease.     *)
OwnsRow ==
  \A x \in InFlight :
    LET row == jobs[runs[x].job] IN
      /\ row.key = runs[x].key
      /\ \/ /\ row.state = "running" /\ row.lease = "live"
            /\ row.lockedBy = runs[x].node
            /\ row.attempts = runs[x].attempts
         \/ row.state = "done" /\ runs[x].phase \in {"count", "fail"}

QueueInv == TypeOK /\ KeyUnique /\ OneRunPerRow /\ OwnsRow

(* jobs/queue.ts:4-9 and dispatcher.ts:15-18: the instances cooperate       *)
(* without double-running work.  No two executions, on one node or on two,  *)
(* work on the same key (the same device, the same singleton bucket).       *)
NoDoubleRun ==
  \A x, y \in InFlight :
    (/\ runs[x].key = runs[y].key
     /\ runs[x].phase = "work" /\ runs[y].phase = "work") => x = y

(* Crash recovery never loses a row: a running row always has a lease that  *)
(* the reaper can see lapse, so no claim is held by nobody for ever.        *)
RunningIsLeased ==
  \A j \in Job : jobs[j].state = "running" =>
    jobs[j].lease # "none" /\ jobs[j].lockedBy \in Node

(* dispatcher.ts:131-158: `running' counts the executions in flight, and    *)
(* the capacity computed from it caps them (NUXT_MONITORING_WORKER_         *)
(* CONCURRENCY), also across a claim that was computed several awaits ago.  *)
CapacityRespected ==
  \A n \in Node :
    /\ running[n] = Cardinality({x \in InFlight : runs[x].node = n})
    /\ running[n] <= Concurrency

(* queue.ts:79: a row is dead-lettered only after max_attempts attempts.    *)
DeadIsExhausted ==
  \A j \in Job : jobs[j].state = "dead" => jobs[j].attempts >= MaxOf(jobs[j].key)

(* A node that from some point on stays up, enabled and dispatching. *)
Serving(n) == up[n] /\ enabled[n] /\ closure[n] # None

(* queue.ts:6-8: a crashed worker's jobs are reaped.  While some node stays *)
(* dispatching, a claimed row does not stay claimed: it is completed,       *)
(* failed, or returned to the queue, whoever crashed with it.               *)
ClaimsEnd ==
  (\E n \in Node : <>[](up[n] /\ closure[n] # None)) =>
    \A j \in Job : jobs[j].state = "running" ~> jobs[j].state # "running"

(* A due device is polled, whichever node crashes or is paused, as long as  *)
(* one node of its group keeps serving and no node crashes for ever (one in *)
(* a crash loop can claim the row each time before the others).             *)
DuePolled ==
  (\A n \in Node : <>[](up[n]) \/ <>[](~up[n])) =>
  \A d \in Device :
    (\E n \in Node : <>[](Serving(n) /\ NodeGroup[n] = devGroup[d]))
      => (d \in dueDevice ~> d \notin dueDevice)

(* A paused node finishes what it holds and then stays idle (the pause of   *)
(* pollers/[id]/index.put.ts), the claim already past its check included.   *)
PauseDrains ==
  \A n \in Node : <>[](~enabled[n]) => <>[](running[n] = 0)

-----------------------------------------------------------------------------
(* The refinement *)

ItemOf(k) ==
  IF \E j \in Job : jobs[j].key = k /\ jobs[j].state = "running" THEN "held"
  ELSE IF \E j \in Job : jobs[j].key = k /\ jobs[j].state = "pending"
  THEN "queued" ELSE "idle"

WorkersOf(k) == {x \in InFlight : runs[x].key = k /\ runs[x].phase = "work"}

Queue == INSTANCE JobQueue WITH
  Item <- Key, Worker <- Exec,
  item <- [k \in Key |-> ItemOf(k)], busy <- [k \in Key |-> WorkersOf(k)]

(* The table, its unfenced UPDATEs, the reaper and the dispatchers of all   *)
(* nodes together implement a queue whose items are each worked on by at    *)
(* most one execution and never dropped while they wait (queue.ts:4-9).     *)
ImplementsQueue == Queue!Spec

=============================================================================
