--------------------------- MODULE MonJobs_proofs ---------------------------
(***************************************************************************)
(* Proofs about the job queue for every number of nodes, rows, executions, *)
(* devices and groups: its types, and that no key is ever worked on twice  *)
(* at a time as long as no execution outlives its lease.                   *)
(***************************************************************************)
EXTENDS MonJobs, FiniteSetTheorems, TLAPS

(* The record an action builds for a row is a row.                          *)
LEMMA NewRowType ==
  ASSUME NEW k \in Key, NEW g \in Group, NEW p \in Nat
  PROVE  NewRow(k, g, p) \in Row
BY DEF NewRow, Row, States

LEMMA AbsentRowType == AbsentRow \in Row
<1>1. (CHOOSE k \in Key : TRUE) \in Key /\ (CHOOSE g \in Group : TRUE) \in Group
  BY JobsAssumption
<1>2. NewRow(CHOOSE k \in Key : TRUE, CHOOSE g \in Group : TRUE, 0) \in Row
  BY <1>1, NewRowType
<1> QED BY <1>2 DEF AbsentRow, Row, States

LEMMA PendingType ==
  ASSUME NEW row \in Row
  PROVE  Pending(row) \in Row
BY DEF Pending, Row, States

(* enqueue() leaves the table alone or fills one absent row, and only when  *)
(* the key has no active row.                                               *)
LEMMA EnqueueEffect ==
  ASSUME TypeOK, NEW k \in Key, NEW g \in Group, NEW p \in Nat, Enqueue(k, g, p)
  PROVE  /\ jobs' \in [Job -> Row]
         /\ \/ jobs' = jobs
            \/ /\ KeyFree(k, jobs)
               /\ \E j \in Job : /\ jobs[j].state = "absent"
                                 /\ jobs' = [jobs EXCEPT ![j] = NewRow(k, g, p)]
<1>1. NewRow(k, g, p) \in Row
  BY NewRowType
<1> QED BY <1>1 DEF Enqueue, TypeOK

-----------------------------------------------------------------------------
(* Every step keeps the types. *)
LEMMA TypeStep == TypeOK /\ [Next]_vars => TypeOK'
<1> SUFFICES ASSUME TypeOK, [Next]_vars PROVE TypeOK'
  OBVIOUS
<1>1. ASSUME NEW n \in Node, StartDispatcher(n) PROVE TypeOK'
  BY <1>1 DEF StartDispatcher, TypeOK
<1>2. ASSUME NEW n \in Node, StopDispatcher(n) PROVE TypeOK'
  BY <1>2 DEF StopDispatcher, TypeOK
<1>3. ASSUME NEW n \in Node, NEW c \in Closure, TickStart(n, c) PROVE TypeOK'
  <2> DEFINE todo == {<<d, devGroup[d]>> : d \in dueDevice}
                 \cup {<<<<s, bucket>>, NodeGroup[n]>> : s \in Single}
  <2>1. todo \subseteq Key \X Group
    BY JobsAssumption DEF TypeOK, Key, SingleKey
  <2>2. [phase |-> "schedule", cap |-> 0, todo |-> todo] \in Ticks
    BY <2>1 DEF Ticks, TickPhases
  <2>3. tick' = [tick EXCEPT ![<<n, c>>] =
                   [phase |-> "schedule", cap |-> 0, todo |-> todo]]
    BY <1>3 DEF TickStart
  <2> HIDE DEF todo
  <2> QED BY <1>3, <2>2, <2>3 DEF TickStart, TypeOK
<1>4. ASSUME NEW n \in Node, NEW c \in Closure, Schedule(n, c) PROVE TypeOK'
  <2>1. PICK kg \in tick[<<n, c>>].todo :
          /\ Enqueue(kg[1], kg[2],
                     IF kg[1] \in Device THEN DevicePrio ELSE SinglePrio)
          /\ tick' = [tick EXCEPT ![<<n, c>>].todo = @ \ {kg}]
    BY <1>4 DEF Schedule
  <2>2. kg[1] \in Key /\ kg[2] \in Group
    BY DEF TypeOK, Ticks
  <2>3. jobs' \in [Job -> Row]
    BY <2>1, <2>2, EnqueueEffect DEF DevicePrio, SinglePrio
  <2>4. tick' \in [Node \X Closure -> Ticks]
    BY <2>1 DEF TypeOK, Ticks
  <2> QED BY <1>4, <2>3, <2>4 DEF Schedule, TypeOK
<1>5. ASSUME NEW n \in Node, NEW c \in Closure, Reap(n, c) PROVE TypeOK'
  BY <1>5, PendingType DEF Reap, TypeOK, Ticks, TickPhases
<1>6. ASSUME NEW n \in Node, NEW c \in Closure, Check(n, c) PROVE TypeOK'
  <2>1. tick' \in [Node \X Closure -> Ticks]
    BY <1>6, JobsAssumption DEF Check, TypeOK, Ticks, TickPhases, IdleTick
  <2> QED BY <1>6, <2>1 DEF Check, TypeOK
<1>7. ASSUME NEW n \in Node, NEW c \in Closure, Claim(n, c) PROVE TypeOK'
  <2>1. PICK S \in Batch(n, tick[<<n, c>>].cap) : \E at \in [S -> Exec \ InFlight] :
          /\ jobs' = [j \in Job |->
               IF j \in S
               THEN Claimed(jobs[j], n)
               ELSE jobs[j]]
          /\ runs' = [x \in Exec |->
               IF \E j \in S : at[j] = x
               THEN LET j == CHOOSE j \in S : at[j] = x IN
                    [job |-> j, node |-> n, key |-> jobs[j].key,
                     attempts |-> NextAttempt(jobs[j].attempts), phase |-> "work"]
               ELSE runs[x]]
          /\ running' = [running EXCEPT ![n] = @ + Cardinality(S)]
    BY <1>7 DEF Claim
  <2>2. S \subseteq Job
    BY DEF Batch, Claimable
  <2>3. Cardinality(S) \in Nat
    BY <2>2, JobsAssumption, FS_Subset, FS_CardinalityType
  <2>4. \A a \in Nat : NextAttempt(a) \in Nat
    BY JobsAssumption DEF NextAttempt
  <2>5. jobs' \in [Job -> Row]
    <3> SUFFICES ASSUME NEW j \in Job PROVE jobs'[j] \in Row
      BY <2>1
    <3>1. jobs[j] \in Row /\ jobs[j].attempts \in Nat
      BY DEF TypeOK, Row
    <3>2. Claimed(jobs[j], n) \in Row
      BY <3>1, <2>4 DEF Claimed, Row, States
    <3> QED BY <2>1, <3>1, <3>2
  <2>6. runs' \in [Exec -> Flight \cup {None}]
    <3> SUFFICES ASSUME NEW x \in Exec PROVE runs'[x] \in Flight \cup {None}
      BY <2>1
    <3>1. PICK at \in [S -> Exec \ InFlight] :
            runs'[x] = IF \E j \in S : at[j] = x
               THEN LET j == CHOOSE j \in S : at[j] = x IN
                    [job |-> j, node |-> n, key |-> jobs[j].key,
                     attempts |-> NextAttempt(jobs[j].attempts), phase |-> "work"]
               ELSE runs[x]
      BY <2>1
    <3>2. CASE \E j \in S : at[j] = x
      <4> DEFINE i == CHOOSE j \in S : at[j] = x
      <4>1. i \in S
        BY <3>2
      <4>2. i \in Job /\ jobs[i] \in Row
        BY <4>1, <2>2 DEF TypeOK
      <4>3. runs'[x] = [job |-> i, node |-> n, key |-> jobs[i].key,
              attempts |-> NextAttempt(jobs[i].attempts), phase |-> "work"]
        BY <3>1, <3>2
      <4> HIDE DEF i
      <4> QED BY <4>2, <4>3, <2>4 DEF Row, Flight, Phases
    <3>3. CASE ~ \E j \in S : at[j] = x
      BY <3>1, <3>3 DEF TypeOK
    <3> QED BY <3>2, <3>3
  <2>7. running' \in [Node -> Int]
    <3>1. running' = [running EXCEPT ![n] = running[n] + Cardinality(S)]
      BY <2>1
    <3>2. running[n] + Cardinality(S) \in Int
      BY <2>3 DEF TypeOK
    <3> QED BY <3>1, <3>2 DEF TypeOK
  <2>8. tick' \in [Node \X Closure -> Ticks]
    BY <1>7 DEF Claim, TypeOK, Ticks, TickPhases, IdleTick
  <2> QED BY <1>7, <2>5, <2>6, <2>7, <2>8 DEF Claim, TypeOK
<1>8. ASSUME NEW n \in Node, NEW c \in Closure, TickFails(n, c) PROVE TypeOK'
  BY <1>8 DEF TickFails, TypeOK, Ticks, TickPhases, IdleTick
<1>9. ASSUME NEW x \in Exec, EngineReturns(x) \/ EngineThrows(x)
                                \/ CompletionThrows(x)
      PROVE TypeOK'
  <2>1. runs[x] \in Flight
    BY <1>9 DEF EngineReturns, EngineThrows, CompletionThrows, TypeOK
  <2>2. \A p \in Phases : [runs EXCEPT ![x].phase = p] \in [Exec -> Flight \cup {None}]
    BY <2>1 DEF TypeOK, Flight
  <2>3. "complete" \in Phases /\ "fail" \in Phases
    BY DEF Phases
  <2>4. runs' \in [Exec -> Flight \cup {None}]
    BY <1>9, <2>2, <2>3 DEF EngineReturns, EngineThrows, CompletionThrows, Goto
  <2> QED BY <1>9, <2>4
          DEF EngineReturns, EngineThrows, CompletionThrows, Goto, TypeOK
<1>10. ASSUME NEW x \in Exec, Complete(x) PROVE TypeOK'
  <2>1. runs[x] \in Flight
    BY <1>10 DEF Complete, TypeOK
  <2>2. runs' \in [Exec -> Flight \cup {None}]
    BY <1>10, <2>1 DEF Complete, Goto, TypeOK, Flight, Phases
  <2>3. jobs' \in [Job -> Row]
    <3> DEFINE j == runs[x].job
    <3>1. j \in Job /\ jobs[j] \in Row
      BY <2>1 DEF TypeOK, Flight
    <3>2. [jobs[j] EXCEPT !.state = "done", !.lease = "none"] \in Row
      BY <3>1 DEF Row, States
    <3>3. \/ jobs' = jobs
          \/ jobs' = [jobs EXCEPT ![j] = [jobs[j] EXCEPT !.state = "done", !.lease = "none"]]
      BY <1>10 DEF Complete
    <3> QED BY <3>1, <3>2, <3>3 DEF TypeOK
  <2>4. UNCHANGED <<running, tick, closure, up, enabled, dueDevice, devGroup,
                    bucket, stamped>>
    BY <1>10 DEF Complete, Goto
  <2> QED BY <2>2, <2>3, <2>4 DEF TypeOK
<1>11. ASSUME NEW x \in Exec, Count(x) \/ Fail(x) \/ FailThrows(x) PROVE TypeOK'
  <2>1. runs[x] \in Flight /\ Land(x)
    BY <1>11 DEF Count, Fail, FailThrows, TypeOK
  <2>2. runs' \in [Exec -> Flight \cup {None}] /\ running' \in [Node -> Int]
    BY <2>1 DEF Land, TypeOK, Flight
  <2>3. jobs[runs[x].job] \in Row
    BY <2>1 DEF TypeOK, Flight
  <2>4. Pending(jobs[runs[x].job]) \in Row
    BY <2>3, PendingType
  <2>5. [Pending(jobs[runs[x].job]) EXCEPT !.due = FALSE] \in Row
    BY <2>4 DEF Row
  <2>6. [jobs EXCEPT ![runs[x].job].state = "dead", ![runs[x].job].lease = "none"]
          \in [Job -> Row]
    BY <2>3 DEF Row, States, TypeOK
  <2>7. jobs' \in [Job -> Row]
    BY <1>11, <2>5, <2>6 DEF Count, Fail, FailThrows, TypeOK
  <2> QED BY <1>11, <2>2, <2>7 DEF Count, Fail, FailThrows, TypeOK
<1>12. ASSUME NEW n \in Node, SetEnabled(n) PROVE TypeOK'
  BY <1>12 DEF SetEnabled, TypeOK
<1>13. ASSUME NEW n \in Node, Crash(n) PROVE TypeOK'
  BY <1>13 DEF Crash, TypeOK, IdleTick, Ticks, TickPhases
<1>14. ASSUME NEW n \in Node, Restart(n) PROVE TypeOK'
  BY <1>14 DEF Restart, TypeOK
<1>15. ASSUME NEW d \in Device, PollNowStamp(d) \/ DeviceDue(d) PROVE TypeOK'
  BY <1>15 DEF PollNowStamp, DeviceDue, TypeOK
<1>16. ASSUME NEW d \in Device, NEW g \in Group, PollNowEnqueue(d, g) PROVE TypeOK'
  <2>1. jobs' \in [Job -> Row]
    BY <1>16, EnqueueEffect DEF PollNowEnqueue, OperatorPrio, Key
  <2> QED BY <1>16, <2>1 DEF PollNowEnqueue, TypeOK
<1>17. ASSUME NEW d \in Device, NEW g \in Group, Regroup(d, g) PROVE TypeOK'
  BY <1>17 DEF Regroup, TypeOK
<1>18. ASSUME NEW j \in Job, Replay(j) PROVE TypeOK'
  <2>1. Pending(jobs[j]) \in Row
    BY PendingType DEF TypeOK
  <2> DEFINE g == IF jobs[j].key \in Device THEN devGroup[jobs[j].key]
                  ELSE jobs[j].group
  <2>2. g \in Group
    BY <2>1 DEF TypeOK, Row
  <2>3. jobs' = [jobs EXCEPT ![j] = [Pending(jobs[j]) EXCEPT
                   !.attempts = 0, !.due = TRUE, !.group = g]]
    BY <1>18 DEF Replay
  <2> HIDE DEF g
  <2>4. [Pending(jobs[j]) EXCEPT !.attempts = 0, !.due = TRUE, !.group = g] \in Row
    BY <2>1, <2>2 DEF Row
  <2>5. jobs' \in [Job -> Row]
    BY <2>3, <2>4 DEF TypeOK
  <2> QED BY <1>18, <2>5 DEF Replay, TypeOK
<1>19. ASSUME NEW j \in Job, LeaseLapses(j) \/ BackoffElapses(j) PROVE TypeOK'
  <2>1. jobs[j] \in Row
    BY DEF TypeOK
  <2>2. /\ [jobs[j] EXCEPT !.lease = "lapsed"] \in Row
        /\ [jobs[j] EXCEPT !.due = TRUE] \in Row
    BY <2>1 DEF Row
  <2>3. jobs' \in [Job -> Row]
    BY <1>19, <2>2 DEF LeaseLapses, BackoffElapses, TypeOK
  <2> QED BY <1>19, <2>3 DEF LeaseLapses, BackoffElapses, TypeOK
<1>20. ASSUME NEW j \in Job, Trim(j) PROVE TypeOK'
  BY <1>20, AbsentRowType DEF Trim, TypeOK
<1>21. CASE NextBucket
  BY <1>21, JobsAssumption DEF NextBucket, TypeOK, Bucket
<1>22. CASE UNCHANGED vars
  BY <1>22 DEF vars, TypeOK
<1> QED BY <1>1, <1>2, <1>3, <1>4, <1>5, <1>6, <1>7, <1>8, <1>9, <1>10, <1>11,
           <1>12, <1>13, <1>14, <1>15, <1>16, <1>17, <1>18, <1>19, <1>20,
           <1>21, <1>22 DEF Next, TickStep, ExecStep

(* Every reachable state is well typed, whatever faults are allowed.        *)
THEOREM TypeCorrect == Spec => []TypeOK
<1>1. Init => TypeOK
  BY AbsentRowType, JobsAssumption
  DEF Init, TypeOK, IdleTick, Ticks, TickPhases, Bucket
<1> QED BY <1>1, TypeStep, PTL DEF Spec

-----------------------------------------------------------------------------
(* The inductive part of QueueInv beside the types.                         *)
Ownership == KeyUnique /\ OneRunPerRow /\ OwnsRow

LEMMA InFlightType ==
  ASSUME TypeOK, NEW x \in InFlight
  PROVE  runs[x] \in Flight /\ runs[x].job \in Job /\ x \in Exec
BY DEF InFlight, TypeOK, Flight

(* A row an execution holds is running under a live lease, or done.         *)
LEMMA HeldRow ==
  ASSUME OwnsRow, NEW x \in InFlight
  PROVE  /\ jobs[runs[x].job].state \in {"running", "done"}
         /\ jobs[runs[x].job].state = "running" => jobs[runs[x].job].lease = "live"
BY DEF OwnsRow

(* Filling an absent row of a free key disturbs nobody.                     *)
LEMMA EnqueueKeeps ==
  ASSUME TypeOK, Ownership, NEW k \in Key, NEW g \in Group, NEW p \in Nat,
         Enqueue(k, g, p), UNCHANGED runs
  PROVE  Ownership'
<1>1. CASE jobs' = jobs
  BY <1>1 DEF Ownership, KeyUnique, OneRunPerRow, OwnsRow, InFlight
<1>2. CASE /\ KeyFree(k, jobs)
           /\ \E j \in Job : /\ jobs[j].state = "absent"
                             /\ jobs' = [jobs EXCEPT ![j] = NewRow(k, g, p)]
  <2>1. PICK j \in Job : /\ jobs[j].state = "absent"
                         /\ jobs' = [jobs EXCEPT ![j] = NewRow(k, g, p)]
    BY <1>2
  <2>2. jobs'[j].key = k /\ \A i \in Job \ {j} : jobs'[i] = jobs[i]
    BY <2>1 DEF TypeOK, NewRow
  <2>3. KeyUnique'
    BY <1>2, <2>2 DEF KeyUnique, KeyFree, Ownership
  <2>4. InFlight' = InFlight
    BY DEF InFlight
  <2>5. OneRunPerRow'
    BY <2>4 DEF OneRunPerRow, Ownership
  <2>6. OwnsRow'
    <3> SUFFICES ASSUME NEW x \in InFlight
                 PROVE  jobs'[runs[x].job] = jobs[runs[x].job]
      BY <2>4 DEF Ownership, OwnsRow
    <3> QED BY <2>1, <2>2, HeldRow, InFlightType DEF Ownership
  <2> QED BY <2>3, <2>5, <2>6 DEF Ownership
<1> QED BY <1>1, <1>2, EnqueueEffect

(* Moving an execution on within its own promise chain keeps its row.       *)
LEMMA GotoKeeps ==
  ASSUME TypeOK, Ownership, NEW x \in InFlight, NEW p \in Phases,
         UNCHANGED jobs, Goto(x, p),
         jobs[runs[x].job].state = "running" \/ p \in {"count", "fail"}
  PROVE  Ownership'
<1>1. runs[x] \in Flight
  BY InFlightType
<1>2. /\ runs'[x] = [runs[x] EXCEPT !.phase = p]
      /\ \A y \in Exec \ {x} : runs'[y] = runs[y]
  BY InFlightType DEF Goto, TypeOK
<1>3. /\ runs'[x].job = runs[x].job /\ runs'[x].key = runs[x].key
      /\ runs'[x].node = runs[x].node /\ runs'[x].attempts = runs[x].attempts
      /\ runs'[x].phase = p
  BY <1>1, <1>2 DEF Flight
<1>4. \A y \in InFlight' :
        /\ y \in InFlight
        /\ runs'[y].job = runs[y].job /\ runs'[y].key = runs[y].key
        /\ runs'[y].node = runs[y].node /\ runs'[y].attempts = runs[y].attempts
        /\ y # x => runs'[y].phase = runs[y].phase
  BY <1>2, <1>3, InFlightType DEF InFlight
<1>5. OneRunPerRow'
  BY <1>4 DEF OneRunPerRow, Ownership
<1>6. OwnsRow'
  <2> SUFFICES ASSUME NEW y \in InFlight'
               PROVE  LET row == jobs[runs[y].job] IN
                        /\ row.key = runs[y].key
                        /\ \/ /\ row.state = "running" /\ row.lease = "live"
                              /\ row.lockedBy = runs[y].node
                              /\ row.attempts = runs[y].attempts
                           \/ row.state = "done" /\ runs'[y].phase \in {"count", "fail"}
    BY <1>4 DEF OwnsRow
  <2>1. y \in InFlight
    BY <1>4
  <2>2. CASE y = x
    BY <2>1, <2>2, <1>3 DEF OwnsRow, Ownership
  <2>3. CASE y # x
    BY <2>1, <2>3, <1>4 DEF OwnsRow, Ownership
  <2> QED BY <2>2, <2>3
<1> QED BY <1>5, <1>6 DEF Ownership, KeyUnique

(* Ending executions, and changing no row another one holds.                *)
LEMMA LandKeeps ==
  ASSUME TypeOK, Ownership, NEW X \in SUBSET Exec, KeyUnique',
         runs' = [x \in Exec |-> IF x \in X THEN None ELSE runs[x]],
         \A y \in InFlight \ X : jobs'[runs[y].job] = jobs[runs[y].job]
  PROVE  Ownership'
<1>1. InFlight' = InFlight \ X
  BY DEF InFlight
<1>2. \A y \in InFlight' : runs'[y] = runs[y] /\ y \in InFlight \ X
  BY <1>1 DEF InFlight
<1>3. OneRunPerRow'
  BY <1>2 DEF OneRunPerRow, Ownership
<1>4. OwnsRow'
  BY <1>2 DEF OwnsRow, Ownership
<1> QED BY <1>3, <1>4 DEF Ownership

(* A claimed batch was pending, so nobody held its rows; each gets one      *)
(* execution of its own.                                                    *)
LEMMA ClaimKeeps ==
  ASSUME TypeOK, Ownership, NEW n \in Node, NEW c \in Closure, Claim(n, c)
  PROVE  Ownership'
<1>0. PICK S \in Batch(n, tick[<<n, c>>].cap) : \E at \in [S -> Exec \ InFlight] :
        /\ \A i, j \in S : at[i] = at[j] => i = j
        /\ jobs' = [j \in Job |->
             IF j \in S
             THEN Claimed(jobs[j], n)
             ELSE jobs[j]]
        /\ runs' = [x \in Exec |->
             IF \E j \in S : at[j] = x
             THEN LET j == CHOOSE j \in S : at[j] = x IN
                  [job |-> j, node |-> n, key |-> jobs[j].key,
                   attempts |-> NextAttempt(jobs[j].attempts), phase |-> "work"]
             ELSE runs[x]]
  BY DEF Claim
<1>1. PICK at \in [S -> Exec \ InFlight] :
        /\ \A i, j \in S : at[i] = at[j] => i = j
        /\ jobs' = [j \in Job |->
             IF j \in S
             THEN Claimed(jobs[j], n)
             ELSE jobs[j]]
        /\ runs' = [x \in Exec |->
             IF \E j \in S : at[j] = x
             THEN LET j == CHOOSE j \in S : at[j] = x IN
                  [job |-> j, node |-> n, key |-> jobs[j].key,
                   attempts |-> NextAttempt(jobs[j].attempts), phase |-> "work"]
             ELSE runs[x]]
  BY <1>0
<1>2. S \subseteq Job /\ \A j \in S : jobs[j].state = "pending"
  BY DEF Batch, Claimable
<1>3. \A j \in S :
        /\ jobs'[j].key = jobs[j].key /\ jobs'[j].state = "running"
        /\ jobs'[j].lease = "live" /\ jobs'[j].lockedBy = n
        /\ jobs'[j].attempts = NextAttempt(jobs[j].attempts)
  BY <1>1, <1>2 DEF Claimed, TypeOK, Row
<1>4. \A j \in Job \ S : jobs'[j] = jobs[j]
  BY <1>1
<1>5. KeyUnique'
  BY <1>2, <1>3, <1>4 DEF KeyUnique, Ownership, Active
<1>6. \A j \in S : /\ at[j] \in Exec \ InFlight
                   /\ runs'[at[j]].job = j /\ runs'[at[j]].node = n
                   /\ runs'[at[j]].key = jobs[j].key
                   /\ runs'[at[j]].attempts = NextAttempt(jobs[j].attempts)
  <2> TAKE j \in S
  <2>1. at[j] \in Exec \ InFlight
    OBVIOUS
  <2>2. (CHOOSE i \in S : at[i] = at[j]) = j
    BY <1>1
  <2>3. runs'[at[j]] = [job |-> j, node |-> n, key |-> jobs[j].key,
                        attempts |-> NextAttempt(jobs[j].attempts), phase |-> "work"]
    BY <1>1, <2>1, <2>2
  <2> QED BY <2>1, <2>3
<1>7. \A x \in InFlight' : \/ \E j \in S : x = at[j]
                           \/ x \in InFlight /\ runs'[x] = runs[x]
  <2> TAKE x \in InFlight'
  <2>1. x \in Exec /\ runs'[x] # None
    BY DEF InFlight
  <2>2. CASE ~ \E j \in S : at[j] = x
    <3>1. runs'[x] = runs[x]
      BY <1>1, <2>1, <2>2
    <3> QED BY <2>1, <3>1 DEF InFlight
  <2>3. CASE \E j \in S : at[j] = x
    <3>1. PICK j \in S : at[j] = x
      BY <2>3
    <3> QED BY <3>1
  <2> QED BY <2>2, <2>3
<1>8. \A x \in InFlight : runs[x].job \in Job \ S
  BY <1>2, HeldRow, InFlightType DEF Ownership
<1>9. OneRunPerRow'
  <2> SUFFICES ASSUME NEW x \in InFlight', NEW y \in InFlight',
                      runs'[x].job = runs'[y].job
               PROVE  x = y
    BY DEF OneRunPerRow
  <2>1. CASE x \in InFlight /\ runs'[x] = runs[x] /\ y \in InFlight /\ runs'[y] = runs[y]
    BY <2>1 DEF OneRunPerRow, Ownership
  <2>2. CASE x \in InFlight /\ runs'[x] = runs[x] /\ \E j \in S : y = at[j]
    BY <2>2, <1>6, <1>8
  <2>3. CASE y \in InFlight /\ runs'[y] = runs[y] /\ \E j \in S : x = at[j]
    BY <2>3, <1>6, <1>8
  <2>4. CASE (\E j \in S : x = at[j]) /\ \E j \in S : y = at[j]
    BY <2>4, <1>6
  <2> QED BY <1>7, <2>1, <2>2, <2>3, <2>4
<1>10. OwnsRow'
  <2> SUFFICES ASSUME NEW x \in InFlight'
               PROVE  LET row == jobs'[runs'[x].job] IN
                        /\ row.key = runs'[x].key
                        /\ \/ /\ row.state = "running" /\ row.lease = "live"
                              /\ row.lockedBy = runs'[x].node
                              /\ row.attempts = runs'[x].attempts
                           \/ row.state = "done" /\ runs'[x].phase \in {"count", "fail"}
    BY DEF OwnsRow
  <2>1. CASE \E j \in S : x = at[j]
    <3>1. PICK j \in S : x = at[j]
      BY <2>1
    <3>2. /\ runs'[x].job = j /\ runs'[x].node = n /\ runs'[x].key = jobs[j].key
          /\ runs'[x].attempts = NextAttempt(jobs[j].attempts)
      BY <3>1, <1>6
    <3> QED BY <3>2, <1>3
  <2>2. CASE x \in InFlight /\ runs'[x] = runs[x]
    BY <2>2, <1>4, <1>8 DEF OwnsRow, Ownership
  <2> QED BY <1>7, <2>1, <2>2
<1> QED BY <1>5, <1>9, <1>10 DEF Ownership

(* While leases outlast the executions, every step keeps the ownership.     *)
LEMMA StepKeeps ==
  ASSUME TypeOK, Ownership, [Next]_vars, "slow" \notin Faults
  PROVE  Ownership'
<1>1. CASE UNCHANGED <<jobs, runs>>
  BY <1>1 DEF Ownership, KeyUnique, OneRunPerRow, OwnsRow, InFlight
<1>2. ASSUME NEW n \in Node, NEW c \in Closure, Schedule(n, c) PROVE Ownership'
  <2>1. PICK kg \in tick[<<n, c>>].todo :
          Enqueue(kg[1], kg[2],
                  IF kg[1] \in Device THEN DevicePrio ELSE SinglePrio)
    BY <1>2 DEF Schedule
  <2>2. kg[1] \in Key /\ kg[2] \in Group
    BY DEF TypeOK, Ticks
  <2> QED BY <1>2, <2>1, <2>2, EnqueueKeeps DEF Schedule, DevicePrio, SinglePrio
<1>3. ASSUME NEW n \in Node, NEW c \in Closure, Reap(n, c) PROVE Ownership'
  <2>1. /\ runs' = runs
        /\ \A j \in Job : jobs'[j] = IF Lapsed(j) THEN Pending(jobs[j]) ELSE jobs[j]
    BY <1>3 DEF Reap
  <2>2. \A j \in Job : /\ jobs'[j].key = jobs[j].key
                      /\ (jobs'[j].state \in Active => jobs[j].state \in Active)
    BY <2>1 DEF Pending, Lapsed, Active, TypeOK, Row
  <2>3. KeyUnique'
    <3> SUFFICES ASSUME NEW i \in Job, NEW j \in Job,
                        jobs'[i].state \in Active, jobs'[j].state \in Active,
                        jobs'[i].key = jobs'[j].key
                 PROVE  i = j
      BY DEF KeyUnique, Active
    <3>1. /\ jobs[i].state \in Active /\ jobs[j].state \in Active
          /\ jobs[i].key = jobs[j].key
      BY <2>2
    <3> QED BY <3>1 DEF KeyUnique, Ownership
  <2>4. \A x \in InFlight : jobs'[runs[x].job] = jobs[runs[x].job]
    BY <2>1, HeldRow, InFlightType DEF Lapsed, Ownership
  <2> QED BY <2>1, <2>3, <2>4 DEF Ownership, OneRunPerRow, OwnsRow, InFlight
<1>4. ASSUME NEW n \in Node, NEW c \in Closure, Claim(n, c) PROVE Ownership'
  BY <1>4, ClaimKeeps
<1>5. ASSUME NEW x \in Exec, EngineReturns(x) \/ EngineThrows(x) PROVE Ownership'
  <2>1. x \in InFlight /\ runs[x].phase = "work" /\ UNCHANGED jobs
    BY <1>5 DEF EngineReturns, EngineThrows, InFlight
  <2>2. jobs[runs[x].job].state = "running"
    BY <2>1 DEF OwnsRow, Ownership
  <2> QED BY <1>5, <2>1, <2>2, GotoKeeps DEF EngineReturns, EngineThrows, Phases
<1>6. ASSUME NEW x \in Exec, CompletionThrows(x) PROVE Ownership'
  <2>1. x \in InFlight /\ UNCHANGED jobs
    BY <1>6 DEF CompletionThrows, InFlight
  <2> QED BY <1>6, <2>1, GotoKeeps DEF CompletionThrows, Phases
<1>7. ASSUME NEW x \in Exec, Complete(x) PROVE Ownership'
  <2>1. x \in InFlight /\ runs[x].phase = "complete" /\ Goto(x, "count")
    BY <1>7 DEF Complete, InFlight
  <2>2. runs[x] \in Flight /\ runs[x].job \in Job
    BY <2>1, InFlightType
  <2> DEFINE j == runs[x].job
  <2>3. jobs[j].state = "running"
    BY <2>1 DEF OwnsRow, Ownership
  <2>4. jobs' = [jobs EXCEPT ![j].state = "done", ![j].lease = "none"]
    BY <1>7, <2>3 DEF Complete
  <2>5. /\ jobs'[j].key = jobs[j].key /\ jobs'[j].state = "done"
        /\ \A i \in Job \ {j} : jobs'[i] = jobs[i]
    BY <2>2, <2>4 DEF TypeOK, Row
  <2>6. KeyUnique'
    BY <2>5 DEF KeyUnique, Ownership, Active
  <2>7. \A y \in InFlight' :
          /\ y \in InFlight /\ runs'[y].job = runs[y].job
          /\ runs'[y].key = runs[y].key
          /\ y = x => runs'[y].phase = "count"
          /\ y # x => runs'[y] = runs[y]
    BY <2>1, <2>2 DEF Goto, InFlight, TypeOK, Flight
  <2>8. OneRunPerRow'
    BY <2>7 DEF OneRunPerRow, Ownership
  <2>9. \A y \in InFlight : y # x => runs[y].job # j
    BY <2>1 DEF OneRunPerRow, Ownership
  <2> HIDE DEF j
  <2>10. OwnsRow'
    <3> SUFFICES ASSUME NEW y \in InFlight'
               PROVE  LET row == jobs'[runs'[y].job] IN
                        /\ row.key = runs'[y].key
                        /\ \/ /\ row.state = "running" /\ row.lease = "live"
                              /\ row.lockedBy = runs'[y].node
                              /\ row.attempts = runs'[y].attempts
                           \/ row.state = "done" /\ runs'[y].phase \in {"count", "fail"}
      BY DEF OwnsRow
    <3>1. CASE y = x
      BY <3>1, <2>1, <2>5, <2>7 DEF j, OwnsRow, Ownership
    <3>2. CASE y # x
      <4>1. runs'[y] = runs[y] /\ y \in InFlight
        BY <3>2, <2>7
      <4>2. jobs'[runs[y].job] = jobs[runs[y].job]
        BY <4>1, <3>2, <2>5, <2>9, InFlightType
      <4> QED BY <4>1, <4>2 DEF OwnsRow, Ownership
    <3> QED BY <3>1, <3>2
  <2> QED BY <2>6, <2>8, <2>10 DEF Ownership
<1>8. ASSUME NEW x \in Exec, Count(x) \/ FailThrows(x) PROVE Ownership'
  <2>1. UNCHANGED jobs /\ runs' = [runs EXCEPT ![x] = None]
    BY <1>8 DEF Count, FailThrows, Land
  <2>2. runs' = [y \in Exec |-> IF y \in {x} THEN None ELSE runs[y]]
    BY <2>1 DEF TypeOK
  <2> QED BY <2>1, <2>2, LandKeeps DEF KeyUnique, Ownership
<1>9. ASSUME NEW x \in Exec, Fail(x) PROVE Ownership'
  <2> DEFINE j == runs[x].job
  <2>1. x \in InFlight /\ j \in Job /\ jobs[j] \in Row /\ runs[x].key = jobs[j].key
    BY <1>9, InFlightType DEF Fail, InFlight, TypeOK, OwnsRow, Ownership
  <2>2. runs' = [y \in Exec |-> IF y \in {x} THEN None ELSE runs[y]]
    BY <1>9 DEF Fail, Land, TypeOK
  <2>3. \A i \in Job \ {j} : jobs'[i] = jobs[i]
    BY <1>9, <2>1 DEF Fail, TypeOK
  <2>4. \/ jobs'[j] = jobs[j]
        \/ jobs'[j].key = jobs[j].key /\ jobs'[j].state = "dead"
        \/ /\ jobs'[j].key = jobs[j].key
           /\ jobs[j].state \in Active \/ KeyFree(jobs[j].key, jobs)
    BY <1>9, <2>1 DEF Fail, Pending, TypeOK, Row
  <2> HIDE DEF j
  <2>5. KeyUnique'
    BY <2>1, <2>3, <2>4 DEF KeyUnique, KeyFree, Ownership, Active
  <2>6. \A y \in InFlight \ {x} : jobs'[runs[y].job] = jobs[runs[y].job]
    BY <2>1, <2>3, InFlightType DEF OneRunPerRow, Ownership, j
  <2> QED BY <2>2, <2>5, <2>6, LandKeeps
<1>10. ASSUME NEW n \in Node, Crash(n) PROVE Ownership'
  <2> DEFINE X == {x \in InFlight : runs[x].node = n}
  <2>1. /\ X \in SUBSET Exec /\ UNCHANGED jobs
        /\ runs' = [x \in Exec |-> IF x \in X THEN None ELSE runs[x]]
    BY <1>10 DEF Crash, InFlight
  <2> HIDE DEF X
  <2> QED BY <2>1, LandKeeps DEF KeyUnique, Ownership
<1>11. ASSUME NEW d \in Device, NEW g \in Group, PollNowEnqueue(d, g) PROVE Ownership'
  BY <1>11, EnqueueKeeps DEF PollNowEnqueue, OperatorPrio, Key
(* The actions that change one row that no execution holds.                 *)
<1>12. ASSUME NEW j \in Job,
              Replay(j) \/ LeaseLapses(j) \/ BackoffElapses(j) \/ Trim(j)
       PROVE  Ownership'
  <2>1. jobs[j] \in Row /\ runs' = runs
    BY <1>12 DEF Replay, LeaseLapses, BackoffElapses, Trim, TypeOK
  <2>2. \A i \in Job \ {j} : jobs'[i] = jobs[i]
    BY <1>12 DEF Replay, LeaseLapses, BackoffElapses, Trim, TypeOK
  <2>3. \/ jobs'[j].state \notin Active
        \/ /\ jobs'[j].key = jobs[j].key
           /\ jobs[j].state \in Active \/ KeyFree(jobs[j].key, jobs)
    <3>1. CASE Replay(j)
      <4> DEFINE g == IF jobs[j].key \in Device THEN devGroup[jobs[j].key]
                      ELSE jobs[j].group
      <4>1. jobs'[j] = [Pending(jobs[j]) EXCEPT !.attempts = 0, !.due = TRUE, !.group = g]
        BY <3>1 DEF Replay, TypeOK
      <4> HIDE DEF g
      <4>2. jobs'[j].key = jobs[j].key
        BY <4>1, <2>1 DEF Pending, Row
      <4> QED BY <3>1, <4>2 DEF Replay, Active
    <3>2. CASE LeaseLapses(j) \/ BackoffElapses(j)
      BY <3>2, <2>1 DEF LeaseLapses, BackoffElapses, TypeOK, Row, Active
    <3>3. CASE Trim(j)
      BY <3>3 DEF Trim, AbsentRow, NewRow, TypeOK, Active
    <3> QED BY <1>12, <3>1, <3>2, <3>3
  <2>4. KeyUnique'
    BY <2>2, <2>3 DEF KeyUnique, KeyFree, Ownership
  <2>5. \A x \in InFlight : runs[x].job # j
    BY <1>12, HeldRow DEF Replay, LeaseLapses, BackoffElapses, Trim, Ownership
  <2>6. \A x \in InFlight : jobs'[runs[x].job] = jobs[runs[x].job]
    BY <2>2, <2>5, InFlightType
  <2> QED BY <2>1, <2>4, <2>6 DEF Ownership, OneRunPerRow, OwnsRow, InFlight
<1> QED BY <1>1, <1>2, <1>3, <1>4, <1>5, <1>6, <1>7, <1>8, <1>9, <1>10, <1>11, <1>12
        DEF Next, TickStep, ExecStep, vars, StartDispatcher, StopDispatcher,
            TickStart, Check, TickFails, SetEnabled, Restart, PollNowStamp,
            DeviceDue, Regroup, NextBucket

(* The inductive invariant, for every size of the system.                   *)
THEOREM QueueInvariant ==
  ASSUME "slow" \notin Faults
  PROVE  Spec => []QueueInv
<1>1. Init => Ownership
  <2> SUFFICES ASSUME Init PROVE Ownership
    OBVIOUS
  <2>1. InFlight = {} /\ \A j \in Job : jobs[j].state = "absent"
    BY DEF Init, InFlight, AbsentRow, NewRow
  <2> QED BY <2>1 DEF Ownership, KeyUnique, OneRunPerRow, OwnsRow, Active
<1>2. TypeOK /\ Ownership /\ [Next]_vars => Ownership'
  BY StepKeeps
<1>3. TypeOK /\ Ownership => QueueInv
  BY DEF QueueInv, Ownership
<1> QED BY <1>1, <1>2, <1>3, TypeCorrect, PTL DEF Spec

(* As long as no execution outlives its lease, no two executions of any two *)
(* nodes work on the same device or singleton at a time (queue.ts:4-9).     *)
THEOREM NoDoubleRunHolds ==
  ASSUME "slow" \notin Faults
  PROVE  Spec => []NoDoubleRun
<1>1. QueueInv => NoDoubleRun
  <2> SUFFICES ASSUME QueueInv, NEW x \in InFlight, NEW y \in InFlight,
                      runs[x].key = runs[y].key,
                      runs[x].phase = "work", runs[y].phase = "work"
               PROVE  x = y
    BY DEF NoDoubleRun
  <2>1. /\ jobs[runs[x].job].state = "running" /\ jobs[runs[x].job].key = runs[x].key
        /\ jobs[runs[y].job].state = "running" /\ jobs[runs[y].job].key = runs[y].key
    BY DEF QueueInv, OwnsRow
  <2>2. runs[x].job \in Job /\ runs[y].job \in Job
    BY InFlightType DEF QueueInv
  <2>3. runs[x].job = runs[y].job
    BY <2>1, <2>2 DEF QueueInv, KeyUnique, Active
  <2> QED BY <2>3 DEF QueueInv, OneRunPerRow
<1> QED BY <1>1, QueueInvariant, PTL

-----------------------------------------------------------------------------
(* Leases: what a running row carries does not depend on any execution.     *)

(* enqueue() makes no row running or dead, nor touches one that is. *)
LEMMA EnqueueFresh ==
  ASSUME TypeOK, NEW k \in Key, NEW g \in Group, NEW p \in Nat, Enqueue(k, g, p)
  PROVE  \A j \in Job : jobs'[j] = jobs[j] \/ jobs'[j].state = "pending"
BY EnqueueEffect DEF NewRow, TypeOK

LEMMA RowSteps ==
  ASSUME TypeOK, [Next]_vars, NEW j \in Job
  PROVE  \/ jobs'[j] = jobs[j]
         \/ jobs'[j].state \in {"absent", "pending"}
         \/ jobs'[j].state = "done" /\ jobs'[j].attempts = jobs[j].attempts
         \/ \E n \in Node : jobs'[j] = Claimed(jobs[j], n)
         \/ LeaseLapses(j)
         \/ \E x \in Exec : /\ Fail(x) /\ runs[x].job = j /\ Exhausted(runs[x])
                             /\ jobs'[j].state = "dead"
                             /\ jobs'[j].key = jobs[j].key
                             /\ jobs'[j].attempts = jobs[j].attempts
<1>1. CASE UNCHANGED jobs
  BY <1>1
<1>2. ASSUME NEW n \in Node, NEW c \in Closure, Schedule(n, c)
      PROVE  jobs'[j] = jobs[j] \/ jobs'[j].state = "pending"
  <2>1. PICK kg \in tick[<<n, c>>].todo :
          Enqueue(kg[1], kg[2], IF kg[1] \in Device THEN DevicePrio ELSE SinglePrio)
    BY <1>2 DEF Schedule
  <2>2. kg[1] \in Key /\ kg[2] \in Group
    BY DEF TypeOK, Ticks
  <2> QED BY <2>1, <2>2, EnqueueFresh DEF DevicePrio, SinglePrio
<1>3. ASSUME NEW n \in Node, NEW c \in Closure, Reap(n, c)
      PROVE  jobs'[j] = jobs[j] \/ jobs'[j].state = "pending"
  BY <1>3 DEF Reap, Pending, TypeOK, Row
<1>4. ASSUME NEW n \in Node, NEW c \in Closure, Claim(n, c)
      PROVE  jobs'[j] = jobs[j] \/ jobs'[j] = Claimed(jobs[j], n)
  BY <1>4 DEF Claim
<1>5. ASSUME NEW x \in Exec, Complete(x)
      PROVE  \/ jobs'[j] = jobs[j]
             \/ jobs'[j].state = "done" /\ jobs'[j].attempts = jobs[j].attempts
  <2>1. runs[x] \in Flight
    BY <1>5 DEF Complete, TypeOK
  <2> QED BY <1>5, <2>1 DEF Complete, TypeOK, Row, Flight
<1>6. ASSUME NEW x \in Exec, Fail(x)
      PROVE  \/ jobs'[j] = jobs[j]
             \/ jobs'[j].state = "pending"
             \/ /\ runs[x].job = j /\ Exhausted(runs[x]) /\ jobs'[j].state = "dead"
                /\ jobs'[j].key = jobs[j].key /\ jobs'[j].attempts = jobs[j].attempts
  <2>1. runs[x] \in Flight
    BY <1>6 DEF Fail, TypeOK
  <2>2. CASE runs[x].job # j
    BY <1>6, <2>1, <2>2 DEF Fail, TypeOK, Flight
  <2>3. CASE runs[x].job = j
    BY <1>6, <2>1, <2>3 DEF Fail, TypeOK, Flight, Row, Pending
  <2> QED BY <2>2, <2>3
<1>7. ASSUME NEW d \in Device, NEW g \in Group, PollNowEnqueue(d, g)
      PROVE  jobs'[j] = jobs[j] \/ jobs'[j].state = "pending"
  BY <1>7, EnqueueFresh DEF PollNowEnqueue, OperatorPrio, Key
<1>8. ASSUME NEW i \in Job, Replay(i) \/ BackoffElapses(i) \/ Trim(i)
      PROVE  jobs'[j] = jobs[j] \/ jobs'[j].state \in {"absent", "pending"}
  <2>1. jobs[i] \in Row
    BY DEF TypeOK
  <2>2. CASE j # i
    BY <1>8, <2>2 DEF Replay, BackoffElapses, Trim, TypeOK
  <2>3. CASE j = i /\ Replay(i)
    <3> DEFINE g == IF jobs[i].key \in Device THEN devGroup[jobs[i].key]
                    ELSE jobs[i].group
    <3>1. jobs'[i] = [Pending(jobs[i]) EXCEPT !.attempts = 0, !.due = TRUE, !.group = g]
      BY <2>3 DEF Replay, TypeOK
    <3> HIDE DEF g
    <3> QED BY <2>1, <2>3, <3>1 DEF Pending, Row
  <2>4. CASE j = i /\ BackoffElapses(i)
    BY <2>1, <2>4 DEF BackoffElapses, TypeOK, Row
  <2>5. CASE j = i /\ Trim(i)
    BY <2>1, <2>5 DEF Trim, TypeOK, AbsentRow, NewRow
  <2> QED BY <1>8, <2>2, <2>3, <2>4, <2>5
<1>9. ASSUME NEW i \in Job, LeaseLapses(i)
      PROVE  jobs'[j] = jobs[j] \/ LeaseLapses(j)
  BY <1>9 DEF LeaseLapses, TypeOK
<1> QED BY <1>1, <1>2, <1>3, <1>4, <1>5, <1>6, <1>7, <1>8, <1>9
        DEF Next, TickStep, ExecStep, vars, StartDispatcher, StopDispatcher,
            TickStart, Check, TickFails, EngineReturns, EngineThrows, Count,
            CompletionThrows, FailThrows, SetEnabled, Crash, Restart,
            PollNowStamp, DeviceDue, Regroup, NextBucket

(* A claim always carries a lease that can lapse and a node, whatever fails:   *)
(* the reaper can take every claimed row back.                              *)
THEOREM RunningRowsAreLeased == Spec => []RunningIsLeased
<1>1. Init => RunningIsLeased
  <2> SUFFICES ASSUME Init PROVE RunningIsLeased
    OBVIOUS
  <2>1. \A j \in Job : jobs[j].state = "absent"
    BY DEF Init, AbsentRow, NewRow
  <2> QED BY <2>1 DEF RunningIsLeased
<1>2. TypeOK /\ RunningIsLeased /\ [Next]_vars => RunningIsLeased'
  <2> SUFFICES ASSUME TypeOK, RunningIsLeased, [Next]_vars, NEW j \in Job,
                      jobs'[j].state = "running"
               PROVE  jobs'[j].lease # "none" /\ jobs'[j].lockedBy \in Node
    BY DEF RunningIsLeased
  <2>1. jobs[j] \in Row
    BY DEF TypeOK
  <2>2. CASE jobs'[j] = jobs[j]
    BY <2>2 DEF RunningIsLeased
  <2>3. ASSUME NEW n \in Node, jobs'[j] = Claimed(jobs[j], n)
        PROVE  jobs'[j].lease # "none" /\ jobs'[j].lockedBy \in Node
    BY <2>1, <2>3 DEF Claimed, Row
  <2>4. CASE LeaseLapses(j)
    BY <2>1, <2>4 DEF LeaseLapses, RunningIsLeased, TypeOK, Row
  <2> QED BY <2>2, <2>3, <2>4, RowSteps
<1> QED BY <1>1, <1>2, TypeCorrect, PTL DEF Spec

-----------------------------------------------------------------------------
(* Attempts: an execution knows the attempts of its row until it ends, so   *)
(* what fail() decides from them is about the row as it is.                 *)

AttemptsAgree ==
  \A x \in InFlight : jobs[runs[x].job].attempts = runs[x].attempts

(* An execution was in flight before the step, or its row was just claimed. *)
LEMMA FlightSteps ==
  ASSUME TypeOK, [Next]_vars, NEW x \in InFlight'
  PROVE  \/ /\ x \in InFlight
            /\ runs'[x].job = runs[x].job /\ runs'[x].attempts = runs[x].attempts
         \/ jobs'[runs'[x].job].state = "running"
<1>0. x \in Exec /\ runs'[x] # None
  BY DEF InFlight
<1>1. CASE UNCHANGED runs
  BY <1>1 DEF InFlight
<1>2. ASSUME NEW y \in Exec, NEW p \in Phases, runs[y] # None, Goto(y, p)
      PROVE  /\ x \in InFlight
             /\ runs'[x].job = runs[x].job /\ runs'[x].attempts = runs[x].attempts
  <2>1. y \in InFlight /\ runs[y] \in Flight
    BY <1>2, InFlightType DEF InFlight
  <2>2. runs'[y] = [runs[y] EXCEPT !.phase = p] /\ \A z \in Exec \ {y} : runs'[z] = runs[z]
    BY <1>2 DEF Goto, TypeOK
  <2> QED BY <1>0, <2>1, <2>2 DEF InFlight, Flight
<1>3. ASSUME NEW y \in Exec, EngineReturns(y) \/ EngineThrows(y) \/ Complete(y)
                               \/ CompletionThrows(y)
      PROVE  /\ x \in InFlight
             /\ runs'[x].job = runs[x].job /\ runs'[x].attempts = runs[x].attempts
  BY <1>2, <1>3 DEF EngineReturns, EngineThrows, Complete, CompletionThrows, Phases
<1>4. ASSUME NEW y \in Exec, Land(y)
      PROVE  x \in InFlight /\ runs'[x] = runs[x]
  BY <1>0, <1>4 DEF Land, TypeOK, InFlight
<1>5. ASSUME NEW n \in Node, Crash(n)
      PROVE  x \in InFlight /\ runs'[x] = runs[x]
  BY <1>0, <1>5 DEF Crash, InFlight
<1>6. ASSUME NEW n \in Node, NEW c \in Closure, Claim(n, c)
      PROVE  \/ x \in InFlight /\ runs'[x] = runs[x]
             \/ jobs'[runs'[x].job].state = "running"
  <2>1. PICK S \in Batch(n, tick[<<n, c>>].cap) : \E at \in [S -> Exec \ InFlight] :
          /\ jobs' = [j \in Job |-> IF j \in S THEN Claimed(jobs[j], n) ELSE jobs[j]]
          /\ runs' = [z \in Exec |->
               IF \E j \in S : at[j] = z
               THEN LET j == CHOOSE j \in S : at[j] = z IN
                    [job |-> j, node |-> n, key |-> jobs[j].key,
                     attempts |-> NextAttempt(jobs[j].attempts), phase |-> "work"]
               ELSE runs[z]]
    BY <1>6 DEF Claim
  <2>2. PICK at \in [S -> Exec \ InFlight] :
          runs' = [z \in Exec |->
               IF \E j \in S : at[j] = z
               THEN LET j == CHOOSE j \in S : at[j] = z IN
                    [job |-> j, node |-> n, key |-> jobs[j].key,
                     attempts |-> NextAttempt(jobs[j].attempts), phase |-> "work"]
               ELSE runs[z]]
    BY <2>1
  <2>3. CASE ~ \E j \in S : at[j] = x
    BY <1>0, <2>2, <2>3 DEF InFlight
  <2>4. CASE \E j \in S : at[j] = x
    <3> DEFINE i == CHOOSE j \in S : at[j] = x
    <3>1. i \in S
      BY <2>4
    <3>2. runs'[x].job = i
      BY <1>0, <2>2, <2>4
    <3> HIDE DEF i
    <3>3. i \in Job
      BY <3>1 DEF Batch, Claimable
    <3>4. jobs'[i] = Claimed(jobs[i], n)
      BY <2>1, <3>1, <3>3
    <3> QED BY <3>2, <3>3, <3>4 DEF Claimed, TypeOK, Row
  <2> QED BY <2>3, <2>4
<1> QED BY <1>1, <1>3, <1>4, <1>5, <1>6
        DEF Next, TickStep, ExecStep, vars, StartDispatcher, StopDispatcher,
            TickStart, Schedule, Reap, Check, TickFails, Count, Fail, FailThrows,
            SetEnabled, Restart, PollNowStamp, DeviceDue, PollNowEnqueue, Regroup,
            Replay, LeaseLapses, BackoffElapses, Trim, NextBucket

(* No row is dead-lettered before its attempts are used up, as long as no   *)
(* execution outlives its lease (queue.ts:79).                              *)
THEOREM DeadLettersAreExhausted ==
  ASSUME "slow" \notin Faults
  PROVE  Spec => []DeadIsExhausted
<1>1. Init => AttemptsAgree /\ DeadIsExhausted
  <2> SUFFICES ASSUME Init PROVE AttemptsAgree /\ DeadIsExhausted
    OBVIOUS
  <2>1. InFlight = {} /\ \A j \in Job : jobs[j].state = "absent"
    BY DEF Init, InFlight, AbsentRow, NewRow
  <2> QED BY <2>1 DEF AttemptsAgree, DeadIsExhausted
<1>2. QueueInv /\ QueueInv' /\ AttemptsAgree /\ DeadIsExhausted /\ [Next]_vars
        => AttemptsAgree' /\ DeadIsExhausted'
  <2> SUFFICES ASSUME QueueInv, QueueInv', AttemptsAgree, DeadIsExhausted, [Next]_vars
               PROVE  AttemptsAgree' /\ DeadIsExhausted'
    OBVIOUS
  <2>1. TypeOK
    BY DEF QueueInv
  <2>2. ASSUME NEW x \in InFlight'
        PROVE  jobs'[runs'[x].job].attempts = runs'[x].attempts
    <3>1. \/ /\ jobs'[runs'[x].job].state = "running"
             /\ jobs'[runs'[x].job].attempts = runs'[x].attempts
          \/ jobs'[runs'[x].job].state = "done"
      BY <2>2 DEF QueueInv, OwnsRow
    <3>2. CASE jobs'[runs'[x].job].state = "done"
      <4>1. /\ x \in InFlight
            /\ runs'[x].job = runs[x].job /\ runs'[x].attempts = runs[x].attempts
        BY <2>1, <2>2, <3>2, FlightSteps
      <4>2. runs[x].job \in Job
        BY <2>1, <4>1, InFlightType
      <4> DEFINE j == runs[x].job
      <4>3. jobs[j] \in Row
        BY <2>1, <4>2 DEF TypeOK
      <4>4. \A n \in Node : Claimed(jobs[j], n).state = "running"
        BY <4>3 DEF Claimed, Row
      <4>5. LeaseLapses(j) => jobs'[j].state = "running"
        BY <2>1, <4>2, <4>3 DEF LeaseLapses, TypeOK, Row
      <4>6. jobs'[j].attempts = jobs[j].attempts
        BY <2>1, <3>2, <4>1, <4>2, <4>4, <4>5, RowSteps
      <4> QED BY <4>1, <4>6 DEF AttemptsAgree
    <3> QED BY <3>1, <3>2
  <2>3. ASSUME NEW j \in Job, jobs'[j].state = "dead"
        PROVE  jobs'[j].attempts >= MaxOf(jobs'[j].key)
    <3>1. jobs[j] \in Row
      BY <2>1 DEF TypeOK
    <3>2. CASE jobs'[j] = jobs[j]
      BY <2>3, <3>2 DEF DeadIsExhausted
    <3>3. ASSUME NEW n \in Node, jobs'[j] = Claimed(jobs[j], n)
          PROVE  FALSE
      BY <2>3, <3>1, <3>3 DEF Claimed, Row
    <3>4. CASE LeaseLapses(j)
      BY <2>1, <2>3, <3>1, <3>4 DEF LeaseLapses, TypeOK, Row
    <3>5. ASSUME NEW x \in Exec, Fail(x), runs[x].job = j, Exhausted(runs[x]),
                 jobs'[j].key = jobs[j].key, jobs'[j].attempts = jobs[j].attempts
          PROVE  jobs'[j].attempts >= MaxOf(jobs'[j].key)
      <4>1. x \in InFlight
        BY <3>5 DEF Fail, InFlight
      <4>2. jobs[j].key = runs[x].key /\ jobs[j].attempts = runs[x].attempts
        BY <3>5, <4>1 DEF AttemptsAgree, QueueInv, OwnsRow
      <4> QED BY <3>5, <4>2 DEF Exhausted
    <3> QED BY <2>1, <2>3, <3>2, <3>3, <3>4, <3>5, RowSteps
  <2> QED BY <2>2, <2>3 DEF AttemptsAgree, DeadIsExhausted
<1> QED BY <1>1, <1>2, QueueInvariant, PTL DEF Spec

-----------------------------------------------------------------------------
(* Capacity *)

RunsOf(n) == {x \in InFlight : runs[x].node = n}

(* The counter is exact, one closure of a node is at work at a time, and    *)
(* what a tick is about to claim fits.                                      *)
CountExact ==
  \A n \in Node : /\ IsFiniteSet(RunsOf(n))
                  /\ running[n] = Cardinality(RunsOf(n)) /\ running[n] <= Concurrency

OneTicks ==
  \A n \in Node, c \in Closure : ~ Idle(n, c) => closure[n] = c

FitsLeft ==
  \A n \in Node, c \in Closure :
    tick[<<n, c>>].phase = "claim" => running[n] + tick[<<n, c>>].cap <= Concurrency

CapInv == CountExact /\ OneTicks /\ FitsLeft

(* Ticks and closures: what keeps OneTicks when nothing is stopped. *)
LEMMA TicksStep ==
  ASSUME TypeOK, OneTicks, [Next]_vars, "restart" \notin Faults
  PROVE  OneTicks'
<1>1. CASE UNCHANGED <<tick, closure>>
  BY <1>1 DEF OneTicks, Idle
<1>2. ASSUME NEW n \in Node, StartDispatcher(n) PROVE OneTicks'
  <2>1. \A c \in Closure : Idle(n, c)
    BY <1>2, JobsAssumption DEF StartDispatcher, OneTicks
  <2> QED BY <1>2, <2>1 DEF StartDispatcher, OneTicks, Idle, TypeOK
<1>3. ASSUME NEW n \in Node, NEW c \in Closure, TickStep(n, c) \/ TickFails(n, c)
      PROVE  OneTicks'
  <2>1. closure[n] = c /\ closure' = closure
    BY <1>3 DEF TickStep, TickFails, TickStart, Schedule, Reap, Check, Claim, OneTicks, Idle
  <2>2. \A m \in Node, d \in Closure : <<m, d>> # <<n, c>> => tick'[<<m, d>>] = tick[<<m, d>>]
    BY <1>3 DEF TickStep, TickFails, TickStart, Schedule, Reap, Check, Claim, TypeOK
  <2> QED BY <2>1, <2>2 DEF OneTicks, Idle
<1>4. ASSUME NEW n \in Node, Crash(n) PROVE OneTicks'
  <2>1. \A c \in Closure : Idle(n, c)'
    BY <1>4 DEF Crash, Idle, IdleTick
  <2>2. \A m \in Node \ {n} : /\ closure'[m] = closure[m]
                              /\ \A c \in Closure : tick'[<<m, c>>] = tick[<<m, c>>]
    BY <1>4 DEF Crash, TypeOK
  <2> QED BY <2>1, <2>2 DEF OneTicks, Idle
<1> QED BY <1>1, <1>2, <1>3, <1>4
        DEF Next, ExecStep, vars, StopDispatcher, EngineReturns, EngineThrows, Complete,
            Count, CompletionThrows, Fail, FailThrows, SetEnabled, Restart, PollNowStamp,
            DeviceDue, PollNowEnqueue, Regroup, Replay, LeaseLapses, BackoffElapses, Trim,
            NextBucket

LEMMA CapacityEnd ==
  ASSUME TypeOK, CapInv, NEW x \in Exec, runs[x] # None, Land(x), UNCHANGED tick
  PROVE  CountExact' /\ FitsLeft'
<1>0. PICK m \in Node : m = runs[x].node
  BY DEF TypeOK, Flight
<1>1. m \in Node /\ x \in RunsOf(m)
  BY <1>0 DEF RunsOf, InFlight
<1>2. /\ running'[m] = running[m] - 1
      /\ \A n \in Node \ {m} : running'[n] = running[n]
  BY <1>0 DEF Land, TypeOK
<1>3. /\ RunsOf(m)' = RunsOf(m) \ {x}
      /\ \A n \in Node \ {m} : RunsOf(n)' = RunsOf(n)
  <2>1. runs'[x] = None /\ \A y \in Exec \ {x} : runs'[y] = runs[y]
    BY DEF Land, TypeOK
  <2>2. \A n \in Node : RunsOf(n)' = RunsOf(n) \ {x}
    <3> TAKE n \in Node
    <3>1. ASSUME NEW y \in RunsOf(n)' PROVE y \in RunsOf(n) \ {x}
      BY <2>1, <3>1 DEF RunsOf, InFlight
    <3>2. ASSUME NEW y \in RunsOf(n) \ {x} PROVE y \in RunsOf(n)'
      BY <2>1, <3>2 DEF RunsOf, InFlight
    <3> QED BY <3>1, <3>2
  <2>3. \A n \in Node \ {m} : x \notin RunsOf(n)
    BY <1>0 DEF RunsOf
  <2> QED BY <2>2, <2>3
<1>4. Cardinality(RunsOf(m) \ {x}) = Cardinality(RunsOf(m)) - 1
      /\ IsFiniteSet(RunsOf(m) \ {x})
  BY <1>1, FS_RemoveElement DEF CapInv, CountExact
<1>5. CountExact'
  <2> SUFFICES ASSUME NEW n \in Node
               PROVE  /\ IsFiniteSet(RunsOf(n)') /\ running'[n] = Cardinality(RunsOf(n)')
                      /\ running'[n] <= Concurrency
    BY DEF CountExact
  <2>1. running[n] \in Int /\ Concurrency \in Int
    BY JobsAssumption DEF TypeOK
  <2>2. CASE n = m
    <3>1. running[m] = Cardinality(RunsOf(m)) /\ running[m] <= Concurrency
      BY <1>1 DEF CapInv, CountExact
    <3>2. running'[n] = Cardinality(RunsOf(n)')
      BY <1>2, <1>3, <1>4, <2>2, <3>1
    <3>3. running'[n] <= Concurrency
      BY <1>2, <2>1, <2>2, <3>1
    <3> QED BY <1>3, <1>4, <2>2, <3>2, <3>3
  <2>3. CASE n # m
    BY <1>2, <1>3, <2>3 DEF CapInv, CountExact
  <2> QED BY <2>2, <2>3
<1>6. FitsLeft'
  <2> SUFFICES ASSUME NEW n \in Node, NEW c \in Closure, tick[<<n, c>>].phase = "claim"
               PROVE  running'[n] + tick[<<n, c>>].cap <= Concurrency
    BY DEF FitsLeft
  <2>1. /\ running[n] \in Int /\ Concurrency \in Int
        /\ tick[<<n, c>>].cap \in Int
        /\ running[n] + tick[<<n, c>>].cap <= Concurrency
    BY JobsAssumption DEF TypeOK, Ticks, CapInv, FitsLeft
  <2>2. running'[n] = running[n] \/ running'[n] = running[n] - 1
    BY <1>1, <1>2
  <2> QED BY <2>1, <2>2
<1> QED BY <1>5, <1>6

LEMMA CapacityClaim ==
  ASSUME TypeOK, CapInv, NEW n \in Node, NEW c \in Closure, Claim(n, c)
  PROVE  CountExact' /\ FitsLeft'
<1>0. PICK S \in Batch(n, tick[<<n, c>>].cap) : \E at \in [S -> Exec \ InFlight] :
        /\ \A i, j \in S : at[i] = at[j] => i = j
        /\ runs' = [x \in Exec |->
             IF \E j \in S : at[j] = x
             THEN LET j == CHOOSE j \in S : at[j] = x IN
                  [job |-> j, node |-> n, key |-> jobs[j].key,
                   attempts |-> NextAttempt(jobs[j].attempts), phase |-> "work"]
             ELSE runs[x]]
        /\ running' = [running EXCEPT ![n] = @ + Cardinality(S)]
  BY DEF Claim
<1>1. PICK at \in [S -> Exec \ InFlight] :
        /\ \A i, j \in S : at[i] = at[j] => i = j
        /\ runs' = [x \in Exec |->
             IF \E j \in S : at[j] = x
             THEN LET j == CHOOSE j \in S : at[j] = x IN
                  [job |-> j, node |-> n, key |-> jobs[j].key,
                   attempts |-> NextAttempt(jobs[j].attempts), phase |-> "work"]
             ELSE runs[x]]
        /\ running' = [running EXCEPT ![n] = @ + Cardinality(S)]
  BY <1>0
<1>2. tick[<<n, c>>].phase = "claim" /\ tick' = [tick EXCEPT ![<<n, c>>] = IdleTick]
  BY DEF Claim
<1>3. /\ IsFiniteSet(S) /\ Cardinality(S) \in Nat
      /\ Cardinality(S) <= tick[<<n, c>>].cap
  <2>1. S \subseteq Job /\ Cardinality(S) <= tick[<<n, c>>].cap
    BY DEF Batch, Claimable
  <2>2. IsFiniteSet(S)
    BY <2>1, JobsAssumption, FS_Subset
  <2> QED BY <2>1, <2>2, FS_CardinalityType
<1> DEFINE A == {at[j] : j \in S}
<1>4. IsFiniteSet(A) /\ Cardinality(A) = Cardinality(S)
  <2> DEFINE f == [j \in S |-> at[j]]
  <2>1. f \in Bijection(S, A)
    BY <1>1 DEF Bijection, Injection, Surjection, IsInjective
  <2> HIDE DEF f
  <2>2. ExistsBijection(S, A)
    BY <2>1 DEF ExistsBijection
  <2> QED BY <2>2, <1>3, FS_Bijection
<1>5. \A x \in A : /\ runs'[x] # None
                 /\ runs'[x].node = n
                 /\ x \in Exec \ InFlight
  <2> SUFFICES ASSUME NEW j \in S
               PROVE  /\ runs'[at[j]] # None
                      /\ runs'[at[j]].node = n
                      /\ at[j] \in Exec \ InFlight
    OBVIOUS
  <2> DEFINE i == CHOOSE i \in S : at[i] = at[j]
             r == [job |-> i, node |-> n, key |-> jobs[i].key,
                   attempts |-> NextAttempt(jobs[i].attempts), phase |-> "work"]
  <2>1. at[j] \in Exec \ InFlight
    OBVIOUS
  <2>2. runs'[at[j]] = r
    BY <1>1, <2>1
  <2>3. i \in S
    OBVIOUS
  <2>4. r \in Flight /\ r.node = n
    <3>1. i \in Job
      BY <2>3 DEF Batch, Claimable
    <3>2. jobs[i] \in Row
      BY <3>1 DEF TypeOK
    <3> HIDE DEF i
    <3>3. NextAttempt(jobs[i].attempts) \in Nat
      BY <3>2, JobsAssumption DEF NextAttempt, Row
    <3> QED BY <3>1, <3>2, <3>3 DEF Flight, Phases, Row
  <2> HIDE DEF r
  <2>5. r # None
    BY <2>4, FlightAssumption
  <2> QED BY <2>1, <2>2, <2>4, <2>5
<1>6. \A x \in Exec : x \notin A => runs'[x] = runs[x]
  BY <1>1
<1> HIDE DEF A
<1>7. RunsOf(n)' = RunsOf(n) \cup A /\ RunsOf(n) \cap A = {}
  <2>1. ASSUME NEW x \in RunsOf(n)' PROVE x \in RunsOf(n) \cup A
    BY <1>6, <2>1 DEF RunsOf, InFlight
  <2>2. ASSUME NEW x \in RunsOf(n) PROVE x \in RunsOf(n)' /\ x \notin A
    BY <1>5, <1>6, <2>2 DEF RunsOf, InFlight
  <2>3. ASSUME NEW x \in A PROVE x \in RunsOf(n)'
    BY <1>5, <2>3 DEF RunsOf, InFlight
  <2> QED BY <2>1, <2>2, <2>3
<1>8. \A m \in Node \ {n} : RunsOf(m)' = RunsOf(m)
  <2> TAKE m \in Node \ {n}
  <2>1. ASSUME NEW x \in RunsOf(m)' PROVE x \in RunsOf(m)
    BY <1>5, <1>6, <2>1 DEF RunsOf, InFlight
  <2>2. ASSUME NEW x \in RunsOf(m) PROVE x \in RunsOf(m)'
    BY <1>5, <1>6, <2>2 DEF RunsOf, InFlight
  <2> QED BY <2>1, <2>2
<1>9. /\ IsFiniteSet(RunsOf(n) \cup A)
      /\ Cardinality(RunsOf(n) \cup A) = Cardinality(RunsOf(n)) + Cardinality(S)
  <2>1. IsFiniteSet(RunsOf(n))
    BY DEF CapInv, CountExact
  <2>2. Cardinality({}) = 0
    BY FS_EmptySet
  <2>3. Cardinality(RunsOf(n)) \in Nat /\ Cardinality(A) \in Nat
    BY <1>4, <2>1, FS_CardinalityType
  <2>4. /\ IsFiniteSet(RunsOf(n) \cup A)
        /\ Cardinality(RunsOf(n) \cup A) =
             Cardinality(RunsOf(n)) + Cardinality(A) - Cardinality(RunsOf(n) \cap A)
    BY <1>4, <2>1, FS_Union
  <2>5. Cardinality(RunsOf(n) \cap A) = 0
    BY <1>7, <2>2
  <2> QED BY <1>4, <2>3, <2>4, <2>5
<1>10. /\ running'[n] = running[n] + Cardinality(S)
       /\ \A m \in Node \ {n} : running'[m] = running[m]
  BY <1>1 DEF TypeOK
<1>11. running[n] + Cardinality(S) <= Concurrency
  <2>1. /\ running[n] \in Int /\ Concurrency \in Int /\ tick[<<n, c>>].cap \in Int
        /\ running[n] + tick[<<n, c>>].cap <= Concurrency
    BY <1>2, JobsAssumption DEF TypeOK, Ticks, CapInv, FitsLeft
  <2> QED BY <1>3, <2>1
<1>12. CountExact'
  <2> SUFFICES ASSUME NEW m \in Node
               PROVE  /\ IsFiniteSet(RunsOf(m)') /\ running'[m] = Cardinality(RunsOf(m)')
                      /\ running'[m] <= Concurrency
    BY DEF CountExact
  <2>1. CASE m = n
    BY <1>7, <1>9, <1>10, <1>11, <2>1 DEF CapInv, CountExact
  <2>2. CASE m # n
    BY <1>8, <1>10, <2>2 DEF CapInv, CountExact
  <2> QED BY <2>1, <2>2
<1>13. FitsLeft'
  <2> SUFFICES ASSUME NEW m \in Node, NEW d \in Closure, tick'[<<m, d>>].phase = "claim"
               PROVE  running'[m] + tick'[<<m, d>>].cap <= Concurrency
    BY DEF FitsLeft
  <2>1. <<m, d>> # <<n, c>>
    BY <1>2 DEF IdleTick, TypeOK
  <2>2. tick'[<<m, d>>] = tick[<<m, d>>]
    BY <1>2, <2>1 DEF TypeOK
  <2>3. m # n
    BY <1>2, <2>1, <2>2 DEF CapInv, OneTicks, Idle
  <2> QED BY <1>10, <2>2, <2>3 DEF CapInv, FitsLeft
<1> QED BY <1>12, <1>13

LEMMA CapacityStep ==
  ASSUME TypeOK, CapInv, [Next]_vars
  PROVE  CountExact' /\ FitsLeft'
<1>1. ASSUME running' = running, tick' = tick, InFlight' = InFlight,
             \A x \in InFlight : runs'[x].node = runs[x].node
      PROVE  CountExact' /\ FitsLeft'
  <2>1. \A n \in Node : RunsOf(n)' = RunsOf(n)
    BY <1>1 DEF RunsOf
  <2> QED BY <1>1, <2>1 DEF CapInv, CountExact, FitsLeft
<1>2. ASSUME NEW x \in Exec, NEW p \in Phases, runs[x] # None, Goto(x, p), tick' = tick
      PROVE  CountExact' /\ FitsLeft'
  <2>1. runs[x] \in Flight
    BY <1>2 DEF TypeOK
  <2>2. /\ runs'[x] = [runs[x] EXCEPT !.phase = p]
        /\ \A y \in Exec \ {x} : runs'[y] = runs[y] /\ running' = running
    BY <1>2 DEF Goto, TypeOK
  <2>3. runs'[x] \in Flight /\ runs'[x].node = runs[x].node /\ running' = running
    BY <1>2, <2>1, <2>2 DEF Flight, Goto
  <2>4. runs'[x] # None
    BY <2>3, FlightAssumption
  <2> QED BY <1>1, <1>2, <2>2, <2>3, <2>4 DEF InFlight
<1>3. ASSUME NEW x \in Exec, EngineReturns(x) \/ EngineThrows(x) \/ Complete(x)
                               \/ CompletionThrows(x)
      PROVE  CountExact' /\ FitsLeft'
  BY <1>2, <1>3 DEF EngineReturns, EngineThrows, Complete, CompletionThrows, Phases
<1>4. ASSUME NEW x \in Exec, Count(x) \/ Fail(x) \/ FailThrows(x)
      PROVE  CountExact' /\ FitsLeft'
  BY <1>4, CapacityEnd DEF Count, Fail, FailThrows
<1>5. ASSUME NEW n \in Node, Crash(n) PROVE CountExact' /\ FitsLeft'
  <2>1. RunsOf(n)' = {} /\ \A m \in Node \ {n} : RunsOf(m)' = RunsOf(m)
    BY <1>5 DEF Crash, RunsOf, InFlight
  <2>2. running'[n] = 0 /\ \A m \in Node \ {n} : running'[m] = running[m]
    BY <1>5 DEF Crash, TypeOK
  <2>3. /\ \A c \in Closure : tick'[<<n, c>>].phase = "idle"
        /\ \A m \in Node \ {n}, c \in Closure : tick'[<<m, c>>] = tick[<<m, c>>]
    BY <1>5 DEF Crash, IdleTick
  <2>4. CountExact'
    BY <2>1, <2>2, FS_EmptySet, JobsAssumption DEF CapInv, CountExact
  <2>5. FitsLeft'
    BY <2>2, <2>3 DEF CapInv, FitsLeft
  <2> QED BY <2>4, <2>5
<1>6. ASSUME NEW n \in Node, NEW c \in Closure, Claim(n, c)
      PROVE  CountExact' /\ FitsLeft'
  BY <1>6, CapacityClaim
<1>7. ASSUME runs' = runs, running' = running,
             NEW n \in Node, NEW c \in Closure,
             TickStart(n, c) \/ Schedule(n, c) \/ Reap(n, c) \/ Check(n, c) \/ TickFails(n, c)
      PROVE  CountExact' /\ FitsLeft'
  <2>1. CountExact'
    BY <1>7 DEF CapInv, CountExact, RunsOf, InFlight
  <2>2. \A m \in Node, d \in Closure : <<m, d>> # <<n, c>> => tick'[<<m, d>>] = tick[<<m, d>>]
    BY <1>7 DEF TickStart, Schedule, Reap, Check, TickFails, TypeOK
  <2>3. tick[<<n, c>>] \in Ticks /\ running[n] \in Int /\ Concurrency \in Int
    BY JobsAssumption DEF TypeOK
  <2>4. tick'[<<n, c>>].phase = "claim" => running[n] + tick'[<<n, c>>].cap <= Concurrency
    <3>1. CASE TickStart(n, c) \/ TickFails(n, c)
      BY <3>1 DEF TickStart, TickFails, TypeOK, IdleTick
    <3>2. CASE Schedule(n, c)
      BY <2>3, <3>2 DEF Schedule, TypeOK, Ticks
    <3>4. CASE Reap(n, c)
      BY <2>3, <3>4 DEF Reap, TypeOK, Ticks
    <3>3. CASE Check(n, c)
      BY <2>3, <3>3 DEF Check, TypeOK, IdleTick
    <3> QED BY <1>7, <3>1, <3>2, <3>3, <3>4
  <2>5. FitsLeft'
    BY <1>7, <2>2, <2>4 DEF CapInv, FitsLeft
  <2> QED BY <2>1, <2>5
<1>8. CASE UNCHANGED <<runs, running, tick>>
  BY <1>1, <1>8 DEF InFlight
<1>9. ASSUME NEW n \in Node, NEW c \in Closure, TickStep(n, c) \/ TickFails(n, c)
      PROVE  CountExact' /\ FitsLeft'
  <2>1. CASE Claim(n, c)
    BY <1>6, <2>1
  <2>2. CASE TickStart(n, c) \/ Schedule(n, c) \/ Reap(n, c) \/ Check(n, c) \/ TickFails(n, c)
    <3>1. runs' = runs /\ running' = running
      BY <2>2 DEF TickStart, Schedule, Reap, Check, TickFails
    <3> QED BY <1>7, <2>2, <3>1
  <2> QED BY <1>9, <2>1, <2>2 DEF TickStep
<1> QED BY <1>3, <1>4, <1>5, <1>8, <1>9
        DEF Next, ExecStep, vars, StartDispatcher, StopDispatcher, SetEnabled, Restart,
            PollNowStamp, DeviceDue, PollNowEnqueue, Regroup, Replay, LeaseLapses,
            BackoffElapses, Trim, NextBucket

(* A node never runs more jobs than its configured concurrency, and its      *)
(* counter is exact, whatever fails or crashes, unless a dispatcher is      *)
(* stopped and started in one process (dispatcher.ts:131-158).              *)
THEOREM CapacityIsRespected ==
  ASSUME "restart" \notin Faults
  PROVE  Spec => []CapacityRespected
<1>1. Init => CapInv
  <2> SUFFICES ASSUME Init PROVE CapInv
    OBVIOUS
  <2>1. /\ \A n \in Node : RunsOf(n) = {} /\ running[n] = 0
        /\ \A n \in Node, c \in Closure : tick[<<n, c>>].phase = "idle"
    BY DEF Init, RunsOf, InFlight, IdleTick
  <2>2. IsFiniteSet({}) /\ Cardinality({}) = 0
    BY FS_EmptySet
  <2>3. CountExact
    BY <2>1, <2>2, JobsAssumption DEF CountExact
  <2> QED BY <2>1, <2>3 DEF CapInv, OneTicks, FitsLeft, Idle
<1>2. TypeOK /\ CapInv /\ [Next]_vars => CapInv'
  BY TicksStep, CapacityStep DEF CapInv
<1>3. CapInv => CapacityRespected
  BY DEF CapInv, CountExact, CapacityRespected, RunsOf
<1> QED BY <1>1, <1>2, <1>3, TypeCorrect, PTL DEF Spec

-----------------------------------------------------------------------------
(* The refinement: every step of the dispatchers is a step of JobQueue.     *)

items == [k \in Key |-> ItemOf(k)]
busies == [k \in Key |-> WorkersOf(k)]

(* What a table says of a key. *)
ItemIn(rows, k) ==
  IF \E j \in Job : rows[j].key = k /\ rows[j].state = "running" THEN "held"
  ELSE IF \E j \in Job : rows[j].key = k /\ rows[j].state = "pending"
  THEN "queued" ELSE "idle"

Unique(rows) ==
  \A i, j \in Job : /\ rows[i].state \in Active /\ rows[j].state \in Active
                    /\ rows[i].key = rows[j].key
                    => i = j

LEMMA ItemHeld ==
  ASSUME NEW rows, NEW j \in Job, rows[j].state = "running"
  PROVE  ItemIn(rows, rows[j].key) = "held"
BY DEF ItemIn

LEMMA ItemQueued ==
  ASSUME NEW rows, Unique(rows), NEW j \in Job, rows[j].state = "pending"
  PROVE  ItemIn(rows, rows[j].key) = "queued"
<1>1. ~ \E i \in Job : rows[i].key = rows[j].key /\ rows[i].state = "running"
  BY DEF Unique, Active
<1> QED BY <1>1 DEF ItemIn

LEMMA ItemIdle ==
  ASSUME NEW rows, NEW k, \A j \in Job : rows[j].state \in Active => rows[j].key # k
  PROVE  ItemIn(rows, k) = "idle"
BY DEF ItemIn, Active

LEMMA ItemSame ==
  ASSUME NEW rows, NEW new, NEW k,
         \A j \in Job : rows[j].key = k /\ rows[j].state \in Active
                          => new[j].key = k /\ new[j].state = rows[j].state,
         \A j \in Job : new[j].key = k /\ new[j].state \in Active
                          => rows[j].key = k /\ new[j].state = rows[j].state
  PROVE  ItemIn(new, k) = ItemIn(rows, k)
BY DEF ItemIn, Active

LEMMA ItemsAre ==
  /\ \A k \in Key : items[k] = ItemIn(jobs, k) /\ items'[k] = ItemIn(jobs', k)
  /\ items = [k \in Key |-> items[k]] /\ items' = [k \in Key |-> items'[k]]
BY DEF items, ItemOf, ItemIn

(* One row changes: the items of the other keys do not. *)
LEMMA OneRow ==
  ASSUME NEW j \in Job, NEW k \in Key,
         \A i \in Job \ {j} : jobs'[i] = jobs[i],
         jobs[j].state \in Active => jobs[j].key = k,
         jobs'[j].state \in Active => jobs'[j].key = k
  PROVE  \A l \in Key \ {k} : items'[l] = items[l]
<1> TAKE l \in Key \ {k}
<1>1. ItemIn(jobs', l) = ItemIn(jobs, l)
  BY ItemSame
<1> QED BY <1>1, ItemsAre

(* The abstract actions, once what they change is known. *)
LEMMA SubmitStep ==
  ASSUME NEW k \in Key, items[k] = "idle", items'[k] = "queued",
         \A l \in Key \ {k} : items'[l] = items[l], busies' = busies
  PROVE  Queue!Next
<1>1. items' = [items EXCEPT ![k] = "queued"]
  BY ItemsAre DEF items
<1>2. Queue!Submit(k)
  BY <1>1 DEF Queue!Submit, items, busies
<1> QED BY <1>2 DEF Queue!Next

LEMMA FinishStep ==
  ASSUME NEW k \in Key, items[k] = "held", items'[k] = "idle", busies[k] = {},
         \A l \in Key \ {k} : items'[l] = items[l], busies' = busies
  PROVE  Queue!Next
<1>1. items' = [items EXCEPT ![k] = "idle"]
  BY ItemsAre DEF items
<1>2. Queue!Finish(k)
  BY <1>1 DEF Queue!Finish, items, busies
<1> QED BY <1>2 DEF Queue!Next

LEMMA ReturnStep ==
  ASSUME NEW S \in SUBSET Key, busies' = busies,
         \A k \in S : items[k] = "held" /\ busies[k] = {} /\ items'[k] = "queued",
         \A l \in Key \ S : items'[l] = items[l]
  PROVE  Queue!Next
<1>1. items' = [k \in Key |-> IF k \in S THEN "queued" ELSE items[k]]
  BY ItemsAre
<1>2. Queue!Return(S)
  BY <1>1 DEF Queue!Return, items, busies
<1> QED BY <1>2 DEF Queue!Next

LEMMA StopStep ==
  ASSUME NEW W \in SUBSET Exec, items' = items,
         \A k \in Key : busies'[k] = busies[k] \ W
  PROVE  Queue!Next
<1>1. busies' = [k \in Key |-> busies[k] \ W]
  BY DEF busies
<1>2. Queue!Stop(W)
  BY <1>1 DEF Queue!Stop, items, busies
<1> QED BY <1>2 DEF Queue!Next

LEMMA SameWorkers ==
  ASSUME \A x \in Exec : runs[x] # None /\ runs[x].phase = "work" =>
           /\ runs'[x] # None
           /\ runs'[x].key = runs[x].key
           /\ runs'[x].phase = "work",
         \A x \in Exec : runs'[x] # None /\ runs'[x].phase = "work" =>
           /\ runs[x] # None
           /\ runs'[x].key = runs[x].key
           /\ runs[x].phase = "work"
  PROVE  busies' = busies
<1> SUFFICES ASSUME NEW k \in Key PROVE WorkersOf(k)' = WorkersOf(k)
  BY DEF busies
<1>1. ASSUME NEW x \in WorkersOf(k) PROVE x \in WorkersOf(k)'
  BY <1>1 DEF WorkersOf, InFlight
<1>2. ASSUME NEW x \in WorkersOf(k)' PROVE x \in WorkersOf(k)
  BY <1>2 DEF WorkersOf, InFlight
<1> QED BY <1>1, <1>2

(* Nobody works on a key whose running row no execution works on. *)
LEMMA NoWorker ==
  ASSUME QueueInv, NEW j \in Job, jobs[j].state = "running", jobs[j].key \in Key,
         \A y \in InFlight : runs[y].job = j => runs[y].phase # "work"
  PROVE  busies[jobs[j].key] = {}
<1> SUFFICES ASSUME NEW y \in InFlight, runs[y].key = jobs[j].key, runs[y].phase = "work"
             PROVE  FALSE
  BY DEF busies, WorkersOf
<1>1. /\ jobs[runs[y].job].state = "running" /\ jobs[runs[y].job].key = jobs[j].key
      /\ runs[y].job \in Job
  BY InFlightType DEF QueueInv, OwnsRow
<1>2. runs[y].job = j
  BY <1>1 DEF QueueInv, KeyUnique, Active
<1> QED BY <1>2

LEMMA ClaimFacts ==
  ASSUME TypeOK, NEW n \in Node, NEW c \in Closure, Claim(n, c)
  PROVE  \E S \in SUBSET Job : \E at \in [S -> Exec \ InFlight] :
           /\ \A j \in S : /\ jobs[j].state = "pending"
                           /\ jobs'[j].state = "running"
                           /\ jobs'[j].key = jobs[j].key
                           /\ at[j] \in InFlight'
                           /\ runs'[at[j]].job = j
                           /\ runs'[at[j]].key = jobs[j].key
                           /\ runs'[at[j]].phase = "work"
           /\ \A j \in Job \ S : jobs'[j] = jobs[j]
           /\ \A x \in Exec : x \notin {at[j] : j \in S} => runs'[x] = runs[x]
<1>1. PICK S \in Batch(n, tick[<<n, c>>].cap) : \E at \in [S -> Exec \ InFlight] :
        /\ \A i, j \in S : at[i] = at[j] => i = j
        /\ jobs' = [j \in Job |-> IF j \in S THEN Claimed(jobs[j], n) ELSE jobs[j]]
        /\ runs' = [x \in Exec |->
             IF \E j \in S : at[j] = x
             THEN LET j == CHOOSE j \in S : at[j] = x IN
                  [job |-> j, node |-> n, key |-> jobs[j].key,
                   attempts |-> NextAttempt(jobs[j].attempts), phase |-> "work"]
             ELSE runs[x]]
  BY DEF Claim
<1>2. PICK at \in [S -> Exec \ InFlight] :
        /\ \A i, j \in S : at[i] = at[j] => i = j
        /\ jobs' = [j \in Job |-> IF j \in S THEN Claimed(jobs[j], n) ELSE jobs[j]]
        /\ runs' = [x \in Exec |->
             IF \E j \in S : at[j] = x
             THEN LET j == CHOOSE j \in S : at[j] = x IN
                  [job |-> j, node |-> n, key |-> jobs[j].key,
                   attempts |-> NextAttempt(jobs[j].attempts), phase |-> "work"]
             ELSE runs[x]]
  BY <1>1
<1>3. S \in SUBSET Job /\ \A j \in S : jobs[j].state = "pending"
  BY DEF Batch, Claimable
<1>4. \A j \in S : jobs'[j].state = "running" /\ jobs'[j].key = jobs[j].key
  BY <1>2, <1>3 DEF Claimed, TypeOK, Row
<1>5. ASSUME NEW j \in S
      PROVE  /\ at[j] \in InFlight' /\ runs'[at[j]].job = j
             /\ runs'[at[j]].key = jobs[j].key /\ runs'[at[j]].phase = "work"
  <2> DEFINE r == [job |-> j, node |-> n, key |-> jobs[j].key,
                   attempts |-> NextAttempt(jobs[j].attempts), phase |-> "work"]
  <2>1. at[j] \in Exec
    OBVIOUS
  <2>2. (CHOOSE i \in S : at[i] = at[j]) = j
    BY <1>2
  <2>3. runs'[at[j]] = r
    BY <1>2, <2>1, <2>2
  <2>4. r \in Flight
    <3>1. jobs[j] \in Row
      BY <1>3 DEF TypeOK
    <3>2. NextAttempt(jobs[j].attempts) \in Nat
      BY <3>1, JobsAssumption DEF NextAttempt, Row
    <3> QED BY <1>3, <3>1, <3>2 DEF Flight, Phases, Row
  <2>5. r # None
    BY <2>4, FlightAssumption
  <2>6. at[j] \in InFlight'
    BY <2>1, <2>3, <2>5 DEF InFlight
  <2> QED BY <2>3, <2>6
<1>6. \A j \in Job \ S : jobs'[j] = jobs[j]
  BY <1>2
<1>7. \A x \in Exec : x \notin {at[j] : j \in S} => runs'[x] = runs[x]
  BY <1>2
<1> HIDE <1>2
<1>8. /\ \A j \in S : /\ jobs[j].state = "pending"
                      /\ jobs'[j].state = "running"
                      /\ jobs'[j].key = jobs[j].key
                      /\ at[j] \in InFlight'
                      /\ runs'[at[j]].job = j
                      /\ runs'[at[j]].key = jobs[j].key
                      /\ runs'[at[j]].phase = "work"
      /\ \A j \in Job \ S : jobs'[j] = jobs[j]
      /\ \A x \in Exec : x \notin {at[j] : j \in S} => runs'[x] = runs[x]
  BY <1>3, <1>4, <1>5, <1>6, <1>7
<1> QED BY <1>3, <1>8

LEMMA ClaimTakes ==
  ASSUME QueueInv, QueueInv', NEW n \in Node, NEW c \in Closure, Claim(n, c)
  PROVE  Queue!Next
<1>1. PICK S \in SUBSET Job : \E at \in [S -> Exec \ InFlight] :
        /\ \A j \in S : /\ jobs[j].state = "pending"
                        /\ jobs'[j].state = "running"
                        /\ jobs'[j].key = jobs[j].key
                        /\ at[j] \in InFlight'
                        /\ runs'[at[j]].job = j
                        /\ runs'[at[j]].key = jobs[j].key
                        /\ runs'[at[j]].phase = "work"
        /\ \A j \in Job \ S : jobs'[j] = jobs[j]
        /\ \A x \in Exec : x \notin {at[j] : j \in S} => runs'[x] = runs[x]
  BY ClaimFacts DEF QueueInv
<1>2. PICK at \in [S -> Exec \ InFlight] :
        /\ \A j \in S : /\ jobs[j].state = "pending"
                        /\ jobs'[j].state = "running"
                        /\ jobs'[j].key = jobs[j].key
                        /\ at[j] \in InFlight'
                        /\ runs'[at[j]].job = j
                        /\ runs'[at[j]].key = jobs[j].key
                        /\ runs'[at[j]].phase = "work"
        /\ \A j \in Job \ S : jobs'[j] = jobs[j]
        /\ \A x \in Exec : x \notin {at[j] : j \in S} => runs'[x] = runs[x]
  BY <1>1
<1>3. PICK K \in SUBSET Key : K = {jobs[j].key : j \in S}
  <2>1. \A j \in S : jobs[j].key \in Key
    BY DEF QueueInv, TypeOK, Row
  <2>2. {jobs[j].key : j \in S} \in SUBSET Key
    BY <2>1
  <2> QED BY <2>2
<1>4. Unique(jobs) /\ Unique(jobs')
  BY DEF QueueInv, KeyUnique, Unique
<1>5. \A k \in K : items[k] = "queued" /\ items'[k] = "held"
  <2> SUFFICES ASSUME NEW j \in S
               PROVE  items[jobs[j].key] = "queued" /\ items'[jobs[j].key] = "held"
    BY <1>3
  <2>1. jobs[j].key \in Key
    BY <1>3
  <2>2. ItemIn(jobs, jobs[j].key) = "queued"
    BY <1>2, <1>4, ItemQueued
  <2>3. ItemIn(jobs', jobs[j].key) = "held"
    BY <1>2, ItemHeld
  <2> QED BY <2>1, <2>2, <2>3, ItemsAre
<1>6. \A k \in Key \ K : items'[k] = items[k]
  <2> TAKE k \in Key \ K
  <2>1. \A j \in Job : jobs[j].key = k \/ jobs'[j].key = k => jobs'[j] = jobs[j]
    BY <1>2, <1>3
  <2>2. ItemIn(jobs', k) = ItemIn(jobs, k)
    BY <2>1, ItemSame
  <2> QED BY <2>2, ItemsAre
<1> DEFINE w == [k \in K |-> at[CHOOSE j \in S : jobs[j].key = k]]
<1>7. ASSUME NEW k \in K
      PROVE  w[k] \in Exec /\ WorkersOf(k)' = {w[k]}
  <2> DEFINE j == CHOOSE j \in S : jobs[j].key = k
  <2>1. j \in S /\ jobs[j].key = k
    BY <1>3
  <2>2. w[k] = at[j]
    OBVIOUS
  <2> HIDE DEF w
  <2>3. PICK i \in S : i = j
    BY <2>1
  <2> HIDE DEF j
  <2>4. /\ jobs'[i].state = "running" /\ jobs'[i].key = k
        /\ w[k] \in InFlight' /\ runs'[w[k]].job = i
        /\ runs'[w[k]].key = k /\ runs'[w[k]].phase = "work"
    BY <1>2, <2>1, <2>2, <2>3
  <2>5. w[k] \in Exec
    BY <2>4 DEF InFlight
  <2>6. w[k] \in WorkersOf(k)'
    BY <2>4 DEF WorkersOf
  <2>7. ASSUME NEW x \in WorkersOf(k)' PROVE x = w[k]
    <3>1. x \in InFlight' /\ runs'[x].key = k /\ runs'[x].phase = "work"
      BY <2>7 DEF WorkersOf
    <3>2. jobs'[runs'[x].job].state = "running" /\ jobs'[runs'[x].job].key = k
      BY <3>1 DEF QueueInv, OwnsRow
    <3>3. runs'[x].job \in Job
      BY <3>1 DEF QueueInv, TypeOK, InFlight, Flight
    <3>4. runs'[x].job = i
      BY <2>4, <3>2, <3>3 DEF QueueInv, KeyUnique, Active
    <3> QED BY <2>4, <3>1, <3>4 DEF QueueInv, OneRunPerRow
  <2> QED BY <2>5, <2>6, <2>7
<1>8. ASSUME NEW k \in Key \ K
      PROVE  WorkersOf(k)' = WorkersOf(k)
  <2>1. ASSUME NEW x \in WorkersOf(k)' PROVE x \in WorkersOf(k)
    <3>1. x \in Exec /\ runs'[x].key = k
      BY <2>1 DEF WorkersOf, InFlight
    <3>2. \A j \in S : at[j] # x
      BY <1>2, <1>3, <3>1
    <3>3. runs'[x] = runs[x]
      BY <1>2, <3>1, <3>2
    <3> QED BY <2>1, <3>1, <3>3 DEF WorkersOf, InFlight
  <2>2. ASSUME NEW x \in WorkersOf(k) PROVE x \in WorkersOf(k)'
    <3>1. x \in InFlight
      BY <2>2 DEF WorkersOf
    <3>2. \A j \in S : at[j] # x
      BY <3>1
    <3>3. x \in Exec /\ runs'[x] = runs[x]
      BY <1>2, <3>1, <3>2 DEF InFlight
    <3> QED BY <2>2, <3>1, <3>3 DEF WorkersOf, InFlight
  <2> QED BY <2>1, <2>2
<1> HIDE DEF w
<1>9. w \in [K -> Exec]
  BY <1>7 DEF w
<1>10. busies' = [k \in Key |-> IF k \in K THEN {w[k]} ELSE busies[k]]
  BY <1>7, <1>8 DEF busies
<1>11. items' = [k \in Key |-> IF k \in K THEN "held" ELSE items[k]]
  BY <1>5, <1>6, ItemsAre
<1>12. Queue!Take(K)
  BY <1>5, <1>9, <1>10, <1>11 DEF Queue!Take, items, busies
<1> QED BY <1>12 DEF Queue!Next

LEMMA ReapReturns ==
  ASSUME QueueInv, QueueInv', NEW n \in Node, NEW c \in Closure, Reap(n, c)
  PROVE  Queue!Next
<1>1. /\ runs' = runs
      /\ \A j \in Job : jobs'[j] = IF Lapsed(j) THEN Pending(jobs[j]) ELSE jobs[j]
  BY DEF Reap
<1>2. \A j \in Job : Lapsed(j) => jobs'[j].state = "pending" /\ jobs'[j].key = jobs[j].key
  BY <1>1 DEF Pending, QueueInv, TypeOK, Row
<1>3. PICK K \in SUBSET Key : K = {jobs[j].key : j \in {j \in Job : Lapsed(j)}}
  <2>1. \A j \in Job : jobs[j].key \in Key
    BY DEF QueueInv, TypeOK, Row
  <2>2. {jobs[j].key : j \in {j \in Job : Lapsed(j)}} \in SUBSET Key
    BY <2>1
  <2> QED BY <2>2
<1>4. Unique(jobs')
  BY DEF QueueInv, KeyUnique, Unique
<1>5. \A k \in K : items[k] = "held" /\ busies[k] = {} /\ items'[k] = "queued"
  <2> SUFFICES ASSUME NEW j \in Job, Lapsed(j)
               PROVE  /\ items[jobs[j].key] = "held" /\ busies[jobs[j].key] = {}
                      /\ items'[jobs[j].key] = "queued"
    BY <1>3
  <2>1. jobs[j].key \in Key /\ jobs[j].state = "running" /\ jobs[j].lease = "lapsed"
    BY DEF QueueInv, TypeOK, Row, Lapsed
  <2>2. ItemIn(jobs, jobs[j].key) = "held"
    BY <2>1, ItemHeld
  <2>3. ItemIn(jobs', jobs[j].key) = "queued"
    BY <1>2, <1>4, ItemQueued
  <2>4. busies[jobs[j].key] = {}
    BY <2>1, NoWorker DEF QueueInv, OwnsRow
  <2> QED BY <2>1, <2>2, <2>3, <2>4, ItemsAre
<1>6. \A k \in Key \ K : items'[k] = items[k]
  <2> TAKE k \in Key \ K
  <2>1. \A j \in Job : jobs[j].key = k \/ jobs'[j].key = k => jobs'[j] = jobs[j]
    BY <1>1, <1>2, <1>3
  <2>2. ItemIn(jobs', k) = ItemIn(jobs, k)
    BY <2>1, ItemSame
  <2> QED BY <2>2, ItemsAre
<1>7. busies' = busies
  BY <1>1, SameWorkers
<1> QED BY <1>5, <1>6, <1>7, ReturnStep

(* enqueue() of a key without an active row: the item waits. *)
LEMMA EnqueueSubmits ==
  ASSUME QueueInv, QueueInv', NEW k \in Key, NEW g \in Group, NEW p \in Nat,
         Enqueue(k, g, p), runs' = runs
  PROVE  Queue!Next \/ (items' = items /\ busies' = busies)
<1>1. busies' = busies
  BY SameWorkers
<1>2. CASE jobs' = jobs
  BY <1>1, <1>2 DEF items, ItemOf
<1>3. CASE /\ KeyFree(k, jobs)
           /\ \E j \in Job : /\ jobs[j].state = "absent"
                             /\ jobs' = [jobs EXCEPT ![j] = NewRow(k, g, p)]
  <2>1. PICK j \in Job : /\ jobs[j].state = "absent"
                         /\ jobs' = [jobs EXCEPT ![j] = NewRow(k, g, p)]
    BY <1>3
  <2>2. /\ jobs'[j].key = k /\ jobs'[j].state = "pending"
        /\ \A i \in Job \ {j} : jobs'[i] = jobs[i]
    BY <2>1 DEF QueueInv, TypeOK, NewRow
  <2>3. items[k] = "idle"
    <3>1. \A i \in Job : jobs[i].state \in Active => jobs[i].key # k
      BY <1>3 DEF KeyFree
    <3>2. ItemIn(jobs, k) = "idle"
      BY <3>1, ItemIdle
    <3> QED BY <3>2, ItemsAre
  <2>4. items'[k] = "queued"
    <3>1. Unique(jobs')
      BY DEF QueueInv, KeyUnique, Unique
    <3>2. ItemIn(jobs', k) = "queued"
      BY <2>2, <3>1, ItemQueued
    <3> QED BY <3>2, ItemsAre
  <2>5. \A l \in Key \ {k} : items'[l] = items[l]
    BY <2>1, <2>2, OneRow DEF Active
  <2> QED BY <1>1, <2>3, <2>4, <2>5, SubmitStep
<1> QED BY <1>2, <1>3, EnqueueEffect DEF QueueInv

(* One row that nobody works on changes its state. *)
LEMMA RowMoves ==
  ASSUME QueueInv, QueueInv', NEW j \in Job, busies' = busies,
         \A i \in Job \ {j} : jobs'[i] = jobs[i],
         \/ jobs'[j].key = jobs[j].key
         \/ jobs[j].state \notin Active /\ jobs'[j].state \notin Active,
         \/ jobs'[j].state = jobs[j].state
         \/ jobs[j].state \notin Active /\ jobs'[j].state \notin Active
         \/ /\ jobs[j].state = "running"
            /\ jobs'[j].state = "pending" \/ jobs'[j].state \notin Active
            /\ \A y \in InFlight : runs[y].job = j => runs[y].phase # "work"
         \/ jobs[j].state \notin Active /\ jobs'[j].state = "pending"
  PROVE  Queue!Next \/ (items' = items /\ busies' = busies)
<1> USE DEF Active
<1>1. jobs[j].key \in Key /\ Unique(jobs) /\ Unique(jobs')
  BY DEF QueueInv, TypeOK, Row, KeyUnique, Unique
<1>2. PICK k \in Key : k = jobs[j].key
  BY <1>1
<1>3. CASE \/ jobs'[j].state = jobs[j].state /\ jobs'[j].key = jobs[j].key
           \/ jobs[j].state \notin Active /\ jobs'[j].state \notin Active
  <2>1. \A l \in Key : ItemIn(jobs', l) = ItemIn(jobs, l)
    BY <1>3, ItemSame
  <2>2. items' = items
    BY <2>1, ItemsAre
  <2> QED BY <2>2
<1>4. CASE jobs'[j].key = jobs[j].key
  <2>1. \A l \in Key \ {k} : items'[l] = items[l]
    BY <1>2, <1>4, OneRow
  <2>2. ASSUME jobs[j].state = "running" \/ jobs'[j].state = "pending",
               jobs'[j].state \notin Active
        PROVE  items'[k] = "idle"
    <3>1. \A i \in Job : jobs'[i].state \in Active => jobs'[i].key # k
      BY <1>1, <1>2, <2>2 DEF Unique
    <3>2. ItemIn(jobs', k) = "idle"
      BY <3>1, ItemIdle
    <3> QED BY <3>2, ItemsAre
  <2>3. jobs'[j].state = "pending" => items'[k] = "queued"
    BY <1>1, <1>2, <1>4, ItemQueued, ItemsAre
  <2>4. jobs[j].state = "running" => items[k] = "held"
    BY <1>2, ItemHeld, ItemsAre
  <2>5. CASE /\ jobs[j].state = "running"
             /\ jobs'[j].state = "pending" \/ jobs'[j].state \notin Active
             /\ \A y \in InFlight : runs[y].job = j => runs[y].phase # "work"
    <3>1. busies[k] = {}
      BY <1>1, <1>2, <2>5, NoWorker
    <3>2. CASE jobs'[j].state = "pending"
      <4>1. {k} \in SUBSET Key
        OBVIOUS
      <4>2. \A l \in {k} : items[l] = "held" /\ busies[l] = {} /\ items'[l] = "queued"
        BY <2>3, <2>4, <2>5, <3>1, <3>2
      <4> QED BY <2>1, <4>1, <4>2, ReturnStep
    <3>3. CASE jobs'[j].state \notin Active
      BY <2>1, <2>2, <2>4, <2>5, <3>1, <3>3, FinishStep
    <3> QED BY <2>5, <3>2, <3>3
  <2>6. CASE jobs[j].state \notin Active /\ jobs'[j].state = "pending"
    <3>1. \A i \in Job : jobs[i].state \in Active => jobs[i].key # k
      BY <1>1, <1>2, <1>4, <2>6 DEF Unique
    <3>2. ItemIn(jobs, k) = "idle"
      BY <3>1, ItemIdle
    <3>3. items[k] = "idle"
      BY <3>2, ItemsAre
    <3> QED BY <2>1, <2>3, <2>6, <3>3, SubmitStep
  <2> QED BY <1>3, <1>4, <2>5, <2>6
<1> QED BY <1>3, <1>4

LEMMA RefinementStep ==
  ASSUME QueueInv, QueueInv', [Next]_vars
  PROVE  Queue!Next \/ (items' = items /\ busies' = busies)
<1>0. TypeOK
  BY DEF QueueInv
<1>1. ASSUME jobs' = jobs, busies' = busies
      PROVE  items' = items /\ busies' = busies
  BY <1>1 DEF items, ItemOf
<1>2. CASE UNCHANGED <<jobs, runs>>
  BY <1>1, <1>2, SameWorkers
<1>3. ASSUME NEW n \in Node, NEW c \in Closure, Schedule(n, c)
      PROVE  Queue!Next \/ (items' = items /\ busies' = busies)
  <2>1. PICK kg \in tick[<<n, c>>].todo :
          Enqueue(kg[1], kg[2], IF kg[1] \in Device THEN DevicePrio ELSE SinglePrio)
    BY <1>3 DEF Schedule
  <2>2. kg[1] \in Key /\ kg[2] \in Group /\ runs' = runs
    BY <1>0, <1>3 DEF TypeOK, Ticks, Schedule
  <2> QED BY <2>1, <2>2, EnqueueSubmits DEF DevicePrio, SinglePrio
<1>4. ASSUME NEW d \in Device, NEW g \in Group, PollNowEnqueue(d, g)
      PROVE  Queue!Next \/ (items' = items /\ busies' = busies)
  BY <1>4, EnqueueSubmits DEF PollNowEnqueue, OperatorPrio, Key
<1>5. ASSUME NEW n \in Node, NEW c \in Closure, Reap(n, c) \/ Claim(n, c)
      PROVE  Queue!Next
  BY <1>5, ReapReturns, ClaimTakes
<1>6. ASSUME NEW x \in Exec, EngineReturns(x) \/ EngineThrows(x)
      PROVE  Queue!Next
  <2>1. PICK p \in {"complete", "fail"} : Goto(x, p)
    BY <1>6 DEF EngineReturns, EngineThrows
  <2>2. runs[x] \in Flight /\ jobs' = jobs /\ runs[x] # None
    BY <1>0, <1>6 DEF EngineReturns, EngineThrows, TypeOK
  <2>3. /\ runs'[x].phase = p /\ \A y \in Exec \ {x} : runs'[y] = runs[y]
    BY <1>0, <2>1, <2>2 DEF Goto, TypeOK, Flight
  <2>4. ASSUME NEW k \in Key PROVE WorkersOf(k)' = WorkersOf(k) \ {x}
    <3>1. ASSUME NEW y \in WorkersOf(k)' PROVE y \in WorkersOf(k) \ {x}
      BY <2>3, <3>1 DEF WorkersOf, InFlight
    <3>2. ASSUME NEW y \in WorkersOf(k) \ {x} PROVE y \in WorkersOf(k)'
      BY <2>3, <3>2 DEF WorkersOf, InFlight
    <3> QED BY <3>1, <3>2
  <2>5. \A k \in Key : busies'[k] = busies[k] \ {x}
    BY <2>4 DEF busies
  <2>6. items' = items
    BY <2>2 DEF items, ItemOf
  <2> QED BY <2>5, <2>6, StopStep
<1>7. ASSUME NEW x \in Exec, Goto(x, "count") \/ Goto(x, "fail"),
             runs[x] # None, runs[x].phase # "work"
      PROVE  busies' = busies
  <2>1. PICK p \in {"count", "fail"} : Goto(x, p)
    BY <1>7
  <2>2. runs[x] \in Flight
    BY <1>0, <1>7 DEF TypeOK
  <2>3. /\ runs'[x].phase = p /\ \A y \in Exec \ {x} : runs'[y] = runs[y]
    BY <1>0, <2>1, <2>2 DEF Goto, TypeOK, Flight
  <2> QED BY <1>7, <2>3, SameWorkers
<1>8. ASSUME NEW x \in Exec, CompletionThrows(x)
      PROVE  items' = items /\ busies' = busies
  <2>1. jobs' = jobs /\ busies' = busies
    BY <1>7, <1>8 DEF CompletionThrows
  <2> QED BY <1>1, <2>1
<1>9. ASSUME NEW x \in Exec, Complete(x)
      PROVE  Queue!Next \/ (items' = items /\ busies' = busies)
  <2>1. busies' = busies
    BY <1>7, <1>9 DEF Complete
  <2>2. x \in InFlight /\ runs[x].phase = "complete"
    BY <1>9 DEF Complete, InFlight
  <2>3. PICK j \in Job : j = runs[x].job
    BY <1>0, <2>2, InFlightType
  <2>4. jobs[j].state = "running" /\ jobs[j] \in Row
    BY <1>0, <2>2, <2>3 DEF QueueInv, OwnsRow, TypeOK
  <2>5. /\ jobs'[j].state = "done" /\ jobs'[j].key = jobs[j].key
        /\ \A i \in Job \ {j} : jobs'[i] = jobs[i]
    BY <1>0, <1>9, <2>3, <2>4 DEF Complete, TypeOK, Row
  <2>6. \A y \in InFlight : runs[y].job = j => runs[y].phase # "work"
    BY <2>2, <2>3 DEF QueueInv, OneRunPerRow
  <2> QED BY <2>1, <2>4, <2>5, <2>6, RowMoves DEF Active
<1>10. ASSUME NEW x \in Exec, Land(x), runs[x].phase # "work"
       PROVE  busies' = busies
  <2>1. runs'[x] = None /\ \A y \in Exec \ {x} : runs'[y] = runs[y]
    BY <1>0, <1>10 DEF Land, TypeOK
  <2> QED BY <1>10, <2>1, SameWorkers
<1>11. ASSUME NEW x \in Exec, Count(x) \/ FailThrows(x)
       PROVE  items' = items /\ busies' = busies
  <2>1. jobs' = jobs /\ busies' = busies
    BY <1>10, <1>11 DEF Count, FailThrows
  <2> QED BY <1>1, <2>1
<1>12. ASSUME NEW x \in Exec, Fail(x)
       PROVE  Queue!Next \/ (items' = items /\ busies' = busies)
  <2>1. busies' = busies
    BY <1>10, <1>12 DEF Fail
  <2>2. x \in InFlight /\ runs[x].phase = "fail"
    BY <1>12 DEF Fail, InFlight
  <2>3. PICK j \in Job : j = runs[x].job
    BY <1>0, <2>2, InFlightType
  <2>4. jobs[j].state \in {"running", "done"} /\ jobs[j] \in Row
    BY <1>0, <2>2, <2>3 DEF QueueInv, OwnsRow, TypeOK
  <2>5. \A i \in Job \ {j} : jobs'[i] = jobs[i]
    BY <1>0, <1>12, <2>3 DEF Fail, TypeOK
  <2>6. /\ jobs'[j].key = jobs[j].key
        /\ jobs'[j] = jobs[j] \/ jobs'[j].state \in {"dead", "pending"}
    BY <1>0, <1>12, <2>3, <2>4 DEF Fail, Pending, TypeOK, Row
  <2>7. \A y \in InFlight : runs[y].job = j => runs[y].phase # "work"
    BY <2>2, <2>3 DEF QueueInv, OneRunPerRow
  <2> QED BY <2>1, <2>4, <2>5, <2>6, <2>7, RowMoves DEF Active
<1>13. ASSUME NEW n \in Node, Crash(n)
       PROVE  Queue!Next
  <2> DEFINE W == {x \in InFlight : runs[x].node = n}
  <2>1. /\ jobs' = jobs
        /\ \A x \in Exec : runs'[x] = IF x \in W THEN None ELSE runs[x]
    BY <1>13 DEF Crash
  <2>2. PICK V \in SUBSET Exec : V = W
    BY DEF InFlight
  <2> HIDE DEF W
  <2>3. ASSUME NEW k \in Key PROVE WorkersOf(k)' = WorkersOf(k) \ V
    <3>1. ASSUME NEW y \in WorkersOf(k)' PROVE y \in WorkersOf(k) \ V
      BY <2>1, <2>2, <3>1 DEF WorkersOf, InFlight
    <3>2. ASSUME NEW y \in WorkersOf(k) \ V PROVE y \in WorkersOf(k)'
      BY <2>1, <2>2, <3>2 DEF WorkersOf, InFlight
    <3> QED BY <3>1, <3>2
  <2>4. \A k \in Key : busies'[k] = busies[k] \ V
    BY <2>3 DEF busies
  <2>5. items' = items
    BY <2>1 DEF items, ItemOf
  <2> QED BY <2>4, <2>5, StopStep
<1>14. ASSUME NEW j \in Job, Replay(j) \/ LeaseLapses(j) \/ BackoffElapses(j) \/ Trim(j)
       PROVE  Queue!Next \/ (items' = items /\ busies' = busies)
  <2>1. runs' = runs /\ jobs[j] \in Row
    BY <1>0, <1>14 DEF Replay, LeaseLapses, BackoffElapses, Trim, TypeOK
  <2>2. busies' = busies
    BY <2>1, SameWorkers
  <2>3. \A i \in Job \ {j} : jobs'[i] = jobs[i]
    BY <1>0, <1>14 DEF Replay, LeaseLapses, BackoffElapses, Trim, TypeOK
  <2>4. CASE Replay(j)
    <3> DEFINE g == IF jobs[j].key \in Device THEN devGroup[jobs[j].key]
                    ELSE jobs[j].group
    <3>1. jobs'[j] = [Pending(jobs[j]) EXCEPT !.attempts = 0, !.due = TRUE, !.group = g]
      BY <1>0, <2>4 DEF Replay, TypeOK
    <3> HIDE DEF g
    <3>2. jobs'[j].key = jobs[j].key /\ jobs'[j].state = "pending"
      BY <2>1, <3>1 DEF Pending, Row
    <3>3. jobs[j].state \in {"dead", "pending"}
      BY <2>4 DEF Replay
    <3> QED BY <2>2, <2>3, <3>2, <3>3, RowMoves DEF Active
  <2>5. CASE LeaseLapses(j) \/ BackoffElapses(j)
    <3>1. jobs'[j].key = jobs[j].key /\ jobs'[j].state = jobs[j].state
      BY <1>0, <2>1, <2>5 DEF LeaseLapses, BackoffElapses, TypeOK, Row
    <3> QED BY <2>2, <2>3, <3>1, RowMoves
  <2>6. CASE Trim(j)
    <3>1. jobs'[j].state = "absent" /\ jobs[j].state = "done"
      BY <1>0, <2>6 DEF Trim, TypeOK, AbsentRow, NewRow
    <3> QED BY <2>2, <2>3, <3>1, RowMoves DEF Active
  <2> QED BY <1>14, <2>4, <2>5, <2>6
<1> QED BY <1>2, <1>3, <1>4, <1>5, <1>6, <1>8, <1>9, <1>11, <1>12, <1>13, <1>14
        DEF Next, TickStep, ExecStep, vars, StartDispatcher, StopDispatcher,
            TickStart, Check, TickFails, SetEnabled, Restart, PollNowStamp,
            DeviceDue, Regroup, NextBucket

(* The table, its unfenced UPDATEs, the reaper and the dispatchers of all    *)
(* nodes implement the queue of JobQueue, for every number of nodes, rows   *)
(* and keys, as long as no execution outlives its lease (queue.ts:4-9).     *)
THEOREM ImplementsJobQueue ==
  ASSUME "slow" \notin Faults
  PROVE  Spec => ImplementsQueue
<1>1. Init => Queue!Init
  <2> SUFFICES ASSUME Init PROVE Queue!Init
    OBVIOUS
  <2>1. InFlight = {} /\ \A j \in Job : jobs[j].state = "absent"
    BY DEF Init, InFlight, AbsentRow, NewRow
  <2> QED BY <2>1 DEF Queue!Init, ItemOf, WorkersOf
<1>2. QueueInv /\ QueueInv' /\ [Next]_vars => [Queue!Next]_<<items, busies>>
  BY RefinementStep
<1>3. QueueInv /\ QueueInv' /\ [Next]_vars => [Queue!Next]_<<
        [k \in Key |-> ItemOf(k)], [k \in Key |-> WorkersOf(k)]>>
  BY <1>2 DEF items, busies
<1> QED BY <1>1, <1>3, QueueInvariant, PTL DEF Spec, ImplementsQueue, Queue!Spec
=============================================================================
