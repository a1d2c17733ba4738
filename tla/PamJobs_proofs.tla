---------------------------- MODULE PamJobs_proofs ----------------------------
(***************************************************************************)
(* What holds of the rotations of an account for any number of jobs,       *)
(* workers, runners, report handlers and faults.                           *)
(***************************************************************************)
EXTENDS PamJobs, TLAPS

-----------------------------------------------------------------------------
(* Types.  Workers, runners and report handlers have courses of their own; what
   is not idle has a job, and a report has its runner. *)

WorkerPC == {"idle", "picked", "load", "change", "store", "reload", "verify",
             "settle", "final", "flag"}
RunnerPC == {"idle", "picked", "load", "pend", "change", "check", "report",
             "resend", "wait", "wait2"}
RequestPC == {"idle", "sent", "seal", "manage", "clear", "final", "flag", "done"}

Course(p, a) ==
  /\ p \in Worker => a.pc \in WorkerPC
  /\ p \in Runner => a.pc \in RunnerPC
  /\ p \in Request => a.pc \in RequestPC
  /\ a.pc # "idle" => a.job \in Job
  /\ a.pc = "seal" => a.cred # None
  /\ a.pc \in {"wait", "wait2"} => a.peer \in Request
  /\ p \in Request /\ a.pc # "idle" => a.peer \in Runner

Typed == TypeOK /\ \A p \in Thread : Course(p, act[p])

LEMMA IdleType == Idle \in Local /\ \A p \in Thread : Course(p, Idle)
BY DEF Idle, Local, PC, Course, WorkerPC, RunnerPC, RequestPC

LEMMA LocalOf ==
  ASSUME Typed, NEW p \in Thread
  PROVE  act[p] \in Local /\ Course(p, act[p])
BY DEF Typed, TypeOK

LEMMA RowOf ==
  ASSUME Typed, NEW j \in Job
  PROVE  job[j] \in Row
BY DEF Typed, TypeOK

(* One thread moves. *)
LEMMA MoveTyped ==
  ASSUME Typed, NEW p \in Thread, NEW a \in Local, Course(p, a),
         act' = [act EXCEPT ![p] = a]
  PROVE  /\ act' \in [Thread -> Local] /\ act'[p] = a
         /\ \A x \in Thread : x # p => act'[x] = act[x]
         /\ \A x \in Thread : Course(x, act'[x])
<1>1. act \in [Thread -> Local]
  BY DEF Typed, TypeOK
<1>2. act' \in [Thread -> Local] /\ act'[p] = a /\ \A x \in Thread : x # p => act'[x] = act[x]
  BY <1>1
<1>3. \A x \in Thread : Course(x, act'[x])
  BY <1>2 DEF Typed
<1> QED BY <1>2, <1>3

LEMMA CredentialTypes ==
  ASSUME Typed, NEW p \in Thread, act[p].job \in Job
  PROVE  New(p) \in Credential /\ Initial \in Credential
BY LocalOf DEF New, Initial, Credential, Local

LEMMA OutcomeType ==
  ASSUME Typed, NEW p \in Worker \cup Runner, act[p].job \in Job,
         NEW ok \in BOOLEAN, NEW term \in BOOLEAN
  PROVE  /\ Outcome(p, ok, term) \in Local /\ Course(p, Outcome(p, ok, term))
         /\ Outcome(p, ok, term).job = act[p].job
         /\ Outcome(p, ok, term).try = act[p].try
         /\ Outcome(p, ok, term).ok = ok
         /\ Outcome(p, ok, term).pc = IF p \in Runner THEN "report" ELSE "final"
<1>1. p \in Thread /\ act[p] \in Local
  BY LocalOf DEF Thread
<1>2. /\ Outcome(p, ok, term) \in Local
      /\ Outcome(p, ok, term).job = act[p].job
      /\ Outcome(p, ok, term).try = act[p].try
      /\ Outcome(p, ok, term).ok = ok
      /\ Outcome(p, ok, term).pc = IF p \in Runner THEN "report" ELSE "final"
  BY <1>1 DEF Outcome, Local, PC
<1>3. Course(p, Outcome(p, ok, term))
  BY <1>2, JobsAssumption DEF Course, WorkerPC, RunnerPC
<1> QED BY <1>2, <1>3

-----------------------------------------------------------------------------
(* What the steps make of the thread that takes them *)

Others(p) == \A x \in Thread : x # p => act'[x] = act[x]

Becomes(p, pc, j, try, ok) ==
  /\ act' \in [Thread -> Local] /\ Others(p)
  /\ act'[p].pc = pc /\ act'[p].job = j /\ act'[p].try = try
  /\ act'[p].ok = ok /\ act'[p].peer = act[p].peer

LEMMA GotoBecomes ==
  ASSUME Typed, NEW p \in Thread, NEW pc \in PC, Goto(p, pc)
  PROVE  Becomes(p, pc, act[p].job, act[p].try, act[p].ok) /\ act'[p].cred = act[p].cred
BY DEF Goto, Becomes, Others, Typed, TypeOK, Local

LEMMA PickBecomes ==
  ASSUME Typed, NEW p \in Thread, NEW j \in Job, Pick(p, j)
  PROVE  Becomes(p, "picked", j, act[p].try, act[p].ok)
<1>1. act \in [Thread -> Local] /\ act[p] \in Local /\ vault \in Credential
  BY LocalOf DEF Typed, TypeOK
<1>2. /\ DOMAIN act = Thread /\ \A x \in Thread : act[x] \in Local
  BY <1>1
<1> QED BY <1>1 DEF Pick, Becomes, Others, Local, PC

LEMMA ClaimBecomes ==
  ASSUME Typed, NEW p \in Thread, Claim(p)
  PROVE  /\ act[p].job \in Job /\ p \in Worker \cup Runner
         /\ Becomes(p, "load", act[p].job, job[act[p].job].attempts + 1, act[p].ok)
<1>1. act[p].job \in Job /\ act[p] \in Local /\ p \in Worker \cup Runner
  BY LocalOf DEF Claim, At, Course, Thread, RequestPC
<1>2. job[act[p].job].attempts + 1 \in Nat
  BY <1>1, RowOf DEF Row
<1> QED BY <1>1, <1>2 DEF Claim, Becomes, Others, Typed, TypeOK, Local, PC

LEMMA LoadBecomes ==
  ASSUME Typed, NEW p \in Thread, Load(p)
  PROVE  Becomes(p, IF p \in Runner THEN "pend" ELSE "change", act[p].job, act[p].try, act[p].ok)
<1>1. act \in [Thread -> Local] /\ act[p] \in Local /\ vault \in Credential
  BY LocalOf DEF Typed, TypeOK
<1>2. /\ DOMAIN act = Thread /\ \A x \in Thread : act[x] \in Local
  BY <1>1
<1> QED BY <1>1 DEF Load, Becomes, Others, Local, PC

LEMMA ReloadBecomes ==
  ASSUME Typed, NEW p \in Thread, Reload(p)
  PROVE  Becomes(p, "verify", act[p].job, act[p].try, act[p].ok)
<1>1. act \in [Thread -> Local] /\ act[p] \in Local /\ vault \in Credential
  BY LocalOf DEF Typed, TypeOK
<1>2. /\ DOMAIN act = Thread /\ \A x \in Thread : act[x] \in Local
  BY <1>1
<1> QED BY <1>1 DEF Reload, Becomes, Others, Local, PC

LEMMA VerifyBecomes ==
  ASSUME Typed, NEW p \in Thread, NEW ok \in BOOLEAN, Verify(p, ok)
  PROVE  Becomes(p, "settle", act[p].job, act[p].try, ok)
<1>1. act \in [Thread -> Local] /\ act[p] \in Local /\ vault \in Credential
  BY LocalOf DEF Typed, TypeOK
<1>2. /\ DOMAIN act = Thread /\ \A x \in Thread : act[x] \in Local
  BY <1>1
<1> QED BY <1>1 DEF Verify, Becomes, Others, Local, PC

LEMMA OutcomeBecomes ==
  ASSUME Typed, NEW p \in Worker \cup Runner, act[p].job \in Job,
         NEW ok \in BOOLEAN, NEW term \in BOOLEAN,
         act' = [act EXCEPT ![p] = Outcome(p, ok, term)]
  PROVE  Becomes(p, IF p \in Runner THEN "report" ELSE "final", act[p].job, act[p].try, ok)
<1>1. act \in [Thread -> Local] /\ p \in Thread /\ act[p] \in Local
  BY LocalOf DEF Typed, TypeOK, Thread
<1>2. Outcome(p, ok, term).peer = act[p].peer
  BY <1>1 DEF Outcome, Local
<1> QED BY <1>1, <1>2, OutcomeType DEF Becomes, Others

LEMMA DecideBecomes ==
  ASSUME Typed, NEW q \in Thread, Decide(q)
  PROVE  LET j == act[q].job IN
         /\ j \in Job /\ q \in Request
         /\ Holds(act[q].peer, j) =>
              /\ Becomes(q, IF act[q].ok /\ job[j].pending # None THEN "seal" ELSE "clear",
                         j, job[j].attempts, act[q].ok)
              /\ act'[q].cred = job[j].pending
         /\ ~ Holds(act[q].peer, j) => Becomes(q, "done", j, act[q].try, act[q].ok)
<1>1. act[q].job \in Job /\ act[q] \in Local /\ q \in Request
  BY LocalOf DEF Decide, At, Course, Thread, WorkerPC, RunnerPC
<1>2. job[act[q].job].attempts \in Nat /\ job[act[q].job].pending \in Credential \cup {None}
  BY <1>1, RowOf DEF Row
<1>3. act \in [Thread -> Local]
  BY DEF Typed, TypeOK
<1>4. CASE Holds(act[q].peer, act[q].job)
  BY <1>1, <1>2, <1>3, <1>4 DEF Decide, Becomes, Others, Local, PC
<1>5. CASE ~ Holds(act[q].peer, act[q].job)
  BY <1>1, <1>3, <1>5 DEF Decide, Becomes, Others, Local, PC
<1> QED BY <1>1, <1>4, <1>5

LEMMA LeaveBecomes ==
  ASSUME Typed, NEW p \in Thread, act' = Leave(p)
  PROVE  /\ p \in Request => Becomes(p, "done", act[p].job, act[p].try, act[p].ok)
         /\ p \notin Request =>
              act' \in [Thread -> Local] /\ Others(p) /\ act'[p] = Idle
<1>1. act \in [Thread -> Local]
  BY DEF Typed, TypeOK
<1>2. CASE p \in Request
  BY <1>1, <1>2 DEF Leave, Becomes, Others, Local, PC
<1>3. CASE p \notin Request
  BY <1>1, <1>3, IdleType DEF Leave, Others
<1> QED BY <1>2, <1>3

LEMMA ErroredType ==
  ASSUME Typed, NEW r \in Runner, act[r].pc \in {"wait", "wait2"}
  PROVE  /\ Errored(r) \in Local /\ Course(r, Errored(r))
         /\ At(r, "wait") => /\ Errored(r).pc = "resend" /\ Errored(r).job = act[r].job
                             /\ Errored(r).ok = FALSE
         /\ At(r, "wait2") => Errored(r) = Idle
<1>1. r \in Thread /\ act[r] \in Local /\ act[r].job \in Job
  BY LocalOf DEF Thread, Course
<1>2. CASE At(r, "wait")
  <2>1. /\ Errored(r) \in Local /\ Errored(r).pc = "resend"
        /\ Errored(r).job = act[r].job /\ Errored(r).ok = FALSE
    BY <1>1, <1>2 DEF Errored, Local, PC
  <2>2. Course(r, Errored(r))
    BY <1>1, <2>1, JobsAssumption DEF Course, RunnerPC
  <2> QED BY <1>2, <2>1, <2>2 DEF At
<1>3. CASE At(r, "wait2")
  BY <1>1, <1>3, IdleType DEF Errored, At
<1> QED BY <1>2, <1>3 DEF At

-----------------------------------------------------------------------------
(* Type correctness *)

Acts == act' \in [Thread -> Local] /\ \A x \in Thread : Course(x, act'[x])

LEMMA CourseKept ==
  ASSUME Typed, NEW p \in Thread, NEW pc, NEW j \in Job, NEW try, NEW ok,
         Becomes(p, pc, j, try, ok), pc \notin {"seal", "wait", "wait2"},
         p \in Worker => pc \in WorkerPC,
         p \in Runner => pc \in RunnerPC,
         p \in Request => pc \in RequestPC /\ ~ At(p, "idle")
  PROVE  Acts
<1>1. Course(p, act'[p])
  BY LocalOf DEF Becomes, Course, At
<1> QED BY <1>1 DEF Acts, Becomes, Others, Typed

LEMMA GotoKept ==
  ASSUME Typed, NEW p \in Thread, NEW pc \in PC, Goto(p, pc),
         ~ At(p, "idle"), pc \notin {"seal", "wait", "wait2"},
         p \in Worker => pc \in WorkerPC,
         p \in Runner => pc \in RunnerPC,
         p \in Request => pc \in RequestPC
  PROVE  Acts
<1>1. act[p].job \in Job
  BY LocalOf DEF Course, At
<1>2. Becomes(p, pc, act[p].job, act[p].try, act[p].ok)
  BY GotoBecomes
<1> QED BY <1>1, <1>2, CourseKept

LEMMA Kinds ==
  /\ \A p \in Worker : p \notin Runner /\ p \notin Request
  /\ \A p \in Runner : p \notin Worker /\ p \notin Request
  /\ \A p \in Request : p \notin Worker /\ p \notin Runner
BY JobsAssumption

LEMMA IdleKept ==
  ASSUME Typed, NEW p \in Thread, act' \in [Thread -> Local], Others(p), act'[p] = Idle
  PROVE  Acts
BY IdleType DEF Acts, Others, Typed

LEMMA ClaimTyped ==
  ASSUME Typed, NEW p \in Thread,
         (\E j \in Job : Pick(p, j)) \/ Claim(p) \/ Load(p) \/ Pend(p)
  PROVE  Typed'
<1>1. ASSUME NEW j \in Job, Pick(p, j) PROVE Typed'
  <2>1. Acts
    <3>1. Becomes(p, "picked", j, act[p].try, act[p].ok) /\ p \notin Request
      BY <1>1, PickBecomes, Kinds DEF Pick
    <3> DEFINE pc == "picked" try == act[p].try ok == act[p].ok
    <3>2. /\ pc \notin {"seal", "wait", "wait2"}
          /\ pc \in WorkerPC /\ pc \in RunnerPC
      BY DEF WorkerPC, RunnerPC
    <3>3. Becomes(p, pc, j, try, ok)
      BY <3>1
    <3> HIDE DEF pc, try, ok
    <3> QED BY <3>1, <3>2, <3>3, CourseKept
  <2> QED BY <1>1, <2>1 DEF Pick, Typed, TypeOK, Acts
<1>2. CASE Claim(p)
  <2> DEFINE j == act[p].job
  <2>1. Acts /\ j \in Job
    BY <1>2, ClaimBecomes, CourseKept, JobsAssumption DEF WorkerPC, RunnerPC
  <2>2. job[j].attempts + 1 \in Nat
    BY <2>1, RowOf DEF Row
  <2>3. job' \in [Job -> Row]
    BY <1>2, <2>1, <2>2 DEF Claim, Typed, TypeOK, Row
  <2> QED BY <1>2, <2>1, <2>3 DEF Claim, Typed, TypeOK, Acts
<1>3. CASE Load(p)
  <2>1. act[p].job \in Job /\ p \notin Request
    BY <1>3, LocalOf DEF Load, At, Course, RequestPC
  <2>2. Acts
    <3> DEFINE pc == IF p \in Runner THEN "pend" ELSE "change"
    <3>1. Becomes(p, pc, act[p].job, act[p].try, act[p].ok)
      BY <1>3, LoadBecomes
    <3>2. /\ pc \notin {"seal", "wait", "wait2"}
          /\ p \in Worker => pc \in WorkerPC
          /\ p \in Runner => pc \in RunnerPC
      BY Kinds DEF WorkerPC, RunnerPC
    <3> HIDE DEF pc
    <3> QED BY <2>1, <3>1, <3>2, CourseKept
  <2> QED BY <1>3, <2>2 DEF Load, Typed, TypeOK, Acts
<1>4. CASE Pend(p)
  <2>1. act[p].job \in Job /\ p \in Runner
    BY <1>4, LocalOf DEF Pend, At, Course, WorkerPC, RequestPC, Thread
  <2>2. Acts
    BY <1>4, <2>1, GotoKept, Kinds DEF Pend, At, RunnerPC, PC
  <2>3. New(p) \in Credential
    BY <2>1, CredentialTypes
  <2>4. job' \in [Job -> Row]
    BY <1>4, <2>1, <2>3 DEF Pend, Typed, TypeOK, Row
  <2> QED BY <1>4, <2>2, <2>4 DEF Pend, Typed, TypeOK, Acts
<1> QED BY <1>1, <1>2, <1>3, <1>4

LEMMA DisturbType ==
  ASSUME Typed, NEW f, Disturb(f)
  PROVE  left' \in Nat /\ f \in Faults
BY DEF Disturb, Typed, TypeOK

LEMMA ChangeTyped ==
  ASSUME Typed, NEW p \in Thread,
         \/ Change(p) \/ LoseAnswer(p)
         \/ \E term \in BOOLEAN : Refuse(p, term)
         \/ \E ok \in BOOLEAN : Check(p, ok)
  PROVE  Typed'
<1>1. act[p].job \in Job /\ p \in Worker \cup Runner
  BY LocalOf DEF Change, LoseAnswer, Refuse, Check, At, Course, RequestPC, Thread
<1>2. New(p) \in Credential
  BY <1>1, CredentialTypes
<1>3. CASE Change(p)
  <2>1. Acts
    <3>1. CASE p \in Runner
      BY <1>3, <3>1, GotoKept, Kinds DEF Change, At, RunnerPC, PC
    <3>2. CASE p \in Worker
      BY <1>3, <3>2, GotoKept, Kinds DEF Change, At, WorkerPC, PC
    <3> QED BY <1>1, <3>1, <3>2
  <2> QED BY <1>2, <1>3, <2>1 DEF Change, Typed, TypeOK, Acts
<1>4. ASSUME NEW ok \in BOOLEAN, NEW term \in BOOLEAN,
             act' = [act EXCEPT ![p] = Outcome(p, ok, term)]
      PROVE  Acts
  BY <1>1, <1>4, OutcomeBecomes, CourseKept, JobsAssumption DEF WorkerPC, RunnerPC
<1>5. CASE LoseAnswer(p)
  <2>1. Acts
    BY <1>4, <1>5 DEF LoseAnswer
  <2>2. left' \in Nat
    BY <1>5, DisturbType DEF LoseAnswer
  <2> QED BY <1>2, <1>5, <2>1, <2>2 DEF LoseAnswer, Typed, TypeOK, Acts
<1>6. ASSUME NEW term \in BOOLEAN, Refuse(p, term) PROVE Typed'
  <2>1. Acts
    BY <1>4, <1>6 DEF Refuse
  <2> QED BY <1>6, <2>1 DEF Refuse, Typed, TypeOK, Acts
<1>7. ASSUME NEW ok \in BOOLEAN, Check(p, ok) PROVE Typed'
  <2>1. Acts
    BY <1>4, <1>7 DEF Check
  <2> QED BY <1>7, <2>1 DEF Check, Typed, TypeOK, Acts
<1> QED BY <1>3, <1>5, <1>6, <1>7

LEMMA SealsTyped ==
  ASSUME Typed, NEW c \in Credential, Seals(c)
  PROVE  vault' \in Credential /\ stored' \subseteq Credential
BY DEF Seals, Typed, TypeOK

LEMMA StoreTyped ==
  ASSUME Typed, NEW p \in Thread,
         Store(p) \/ Reload(p) \/ (\E ok \in BOOLEAN : Verify(p, ok)) \/ Settle(p)
  PROVE  Typed'
<1>1. act[p].job \in Job /\ p \in Worker
  BY LocalOf DEF Store, Reload, Verify, Settle, At, Course, RunnerPC, RequestPC, Thread
<1>2. CASE Store(p)
  <2>1. Acts
    BY <1>1, <1>2, GotoKept, Kinds DEF Store, At, WorkerPC, PC
  <2> QED BY <1>1, <1>2, <2>1, CredentialTypes, SealsTyped DEF Store, Typed, TypeOK, Acts
<1>3. CASE Reload(p)
  <2>1. Acts
    BY <1>1, <1>3, ReloadBecomes, CourseKept, JobsAssumption DEF WorkerPC
  <2> QED BY <1>3, <2>1 DEF Reload, Typed, TypeOK, Acts
<1>4. ASSUME NEW ok \in BOOLEAN, Verify(p, ok) PROVE Typed'
  <2>1. Acts
    BY <1>1, <1>4, VerifyBecomes, CourseKept, JobsAssumption DEF WorkerPC
  <2> QED BY <1>4, <2>1 DEF Verify, Typed, TypeOK, Acts
<1>5. CASE Settle(p)
  <2>1. Acts
    BY <1>1, <1>5, GotoKept, Kinds DEF Settle, At, WorkerPC, PC
  <2> QED BY <1>5, <2>1 DEF Settle, Typed, TypeOK, Acts
<1> QED BY <1>2, <1>3, <1>4, <1>5

LEMMA ReportTyped ==
  ASSUME Typed, NEW r \in Thread, NEW q \in Request, Report(r, q)
  PROVE  /\ Typed' /\ r \in Runner /\ act[r].job \in Job /\ r # q
         /\ \A x \in Thread : x # r /\ x # q => act'[x] = act[x]
         /\ act'[r].pc = IF At(r, "report") THEN "wait" ELSE "wait2"
         /\ act'[r].peer = q /\ act'[r].job = act[r].job
         /\ act'[q].pc = "sent" /\ act'[q].job = act[r].job /\ act'[q].ok = act[r].ok
         /\ act'[q].peer = r
<1>1. act[r].job \in Job /\ r \in Runner /\ r # q
  BY LocalOf, Kinds DEF Report, At, Course, WorkerPC, RequestPC, Thread
<1>2. act \in [Thread -> Local] /\ act[r] \in Local /\ q \in Thread
  BY LocalOf DEF Typed, TypeOK, Thread
<1> DEFINE a == [act[r] EXCEPT !.pc = IF @ = "report" THEN "wait" ELSE "wait2", !.peer = q]
           b == [Idle EXCEPT !.pc = "sent", !.job = act[r].job, !.ok = act[r].ok,
                             !.term = act[r].term, !.peer = r]
<1>3. a \in Local /\ a.peer = q /\ a.job = act[r].job
      /\ a.pc = IF At(r, "report") THEN "wait" ELSE "wait2"
  BY <1>1, <1>2 DEF Local, PC, At
<1>4. /\ b \in Local /\ b.pc = "sent" /\ b.job = act[r].job /\ b.ok = act[r].ok
      /\ b.peer = r
  BY <1>1, <1>2 DEF Local, PC, Idle
<1>5. act' = [act EXCEPT ![r] = a, ![q] = b]
  BY DEF Report
<1>6. Course(r, a) /\ Course(q, b)
  BY <1>1, <1>3, <1>4, Kinds DEF Course, RunnerPC, RequestPC
<1> HIDE DEF a, b
<1>7. /\ act' \in [Thread -> Local] /\ act'[r] = a /\ act'[q] = b
      /\ \A x \in Thread : x # r /\ x # q => act'[x] = act[x]
  BY <1>1, <1>2, <1>3, <1>4, <1>5
<1>8. Acts
  BY <1>6, <1>7 DEF Acts, Typed
<1>9. Typed'
  BY <1>8 DEF Report, Typed, TypeOK, Acts
<1> QED BY <1>1, <1>3, <1>4, <1>7, <1>9

LEMMA DecideTyped ==
  ASSUME Typed, NEW q \in Thread, Decide(q)
  PROVE  Typed'
<1> DEFINE j == act[q].job
<1>1. j \in Job /\ q \in Request /\ ~ At(q, "idle")
  BY DecideBecomes DEF Decide, At
<1>2. act \in [Thread -> Local] /\ act[q].peer \in Runner
  BY <1>1, LocalOf DEF Typed, TypeOK, Course, At
<1>3. CASE Holds(act[q].peer, j)
  <2> DEFINE pc == IF act[q].ok /\ job[j].pending # None THEN "seal" ELSE "clear"
             n == job[j].attempts
             ok == act[q].ok
  <2>1. Becomes(q, pc, j, n, ok) /\ act'[q].cred = job[j].pending
    BY <1>3, DecideBecomes
  <2>2. pc \in RequestPC /\ pc \notin {"wait", "wait2"} /\ (pc = "seal" => job[j].pending # None)
    BY DEF RequestPC
  <2> HIDE DEF pc, n, ok
  <2>3. act'[q].pc = pc /\ act'[q].job = j /\ act'[q].peer = act[q].peer
    BY <2>1 DEF Becomes
  <2>4. Course(q, act'[q])
    BY <1>1, <1>2, <2>1, <2>2, <2>3, Kinds DEF Course
  <2>5. Acts
    BY <2>1, <2>4 DEF Acts, Becomes, Others, Typed
  <2> QED BY <2>5 DEF Decide, Typed, TypeOK, Acts
<1>4. CASE ~ Holds(act[q].peer, j)
  <2> DEFINE pc == "done" n == act[q].try ok == act[q].ok
  <2>1. Becomes(q, pc, j, n, ok)
    BY <1>4, DecideBecomes
  <2>2. pc \in RequestPC /\ pc \notin {"seal", "wait", "wait2"}
    BY DEF RequestPC
  <2> HIDE DEF pc, n, ok
  <2>3. Acts
    BY <1>1, <2>1, <2>2, CourseKept, Kinds
  <2> QED BY <2>3 DEF Decide, Typed, TypeOK, Acts
<1> QED BY <1>3, <1>4

LEMMA SealTyped ==
  ASSUME Typed, NEW p \in Thread, Seal(p) \/ Manage(p) \/ Clear(p)
  PROVE  Typed' /\ p \in Request /\ act[p].job \in Job
<1>1. p \in Request /\ act[p].job \in Job /\ act[p] \in Local
  BY LocalOf DEF Seal, Manage, Clear, At, Course, WorkerPC, RunnerPC, Thread
<1>2. CASE Seal(p)
  <2>1. Acts
    BY <1>1, <1>2, GotoKept, Kinds DEF Seal, At, RequestPC, PC
  <2>2. act[p].cred \in Credential
    BY <1>1, <1>2, LocalOf DEF Seal, At, Course, Local
  <2> QED BY <1>1, <1>2, <2>1, <2>2, SealsTyped DEF Seal, Typed, TypeOK, Acts
<1>3. CASE Manage(p)
  <2>1. Acts
    BY <1>1, <1>3, GotoKept, Kinds DEF Manage, At, RequestPC, PC
  <2> QED BY <1>1, <1>3, <2>1 DEF Manage, Typed, TypeOK, Acts
<1>4. CASE Clear(p)
  <2>1. Acts
    BY <1>1, <1>4, GotoKept, Kinds DEF Clear, At, RequestPC, PC
  <2>2. job' \in [Job -> Row]
    BY <1>1, <1>4 DEF Clear, Typed, TypeOK, Row
  <2> QED BY <1>1, <1>4, <2>1, <2>2 DEF Clear, Typed, TypeOK, Acts
<1> QED BY <1>2, <1>3, <1>4

LEMMA LeaveKept ==
  ASSUME Typed, NEW p \in Thread, ~ At(p, "idle"), act' = Leave(p)
  PROVE  Acts
<1>1. CASE p \in Request
  <2> DEFINE pc == "done" n == act[p].try ok == act[p].ok j == act[p].job
  <2>1. Becomes(p, pc, j, n, ok) /\ j \in Job
    BY <1>1, LeaveBecomes, LocalOf DEF Course, At
  <2>2. pc \in RequestPC /\ pc \notin {"seal", "wait", "wait2"}
    BY DEF RequestPC
  <2> HIDE DEF pc, n, ok, j
  <2> QED BY <1>1, <2>1, <2>2, CourseKept, Kinds
<1>2. CASE p \notin Request
  BY <1>2, LeaveBecomes, IdleKept
<1> QED BY <1>1, <1>2

LEMMA FinalizeTyped ==
  ASSUME Typed, NEW p \in Thread, Finalize(p) \/ Flag(p)
  PROVE  Typed' /\ act[p].job \in Job /\ p \in Worker \cup Request
<1>1. act[p].job \in Job /\ p \in Worker \cup Request
  BY LocalOf DEF Finalize, Flag, At, Course, RunnerPC, Thread
<1>2. CASE Finalize(p)
  <2> DEFINE status == IF act[p].ok THEN "succeeded"
                       ELSE IF Exhausted(p) THEN "dead" ELSE "queued"
  <2>1. /\ job' = [job EXCEPT ![act[p].job].status = status]
        /\ act' = IF status = "dead" THEN [act EXCEPT ![p].pc = "flag"] ELSE Leave(p)
        /\ status \in {"succeeded", "dead", "queued"}
    BY <1>2 DEF Finalize
  <2> HIDE DEF status
  <2>2. job' \in [Job -> Row]
    BY <1>1, <2>1 DEF Typed, TypeOK, Row
  <2>3. Acts
    <3>1. CASE status = "dead"
      <4>1. Goto(p, "flag")
        BY <2>1, <3>1 DEF Goto
      <4> QED BY <1>1, <1>2, <4>1, GotoKept, Kinds DEF Finalize, At, WorkerPC, RequestPC, PC
    <3>2. CASE status # "dead"
      BY <1>2, <2>1, <3>2, LeaveKept DEF Finalize, At
    <3> QED BY <3>1, <3>2
  <2> QED BY <1>1, <1>2, <2>2, <2>3 DEF Finalize, Typed, TypeOK, Acts
<1>3. CASE Flag(p)
  <2>1. Acts
    BY <1>3, LeaveKept DEF Flag, At
  <2> QED BY <1>1, <1>3, <2>1 DEF Flag, Typed, TypeOK, Acts
<1> QED BY <1>2, <1>3

(* Threads that are dropped, or answered with an error. *)
Drops ==
  /\ act' \in [Thread -> Local]
  /\ \A x \in Thread : \/ act'[x] = act[x] \/ act'[x] = Idle
                       \/ x \in Runner /\ At(x, "wait") /\ act'[x] = Errored(x)
                            /\ act[x].peer \in Thread /\ act'[act[x].peer] = Idle

LEMMA DropsTyped ==
  ASSUME Typed, Drops
  PROVE  Acts
BY IdleType, ErroredType DEF Drops, Acts, Typed, At

LEMMA CrashDrops ==
  ASSUME Typed, NEW p \in Thread, Crash(p)
  PROVE  Drops /\ act'[p] = Idle
<1> DEFINE f(x) == IF x = p \/ (Awaits(p, x) /\ At(x, "sent") /\ "late" \notin Faults)
                   THEN Idle ELSE IF Awaits(x, p) THEN Errored(x) ELSE act[x]
<1>1. act' = [x \in Thread |-> f(x)]
  BY DEF Crash
<1>2. ASSUME NEW x \in Thread
      PROVE  /\ f(x) \in Local
             /\ \/ f(x) = act[x] \/ f(x) = Idle
                \/ x \in Runner /\ At(x, "wait") /\ f(x) = Errored(x)
                     /\ act[x].peer \in Thread /\ f(act[x].peer) = Idle
  <2>1. act[x] \in Local
    BY LocalOf
  <2>2. CASE Awaits(x, p)
    <3>1. x \in Runner /\ act[x].pc \in {"wait", "wait2"} /\ act[x].peer = p
      BY <2>2 DEF Awaits
    <3>2. Errored(x) \in Local /\ (At(x, "wait2") => Errored(x) = Idle)
      BY <3>1, ErroredType
    <3>3. f(x) = Idle \/ f(x) = Errored(x)
      BY <2>2
    <3>4. f(p) = Idle
      OBVIOUS
    <3> HIDE DEF f
    <3>5. act[x].pc = "wait" \/ f(x) = Idle
      BY <3>1, <3>2, <3>3 DEF At
    <3> QED BY <3>1, <3>2, <3>3, <3>4, <3>5, IdleType DEF At
  <2>3. CASE ~ Awaits(x, p)
    <3>1. f(x) = act[x] \/ f(x) = Idle
      BY <2>3
    <3> HIDE DEF f
    <3> QED BY <2>1, <3>1, IdleType
  <2> QED BY <2>2, <2>3
<1>3. f(p) = Idle
  OBVIOUS
<1> HIDE DEF f
<1>4. \A x \in Thread : act'[x] = f(x)
  BY <1>1
<1>5. act' \in [Thread -> Local]
  BY <1>1, <1>2
<1> QED BY <1>2, <1>3, <1>4, <1>5 DEF Drops

LEMMA RespondDrops ==
  ASSUME Typed, NEW q \in Thread, Respond(q)
  PROVE  /\ Drops /\ q \in Request /\ At(q, "done")
         /\ \A x \in Thread : act'[x] = IF x = q \/ Awaits(x, q) THEN Idle ELSE act[x]
<1>1. act' = [x \in Thread |-> IF x = q \/ Awaits(x, q) THEN Idle ELSE act[x]]
  BY DEF Respond
<1>2. \A x \in Thread : act[x] \in Local
  BY LocalOf
<1>3. act' \in [Thread -> Local]
  BY <1>1, <1>2, IdleType
<1> QED BY <1>1, <1>3 DEF Drops, Respond

LEMMA NetErrorDrops ==
  ASSUME Typed, NEW r \in Thread, NetError(r), "late" \notin Faults
  PROVE  /\ Drops /\ r \in Runner
         /\ \/ At(r, "change") /\ Others(r) /\ act'[r] = Idle
            \/ /\ act[r].pc \in {"wait", "wait2"} /\ act[r].peer \in Request
               /\ act[act[r].peer].pc \in {"sent", "done"}
               /\ act'[r] = Errored(r) /\ act'[act[r].peer] = Idle
               /\ \A x \in Thread : x # r /\ x # act[r].peer => act'[x] = act[x]
<1>1. r \in Runner /\ act \in [Thread -> Local]
  BY DEF NetError, Typed, TypeOK
<1>2. CASE act[r].pc = "change" /\ act' = [act EXCEPT ![r] = Idle]
  BY <1>1, <1>2, IdleType DEF Drops, Others, At
<1>3. CASE /\ act[r].pc \in {"wait", "wait2"}
           /\ act[act[r].peer].pc \in {"sent", "done"}
           /\ act' = [act EXCEPT ![r] = Errored(r), ![act[r].peer] = Idle]
  <2>1. act[r].peer \in Request /\ act[r].peer \in Thread /\ act[r].peer # r
    BY <1>1, <1>3, LocalOf, Kinds DEF Course, Thread
  <2>2. Errored(r) \in Local /\ (At(r, "wait2") => Errored(r) = Idle)
    BY <1>1, <1>3, ErroredType
  <2>3. /\ act' \in [Thread -> Local] /\ act'[r] = Errored(r) /\ act'[act[r].peer] = Idle
        /\ \A x \in Thread : x # r /\ x # act[r].peer => act'[x] = act[x]
    BY <1>1, <1>3, <2>1, <2>2, IdleType
  <2> QED BY <1>1, <1>3, <2>1, <2>2, <2>3 DEF Drops, At
<1> QED BY <1>1, <1>2, <1>3 DEF NetError

LEMMA NetErrorActs ==
  ASSUME Typed, NEW r \in Thread, NetError(r)
  PROVE  Acts
<1>1. r \in Runner /\ act \in [Thread -> Local]
  BY DEF NetError, Typed, TypeOK
<1>2. CASE act[r].pc = "change" /\ act' = [act EXCEPT ![r] = Idle]
  BY <1>1, <1>2, IdleType DEF Acts, Typed
<1>3. CASE /\ act[r].pc \in {"wait", "wait2"}
           /\ \/ act' = [act EXCEPT ![r] = Errored(r), ![act[r].peer] = Idle]
              \/ act' = [act EXCEPT ![r] = Errored(r)]
  <2>1. Errored(r) \in Local /\ Course(r, Errored(r))
    BY <1>1, <1>3, ErroredType
  <2>2. \A x \in Thread : act'[x] \in {act[x], Idle, Errored(r)} /\ (act'[x] = Errored(r) => x = r \/ act'[x] \in {act[x], Idle})
    BY <1>1, <1>3
  <2>3. act' \in [Thread -> Local]
    BY <1>1, <1>3, <2>1, IdleType
  <2> QED BY <2>1, <2>2, <2>3, IdleType DEF Acts, Typed
<1> QED BY <1>1, <1>2, <1>3 DEF NetError

LEMMA DropTyped ==
  ASSUME Typed, NEW p \in Thread, Crash(p) \/ Respond(p) \/ NetError(p)
  PROVE  Typed'
<1>1. CASE Crash(p)
  <2>1. Acts /\ left' \in Nat
    BY <1>1, CrashDrops, DropsTyped, DisturbType DEF Crash
  <2> QED BY <1>1, <2>1 DEF Crash, Typed, TypeOK, Acts
<1>2. CASE Respond(p)
  <2>1. Acts
    BY <1>2, RespondDrops, DropsTyped
  <2> QED BY <1>2, <2>1 DEF Respond, Typed, TypeOK, Acts
<1>3. CASE NetError(p)
  <2>1. Acts /\ left' \in Nat
    BY <1>3, NetErrorActs, DisturbType DEF NetError
  <2> QED BY <1>3, <2>1 DEF NetError, Typed, TypeOK, Acts
<1> QED BY <1>1, <1>2, <1>3

LEMMA WorkerErrorBecomes ==
  ASSUME Typed, NEW w \in Thread, WorkerError(w)
  PROVE  /\ w \in Worker /\ act[w].job \in Job
         /\ \/ ~ At(w, "flag") /\ Becomes(w, "final", act[w].job, act[w].try, FALSE)
            \/ act' \in [Thread -> Local] /\ Others(w) /\ act'[w] = Idle
<1>1. w \in Worker /\ act[w].job \in Job /\ act \in [Thread -> Local]
  BY LocalOf DEF WorkerError, Course, Typed, TypeOK
<1>2. CASE ~ At(w, "flag") /\ act' = [act EXCEPT ![w] = Outcome(w, FALSE, FALSE)]
  <2>1. Becomes(w, IF w \in Runner THEN "report" ELSE "final", act[w].job, act[w].try, FALSE)
    BY <1>1, <1>2, OutcomeBecomes
  <2> QED BY <1>1, <1>2, <2>1, Kinds
<1>3. CASE act' = [act EXCEPT ![w] = Idle]
  BY <1>1, <1>3, IdleType DEF Others
<1> QED BY <1>1, <1>2, <1>3 DEF WorkerError

LEMMA HandlerErrorBecomes ==
  ASSUME Typed, NEW p \in Thread, HandlerError(p)
  PROVE  /\ p \in Runner \cup Request /\ act[p].job \in Job
         /\ \/ /\ act[p].pc \in {"seal", "manage"} /\ p \in Request
               /\ Becomes(p, "clear", act[p].job, act[p].try, FALSE)
            \/ act' = Leave(p)
<1>1. p \in Runner \cup Request /\ act[p].job \in Job /\ act \in [Thread -> Local]
  BY LocalOf DEF HandlerError, Course, Typed, TypeOK
<1>2. CASE act[p].pc \in {"seal", "manage"}
  <2>1. p \in Request
    BY <1>1, <1>2, LocalOf DEF Course, RunnerPC
  <2>2. act' = [act EXCEPT ![p].pc = "clear", ![p].ok = FALSE, ![p].term = TRUE]
    BY <1>2 DEF HandlerError
  <2>3. Becomes(p, "clear", act[p].job, act[p].try, FALSE)
    <3>1. act[p] \in Local
      BY LocalOf
    <3> QED BY <1>1, <2>2, <3>1 DEF Becomes, Others, Local, PC
  <2> QED BY <1>1, <1>2, <2>1, <2>3
<1>3. CASE act[p].pc \notin {"seal", "manage"}
  BY <1>1, <1>3 DEF HandlerError
<1> QED BY <1>2, <1>3

LEMMA ErrorTyped ==
  ASSUME Typed, NEW p \in Thread, WorkerError(p) \/ HandlerError(p)
  PROVE  Typed'
<1>1. CASE WorkerError(p)
  <2>1. left' \in Nat /\ p \in Worker /\ act[p].job \in Job
    BY <1>1, DisturbType, WorkerErrorBecomes DEF WorkerError
  <2>2. Acts
    <3>1. CASE Becomes(p, "final", act[p].job, act[p].try, FALSE)
      <4> DEFINE pc == "final" ok == FALSE n == act[p].try
      <4>1. Becomes(p, pc, act[p].job, n, ok) /\ pc \in WorkerPC
            /\ pc \notin {"seal", "wait", "wait2"}
        BY <3>1 DEF WorkerPC
      <4> HIDE DEF pc, ok, n
      <4> QED BY <2>1, <4>1, CourseKept, Kinds
    <3>2. CASE act' \in [Thread -> Local] /\ Others(p) /\ act'[p] = Idle
      BY <3>2, IdleKept
    <3> QED BY <1>1, <3>1, <3>2, WorkerErrorBecomes
  <2> QED BY <1>1, <2>1, <2>2 DEF WorkerError, Typed, TypeOK, Acts
<1>2. CASE HandlerError(p)
  <2>1. left' \in Nat /\ p \in Runner \cup Request /\ act[p].job \in Job /\ ~ At(p, "idle")
    BY <1>2, DisturbType, HandlerErrorBecomes DEF HandlerError, At
  <2>2. Acts
    <3>1. CASE p \in Request /\ Becomes(p, "clear", act[p].job, act[p].try, FALSE)
      <4> DEFINE pc == "clear" ok == FALSE n == act[p].try
      <4>1. Becomes(p, pc, act[p].job, n, ok) /\ pc \in RequestPC
            /\ pc \notin {"seal", "wait", "wait2"}
        BY <3>1 DEF RequestPC
      <4> HIDE DEF pc, ok, n
      <4> QED BY <2>1, <3>1, <4>1, CourseKept, Kinds
    <3>2. CASE act' = Leave(p)
      BY <2>1, <3>2, LeaveKept
    <3> QED BY <1>2, <3>1, <3>2, HandlerErrorBecomes
  <2> QED BY <1>2, <2>1, <2>2 DEF HandlerError, Typed, TypeOK, Acts
<1> QED BY <1>1, <1>2

(* The scheduler and the reclaims: no thread moves. *)
Queueing ==
  \/ \E j \in Job : \/ Schedule(j) \/ Sweep(j)
                    \/ \E h \in {"in_process", "runner"} : OnDemand(j, h)
  \/ Dedupe \/ MarkPending

LEMMA QueueingTyped ==
  ASSUME Typed, Queueing
  PROVE  Typed' /\ act' = act
<1>1. ASSUME NEW j \in Job, NEW h \in {"in_process", "runner"}, NEW k \in BOOLEAN,
             Enqueue(j, h, k)
      PROVE  /\ job' \in [Job -> Row]
             /\ UNCHANGED <<act, vault, stored, target, rotation, left>>
  <2>1. job[j] \in Row /\ job \in [Job -> Row]
    BY RowOf DEF Typed, TypeOK
  <2> QED BY <1>1, <2>1 DEF Enqueue, Row
<1>2. ASSUME NEW j \in Job, Sweep(j)
      PROVE  Typed' /\ act' = act
  <2>1. left' \in Nat
    BY <1>2, DisturbType DEF Sweep, Reclaim, ReclaimRunner, Expired, Typed, TypeOK
  <2>2. job' \in [Job -> Row]
    BY <1>2 DEF Sweep, Reclaim, ReclaimRunner, Typed, TypeOK, Row
  <2> QED BY <1>2, <2>1, <2>2 DEF Sweep, Reclaim, ReclaimRunner, Typed, TypeOK
<1>3. ASSUME NEW j \in Job, Schedule(j)
      PROVE  Typed' /\ act' = act
  BY <1>1, <1>3 DEF Schedule, Typed, TypeOK
<1>4. ASSUME NEW j \in Job, NEW h \in {"in_process", "runner"}, OnDemand(j, h)
      PROVE  Typed' /\ act' = act
  BY <1>1, <1>4 DEF OnDemand, Typed, TypeOK
<1>5. CASE Dedupe \/ MarkPending
  BY <1>5 DEF Dedupe, MarkPending, Typed, TypeOK
<1> QED BY <1>2, <1>3, <1>4, <1>5 DEF Queueing

(* Next, once: who moves and how. *)
LEMMA NextCases ==
  ASSUME Next
  PROVE  \/ Queueing
         \/ \E p \in Thread : Step(p) \/ Fault(p) \/ \E j \in Job : Pick(p, j)
BY DEF Next, Queueing

LEMMA NextTyped == Typed /\ [Next]_vars => Typed'
<1> SUFFICES ASSUME Typed, [Next]_vars PROVE Typed'
  OBVIOUS
<1>1. CASE Queueing
  BY <1>1, QueueingTyped
<1>2. ASSUME NEW p \in Thread, Step(p) PROVE Typed'
  BY <1>2, ClaimTyped, ChangeTyped, StoreTyped, ReportTyped, DecideTyped, SealTyped,
     DropTyped, FinalizeTyped DEF Step
<1>3. ASSUME NEW p \in Thread, Fault(p) PROVE Typed'
  BY <1>3, ChangeTyped, DropTyped, ErrorTyped DEF Fault
<1>4. ASSUME NEW p \in Thread, NEW j \in Job, Pick(p, j) PROVE Typed'
  BY <1>4, ClaimTyped
<1>5. CASE UNCHANGED vars
  BY <1>5 DEF vars, Typed, TypeOK
<1> QED BY <1>1, <1>2, <1>3, <1>4, <1>5, NextCases

LEMMA InitTyped == Init => Typed
<1> SUFFICES ASSUME Init PROVE Typed
  OBVIOUS
<1>1. \A x \in Thread : act[x] = Idle
  BY DEF Init
<1>2. act \in [Thread -> Local] /\ \A x \in Thread : Course(x, act[x])
  BY <1>1, IdleType DEF Init
<1>3. Initial \in Credential
  BY DEF Initial, Credential
<1>4. job \in [Job -> Row]
  BY DEF Init, Row
<1> QED BY <1>2, <1>3, <1>4, JobsAssumption DEF Init, Typed, TypeOK

LEMMA AlwaysTyped == Spec => []Typed
BY InitTyped, NextTyped, PTL DEF Spec

(* Every reachable state is well typed, under every fault: workers, runners and
   report handlers keep to their courses (pamJobs.ts, pamRunner.ts). *)
THEOREM TypeCorrect == Spec => []TypeOK
<1>1. Typed => TypeOK
  BY DEF Typed
<1> QED BY <1>1, AlwaysTyped, PTL

-----------------------------------------------------------------------------
(* Ownership.  finalizeJob and the report handler write by id: what makes that
   harmless is that only one thread at a time is between a job's claim and its
   outcome, and that a runner's report finds the job as its runner left it. *)

Fenced == "late" \notin Faults /\ "slow" \notin Faults

Owning == {"load", "pend", "change", "store", "reload", "verify", "settle",
           "check", "report", "seal", "manage", "clear", "final"}
Waits == {"wait", "wait2", "resend"}

Owns(p) == act[p].pc \in Owning
Holding(p) == Owns(p) \/ At(p, "picked")

HeldAt(p) ==
  /\ At(p, "picked") => job[act[p].job].status = "queued"
  /\ Owns(p) => /\ job[act[p].job].status = "running"
                /\ job[act[p].job].attempts = act[p].try
                /\ p \in Runner => job[act[p].job].runner = p
                /\ act[p].pc \in {"seal", "manage", "clear"} =>
                     job[act[p].job].runner = act[p].peer
                /\ p \in Request /\ At(p, "final") => job[act[p].job].runner = None
  /\ ~ At(p, "idle") => /\ job[act[p].job].status # "none"
                        /\ p \in Worker => job[act[p].job].handler = "in_process"
                        /\ p \notin Worker => job[act[p].job].handler = "runner"
  /\ At(p, "sent") => Awaits(act[p].peer, p) /\ act[act[p].peer].job = act[p].job

ApartAt(p, q) ==
  /\ Holding(p) /\ Holding(q) /\ act[p].job = act[q].job => p = q
  /\ /\ p \in Runner /\ act[p].pc \in Waits
     /\ q \in Request /\ Owns(q) /\ act[p].job = act[q].job
     /\ job[act[p].job].runner = p
     => Awaits(p, q)

Owned == \A p \in Thread : HeldAt(p) /\ \A q \in Thread : ApartAt(p, q)

LEMMA InitOwned == Init => Owned
BY DEF Init, Owned, HeldAt, ApartAt, Owns, Holding, Owning, Waits, At, Idle

LEMMA JobOf ==
  ASSUME Typed, NEW p \in Thread, ~ At(p, "idle")
  PROVE  act[p].job \in Job /\ job[act[p].job] \in Row
BY LocalOf, RowOf DEF Course, At

(* One thread moves; if it changes a row, the row is that of the job it holds. *)
LEMMA SoloOwned ==
  ASSUME Typed, Typed', Owned, NEW p \in Thread, Others(p),
         act[p].pc \notin Waits, act'[p].pc \notin Waits, act'[p].pc # "sent",
         \A k \in Job : job'[k] = job[k] \/ (Holding(p) /\ k = act[p].job),
         \A k \in Job : /\ job'[k].handler = job[k].handler
                        /\ job[k].status # "none" => job'[k].status # "none"
                        /\ \/ job'[k].runner \in {job[k].runner, None}
                           \/ At(p, "picked"),
         HeldAt(p)',
         Holding(p)' => Holding(p) /\ act'[p].job = act[p].job
  PROVE  Owned'
<1>1. ASSUME NEW x \in Thread, x # p PROVE HeldAt(x)'
  <2>1. act'[x] = act[x] /\ HeldAt(x)
    BY <1>1 DEF Others, Owned
  <2>2. CASE At(x, "idle")
    BY <2>1, <2>2 DEF HeldAt, At, Owns, Owning
  <2>3. CASE ~ At(x, "idle")
    <3>1. act[x].job \in Job
      BY <2>3, JobOf
    <3>2. Holding(x) => job'[act[x].job] = job[act[x].job]
      BY <1>1, <3>1 DEF Owned, ApartAt
    <3>3. At(x, "sent") => act'[act[x].peer] = act[act[x].peer]
      <4>1. At(x, "sent") => act[x].peer \in Thread /\ act[x].peer # p
        BY <2>1 DEF HeldAt, Awaits, Thread, Waits
      <4> QED BY <4>1 DEF Others
    <3> QED BY <2>1, <2>3, <3>1, <3>2, <3>3 DEF HeldAt, Holding, Owns, At, Awaits
  <2> QED BY <2>2, <2>3
<1>2. ASSUME NEW x \in Thread, NEW y \in Thread PROVE ApartAt(x, y)'
  <2>1. ASSUME NEW z \in Thread, Holding(z)'
        PROVE  Holding(z) /\ act'[z].job = act[z].job
    BY <2>1 DEF Others, Holding, Owns, At
  <2>2. ApartAt(x, y)
    BY DEF Owned
  <2>3. ASSUME x \in Runner, act'[x].pc \in Waits, y \in Request, Owns(y)',
               act'[x].job = act'[y].job, job'[act'[x].job].runner = x
        PROVE  Awaits(x, y)'
    <3>1. x # p /\ act'[x] = act[x]
      BY <2>3 DEF Others
    <3>2. Holding(y) /\ act'[y].job = act[y].job
      BY <2>1, <2>3 DEF Holding
    <3>3. ~ At(y, "picked")
      BY <2>3, LocalOf DEF At, Course, RequestPC
    <3>4. Owns(y) /\ act[y].job \in Job
      BY <3>2, <3>3, JobOf DEF Holding, Owns, Owning, At
    <3>5. job[act[y].job].runner = x
      <4>1. x # None
        BY <2>3, JobsAssumption
      <4>2. ASSUME At(p, "picked"), job'[act[y].job] # job[act[y].job] PROVE FALSE
        <5>1. act[y].job = act[p].job /\ Holding(p)
          BY <3>4, <4>2
        <5>2. y = p
          BY <3>2, <5>1 DEF Owned, ApartAt
        <5> QED BY <3>3, <4>2, <5>2
      <4> QED BY <2>3, <3>1, <3>2, <3>4, <4>1, <4>2
    <3>6. Awaits(x, y)
      BY <2>2, <2>3, <3>1, <3>2, <3>4, <3>5 DEF ApartAt
    <3> QED BY <3>1, <3>6 DEF Awaits
  <2>4. Holding(x)' /\ Holding(y)' /\ act'[x].job = act'[y].job => x = y
    BY <2>1, <2>2 DEF ApartAt
  <2> QED BY <2>3, <2>4 DEF ApartAt
<1> QED BY <1>1, <1>2 DEF Owned

(* The same, with the jobs as they were. *)
LEMMA QuietSoloOwned ==
  ASSUME Typed, Typed', Owned, NEW p \in Thread, Others(p), job' = job,
         act[p].pc \notin Waits, act'[p].pc \notin Waits, act'[p].pc # "sent",
         HeldAt(p)',
         Holding(p)' => Holding(p) /\ act'[p].job = act[p].job
  PROVE  Owned'
BY SoloOwned

LEMMA DropsOwned ==
  ASSUME Typed, Typed', Owned, Drops, job' = job,
         \A q \in Thread : act'[q].pc = "sent" => act'[act[q].peer] = act[act[q].peer]
  PROVE  Owned'
<1>1. ASSUME NEW x \in Thread
      PROVE  \/ act'[x] = act[x] \/ act'[x].pc = "idle"
             \/ /\ x \in Runner /\ At(x, "wait")
                /\ act'[x].pc = "resend" /\ act'[x].job = act[x].job
                /\ act[x].peer \in Thread /\ act'[act[x].peer].pc = "idle"
  <2>1. Idle.pc = "idle"
    BY DEF Idle
  <2>2. \/ act'[x] = act[x] \/ act'[x] = Idle
        \/ /\ x \in Runner /\ At(x, "wait") /\ act'[x] = Errored(x)
           /\ act[x].peer \in Thread /\ act'[act[x].peer] = Idle
    BY <1>1 DEF Drops
  <2>3. CASE x \in Runner /\ At(x, "wait")
    <3>1. Errored(x).pc = "resend" /\ Errored(x).job = act[x].job
      BY <2>3, ErroredType DEF At
    <3> QED BY <2>1, <2>2, <2>3, <3>1
  <2> QED BY <2>1, <2>2, <2>3
<1>2. ASSUME NEW x \in Thread PROVE HeldAt(x)'
  <2>1. HeldAt(x)
    BY DEF Owned
  <2>2. CASE act'[x] = act[x]
    BY <2>1, <2>2 DEF HeldAt, Owns, At, Awaits
  <2>3. CASE act'[x].pc = "idle"
    BY <2>3 DEF HeldAt, Owns, Owning, At
  <2>4. CASE x \in Runner /\ At(x, "wait") /\ act'[x].pc = "resend" /\ act'[x].job = act[x].job
    BY <2>1, <2>4 DEF HeldAt, Owns, Owning, At
  <2> QED BY <1>1, <2>2, <2>3, <2>4
<1>3. ASSUME NEW x \in Thread, NEW y \in Thread PROVE ApartAt(x, y)'
  <2>1. ASSUME NEW z \in Thread, Holding(z)'
        PROVE  act'[z] = act[z]
    BY <1>1, <2>1 DEF Holding, Owns, Owning, At
  <2>2. ApartAt(x, y)
    BY DEF Owned
  <2>3. Holding(x)' /\ Holding(y)' /\ act'[x].job = act'[y].job => x = y
    BY <2>1, <2>2 DEF ApartAt, Holding, Owns, At
  <2>4. ASSUME x \in Runner, act'[x].pc \in Waits, y \in Request, Owns(y)',
               act'[x].job = act'[y].job, job[act'[x].job].runner = x
        PROVE  Awaits(x, y)'
    <3>1. act'[y] = act[y] /\ Owns(y)
      BY <2>1, <2>4 DEF Holding, Owns
    <3>2. act[x].pc \in Waits /\ act'[x].job = act[x].job
      BY <1>1, <2>4 DEF Waits, At
    <3>3. Awaits(x, y)
      BY <2>2, <2>4, <3>1, <3>2 DEF ApartAt
    <3>4. act'[x] = act[x]
      BY <1>1, <2>4, <3>1, <3>3 DEF Awaits, Owns, Owning, Waits
    <3> QED BY <3>3, <3>4 DEF Awaits
  <2> QED BY <2>3, <2>4 DEF ApartAt
<1> QED BY <1>2, <1>3 DEF Owned

(* Steps that write no row and claim nothing: the thread keeps what it holds,
   or leaves it. *)
LEMMA CarryOwned ==
  ASSUME Typed, Typed', Owned, NEW p \in Thread, NEW pc, NEW ok,
         Becomes(p, pc, act[p].job, act[p].try, ok), job' = job,
         \/ Owns(p) /\ pc \in {"load", "pend", "change", "store", "reload", "verify",
                               "settle", "check", "report", "final", "flag", "done"}
         \/ act[p].pc \notin Waits \cup {"idle"} /\ pc \in {"flag", "done"},
         p \in Request => pc \in {"flag", "done"}
  PROVE  Owned'
<1>1. /\ Others(p) /\ act'[p].pc = pc /\ act'[p].job = act[p].job
      /\ act'[p].try = act[p].try /\ HeldAt(p)
  BY DEF Becomes, Owned
<1>2. act[p].pc \notin Waits /\ ~ At(p, "idle")
  BY DEF Owns, Owning, Waits, At
<1>3. pc \notin Waits /\ pc \notin {"sent", "idle", "picked", "seal", "manage", "clear"}
  BY DEF Waits
<1>4. HeldAt(p)'
  <2>1. CASE pc \in {"flag", "done"}
    BY <1>1, <1>2, <2>1 DEF HeldAt, Owns, Owning, At
  <2>2. CASE Owns(p) /\ pc \notin {"flag", "done"}
    BY <1>1, <1>2, <1>3, <2>2 DEF HeldAt, Owns, At
  <2> QED BY <2>1, <2>2
<1>5. Holding(p)' => Holding(p)
  BY <1>1 DEF Holding, Owns, Owning, At
<1> QED BY <1>1, <1>2, <1>3, <1>4, <1>5, QuietSoloOwned

LEMMA IdleOwned ==
  ASSUME Typed, Typed', Owned, NEW p \in Thread, Others(p), act'[p] = Idle,
         job' = job, act[p].pc \notin Waits
  PROVE  Owned'
<1>1. act'[p].pc = "idle"
  BY DEF Idle
<1> QED BY <1>1, QuietSoloOwned DEF HeldAt, Holding, Owns, Owning, Waits, At

LEMMA ExecuteOwned ==
  ASSUME Typed, Typed', Owned, NEW p \in Thread,
         \/ Load(p) \/ Change(p) \/ LoseAnswer(p)
         \/ \E term \in BOOLEAN : Refuse(p, term)
         \/ Store(p) \/ Reload(p) \/ Settle(p)
         \/ \E ok \in BOOLEAN : Verify(p, ok) \/ Check(p, ok)
  PROVE  Owned'
<1>1. /\ act[p].job \in Job /\ p \in Worker \cup Runner /\ p \notin Request
      /\ Owns(p) /\ job' = job
  <2>1. /\ act[p].pc \in {"load", "change", "store", "reload", "verify", "settle", "check"}
        /\ job' = job
    BY DEF Load, Change, LoseAnswer, Refuse, Store, Reload, Settle, Verify, Check, At
  <2> QED BY <2>1, LocalOf, Kinds DEF Owns, Owning, Course, RequestPC, Thread
<1>2. ASSUME NEW pc \in PC, Goto(p, pc),
             pc \in {"check", "store", "reload", "final"}
      PROVE  Owned'
  BY <1>1, <1>2, GotoBecomes, CarryOwned
<1>3. ASSUME NEW ok \in BOOLEAN, NEW term \in BOOLEAN,
             act' = [act EXCEPT ![p] = Outcome(p, ok, term)]
      PROVE  Owned'
  BY <1>1, <1>3, OutcomeBecomes, CarryOwned
<1>4. CASE Load(p)
  BY <1>1, <1>4, LoadBecomes, CarryOwned
<1>5. CASE Change(p)
  BY <1>2, <1>5 DEF Change, PC
<1>6. CASE LoseAnswer(p)
  BY <1>3, <1>6 DEF LoseAnswer
<1>7. ASSUME NEW term \in BOOLEAN, Refuse(p, term) PROVE Owned'
  BY <1>3, <1>7 DEF Refuse
<1>8. CASE Store(p) \/ Settle(p)
  BY <1>2, <1>8 DEF Store, Settle, PC
<1>9. CASE Reload(p)
  BY <1>1, <1>9, ReloadBecomes, CarryOwned
<1>10. ASSUME NEW ok \in BOOLEAN, Verify(p, ok) PROVE Owned'
  BY <1>1, <1>10, VerifyBecomes, CarryOwned
<1>11. ASSUME NEW ok \in BOOLEAN, Check(p, ok) PROVE Owned'
  BY <1>3, <1>11 DEF Check
<1> QED BY <1>4, <1>5, <1>6, <1>7, <1>8, <1>9, <1>10, <1>11

LEMMA PickOwned ==
  ASSUME Typed, Typed', Owned, NEW p \in Thread, NEW j \in Job, Pick(p, j)
  PROVE  Owned'
<1>1. /\ Becomes(p, "picked", j, act[p].try, act[p].ok) /\ p \in Worker \cup Runner
      /\ p \notin Request /\ job' = job /\ At(p, "idle") /\ job[j].status = "queued"
      /\ job[j].handler = IF p \in Runner THEN "runner" ELSE "in_process"
      /\ \A q \in Thread : At(q, "picked") => act[q].job # j
  BY PickBecomes, Kinds DEF Pick
<1>2. Others(p) /\ act'[p].pc = "picked" /\ act'[p].job = j
  BY <1>1 DEF Becomes
<1>3. ASSUME NEW x \in Thread, x # p, Holding(x) PROVE act[x].job # j
  BY <1>1, <1>3 DEF Holding, Owned, HeldAt
<1>4. HeldAt(p)'
  BY <1>1, <1>2, Kinds DEF HeldAt, Owns, Owning, At
<1>5. ASSUME NEW x \in Thread, x # p PROVE HeldAt(x)'
  <2>1. HeldAt(x) /\ act'[x] = act[x]
    BY <1>2, <1>5 DEF Owned, Others
  <2>2. At(x, "sent") => act'[act[x].peer] = act[act[x].peer]
    <3>1. At(x, "sent") => act[x].peer \in Thread /\ act[x].peer # p
      BY <1>1, <2>1 DEF HeldAt, Awaits, Thread, At
    <3> QED BY <1>2, <3>1 DEF Others
  <2> QED BY <1>1, <2>1, <2>2 DEF HeldAt, Owns, At, Awaits
<1>6. ASSUME NEW x \in Thread, NEW y \in Thread PROVE ApartAt(x, y)'
  <2>1. ApartAt(x, y)
    BY DEF Owned
  <2>2. ASSUME Holding(x)', Holding(y)', act'[x].job = act'[y].job PROVE x = y
    <3>1. \A z \in Thread : z # p /\ Holding(z)' => Holding(z) /\ act'[z] = act[z]
      BY <1>2 DEF Others, Holding, Owns, At
    <3> QED BY <1>2, <1>3, <2>1, <2>2, <3>1 DEF ApartAt
  <2>3. ASSUME x \in Runner, act'[x].pc \in Waits, y \in Request, Owns(y)',
               act'[x].job = act'[y].job, job'[act'[x].job].runner = x
        PROVE  Awaits(x, y)'
    <3>1. x # p /\ y # p
      BY <1>1, <1>2, <2>3 DEF Waits
    <3>2. act'[x] = act[x] /\ act'[y] = act[y]
      BY <1>2, <3>1 DEF Others
    <3> QED BY <1>1, <2>1, <2>3, <3>2 DEF ApartAt, Awaits, Owns
  <2> QED BY <2>2, <2>3 DEF ApartAt
<1> QED BY <1>4, <1>5, <1>6 DEF Owned

(* A row is written by the thread that holds it. *)
LEMMA WriteOwned ==
  ASSUME Typed, Typed', Owned, NEW p \in Thread,
         Claim(p) \/ Pend(p) \/ Clear(p) \/ Finalize(p)
  PROVE  Owned'
<1> DEFINE j == act[p].job
<1>1. j \in Job /\ ~ At(p, "idle") /\ HeldAt(p) /\ job[j] \in Row
  BY JobOf DEF Claim, Pend, Clear, Finalize, At, Owned
<1>2. job \in [Job -> Row] /\ act[p] \in Local
  BY LocalOf DEF Typed, TypeOK
<1>3. CASE Claim(p)
  <2>1. /\ Becomes(p, "load", j, job[j].attempts + 1, act[p].ok) /\ p \in Worker \cup Runner
        /\ At(p, "picked") /\ p \notin Request
    BY <1>3, ClaimBecomes, Kinds DEF Claim
  <2>2. /\ \A k \in Job \ {j} : job'[k] = job[k]
        /\ job'[j].status = "running" /\ job'[j].attempts = job[j].attempts + 1
        /\ job'[j].runner = IF p \in Runner THEN p ELSE job[j].runner
        /\ job'[j].handler = job[j].handler
    BY <1>1, <1>2, <1>3 DEF Claim, Row
  <2>3. /\ Others(p) /\ act'[p].pc = "load" /\ act'[p].job = j
        /\ act'[p].try = job[j].attempts + 1
    BY <2>1 DEF Becomes
  <2>4. HeldAt(p)'
    BY <1>1, <2>1, <2>2, <2>3 DEF HeldAt, Owns, At
  <2> QED BY <1>1, <2>1, <2>2, <2>3, <2>4, SoloOwned DEF Holding, Waits, At
<1>4. CASE Pend(p)
  <2>1. p \in Runner /\ Owns(p) /\ At(p, "pend")
    BY <1>4, LocalOf DEF Pend, At, Course, WorkerPC, RequestPC, Thread, Owns, Owning
  <2>2. /\ \A k \in Job \ {j} : job'[k] = job[k]
        /\ job'[j].status = job[j].status /\ job'[j].attempts = job[j].attempts
        /\ job'[j].runner = job[j].runner
        /\ job'[j].handler = job[j].handler
    BY <1>1, <1>2, <1>4 DEF Pend, Row
  <2>3. /\ Others(p) /\ act'[p].pc = "change" /\ act'[p].job = j
        /\ act'[p].try = act[p].try
    BY <1>4, GotoBecomes DEF Pend, Becomes, PC
  <2>4. HeldAt(p)'
    BY <1>1, <2>1, <2>2, <2>3, Kinds DEF HeldAt, Owns, Owning, At
  <2> QED BY <1>1, <2>1, <2>2, <2>3, <2>4, SoloOwned DEF Holding, Waits, At
<1>5. CASE Clear(p)
  <2>1. p \in Request /\ Owns(p) /\ At(p, "clear")
    BY <1>5, SealTyped DEF Clear, At, Owns, Owning
  <2>2. /\ \A k \in Job \ {j} : job'[k] = job[k]
        /\ job'[j].status = job[j].status /\ job'[j].attempts = job[j].attempts
        /\ job'[j].runner = None /\ job'[j].handler = job[j].handler
    BY <1>1, <1>2, <1>5 DEF Clear, Row
  <2>3. /\ Others(p) /\ act'[p].pc = "final" /\ act'[p].job = j
        /\ act'[p].try = act[p].try
    BY <1>5, GotoBecomes DEF Clear, Becomes, PC
  <2>4. HeldAt(p)'
    BY <1>1, <2>1, <2>2, <2>3, Kinds DEF HeldAt, Owns, Owning, At
  <2> QED BY <1>1, <2>1, <2>2, <2>3, <2>4, SoloOwned DEF Holding, Waits, At
<1>6. CASE Finalize(p)
  <2> DEFINE status == IF act[p].ok THEN "succeeded"
                       ELSE IF Exhausted(p) THEN "dead" ELSE "queued"
  <2>1. /\ p \in Worker \cup Request /\ Owns(p) /\ At(p, "final")
        /\ job' = [job EXCEPT ![j].status = status]
        /\ act' = IF status = "dead" THEN [act EXCEPT ![p].pc = "flag"] ELSE Leave(p)
        /\ status \in {"succeeded", "dead", "queued"}
    BY <1>6, FinalizeTyped DEF Finalize, At, Owns, Owning
  <2> HIDE DEF status
  <2>2. /\ \A k \in Job \ {j} : job'[k] = job[k]
        /\ job'[j].status # "none"
        /\ job'[j].runner = job[j].runner /\ job'[j].handler = job[j].handler
    BY <1>1, <1>2, <2>1 DEF Row
  <2>3. /\ Others(p)
        /\ \/ act'[p].pc \in {"flag", "done"} /\ act'[p].job = j
           \/ act'[p].pc = "idle"
    <3>1. CASE status = "dead"
      BY <2>1, <3>1, GotoBecomes DEF Goto, Becomes, PC
    <3>2. CASE status # "dead"
      BY <2>1, <3>2, LeaveBecomes DEF Becomes, Idle
    <3> QED BY <3>1, <3>2
  <2>4. HeldAt(p)' /\ ~ Holding(p)'
    BY <1>1, <2>1, <2>2, <2>3 DEF HeldAt, Holding, Owns, Owning, At
  <2> QED BY <1>1, <2>1, <2>2, <2>3, <2>4, SoloOwned DEF Holding, Waits, At
<1> QED BY <1>3, <1>4, <1>5, <1>6

LEMMA ReportOwned ==
  ASSUME Typed, Typed', Owned, NEW r \in Thread, NEW q \in Request, Report(r, q)
  PROVE  Owned'
<1>1. /\ r \in Runner /\ act[r].job \in Job /\ r # q /\ q \in Thread
      /\ \A x \in Thread : x # r /\ x # q => act'[x] = act[x]
      /\ act'[r].pc \in {"wait", "wait2"} /\ act'[r].peer = q /\ act'[r].job = act[r].job
      /\ act'[q].pc = "sent" /\ act'[q].job = act[r].job /\ act'[q].peer = r
  BY ReportTyped DEF Thread
<1>2. /\ act[r].pc \in {"report", "resend"} /\ At(q, "idle") /\ job' = job
  BY DEF Report
<1>3. HeldAt(r) /\ ~ At(r, "idle")
  BY <1>2 DEF Owned, At
<1>4. HeldAt(r)' /\ HeldAt(q)'
  BY <1>1, <1>2, <1>3, Kinds DEF HeldAt, Owns, Owning, At, Awaits
<1>5. ASSUME NEW x \in Thread, x # r, x # q PROVE HeldAt(x)'
  <2>1. act'[x] = act[x] /\ HeldAt(x)
    BY <1>1, <1>5 DEF Owned
  <2>2. At(x, "sent") => act'[act[x].peer] = act[act[x].peer]
    <3>1. At(x, "sent") => act[x].peer \in Thread /\ act[x].peer # r /\ act[x].peer # q
      BY <1>1, <1>2, <2>1, Kinds DEF HeldAt, Awaits, Thread, At
    <3> QED BY <1>1, <3>1
  <2> QED BY <1>2, <2>1, <2>2 DEF HeldAt, Owns, At, Awaits
<1>6. ASSUME NEW x \in Thread, NEW y \in Thread PROVE ApartAt(x, y)'
  <2>1. ASSUME NEW z \in Thread, Holding(z)'
        PROVE  act'[z] = act[z] /\ Holding(z) /\ z # r /\ z # q
    BY <1>1, <2>1 DEF Holding, Owns, Owning, At
  <2>2. ApartAt(x, y)
    BY DEF Owned
  <2>3. Holding(x)' /\ Holding(y)' /\ act'[x].job = act'[y].job => x = y
    BY <2>1, <2>2 DEF ApartAt
  <2>4. ASSUME x \in Runner, act'[x].pc \in Waits, y \in Request, Owns(y)',
               act'[x].job = act'[y].job, job'[act'[x].job].runner = x
        PROVE  Awaits(x, y)'
    <3>1. /\ act'[y] = act[y] /\ Holding(y) /\ y # r /\ y # q /\ Owns(y)
      BY <2>1, <2>4 DEF Holding, Owns
    <3>2. CASE x = r
      <4>1. Holding(r) => FALSE
        BY <1>1, <2>2, <2>4, <3>1, <3>2 DEF ApartAt
      <4>2. At(r, "resend")
        BY <1>2, <4>1 DEF Holding, Owns, Owning, At
      <4>3. Awaits(r, y)
        BY <1>1, <1>2, <2>2, <2>4, <3>1, <3>2, <4>2 DEF ApartAt, Waits, At
      <4> QED BY <4>2, <4>3 DEF Awaits, At
    <3>3. CASE x # r
      <4>1. x # q
        BY <1>1, <2>4 DEF Waits
      <4> QED BY <1>1, <1>2, <2>2, <2>4, <3>1, <3>3, <4>1 DEF ApartAt, Awaits
    <3> QED BY <3>2, <3>3
  <2> QED BY <2>3, <2>4 DEF ApartAt
<1> QED BY <1>4, <1>5, <1>6 DEF Owned

(* The report that the runner waits for is the only one to be decided. *)
LEMMA SentAlone ==
  ASSUME Typed, Owned, NEW q \in Thread, At(q, "sent"),
         Holds(act[q].peer, act[q].job), NEW x \in Thread, Holding(x)
  PROVE  act[x].job # act[q].job
<1> DEFINE j == act[q].job r == act[q].peer
<1>1. SUFFICES ASSUME act[x].job = j PROVE FALSE
  OBVIOUS
<1>2. /\ r \in Runner /\ r \in Thread /\ act[r].pc \in {"wait", "wait2"} /\ act[r].peer = q
      /\ act[r].job = j /\ job[j].handler = "runner"
      /\ job[j].status = "running" /\ job[j].runner = r /\ q \notin Worker
      /\ r # None
  <2>1. Awaits(r, q) /\ act[r].job = j /\ HeldAt(q)
    BY DEF Owned, HeldAt
  <2>2. q \notin Worker
    BY LocalOf DEF At, Course, WorkerPC
  <2> QED BY <2>1, <2>2, JobsAssumption DEF Awaits, Thread, Holds, HeldAt, At
<1>3. HeldAt(x) /\ ApartAt(r, x) /\ Owns(x)
  <2>1. HeldAt(x) /\ ApartAt(r, x)
    BY <1>2 DEF Owned
  <2> QED BY <1>1, <1>2, <2>1 DEF HeldAt, Holding
<1>4. CASE x \in Worker
  BY <1>1, <1>2, <1>3, <1>4 DEF HeldAt, Owns, Owning, At
<1>5. CASE x \in Runner
  <2>1. x = r
    BY <1>1, <1>2, <1>3, <1>5 DEF HeldAt
  <2> QED BY <1>2, <1>3, <2>1 DEF Owns, Owning
<1>6. CASE x \in Request
  <2>1. Awaits(r, x)
    BY <1>1, <1>2, <1>3, <1>6 DEF ApartAt, Waits
  <2>2. x = q
    BY <1>2, <2>1 DEF Awaits
  <2> QED BY <1>3, <2>2 DEF Owns, Owning, At
<1> QED BY <1>4, <1>5, <1>6 DEF Thread

LEMMA DecideOwned ==
  ASSUME Typed, Typed', Owned, NEW q \in Thread, Decide(q)
  PROVE  Owned'
<1> DEFINE j == act[q].job
<1>1. /\ j \in Job /\ q \in Request /\ At(q, "sent") /\ HeldAt(q) /\ job' = job
      /\ act[q].pc \notin Waits
  BY DecideBecomes DEF Decide, Owned, At, Waits
<1>2. CASE ~ Holds(act[q].peer, j)
  BY <1>1, <1>2, DecideBecomes, CarryOwned DEF At, Waits
<1>3. CASE Holds(act[q].peer, j)
  <2> DEFINE r == act[q].peer
  <2>1. /\ Others(q) /\ act'[q].pc \in {"seal", "clear"} /\ act'[q].job = j
        /\ act'[q].try = job[j].attempts /\ act'[q].peer = r
    BY <1>3, DecideBecomes DEF Becomes
  <2>2. job[j].status = "running" /\ job[j].runner = r
    BY <1>3 DEF Holds
  <2>3. HeldAt(q)'
    BY <1>1, <2>1, <2>2, Kinds DEF HeldAt, Owns, Owning, At
  <2>4. ASSUME NEW x \in Thread, x # q PROVE HeldAt(x)'
    <3>1. HeldAt(x) /\ act'[x] = act[x]
      BY <2>1, <2>4 DEF Owned, Others
    <3>2. At(x, "sent") => act'[act[x].peer] = act[act[x].peer]
      <4>1. At(x, "sent") => act[x].peer \in Thread /\ act[x].peer # q
        BY <1>1, <3>1, Kinds DEF HeldAt, Awaits, Thread
      <4> QED BY <2>1, <4>1 DEF Others
    <3> QED BY <1>1, <3>1, <3>2 DEF HeldAt, Owns, At, Awaits
  <2>5. ASSUME NEW x \in Thread, x # q, Holding(x) PROVE act[x].job # j
    BY <1>1, <1>3, <2>5, SentAlone
  <2>6. ASSUME NEW x \in Thread, NEW y \in Thread PROVE ApartAt(x, y)'
    <3>1. ApartAt(x, y)
      BY DEF Owned
    <3>2. \A z \in Thread : z # q /\ Holding(z)' => Holding(z) /\ act'[z] = act[z]
      BY <2>1 DEF Others, Holding, Owns, At
    <3>3. Holding(x)' /\ Holding(y)' /\ act'[x].job = act'[y].job => x = y
      BY <2>1, <2>5, <3>1, <3>2 DEF ApartAt
    <3>4. ASSUME x \in Runner, act'[x].pc \in Waits, y \in Request, Owns(y)',
                 act'[x].job = act'[y].job, job'[act'[x].job].runner = x
          PROVE  Awaits(x, y)'
      <4>1. x # q /\ act'[x] = act[x]
        BY <1>1, <2>1, <3>4, Kinds DEF Others
      <4>2. CASE y = q
        <5>1. x = r /\ Awaits(r, q)
          BY <1>1, <2>1, <2>2, <3>4, <4>2 DEF HeldAt
        <5> QED BY <4>1, <4>2, <5>1 DEF Awaits
      <4>3. CASE y # q
        <5>1. act'[y] = act[y]
          BY <2>1, <4>3 DEF Others
        <5> QED BY <1>1, <3>1, <3>4, <4>1, <5>1 DEF ApartAt, Awaits, Owns
      <4> QED BY <4>2, <4>3
    <3> QED BY <3>3, <3>4 DEF ApartAt
  <2> QED BY <2>3, <2>4, <2>6 DEF Owned
<1> QED BY <1>2, <1>3

LEMMA SealOwned ==
  ASSUME Typed, Typed', Owned, NEW q \in Thread, Seal(q) \/ Manage(q)
  PROVE  Owned'
<1>1. q \in Request /\ act[q].job \in Job /\ HeldAt(q) /\ job' = job
  BY SealTyped DEF Seal, Manage, Owned
<1>2. /\ Others(q) /\ act[q].pc \in {"seal", "manage"} /\ act'[q].pc \in {"manage", "clear"}
      /\ act'[q].job = act[q].job /\ act'[q].try = act[q].try /\ act'[q].peer = act[q].peer
  BY GotoBecomes DEF Seal, Manage, Becomes, At, PC
<1>3. HeldAt(q)' /\ Holding(q)
  BY <1>1, <1>2, Kinds DEF HeldAt, Holding, Owns, Owning, At
<1> QED BY <1>1, <1>2, <1>3, QuietSoloOwned DEF Waits

LEMMA LeaveOwned ==
  ASSUME Typed, Typed', Owned, NEW p \in Thread, act' = Leave(p), job' = job,
         act[p].pc \notin Waits \cup {"idle"}
  PROVE  Owned'
<1>1. CASE p \in Request
  BY <1>1, LeaveBecomes, CarryOwned
<1>2. CASE p \notin Request
  BY <1>2, LeaveBecomes, IdleOwned
<1> QED BY <1>1, <1>2

LEMMA ErrorOwned ==
  ASSUME Typed, Typed', Owned, NEW p \in Thread,
         Flag(p) \/ WorkerError(p) \/ HandlerError(p)
  PROVE  Owned'
<1>1. job' = job /\ act[p].pc \notin Waits \cup {"idle"}
  BY DEF Flag, WorkerError, HandlerError, Waits, At
<1>2. CASE Flag(p)
  BY <1>1, <1>2, LeaveOwned DEF Flag
<1>3. CASE WorkerError(p)
  <2>1. p \notin Request /\ (~ At(p, "flag") => Owns(p))
    BY <1>3, WorkerErrorBecomes, Kinds DEF WorkerError, Owns, Owning, At
  <2> QED BY <1>1, <1>3, <2>1, WorkerErrorBecomes, CarryOwned, IdleOwned
<1>4. CASE HandlerError(p)
  <2>1. CASE act' = Leave(p)
    BY <1>1, <2>1, LeaveOwned
  <2>2. CASE /\ act[p].pc \in {"seal", "manage"} /\ p \in Request
             /\ Becomes(p, "clear", act[p].job, act[p].try, FALSE)
    <3>1. /\ Others(p) /\ act'[p].pc = "clear" /\ act'[p].job = act[p].job
          /\ act'[p].try = act[p].try /\ act'[p].peer = act[p].peer /\ HeldAt(p)
      BY <2>2 DEF Becomes, Owned
    <3>2. HeldAt(p)' /\ Holding(p)
      BY <1>1, <2>2, <3>1, Kinds DEF HeldAt, Holding, Owns, Owning, At
    <3> QED BY <1>1, <3>1, <3>2, QuietSoloOwned DEF Waits
  <2> QED BY <1>4, <2>1, <2>2, HandlerErrorBecomes
<1> QED BY <1>2, <1>3, <1>4

LEMMA DropOwned ==
  ASSUME Typed, Typed', Owned, Fenced, NEW p \in Thread,
         Crash(p) \/ Respond(p) \/ NetError(p)
  PROVE  Owned'
<1> DEFINE Kept(q) == act'[act[q].peer] = act[act[q].peer]
<1>1. ASSUME NEW q \in Thread, act'[q].pc = "sent", Drops
      PROVE  act'[q] = act[q] /\ Awaits(act[q].peer, q) /\ act[q].peer \in Thread
  <2>1. act'[q] = act[q]
    <3>1. Idle.pc = "idle"
      BY DEF Idle
    <3>2. q \in Runner /\ At(q, "wait") => Errored(q).pc = "resend"
      BY ErroredType DEF At
    <3> QED BY <1>1, <3>1, <3>2 DEF Drops
  <2>2. HeldAt(q)
    BY DEF Owned
  <2> QED BY <1>1, <2>1, <2>2 DEF HeldAt, At, Awaits, Thread
<1>2. CASE Crash(p)
  <2>1. Drops /\ act'[p] = Idle /\ job' = job
    BY <1>2, CrashDrops DEF Crash
  <2>2. ASSUME NEW q \in Thread, act'[q].pc = "sent" PROVE Kept(q)
    <3>1. act'[q] = act[q] /\ Awaits(act[q].peer, q) /\ act[q].peer \in Thread
      BY <1>1, <2>1, <2>2
    <3>2. q # p /\ act[q].peer # p
      BY <1>2, <2>1, <2>2, <3>1 DEF Idle, Crash, Fenced, At
    <3>3. ~ Awaits(act[q].peer, p)
      BY <3>1, <3>2 DEF Awaits
    <3>4. \A x \in Thread : Awaits(p, act[q].peer) => ~ At(act[q].peer, "sent")
      BY <3>1 DEF Awaits, At
    <3> QED BY <1>2, <3>1, <3>2, <3>3, <3>4 DEF Crash, Awaits, At
  <2> QED BY <2>1, <2>2, DropsOwned
<1>3. CASE Respond(p)
  <2>1. /\ Drops /\ p \in Request /\ At(p, "done") /\ job' = job
        /\ \A x \in Thread : act'[x] = IF x = p \/ Awaits(x, p) THEN Idle ELSE act[x]
    BY <1>3, RespondDrops DEF Respond
  <2>2. ASSUME NEW q \in Thread, act'[q].pc = "sent" PROVE Kept(q)
    <3>1. act'[q] = act[q] /\ Awaits(act[q].peer, q) /\ act[q].peer \in Thread
      BY <1>1, <2>1, <2>2
    <3> QED BY <2>1, <2>2, <3>1, Kinds DEF Awaits, At
  <2> QED BY <2>1, <2>2, DropsOwned
<1>4. CASE NetError(p)
  <2>1. /\ Drops /\ p \in Runner /\ job' = job
        /\ \/ At(p, "change") /\ Others(p) /\ act'[p] = Idle
           \/ /\ act[p].pc \in {"wait", "wait2"} /\ act[p].peer \in Request
              /\ act'[act[p].peer] = Idle
              /\ \A x \in Thread : x # p /\ x # act[p].peer => act'[x] = act[x]
    BY <1>4, NetErrorDrops DEF NetError, Fenced
  <2>2. ASSUME NEW q \in Thread, act'[q].pc = "sent" PROVE Kept(q)
    <3>1. act'[q] = act[q] /\ Awaits(act[q].peer, q) /\ act[q].peer \in Thread
      BY <1>1, <2>1, <2>2
    <3>2. CASE At(p, "change") /\ Others(p)
      BY <3>1, <3>2 DEF Others, Awaits, At
    <3>3. CASE /\ act[p].pc \in {"wait", "wait2"} /\ act[p].peer \in Request
               /\ act'[act[p].peer] = Idle
               /\ \A x \in Thread : x # p /\ x # act[p].peer => act'[x] = act[x]
      <4>1. q # act[p].peer
        BY <2>2, <3>3 DEF Idle
      <4>2. act[q].peer # p /\ act[q].peer # act[p].peer
        BY <3>1, <3>3, <4>1, Kinds DEF Awaits
      <4> QED BY <3>1, <3>3, <4>2
    <3> QED BY <2>1, <3>2, <3>3
  <2> QED BY <2>1, <2>2, DropsOwned
<1> QED BY <1>2, <1>3, <1>4

(* The scheduler and the reclaims write only rows that nobody holds. *)
LEMMA QueueingRows ==
  ASSUME Typed, Owned, Fenced, Queueing, NEW k \in Job, job'[k] # job[k]
  PROVE  /\ \A x \in Thread : Holding(x) => act[x].job # k
         /\ job'[k].runner \in {job[k].runner, None} /\ job'[k].status = "queued"
         /\ job[k].status # "none" => job'[k].handler = job[k].handler
<1>1. job \in [Job -> Row]
  BY DEF Typed, TypeOK
<1>2. PICK j \in Job : \/ \E h \in {"in_process", "runner"}, b \in BOOLEAN : Enqueue(j, h, b)
                       \/ Sweep(j)
  BY DEF Queueing, Schedule, OnDemand, Dedupe, MarkPending
<1>3. CASE \E h \in {"in_process", "runner"}, b \in BOOLEAN : Enqueue(j, h, b)
  <2>1. /\ k = j /\ job[j].status = "none" /\ job'[j].status = "queued"
        /\ job'[j].runner = job[j].runner
    BY <1>1, <1>3 DEF Enqueue, Row
  <2> QED BY <2>1 DEF Owned, HeldAt, Holding, Owns, Owning, At
<1>4. CASE Sweep(j)
  <2>1. /\ k = j /\ job[j].status = "running" /\ job'[j].status = "queued"
        /\ job'[j].runner \in {job[j].runner, None} /\ job'[j].handler = job[j].handler
        /\ \A x \in Thread : ~ WorksOn(x, j)
    BY <1>1, <1>4 DEF Sweep, Reclaim, ReclaimRunner, Expired, Disturb, Fenced, Row
  <2> QED BY <2>1 DEF Owned, HeldAt, Holding, Owns, Owning, At, WorksOn
<1> QED BY <1>2, <1>3, <1>4

LEMMA QueueingOwned ==
  ASSUME Typed, Typed', Owned, Fenced, Queueing
  PROVE  Owned'
<1>1. act' = act /\ job \in [Job -> Row]
  BY QueueingTyped DEF Typed, TypeOK
<1>2. ASSUME NEW k \in Job, job'[k] # job[k]
      PROVE  /\ \A x \in Thread : Holding(x) => act[x].job # k
             /\ job'[k].runner \in {job[k].runner, None} /\ job'[k].status = "queued"
             /\ job[k].status # "none" => job'[k].handler = job[k].handler
  BY <1>2, QueueingRows
<1>3. ASSUME NEW x \in Thread PROVE HeldAt(x)'
  <2>1. HeldAt(x)
    BY DEF Owned
  <2>2. CASE At(x, "idle")
    BY <1>1, <2>2 DEF HeldAt, At, Owns, Owning
  <2>3. CASE ~ At(x, "idle")
    BY <1>1, <1>2, <2>1, <2>3, JobOf DEF HeldAt, Holding, At, Owns, Awaits
  <2> QED BY <2>2, <2>3
<1>4. ASSUME NEW x \in Thread, NEW y \in Thread PROVE ApartAt(x, y)'
  <2>1. ApartAt(x, y)
    BY DEF Owned
  <2>2. ASSUME x \in Runner, y \in Request, Owns(y), job'[act[y].job].runner = x
        PROVE  job[act[y].job].runner = x
    <3>1. act[y].job \in Job /\ Holding(y)
      BY <2>2, JobOf DEF Owns, Owning, At, Holding
    <3> QED BY <1>2, <2>2, <3>1
  <2> QED BY <1>1, <2>1, <2>2 DEF ApartAt, Holding, Owns, At, Awaits
<1> QED BY <1>3, <1>4 DEF Owned

LEMMA NextOwned ==
  ASSUME Typed, Typed', Owned, Fenced, [Next]_vars
  PROVE  Owned'
<1>1. ASSUME NEW p \in Thread, Step(p) PROVE Owned'
  BY <1>1, WriteOwned, ExecuteOwned, ReportOwned, DecideOwned, SealOwned, DropOwned,
     ErrorOwned DEF Step
<1>2. ASSUME NEW p \in Thread, Fault(p) PROVE Owned'
  BY <1>2, ExecuteOwned, DropOwned, ErrorOwned DEF Fault
<1>3. ASSUME NEW p \in Thread, NEW j \in Job, Pick(p, j) PROVE Owned'
  BY <1>3, PickOwned
<1>4. CASE Queueing
  BY <1>4, QueueingOwned
<1>5. CASE UNCHANGED vars
  BY <1>5 DEF vars, Owned, HeldAt, ApartAt, Holding, Owns, At, Awaits
<1> QED BY <1>1, <1>2, <1>3, <1>4, <1>5, NextCases

LEMMA AlwaysOwned ==
  ASSUME Fenced
  PROVE  Spec => []Owned
<1>1. Typed /\ Typed' /\ Owned /\ [Next]_vars => Owned'
  BY NextOwned
<1> QED BY <1>1, AlwaysTyped, InitOwned, PTL DEF Spec

(* What executes a job holds it, alone and at the attempt that it claimed, as
   long as leases are renewed and a report is answered or lost before its
   runner goes on: then a reclaim only takes what nobody serves, and the
   unfenced writes of finalizeJob are the holder's (pamJobs.ts,
   pamRunner.ts). *)
THEOREM JobsExecuteOnce == ASSUME Fenced PROVE Spec => []NoDoubleExecution
<1>1. Typed /\ Owned => NoDoubleExecution
  <2> SUFFICES ASSUME Typed, Owned, NEW p \in Worker \cup Runner, NEW q \in Worker \cup Runner,
                      act[p].pc \in Executing, act[q].pc \in Executing, act[p].job = act[q].job
               PROVE  p = q /\ job[act[p].job].status = "running"
                        /\ job[act[p].job].attempts = act[p].try
    BY DEF NoDoubleExecution
  <2>1. p \in Thread /\ q \in Thread /\ Owns(p) /\ Owns(q)
    BY DEF Thread, Owns, Owning, Executing
  <2> QED BY <2>1 DEF Owned, HeldAt, ApartAt, Holding
<1> QED BY <1>1, AlwaysTyped, AlwaysOwned, PTL

(* A job that ended stays as it ended: the holder alone decides, once, and no
   reclaim brings it back (finalizeJob, reclaimExpiredLeases). *)
Final(j) == job[j].status \in {"succeeded", "dead"} => job'[j].status = job[j].status

LEMMA NextFinal ==
  ASSUME Typed, Owned, [Next]_vars, NEW j \in Job
  PROVE  Final(j)
<1> USE DEF Final
<1>1. job \in [Job -> Row]
  BY DEF Typed, TypeOK
<1>2. ASSUME job' # job PROVE Final(j)
  <2>1. \/ \E k \in Job : (\E h, b : Enqueue(k, h, b)) \/ Sweep(k)
        \/ \E p \in Thread : Claim(p) \/ Pend(p) \/ Clear(p) \/ Finalize(p)
    <3>1. ASSUME NEW p \in Thread, Step(p)
          PROVE  Claim(p) \/ Pend(p) \/ Clear(p) \/ Finalize(p)
      BY <1>2, <3>1 DEF Step, Load, Change, Refuse, Store, Reload, Settle, Verify, Check,
                        Report, Decide, Seal, Manage, Respond, Flag
    <3>2. ASSUME NEW p \in Thread PROVE ~ Fault(p) /\ \A k \in Job : ~ Pick(p, k)
      BY <1>2, <3>2 DEF Fault, LoseAnswer, Crash, WorkerError, HandlerError, NetError, Pick
    <3>3. CASE Queueing
      BY <1>2, <3>3 DEF Queueing, Schedule, OnDemand, Dedupe, MarkPending
    <3>4. Next
      BY <1>2 DEF vars
    <3> QED BY <3>1, <3>2, <3>3, <3>4, NextCases
  <2>2. ASSUME NEW k \in Job, (\E h, b : Enqueue(k, h, b)) \/ Sweep(k) PROVE Final(j)
    BY <1>1, <2>2 DEF Enqueue, Sweep, Reclaim, ReclaimRunner, Expired
  <2>3. ASSUME NEW p \in Thread, Claim(p) \/ Pend(p) \/ Clear(p) \/ Finalize(p)
        PROVE  Final(j)
    <3>1. act[p].job \in Job /\ HeldAt(p) /\ Holding(p)
      BY <2>3, JobOf DEF Claim, Pend, Clear, Finalize, Owned, Holding, Owns, Owning, At
    <3>2. job[act[p].job].status \in {"queued", "running"}
      BY <3>1 DEF HeldAt, Holding
    <3>3. \A k \in Job \ {act[p].job} : job'[k] = job[k]
      BY <1>1, <2>3, <3>1 DEF Claim, Pend, Clear, Finalize
    <3> QED BY <3>2, <3>3
  <2> QED BY <2>1, <2>2, <2>3
<1> QED BY <1>2

THEOREM EndedStaysEnded == ASSUME Fenced PROVE Spec => TerminalIsFinal
<1>1. Typed /\ Owned /\ [Next]_vars =>
        [\A j \in Job : job[j].status \in {"succeeded", "dead"} =>
                          job'[j].status = job[j].status]_vars
  BY NextFinal DEF Final
<1> QED BY <1>1, AlwaysTyped, AlwaysOwned, PTL DEF Spec, TerminalIsFinal

-----------------------------------------------------------------------------
(* What a success has earned: from the change on, the new credential travels
   with the job (New, the pending secret, the row a report handler has read) to
   the statement that seals it. *)

Fresh(j) == <<j, job[j].attempts>>

EarnAt(p) ==
  /\ p \in Worker =>
       \/ act[p].pc \notin {"reload", "verify"} /\ ~ (act[p].pc \in {"settle", "final"} /\ act[p].ok)
       \/ New(p) \in stored
  /\ p \in Runner =>
       /\ act[p].pc \in {"change", "check", "report"} => job[act[p].job].pending = New(p)
       /\ At(p, "resend") => ~ act[p].ok
  /\ p \in Request =>
       /\ At(p, "sent") /\ act[p].ok /\ Holds(act[p].peer, act[p].job) =>
            job[act[p].job].pending = Fresh(act[p].job)
       /\ At(p, "seal") => act[p].cred = New(p)
       /\ At(p, "manage") \/ (act[p].pc \in {"clear", "final"} /\ act[p].ok) => New(p) \in stored

Earned ==
  /\ \A p \in Thread : EarnAt(p)
  /\ SucceededIsSealed

LEMMA InitEarned == Init => Earned
BY DEF Init, Earned, EarnAt, SucceededIsSealed, At, Idle

LEMMA OthersEarn ==
  ASSUME Typed, Owned, NEW p \in Thread, NEW x \in Thread, x # p, act'[x] = act[x],
         EarnAt(x), stored \subseteq stored', Holding(p) \/ job' = job,
         \A k \in Job : job'[k] = job[k] \/ k = act[p].job,
         At(x, "sent") /\ Holds(act[x].peer, act[x].job)' => Holds(act[x].peer, act[x].job)
  PROVE  EarnAt(x)'
<1>1. CASE At(x, "idle")
  BY <1>1 DEF EarnAt, At
<1>2. CASE ~ At(x, "idle")
  <2>1. act[x].job \in Job
    BY <1>2, JobOf
  <2>2. Owns(x) => job'[act[x].job] = job[act[x].job]
    BY <2>1 DEF Owned, ApartAt, Holding
  <2>3. At(x, "sent") /\ Holds(act[x].peer, act[x].job)' => job'[act[x].job] = job[act[x].job]
    BY <2>1, SentAlone
  <2> QED BY <2>2, <2>3 DEF EarnAt, At, New, Fresh, Holds, Owns, Owning
<1> QED BY <1>1, <1>2

LEMMA StepEarned ==
  ASSUME Typed, Owned, Earned, NEW p \in Thread, Others(p), stored \subseteq stored',
         Holding(p) \/ job' = job,
         \A k \in Job : job'[k] = job[k] \/ k = act[p].job,
         \A x \in Thread : x # p /\ At(x, "sent") /\ Holds(act[x].peer, act[x].job)' =>
                             Holds(act[x].peer, act[x].job),
         EarnAt(p)',
         \A k \in Job : job'[k].status = "succeeded" =>
           \/ job[k].status = "succeeded" /\ job'[k].attempts = job[k].attempts
           \/ <<k, job'[k].attempts>> \in stored'
  PROVE  Earned'
<1>1. \A x \in Thread : EarnAt(x)'
  BY OthersEarn DEF Others, Earned
<1>2. SucceededIsSealed'
  BY DEF Earned, SucceededIsSealed
<1> QED BY <1>1, <1>2 DEF Earned

(* The rows stay as they are. *)
LEMMA QuietEarned ==
  ASSUME Earned, stored \subseteq stored', job' = job,
         \A x \in Thread : act'[x] = act[x] \/ EarnAt(x)'
  PROVE  Earned'
<1>1. ASSUME NEW x \in Thread, act'[x] = act[x] PROVE EarnAt(x)'
  <2>1. EarnAt(x)
    BY DEF Earned
  <2> QED BY <1>1, <2>1 DEF EarnAt, At, New, Fresh, Holds
<1>2. SucceededIsSealed'
  BY DEF Earned, SucceededIsSealed
<1> QED BY <1>1, <1>2 DEF Earned

LEMMA ExecuteEarned ==
  ASSUME Typed, Owned, Earned, NEW p \in Thread,
         \/ Load(p) \/ Change(p) \/ LoseAnswer(p)
         \/ \E term \in BOOLEAN : Refuse(p, term)
         \/ Store(p) \/ Reload(p) \/ Settle(p)
         \/ \E ok \in BOOLEAN : Verify(p, ok) \/ Check(p, ok)
  PROVE  Earned'
<1>1. /\ act[p].job \in Job /\ p \in Worker \cup Runner /\ p \notin Request
      /\ job' = job /\ EarnAt(p) /\ stored \subseteq stored'
  <2>1. /\ act[p].pc \in {"load", "change", "store", "reload", "verify", "settle", "check"}
        /\ job' = job /\ stored \subseteq stored'
    BY DEF Load, Change, LoseAnswer, Refuse, Store, Seals, Reload, Settle, Verify, Check, At
  <2> QED BY <2>1, LocalOf, Kinds DEF Course, RequestPC, Thread, Earned
<1>2. ASSUME NEW pc, NEW ok, Becomes(p, pc, act[p].job, act[p].try, ok),
             p \in Worker =>
               \/ pc \notin {"reload", "verify"} /\ ~ (pc \in {"settle", "final"} /\ ok)
               \/ New(p) \in stored',
             p \in Runner =>
               /\ pc \in {"change", "check", "report"} => job[act[p].job].pending = New(p)
               /\ pc # "resend"
      PROVE  Earned'
  <2>1. /\ Others(p) /\ act'[p].pc = pc /\ act'[p].ok = ok /\ act'[p].job = act[p].job
        /\ New(p)' = New(p)
    BY <1>2 DEF Becomes, New
  <2>2. EarnAt(p)'
    BY <1>1, <1>2, <2>1 DEF EarnAt, At
  <2> QED BY <1>1, <2>1, <2>2, QuietEarned DEF Others
<1>3. ASSUME NEW ok \in BOOLEAN, NEW term \in BOOLEAN,
             act' = [act EXCEPT ![p] = Outcome(p, ok, term)],
             p \in Worker => ~ ok,
             p \in Runner => job[act[p].job].pending = New(p)
      PROVE  Earned'
  BY <1>1, <1>2, <1>3, OutcomeBecomes, Kinds
<1>4. CASE Load(p)
  BY <1>1, <1>2, <1>4, LoadBecomes, Kinds
<1>5. CASE Change(p)
  <2> DEFINE pc == IF p \in Runner THEN "check" ELSE "store"
  <2>1. Becomes(p, pc, act[p].job, act[p].try, act[p].ok) /\ At(p, "change")
    BY <1>5, GotoBecomes DEF Change, PC
  <2> QED BY <1>1, <1>2, <2>1, Kinds DEF EarnAt, At
<1>6. CASE LoseAnswer(p)
  BY <1>1, <1>3, <1>6 DEF LoseAnswer, EarnAt, At
<1>7. ASSUME NEW term \in BOOLEAN, Refuse(p, term) PROVE Earned'
  BY <1>1, <1>3, <1>7 DEF Refuse, EarnAt, At
<1>8. ASSUME NEW ok \in BOOLEAN, Check(p, ok) PROVE Earned'
  <2>1. At(p, "check") /\ p \in Runner /\ p \notin Worker
    BY <1>1, <1>8, LocalOf, Kinds DEF Check, At, Course, WorkerPC
  <2> QED BY <1>1, <1>3, <1>8, <2>1 DEF Check, EarnAt, At
<1>9. CASE Store(p) \/ Reload(p) \/ Settle(p) \/ \E ok \in BOOLEAN : Verify(p, ok)
  <2>1. p \in Worker /\ p \notin Runner
    BY <1>1, <1>9, LocalOf, Kinds DEF Store, Reload, Settle, Verify, At, Course, RunnerPC
  <2>2. CASE Store(p)
    <3>1. Becomes(p, "reload", act[p].job, act[p].try, act[p].ok) /\ New(p) \in stored'
      BY <2>2, GotoBecomes DEF Store, Seals, PC
    <3> QED BY <1>2, <2>1, <3>1
  <2>3. CASE Reload(p)
    BY <1>1, <1>2, <2>1, <2>3, ReloadBecomes DEF Reload, EarnAt, At
  <2>4. CASE Settle(p)
    <3>1. Becomes(p, "final", act[p].job, act[p].try, act[p].ok) /\ At(p, "settle")
      BY <2>4, GotoBecomes DEF Settle, PC
    <3> QED BY <1>1, <1>2, <2>1, <3>1 DEF EarnAt, At
  <2>5. ASSUME NEW ok \in BOOLEAN, Verify(p, ok) PROVE Earned'
    BY <1>1, <1>2, <2>1, <2>5, VerifyBecomes DEF Verify, EarnAt, At
  <2> QED BY <1>9, <2>2, <2>3, <2>4, <2>5
<1> QED BY <1>4, <1>5, <1>6, <1>7, <1>8, <1>9

(* A claim makes no report of another thread effective: its runner is waiting. *)
LEMMA ClaimHolds ==
  ASSUME Typed, Owned, NEW p \in Thread, Claim(p), NEW x \in Thread, x # p,
         act'[x] = act[x], At(x, "sent"), Holds(act[x].peer, act[x].job)'
  PROVE  Holds(act[x].peer, act[x].job)
<1> DEFINE j == act[p].job
<1>1. /\ j \in Job /\ p \in Worker \cup Runner /\ act[x].job \in Job
      /\ HeldAt(p) /\ HeldAt(x) /\ At(p, "picked")
  BY ClaimBecomes, JobOf DEF Owned, Claim, At
<1>2. /\ \A k \in Job \ {j} : job'[k] = job[k]
      /\ p \in Runner => job'[j].runner = p
  BY <1>1 DEF Claim, Typed, TypeOK, Row
<1>3. ASSUME act[x].job = j PROVE FALSE
  <2>1. x \notin Worker /\ Awaits(act[x].peer, x)
    BY <1>1, LocalOf DEF HeldAt, At, Course, WorkerPC
  <2>2. CASE p \in Runner
    BY <1>1, <1>2, <1>3, <2>1, <2>2 DEF Holds, Awaits, At
  <2>3. CASE p \in Worker
    BY <1>1, <1>3, <2>1, <2>3 DEF HeldAt, At
  <2> QED BY <1>1, <2>2, <2>3
<1> QED BY <1>1, <1>2, <1>3 DEF Holds

LEMMA WriteEarned ==
  ASSUME Typed, Owned, Earned, NEW p \in Thread,
         Claim(p) \/ Pend(p) \/ Clear(p) \/ Finalize(p)
  PROVE  Earned'
<1> DEFINE j == act[p].job
<1>1. /\ j \in Job /\ Holding(p) /\ HeldAt(p) /\ EarnAt(p) /\ ~ At(p, "idle")
      /\ stored' = stored /\ job \in [Job -> Row] /\ act[p] \in Local
  BY JobOf, LocalOf DEF Claim, Pend, Clear, Finalize, At, Owned, Earned, Holding, Owns, Owning,
                        Typed, TypeOK
<1>2. \A k \in Job \ {j} : job'[k] = job[k]
  BY <1>1 DEF Claim, Pend, Clear, Finalize
<1>3. CASE Claim(p)
  <2>1. Others(p) /\ act'[p].pc = "load" /\ job'[j].status = "running"
    <3>1. Others(p) /\ act'[p].pc = "load"
      BY <1>3, ClaimBecomes DEF Becomes
    <3>2. job'[j].status = "running"
      BY <1>1, <1>3 DEF Claim, Row
    <3> QED BY <3>1, <3>2
  <2>2. EarnAt(p)'
    BY <2>1 DEF EarnAt, At
  <2>3. \A x \in Thread : x # p /\ At(x, "sent") /\ Holds(act[x].peer, act[x].job)' =>
                            Holds(act[x].peer, act[x].job)
    BY <1>3, <2>1, ClaimHolds DEF Others
  <2> QED BY <1>1, <1>2, <2>1, <2>2, <2>3, StepEarned
<1>4. ASSUME Others(p), job'[j].status = "running" => job'[j].runner \in {job[j].runner, None},
             job[j].status = "running"
      PROVE  \A x \in Thread : x # p /\ At(x, "sent") /\ Holds(act[x].peer, act[x].job)' =>
                                 Holds(act[x].peer, act[x].job)
  <2> SUFFICES ASSUME NEW x \in Thread, x # p, At(x, "sent"), Holds(act[x].peer, act[x].job)'
               PROVE  Holds(act[x].peer, act[x].job)
    OBVIOUS
  <2>1. act'[x] = act[x] /\ act[x].job \in Job /\ Awaits(act[x].peer, x)
    BY <1>4, JobOf DEF Others, At, Owned, HeldAt
  <2>2. act[x].peer # None
    BY <2>1, JobsAssumption DEF Awaits
  <2> QED BY <1>2, <1>4, <2>1, <2>2 DEF Holds
<1>5. CASE Pend(p)
  <2>1. /\ Others(p) /\ act'[p].job = j /\ New(p)' = New(p) /\ act'[p].pc = "change"
        /\ p \in Runner /\ p \notin Worker /\ p \notin Request
    BY <1>5, GotoBecomes, LocalOf, Kinds
       DEF Pend, Becomes, At, PC, New, Course, WorkerPC, RequestPC, Thread
  <2>2. /\ job'[j].status = job[j].status /\ job'[j].attempts = job[j].attempts
        /\ job'[j].runner = job[j].runner /\ job'[j].pending = New(p)
    BY <1>1, <1>5 DEF Pend, Row
  <2>3. EarnAt(p)' /\ job[j].status = "running"
    BY <1>1, <1>5, <2>1, <2>2 DEF EarnAt, At, HeldAt, Pend, Owns, Owning
  <2> QED BY <1>1, <1>2, <1>4, <2>1, <2>2, <2>3, StepEarned
<1>6. CASE Clear(p)
  <2>1. /\ Others(p) /\ act'[p].job = j /\ New(p)' = New(p) /\ act'[p].pc = "final"
        /\ act'[p].ok = act[p].ok /\ At(p, "clear")
        /\ p \in Request /\ p \notin Worker /\ p \notin Runner
    BY <1>6, GotoBecomes, SealTyped, Kinds DEF Clear, Becomes, PC, New
  <2>2. /\ job'[j].status = job[j].status /\ job'[j].attempts = job[j].attempts
        /\ job'[j].runner = None
    BY <1>1, <1>6 DEF Clear, Row
  <2>3. EarnAt(p)' /\ job[j].status = "running"
    BY <1>1, <2>1, <2>2 DEF EarnAt, At, HeldAt, Owns, Owning
  <2> QED BY <1>1, <1>2, <1>4, <2>1, <2>2, <2>3, StepEarned
<1>7. CASE Finalize(p)
  <2> DEFINE status == IF act[p].ok THEN "succeeded"
                       ELSE IF Exhausted(p) THEN "dead" ELSE "queued"
  <2>1. /\ job' = [job EXCEPT ![j].status = status]
        /\ act' = IF status = "dead" THEN [act EXCEPT ![p].pc = "flag"] ELSE Leave(p)
        /\ status \in {"succeeded", "dead", "queued"} /\ (status = "succeeded" => act[p].ok)
        /\ At(p, "final") /\ p \in Worker \cup Request
    BY <1>7, FinalizeTyped DEF Finalize
  <2> HIDE DEF status
  <2>2. Others(p) /\ act'[p].pc \in {"flag", "done", "idle"}
    <3>1. CASE status = "dead"
      BY <2>1, <3>1, GotoBecomes DEF Goto, Becomes, PC
    <3>2. CASE status # "dead"
      BY <2>1, <3>2, LeaveBecomes DEF Becomes, Idle
    <3> QED BY <3>1, <3>2
  <2>3. job'[j].status = status /\ job'[j].attempts = job[j].attempts
    BY <1>1, <2>1 DEF Row
  <2>4. EarnAt(p)'
    BY <2>2 DEF EarnAt, At
  <2>5. job[j].status = "running" /\ job[j].attempts = act[p].try
    BY <1>1, <2>1 DEF HeldAt, Owns, Owning, At
  <2>6. status = "succeeded" => <<j, job'[j].attempts>> \in stored'
    BY <1>1, <2>1, <2>3, <2>5 DEF EarnAt, At, New
  <2>7. \A x \in Thread : x # p /\ At(x, "sent") /\ Holds(act[x].peer, act[x].job)' =>
                            Holds(act[x].peer, act[x].job)
    BY <1>4, <2>1, <2>2, <2>3, <2>5
  <2>8. \A k \in Job : job'[k].status = "succeeded" =>
          \/ job[k].status = "succeeded" /\ job'[k].attempts = job[k].attempts
          \/ <<k, job'[k].attempts>> \in stored'
    BY <1>2, <2>3, <2>6
  <2> QED BY <1>1, <1>2, <2>2, <2>4, <2>7, <2>8, StepEarned
<1> QED BY <1>3, <1>5, <1>6, <1>7

LEMMA ReportEarned ==
  ASSUME Typed, Owned, Earned, NEW r \in Thread, NEW q \in Request, Report(r, q)
  PROVE  Earned'
<1>1. /\ r \in Runner /\ act[r].job \in Job /\ r # q /\ q \in Thread
      /\ \A x \in Thread : x # r /\ x # q => act'[x] = act[x]
      /\ act'[r].pc \in {"wait", "wait2"}
      /\ act'[q].pc = "sent" /\ act'[q].job = act[r].job /\ act'[q].ok = act[r].ok
      /\ act'[q].peer = r
  BY ReportTyped DEF Thread
<1>2. /\ act[r].pc \in {"report", "resend"} /\ job' = job /\ stored' = stored
      /\ EarnAt(r) /\ HeldAt(r)
  BY <1>1 DEF Report, Earned, Owned
<1>3. EarnAt(r)'
  BY <1>1, Kinds DEF EarnAt, At
<1>4. EarnAt(q)'
  <2>1. act[r].ok => job[act[r].job].pending = Fresh(act[r].job)
    BY <1>1, <1>2 DEF EarnAt, HeldAt, Owns, Owning, At, New, Fresh
  <2> QED BY <1>1, <1>2, <2>1, Kinds DEF EarnAt, At, Fresh
<1> QED BY <1>1, <1>2, <1>3, <1>4, QuietEarned

LEMMA DecideEarned ==
  ASSUME Typed, Earned, NEW q \in Thread, Decide(q)
  PROVE  Earned'
<1> DEFINE j == act[q].job
<1>1. /\ j \in Job /\ q \in Request /\ q \notin Worker /\ q \notin Runner /\ At(q, "sent")
      /\ job' = job /\ stored' = stored /\ EarnAt(q)
  BY DecideBecomes, Kinds DEF Decide, Earned
<1>2. Others(q) /\ EarnAt(q)'
  <2>1. CASE ~ Holds(act[q].peer, j)
    <3>1. Others(q) /\ act'[q].pc = "done"
      BY <2>1, DecideBecomes DEF Becomes
    <3> QED BY <1>1, <3>1 DEF EarnAt, At
  <2>2. CASE Holds(act[q].peer, j)
    <3>1. /\ Others(q) /\ act'[q].ok = act[q].ok /\ act'[q].cred = job[j].pending
          /\ act'[q].job = j /\ act'[q].try = job[j].attempts
          /\ act'[q].pc = IF act[q].ok /\ job[j].pending # None THEN "seal" ELSE "clear"
      BY <2>2, DecideBecomes DEF Becomes
    <3>2. act[q].ok => job[j].pending = Fresh(j) /\ job[j].pending # None
      <4>1. Fresh(j) \in Credential
        BY <1>1, RowOf DEF Fresh, Credential, Row
      <4> QED BY <1>1, <2>2, <4>1, CredentialAssumption DEF EarnAt
    <3> QED BY <1>1, <3>1, <3>2 DEF EarnAt, At, New, Fresh
  <2> QED BY <2>1, <2>2
<1> QED BY <1>1, <1>2, QuietEarned DEF Others

LEMMA SealEarned ==
  ASSUME Typed, Earned, NEW q \in Thread, Seal(q) \/ Manage(q)
  PROVE  Earned'
<1>1. q \in Request /\ q \notin Worker /\ q \notin Runner /\ EarnAt(q) /\ job' = job
  BY SealTyped, Kinds DEF Seal, Manage, Earned
<1>2. /\ Others(q) /\ act'[q].pc \in {"manage", "clear"} /\ New(q)' = New(q)
  BY GotoBecomes DEF Seal, Manage, Becomes, At, PC, New
<1>3. New(q) \in stored' /\ stored \subseteq stored'
  BY <1>1 DEF Seal, Manage, Seals, EarnAt, At
<1>4. EarnAt(q)'
  BY <1>1, <1>2, <1>3 DEF EarnAt, At
<1> QED BY <1>1, <1>2, <1>3, <1>4, QuietEarned DEF Others

(* A thread that starts, gives up or is dropped has nothing to earn. *)
LEMMA IdleEarned ==
  ASSUME Earned, job' = job, stored' = stored,
         \A x \in Thread : \/ act'[x] = act[x]
                           \/ act'[x].pc \in {"idle", "picked", "done"}
                           \/ act'[x].pc \in {"resend", "final", "clear"} /\ ~ act'[x].ok
  PROVE  Earned'
<1>1. \A x \in Thread : act'[x] = act[x] \/ EarnAt(x)'
  BY DEF EarnAt, At
<1> QED BY <1>1, QuietEarned

LEMMA OtherEarned ==
  ASSUME Typed, Earned, NEW p \in Thread,
         \/ \E j \in Job : Pick(p, j)
         \/ Flag(p) \/ WorkerError(p) \/ HandlerError(p)
         \/ Crash(p) \/ Respond(p) \/ (NetError(p) /\ Fenced)
  PROVE  Earned'
<1>1. job' = job /\ stored' = stored /\ Idle.pc = "idle"
  BY DEF Pick, Flag, WorkerError, HandlerError, Crash, Respond, NetError, Idle
<1>2. ASSUME act' = Leave(p) PROVE Earned'
  <2>1. Others(p) /\ act'[p].pc \in {"done", "idle"}
    BY <1>1, <1>2, LeaveBecomes DEF Becomes
  <2> QED BY <1>1, <2>1, IdleEarned DEF Others
<1>3. ASSUME NEW j \in Job, Pick(p, j) PROVE Earned'
  <2>1. Others(p) /\ act'[p].pc = "picked"
    BY <1>3, PickBecomes DEF Becomes
  <2> QED BY <1>1, <2>1, IdleEarned DEF Others
<1>4. CASE WorkerError(p)
  <2>1. Others(p) /\ (act'[p].pc = "idle" \/ (act'[p].pc = "final" /\ ~ act'[p].ok))
    <3>1. CASE Becomes(p, "final", act[p].job, act[p].try, FALSE)
      BY <3>1 DEF Becomes
    <3>2. CASE Others(p) /\ act'[p] = Idle
      BY <3>2 DEF Idle
    <3> QED BY <1>4, <3>1, <3>2, WorkerErrorBecomes
  <2> QED BY <1>1, <2>1, IdleEarned DEF Others
<1>5. CASE HandlerError(p)
  <2>1. CASE Becomes(p, "clear", act[p].job, act[p].try, FALSE)
    BY <1>1, <2>1, IdleEarned DEF Becomes, Others
  <2> QED BY <1>2, <1>5, <2>1, HandlerErrorBecomes
<1>6. CASE Crash(p) \/ Respond(p) \/ (NetError(p) /\ Fenced)
  <2>1. Drops
    BY <1>6, CrashDrops, RespondDrops, NetErrorDrops DEF Fenced
  <2>2. ASSUME NEW x \in Thread
        PROVE  \/ act'[x] = act[x] \/ act'[x].pc = "idle"
               \/ act'[x].pc = "resend" /\ ~ act'[x].ok
    <3>1. x \in Runner /\ At(x, "wait") => Errored(x).pc = "resend" /\ ~ Errored(x).ok
      BY ErroredType DEF At
    <3> QED BY <1>1, <2>1, <3>1 DEF Drops
  <2> QED BY <1>1, <2>2, IdleEarned
<1> QED BY <1>2, <1>3, <1>4, <1>5, <1>6 DEF Flag

LEMMA QueueingEarned ==
  ASSUME Typed, Owned, Earned, Fenced, Queueing
  PROVE  Earned'
<1>1. act' = act /\ stored' = stored
  BY QueueingTyped DEF Queueing, Schedule, OnDemand, Enqueue, Sweep, Reclaim, ReclaimRunner,
                       Dedupe, MarkPending
<1>2. ASSUME NEW k \in Job, job'[k] # job[k]
      PROVE  job'[k].status = "queued" /\ \A x \in Thread : Holding(x) => act[x].job # k
  BY <1>2, QueueingRows
<1>3. ASSUME NEW x \in Thread PROVE EarnAt(x)'
  <2>1. EarnAt(x)
    BY DEF Earned
  <2>2. CASE At(x, "idle")
    BY <1>1, <2>2 DEF EarnAt, At
  <2>3. CASE ~ At(x, "idle")
    <3>1. act[x].job \in Job
      BY <2>3, JobOf
    <3>2. Owns(x) => job'[act[x].job] = job[act[x].job]
      BY <1>2, <3>1 DEF Holding
    <3>3. Holds(act[x].peer, act[x].job)' =>
            Holds(act[x].peer, act[x].job) /\ job'[act[x].job] = job[act[x].job]
      BY <1>1, <1>2, <3>1 DEF Holds
    <3> QED BY <1>1, <2>1, <3>2, <3>3 DEF EarnAt, At, New, Fresh, Owns, Owning
  <2> QED BY <2>2, <2>3
<1>4. SucceededIsSealed'
  BY <1>1, <1>2 DEF Earned, SucceededIsSealed
<1> QED BY <1>3, <1>4 DEF Earned

LEMMA AlwaysEarned ==
  ASSUME Fenced
  PROVE  Spec => []Earned
<1>1. Typed /\ Owned /\ Earned /\ [Next]_vars => Earned'
  <2> SUFFICES ASSUME Typed, Owned, Earned, [Next]_vars PROVE Earned'
    OBVIOUS
  <2>1. ASSUME NEW p \in Thread, Step(p) PROVE Earned'
    BY <2>1, WriteEarned, ExecuteEarned, ReportEarned, DecideEarned, SealEarned,
       OtherEarned DEF Step
  <2>2. ASSUME NEW p \in Thread, Fault(p) PROVE Earned'
    BY <2>2, ExecuteEarned, OtherEarned DEF Fault
  <2>3. ASSUME NEW p \in Thread, NEW j \in Job, Pick(p, j) PROVE Earned'
    BY <2>3, OtherEarned
  <2>4. CASE Queueing
    BY <2>4, QueueingEarned
  <2>5. CASE UNCHANGED vars
    BY <2>5, QuietEarned DEF vars
  <2> QED BY <2>1, <2>2, <2>3, <2>4, <2>5, NextCases
<1> QED BY <1>1, AlwaysTyped, AlwaysOwned, InitEarned, PTL DEF Spec

(* A job that succeeded has sealed its credential: neither an error in sealing
   nor a report for another attempt is taken for a success (doRotate,
   reportForRunner). *)
THEOREM SuccessIsSealed == ASSUME Fenced PROVE Spec => []SucceededIsSealed
<1>1. Earned => SucceededIsSealed
  BY DEF Earned
<1> QED BY <1>1, AlwaysEarned, PTL

-----------------------------------------------------------------------------
(* The vault and the target.  When claims see each other, one job of the
   account is in progress at a time, and its holder alone changes the target's
   password and the vault. *)

Ordered == Fenced /\ "race" \notin Faults /\ "hidden" \notin Faults

Running(j) == job[j].status = "running"

Single ==
  /\ \A j, k \in Job : Running(j) /\ Running(k) => j = k
  /\ \A p \in Thread : At(p, "picked") =>
       /\ \A k \in Job : ~ Running(k)
       /\ \A q \in Thread : At(q, "picked") => q = p

SyncAt(p) ==
  /\ p \in Worker =>
       /\ At(p, "store") => target = New(p)
       /\ act[p].pc \in {"reload", "verify"} => vault = target
       /\ act[p].pc \in {"settle", "final"} /\ act[p].ok => vault = target
  /\ p \in Runner =>
       /\ act[p].pc \in {"change", "check", "report"} => job[act[p].job].pending = New(p)
       /\ At(p, "check") \/ (At(p, "report") /\ act[p].ok) => target = New(p)
       /\ At(p, "resend") => ~ act[p].ok
  /\ p \in Request =>
       /\ At(p, "sent") /\ act[p].ok /\ Holds(act[p].peer, act[p].job) =>
            job[act[p].job].pending = target
       /\ At(p, "seal") => act[p].cred = target
       /\ At(p, "manage") => vault = target
       /\ act[p].pc \in {"clear", "final"} /\ act[p].ok => vault = target

Synced == \A p \in Thread : SyncAt(p)

(* A vault that differs from the target is not taken for a managed one. *)
Shown ==
  \/ vault = target \/ rotation # "managed"
  \/ \E j \in Job : job[j].status \in {"queued", "running"}
  \/ \E p \in Thread : At(p, "flag")

LEMMA InitSynced == Init => Single /\ Synced /\ Shown
BY DEF Init, Single, Running, Synced, SyncAt, Shown, At, Idle

LEMMA OneHolder ==
  ASSUME Typed, Owned, Single, NEW x \in Thread, NEW y \in Thread, Holding(x), Holding(y)
  PROVE  x = y
<1>1. \A z \in {x, y} : HeldAt(z) /\ act[z].job \in Job
  BY JobOf DEF Owned, Holding, Owns, Owning, At
<1>2. CASE At(x, "picked") \/ At(y, "picked")
  BY <1>1, <1>2 DEF Single, Running, Holding, HeldAt
<1>3. CASE Owns(x) /\ Owns(y)
  <2>1. act[x].job = act[y].job
    BY <1>1, <1>3 DEF Single, Running, HeldAt
  <2> QED BY <2>1 DEF Owned, ApartAt
<1> QED BY <1>2, <1>3 DEF Holding

(* While a report that may seal is on its way, nobody holds a job. *)
LEMMA NoHolderWhileSent ==
  ASSUME Typed, Owned, Single, NEW q \in Thread, At(q, "sent"),
         Holds(act[q].peer, act[q].job), NEW x \in Thread
  PROVE  ~ Holding(x)
<1>1. SUFFICES ASSUME Holding(x) PROVE FALSE
  OBVIOUS
<1>2. act[q].job \in Job /\ act[x].job \in Job /\ Running(act[q].job) /\ HeldAt(x)
  BY <1>1, JobOf DEF Owned, Holding, Owns, Owning, At, Holds, Running
<1>3. act[x].job = act[q].job
  BY <1>1, <1>2 DEF Single, Holding, HeldAt, Running
<1> QED BY <1>1, <1>3, SentAlone

LEMMA SingleKept ==
  ASSUME Typed, Single,
         \A k \in Job : Running(k)' => Running(k),
         \A x \in Thread : act'[x].pc = "picked" => At(x, "picked")
  PROVE  Single'
BY DEF Single, Running, At

(* A thread that stays where it is, while another acts. *)
LEMMA OthersSynced ==
  ASSUME Typed, Typed', Owned, Single, Synced, NEW p \in Thread, NEW x \in Thread,
         x # p, act'[x] = act[x],
         Holding(p) \/ UNCHANGED <<vault, target, job>>,
         At(x, "sent") /\ Holds(act[x].peer, act[x].job)' => Holds(act[x].peer, act[x].job)
  PROVE  SyncAt(x)'
<1>1. SyncAt(x)
  BY DEF Synced
<1>2. CASE UNCHANGED <<vault, target, job>>
  BY <1>1, <1>2 DEF SyncAt, At, New, Holds
<1>3. CASE Holding(p)
  <2>1. ~ Owns(x)
    BY <1>3, OneHolder DEF Holding
  <2>2. ~ (At(x, "sent") /\ Holds(act[x].peer, act[x].job)')
    BY <1>3, NoHolderWhileSent
  <2> QED BY <1>1, <2>1, <2>2 DEF SyncAt, At, Owns, Owning, New, Holds
<1> QED BY <1>2, <1>3

(* A thread that holds a job after the step shows that the account is being
   worked on. *)
LEMMA HoldingShown ==
  ASSUME Typed', Owned', NEW p \in Thread, Holding(p)'
  PROVE  Shown'
<1>1. HeldAt(p)' /\ act'[p].pc # "idle"
  BY DEF Owned, Holding, Owns, Owning, At
<1>2. act'[p].job \in Job
  BY <1>1 DEF Typed, Course
<1> QED BY <1>1, <1>2 DEF HeldAt, Holding, Shown

LEMMA QuietShown ==
  ASSUME Shown, UNCHANGED <<vault, target>>, rotation' = "managed" => rotation = "managed",
         \A k \in Job : job[k].status \in {"queued", "running"} =>
                          job'[k].status \in {"queued", "running"},
         \A x \in Thread : At(x, "flag") => act'[x].pc = "flag"
  PROVE  Shown'
BY DEF Shown, At

All == Typed /\ Owned /\ Single /\ Synced /\ Shown
Kept == Single' /\ Synced' /\ Shown'

(* A step of the holder. *)
LEMMA HolderKept ==
  ASSUME All, Typed', Owned', NEW p \in Thread, Holding(p), Holding(p)', Others(p),
         act'[p].pc # "picked",
         \A k \in Job : Running(k)' => Running(k),
         \A x \in Thread : x # p /\ At(x, "sent") /\ Holds(act[x].peer, act[x].job)' =>
                             Holds(act[x].peer, act[x].job),
         SyncAt(p)'
  PROVE  Kept
<1>1. \A x \in Thread : act'[x].pc = "picked" => At(x, "picked")
  BY DEF Others, At
<1>2. Single'
  BY <1>1, SingleKept DEF All
<1>3. Synced'
  BY OthersSynced DEF Others, Synced, All
<1>4. Shown'
  BY HoldingShown
<1> QED BY <1>2, <1>3, <1>4 DEF Kept

LEMMA ExecuteKept ==
  ASSUME All, Typed', Owned', NEW p \in Thread,
         \/ Load(p) \/ Change(p) \/ LoseAnswer(p)
         \/ \E term \in BOOLEAN : Refuse(p, term)
         \/ Store(p) \/ Reload(p) \/ Settle(p)
         \/ \E ok \in BOOLEAN : Verify(p, ok) \/ Check(p, ok)
  PROVE  Kept
<1>1. /\ act[p].job \in Job /\ p \in Worker \cup Runner /\ p \notin Request
      /\ Holding(p) /\ job' = job /\ SyncAt(p)
  <2>1. /\ act[p].pc \in {"load", "change", "store", "reload", "verify", "settle", "check"}
        /\ job' = job /\ Typed /\ Synced
    BY DEF Load, Change, LoseAnswer, Refuse, Store, Reload, Settle, Verify, Check, At, All
  <2> QED BY <2>1, LocalOf, Kinds DEF Holding, Owns, Owning, Course, RequestPC, Thread, Synced
<1>2. ASSUME NEW pc, NEW ok, Becomes(p, pc, act[p].job, act[p].try, ok),
             pc \in Owning, SyncAt(p)'
      PROVE  Kept
  <2>1. Others(p) /\ act'[p].pc = pc
    BY <1>2 DEF Becomes
  <2>2. Holding(p)' /\ act'[p].pc # "picked"
    BY <1>2, <2>1 DEF Holding, Owns, Owning
  <2>3. /\ \A k \in Job : Running(k)' => Running(k)
        /\ \A x \in Thread : x # p /\ At(x, "sent") /\ Holds(act[x].peer, act[x].job)' =>
                                Holds(act[x].peer, act[x].job)
    BY <1>1, <2>1 DEF Running, Holds, Others
  <2> QED BY <1>1, <1>2, <2>1, <2>2, <2>3, HolderKept
<1>3. Typed
  BY DEF All
<1>4. ASSUME NEW pc \in {"check", "store", "reload", "final"}, Goto(p, pc), SyncAt(p)'
      PROVE  Kept
  BY <1>2, <1>3, <1>4, GotoBecomes DEF PC, Owning
<1>5. ASSUME NEW ok \in BOOLEAN, NEW term \in BOOLEAN,
             act' = [act EXCEPT ![p] = Outcome(p, ok, term)],
             p \in Worker /\ ok => vault' = target',
             p \in Runner => job[act[p].job].pending = New(p) /\ (ok => target' = New(p))
      PROVE  Kept
  <2>1. Becomes(p, IF p \in Runner THEN "report" ELSE "final", act[p].job, act[p].try, ok)
    BY <1>1, <1>3, <1>5, OutcomeBecomes
  <2>2. SyncAt(p)'
    <3>1. New(p)' = New(p) /\ act'[p].job = act[p].job /\ act'[p].ok = ok
      BY <2>1 DEF Becomes, New
    <3>2. CASE p \in Runner
      <4>1. act'[p].pc = "report" /\ p \notin Worker
        BY <2>1, <3>2, Kinds DEF Becomes
      <4> QED BY <1>1, <1>5, <3>1, <3>2, <4>1 DEF SyncAt, At
    <3>3. CASE p \notin Runner
      <4>1. act'[p].pc = "final" /\ p \in Worker
        BY <1>1, <2>1, <3>3 DEF Becomes
      <4> QED BY <1>1, <1>5, <3>1, <3>3, <4>1 DEF SyncAt, At
    <3> QED BY <3>2, <3>3
  <2> QED BY <1>2, <2>1, <2>2 DEF Owning
<1>6. CASE Load(p)
  <2>1. Becomes(p, IF p \in Runner THEN "pend" ELSE "change", act[p].job, act[p].try, act[p].ok)
    BY <1>3, <1>6, LoadBecomes
  <2>2. SyncAt(p)'
    BY <1>1, <2>1, Kinds DEF SyncAt, At, Becomes
  <2> QED BY <1>2, <2>1, <2>2 DEF Owning
<1>7. CASE Change(p)
  <2> DEFINE pc == IF p \in Runner THEN "check" ELSE "store"
  <2>1. Goto(p, pc) /\ target' = New(p) /\ vault' = vault /\ At(p, "change")
    BY <1>7 DEF Change
  <2>2. Becomes(p, pc, act[p].job, act[p].try, act[p].ok)
    BY <1>3, <2>1, GotoBecomes DEF PC
  <2>3. act'[p].pc = pc /\ New(p)' = New(p) /\ act'[p].job = act[p].job
    BY <2>2 DEF Becomes, New
  <2>4. SyncAt(p)'
    BY <1>1, <2>1, <2>3, Kinds DEF SyncAt, At
  <2> QED BY <1>4, <2>1, <2>4
<1>8. CASE LoseAnswer(p)
  BY <1>1, <1>5, <1>8 DEF LoseAnswer, SyncAt, At
<1>9. ASSUME NEW term \in BOOLEAN, Refuse(p, term) PROVE Kept
  BY <1>1, <1>5, <1>9 DEF Refuse, SyncAt, At
<1>10. CASE Store(p)
  <2>1. /\ Goto(p, "reload") /\ At(p, "store") /\ vault' = New(p) /\ target' = target
        /\ p \in Worker /\ p \notin Runner
    BY <1>1, <1>3, <1>10, LocalOf, Kinds DEF Store, Seals, At, Course, RunnerPC
  <2>2. Becomes(p, "reload", act[p].job, act[p].try, act[p].ok)
    BY <1>3, <2>1, GotoBecomes DEF PC
  <2>3. SyncAt(p)'
    BY <1>1, <2>1, <2>2 DEF SyncAt, At, Becomes
  <2> QED BY <1>4, <2>1, <2>3
<1>11. CASE Reload(p)
  <2>1. /\ Becomes(p, "verify", act[p].job, act[p].try, act[p].ok)
        /\ p \in Worker /\ p \notin Runner /\ UNCHANGED <<vault, target>> /\ At(p, "reload")
    BY <1>1, <1>3, <1>11, ReloadBecomes, LocalOf, Kinds DEF Reload, At, Course, RunnerPC
  <2>2. SyncAt(p)'
    BY <1>1, <2>1 DEF SyncAt, At, Becomes
  <2> QED BY <1>2, <2>1, <2>2 DEF Owning
<1>12. ASSUME NEW ok \in BOOLEAN, Verify(p, ok) PROVE Kept
  <2>1. /\ Becomes(p, "settle", act[p].job, act[p].try, ok)
        /\ p \in Worker /\ p \notin Runner /\ UNCHANGED <<vault, target>> /\ At(p, "verify")
    <3>1. UNCHANGED <<vault, target>> /\ At(p, "verify")
      BY <1>12 DEF Verify
    <3>2. p \in Worker /\ p \notin Runner
      BY <1>1, <1>3, <3>1, LocalOf, Kinds DEF At, Course, RunnerPC
    <3> QED BY <1>3, <1>12, <3>1, <3>2, VerifyBecomes
  <2>2. SyncAt(p)'
    BY <1>1, <2>1 DEF SyncAt, At, Becomes
  <2> QED BY <1>2, <2>1, <2>2 DEF Owning
<1>13. CASE Settle(p)
  <2>1. /\ Goto(p, "final") /\ At(p, "settle") /\ UNCHANGED <<vault, target>>
        /\ p \in Worker /\ p \notin Runner
    BY <1>1, <1>3, <1>13, LocalOf, Kinds DEF Settle, At, Course, RunnerPC
  <2>2. Becomes(p, "final", act[p].job, act[p].try, act[p].ok)
    BY <1>3, <2>1, GotoBecomes DEF PC
  <2>3. SyncAt(p)'
    BY <1>1, <2>1, <2>2 DEF SyncAt, At, Becomes
  <2> QED BY <1>4, <2>1, <2>3
<1>14. ASSUME NEW ok \in BOOLEAN, Check(p, ok) PROVE Kept
  <2>1. /\ At(p, "check") /\ p \in Runner /\ p \notin Worker /\ UNCHANGED <<vault, target>>
        /\ ok => target = New(p)
    BY <1>1, <1>3, <1>14, LocalOf, Kinds DEF Check, At, Course, WorkerPC
  <2> QED BY <1>1, <1>5, <1>14, <2>1 DEF Check, SyncAt, At
<1> QED BY <1>6, <1>7, <1>8, <1>9, <1>10, <1>11, <1>12, <1>13, <1>14

LEMMA PickKept ==
  ASSUME Ordered, All, Typed', Owned', NEW p \in Thread, NEW j \in Job, Pick(p, j)
  PROVE  Kept
<1>1. Typed /\ Single
  BY DEF All
<1>2. /\ Becomes(p, "picked", j, act[p].try, act[p].ok)
      /\ UNCHANGED <<vault, target, job>> /\ At(p, "idle")
      /\ \A k \in Job : ~ Running(k)
      /\ \A q \in Thread : ~ At(q, "picked")
  BY <1>1, PickBecomes DEF Pick, Serialized, Running, Ordered
<1>3. Others(p) /\ act'[p].pc = "picked"
  BY <1>2 DEF Becomes
<1>4. Single'
  BY <1>2, <1>3 DEF Single, Running, Others, At
<1>5. SyncAt(p)'
  BY <1>3 DEF SyncAt, At
<1>6. Synced'
  BY <1>2, <1>3, <1>5, OthersSynced DEF All, Synced, Others, Holds
<1>7. Shown'
  BY <1>3, HoldingShown DEF Holding, At
<1> QED BY <1>4, <1>6, <1>7 DEF Kept

LEMMA ClaimKept ==
  ASSUME All, Typed', Owned', NEW p \in Thread, Claim(p)
  PROVE  Kept
<1> DEFINE j == act[p].job
<1>1. Typed /\ Owned /\ Single /\ Synced /\ HeldAt(p) /\ At(p, "picked") /\ Holding(p)
  BY DEF All, Owned, Claim, Holding
<1>2. /\ j \in Job /\ p \in Worker \cup Runner /\ Others(p) /\ act'[p].pc = "load"
  BY <1>1, ClaimBecomes DEF Becomes
<1>3. /\ \A k \in Job \ {j} : job'[k] = job[k]
      /\ p \in Runner => job'[j].runner = p
  BY <1>1, <1>2 DEF Claim, Typed, TypeOK, Row
<1>4. Single'
  <2>1. \A k \in Job : Running(k)' => k = j
    BY <1>1, <1>2, <1>3 DEF Single, Running
  <2>2. \A x \in Thread : act'[x].pc # "picked"
    BY <1>1, <1>2 DEF Single, Others, At
  <2> QED BY <2>1, <2>2 DEF Single, At
<1>5. SyncAt(p)'
  BY <1>2 DEF SyncAt, At
<1>6. ASSUME NEW x \in Thread, x # p PROVE SyncAt(x)'
  <2>1. act'[x] = act[x] /\ HeldAt(x)
    BY <1>1, <1>2, <1>6 DEF Others, Owned
  <2>2. At(x, "sent") /\ Holds(act[x].peer, act[x].job)' => Holds(act[x].peer, act[x].job)
    BY <1>1, <1>6, <2>1, ClaimHolds
  <2> QED BY <1>1, <1>6, <2>1, <2>2, OthersSynced
<1>7. Shown'
  BY <1>2, HoldingShown DEF Holding, Owns, Owning
<1> QED BY <1>4, <1>5, <1>6, <1>7 DEF Kept, Synced

LEMMA WriteKept ==
  ASSUME All, Typed', Owned', NEW p \in Thread, Pend(p) \/ Clear(p)
  PROVE  Kept
<1> DEFINE j == act[p].job
<1>1. /\ Typed /\ SyncAt(p) /\ act[p].pc \in {"pend", "clear"} /\ Holding(p)
      /\ UNCHANGED <<vault, target>>
  BY DEF All, Synced, Pend, Clear, At, Holding, Owns, Owning
<1>2. j \in Job /\ job \in [Job -> Row]
  BY <1>1, JobOf DEF At, Typed, TypeOK
<1>3. /\ \A k \in Job \ {j} : job'[k] = job[k]
      /\ job'[j].status = job[j].status
      /\ job'[j].runner \in {job[j].runner, None}
      /\ Pend(p) => job'[j].pending = New(p)
  BY <1>2 DEF Pend, Clear, Row
<1>4. /\ Others(p) /\ act'[p].job = j /\ New(p)' = New(p) /\ act'[p].ok = act[p].ok
      /\ act'[p].pc = IF At(p, "pend") THEN "change" ELSE "final"
  BY <1>1, GotoBecomes DEF Pend, Clear, Becomes, At, PC, New
<1>5. /\ Holding(p)' /\ act'[p].pc # "picked"
  BY <1>4 DEF Holding, Owns, Owning
<1>6. \A k \in Job : Running(k)' => Running(k)
  BY <1>3 DEF Running
<1>7. ASSUME NEW x \in Thread, x # p, At(x, "sent"), Holds(act[x].peer, act[x].job)'
      PROVE  Holds(act[x].peer, act[x].job)
  <2>1. act'[x] = act[x] /\ act[x].job \in Job /\ Awaits(act[x].peer, x)
    BY <1>1, <1>4, <1>7, JobOf DEF Others, At, All, Owned, HeldAt
  <2>2. act[x].peer # None
    BY <2>1, JobsAssumption DEF Awaits
  <2> QED BY <1>3, <1>7, <2>1, <2>2 DEF Holds
<1>8. SyncAt(p)'
  <2>1. CASE Pend(p)
    <3>1. p \in Runner /\ p \notin Worker /\ p \notin Request /\ act'[p].pc = "change"
      BY <1>1, <1>4, <2>1, LocalOf, Kinds DEF Pend, At, Course, WorkerPC, RequestPC, Thread
    <3> QED BY <1>3, <1>4, <2>1, <3>1 DEF SyncAt, At
  <2>2. CASE Clear(p)
    <3>1. /\ p \in Request /\ p \notin Worker /\ p \notin Runner /\ At(p, "clear")
          /\ act'[p].pc = "final"
      BY <1>1, <1>4, <2>2, SealTyped, Kinds DEF Clear, At
    <3> QED BY <1>1, <1>4, <3>1 DEF SyncAt, At
  <2> QED BY <2>1, <2>2
<1> QED BY <1>1, <1>4, <1>5, <1>6, <1>7, <1>8, HolderKept

LEMMA FinalizeKept ==
  ASSUME All, Typed', Owned', NEW p \in Thread, Finalize(p)
  PROVE  Kept
<1> DEFINE j == act[p].job
           status == IF act[p].ok THEN "succeeded"
                     ELSE IF Exhausted(p) THEN "dead" ELSE "queued"
<1>1. /\ Typed /\ Single /\ SyncAt(p) /\ At(p, "final") /\ Holding(p)
      /\ UNCHANGED <<vault, target, rotation>> /\ j \in Job /\ p \in Worker \cup Request
      /\ job' = [job EXCEPT ![j].status = status]
      /\ act' = IF status = "dead" THEN [act EXCEPT ![p].pc = "flag"] ELSE Leave(p)
      /\ status \in {"succeeded", "dead", "queued"} /\ (status = "succeeded" => act[p].ok)
  BY FinalizeTyped DEF All, Synced, Finalize, At, Holding, Owns, Owning
<1> HIDE DEF status
<1>2. /\ \A k \in Job \ {j} : job'[k] = job[k]
      /\ job'[j].status = status
  BY <1>1 DEF Typed, TypeOK, Row
<1>3. /\ Others(p) /\ act'[p].pc \in {"flag", "done", "idle"}
      /\ status = "dead" => act'[p].pc = "flag"
  <2>1. CASE status = "dead"
    BY <1>1, <2>1, GotoBecomes DEF Goto, Becomes, PC
  <2>2. CASE status # "dead"
    BY <1>1, <2>2, LeaveBecomes DEF Becomes, Idle
  <2> QED BY <2>1, <2>2
<1>4. Single'
  <2>1. \A k \in Job : Running(k)' => Running(k)
    BY <1>1, <1>2 DEF Running
  <2>2. \A x \in Thread : act'[x].pc = "picked" => At(x, "picked")
    BY <1>3 DEF Others, At
  <2> QED BY <1>1, <2>1, <2>2, SingleKept
<1>5. SyncAt(p)'
  BY <1>3 DEF SyncAt, At
<1>6. ASSUME NEW x \in Thread, x # p PROVE SyncAt(x)'
  <2>1. act'[x] = act[x]
    BY <1>3, <1>6 DEF Others
  <2>2. At(x, "sent") /\ Holds(act[x].peer, act[x].job)' => Holds(act[x].peer, act[x].job)
    <3>1. At(x, "sent") => act[x].job \in Job
      BY <1>1, JobOf DEF At
    <3> QED BY <1>1, <1>2, <2>1, <3>1 DEF Holds
  <2> QED BY <1>1, <1>6, <2>1, <2>2, OthersSynced DEF All
<1>7. Shown'
  <2>1. CASE status = "succeeded"
    <3>1. vault = target
      BY <1>1, <2>1 DEF SyncAt, At
    <3> QED BY <1>1, <3>1 DEF Shown
  <2>2. CASE status = "dead"
    BY <1>3, <2>2 DEF Shown, At
  <2>3. CASE status = "queued"
    BY <1>1, <1>2, <2>3 DEF Shown
  <2> QED BY <1>1, <2>1, <2>2, <2>3
<1> QED BY <1>4, <1>5, <1>6, <1>7 DEF Kept, Synced

(* Steps that write neither the vault, nor the target, nor a row. *)
LEMMA QuietKept ==
  ASSUME All, Typed', UNCHANGED <<vault, target, job>>,
         rotation' = "managed" => rotation = "managed",
         \A x \in Thread : act'[x] = act[x] \/ SyncAt(x)',
         \A x \in Thread : act'[x].pc = "picked" => At(x, "picked"),
         \A x \in Thread : At(x, "flag") => act'[x].pc = "flag"
  PROVE  Kept
<1>1. Single'
  BY SingleKept DEF All, Running
<1>2. Synced'
  <2> SUFFICES ASSUME NEW x \in Thread, act'[x] = act[x] PROVE SyncAt(x)'
    BY DEF Synced
  <2>1. SyncAt(x)
    BY DEF All, Synced
  <2> QED BY <2>1 DEF SyncAt, At, New, Holds
<1>3. Shown'
  BY QuietShown DEF All
<1> QED BY <1>1, <1>2, <1>3 DEF Kept

LEMMA ReportKept ==
  ASSUME All, Typed', Owned', NEW r \in Thread, NEW q \in Request, Report(r, q)
  PROVE  Kept
<1>1. Typed /\ SyncAt(r)
  BY DEF All, Synced
<1>2. /\ r \in Runner /\ act[r].job \in Job /\ r # q /\ q \in Thread
      /\ \A x \in Thread : x # r /\ x # q => act'[x] = act[x]
      /\ act'[r].pc \in {"wait", "wait2"}
      /\ act'[q].pc = "sent" /\ act'[q].job = act[r].job /\ act'[q].ok = act[r].ok
      /\ act'[q].peer = r
  BY <1>1, ReportTyped DEF Thread
<1>3. /\ act[r].pc \in {"report", "resend"} /\ At(q, "idle")
      /\ UNCHANGED <<vault, target, job, rotation>>
  BY DEF Report
<1>4. SyncAt(r)'
  BY <1>2, Kinds DEF SyncAt, At
<1>5. SyncAt(q)'
  <2>1. act[r].ok => job[act[r].job].pending = target
    BY <1>1, <1>2, <1>3 DEF SyncAt, At
  <2> QED BY <1>2, <1>3, <2>1, Kinds DEF SyncAt, At
<1> QED BY <1>2, <1>3, <1>4, <1>5, QuietKept DEF At

LEMMA DecideKept ==
  ASSUME All, Typed', Owned', NEW q \in Thread, Decide(q)
  PROVE  Kept
<1> DEFINE j == act[q].job
<1>1. Typed /\ SyncAt(q)
  BY DEF All, Synced
<1>2. /\ j \in Job /\ q \in Request /\ At(q, "sent")
      /\ UNCHANGED <<vault, target, job, rotation>> /\ target \in Credential
  BY <1>1, DecideBecomes DEF Decide, Typed, TypeOK
<1>3. CASE ~ Holds(act[q].peer, j)
  <2>1. Others(q) /\ act'[q].pc = "done"
    BY <1>1, <1>3, DecideBecomes DEF Becomes
  <2>2. SyncAt(q)'
    BY <1>2, <2>1, Kinds DEF SyncAt, At
  <2> QED BY <1>2, <2>1, <2>2, QuietKept DEF Others, At
<1>4. CASE Holds(act[q].peer, j)
  <2>1. /\ Others(q) /\ act'[q].ok = act[q].ok /\ act'[q].cred = job[j].pending
        /\ act'[q].pc = IF act[q].ok /\ job[j].pending # None THEN "seal" ELSE "clear"
    BY <1>1, <1>4, DecideBecomes DEF Becomes
  <2>2. act[q].ok => job[j].pending = target
    BY <1>1, <1>2, <1>4 DEF SyncAt
  <2>3. act[q].ok => job[j].pending # None
    BY <1>2, <2>2, CredentialAssumption
  <2>4. SyncAt(q)'
    BY <1>2, <2>1, <2>2, <2>3, Kinds DEF SyncAt, At
  <2> QED BY <1>2, <2>1, <2>4, QuietKept DEF Others, At
<1> QED BY <1>3, <1>4

LEMMA SealKept ==
  ASSUME All, Typed', Owned', NEW q \in Thread, Seal(q) \/ Manage(q)
  PROVE  Kept
<1>1. Typed /\ SyncAt(q)
  BY DEF All, Synced
<1>2. q \in Request /\ Holding(q) /\ job' = job /\ target' = target
  BY <1>1, SealTyped DEF Seal, Manage, Holding, Owns, Owning, At
<1>3. /\ Others(q) /\ act'[q].pc = IF At(q, "seal") THEN "manage" ELSE "clear"
  BY <1>1, GotoBecomes DEF Seal, Manage, Becomes, At, PC
<1>4. vault' = target'
  BY <1>1, <1>2 DEF Seal, Manage, Seals, SyncAt, At
<1>5. SyncAt(q)'
  BY <1>2, <1>3, <1>4, Kinds DEF SyncAt, At
<1>6. Holding(q)' /\ act'[q].pc # "picked"
  BY <1>3 DEF Holding, Owns, Owning
<1>7. /\ \A k \in Job : Running(k)' => Running(k)
      /\ \A x \in Thread : x # q /\ At(x, "sent") /\ Holds(act[x].peer, act[x].job)' =>
                              Holds(act[x].peer, act[x].job)
  BY <1>2, <1>3 DEF Running, Holds, Others
<1> QED BY <1>2, <1>3, <1>5, <1>6, <1>7, HolderKept

LEMMA LeaveKeeps ==
  ASSUME All, Typed', Owned', NEW p \in Thread, act' = Leave(p),
         UNCHANGED <<vault, target, job>>
  PROVE  /\ Single' /\ Synced'
         /\ rotation' = rotation /\ ~ At(p, "flag") => Kept
<1>1. Others(p) /\ act'[p].pc \in {"done", "idle"}
  BY LeaveBecomes DEF All, Becomes, Idle
<1>2. SyncAt(p)' /\ \A x \in Thread : act'[x].pc = "picked" => At(x, "picked")
  BY <1>1 DEF SyncAt, At, Others
<1>3. Single'
  BY <1>2, SingleKept DEF All, Running
<1>4. Synced'
  BY <1>1, <1>2, OthersSynced DEF All, Synced, Others, Holds
<1>5. rotation' = rotation /\ ~ At(p, "flag") => Kept
  BY <1>1, <1>2, QuietKept DEF Others, At
<1> QED BY <1>3, <1>4, <1>5

LEMMA ErrorKept ==
  ASSUME Ordered, All, Typed', Owned', NEW p \in Thread,
         Flag(p) \/ WorkerError(p) \/ HandlerError(p)
  PROVE  Kept
<1>1. Typed /\ UNCHANGED <<vault, target, job>>
  BY DEF All, Flag, WorkerError, HandlerError
<1>2. CASE Flag(p)
  BY <1>1, <1>2, LeaveKeeps DEF Flag, Kept, Shown
<1>3. ASSUME WorkerError(p) \/ HandlerError(p)
      PROVE  ~ At(p, "flag") /\ rotation' = rotation
  BY <1>3 DEF WorkerError, HandlerError, Hideable, Ordered
<1>4. ASSUME Others(p), act'[p].pc \in {"final", "clear", "idle"}, ~ act'[p].ok,
             rotation' = rotation, ~ At(p, "flag")
      PROVE  Kept
  <2>1. SyncAt(p)'
    BY <1>4 DEF SyncAt, At
  <2> QED BY <1>1, <1>4, <2>1, QuietKept DEF Others, At
<1>5. CASE WorkerError(p)
  <2>1. /\ Others(p) /\ act'[p].pc \in {"final", "idle"} /\ ~ act'[p].ok
    <3>1. CASE Becomes(p, "final", act[p].job, act[p].try, FALSE)
      BY <3>1 DEF Becomes
    <3>2. CASE Others(p) /\ act'[p] = Idle
      BY <3>2 DEF Idle
    <3> QED BY <1>1, <1>5, <3>1, <3>2, WorkerErrorBecomes
  <2> QED BY <1>3, <1>4, <1>5, <2>1
<1>6. CASE HandlerError(p)
  BY <1>1, <1>3, <1>4, <1>6, HandlerErrorBecomes, LeaveKeeps DEF Becomes
<1> QED BY <1>2, <1>5, <1>6

LEMMA DropKept ==
  ASSUME Ordered, All, Typed', Owned', NEW p \in Thread,
         Crash(p) \/ Respond(p) \/ NetError(p)
  PROVE  Kept
<1>1. Typed /\ UNCHANGED <<vault, target, job, rotation>>
  BY DEF All, Crash, Respond, NetError
<1>2. Drops
  BY <1>1, CrashDrops, RespondDrops, NetErrorDrops DEF Ordered, Fenced
<1>3. ASSUME NEW x \in Thread
      PROVE  \/ act'[x] = act[x]
             \/ act'[x].pc \in {"idle", "resend"} /\ ~ act'[x].ok
  <2>1. Idle.pc = "idle" /\ ~ Idle.ok
    BY DEF Idle
  <2>2. x \in Runner /\ At(x, "wait") => Errored(x).pc = "resend" /\ ~ Errored(x).ok
    BY <1>1, ErroredType DEF At
  <2> QED BY <1>2, <2>1, <2>2 DEF Drops
<1>4. ASSUME NEW x \in Thread PROVE act'[x] = act[x] \/ SyncAt(x)'
  BY <1>3 DEF SyncAt, At
<1>5. ASSUME NEW x \in Thread, At(x, "flag") PROVE act'[x] = act[x]
  <2>1. CASE Crash(p)
    BY <1>5, <2>1 DEF Crash, Hideable, Ordered, Awaits, At
  <2>2. CASE Respond(p)
    BY <1>1, <1>5, <2>2, RespondDrops DEF Awaits, At
  <2>3. CASE NetError(p)
    BY <1>1, <1>5, <2>3, NetErrorDrops DEF Ordered, Fenced, Others, At
  <2> QED BY <2>1, <2>2, <2>3
<1> QED BY <1>1, <1>3, <1>4, <1>5, QuietKept DEF At

LEMMA QueueingKept ==
  ASSUME Ordered, All, Typed', Owned', Queueing
  PROVE  Kept
<1>1. /\ Typed /\ act' = act /\ UNCHANGED <<vault, target>> /\ job \in [Job -> Row]
      /\ rotation' = "managed" => rotation = "managed"
  BY QueueingTyped DEF All, Typed, TypeOK, Queueing, Schedule, OnDemand, Enqueue, Sweep, Reclaim,
                       ReclaimRunner, Dedupe, MarkPending
<1>2. ASSUME NEW k \in Job, job'[k] # job[k]
      PROVE  job'[k].status = "queued" /\ \A x \in Thread : Holding(x) => act[x].job # k
  BY <1>2, QueueingRows DEF All, Ordered
<1>3. Single'
  <2>1. \A k \in Job : Running(k)' => Running(k)
    BY <1>2 DEF Running
  <2> QED BY <1>1, <2>1, SingleKept DEF All, At
<1>4. ASSUME NEW x \in Thread PROVE SyncAt(x)'
  <2>1. SyncAt(x)
    BY DEF All, Synced
  <2>2. CASE At(x, "idle")
    BY <1>1, <2>2 DEF SyncAt, At
  <2>3. CASE ~ At(x, "idle")
    <3>1. act[x].job \in Job
      BY <1>1, <2>3, JobOf
    <3>2. Owns(x) => job'[act[x].job] = job[act[x].job]
      BY <1>2, <3>1 DEF Holding
    <3>3. Holds(act[x].peer, act[x].job)' =>
            Holds(act[x].peer, act[x].job) /\ job'[act[x].job] = job[act[x].job]
      BY <1>1, <1>2, <3>1 DEF Holds
    <3> QED BY <1>1, <2>1, <3>2, <3>3 DEF SyncAt, At, New, Owns, Owning
  <2> QED BY <2>2, <2>3
<1>5. Shown'
  <2>1. \A k \in Job : job[k].status \in {"queued", "running"} =>
                         job'[k].status \in {"queued", "running"}
    BY <1>2
  <2> QED BY <1>1, <2>1, QuietShown DEF All, At
<1> QED BY <1>3, <1>4, <1>5 DEF Kept, Synced

LEMMA NextKept ==
  ASSUME Ordered, All, Typed', Owned', [Next]_vars
  PROVE  Kept
<1>1. ASSUME NEW p \in Thread, Step(p) PROVE Kept
  BY <1>1, ClaimKept, WriteKept, FinalizeKept, ExecuteKept, ReportKept, DecideKept,
     SealKept, DropKept, ErrorKept DEF Step
<1>2. ASSUME NEW p \in Thread, Fault(p) PROVE Kept
  BY <1>2, ExecuteKept, DropKept, ErrorKept DEF Fault
<1>3. ASSUME NEW p \in Thread, NEW j \in Job, Pick(p, j) PROVE Kept
  BY <1>3, PickKept
<1>4. CASE Queueing
  BY <1>4, QueueingKept
<1>5. CASE UNCHANGED vars
  BY <1>5, QuietKept DEF vars, At
<1> QED BY <1>1, <1>2, <1>3, <1>4, <1>5, NextCases

LEMMA AlwaysAll ==
  ASSUME Ordered
  PROVE  Spec => []All
<1>1. All /\ Typed' /\ Owned' /\ [Next]_vars => All'
  BY NextKept DEF All, Kept
<1>2. Init /\ Typed /\ Owned => All
  BY InitSynced DEF All
<1>3. Fenced
  BY DEF Ordered
<1>4. Spec => []Owned
  BY <1>3, AlwaysOwned
<1> QED BY <1>1, <1>2, <1>4, AlwaysTyped, PTL DEF Spec

(* A rotation that went wrong is never hidden: while claims see each other, an
   account without a job in progress that says it is managed has the password
   that its target accepts (doRotate, finalizeJob, reportForRunner). *)
THEOREM FailureIsShown == ASSUME Ordered PROVE Spec => []ManagedMatches
<1>1. All => ManagedMatches
  BY DEF All, Shown, ManagedMatches, Quiet, At
<1> QED BY <1>1, AlwaysAll, PTL

(* Whatever worker or report handler seals it, a credential becomes active only
   while the target accepts it (storeNewVersion, applyReportDecision). *)
THEOREM OnlyAcceptedSealed == ASSUME Ordered PROVE Spec => SealsWhatTargetAccepts
<1>1. All /\ [Next]_vars => [vault' # vault => vault' = target]_vars
  <2> SUFFICES ASSUME All, Next, vault' # vault PROVE vault' = target
    BY DEF vars
  <2>1. PICK p \in Thread : Store(p) \/ Seal(p)
    <3>1. ~ Queueing
      BY DEF Queueing, Schedule, OnDemand, Enqueue, Sweep, Reclaim, ReclaimRunner,
             Dedupe, MarkPending
    <3>2. \A p \in Thread : ~ Fault(p) /\ \A j \in Job : ~ Pick(p, j)
      BY DEF Fault, LoseAnswer, Crash, WorkerError, HandlerError, NetError, Pick
    <3>3. ASSUME NEW p \in Thread, Step(p) PROVE Store(p) \/ Seal(p)
      BY <3>3 DEF Step, Claim, Load, Pend, Change, Refuse, Reload, Settle, Verify, Check,
                  Report, Decide, Manage, Clear, Respond, Finalize, Flag
    <3> QED BY <3>1, <3>2, <3>3, NextCases
  <2>2. SyncAt(p) /\ Typed
    BY DEF All, Synced
  <2>3. CASE Store(p)
    <3>1. p \in Worker
      BY <2>2, <2>3, LocalOf DEF Store, At, Course, RunnerPC, RequestPC, Thread
    <3> QED BY <2>2, <2>3, <3>1 DEF Store, Seals, SyncAt
  <2>4. CASE Seal(p)
    <3>1. p \in Request
      BY <2>2, <2>4, SealTyped
    <3> QED BY <2>2, <2>4, <3>1 DEF Seal, Seals, SyncAt
  <2> QED BY <2>1, <2>3, <2>4
<1> QED BY <1>1, AlwaysAll, PTL DEF Spec, SealsWhatTargetAccepts

-----------------------------------------------------------------------------
(* The refinement: every step of a rotation is a step of JobQueue, or a stutter. *)

Hands == Worker \cup Runner

LEMMA WorkingOwns ==
  ASSUME NEW p, act[p].pc \in Working
  PROVE  Owns(p) /\ ~ At(p, "picked") /\ ~ At(p, "final") /\ ~ At(p, "idle")
BY DEF Working, Executing, Owns, Owning, At

(* Whoever starts nothing keeps its work or stops. *)
LEMMA StopStep ==
  ASSUME \A j \in Job : ItemOf(j)' = ItemOf(j),
         \A p \in Hands : act'[p].pc \in Working =>
                            act[p].pc \in Working /\ act'[p].job = act[p].job
  PROVE  Queue!Next
<1> DEFINE W == {p \in Hands : act'[p].pc \notin Working}
<1>1. ASSUME NEW j \in Job PROVE WorkersOf(j)' = WorkersOf(j) \ W
  BY DEF WorkersOf, Hands
<1>2. Queue!Stop(W)
  BY <1>1 DEF Queue!Stop, Hands
<1> QED BY <1>2 DEF Queue!Next, Hands

LEMMA IdleWorkers ==
  ASSUME NEW j \in Job, \A p \in Hands : act[p].pc \in Working => act[p].job # j
  PROVE  WorkersOf(j) = {}
BY DEF WorkersOf, Hands

LEMMA SameWorkers ==
  ASSUME \A p \in Hands : (act'[p].pc \in Working <=> act[p].pc \in Working)
                          /\ (act[p].pc \in Working => act'[p].job = act[p].job)
  PROVE  \A j \in Job : WorkersOf(j)' = WorkersOf(j)
<1> TAKE j \in Job
<1>1. \A p \in Hands : p \in WorkersOf(j)' <=> p \in WorkersOf(j)
  BY DEF WorkersOf, Hands
<1> QED BY <1>1 DEF WorkersOf, Hands

(* A job that nobody works on ends, or waits again. *)
LEMMA LeaveHeldStep ==
  ASSUME NEW j \in Job, ItemOf(j) = "held", ItemOf(j)' \in {"idle", "queued"},
         WorkersOf(j) = {},
         \A k \in Job \ {j} : ItemOf(k)' = ItemOf(k),
         \A k \in Job : WorkersOf(k)' = WorkersOf(k)
  PROVE  Queue!Next
<1>1. CASE ItemOf(j)' = "idle"
  <2>1. Queue!Finish(j)
    BY <1>1 DEF Queue!Finish
  <2> QED BY <2>1 DEF Queue!Next
<1>2. CASE ItemOf(j)' = "queued"
  <2>1. Queue!Return({j})
    BY <1>2 DEF Queue!Return
  <2> QED BY <2>1 DEF Queue!Next
<1> QED BY <1>1, <1>2

LEMMA SubmitStep ==
  ASSUME NEW j \in Job, ItemOf(j) = "idle", ItemOf(j)' = "queued",
         \A k \in Job \ {j} : ItemOf(k)' = ItemOf(k), act' = act
  PROVE  Queue!Next
<1>1. \A k \in Job : WorkersOf(k)' = WorkersOf(k)
  BY SameWorkers
<1>2. Queue!Submit(j)
  BY <1>1 DEF Queue!Submit
<1> QED BY <1>2 DEF Queue!Next

LEMMA TakeStep ==
  ASSUME NEW j \in Job, NEW p \in Hands, ItemOf(j) = "queued", ItemOf(j)' = "held",
         WorkersOf(j)' = {p},
         \A k \in Job \ {j} : ItemOf(k)' = ItemOf(k) /\ WorkersOf(k)' = WorkersOf(k)
  PROVE  Queue!Next
<1>1. [k \in {j} |-> p] \in [{j} -> Worker \cup Runner]
  BY DEF Hands
<1>2. Queue!Take({j})
  BY <1>1 DEF Queue!Take
<1> QED BY <1>2 DEF Queue!Next

LEMMA ItemSame ==
  ASSUME NEW j \in Job, job'[j].status = job[j].status
  PROVE  ItemOf(j)' = ItemOf(j)
BY DEF ItemOf

LEMMA ClaimTakes ==
  ASSUME Typed, Owned, NEW p \in Thread, Claim(p)
  PROVE  Queue!Next
<1>0. PICK j \in Job : j = act[p].job
  BY ClaimBecomes
<1>1. /\ j \in Job /\ p \in Hands /\ At(p, "picked") /\ Others(p)
      /\ act'[p].pc = "load" /\ act'[p].job = j
  BY <1>0, ClaimBecomes DEF Becomes, Hands, Claim
<1>2. job[j].status = "queued" /\ Holding(p)
  BY <1>0, <1>1 DEF Owned, HeldAt, Holding
<1>3. job'[j].status = "running" /\ \A k \in Job \ {j} : job'[k] = job[k]
  BY <1>0, <1>1 DEF Claim, Typed, TypeOK, Row
<1>4. ItemOf(j) = "queued" /\ ItemOf(j)' = "held"
  BY <1>2, <1>3 DEF ItemOf
<1>5. ASSUME NEW q \in Hands, q # p, act[q].pc \in Working PROVE act[q].job # j
  <2>1. q \in Thread /\ Holding(q)
    BY <1>5, WorkingOwns DEF Hands, Thread, Holding
  <2> QED BY <1>0, <1>2, <1>5, <2>1 DEF Owned, ApartAt
<1>6. \A q \in Hands : q # p => act'[q] = act[q]
  BY <1>1 DEF Others, Hands, Thread
<1>7. act'[p].pc \in Working /\ act[p].pc \notin Working
  BY <1>1 DEF Working, Executing, At
<1>8. WorkersOf(j)' = {p}
  <2>1. \A q \in Hands : q \in WorkersOf(j)' <=> q = p
    BY <1>1, <1>5, <1>6, <1>7 DEF WorkersOf, Hands
  <2> QED BY <1>1, <2>1 DEF WorkersOf, Hands
<1>9. ASSUME NEW k \in Job \ {j} PROVE ItemOf(k)' = ItemOf(k) /\ WorkersOf(k)' = WorkersOf(k)
  <2>1. \A q \in Hands : q \in WorkersOf(k)' <=> q \in WorkersOf(k)
    BY <1>1, <1>6, <1>7 DEF WorkersOf, Hands
  <2>2. WorkersOf(k)' = WorkersOf(k)
    BY <2>1 DEF WorkersOf, Hands
  <2> QED BY <1>3, <2>2, ItemSame
<1> QED BY <1>1, <1>4, <1>8, <1>9, TakeStep

LEMMA FinalizeLeaves ==
  ASSUME Typed, Owned, NEW p \in Thread, Finalize(p)
  PROVE  Queue!Next
<1>0. PICK j \in Job : j = act[p].job
  BY JobOf DEF Finalize, At
<1>1. /\ At(p, "final") /\ j \in Job /\ Owns(p) /\ Holding(p)
      /\ job[j].status = "running"
  <2>1. At(p, "final") /\ Owns(p) /\ ~ At(p, "idle")
    BY DEF Finalize, Owns, Owning, At
  <2> QED BY <1>0, <2>1 DEF Owned, HeldAt, Holding
<1>2. PICK status \in {"succeeded", "dead", "queued"} :
        /\ job' = [job EXCEPT ![j].status = status]
        /\ act' = [act EXCEPT ![p].pc = "flag"] \/ act' = Leave(p)
  BY <1>0 DEF Finalize
<1>3. job'[j].status = status /\ \A k \in Job \ {j} : job'[k] = job[k]
  BY <1>1, <1>2 DEF Typed, TypeOK, Row
<1>4. Others(p) /\ act'[p].pc \in {"flag", "done", "idle"}
  <2>1. CASE act' = [act EXCEPT ![p].pc = "flag"]
    BY <2>1, GotoBecomes DEF Goto, Becomes, PC
  <2>2. CASE act' = Leave(p)
    BY <2>2, LeaveBecomes DEF Becomes, Idle
  <2> QED BY <1>2, <2>1, <2>2
<1>5. \A q \in Hands : q # p => act'[q] = act[q]
  BY <1>4 DEF Others, Hands, Thread
<1>6. act'[p].pc \notin Working /\ act[p].pc \notin Working
  BY <1>1, <1>4 DEF Working, Executing, At
<1>7. \A k \in Job : WorkersOf(k)' = WorkersOf(k)
  BY <1>5, <1>6, SameWorkers
<1>8. WorkersOf(j) = {}
  <2>1. ASSUME NEW q \in Hands, act[q].pc \in Working PROVE act[q].job # j
    <3>1. q \in Thread /\ Holding(q) /\ q # p
      BY <1>6, <2>1, WorkingOwns DEF Hands, Thread, Holding
    <3> QED BY <1>0, <1>1, <3>1 DEF Owned, ApartAt
  <2> QED BY <1>1, <2>1, IdleWorkers
<1>9. ItemOf(j) = "held" /\ ItemOf(j)' \in {"idle", "queued"}
  BY <1>1, <1>3 DEF ItemOf
<1>10. \A k \in Job \ {j} : ItemOf(k)' = ItemOf(k)
  BY <1>3, ItemSame
<1> QED BY <1>1, <1>7, <1>8, <1>9, <1>10, LeaveHeldStep

LEMMA QueueingMaps ==
  ASSUME Typed, Fenced, Queueing
  PROVE  Queue!Next
<1>1. job \in [Job -> Row] /\ act' = act
  BY QueueingTyped DEF Typed, TypeOK
<1>2. CASE Dedupe \/ MarkPending
  <2>1. \A k \in Job : ItemOf(k)' = ItemOf(k)
    BY <1>2 DEF Dedupe, MarkPending, ItemOf
  <2> QED BY <1>1, <2>1, StopStep
<1>3. ASSUME NEW j \in Job, \E h \in {"in_process", "runner"}, b \in BOOLEAN : Enqueue(j, h, b)
      PROVE  Queue!Next
  <2>1. /\ job[j].status = "none" /\ job'[j].status = "queued"
        /\ \A k \in Job \ {j} : job'[k] = job[k]
    BY <1>1, <1>3 DEF Enqueue, Row
  <2>2. ItemOf(j) = "idle" /\ ItemOf(j)' = "queued"
    BY <2>1 DEF ItemOf
  <2> QED BY <1>1, <2>1, <2>2, ItemSame, SubmitStep
<1>4. ASSUME NEW j \in Job, Sweep(j) PROVE Queue!Next
  <2>1. /\ job[j].status = "running" /\ job'[j].status = "queued"
        /\ \A k \in Job \ {j} : job'[k] = job[k]
        /\ \A x \in Thread : ~ WorksOn(x, j)
    BY <1>1, <1>4 DEF Sweep, Reclaim, ReclaimRunner, Expired, Disturb, Fenced, Row
  <2>2. ItemOf(j) = "held" /\ ItemOf(j)' = "queued"
    BY <2>1 DEF ItemOf
  <2>3. WorkersOf(j) = {}
    <3>1. ASSUME NEW q \in Hands, act[q].pc \in Working PROVE act[q].job # j
      BY <2>1, <3>1 DEF Hands, Thread, WorksOn, Working, Executing
    <3> QED BY <3>1, IdleWorkers
  <2>4. \A k \in Job : WorkersOf(k)' = WorkersOf(k)
    BY <1>1, SameWorkers
  <2> QED BY <2>1, <2>2, <2>3, <2>4, ItemSame, LeaveHeldStep
<1> QED BY <1>2, <1>3, <1>4 DEF Queueing, Schedule, OnDemand

(* The other steps: no status changes, and nobody starts to work. *)
Idles(p) ==
  /\ \A j \in Job : job'[j].status = job[j].status
  /\ \A x \in Hands : act'[x].pc \in Working =>
                        act[x].pc \in Working /\ act'[x].job = act[x].job

LEMMA IdlesMaps ==
  ASSUME NEW p, Idles(p)
  PROVE  Queue!Next
BY ItemSame, StopStep DEF Idles

LEMMA SoloIdles ==
  ASSUME NEW p \in Thread, Others(p), \A j \in Job : job'[j].status = job[j].status,
         \/ act'[p].pc \notin Working
         \/ act[p].pc \in Working /\ act'[p].job = act[p].job
  PROVE  Idles(p)
BY DEF Idles, Others, Hands, Thread

LEMMA BecomesIdles ==
  ASSUME NEW p \in Thread, NEW pc, NEW ok, NEW try, Becomes(p, pc, act[p].job, try, ok),
         job' = job, act[p].pc \in Working \/ pc \notin Working
  PROVE  Idles(p)
BY SoloIdles DEF Becomes

LEMMA ExecuteIdles ==
  ASSUME Typed, NEW p \in Thread,
         \/ Load(p) \/ Change(p) \/ LoseAnswer(p)
         \/ \E term \in BOOLEAN : Refuse(p, term)
         \/ Store(p) \/ Reload(p) \/ Settle(p)
         \/ \E ok \in BOOLEAN : Verify(p, ok) \/ Check(p, ok)
  PROVE  Idles(p)
<1>1. act[p].pc \in Working /\ job' = job /\ p \in Worker \cup Runner /\ act[p].job \in Job
  <2>1. /\ act[p].pc \in {"load", "change", "store", "reload", "verify", "settle", "check"}
        /\ job' = job
    BY DEF Load, Change, LoseAnswer, Refuse, Store, Reload, Settle, Verify, Check, At
  <2> QED BY <2>1, LocalOf DEF Working, Executing, Course, RequestPC, Thread
<1>2. ASSUME NEW pc \in PC, Goto(p, pc) PROVE Idles(p)
  BY <1>1, <1>2, GotoBecomes, BecomesIdles
<1>3. ASSUME NEW ok \in BOOLEAN, NEW term \in BOOLEAN,
             act' = [act EXCEPT ![p] = Outcome(p, ok, term)]
      PROVE  Idles(p)
  BY <1>1, <1>3, OutcomeBecomes, BecomesIdles
<1>4. CASE Load(p)
  BY <1>1, <1>4, LoadBecomes, BecomesIdles
<1>5. CASE Change(p)
  BY <1>2, <1>5 DEF Change, PC
<1>6. CASE LoseAnswer(p)
  BY <1>3, <1>6 DEF LoseAnswer
<1>7. ASSUME NEW term \in BOOLEAN, Refuse(p, term) PROVE Idles(p)
  BY <1>3, <1>7 DEF Refuse
<1>8. CASE Store(p) \/ Settle(p)
  BY <1>2, <1>8 DEF Store, Settle, PC
<1>9. CASE Reload(p)
  BY <1>1, <1>9, ReloadBecomes, BecomesIdles
<1>10. ASSUME NEW ok \in BOOLEAN, Verify(p, ok) PROVE Idles(p)
  BY <1>1, <1>10, VerifyBecomes, BecomesIdles
<1>11. ASSUME NEW ok \in BOOLEAN, Check(p, ok) PROVE Idles(p)
  BY <1>3, <1>11 DEF Check
<1> QED BY <1>4, <1>5, <1>6, <1>7, <1>8, <1>9, <1>10, <1>11

LEMMA PickIdles ==
  ASSUME Typed, NEW p \in Thread, NEW j \in Job, Pick(p, j)
  PROVE  Idles(p)
<1>1. Others(p) /\ act'[p].pc \notin Working /\ job' = job
  BY PickBecomes DEF Becomes, Working, Executing, Pick
<1> QED BY <1>1, SoloIdles

LEMMA RowIdles ==
  ASSUME Typed, NEW p \in Thread, Pend(p) \/ Clear(p) \/ Seal(p) \/ Manage(p)
  PROVE  Idles(p)
<1>1. act[p].job \in Job /\ act[p].pc \in {"pend", "clear", "seal", "manage"}
  BY JobOf DEF Pend, Clear, Seal, Manage, At
<1>2. \A k \in Job : job'[k].status = job[k].status
  BY <1>1 DEF Pend, Clear, Seal, Manage, Typed, TypeOK, Row
<1>3. CASE Pend(p)
  BY <1>1, <1>2, <1>3, GotoBecomes, SoloIdles DEF Pend, Becomes, PC, Working, Executing, At
<1>4. CASE Clear(p) \/ Seal(p) \/ Manage(p)
  BY <1>1, <1>2, <1>4, GotoBecomes, SoloIdles
     DEF Clear, Seal, Manage, Becomes, PC, Working, Executing
<1> QED BY <1>3, <1>4

LEMMA ReportIdles ==
  ASSUME Typed, NEW r \in Thread, (\E q \in Request : Report(r, q)) \/ Decide(r)
  PROVE  Idles(r)
<1>1. ASSUME NEW q \in Request, Report(r, q) PROVE Idles(r)
  <2>1. /\ \A x \in Thread : x # r /\ x # q => act'[x] = act[x]
        /\ act'[r].pc \in {"wait", "wait2"} /\ act'[q].pc = "sent"
    BY <1>1, ReportTyped
  <2> QED BY <1>1, <2>1 DEF Report, Idles, Hands, Thread, Working, Executing
<1>2. CASE Decide(r)
  <2>1. Others(r) /\ act'[r].pc \in {"seal", "clear", "done"}
    BY <1>2, DecideBecomes DEF Becomes
  <2>2. act'[r].pc \notin Working
    BY <2>1 DEF Working, Executing
  <2> QED BY <1>2, <2>1, <2>2, SoloIdles DEF Decide
<1> QED BY <1>1, <1>2

LEMMA ErrorIdles ==
  ASSUME Typed, NEW p \in Thread, Flag(p) \/ WorkerError(p) \/ HandlerError(p)
  PROVE  Idles(p)
<1>1. job' = job
  BY DEF Flag, WorkerError, HandlerError
<1>2. \/ \E ok \in BOOLEAN : \E pc \in {"final", "clear", "done"} :
           Becomes(p, pc, act[p].job, act[p].try, ok)
      \/ Others(p) /\ act'[p] = Idle
  <2>1. ASSUME act' = Leave(p)
        PROVE  \/ \E ok \in BOOLEAN : Becomes(p, "done", act[p].job, act[p].try, ok)
               \/ Others(p) /\ act'[p] = Idle
    BY <2>1, LeaveBecomes, LocalOf DEF Local
  <2>2. CASE Flag(p)
    BY <2>1, <2>2 DEF Flag
  <2>3. CASE WorkerError(p)
    BY <2>3, WorkerErrorBecomes
  <2>4. CASE HandlerError(p)
    BY <2>1, <2>4, HandlerErrorBecomes
  <2> QED BY <2>2, <2>3, <2>4
<1>3. Idle.pc \notin Working /\ "final" \notin Working /\ "clear" \notin Working
      /\ "done" \notin Working
  BY DEF Idle, Working, Executing
<1> QED BY <1>1, <1>2, <1>3, BecomesIdles, SoloIdles

LEMMA DropIdles ==
  ASSUME Typed, NEW p \in Thread, Crash(p) \/ Respond(p) \/ NetError(p), "late" \notin Faults
  PROVE  Idles(p)
<1>1. Drops /\ job' = job
  BY CrashDrops, RespondDrops, NetErrorDrops DEF Crash, Respond, NetError
<1>2. Idle.pc \notin Working
  BY DEF Idle, Working, Executing
<1>3. ASSUME NEW x \in Hands, act'[x].pc \in Working PROVE act'[x] = act[x]
  <2>1. x \in Runner /\ At(x, "wait") => Errored(x).pc = "resend"
    BY ErroredType DEF At
  <2>2. x \in Thread
    BY DEF Hands, Thread
  <2> QED BY <1>1, <1>2, <1>3, <2>1, <2>2 DEF Drops, Working, Executing
<1> QED BY <1>1, <1>3 DEF Idles

LEMMA NextMaps ==
  ASSUME Typed, Owned, Fenced, Next
  PROVE  Queue!Next
<1>1. ASSUME NEW p \in Thread, Step(p) PROVE Queue!Next
  <2>1. CASE Claim(p) \/ Finalize(p)
    BY <2>1, ClaimTakes, FinalizeLeaves
  <2>2. CASE ~ (Claim(p) \/ Finalize(p))
    <3>1. Idles(p)
      BY <1>1, <2>2, ExecuteIdles, RowIdles, ReportIdles, ErrorIdles, DropIdles
         DEF Step, Fenced
    <3> QED BY <3>1, IdlesMaps
  <2> QED BY <2>1, <2>2
<1>2. ASSUME NEW p \in Thread, Fault(p) PROVE Queue!Next
  <2>1. Idles(p)
    BY <1>2, ExecuteIdles, ErrorIdles, DropIdles DEF Fault, Fenced
  <2> QED BY <2>1, IdlesMaps
<1>3. ASSUME NEW p \in Thread, NEW j \in Job, Pick(p, j) PROVE Queue!Next
  BY <1>3, PickIdles, IdlesMaps
<1> QED BY <1>1, <1>2, <1>3, QueueingMaps, NextCases

(* The rotations of an account implement the abstract queue, as the dispatcher
   of Monitoring does with its own table: a job waits until it is claimed, one
   at a time works on it, and it ends or waits again only when nobody does
   (claimJobs, claimForRunner, finalizeJob, the reclaims). *)
THEOREM ImplementsJobQueue ==
  ASSUME Fenced
  PROVE  Spec => ImplementsQueue
<1>1. Init => Queue!Init
  <2> SUFFICES ASSUME Init PROVE Queue!Init
    OBVIOUS
  <2>1. \A j \in Job : ItemOf(j) = "idle"
    BY DEF Init, ItemOf
  <2>2. \A p \in Hands : act[p].pc \notin Working
    BY DEF Init, Hands, Thread, Idle, Working, Executing
  <2>3. \A j \in Job : WorkersOf(j) = {}
    BY <2>2, IdleWorkers
  <2> QED BY <2>1, <2>3 DEF Queue!Init
<1>2. Typed /\ Owned /\ [Next]_vars =>
        [Queue!Next]_<<[j \in Job |-> ItemOf(j)], [j \in Job |-> WorkersOf(j)]>>
  <2>1. UNCHANGED vars => UNCHANGED <<[j \in Job |-> ItemOf(j)], [j \in Job |-> WorkersOf(j)]>>
    BY DEF vars, ItemOf, WorkersOf
  <2> QED BY <2>1, NextMaps
<1> QED BY <1>1, <1>2, AlwaysTyped, AlwaysOwned, PTL DEF Spec, ImplementsQueue, Queue!Spec

-----------------------------------------------------------------------------
(* The budget of attempts.  A job that waits, or that runs while nobody serves
   it, has one attempt less than it is allowed: a served job only waits again
   below max_attempts, and losing who serves it is a disturbance. *)

Allowed == MaxAttempts + (MaxFaults - left)

Serves(p, j) ==
  /\ act[p].job = j
  /\ \/ Owns(p)
     \/ p \in Request /\ At(p, "sent") /\ job[j].runner = act[p].peer
     \/ p \in Runner /\ At(p, "resend") /\ job[j].runner = p

Served(j) == \E p \in Thread : Serves(p, j)

BudgetAt(j) ==
  /\ job[j].attempts <= Allowed
  /\ \/ job[j].status \in {"none", "queued"}
     \/ job[j].status = "running" /\ ~ Served(j)
     => job[j].attempts < Allowed

Budget == left <= MaxFaults /\ \A j \in Job : BudgetAt(j)

LEMMA Numbers ==
  ASSUME Typed, NEW j \in Job
  PROVE  /\ left \in Nat /\ job[j].attempts \in Nat
         /\ MaxAttempts \in Nat /\ MaxAttempts >= 1 /\ MaxFaults \in Nat
BY RowOf, JobsAssumption DEF Typed, TypeOK, Row

LEMMA InitBudget == Init => Budget
<1> SUFFICES ASSUME Init PROVE Budget
  OBVIOUS
<1>1. left = MaxFaults /\ \A j \in Job : job[j].attempts = 0
  BY DEF Init
<1>2. Allowed = MaxAttempts /\ MaxAttempts >= 1 /\ MaxAttempts \in Nat
  BY <1>1, JobsAssumption DEF Allowed
<1> QED BY <1>1, <1>2, JobsAssumption DEF Budget, BudgetAt

(* A disturbance pays for whoever it takes away. *)
LEMMA FaultBudget ==
  ASSUME Typed, Budget, left' = left - 1, left > 0, job' = job
  PROVE  Budget'
<1>1. ASSUME NEW j \in Job PROVE BudgetAt(j)'
  <2>1. job[j].attempts < Allowed'
    BY <1>1, Numbers DEF Allowed, Budget, BudgetAt
  <2>2. Allowed' \in Int /\ job[j].attempts \in Int
    BY Numbers DEF Allowed
  <2> QED BY <2>1, <2>2 DEF BudgetAt
<1>2. left' <= MaxFaults
  BY JobsAssumption DEF Budget, Typed, TypeOK
<1> QED BY <1>1, <1>2 DEF Budget

(* Nobody is lost: what was served still is, and no count or status changes. *)
LEMMA ServedBudget ==
  ASSUME Budget, left' = left, NEW j \in Job,
         job'[j].attempts = job[j].attempts, job'[j].status = job[j].status,
         Served(j) => Served(j)'
  PROVE  BudgetAt(j)'
BY DEF Budget, BudgetAt, Allowed

LEMMA MoveBudget ==
  ASSUME Budget, left' = left, NEW p \in Thread, Others(p),
         \A j \in Job : /\ job'[j].attempts = job[j].attempts
                        /\ job'[j].status = job[j].status
                        /\ job'[j].runner = job[j].runner \/ Serves(p, j)'
                        /\ Serves(p, j) => Serves(p, j)'
  PROVE  Budget'
<1>1. ASSUME NEW j \in Job, Served(j) PROVE Served(j)'
  <2>1. PICK x \in Thread : Serves(x, j)
    BY <1>1 DEF Served
  <2>2. CASE x = p \/ Serves(p, j)'
    BY <1>1, <2>1, <2>2 DEF Served
  <2>3. CASE x # p /\ ~ Serves(p, j)'
    <3>1. act'[x] = act[x] /\ job'[j].runner = job[j].runner
      BY <1>1, <2>3 DEF Others
    <3>2. Serves(x, j)'
      BY <2>1, <3>1 DEF Serves, Owns, At
    <3> QED BY <3>2 DEF Served
  <2> QED BY <2>2, <2>3
<1>2. \A j \in Job : BudgetAt(j)'
  BY <1>1, ServedBudget
<1> QED BY <1>2 DEF Budget

(* Whoever holds a job and goes on keeps serving it. *)
LEMMA HoldOnBudget ==
  ASSUME Budget, left' = left, NEW p \in Thread, NEW pc \in Owning, NEW try, NEW ok,
         Becomes(p, pc, act[p].job, try, ok), job' = job
  PROVE  Budget'
<1>1. Others(p) /\ Owns(p)' /\ act'[p].job = act[p].job
  BY DEF Becomes, Owns
<1>2. \A j \in Job : Serves(p, j) => Serves(p, j)'
  BY <1>1 DEF Serves
<1> QED BY <1>1, <1>2, MoveBudget

LEMMA ExecuteBudget ==
  ASSUME Typed, Budget, NEW p \in Thread, left' = left,
         \/ Load(p) \/ Change(p)
         \/ \E term \in BOOLEAN : Refuse(p, term)
         \/ Store(p) \/ Reload(p) \/ Settle(p)
         \/ \E ok \in BOOLEAN : Verify(p, ok) \/ Check(p, ok)
         \/ Seal(p) \/ Manage(p)
  PROVE  Budget'
<1>1. job' = job
  BY DEF Load, Change, Refuse, Store, Reload, Settle, Verify, Check, Seal, Manage
<1>2. ASSUME NEW pc \in PC, Goto(p, pc), pc \in {"check", "store", "reload", "final", "manage", "clear"}
      PROVE  Budget'
  BY <1>1, <1>2, GotoBecomes, HoldOnBudget DEF Owning
<1>3. ASSUME NEW ok \in BOOLEAN, NEW term \in BOOLEAN, act[p].pc \in {"change", "check"},
             act' = [act EXCEPT ![p] = Outcome(p, ok, term)]
      PROVE  Budget'
  <2>1. p \in Worker \cup Runner /\ act[p].job \in Job
    BY <1>3, LocalOf DEF Course, RequestPC, Thread
  <2>2. PICK pc \in Owning : Becomes(p, pc, act[p].job, act[p].try, ok)
    BY <1>3, <2>1, OutcomeBecomes DEF Owning
  <2> QED BY <1>1, <2>2, HoldOnBudget
<1>4. CASE Load(p)
  <2>1. PICK pc \in Owning : Becomes(p, pc, act[p].job, act[p].try, act[p].ok)
    BY <1>4, LoadBecomes DEF Owning
  <2> QED BY <1>1, <2>1, HoldOnBudget
<1>5. CASE Change(p)
  BY <1>2, <1>5 DEF Change, PC
<1>6. ASSUME NEW term \in BOOLEAN, Refuse(p, term) PROVE Budget'
  BY <1>3, <1>6 DEF Refuse, At
<1>7. CASE Store(p) \/ Settle(p)
  BY <1>2, <1>7 DEF Store, Settle, PC
<1>8. CASE Seal(p) \/ Manage(p)
  BY <1>2, <1>8 DEF Seal, Manage, PC
<1>9. CASE Reload(p)
  BY <1>1, <1>9, ReloadBecomes, HoldOnBudget DEF Owning
<1>10. ASSUME NEW ok \in BOOLEAN, Verify(p, ok) PROVE Budget'
  BY <1>1, <1>10, VerifyBecomes, HoldOnBudget DEF Owning
<1>11. ASSUME NEW ok \in BOOLEAN, Check(p, ok) PROVE Budget'
  BY <1>3, <1>11 DEF Check, At
<1> QED BY <1>4, <1>5, <1>6, <1>7, <1>8, <1>9, <1>10, <1>11

LEMMA PickBudget ==
  ASSUME Typed, Budget, NEW p \in Thread, NEW j \in Job, Pick(p, j)
  PROVE  Budget'
<1>1. Others(p) /\ At(p, "idle") /\ job' = job /\ left' = left
  BY PickBecomes DEF Becomes, Pick
<1>2. \A k \in Job : ~ Serves(p, k)
  BY <1>1 DEF Serves, Owns, Owning, At
<1> QED BY <1>1, <1>2, MoveBudget

(* pending_secret of a delegated job is written, and cleared with its runner. *)
LEMMA RowBudget ==
  ASSUME Typed, Budget, NEW p \in Thread, Pend(p) \/ Clear(p)
  PROVE  Budget'
<1>1. act[p].job \in Job /\ left' = left
  BY JobOf DEF Pend, Clear, At
<1>2. \A j \in Job : /\ job'[j].attempts = job[j].attempts
                     /\ job'[j].status = job[j].status
                     /\ job'[j].runner = job[j].runner \/ j = act[p].job
  BY <1>1 DEF Pend, Clear, Typed, TypeOK, Row
<1>3. Others(p) /\ act'[p].pc \in {"change", "final"} /\ act'[p].job = act[p].job
  BY GotoBecomes DEF Pend, Clear, Becomes, PC
<1>4. Owns(p)'
  BY <1>3 DEF Owns, Owning
<1>5. Serves(p, act[p].job)' /\ \A j \in Job : Serves(p, j) => Serves(p, j)'
  BY <1>3, <1>4 DEF Serves
<1> QED BY <1>1, <1>2, <1>3, <1>5, MoveBudget

(* A claim spends the attempt that its waiting job has left. *)
LEMMA ClaimBudget ==
  ASSUME Typed, Owned, Budget, NEW p \in Thread, Claim(p)
  PROVE  Budget'
<1>1. PICK j \in Job : j = act[p].job
  BY ClaimBecomes
<1>2. /\ At(p, "picked") /\ Others(p) /\ act'[p].pc = "load" /\ act'[p].job = j
      /\ left' = left
  BY <1>1, ClaimBecomes DEF Becomes, Claim
<1>3. job[j].status = "queued"
  BY <1>1, <1>2 DEF Owned, HeldAt
<1>4. /\ job'[j].attempts = job[j].attempts + 1 /\ job'[j].status = "running"
      /\ \A k \in Job \ {j} : job'[k] = job[k]
  BY <1>1 DEF Claim, Typed, TypeOK, Row
<1>5. Served(j)'
  <2>1. Serves(p, j)'
    BY <1>2 DEF Serves, Owns, Owning
  <2> QED BY <2>1 DEF Served
<1>6. BudgetAt(j)'
  <2>1. job[j].attempts < Allowed
    BY <1>3 DEF Budget, BudgetAt
  <2>2. job'[j].attempts <= Allowed' /\ Allowed' = Allowed
    BY <1>2, <1>4, <2>1, Numbers DEF Allowed
  <2> QED BY <1>4, <1>5, <2>2 DEF BudgetAt
<1>7. ASSUME NEW k \in Job \ {j} PROVE BudgetAt(k)'
  <2>1. ASSUME Served(k) PROVE Served(k)'
    <3>1. PICK x \in Thread : Serves(x, k)
      BY <2>1 DEF Served
    <3>2. x # p
      BY <1>2, <3>1 DEF Serves, Owns, Owning, At
    <3>3. act'[x] = act[x] /\ job'[k] = job[k]
      BY <1>2, <1>4, <3>2 DEF Others
    <3>4. Serves(x, k)'
      BY <3>1, <3>3 DEF Serves, Owns, At
    <3> QED BY <3>4 DEF Served
  <2> QED BY <1>2, <1>4, <2>1, ServedBudget
<1> QED BY <1>2, <1>6, <1>7 DEF Budget

(* A failed attempt is given back only below max_attempts. *)
LEMMA FinalizeBudget ==
  ASSUME Typed, Owned, Budget, NEW p \in Thread, Finalize(p)
  PROVE  Budget'
<1>1. PICK j \in Job : j = act[p].job
  BY JobOf DEF Finalize, At
<1>2. At(p, "final") /\ job[j].attempts = act[p].try /\ left' = left
  <2>1. At(p, "final") /\ Owns(p)
    BY DEF Finalize, Owns, Owning, At
  <2> QED BY <1>1, <2>1 DEF Owned, HeldAt, Finalize
<1>3. PICK status \in {"succeeded", "dead", "queued"} :
        /\ job' = [job EXCEPT ![j].status = status]
        /\ status = "queued" => ~ Exhausted(p)
        /\ act' = [act EXCEPT ![p].pc = "flag"] \/ act' = Leave(p)
  BY <1>1 DEF Finalize
<1>4. /\ job'[j].status = status /\ job'[j].attempts = job[j].attempts
      /\ \A k \in Job \ {j} : job'[k] = job[k]
  BY <1>3 DEF Typed, TypeOK, Row
<1>5. Others(p)
  <2>1. CASE act' = [act EXCEPT ![p].pc = "flag"]
    BY <2>1, GotoBecomes DEF Goto, Becomes, PC
  <2>2. CASE act' = Leave(p)
    BY <2>2, LeaveBecomes DEF Becomes
  <2> QED BY <1>3, <2>1, <2>2
<1>6. BudgetAt(j)'
  <2>1. Allowed' = Allowed /\ job[j].attempts <= Allowed
    BY <1>2 DEF Allowed, Budget, BudgetAt
  <2>2. status = "queued" => job[j].attempts < Allowed
    BY <1>2, <1>3, Numbers DEF Exhausted, Allowed, Budget
  <2> QED BY <1>4, <2>1, <2>2 DEF BudgetAt
<1>7. ASSUME NEW k \in Job \ {j} PROVE BudgetAt(k)'
  <2>1. ASSUME Served(k) PROVE Served(k)'
    <3>1. PICK x \in Thread : Serves(x, k)
      BY <2>1 DEF Served
    <3>2. x # p
      BY <1>1, <1>7, <3>1 DEF Serves
    <3>3. act'[x] = act[x] /\ job'[k] = job[k]
      BY <1>4, <1>5, <3>2 DEF Others
    <3>4. Serves(x, k)'
      BY <3>1, <3>3 DEF Serves, Owns, At
    <3> QED BY <3>4 DEF Served
  <2> QED BY <1>2, <1>4, <2>1, ServedBudget
<1> QED BY <1>2, <1>6, <1>7 DEF Budget

(* A runner's outcome goes on to its report, and the report to a handler that
   takes the job only if it still is the runner's. *)
LEMMA ReportBudget ==
  ASSUME Typed, Owned, Budget, NEW r \in Thread, NEW q \in Request, Report(r, q)
  PROVE  Budget'
<1>1. /\ r \in Runner /\ act[r].job \in Job /\ q \in Thread
      /\ \A x \in Thread : x # r /\ x # q => act'[x] = act[x]
      /\ act'[q].pc = "sent" /\ act'[q].job = act[r].job /\ act'[q].peer = r
  BY ReportTyped DEF Thread
<1>2. act[r].pc \in {"report", "resend"} /\ At(q, "idle") /\ job' = job /\ left' = left
  BY DEF Report
<1>3. ASSUME NEW j \in Job, Served(j) PROVE Served(j)'
  <2>1. PICK x \in Thread : Serves(x, j)
    BY <1>3 DEF Served
  <2>2. CASE x = r
    <3>1. job[j].runner = r
      BY <1>1, <1>2, <2>1, <2>2 DEF Serves, Owned, HeldAt, Owns, At
    <3>2. Serves(q, j)'
      BY <1>1, <1>2, <2>1, <2>2, <3>1 DEF Serves, At
    <3> QED BY <1>1, <3>2 DEF Served
  <2>3. CASE x # r
    <3>1. x # q
      BY <1>2, <2>1, JobsAssumption DEF Serves, Owns, Owning, At
    <3>2. act'[x] = act[x]
      BY <1>1, <2>3, <3>1
    <3>3. Serves(x, j)'
      BY <1>2, <2>1, <3>2 DEF Serves, Owns, At
    <3> QED BY <3>3 DEF Served
  <2> QED BY <2>2, <2>3
<1> QED BY <1>2, <1>3, ServedBudget DEF Budget

LEMMA DecideBudget ==
  ASSUME Typed, Budget, NEW q \in Thread, Decide(q)
  PROVE  Budget'
<1>1. PICK j \in Job : j = act[q].job
  BY DecideBecomes
<1>2. At(q, "sent") /\ q \in Request /\ job' = job /\ left' = left
  BY DecideBecomes DEF Decide
<1>3. CASE Holds(act[q].peer, j)
  <2>1. PICK pc \in Owning : Becomes(q, pc, act[q].job, job[j].attempts, act[q].ok)
    BY <1>1, <1>3, DecideBecomes DEF Owning
  <2> QED BY <1>2, <2>1, HoldOnBudget
<1>4. CASE ~ Holds(act[q].peer, j)
  <2>1. Others(q)
    BY <1>1, <1>4, DecideBecomes DEF Becomes
  <2>2. job[j].status # "running" \/ ~ Serves(q, j)
    BY <1>2, <1>4 DEF Holds, Serves, Owns, Owning, At
  <2>3. ASSUME NEW k \in Job, Served(k), k # j \/ job[k].status = "running"
        PROVE  Served(k)'
    <3>1. PICK x \in Thread : Serves(x, k)
      BY <2>3 DEF Served
    <3>2. x # q
      BY <1>1, <2>2, <2>3, <3>1 DEF Serves
    <3>3. act'[x] = act[x]
      BY <2>1, <3>2 DEF Others
    <3>4. Serves(x, k)'
      BY <1>2, <3>1, <3>3 DEF Serves, Owns, At
    <3> QED BY <3>4 DEF Served
  <2>4. ASSUME NEW k \in Job PROVE BudgetAt(k)'
    <3>1. CASE job[k].status = "running"
      BY <1>2, <2>3, <2>4, <3>1, ServedBudget
    <3>2. CASE job[k].status # "running"
      BY <1>2, <2>4, <3>2 DEF Budget, BudgetAt, Allowed
    <3> QED BY <3>1, <3>2
  <2> QED BY <1>2, <2>4 DEF Budget
<1> QED BY <1>3, <1>4

(* Who leaves after the outcome serves nothing any more. *)
LEMMA LeaveBudget ==
  ASSUME Typed, Budget, NEW p \in Thread, Flag(p) \/ Respond(p)
  PROVE  Budget'
<1>1. job' = job /\ left' = left /\ act[p].pc \in {"flag", "done"}
  BY DEF Flag, Respond, At
<1>2. ASSUME NEW x \in Thread, NEW j \in Job, Serves(x, j) PROVE act'[x] = act[x]
  <2>1. x # p /\ act[x].pc \notin {"wait", "wait2"}
    BY <1>1, <1>2 DEF Serves, Owns, Owning, At
  <2>2. CASE Flag(p)
    <3>1. Others(p)
      BY <2>2, LeaveBecomes DEF Flag, Becomes
    <3> QED BY <2>1, <3>1 DEF Others
  <2>3. CASE Respond(p)
    BY <2>1, <2>3, RespondDrops DEF Awaits
  <2> QED BY <2>2, <2>3
<1>3. ASSUME NEW j \in Job, Served(j) PROVE Served(j)'
  <2>1. PICK x \in Thread : Serves(x, j)
    BY <1>3 DEF Served
  <2>2. Serves(x, j)'
    BY <1>1, <1>2, <2>1 DEF Serves, Owns, At
  <2> QED BY <2>2 DEF Served
<1> QED BY <1>1, <1>3, ServedBudget DEF Budget

(* The scheduler and the reclaims: a reclaim finds what nobody serves. *)
LEMMA QueueingBudget ==
  ASSUME Typed, Fenced, Budget, Queueing
  PROVE  Budget'
<1>1. job \in [Job -> Row] /\ act' = act
  BY QueueingTyped DEF Typed, TypeOK
<1>2. CASE Dedupe \/ MarkPending
  <2>1. job' = job /\ left' = left
    BY <1>2 DEF Dedupe, MarkPending
  <2> QED BY <1>1, <2>1 DEF Budget, BudgetAt, Allowed, Served, Serves, Owns, At
<1>3. ASSUME NEW j \in Job, left' = left,
             job[j].status = "none" \/ (job[j].status = "running" /\ ~ Served(j)),
             job'[j].status = "queued", job'[j].attempts = job[j].attempts,
             \A k \in Job \ {j} : job'[k] = job[k]
      PROVE  Budget'
  <2>1. BudgetAt(j)'
    BY <1>3 DEF Budget, BudgetAt, Allowed
  <2>2. ASSUME NEW k \in Job \ {j} PROVE BudgetAt(k)'
    <3>1. Served(k) => Served(k)'
      BY <1>1, <1>3 DEF Served, Serves, Owns, At
    <3> QED BY <1>3, <3>1, ServedBudget
  <2> QED BY <1>3, <2>1, <2>2 DEF Budget
<1>4. ASSUME NEW j \in Job, \E h \in {"in_process", "runner"}, b \in BOOLEAN : Enqueue(j, h, b)
      PROVE  Budget'
  <2>1. /\ job[j].status = "none" /\ job'[j].status = "queued"
        /\ job'[j].attempts = job[j].attempts /\ left' = left
        /\ \A k \in Job \ {j} : job'[k] = job[k]
    BY <1>1, <1>4 DEF Enqueue, Row
  <2> QED BY <1>3, <2>1
<1>5. ASSUME NEW j \in Job, Sweep(j) PROVE Budget'
  <2>1. /\ job[j].status = "running" /\ job'[j].status = "queued"
        /\ job'[j].attempts = job[j].attempts /\ left' = left
        /\ \A k \in Job \ {j} : job'[k] = job[k]
        /\ \A x \in Thread : ~ WorksOn(x, j)
    BY <1>1, <1>5 DEF Sweep, Reclaim, ReclaimRunner, Expired, Disturb, Fenced, Row
  <2>2. ~ Served(j)
    BY <2>1 DEF Served, Serves, WorksOn, Owns, Owning, At
  <2> QED BY <1>3, <2>1, <2>2
<1> QED BY <1>2, <1>4, <1>5 DEF Queueing, Schedule, OnDemand

LEMMA NextBudget ==
  ASSUME Typed, Owned, Fenced, Budget, [Next]_vars
  PROVE  Budget'
<1>1. ASSUME NEW p \in Thread, Step(p) PROVE Budget'
  <2>1. CASE \/ Load(p) \/ Change(p) \/ (\E term \in BOOLEAN : Refuse(p, term))
             \/ Store(p) \/ Reload(p) \/ Settle(p)
             \/ (\E ok \in BOOLEAN : Verify(p, ok) \/ Check(p, ok))
             \/ Seal(p) \/ Manage(p)
    <3>1. left' = left
      BY <2>1 DEF Load, Change, Refuse, Store, Reload, Settle, Verify, Check, Seal, Manage
    <3> QED BY <2>1, <3>1, ExecuteBudget
  <2>2. CASE Claim(p) \/ Pend(p) \/ Clear(p) \/ Finalize(p)
    BY <2>2, ClaimBudget, RowBudget, FinalizeBudget
  <2>3. CASE (\E q \in Request : Report(p, q)) \/ Decide(p) \/ Flag(p) \/ Respond(p)
    BY <2>3, ReportBudget, DecideBudget, LeaveBudget
  <2> QED BY <1>1, <2>1, <2>2, <2>3 DEF Step
<1>2. ASSUME NEW p \in Thread, Fault(p) PROVE Budget'
  <2>1. left > 0 /\ left' = left - 1 /\ job' = job
    BY <1>2 DEF Fault, LoseAnswer, Crash, WorkerError, HandlerError, NetError, Disturb
  <2> QED BY <2>1, FaultBudget
<1>3. ASSUME NEW p \in Thread, NEW j \in Job, Pick(p, j) PROVE Budget'
  BY <1>3, PickBudget
<1>4. CASE Queueing
  BY <1>4, QueueingBudget
<1>5. CASE UNCHANGED vars
  BY <1>5 DEF vars, Budget, BudgetAt, Allowed, Served, Serves, Owns, At
<1> QED BY <1>1, <1>2, <1>3, <1>4, <1>5, NextCases

(* A job is claimed at most max_attempts times and once more for every attempt
   that was cut short, although reclaimExpiredLeases and reclaimExpiredRunnerLeases
   give a job back without looking at its count (pamJobs.ts, pamRunner.ts). *)
THEOREM AttemptsAreBudgeted == ASSUME Fenced PROVE Spec => []AttemptsBounded
<1>1. Typed /\ Owned /\ Budget /\ [Next]_vars => Budget'
  BY NextBudget
<1>2. Budget => AttemptsBounded
  BY DEF Budget, BudgetAt, Allowed, AttemptsBounded
<1> QED BY <1>1, <1>2, AlwaysTyped, AlwaysOwned, InitBudget, PTL DEF Spec
=============================================================================
