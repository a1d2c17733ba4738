------------------------------- MODULE PamJobs -------------------------------
(***************************************************************************)
(* Rotation of one managed account's credential: the queue                 *)
(* pam.credential_jobs, the in-process workers (pamJobs.ts), the           *)
(* connector-runner (services/pam/connector-runner/runner.mjs) with the    *)
(* claim and report handlers that serve it (pamRunner.ts), the vault       *)
(* (pamVault.ts) and the target system whose password is being changed.    *)
(*                                                                         *)
(* The concurrency key of a job is its account, so the jobs of two         *)
(* accounts share only the workers' time: the model has one account.       *)
(* Credentials are opaque: the one generated by attempt n of job j is      *)
(* <<j, n>>.  Each SQL statement and each call to the target is an action. *)
(***************************************************************************)
EXTENDS Integers, FiniteSets

CONSTANTS
  Job,          \* bound: identities of rotate jobs of the account
  Worker,       \* bound: in-process workers (replicas, overlapping ticks)
  Runner,       \* bound: connector-runners, each one job at a time
  Request,      \* bound: report requests in flight at the control plane
  MaxAttempts,  \* max_attempts of every job
  MaxFaults,    \* bound: disturbances in a behaviour
  Faults,       \* which disturbances happen
  Logon,        \* whether a separate logon account makes the change
  None          \* a value that is none of these

ASSUME JobsAssumption ==
  /\ MaxAttempts \in Nat \ {0}
  /\ MaxFaults \in Nat
  /\ Faults \subseteq {"crash", "dberror", "lost", "net",
                       "race", "late", "slow", "hidden"}
  /\ Logon \in BOOLEAN
  /\ None \notin Job \cup Worker \cup Runner \cup Request
  /\ Worker \cap Runner = {} /\ Worker \cap Request = {}
  /\ Runner \cap Request = {}

VARIABLES
  job,       \* credential_jobs: the columns the code decides on
  act,       \* workers, runners and report handlers: where each one is
  vault,     \* the active credential version
  stored,    \* history: every credential ever sealed
  target,    \* the password the target accepts
  rotation,  \* accounts.rotation_status
  marking,   \* scheduleDueRotations has still to write 'pending'
  left       \* disturbances left

vars == <<job, act, vault, stored, target, rotation, marking, left>>

Thread == Worker \cup Runner \cup Request
Credential == (Job \cup {None}) \X Nat
Initial == <<None, 0>>  \* the credential the account was onboarded with

ASSUME CredentialAssumption == None \notin Credential

PC == {"idle", "picked", "load", "pend", "change", "store", "reload", "verify",
       "settle", "check", "report", "resend", "wait", "wait2", "sent", "seal",
       "manage", "clear", "final", "flag", "done"}

Executing == {"load", "pend", "change", "store", "reload", "verify", "settle",
              "check", "report", "final"}

Row == [status : {"none", "queued", "running", "succeeded", "dead"},
        handler : {"in_process", "runner"}, keyed : BOOLEAN, attempts : Nat,
        runner : Runner \cup {None}, pending : Credential \cup {None}]
Local == [pc : PC, job : Job \cup {None}, try : Nat,
          cred : Credential \cup {None}, ok : BOOLEAN, term : BOOLEAN,
          peer : Runner \cup Request \cup {None}]

Idle == [pc |-> "idle", job |-> None, try |-> 0, cred |-> None,
         ok |-> FALSE, term |-> FALSE, peer |-> None]

-----------------------------------------------------------------------------
At(p, pc) == act[p].pc = pc
New(p) == <<act[p].job, act[p].try>>
Goto(p, pc) == act' = [act EXCEPT ![p].pc = pc]

(* The outcome of the action is known; a worker goes on to finalizeJob, a
   runner to its report. *)
Outcome(p, ok, term) ==
  [act[p] EXCEPT !.ok = ok, !.term = term,
                 !.pc = IF p \in Runner THEN "report" ELSE "final"]

(* handle()'s catch: a second report of the same job, of a failure to retry;
   an error in that one is dropped. *)
Errored(r) ==
  IF At(r, "wait")
  THEN [act[r] EXCEPT !.pc = "resend", !.ok = FALSE, !.term = FALSE, !.peer = None]
  ELSE Idle

Awaits(r, q) == r \in Runner /\ act[r].pc \in {"wait", "wait2"} /\ act[r].peer = q

WorksOn(p, j) == act[p].job = j /\ act[p].pc \notin {"picked", "flag", "done"}

Disturb(f) == f \in Faults /\ left > 0 /\ left' = left - 1

Init ==
  /\ job = [j \in Job |-> [status |-> "none", handler |-> "in_process",
                           keyed |-> FALSE, attempts |-> 0, runner |-> None,
                           pending |-> None]]
  /\ act = [p \in Thread |-> Idle]
  /\ vault = Initial
  /\ stored = {Initial}
  /\ target = Initial
  /\ rotation = "managed"
  /\ marking = FALSE
  /\ left = MaxFaults

-----------------------------------------------------------------------------
(* Enqueueing: on demand, or by the scheduler with a key per account and
   hour, which then writes the account's status. *)

Enqueue(j, handler, keyed) ==
  /\ job[j].status = "none"
  /\ job' = [job EXCEPT ![j].status = "queued", ![j].handler = handler,
                        ![j].keyed = keyed]
  /\ UNCHANGED <<act, vault, stored, target, rotation, left>>

OnDemand(j, handler) == Enqueue(j, handler, FALSE) /\ UNCHANGED marking

Schedule(j) ==
  /\ rotation \in {"managed", "pending"} /\ ~ marking
  /\ Enqueue(j, "in_process", TRUE)
  /\ marking' = TRUE

Dedupe ==
  /\ rotation \in {"managed", "pending"} /\ ~ marking
  /\ \E j \in Job : job[j].keyed /\ job[j].status \in {"queued", "running"}
  /\ marking' = TRUE
  /\ UNCHANGED <<job, act, vault, stored, target, rotation, left>>

MarkPending ==
  /\ marking
  /\ rotation' = "pending"
  /\ marking' = FALSE
  /\ UNCHANGED <<job, act, vault, stored, target, left>>

-----------------------------------------------------------------------------
(* Claiming.  The subquery locks the row it picks (SKIP LOCKED hides it from
   other claims) and looks for running jobs of the account in its own
   snapshot: a claim that has picked and not committed is not in it. *)

Serialized(j) == \A k \in Job \ {j} : job[k].status # "running"

(* Mutant: without FOR UPDATE SKIP LOCKED. *)
PickUnlocked(p, j) ==
  /\ p \in Worker \cup Runner /\ At(p, "idle")
  /\ job[j].status = "queued"
  /\ job[j].handler = IF p \in Runner THEN "runner" ELSE "in_process"
  /\ Serialized(j)
  /\ act' = [act EXCEPT ![p].pc = "picked", ![p].job = j]
  /\ UNCHANGED <<job, vault, stored, target, rotation, marking, left>>

Pick(p, j) ==
  /\ p \in Worker \cup Runner /\ At(p, "idle")
  /\ job[j].status = "queued"
  /\ job[j].handler = IF p \in Runner THEN "runner" ELSE "in_process"
  /\ Serialized(j)
  /\ \A q \in Thread : At(q, "picked") => act[q].job # j /\ "race" \in Faults
  /\ act' = [act EXCEPT ![p].pc = "picked", ![p].job = j]
  /\ UNCHANGED <<job, vault, stored, target, rotation, marking, left>>

Claim(p) ==
  /\ At(p, "picked")
  /\ LET j == act[p].job
         n == job[j].attempts + 1
     IN  /\ job' = [job EXCEPT ![j].status = "running", ![j].attempts = n,
                      ![j].runner = IF p \in Runner THEN p ELSE @]
         /\ act' = [act EXCEPT ![p].pc = "load", ![p].try = n]
  /\ UNCHANGED <<vault, stored, target, rotation, marking, left>>

-----------------------------------------------------------------------------
(* Executing.  buildContext opens the active credential; the claim handler
   also seals the generated one into pending_secret before it answers. *)

(* Mutant: the new version is stored before the target is asked. *)
LoadAndStore(p) ==
  /\ At(p, "load")
  /\ act' = [act EXCEPT ![p].cred = vault,
                        ![p].pc = IF p \in Runner THEN "pend" ELSE "store"]
  /\ UNCHANGED <<job, vault, stored, target, rotation, marking, left>>

Load(p) ==
  /\ At(p, "load")
  /\ act' = [act EXCEPT ![p].cred = vault,
                        ![p].pc = IF p \in Runner THEN "pend" ELSE "change"]
  /\ UNCHANGED <<job, vault, stored, target, rotation, marking, left>>

Pend(r) ==
  /\ At(r, "pend")
  /\ job' = [job EXCEPT ![act[r].job].pending = New(r)]
  /\ Goto(r, "change")
  /\ UNCHANGED <<vault, stored, target, rotation, marking, left>>

(* connector.change: authenticates as the account itself, or as the logon
   account, and sets the new password. *)
Accepted(p) == Logon \/ act[p].cred = target

Change(p) ==
  /\ At(p, "change") /\ Accepted(p)
  /\ target' = New(p)
  /\ Goto(p, IF p \in Runner THEN "check" ELSE "store")
  /\ UNCHANGED <<job, vault, stored, rotation, marking, left>>

(* Refused, unreachable, or not for this process: nothing has changed. *)
Refuse(p, term) ==
  /\ At(p, "change")
  /\ act' = [act EXCEPT ![p] = Outcome(p, FALSE, term)]
  /\ UNCHANGED <<job, vault, stored, target, rotation, marking, left>>

(* Changed, but the answer was lost: an error, or the runner's timeout. *)
LoseAnswer(p) ==
  /\ At(p, "change") /\ Accepted(p)
  /\ Disturb("lost")
  /\ target' = New(p)
  /\ act' = [act EXCEPT ![p] = Outcome(p, FALSE, FALSE)]
  /\ UNCHANGED <<job, vault, stored, rotation, marking>>

Seals(c) == vault' = c /\ stored' = stored \cup {c}

Store(w) ==
  /\ At(w, "store")
  /\ Seals(New(w))
  /\ Goto(w, "reload")
  /\ UNCHANGED <<job, target, rotation, marking, left>>

Reload(w) ==
  /\ At(w, "reload")
  /\ act' = [act EXCEPT ![w].cred = vault, ![w].pc = "verify"]
  /\ UNCHANGED <<job, vault, stored, target, rotation, marking, left>>

Verify(w, ok) ==
  /\ At(w, "verify")
  /\ ok => act[w].cred = target
  /\ act' = [act EXCEPT ![w].ok = ok, ![w].term = ~ ok, ![w].pc = "settle"]
  /\ UNCHANGED <<job, vault, stored, target, rotation, marking, left>>

Settle(w) ==
  /\ At(w, "settle")
  /\ rotation' = IF act[w].ok THEN "managed" ELSE "failed"
  /\ Goto(w, "final")
  /\ UNCHANGED <<job, vault, stored, target, marking, left>>

(* The runner's own re-authentication with the new credential. *)
Check(r, ok) ==
  /\ At(r, "check")
  /\ ok => target = New(r)
  /\ act' = [act EXCEPT ![r] = Outcome(r, ok, ~ ok)]
  /\ UNCHANGED <<job, vault, stored, target, rotation, marking, left>>

-----------------------------------------------------------------------------
(* Reporting: the runner posts and waits; the handler decides on the row as
   it finds it, then seals, clears and finalizes statement by statement. *)

Report(r, q) ==
  /\ act[r].pc \in {"report", "resend"} /\ q \in Request /\ At(q, "idle")
  /\ act' = [act EXCEPT
       ![r].pc = IF @ = "report" THEN "wait" ELSE "wait2", ![r].peer = q,
       ![q] = [Idle EXCEPT !.pc = "sent", !.job = act[r].job, !.ok = act[r].ok,
                           !.term = act[r].term, !.peer = r]]
  /\ UNCHANGED <<job, vault, stored, target, rotation, marking, left>>

Holds(r, j) == job[j].status = "running" /\ job[j].runner = r

(* applyReportDecision: only a confirmed change seals. *)
Decide(q) ==
  LET j == act[q].job IN
  /\ At(q, "sent")
  /\ act' = IF Holds(act[q].peer, j)
            THEN [act EXCEPT ![q].try = job[j].attempts,
                   ![q].cred = job[j].pending,
                   ![q].pc = IF act[q].ok /\ job[j].pending # None
                             THEN "seal" ELSE "clear"]
            ELSE [act EXCEPT ![q].pc = "done"]
  /\ UNCHANGED <<job, vault, stored, target, rotation, marking, left>>

Seal(q) ==
  /\ At(q, "seal")
  /\ Seals(act[q].cred)
  /\ Goto(q, "manage")
  /\ UNCHANGED <<job, target, rotation, marking, left>>

Manage(q) ==
  /\ At(q, "manage")
  /\ rotation' = "managed"
  /\ Goto(q, "clear")
  /\ UNCHANGED <<job, vault, stored, target, marking, left>>

Clear(q) ==
  /\ At(q, "clear")
  /\ job' = [job EXCEPT ![act[q].job].runner = None,
                        ![act[q].job].pending = None]
  /\ Goto(q, "final")
  /\ UNCHANGED <<vault, stored, target, rotation, marking, left>>

Respond(q) ==
  /\ At(q, "done") /\ q \in Request
  /\ act' = [p \in Thread |->
               IF p = q \/ Awaits(p, q) THEN Idle ELSE act[p]]
  /\ UNCHANGED <<job, vault, stored, target, rotation, marking, left>>

-----------------------------------------------------------------------------
(* finalizeJob, of a worker or of a report handler: by id, unfenced. *)

Leave(p) == IF p \in Request THEN [act EXCEPT ![p].pc = "done"]
            ELSE [act EXCEPT ![p] = Idle]

(* Mutant: the attempt after the last one may follow. *)
ExhaustedLate(p) == act[p].term \/ act[p].try > MaxAttempts

Exhausted(p) == act[p].term \/ act[p].try >= MaxAttempts

Finalize(p) ==
  LET status == IF act[p].ok THEN "succeeded"
                ELSE IF Exhausted(p) THEN "dead" ELSE "queued"
  IN  /\ At(p, "final")
      /\ job' = [job EXCEPT ![act[p].job].status = status]
      /\ act' = IF status = "dead" THEN [act EXCEPT ![p].pc = "flag"] ELSE Leave(p)
      /\ UNCHANGED <<vault, stored, target, rotation, marking, left>>

(* Mutant: the account keeps the status it had. *)
FlagNothing(p) ==
  /\ At(p, "flag")
  /\ act' = Leave(p)
  /\ UNCHANGED <<job, vault, stored, target, rotation, marking, left>>

Flag(p) ==
  /\ At(p, "flag")
  /\ rotation' = "failed"
  /\ act' = Leave(p)
  /\ UNCHANGED <<job, vault, stored, target, marking, left>>

-----------------------------------------------------------------------------
(* Leases.  A worker renews its own while it runs; a runner's runs out only
   when nobody serves the job any more, unless something is slow. *)

(* Mutant: the lease is not renewed. *)
ExpiredWhileWorking(j) == job[j].status = "running" /\ UNCHANGED left

(* Mutant: without status='running'. *)
ExpiredAnyStatus(j) ==
  /\ job[j].status # "none"
  /\ \A p \in Thread : ~ WorksOn(p, j)
  /\ UNCHANGED left

Expired(j) ==
  /\ job[j].status = "running"
  /\ \/ (\A p \in Thread : ~ WorksOn(p, j)) /\ UNCHANGED left
     \/ Disturb("slow")

(* Mutant: only the delegated jobs. *)
ReclaimDelegated(j) ==
  /\ job[j].handler = "runner" /\ Expired(j)
  /\ job' = [job EXCEPT ![j].status = "queued"]
  /\ UNCHANGED <<act, vault, stored, target, rotation, marking>>

(* reclaimExpiredLeases: any running job, whoever had it. *)
Reclaim(j) ==
  /\ Expired(j)
  /\ job' = [job EXCEPT ![j].status = "queued"]
  /\ UNCHANGED <<act, vault, stored, target, rotation, marking>>

ReclaimRunner(j) ==
  /\ job[j].handler = "runner" /\ Expired(j)
  /\ job' = [job EXCEPT ![j].status = "queued", ![j].runner = None,
                        ![j].pending = None]
  /\ UNCHANGED <<act, vault, stored, target, rotation, marking>>

-----------------------------------------------------------------------------
(* Disturbances.  A process that dies forgets what it was doing, and takes a
   report still on its way with it unless reports may be late; a runner
   waiting for the control plane gets an error.  Dying, or failing, between
   a job's death and the account's flag is a disturbance of its own. *)

Hideable(p) == At(p, "flag") => "hidden" \in Faults

Crash(p) ==
  /\ ~ At(p, "idle") /\ Hideable(p)
  /\ Disturb("crash")
  /\ act' = [x \in Thread |->
       IF x = p \/ (Awaits(p, x) /\ At(x, "sent") /\ "late" \notin Faults) THEN Idle
       ELSE IF Awaits(x, p) THEN Errored(x) ELSE act[x]]
  /\ UNCHANGED <<job, vault, stored, target, rotation, marking>>

(* A statement of a worker fails: the attempt is finalized as a failure; when
   that statement is finalizeJob's own, it is tried once more and dropped. *)
WorkerError(w) ==
  /\ w \in Worker
  /\ act[w].pc \in {"load", "store", "reload", "settle", "final", "flag"}
  /\ Hideable(w)
  /\ Disturb("dberror")
  /\ \/ ~ At(w, "flag") /\ act' = [act EXCEPT ![w] = Outcome(w, FALSE, FALSE)]
     \/ At(w, "final") /\ ~ act[w].ok /\ act' = [act EXCEPT ![w] = Idle]
     \/ At(w, "flag") /\ act' = [act EXCEPT ![w] = Idle]
  /\ UNCHANGED <<job, vault, stored, target, rotation, marking>>

(* Mutant: an error in sealing is logged, and the report taken as it is. *)
HandlerErrorIgnored(p) ==
  /\ p \in Runner \cup Request
  /\ act[p].pc \in {"load", "pend", "sent", "seal", "manage", "clear", "final", "flag"}
  /\ Hideable(p)
  /\ Disturb("dberror")
  /\ act' = IF act[p].pc \in {"seal", "manage"} THEN [act EXCEPT ![p].pc = "clear"]
            ELSE Leave(p)
  /\ UNCHANGED <<job, vault, stored, target, rotation, marking>>

(* A statement of the claim or the report handler fails: sealing is guarded,
   any other answers an error the runner takes for an empty answer. *)
HandlerError(p) ==
  /\ p \in Runner \cup Request
  /\ act[p].pc \in {"load", "pend", "sent", "seal", "manage", "clear", "final", "flag"}
  /\ Hideable(p)
  /\ Disturb("dberror")
  /\ act' = IF act[p].pc \in {"seal", "manage"}
            THEN [act EXCEPT ![p].pc = "clear", ![p].ok = FALSE, ![p].term = TRUE]
            ELSE Leave(p)
  /\ UNCHANGED <<job, vault, stored, target, rotation, marking>>

(* A runner's call fails on the network: the claim's answer, the report on
   its way, or its answer.  A late report is one still to be handled. *)
NetError(r) ==
  /\ r \in Runner
  /\ Disturb("net")
  /\ \/ act[r].pc = "change" /\ act' = [act EXCEPT ![r] = Idle]
     \/ /\ act[r].pc \in {"wait", "wait2"}
        /\ \/ /\ act[act[r].peer].pc \in {"sent", "done"}
              /\ act' = [act EXCEPT ![r] = Errored(r), ![act[r].peer] = Idle]
           \/ "late" \in Faults /\ act' = [act EXCEPT ![r] = Errored(r)]
  /\ UNCHANGED <<job, vault, stored, target, rotation, marking>>

-----------------------------------------------------------------------------
Step(p) ==
  \/ Claim(p) \/ Load(p) \/ Pend(p) \/ Change(p)
  \/ \E term \in BOOLEAN : Refuse(p, term)
  \/ Store(p) \/ Reload(p) \/ Settle(p)
  \/ \E ok \in BOOLEAN : Verify(p, ok) \/ Check(p, ok)
  \/ \E q \in Request : Report(p, q)
  \/ Decide(p) \/ Seal(p) \/ Manage(p) \/ Clear(p) \/ Respond(p)
  \/ Finalize(p) \/ Flag(p)

Fault(p) == LoseAnswer(p) \/ Crash(p) \/ WorkerError(p) \/ HandlerError(p) \/ NetError(p)

Sweep(j) == Reclaim(j) \/ ReclaimRunner(j)

Next ==
  \/ \E j \in Job : Schedule(j) \/ Sweep(j)
                      \/ \E h \in {"in_process", "runner"} : OnDemand(j, h)
  \/ Dedupe \/ MarkPending
  \/ \E p \in Thread : Step(p) \/ Fault(p) \/ \E j \in Job : Pick(p, j)

Spec == Init /\ [][Next]_vars

(* The timers of the worker and of the runner loop keep firing, and what is
   started goes on. *)
FairSpec ==
  /\ Spec
  /\ \A p \in Thread : WF_vars(Step(p)) /\ WF_vars(\E j \in Job : Pick(p, j))
  /\ \A j \in Job : WF_vars(Sweep(j))

-----------------------------------------------------------------------------
(* Properties *)

(* Type correctness. *)
TypeOK ==
  /\ job \in [Job -> Row]
  /\ act \in [Thread -> Local]
  /\ vault \in Credential /\ target \in Credential
  /\ stored \subseteq Credential
  /\ rotation \in {"managed", "pending", "failed"}
  /\ marking \in BOOLEAN
  /\ left \in Nat

(* A rotation that went wrong is never hidden: when nothing is in progress and
   the account says it is managed, the vault holds the password the target
   accepts (doRotate, finalizeJob, reportForRunner). *)
Quiet ==
  /\ \A j \in Job : job[j].status \notin {"queued", "running"}
  /\ \A p \in Thread : At(p, "idle")

ManagedMatches == Quiet /\ rotation = "managed" => vault = target

(* A credential is activated only while the target accepts it: never one that
   the target refused, and never over a newer one. *)
SealsWhatTargetAccepts == [][vault' # vault => vault' = target]_vars

(* A job that ended is not brought back, by a reclaim or a second report. *)
TerminalIsFinal ==
  [][\A j \in Job : job[j].status \in {"succeeded", "dead"} =>
                      job'[j].status = job[j].status]_vars

(* No job is executed, from its claim to its outcome, by two at a time, and
   what executes it holds it: the job is running, at that attempt. *)
NoDoubleExecution ==
  \A p, q \in Worker \cup Runner :
    act[p].pc \in Executing /\ act[q].pc \in Executing /\ act[p].job = act[q].job
      => p = q /\ job[act[p].job].status = "running"
               /\ job[act[p].job].attempts = act[p].try

(* A job that succeeded has sealed the credential of its last attempt: what the
   target was given can be found in the vault's versions. *)
SucceededIsSealed ==
  \A j \in Job : job[j].status = "succeeded" => <<j, job[j].attempts>> \in stored

(* max_attempts is exceeded only by attempts that were cut short: a job is
   claimed at most once more for every disturbance there has been, although the
   reclaims do not look at the count (claimJobs, finalizeJob,
   reclaimExpiredLeases). *)
AttemptsBounded ==
  \A j \in Job : job[j].attempts <= MaxAttempts + (MaxFaults - left)

(* Every job ends: it succeeds or is dead-lettered, whoever dies meanwhile. *)
JobsEnd == \A j \in Job :
  job[j].status = "queued" ~> job[j].status \in {"succeeded", "dead"}

-----------------------------------------------------------------------------
(* Refinement: a job is an item of the abstract queue, at work on it are the
   workers and runners between their claim and their outcome. *)

ItemOf(j) ==
  IF job[j].status = "queued" THEN "queued"
  ELSE IF job[j].status = "running" THEN "held" ELSE "idle"

Working == Executing \ {"report", "final"}

WorkersOf(j) ==
  {p \in Worker \cup Runner : act[p].job = j /\ act[p].pc \in Working}

Queue == INSTANCE JobQueue WITH
  Item <- Job, Worker <- Worker \cup Runner,
  item <- [j \in Job |-> ItemOf(j)], busy <- [j \in Job |-> WorkersOf(j)]

(* Rows, leases, late outcomes and reports implement the promise of a queue: a
   job is worked on by one at a time, is given back or ended only when nobody
   works on it, and is never dropped while it waits (claimJobs, claimForRunner,
   finalizeJob, the reclaims). *)
ImplementsQueue == Queue!Spec
=============================================================================
