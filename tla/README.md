# KNetraHub: specifications, model checks and proofs

KNetraHub is one Nuxt application (a portal shell and five layers: Docker, Monitoring, Work,
PAM and IP management) over PostgreSQL, with a few services beside it (the PAM SSH gateway in
Go, the Docker agent). Several instances of the application may run against the same
databases. Nearly all coordination is therefore done by single SQL statements that run
between `await`s of handlers, workers and timers, and most of what can go wrong is an
interleaving of those statements.

This directory holds TLA+ modules of the parts with a protocol of their own, TLC
configurations, and TLAPS proofs. Source paths below are relative to the repository; `mon/`
stands for `layers/monitoring/server/` and `pam/` for `layers/pam/server/`.

    tlc -workers 2 -config MonJobs_Queue.cfg MCMonJobs.tla     # model-check one run
    tlapm PamSessions_proofs.tla                                # check one module of proofs

## 1. The system's parts

| Part | State | Operations | What is hard |
|---|---|---|---|
| Job queue and dispatcher (`mon/jobs/queue.ts`, `mon/jobs/dispatcher.ts`) | rows of `monitoring.jobs`; per process: `running`, the timer, the closure's `tickRunning` | enqueue, claim, complete, fail, reap, replay, trim; a tick; start and stop | nodes share rows; leases; unfenced updates by id; crashes; failing statements; pause and capacity read before the claim |
| Monitoring engines (`mon/polling`, `mon/discovery`, `mon/services`, `mon/billing`, `mon/jobs/housekeeping.ts`) | `next_poll_at`, device data | what a claimed job runs | they end, throw, or take longer than their lease |
| Monitoring runtime (`mon/plugins/monitoringBootstrap.ts`, `server/utils/moduleDb.ts`, `moduleLifecycle.ts`, POST backups/restore) | `dispatcher`, `active`, `stopping`; the module's pool, its records, `runtimeSuspensions` | reconcile, start and stop; enable, provision, disable; suspend, restore, resume | every one awaits statements, and pools are closed under those who hold them |
| Availability (`mon/polling/engine.ts`, `modules/availability.ts`, `system.ts`) | `devices.status`, `device_outages`, maintenance windows | poll, disable, enable | the status read at the start decides what is written at the end; status and outage are two statements |
| Alerting (`mon/alerting/evaluate.ts`, `transports.ts`, acknowledge) | `alerts` with state, counters and `last_notified_at` | evaluate a rule: open, suppress, lift, notify, recover; acknowledge | an incident is selected several awaits before it is written; a message is sent before it is counted |
| Entity reconciliation and counters (`mon/core`) | entities, rates | within one poll | confirmed absence, counter rollover |
| Access requests and approvals (`pam/utils/pamRequests.ts`, `pamPolicy.ts`, `pamPolicyStore.ts`, `pam/api/pam/v1/requests`, `break-glass`) | `access_requests`, `request_approvals`, `access_grants`, `access_policies` and their rules | create, ticket, approve, reject, cancel, finalize, break-glass, edit a policy | every handler is five to ten statements in transactions of their own; two approvers, an approver and a rejecter, an edit in between |
| Sessions and grants (`pam/api/pam/v1/sessions`, `grants`, `gateway`, `pam/utils/pamGateway.ts`, `pamScheduler.ts`) | `sessions`, `gateway_tokens`, `access_grants`, the `revoke_grant` job | start, reconnect, terminate, revoke, sweep, checkout, ingest, session-state | the control plane and the gateway see each other only through tokens, polls and reports |
| SSH gateway (`services/pam/ssh-gateway/main.go`) | one goroutine group per connection | verify, checkout, dial, serve, poll, report | a token that expires before its session; reports that arrive late or never |
| Credential jobs and runner (`pam/utils/pamJobs.ts`, `pamRunner.ts`, `pamVault.ts`, `services/pam/connector-runner`) | `credential_jobs`, credential versions, `accounts.rotation_status`, the target's password | enqueue, claim, renew, rotate, verify, report, reclaim | the target and the vault change one after the other; answers are lost; reports are late |
| Just-in-time access (`pam/utils/pamJit.ts`, `pamJitCore.ts`, `pamCertification.ts`) | `jit_entitlements` and the groups of a directory | request, provision, revoke, sweep; a review's revocation | a membership that half changed; a row that says otherwise |
| Audit chain, vault, discovery, certification | their tables | | a hash chain written by several instances |
| Portal (modules, databases, backups, users), Work, IPAM, Docker | their tables and caches | mostly single statements and proxies | restore against running pools; task dependencies; allocation |

How they interact: the dispatcher calls the engines in process; operators reach the queue by
HTTP handlers that write the same tables. An approval writes grants; a grant allows sessions;
a session yields a token that a browser carries to the gateway; the gateway calls back the
control plane (checkout, ingest, session-state). A revocation is seen by the gateway at its
next poll. A worker claims a credential job in process, a runner by HTTP; both end in the same
`finalizeJob`. The scheduler of PAM sweeps sessions, grants, entitlements and rotations. The
monitoring runtime lives on the module's record and pool, which administrators take away from
under it. The parts modelled below are the core: they decide whether work is run once, whether
access is given and taken away when it should be, whether the vault's password opens the
target, and whether somebody is told when a device is down.

What makes each correct:

- queue: a row has one owner; no key is worked on twice at a time; no claim is lost with its
  worker; capacity and pause are honoured; what is due gets done;
- access: no live session without the decision its policy asked for, and none in use after its
  grant's end;
- approvals: a grant stands on the quorum of its policy, in order; one person's repeated
  approvals count no more often than they had requests in flight; an approved request has its
  grants unless its handler dies; complete approvals decide;
- sessions: a token opens one checkout; terminated is final; a dead grant is not in use and its
  connections close; a session goes out of use with its last connection unless nobody reports
  that; a limit is overrun by the starts in flight at most;
- credential jobs: one execution at a time, and not more often than allowed; the vault follows the target, or the account says
  that it does not; what is over stays over; every job ends;
- just-in-time access: no membership without a row that answers for it; an overdue one goes;
- runtime: it works exactly when the module is ready, and on an open pool; it stands still, and
  its pools are closed, while its database is restored;
- availability and alerting: no outage on a device that answers; a dead device is reported;
  incidents end with their cause.

## 2. Modules

| Module | Contents |
|---|---|
| `JobQueue` | the abstract queue, which `MonJobs` and `PamJobs` implement: an item waits, is held, is worked on by at most one worker while held, and is never dropped while it waits |
| `MonJobs` | the job table, the dispatchers of all nodes, the executions, the operators |
| `MonJobs_proofs` | its theorems |
| `PamApprovals`, `PamApprovals_proofs` | requests, slots, grants and the policy editor |
| `PamSessions`, `PamSessions_proofs` | grants, sessions, tokens, control-plane handlers and gateway connections |
| `PamAccess`, `PamAccess_proofs` | `PamApprovals` and `PamSessions` composed over one `access_grants` table |
| `PamJobs`, `PamJobs_proofs` | rotations of an account: the job table, workers, the runner, the vault, the target |
| `PamJit`, `PamJit_proofs` | entitlements, the directory, handlers, the sweep and a review |
| `MonRuntime`, `MonRuntime_proofs` | one process's runtime, pool and records through enabling, disabling and a restore |
| `MonAlerts`, `MonAlerts_proofs` | polls, outages, one rule's incidents and its evaluation |
| `MCMonJobs`, `MCPamApprovals`, `MCPamSessions`, `MCPamAccess`, `MCPamJobs`, `MCPamJit`, `MCMonRuntime`, `MCMonAlerts` | the instances TLC checks |

Conventions. One SQL statement is one action, except where the code opens a transaction; what
a handler has read is kept in a record with a program counter (`h`, `conn`, `runs`, `tick`),
so a later statement uses it however stale. Time is never a number: a row has the answer of
the comparison the code makes (`due`, `lease`, `window`, `signed`) and an action lets it
change. A constant set (`Faults`, `Allow`) names the disturbances a run includes, so that the
hypotheses of a property are visible in its configuration. Operators commented "Mutant" are
variants of the definition below them with a plausible error; no specification uses them,
they exist to show that a property can fail. Definitions keep the names of the functions
they model where there is one.

### MonJobs

| Code | Model |
|---|---|
| `monitoring.jobs` with `state`, `dedupe_key`, `attempts`, `run_at`, `locked_by`, `lease_until` | `jobs[j]`: a row, or the identity of a row not inserted yet (`absent`) |
| the partial unique index on active keys | `KeyFree` |
| `enqueue`, `claim`, `complete`, `fail`, `reapExpiredLeases`, `replayJob`, `trimFinishedJobs` | `Enqueue`, `Claim` with `Batch`, `Complete`, `Fail`, `Reap`, `Replay`, `Trim` |
| `startDispatcher`, `stopDispatcher`, the interval closure with its own `tickRunning` | `StartDispatcher`, `StopDispatcher`, `tick[<<n, c>>]` per closure |
| `scheduleDueWork` and `claimAndRun`, statement by statement | `TickStart`, `Schedule`, `Reap`, `Check`, `Claim`, `TickFails` |
| the promise chain of a claimed job | `runs[x]`: `EngineReturns`/`EngineThrows`, `Complete`, `Count`, `CompletionThrows`, `Fail`, `FailThrows` |
| POST devices/:id/poll, PUT pollers/:id, the replay handler, a device moved to another group | `PollNowStamp`, `PollNowEnqueue`, `SetEnabled`, `Replay`, `Regroup` |
| a process dies and comes back; clocks | `Crash`, `Restart`, `LeaseLapses`, `BackoffElapses`, `DeviceDue`, `NextBucket` |

`complete()` and `fail()` fence neither state nor owner, and `fail()` decides by the attempts
its execution was claimed with; both are modelled so. `finished` and `asked` are history
variables used by the properties only. A time bucket of a singleton is part of its key.

Left out: the fast retry of a device that is down and discovery are folded into "the device is
due"; `LIMIT`s of the SELECTs, the heartbeat and the `jobs_failed` counter; disabled and deleted
devices; the `run_at` order within a priority (`Batch` allows any). `Trim` waits for the
executions of its row, which the days of retention ensure.

### PamApprovals

| Code | Model |
|---|---|
| `access_requests.status` | `req` |
| `request_approvals`: one row per unit of a level's quorum | `slot[r][<<level, i>>]` |
| `access_grants` | `grants`; the policy the issuing handler held is kept with it as history |
| `access_policies` and rules, `replaceRules` | `policy`, `edit`: `EditPolicy`, `DeleteRules`, one `InsertRule` per rule |
| POST requests | `CreateRequest` (reads the policy), `InsertRequest` (the transaction), `TicketValid`, `TicketInvalid` |
| POST requests/:id/approve | `Approve`, `ReadPolicy`, `ReadLevel`, `CheckDistinct`, `PickSlot`, `FillSlot` |
| `evaluateApprovals`, `finalizeIfApproved`, `issueGrants` | `Satisfied` with `Needed`; `Evaluate`, `MarkApproved`, one `IssueGrant` per account |
| reject, cancel, break-glass | `Reject`, `RejectSlots`, `MarkRejected`; `Cancel`, `MarkCancelled`; `BreakGlass` |
| a statement throws, a server dies | `Abort` |

The handlers check `status = 'pending'` once, when they start, and update unconditionally
afterwards; so does the model. Eligibility and separation of duties (`assertApproverEligible`,
`assertNoSodConflict`) read tables no modelled operation writes and are the constant `Eligible`.

Left out: several rules at one level, a disabled or deleted policy (which falls back to the
default), an edit that leaves the rules alone, `starts_at` in the future and `max_use_count`
(which `issueGrants` never sets). The SELECTs of `resolveRequestPolicy` are one step.
TLC compares states by `Essence` (`MCPamApprovals`), which leaves out of a handler what it will
not read again.
`ticket_only` acts like `none` with a ticket. A run has one request: requests share only the
policy.

### PamSessions

| Code | Model |
|---|---|
| `access_grants.status`, `expires_at` | `grant`, `window` |
| `sessions`, `gateway_tokens`, the signed token | `sess`, `tok[t].row`, `tok[t].signed` |
| POST sessions, POST sessions/:id/token, terminate, revoke | `StartSession`/`StartAsAdmin`, `CountSessions`, `InsertSession`, `IssueToken`; `Reconnect`, `Recheck`; `Terminate`, `TerminateSession`; `Revoke`, `RevokeGrant`, `CleanUp`, `EnqueueRevoke` |
| the `revoke_grant` job; `sweepExpiredGrants` | `RunRevokeJob`, then `ClearSessions`; `Sweep`, `ExpireGrant`, `ClearSessions` |
| gateway/checkout | `Connect`, `Consume`, `RecheckGrant`, `Deny`, `RefuseAccount`, `OpenCredential`, `Activate` |
| `handleSession` after the checkout | `DialTarget`, `ReportFailed`, `ReportActive`, `Poll`, `Leave`, `ReportEnded`; `DropSilently` (an early return, a lost last report, a gateway that dies) and `LoseReport` |
| gateway/ingest, gateway/session-state | `Ingest`, `Over` |
| time | `WindowCloses`, `TokenExpires`, `Purge` |

TLC compares states by `Essence` (`MCPamSessions`): it forgets sessions that are over and that
nobody holds, with their tokens, how a grant came to its end, and `missed`, which only
`RevocationPropagates` reads.
`used` counts a token's checkouts and `conn[c].missed` remembers a poll that should have closed
the connection: history for `SingleUse` and `RevocationPropagates`.

Left out: the containment options of terminate (disable or rotate the account), the lease of
the credential, the scheduler's other sweeps, recordings, and the byte streams.

### PamAccess

An approval and a session meet in one row of `access_grants`: the approval side inserts it
(`issueGrants`, break-glass), the session side reads it and writes its end. `PamAccess` has the
variables of both modules and an INSTANCE of each. A step is a step of `PamApprovals` that
inserts no row (`Decide`), the insertion of row `g`, which is at once an `IssueGrant` or a
`BreakGlass` of the one and `Issue(g)` of the other (`IssueGrant`), or any other step of
`PamSessions` (`Use`), so every interleaving of the two sides' handlers is there. `Issue`, which
`PamSessions` takes from outside, is closed off by it.

`AccessIsDecided` relates the two ends: behind a live session on a grant stands break-glass, a
policy that asks for nobody, or at each level as many approvals as the policy asked for, each by
somebody eligible there and none by the requester. They need not be as many different people:
`approve.post.ts` does not see to that (section 3). `DeadGrantDrains` goes the other way: once a
grant is over, whoever ended it, no connection stays open on it. Nothing between the first
approval and the session is one transaction.

### PamJobs

| Code | Model |
|---|---|
| `pam.credential_jobs` of one account (its concurrency key) | `job[j]`, with the runner's lease and `pending_secret` |
| the credential versions, `accounts.rotation_status`, the target's password | `vault` (and `stored`, history), `rotation`, `target` |
| workers, runners, report requests | `act[p]`: a program counter and what it holds |
| `enqueueJob`, `scheduleDueRotations` | `OnDemand`; `Schedule` or `Dedupe`, then `MarkPending` |
| `claimJobs`, `claimForRunner` | `Pick` (the subquery and its lock), `Claim` (the UPDATE) |
| `doRotate` in process | `Load`, `Change`/`Refuse`/`LoseAnswer`, `Store`, `Reload`, `Verify`, `Settle` |
| the runner's `handle`, `reportForRunner`, `applyReportDecision` | `Load`, `Pend`, `Change`, `Check`, `Report`; `Decide`, `Seal`, `Manage`, `Clear`, `Respond` |
| `finalizeJob` | `Finalize`, `Flag` |
| `reclaimExpiredLeases`, `reclaimExpiredRunnerLeases` | `Reclaim`, `ReclaimRunner` |
| deaths, failing statements, network errors | `Crash`, `WorkerError`, `HandlerError`, `NetError` |

A credential is the pair of its job and attempt: what matters is which one the target accepts
and which one the vault holds. `finalizeJob` updates by id, unfenced, as the code does.
The rows implement `JobQueue`: workers and runners are its workers, a queued job is queued, a
running one held, and one on which a change or a report may still follow has a worker
(`ItemOf`, `WorkersOf`).

Left out: verify, reconcile, test and discovery jobs (they write no credential), deleted accounts,
backoff times, and why a connector refuses.

### PamJit

| Code | Model |
|---|---|
| `pam.jit_entitlements` (state, revoked, group and principal), `expires_at` passed | `row[e]`, `due[e]` |
| the directory's groups | `member` |
| POST jit, jit/:id/provision, jit/:id/revoke | `RequestJit`, `Call` |
| `provisionJit`, `revokeJit`, with the provider's search and modification | `Load`, `Mark`, `Look`, `Change`, `Verify`, `Win`, `Lose` |
| `sweepDueJit` | `Sweep`, `SweepNext` per row |
| `enforceRevoke` of a certification review | `Certify` |
| the directory fails, an answer is lost, a server dies | `Unanswered`, `VerifyFails`, `AnswerLost`, `WinFails`, `Die` |

The handlers look at the state only to skip a revoked row, so the model lets them start in any
other. Left out: zero-standing-privilege policies, and `renewJit` and `sweepJitRevocations`, which
nothing calls.

### MonRuntime

| Code | Model |
|---|---|
| `module_databases`, and the records the process decides by | `row`, `known`; `loaded`, the load that is awaited |
| `pools` of `moduleDb.ts`; pools not ended | `cur`, `open` |
| `runtimeSuspensions`; `active`, `stopping`, the dispatcher's timer, the receivers | `suspended`; `runtime` |
| `reconcile`, with `startDispatcher` | `Reconcile`, `RecStop`, `RecNothing`, `RecMigrate`, `RecConfig`, `RecInsert`, `RecStarted`, `RecFails` |
| `enableModule`, `disableModule`, first provisioning | `Enable`, `Test`; `Disable`; `Provision`, `Reserve`, `Initialize`; `Mark`, `Close`, `Closed` |
| `loadRecords` | `Loading`, `Select`, `Prune` |
| POST backups/restore of the module or of the portal | `BeginRestore`, `Close`, `Closed`, `Clear`, `Restored`, `Resume` |
| any handler of the module's API | `UseDb` |

An action is what JavaScript does between two `await`s. Left out: changes of the database's
fingerprint, loads that fail, nodes whose dispatcher is disabled, several processes.

### MonAlerts

| Code | Model |
|---|---|
| the network, a parent device, maintenance windows | `reach`, `cut`, `window`, changed by `Change` |
| `devices.status`, `disabled`; open rows of `device_outages` | `status`, `disabled`, `outage` |
| `runPoll` with `availabilityModule` and `systemModule` | `Read`, `Window`, `Skip`, `Ping`, `MarkDown`, `OpenOutage`, `CloseOutages`, `MarkUp`, `Verdict`, `PollFails` |
| `alerts`; the delay and the reminder interval as answers of their comparisons | `alert[i]` with `ripe` and `last` |
| `evaluateRule` | `Snapshot`, `Find`, `Maintenance`, `Dependency`, `Insert`, `Refresh`, `Lift`, `Send`, `Count`, `Cleared`, `Recover`, `Bye`, `CountBye`, `EvalFails` |
| POST alerts/:id/ack, devices/bulk | `Ack`, `Disable`, `Enable` |

A row that has recovered and that no evaluation holds gives its identity back.

Left out: devices polled by ICMP only and ignored ones (`availability.ts:84-95`), editing or deleting
a rule, its scope, inverted conditions, `max_notifications`, templates and transports, the
two-statement disable of PUT devices/:id, and the recurrence of windows. `recovery_notification` is on.

## 3. Runs

Deadlock is checked in `MonJobs_Live` and the runs of `MonRuntime` only: with finitely many
identities and bounded time buckets the other runs may stop where the program would go on with new rows.

| Run | Bounds | Shows |
|---|---|---|
| `MonJobs_Queue` | 2 nodes, 3 rows, 2 executions, 1 device, crashes, failing statements and replayed rows; `MaxAttempts` 2 | `QueueInv` (types, unique active keys, one execution per row, an execution owns its row), `CapacityRespected`, `DeadIsExhausted`; `ImplementsQueue`: the table with its reaper and all dispatchers implements `JobQueue` |
| `MonJobs_Ops` | 1 node with 2 closures, 2 executions, a device and a singleton with 2 buckets, 2 groups; restarts, replay, poll-now, regroup | `NoDoubleRun` when two closures claim at once under the operators |
| `MonJobs_Live` | 2 nodes, 2 rows, crashes and pauses; fair | `ClaimsEnd`, `DuePolled`, `PauseDrains` |
| `PamApprovals_Grants` | 1 request, 3 people, 2 handlers, which may both be one person's, levels of quorum 3 and 1, an automatic policy with a ticket; rejection, cancellation, tickets, edits, break-glass, handlers that die | `GrantNeedsQuorum`, `LevelsInOrder`, `RepeatsAreBounded`, `ApprovedIsGranted` |
| `PamAccess_Live` | 1 request for 1 account, 3 people, 2 approval handlers, a policy of quorum 2 and an automatic one with a ticket; rejection, cancellation, break-glass; 2 grant rows, and 1 session, token, connection and session handler, administrators, refused accounts; fair to the approval handlers and the connection | `AccessIsDecided`, `SlotsDecide`, `DeadGrantDrains` |
| `PamSessions_Revoke` | 1 grant with a limit of 1, 3 sessions, 2 tokens (reconnect), 2 handlers, 2 connections; tokens expire, reports are lost, connections end silently, the gateway dies, accounts are refused, and one session of an administrator (`OneAdmin`) | `SingleUse`, `ActiveWasCheckedOut`, `DeadGrantUnused`, `OverrunIsBounded`, `TerminatedIsFinal`, `ActiveIsServed` |
| `PamSessions_Missed` | 1 session whose token expires | `RevocationPropagates` fails |
| `PamJobs_Rotate` | 2 jobs, 2 workers, 1 runner, 1 report, 2 attempts, one fault at any point (crash, failing statement, lost answer, network error); fair | `ManagedMatches`, `NoDoubleExecution`, `SucceededIsSealed`, `AttemptsBounded`, `SealsWhatTargetAccepts`, `TerminalIsFinal`, `JobsEnd`; `ImplementsQueue`: the rows, workers and runners implement `JobQueue` |
| `PamJit_Expiry` | 2 entitlements, 2 memberships, 2 handlers, 2 calls, one fault; fair | `MembershipsAnsweredFor`, `ActiveIsMember`, `OverdueIsRemoved` |
| `MonRuntime_Restore` | 1 request at a time, 4 pools, 2 failing statements; no suspension while a dispatcher's first INSERT is awaited; fair | `NoPoolWhileRestoring`, `QuietWhileRestoring`, `FollowsRow` |
| `MonRuntime_Pool` | the same, with suspensions at any time | `WorkersHaveOpenPool` fails |
| `MonAlerts_Incidents` | 1 device, 1 rule with reminders and a transport, 1 evaluation, one failing statement; fair | `UpHasNoOutage`, `DeadIsReported`, `ClearIsRecovered` |

Why the bounds are enough: every known race of these handlers is between two actors, so two
nodes, executions, handlers and connections meet each pair, and a third row or handler lets a
new item come while two are contended. A third attempt number (`AttemptCap`) is past
`MaxAttempts`, where nothing but the comparison matters. Quorum 3 over 1 has a level to wait for,
two slots to collide on and a third for one person's approval too many. Two rotations by two workers and a runner
meet every pair of executions of an account, and the one fault of a run may fall before or after
every statement and every call; two entitlements are those of one membership or of two. Four
pools are as many as can be held at one time (the module's, the dispatcher's, the
reconciliation's, a closing one). One device has polls, evaluations, an operator and a fault
between any two statements; devices share nothing but the evaluation, which takes them one by
one. In `PamAccess_Live` one session, token and connection are
enough to meet each statement of the approval side; a second level, two requests of one person and
reconnections meet there only what `PamApprovals_Grants` and `PamSessions_Revoke` meet on each
side, and `AccessStandsOnDecision` and `AccessEnds` are proved for all of them. The loop of
`issueGrants` over several accounts and more than two handlers are left to the theorem
`ApprovalsAreComplete`. Three sessions let
a request that overran the limit start once more. The type invariants, and `RunningIsLeased` of
`MonJobs`, are proved, so no run repeats them but `QueueInv`. The proofs remove the bounds for the
invariants listed in section 5.

### What the failing runs show

- **A revocation that is never noticed** (`PamSessions_Missed`). The gateway polls with the
  token it was opened with, valid for five minutes; after that the poll is an error, which it
  ignores, although "a manager terminate / grant revoke on the control plane closes the live
  session within one interval" (`main.go:467-468`).
- **A runtime left on a closed pool** (`MonRuntime_Pool`). `startDispatcher` awaits its first
  INSERT while a restore suspends the runtime and finds no timer to stop. The INSERT's
  continuation then creates the timer with `stopping = true`, and `reconcile` sets `active` over
  the suspension's `false`. After the restore the runtime counts as active on the pool that was
  closed, and no later reconciliation starts a dispatcher, although "Backup/restore uses these
  hooks so workers never retain a closed pool" (`monitoringBootstrap.ts:13`).

### Limits of the code met while modelling

A quoted word is one to add to a run's `Faults` or `Allow`; the named property then fails. The
others follow from actions of the model but have no property.

Queue and dispatcher. An execution that outlives its 600 s lease is run twice ("slow":
`NoDoubleRun`, and with "replay" and "dberror" `DeadIsExhausted`); a dispatcher restarted within a
tick can exceed the concurrency ("restart" with a second closure and device:
`CapacityRespected`); the reaper does not count attempts. Singletons carry the minute or the day
in their key (`mon/jobs/dispatcher.ts:120`), but the index covers pending and running rows only, so
a later tick of the same bucket enqueues and runs a finished one again. A poll asked for while
one is running is lost: its insert is refused by the key, and the running poll's last statement
overwrites the `next_poll_at` that was reset for it (`devices/[id]/poll.post.ts:12`).

Approvals. One approver with two requests in flight fills two slots, since
`hasDecidedAtLevel` is read several statements before the slot is written; the comment above it
asks for "DISTINCT approvers per level (so a quorum≥2 level needs that many different approvers)"
(`approve.post.ts:12-13`). The run includes the race ("double"), and `RepeatsAreBounded` says how
far it goes: no more approvals of one person at a level than that person has requests in flight
together. Two approvers that finish together both find the quorum met and each issue the
grants, which are then there twice. If a handler dies between the status and the grants ("crash",
also in the run), the approved request stays without them and nothing resumes it, which
`ApprovedIsGranted` names as the only way. A rejection, or a failed ticket
validation, beside the last approval leaves a rejected request with a grant; an approval that
reads the rules between their DELETE and INSERT sees the default quorum of one.

Sessions. Two starts pass the session limit together (`OverrunIsBounded` says that each request
adds one session too many at most). A session for which two tokens were exchanged can be made
active by a late report after the revocation of its grant: `DeadGrantUnused` and
`OverrunIsBounded` leave such sessions out. A session whose token has expired, or whose
connection went silently, is never reported ended and keeps its place in the limit:
`ActiveIsServed`, which the run checks with both, says that there is no third way.

Credential jobs. Two claims of one account in the same instant ("race": `ManagedMatches`); a
report handled after its runner gave up ("late" with "net": `SealsWhatTargetAccepts`,
`TerminalIsFinal`, `ManagedMatches`), since it is fenced by the runner and not by the attempt
(`pamRunner.ts:333-334`); a job that outlives its lease ("slow": `TerminalIsFinal`,
`NoDoubleExecution`); a fault between a job's death and the account's flag ("hidden" with "crash":
`ManagedMatches`). The unique index on idempotency keys covers finished rows, which `enqueueJob`
does not look at: a second scheduled rotation in the same hour fails the scheduler's batch.

Just-in-time access. A provisioning beside a revocation of the same entitlement ("overlap":
`MembershipsAnsweredFor`, `ActiveIsMember`). A handler that dies leaves `provisioning` or
`revoking`, which the sweep does not look at; a row provisioned again after its revocation keeps
`revoked = true` and is not swept either; and a certification review only sets that flag
(`pamCertification.ts:107`): the membership stays. `OverdueIsRemoved` names these three.

Runtime. A suspension during a start ("midstart": `WorkersHaveOpenPool`, as above, and
`QuietWhileRestoring`); a module disabled and enabled before the timer notices ("quick":
`WorkersHaveOpenPool`, `FollowsRow`); a request beside a restore, which takes no advisory lock
("overlap": all four). What "midstart" leaves true is that no pool of the old database is open
during the restore.

Availability and alerting. A device polled during a `skip_polling` window keeps the status
`maintenance` afterwards, whether it answers or not, until it is switched off and on:
`DeadIsReported` leaves it out. Switching a device that is down off and on opens a second outage
row, and a failed INSERT loses an outage. A failure between a message and its counter sends it
twice or leaves the recovery untold, and without a transport the counter never moves, so no
recovery is reported: no property is about messages. Evaluations are not serialised (the key of
the alerts job carries the minute, its lease is 600 s), and of two that overlap the slower
can notify twice or reopen a recovered row; an instance with two has more than 20 million states,
so the run has one, and no property is about the overlap. An acknowledgement between an
evaluation's SELECT and its lift of a suppression is overwritten; `ack_until_recovery` is read by
nobody; a disabled rule leaves its incidents open; and an incident recovers, with its message,
when a `skip_polling` window begins on a device that is down.

## 4. Fairness

- `MonJobs!Fairness`: a running process starts its dispatcher; `setInterval` keeps calling the
  closure and a tick in flight goes on (`TickStep`); promises settle (`ExecStep`); leases lapse,
  backoffs elapse and done rows are trimmed because clocks and housekeeping run. Nothing is
  assumed of crashes, restarts, pauses or operators. Hypotheses that are about the environment
  are in the properties: `ClaimsEnd` needs some node that keeps dispatching; `DuePolled` needs a
  node of the device's group that keeps serving and nodes that do not crash for ever (a node in
  a crash loop can take the row each time first).
- `PamApprovals!FairSpec`: a handler in flight goes on (an `await` on the database returns).
  Nobody has to send a request.
- `PamAccess!FairSpec`: the same fairness for the approval handlers, and connections go on: the
  checkout's statements, the dial's timeout, and the three-second poll of `handleSession`.
  Nothing is assumed of the sweep, of the job worker, of the handlers of the session side, of
  users or of time: `DeadGrantDrains` holds by the poll alone, because session-state reads the
  grant itself.
- `PamJobs!FairSpec`: the timers of the worker and the runner's loop keep claiming, what has
  started goes on (calls have timeouts), and the scheduler keeps reclaiming.
- `PamJit!FairSpec`: the scheduler keeps sweeping and handlers go on. Nobody has to call an
  endpoint.
- `MonRuntime!FairSpec`: `setInterval` keeps reconciling, and what has started goes on. Pools end
  when nobody waits on them.
- `MonAlerts!FairSpec`: devices are polled and the rule is evaluated again and again, which is
  what `DuePolled` and `ClaimsEnd` of `MonJobs` say of the queue below; delays and intervals pass.
  Nothing is assumed of devices, windows and operators: `DeadIsReported` and `ClearIsRecovered`
  take a device that stays as it is.

## 5. Proofs

All theorems hold for every value of the constants that satisfies the module's ASSUME.

**MonJobs.** `TypeCorrect`: the types, under every fault. `QueueInvariant` and
`NoDoubleRunHolds`, assuming `"slow" \notin Faults` (no execution outlives its lease).
Uniqueness of keys and "one execution per row" are not inductive: `complete()` and `fail()`
update by id whoever owns the row, so what makes them harmless has to be carried along.
`OwnsRow` says it: while an execution is in flight its row is running under its node and
attempt with a live lease, or was completed by itself. The reaper then never touches such a
row, `Fail` can only return a row that is its own, and a second execution of a key would need a
second active row, which `KeyUnique` excludes. The step lemmas (`EnqueueKeeps`, `GotoKeeps`,
`LandKeeps`, `ClaimKeeps`, `StepKeeps`) follow the kinds of statements. On the same assumption,
`ImplementsJobQueue`: every step maps to a step of `JobQueue` or to a stutter under the mapping of
`Items` and `Busy`, one lemma per kind of statement, because a claim, a reap or a completion
changes one item only where keys are unique. `DeadLettersAreExhausted` by `AttemptsAgree`: what
an execution read at its claim is still the row's count. `RunningRowsAreLeased` needs no
assumption. `CapacityIsRespected`, assuming `"restart" \notin Faults`: by `CountExact` (the
in-process counter is the number of executions), `OneTicks` and `FitsLeft` (what a tick has read
as free is still free, because only the tick that reads it claims).

**PamApprovals.** `TypeCorrect`. `GrantsStandOnQuorum`: slots only ever move away from
"pending" (`Later`), which cannot undo a quorum (`QuorumKeeps`) because approved slots are not
overwritten by a rejection; `Insertion` says that nobody works on a request before its one
insertion, and `Standing` that a handler past its evaluation, and a grant, stand on the quorum
of the policy it holds. `LevelsAreOrdered`: `Ordering` adds that below the level a handler has
selected nothing has been pending since. `RepeatedApprovalsAreBounded`, for finitely many
requests in flight: what one person approves at a level does not bound itself, because the check
is past when the slot is written. `Within` counts those requests too: the approvals of
a person and the requests of that person that have passed the check (`Near`) are together no more
than the handlers; a request passes only while the person has no approval at the level, and from
then on a fill exchanges a charge for an approval. `ApprovalsAreEligible`: the eligibility read two
statements earlier (`Checked`) is that of the slot's level, because by `Ordering` the level has
not moved. `ApprovalsAreComplete`: a handler at an account has issued the grants of those before
it (`Progress`), and every step but a death leaves a complete request complete (`Keeps`), whether
its handler issues a grant, another one marks or breaks glass, or a rejection passes aside
(`Aside`).
`OwnRequestsStand`, assuming that no policy lets people
approve their own requests: the flag is read once, several statements before the slot is filled,
and from then on the handler is somebody else's (`NotOwn`).

**PamSessions.** `TypeCorrect` by `Typed` (types, and what handlers and tokens point at).
`TokensAreSingleUse` by `Unused` (a fresh row is unused, and a purged one keeps its identity).
`TerminationIsFinal`, an action property from the types alone: every statement that writes a
session's state excludes "terminated" or writes it. `ActiveSessionsWereCheckedOut` by `Traced`
(a connection past the consumption carries a used token of its session).
`ActiveSessionsAreServed`, an action property: a connection of a session in use stays one
(`OpenLasts`) unless the step is its report, which ends the session's use, or one of the two ends
nobody hears of. `DeadGrantsAreUnused`: of the tokens of a session one has been exchanged, or the
session is left out; then it has one connection past its consumption (`OneConn`), what has ended has none
past its checkout (`Finished`), and the sessions of an ended grant are over once the
clean-up has passed them (`Quiet`). `LimitOverrunIsBounded`, for finitely many requests in flight:
the bound alone is not inductive,
since a request that has counted will insert whatever happens meanwhile. `Limited` charges each
such request (`Counted`) as if its session were there; a count below the limit leaves room for
all of them, and an INSERT exchanges a charge for a session. Only an INSERT makes a session that was
not checked out twice live (`LiveGrows`), which is where `OneConn` and `Finished` are needed: a
late report could bring an ended one back. `SessionsAreOnIssued`: the grant of every handler and session has been issued.

**PamAccess.** `ImplementsApprovals` and `ImplementsSessions`: every step of the composition is a
step or a stutter of each side, so the theorems of `PamApprovals_proofs` and
`PamSessions_proofs`, taken by INSTANCE, hold of it; `AccessEnds` (a grant that is over is out of
use, but for sessions checked out twice) is such. `AccessStandsOnDecision` needs both sides: what
is issued is a row of `grants` (`Shared`, the one invariant about both modules' variables), a live
session is on an issued grant (`SessionsAreOnIssued`), the row stands on its quorum
(`GrantsStandOnQuorum`), and whoever signed its slots was eligible (`ApprovalsAreEligible`) and
not the requester (`OwnRequestsStand`). It assumes nothing of how many requests one person sends.

**PamJobs.** `TypeCorrect`, with the course of every thread (`Typed`). The others rest on
`Owned`, which needs `"late", "slow" \notin Faults` (`Fenced`: a report is answered, or lost, before
its runner goes on, and a lease that is served does not lapse): between a job's claim and its
outcome one thread holds it, the row is running at that thread's attempt, and a report on its way
has its runner waiting. `finalizeJob` and the report handler write by id; they are harmless
because the writer is the holder. From it `JobsExecuteOnce` and `EndedStaysEnded`;
`ImplementsJobQueue`, because a step that claims, ends or gives back a job changes its item and
its workers together; and `AttemptsAreBudgeted`, by a budget: no
waiting job, and no running one that nobody serves, has spent its attempts (`BudgetAt`). An
outcome compares the attempt its holder claimed, which is the row's; the reclaims compare
nothing, but what they give back was cut short by a disturbance, which pays for one more. `SuccessIsSealed`
follows the new credential from the change to the statement that seals it (`Earned`).
`FailureIsShown` and `OnlyAcceptedSealed`, assuming also `"race", "hidden" \notin Faults` (`Ordered`:
claims of one account see each other, and a death is flagged in the same breath): then there is
one holder per account (`Single`), which alone touches the target and the vault, so what it knows
of them stays true until its next statement (`Synced`), and a difference between them always
shows (`Shown`). The run's faults satisfy both assumptions.

**PamJit.** `TypeCorrect`. `NoMembershipForgotten` and `ActiveHasMembership`, assuming
`"overlap" \notin Allow` (nobody provisions an entitlement while it is being revoked): handlers on
one entitlement are of one kind (`Kinds`), past the first statement its row says which
(`Marked`), every membership has an answering row that no successful revocation is about to
clear (`Supported`), and a handler about to write "active" has the membership, if it is alone
with it (`WinHas`).

**MonRuntime.** `TypeCorrect`. `RestoresHaveNoPool`, assuming `"overlap" \notin Allow`:
requests come one at a time (`OneRequest`), no pool but the module's is open (`Pools`), and while
a restore goes on none is handed out (`Suspended`), whatever start the suspension fell into.

**MonAlerts.** `TypeCorrect` and `OutagesEnd` without assumptions; the latter by `Outages`: while a
poll is about to open an outage the status is not that of a device that answers, and while one is
about to write "up" no outage is open.

**Only model-checked:** liveness (`ClaimsEnd`, `DuePolled`, `PauseDrains`, `SlotsDecide`,
`DeadGrantDrains`, `JobsEnd`, `OverdueIsRemoved`, `FollowsRow`, `DeadIsReported`,
`ClearIsRecovered`), which is beyond this prover; and the invariant `QuietWhileRestoring`, whose
hypotheses (no suspension inside a start) belong to one run rather than to the code.

## 6. Plan

Every run here asks a question of its own; what comes next would take their place or join them:

1. Counter rollover and entity reconciliation as operators against reference definitions.
2. IP allocation, task dependencies of Work, the alert states of Docker.

## 7. Not modelled

The audit chain appends inside one advisory lock (`pamAudit.ts:97`) and has nothing left to
interleave but two checkpoints. Entity reconciliation and counters are sequential computations
within a poll. The portal's users, backups and wizard, the Work, IPAM and Docker layers are mostly
single statements or proxies of other systems, and were not reached. PAM's discovery, vendors, risk,
reports and recordings are computation and storage I/O.

Not modelled and not planned: rendering, SNMP/ICMP/syslog collection, encryption and the
OIDC/LDAP protocols (libraries), report computation, storage I/O, deployment scripts.
