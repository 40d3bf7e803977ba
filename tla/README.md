# RedForge: a verification project in TLA+

RedForge is a platform that validates the security posture of registered
systems. It discovers assets, asks an authorization engine whether a target may
be touched, runs bounded network checks against it, repeats them on a cadence
and reports what changed. Its backend (`backend/src`, Python, FastAPI,
SQLAlchemy on PostgreSQL) is a set of some forty bounded contexts; the oldest
and largest, `redforge`, holds the pipeline everything else reports on.

The project models that pipeline from its source, in six parts:

* the **authorization engine** (M10) that says what may be touched;
* the **gated execution** (M11-M13) that carries out one validation;
* the **scheduler** (M14) that decides when a policy is validated and by whom;
* the **reconciliation** (M14) that turns a run into conditions, a snapshot and
  a report of what changed;
* the **network run** (M16), a second kind of run with concurrent probes;
* the **network scheduler** (M16), which repeats M14's with other exception and
  locking rules.

All of them are places where several coroutines, often of several processes,
work on the same rows, and where the interesting states lie between two commits.

Paths below are relative to `backend/src/redforge/`.

## 1. Inventory

### The validation pipeline

| Component | State | Operations | Talks to |
|---|---|---|---|
| Security authorization and policy engine (M10): `domain/authorization`, `application/authorization` | `SecurityAuthorization` rows: status, scope, validity window | create, submit, approve, reject, revoke; `evaluate()` | read by every execution, three times |
| Gated validation execution (M11-M13): `domain/validation_execution`, `application/validation_execution` | execution row, its steps, an append-only event log | `create_and_run()`, `cancel()` | M10, network probes, assets, conditions, correlation |
| Continuous validation (M14): `domain/continuous_validation`, `application/continuous_validation` | policy row (life cycle, `next_due_at`, claim), snapshots, drift | activate, pause, resume, disable, `process_one_due_policy()`, `run_now()` | calls `create_and_run()`, resolves conditions |
| Network monitoring (M16): `application/network_security` | monitoring policies (life cycle, `next_due_at`, claim), runs, snapshots | activate, pause, resume, disable, `process_one_due_policy()`, `run_now()`; a run with concurrent probes and mid-run cancellation | M10, assets, drift |
| Conditions and correlation (M8, M9) | deduplicated condition rows, correlations | observe, resolve, evaluate | fed by executions |

### Everything around it

The platform runtime (supervisor, circuit breaker, bulkhead, backpressure,
retry, heartbeat), the event store with replay, dead letters and projections,
identity and RBAC, assets and connectors, the command center, threat feeds, the
credential vault, the red team contexts (engagement, campaign, task graph), the
incident and playbook contexts, the SIEM pipeline, analytics and the frontend.
`PROJECT.json` lists each of them with the reason why it is not modelled (yet); where a context
is a whole directory, the entry names its longest source file.

### What is hard in the modelled parts

* **Everything is shared and little is held.** A scheduler attempt commits its
  claim and then runs for minutes without a lock. A runner holds an aggregate in
  memory and saves it a dozen times, while other requests write the same row.
  Some requests lock the row they change (`_decide()`), others do not
  (`submit_for_approval()`, `revoke()`, every request on a network policy).
* **Recovery is by lease only.** An attempt that dies leaves its claim behind;
  a lease of 300 s frees it. An attempt that outlives its lease shares the
  policy with its successor.
* **Two mechanisms guard one boundary.** The claim keeps two attempts apart, and
  a partial unique index on (policy, due boundary) catches what the claim does
  not. They disagree about what to do next: one exception branch advances the
  schedule, the other does not.
* **Decisions go stale.** Authorization is decided twice before the plan and
  again before every adaptive step or probe; the cancellation flag is read once
  per step. Between each decision and its use the world may change.
* **Sequence numbers are counted, not drawn.** Event numbers are `count + 1`
  under a unique index, read and inserted in different statements, by the runner
  and by cancel requests.
* **The plan grows while it is executed**, under three different bounds.
* **Reconciliation is six transactions.** Conditions are read, resolved and read
  again, the latest snapshot is read, the new one saved, the drift reported; a
  `run_now()` may do the same in between, and any of the six may be the last.
* **Absence of evidence.** A condition that a run did not see may be gone or may
  not have been looked for. Only the second is told apart, by rule coverage.
* **Probes outlive decisions.** There is a coroutine per address and port; each
  is past the checks, in front of them or waiting for the semaphore when a
  cancellation, a revocation, the deadline or an exception of a sibling arrives.

### What makes them correct

Scheduler: nobody works on a policy that somebody else is working on; if that
fails, a boundary is still validated once; a disabled policy stays as it is; the
schedule moves past a boundary only when there is a run for it; a backlog is
one run and not a burst; a due boundary gets its run although attempts die.

Execution: without authorization nothing is dispatched; a cancellation takes
effect within one step, and so does a revocation as far as adaptive steps are
concerned (the steps of the initial plan are not gated again); whatever a run
saved as a result stays; a terminal row is final, settled and true to its steps; the log is dense
and announces only what was saved; plan and log stay within their limits; a run
that does not die comes to an end.

Authorization: an ALLOW is covered by an authorization in force for that action
and those entities, approved by somebody other than its requester with the
strength the action needs; what ended stays ended; status and approval rows tell
the same story and a decision is never rewritten.

Reconciliation: a condition is resolved only by a run that evaluated its rule
again and did not find it; a report is the difference of two committed snapshots; reports
applied one after the other to the first snapshot give the latest one; what is
called new was not there before.

Network run: after a request to cancel only probes that had passed their last
check still connect; an address whose authorization went away is not probed; a
run with skipped probes updates neither inventory nor snapshot nor drift (the TLS
conditions its probes ingested on the way stay); nothing of a run goes on after
its end, unless it FAILED; every run ends.

Network scheduler: as for the scheduler, and the guarantees of the claim survive
requests that save an old copy of the policy, or it is known which do not.

`PROJECT.json` holds the hazards behind these sentences, each at the line where
it bites.

## 2. Plan

| # | Module | What it is for | State |
|---|---|---|---|
| 1 | `ContinuousValidation`, `BoundaryRuns` | policy, claim, lease, boundary, release; abstract scheduler | done: 1 passing run, 1 violation, 11 theorems |
| 2 | `ValidationExecution`, `ExecutionLifecycle` | gates, step loop, cancellation, events; abstract row life cycle | done: 2 passing runs, 1 violation, 17 theorems |
| 3 | `Authorization` | the M10 life cycle and `evaluate()` | done: 1 passing run, 6 theorems |
| 4 | `DriftDetection`, `DriftReconciliation` | coverage, snapshots and their comparison; overlapping reconciliations | done: 1 passing run, 1 violation, 9 theorems |
| 5 | `NetworkRun` | the M16 run: plan, concurrent probes, cancellation, revocation, inventory, snapshot | done: 1 passing run, 1 violation, 9 theorems |
| 6 | `NetworkScheduler` | the M16 scheduler: the claim protocol without the branch for `IntegrityError`, and policy requests without a lock | done: 1 passing run, 1 violation, 9 theorems |
| 7 | composition | the runs of the schedulers are those of `ValidationExecution` and `NetworkRun`; the `auth` of these is that of `Authorization` | the first by theorems over `BoundaryRuns`; the second open |
| 8 | platform runtime, event store, projections | supervisor restarts, at-least-once delivery into idempotent projections | open |

The order was that of the pipeline's importance: what runs when, what a run may
do, who allows it, what is concluded from it, and the second kind of run with its
scheduler.

## 3. The modules

| Module | Contents |
|---|---|
| `BoundaryRuns` | the abstract scheduler: what becomes of a due boundary |
| `ContinuousValidation` | the scheduler, a refinement of it |
| `ExecutionLifecycle` | the abstract life cycle of an execution row |
| `ValidationExecution` | the execution, a refinement of it |
| `Authorization` | authorizations and the policy engine |
| `DriftDetection` | rule coverage, snapshot and comparison, as operators |
| `DriftReconciliation` | the runs of one policy and their reconciliation, over `DriftDetection` |
| `NetworkRun` | network runs of one target, a second refinement of `ExecutionLifecycle` |
| `NetworkScheduler` | the network scheduler and the requests on its policies, a second refinement of `BoundaryRuns` |
| `MC...` | the values and symmetry sets of the runs |
| `...Proofs` | the theorems of a module; those of the execution are in two, `ValidationExecutionProofs` (control, windows, log) and, on top of it, `ValidationPlanProofs` (plan, step results, announcements) |

How the parts meet: the authorization engine is the source of `auth` in
`ValidationExecution` and of `allowed` in `NetworkRun`, where it appears as an
answer that may change at any time; the scheduler calls the execution, whose
outcomes are its `FinishRun`, `RunRaises` and `RunRaisesIntegrityError`; the
step list an execution ends with is an `Outcome` of `DriftReconciliation`. In
`NetworkScheduler` a run is its insert, its terminal status and its
reconciliation, which are `Create`, `Finish` and the steps after it in
`NetworkRun`.

Some definitions are marked *seeded fault*. They are variants of the definition
that follows them, each with a plausible mistake (a dropped check, a missing
index, an off-by-one). No specification uses them. With the variant in the place
of the original the property named in `PROJECT.json` fails, which shows that the
property depends on that line of the code.

### `BoundaryRuns`

What both schedulers promise about a due boundary, without claims, leases,
clocks or operators: it gets one row in its whole life (`Begin`), its run ends
the row (`End`) or is lost (`Lose`), and nothing else ever happens to it. Each
scheduler implements it with `active <- UnderWay`, the boundaries of the attempts
whose `create_and_run()` has inserted its row and not returned. Two theorems are
proved of the abstract module, `RunsConsistent` and `OrphansAreForever`, and the
schedulers inherit them through their refinements.

It is also the contract between a scheduler and its runs. A scheduler models a
run by its insert and its outcome; `ExecutionKeepsContract` and
`RunsKeepContract` show that `ValidationExecution` and `NetworkRun`, with all that
races them, do no more to a boundary than that.

### `ContinuousValidation`

| In the model | In the code |
|---|---|
| `policy[p]` | the row of `continuous_validation_policies`: life cycle, `next_due_at`, `last_scheduled_at`, `claimed_at` |
| `executions` | scheduled rows of `validation_executions`, by (policy, due boundary), which is what `ux_validation_executions_policy_due` makes unique |
| `terminal` | those rows whose run ended with a terminal status |
| `attempt[w]` | local variables of one `process_one_due_policy()` call: the claimed policy, its boundary, `now`, and where it is |
| `clock` | `utc_now()`, in ticks |
| `Create`, `Activate`, `Pause`, `Disable` | `ContinuousValidationPolicyService`; `_transition()` holds the row lock up to the commit, so each is atomic |
| `Claim` | `claim_one_due_policy`: a row that is active, due, and unclaimed or past its lease |
| `CreateExecution`, `BoundaryTaken` | the insert at the start of `create_and_run()`, and its `IntegrityError` |
| `FinishRun`, `Reconcile` | return of `create_and_run()` and of `_reconcile()` |
| `ReleaseAndAdvance`, `ReleaseClaimOnly` | the two post-run transactions, through `_mutate_under_lock` |
| `RunRaises`, `RunRaisesIntegrityError`, `Abandon` | the `except` branches, which a run may reach before its insert, during its steps or after its terminal save (the last event can still collide), and everything that ends an attempt with the claim in hand |
| `Tick` | time, which does not let an attempt outlive `RunBound` |

An attempt stands for any call in any process. The query asks for the most
overdue candidate, but `SKIP LOCKED` passes over rows that another transaction
holds, so that in the model an attempt may claim any candidate. `activate()` and `resume()`
have the same guard and the same effect and are one action. `claim_owner` is
written and never read, so it is left out. `run_now()` works on other tables:
it neither claims nor advances, and its execution rows have no due boundary.

### `ValidationExecution`

| In the model | In the code |
|---|---|
| `row` | row of `validation_executions` with its steps and the flag |
| `mem` | the aggregate in `create_and_run()` |
| `pc`, `i`, `hardStop`, `triggered`, `ingested` | where the runner is, and the local variables of `_run_steps()` |
| `outbox`, `seq` | the `_emit()` calls the runner awaits before it goes on, and the sequence number read by the one in progress |
| `events` | rows of `validation_execution_events` |
| `canceller[c]` | one `cancel()` request: flag and save, then its own `_emit()` |
| `auth` | what the policy engine answers; it may be revoked once, at any time |
| `lateStarts`, `unauthorized`, `revokedEarly` | history variables for the properties |
| `Create` ... `Start` | `create_and_run()`: save and emit after each transition, both gates, preflight, plan |
| `SkipStep` ... `RecordStep` | one iteration of `_run_steps()`: hard stop, cancellation check, adaptive gate, dispatch, outcome, expansion, record |
| `LoopEnds`, `Finish` | correlation, `finish()` |
| `EmitRead`, `EmitAppend`, `EmitCollides` | `next_sequence()`, `append()`, the unique index |
| `Raise` | any other exception, task cancellation or death of the process |

Three points deserve a word.

* `Save` is `repo.save()`: it replaces status and steps but *ORs* the flag. The
  runner's copy of the flag is never set, so a plain overwrite would lose every
  request; the seeded fault `SaveOverwriting` shows it.
* `cancel()` reads the row `FOR UPDATE` and writes it in the same transaction.
  Between its read and its commit the runner cannot save, so it is one step. If
  the two deadlock, one of them aborts, which is `Raise`.
* What a probe finds is a nondeterministic choice: each step completes or
  fails, the discovery triggers any subset of the adaptive rules. The reporting
  steps have no failing branch in the code and have none here.

The order of the adaptive rules, the step types they want, the three plans and
the limits 12 steps, 8 adaptive steps and 200 events are those of the code.
`timeout()` of a step is never called by the service, and
`total_execution_timeout_seconds` is stored and read by nobody: neither appears.

### `ExecutionLifecycle`

What a reader of the row may rely on: the status moves along a fixed graph, a
request sticks and is accepted only while the execution is open, and `CANCELLED`
is reached only from a running execution somebody asked to cancel. Whoever
carries the execution may be lost (`Abandon`); then the status stays what it is
for ever, since no code takes an open row up again, while a request to cancel it
is still accepted. `ValidationExecution` implements it under the mapping `status <- row.status`,
`requested <- row.cancellation_requested`, `abandoned <- Abandoned` (the runner has
raised and the row is open). The graph is that of the aggregate's
methods. It has two edges that the table in the docstring of `ExecutionStatus`
(`domain/validation_execution/value_objects.py:29-37`) omits, `AUTHORIZED ->
DENIED` and `AUTHORIZED -> FAILED`, and lacks three it lists: no code reaches
`CANCELLED` except from `RUNNING`.

### `Authorization`

| In the model | In the code |
|---|---|
| `status`, `content` | row of `security_authorizations`: status; requester, action classes, scope and window |
| `approvals[a]` | its rows of `authorization_approvals`, oldest first |
| `submit[s]`, `revoke[r]` | a `submit_for_approval()` or `revoke()` that has loaded the aggregate and not committed |
| `eval[e]` | an `evaluate()` call: its `now`, then its answer |
| `Create` | `create()`, with the ownership of every scope entity |
| `SubmitLoad`, `SubmitCommit`, `RevokeLoad`, `RevokeCommit` | read without a lock; transition checked on what was read; save of whatever is there by then |
| `Decide` | `approve()` and `reject()` through `_decide()`: `FOR UPDATE`, newest approval, no self-approval, strong permission for strong classes |
| `EvalStart`, `EvalDecide`, `EvalRecord` | `now` is taken; the candidates are listed and the decision made; the audit entry follows |

Only the service of the API has an ownership checker; `app.py:585` builds the one
of the M14 scheduler without. `EvalDecide` allows for both, and `AllowJustified`
rests on the check of `create()` alone.

`evaluate()` is translated branch by branch: categorical denial, the newest
ACTIVE authorization that covers class and scope, then the newest PENDING one.
The status EXPIRED is never stored: nobody calls `mark_expired()`, and the window
is compared when a decision is made.

### `DriftDetection` and `DriftReconciliation`

`DriftDetection` has no state: which step types cover a rule (`RuleCoverage`),
which conditions a list of steps gives and on which assets (`TargetConditions`,
`ServiceConditions`), which assets `_reconcile()` looks at (`RelatedAssets`), what
a step list re-checked (`Covers`), the service entries of a snapshot (`Services`),
and the comparison, which keeps the last entry of a port (`DetectDrift`).

Two helpers of the processor decide what is reconciled at all.
`_related_asset_ids()` follows the direct relationships of the target's asset;
discovery links target, IP, host and service in a chain, so `RelatedAssets` are
the target and its IP assets. `_asset_ports()` reads `metadata["port"]`, which
nothing writes, so `AssetPort` is `NoPort` for every asset and the branch of
`_resolve_absent_conditions()` for port-scoped rules always continues. Conditions
of services are ingested in the model as in the code, and then neither read nor
resolved; two theorems state that for all outcomes.

The IP assets are taken as linked to the target from the start, as after an
earlier discovery. What M16 finds on an IP asset carries the port as qualifier;
here there is one TLS port for each address, so rule and asset identify it.

| In the model | In the code |
|---|---|
| `conditions[k]` | row of `security_conditions` by (rule, asset): life cycle, first and last observation |
| `snapshots[r]`, `drift` | `validation_state_snapshots`, `security_drift_events` |
| `job[w]` | a scheduled run or a `run_now()`, with its locals |
| `Start`, `Ingest` | `create_and_run()` ends with some step list; each condition found is upserted on its own |
| `IngestElsewhere` | a network run (M16) ingests a TLS condition on an IP asset, `foreign` counts them |
| `ReadBefore`, `Resolve`, `Resolved`, `ReadAfter` | the first half of `_reconcile()`: one read per asset, `_resolve_absent_conditions()` with one resolution per condition, a second read |
| `Build`, `ReadLatest`, `Save` | `build_snapshot_from_execution()` with `captured_at`, the query for the latest, the insert |
| `Report` | the drift events, in a transaction of their own |
| `Abandon` | an exception, a cancelled task or a lost process, anywhere |
| `believed`, `disturbed` | history: what a reader of the feed takes for current; whether reconciliations overlapped or a report was lost |

### `NetworkRun`

| In the model | In the code |
|---|---|
| `row[r]` | row of `network_validation_runs` |
| `exec[r]` | locals of `create_and_run()`: where it is, addresses left to check, addresses allowed, the state of each probe |
| `allowed` | what `evaluate()` answers for an address now |
| `services`, `snapshot`, `captures` | SERVICE assets of the target, the run's snapshot, the order of the `captured_at` stamps |
| `Create` ... `Plan` | create, policy check per address, authorize or deny, start, cancellation check, `build_plan()` |
| `Begin`, `Acquire`, `Reverify`, `Clear`, `Connect`, `Validate` | `_probe()`: deadline, semaphore, authorization again, cancellation again, connect; then, outside the semaphore and unchecked, a second connection for protocol or TLS (on `ValidatedPorts`) and the conditions it shows |
| `Raise`, `Expire`, `Gather`, `Fail` | an exception of a probe, the deadline, `asyncio.gather()`, the FAILED branch |
| `LastCheck`, `Finish`, `Discover`, `Capture`, `SaveSnapshot` | what follows the probes |
| `RequestCancellation`, `Revoke`, `Approve`, `Lose` | the other actors |
| `conditions` | what TLS validation ingested on the IP assets, address by address |
| `past`, `connects`, `validates` | history: the probes past their last look when the request to cancel was committed; those that made their TCP connect after it; those that opened a connection for a validation after it |
| `barred`, `void` | history variables for the other properties |

`gather()` is called without `return_exceptions`, so its first exception leaves
the other probes running; the model lets them run. Each run implements
`ExecutionLifecycle` with `abandoned <- Abandoned(r)` (the run is lost, the row
open) and `requested <- Requested(r)`, the flag unless it was set
on a run already DENIED, which the code's list of terminal statuses omits.

### `NetworkScheduler`

| In the model | In the code |
|---|---|
| `policy[p]` | the row of `network_monitoring_policies`: life cycle, `next_due_at`, `last_scheduled_at`, `claimed_at` |
| `runs`, `ended` | scheduled rows of `network_validation_runs` by (policy, due boundary), which `ux_nvr_policy_due` makes unique; those with a terminal status |
| `attempt[w]` | local variables of one `process_one_due_policy()` call, and where it is |
| `request[o]` | a request on a policy: the row `_get()` read, the aggregate after its transition, the row `save()` read |
| `lost` | history: policies on which a request committed although the row had changed since it was loaded |
| `Create` | `NetworkMonitoringPolicyService.create()` |
| `Load`, `SaveRead`, `SaveWrite`, `Drop` | `activate()`, `pause()`, `resume()`, `disable()`: read in one session, read again in `save()` in another, the UPDATE and its commit; or the request ends without it |
| `Claim` | `claim_one_due_policy()` |
| `Insert`, `Refused`, `Finish`, `Reconcile` | `create_and_run()`: its first save, the index refusing it, its terminal save, what follows |
| `ReleaseAndAdvance`, `ReleaseClaimOnly` | the two post-run transactions, through `_mutate_under_lock` |
| `RunRaises`, `Abandon` | an exception of the run; everything that ends an attempt with the claim in hand |

`save()` assigns all columns of the aggregate to the row it has just read, and
SQLAlchemy puts those into the UPDATE whose value differs from that read. So a
request writes its own value into a column that changed between its two reads,
and leaves alone one that changed after the second: `Merge`. `_mutate_under_lock`
reads `FOR UPDATE` in the session it saves in and is one step.

## 4. The runs

| Run | Expected | Checks | States |
|---|---|---|---|
| `cv_claims` | pass | `TypeOK`, `ClaimExclusive`, `RefinesBoundaryRuns`, `NoSilentSkip`, `BacklogCoalesced`, `DisabledIsFinal`, `DueBoundaryRuns` | 190,652 |
| `cv_retry_lost` | violation | `FailedBoundaryRetried` | |
| `ve_run` | pass | ten properties, `RefinesLifecycle` among them | 1,563,534 |
| `ve_limits` | pass | `EventLogDense`, `RunSettles` | 53,276 |
| `ve_unanswered_cancel` | violation | `CancelObserved` | |
| `az_policy` | pass | `TypeOK`, `StatusMatchesApprovals`, `AllowJustified`, `EndedStaysDenied` | 1,461,945 |
| `dr_feed` | pass | `TypeOK`, `DriftExplained`, `ChangeFeedFaithful`, `AppearedIsNew`, `ResolvedWasRechecked` | 3,580,296 |
| `dr_certificate_missed` | violation | `CertificateChangeReported` | |
| `nr_probes` | pass | `TypeOK`, `CancelStopsProbes`, `RevokedNeverProbed`, `SkippedIsNotApplied`, `EndsQuietly`, `RefinesLifecycle`, `RunSettles` | 32,962 |
| `nr_baseline_blind` | violation | `BaselineRevalidates` | |
| `ns_claims` | pass | `TypeOK`, `RefinesBoundaryRuns`, `ResultBeforeAdvance`, `DisabledIsFinalUnlessLost`, `DueBoundaryRuns` | 352,971 |
| `ns_stuck` | violation | `ScheduleMovesOn` | |

**cv_claims.** One policy, two attempts, two faults, interval 2, lease 1, attempts
that end within the lease (`RunBound = Lease`). The two are equal on purpose:
the lease comparison is strict (`claimed_at < now - lease`) and an off-by-one
there already breaks `ClaimExclusive`. Five ticks hold two full cadences, so that
a backlog, a takeover after a crash and a re-anchored boundary all occur.
`RefinesBoundaryRuns` says more than that a boundary is not run twice at a time:
it has one row and one run in all, and a retry never revives a lost one.

Longer attempts, which lose their claim while they run, are explored in
`ns_claims`, where the same protocol is at work; for this module the theorems
cover them.

**ve_run.** All three plans, any subset of the six adaptive rules, the limits of
the code, one cancel request, a revocation and a runner that may die between any
two steps. Observations are off (`MaxObserved = 0`), they only lengthen the log.

**ve_limits.** Limits small enough to be reached (4 steps, 1 adaptive step, 9
events), one observation per step and two cancel requests that race the runner
for the last sequence numbers. The runner dies only of a collision here.

**az_policy.** Two authorizations whose windows touch (`[0, 1)` and `[1, 2)`, so
that a closed interval would allow too much), one over a foreign entity that
`create()` refuses, an ordinary and a strong action
class and a categorically denied one, three users of whom two may approve strong
classes, two submissions that race, a revocation and an evaluation.

**dr_feed.** Three runs of one policy by two workers, and one observation by a
network run. A handshake finds an expired certificate, finds it in order, or
fails: the cases in which the condition on the target's asset is observed, is
resolved, and must be left alone. The network run puts the same rule on the IP
asset, where the M14 runs read, report and resolve it. `disturbed` is false in the runs where nothing overlaps and no report is lost; only those
owe `ChangeFeedFaithful` and `AppearedIsNew`. `DriftExplained` and
`ResolvedWasRechecked` hold in all of them.

**nr_probes.** Two probes of a TLS port and a semaphore of one, so that one of
them waits while the other is between its checks and its connection, and both may
be past the semaphore with a handshake still to make: more validations than
places.

**ns_claims.** One policy, two attempts, one request after the other, one fault,
a lease shorter than an attempt (`Lease = 0`, `RunBound = 1`): a claim may be
taken over while its run goes on, a request that loaded the row before a claim
clears that claim, one that loaded it during a run brings the claim back after
the release. `RefinesBoundaryRuns`, `ResultBeforeAdvance` and `DueBoundaryRuns` hold
nevertheless; `DisabledIsFinalUnlessLost` is owed by policies no such request has
touched.

**The violations** are disagreements between a comment or a document and the
code. In each of them the property says what the comment says. The run shows one
counterexample; a theorem says how far the disagreement goes.

* `cv_retry_lost`: "the SAME boundary is retried". The execution row is
  committed before anything can fail, so the retry meets the index, is taken
  for a double claim, and the schedule advances without a result. By
  `LostBoundariesStayLost` no such boundary ever gets one.
* `ve_unanswered_cancel`: "the running loop observes this flag". If the event of
  the request takes the number the runner had read, the runner dies of an
  `IntegrityError`, the row stays open, and the cancellation never happens. The
  same exception, in a scheduled run, is read as a double claim
  (`processor.py:136`): that is `RunRaisesIntegrityError` in the scheduler. By
  `AbandonedStaysOpen` no later request settles the row either.
* `dr_certificate_missed`: "TLS certificate drift only when BOTH sides genuinely
  validated TLS". Both did, but the services are keyed by port and the HTTP
  entry of port 443 has replaced the TLS entry. By `HiddenHandshakesReportNothing`
  a target whose handshakes are all followed by an HTTP step never has a
  certificate reported; by `SingleEntriesReportCertificates` nothing is missed
  where a port has one entry, so the shared key is the only cause.
* `nr_baseline_blind`: "revalidate previously-known services only (this
  authorized target's own current AIAsset SERVICE inventory)". The plan is made
  from the policy's own last snapshot; a new baseline policy has none, plans
  nothing and saves an empty snapshot, for ever: `BaselineStaysBlind`.
* `ns_stuck`: the M16 processor is said to mirror the discipline of M14's. It has
  one `except` branch where M14 has two: a run that raised after its insert is
  retried, the index refuses the row, the claim is released, the boundary stays,
  and so on without end. One fault suffices to end the monitoring of a policy,
  until a request sets another boundary: `StuckUntilReanchored`.

### Bounds

`MaxClock`, `MaxFaults` and `RunBound` bound the schedulers; `MaxObserved` bounds
what one step reports; `MaxAuthorizations`, `MaxApprovals` and `MaxClock` bound
the authorizations; `MaxRuns` and `MaxForeign` bound the reconciliations and the
observations of network runs beside them; the network model is
finite by its sets. The limits of the execution and of the plan are the code's
own. Three guards of the schedulers exist because modelled time ends: `Activate` is
not taken at the last instant, and a fault, or the `Load` of a request, happens
only while the claim it leaves or brings back can still expire. The safety theorems below hold for all values of these
constants. Interchangeable actors (submissions, workers of `dr_feed`)
use symmetry; the runs with a liveness property do not.

`CHECK_DEADLOCK FALSE`: an execution ends, a network run ends, a set of modelled
requests is used up, and modelled time ends.

### Fairness

Both schedulers: weak fairness of `Claim(w)` and `Proceed(w)` for each attempt and of
`Tick`. The worker polls for as long as the process lives and an attempt awaits
its run. A crashed attempt is back idle, as the next poll or another process is.
Operators and faults are not fair.

Execution: weak fairness of the runner. It is an awaited coroutine, each of
its network steps has a time-out of its own, and every other statement is a
database call. Cancel requests and revocations owe nothing.

Network run: weak fairness of the run's own steps and strong fairness of each
probe. A probe that waits for the semaphore is enabled whenever a place is free
and disabled again when a sibling takes it; `asyncio.Semaphore` serves its
waiters in order and every call inside has a time limit, so each is served.

Authorization and reconciliation state safety only and assume no fairness.

## 5. The proofs

The theorems are proved for all sets of policies, attempts, requests, users,
workers, runs, addresses and ports and all values of the bounds, from these
assumptions: intervals are positive; bounds are naturals; the plans, rules and
profiles in use are among those of the code; the limits for steps, events and
concurrency are positive; a network plan has finitely many addresses and ports;
contents, requests and outcomes have the fields the code gives them.

### Scheduler

| Theorem | Property | Argument |
|---|---|---|
| `TypeCorrect`, `BoundariesRunOnce` | `TypeOK` | inductive together: a finishing run closes a row that exists because running attempts have one each |
| `ClaimsAreExclusive` | `ClaimExclusive` | `ClaimInv`, below |
| `DisabledStaysDisabled` | `DisabledIsFinal` | per action; every post-run write goes through `_mutate_under_lock` |
| `NoBoundaryIsSkipped` | `NoSilentSkip` | `RunRecorded`: from the insert, or from the collision on, the boundary has a row |
| `BacklogIsCoalesced` | `BacklogCoalesced` | `advance_schedule` lands after `now` and passes nothing that is still ahead: a fact about integer division |
| `ImplementsBoundaryRuns` | `RefinesBoundaryRuns` | every step begins, ends or loses one run or leaves the boundaries alone; `OneRunPerBoundary` makes the run that ends the only one of its boundary; `DuePassed`: attempts work on boundaries that have come |
| `LostBoundariesStayLost` | | the refinement and `OrphansAreForever` of `BoundaryRuns` |
| `ClaimsAreLeases` | | `ClaimsPast`: no claim lies in the future, so a due policy that cannot be claimed was claimed within the last `Lease` ticks, whoever has died since |

`ClaimExclusive` is not inductive. That no second attempt can claim a policy under
work needs that its row still carries the first attempt's claim, unless it is
disabled (`HoldsClaim`), and that this claim is no older than `RunBound`
(`WithinBound`). Pausing keeps the claim, disabling clears it for good: both
cases are in the invariant.

### Execution

| Theorem | Property | Argument |
|---|---|---|
| `TypeCorrect` | `TypeOK` | with `EmissionOK`: whoever holds a sequence number has an event for it, and the log is finite |
| `TerminalRowsAreFinal` | `TerminalIsFinal` | `ControlOK`: the saved status is the one in memory and follows from `pc` |
| `ImplementsLifecycle` | `RefinesLifecycle` | each step moves along an edge, abandons the row or stutters, from `ControlOK` |
| `ExecutionKeepsContract` | | a move of `ExecutionLifecycle` is a move of `BoundaryRuns` for one boundary: the insert begins it, a terminal status ends it, abandonment loses it |
| `AbandonedStaysOpen` | | without a runner nobody saves status or steps; a cancel request only sets the flag |
| `CancelIsPrompt` | `CancelWindow` | `CancelInv`: whoever is between check and dispatch has no late start yet |
| `RevocationIsPrompt` | `RevocationWindow` | `RevocationInv`, in the same way for the adaptive gate |
| `GatesHold` | `EarlyRevocationBlocks` | `GateInv`: no plan before the second gate, no way past it without authorization |
| `LogIsDense` | `EventLogDense` | `LogInv`: a number in anybody's hands is at most one beyond the log |
| `PlanIsBounded`, `StepTypesDistinct` | `PlanBounded`, `NoDuplicateStepType` | `PlanInv`: the plan in memory and the one in the row are both within the limits and without a repeated type; expansion keeps that, all else leaves types alone |
| `TerminalRowsAreSettled`, `CompletedIsComplete` | `TerminalSettled`, `CompletedMeansAll` | `ProgressInv`, below |
| `SavedResultsAreFinal` | `ResultsAreFinal` | a result in the row is the one in memory, and in memory only the step at the index changes |
| `AnnouncementsAreTrue` | `AnnouncedIsSaved` | `AnnounceInv`: what is in the log, in the outbox or in the hands of a cancel request is true of the row, and stays so |
| `EveryRunnerStepIsProgress`, `RunIsBounded` | | the measure `<<Rank, Pending>>`, below |

None of the properties of plan, steps and announcements is inductive. `ProgressInv` says where
every step of the plan is: behind the index it has ended, at the index its status
follows from `pc`, ahead of it is pending; a skipped step means a hard stop, and
a hard stop a failed step, which is what `finish()` looks at.

`Rank` bounds the statements the runner still has in front of it and `Pending`
those of the events it has not written yet. The loop runs over a list that grows
under it: seven units per place between the index and `max_steps` pay for an
iteration, and one unit per free place of the plan pays for an added step. Every
step of the runner lowers the pair, nobody else touches it, and `Rank` starts
within `8 * max_steps + 12`. A runner that is fair and never without a next
statement, which TLC checks, therefore comes to its end: `RunSettles`.

### Authorization

| Theorem | Property | Argument |
|---|---|---|
| `AuthorizationsWellTyped` | `TypeOK` | what a submission or revocation has loaded exists |
| `ApprovalHistory` | `StatusMatchesApprovals` | every action, stale commits included |
| `GateIsSound` | `AllowJustified` | `ApprovalsProper`: an approval row that says yes names somebody other than the requester, strong enough for the content, and content never changes; `ScopeOwned`: every scope passed the check of `create()` |
| `EndedIsDenied` | `EndedStaysDenied` | `EndedOK`: what had ended at the start of the evaluation is terminal still, or its approval rows have grown past a decided one |
| `DecidedForGood` | `DecisionsImmutable` | per action |
| `EndIsFinalIfSerialized` | | `EndIsFinal` for one submission at a time: `LoadedIsCurrent`, what it loaded is still a draft when it commits, and a late `revoke()` only meets an active or revoked row |

### Reconciliation

The invariants come in layers, each proved on top of the one before: `Typed`;
`AllRecheck`, the rule of what a job is about to resolve was evaluated by its run;
`Identity`, a run belongs to one job, an unused run has left nothing, a report
is a difference from a committed snapshot; `Dates`, a stamp of a snapshot is later
than the first observation of all it contains; `Serial`, while nothing is disturbed
one job writes at a time, its baseline is the latest snapshot, and the reader of
the feed believes just that.

| Theorem | Property |
|---|---|
| `ReconciliationWellTyped` | `TypeOK` |
| `NoFalseResolution` | `ResolvedWasRechecked` |
| `ReportsAreDifferences` | `DriftExplained` |
| `FeedIsFaithful` | `ChangeFeedFaithful` |
| `AppearedWasNeverSeen` | `AppearedIsNew` |
| `ServiceConditionsUnseen` | no condition of a service is in a snapshot, and so in no report |
| `ServiceConditionsNeverResolved` | an active condition of a service stays active, whatever the runs find |
| `SingleEntriesReportCertificates` | `CertificateChangeReported`, where a port has one entry at most |
| `HiddenHandshakesReportNothing` | no drift of a certificate at all, where the last entry of a port never has a fingerprint |

The two about services rest on `AllRelated`: whatever a job has read, is about to
resolve or puts into a snapshot is a condition of a related asset.

The last two need `Typed` only: what a job compares are the service lists of two
outcomes, and the comparison sees the last entry of each port
(`CertificateDrift`). Their hypotheses are about the outcomes of runs: those of
both runs satisfy the second, those of a target that answers the handshake and
not the HTTP request satisfy the first.

### Network run

| Theorem | Property | Argument |
|---|---|---|
| `RunsWellTyped` | `TypeOK` | with `InStep`: status and phase of a run agree |
| `PartialResultsDropped` | `SkippedIsNotApplied` | `SkipsSeen`: a skipped probe proves a request, and the last check saw it or will |
| `NoOrphans` | `EndsQuietly` | `ProbesInStep`: before the plan no probe exists, after `gather()` none moves |
| `NoRevokedProbe` | `RevokedNeverProbed` | `BarredOK`: a barred probe has not asked again yet, and would be refused |
| `CancelBounded` | `CancelStopsProbes` | `StopOK`: late TCP connects and probes already cleared share the places of the semaphore; late connections of either kind, and probes that may still make one, are among those past their last look |
| `RunImplementsLifecycle` | `RefinesLifecycle` | each step of the row is an edge, its loss or a stutter |
| `RunsKeepContract` | | each life cycle as above; no step moves the rows of two runs (`OneRunMoves`) |
| `RunsGoForward` | | `Forward`: the phase of a run goes down, or within a phase its unchecked addresses, its deadline or the state of a probe, and none of them ever goes up |
| `BaselineStaysBlind` | | `Blind`: no snapshot has a port, so no plan has a probe, so no snapshot gets one |

### Network scheduler

| Theorem | Property | Argument |
|---|---|---|
| `SchedulerWellTyped`, `BoundariesProbedOnce` | `TypeOK` | inductive together; policy rows do not matter, the index is enough |
| `ClaimsExcludeUnlessLost` | `ClaimExclusive` | `ClaimInv` of the M14 scheduler, for policies outside of `lost`: there a save writes the transition of the current row (`SaveEffect`) |
| `DisabledStaysUnlessLost` | `DisabledIsFinalUnlessLost` | `RequestsLegal`: a request in flight changes what it loaded along a legal edge, and none leaves DISABLED |
| `AdvancesHaveResults` | `ResultBeforeAdvance` | `ResultKept`: an attempt past its terminal save has its boundary in `ended` |
| `NetworkImplementsBoundaryRuns` | `RefinesBoundaryRuns` | as in M14: what a request writes back decides what is claimed, and the index what is run |
| `LostProbesStayLost` | | the refinement and `OrphansAreForever` |
| `StuckUntilReanchored` | | `Stuck`: the row of the boundary exists and every attempt on the policy has failed or is about to be refused |
| `NetworkClaimsAreLeases` | | what a request brings back was a claim once, so it lies in the past too |

### Only model-checked

Both `DueBoundaryRuns` and both `RunSettles`: liveness under fairness is beyond the
prover. What is proved of them is their safety core. For the two `RunSettles` it
is a measure that every step of a run lowers and no other step raises
(`EveryRunnerStepIsProgress`, `RunsGoForward`); what stays with TLC is that some
step is enabled until the run has ended. For the two `DueBoundaryRuns` it is that
no claim outlives its lease (`ClaimsAreLeases`, `NetworkClaimsAreLeases`). The
five violations are counterexamples; for the extent of each there is a theorem,
named with it above. Every other property of a passing run is a theorem.

More than the runs check is stated by the theorems without a property in the
tables, by `TerminalRowsAreFinal`, `PlanIsBounded`, `DecidedForGood` and
`ClaimsExcludeUnlessLost`, and, through the constants, by
`ImplementsBoundaryRuns` for attempts of M14 that outlive their lease.

## 6. What is not modelled, and what reading the code showed

Left out of the modelled parts:

* The contents of evidence, payloads, time stamps of executions and wording of
  events; the events that report findings are one kind, "observed".
* Sockets, TLS, DNS and HTTP: their outcome is a choice.
* Which correlations are active, titles and severities of conditions, the audit
  log of the policy engine, edits of a policy's target.
* Recovery of an execution whose runner died: there is no such code. The row
  stays open, possibly with a running step (`AbandonedStaysOpen`). The safety
  properties hold in those states too; the two `RunSettles` exclude them by name.
* The drift comparison of M16, a copy of M14's, and the M16 event logs.
* Composition of the parts into one state machine (plan, row 7): each is checked
  against every behaviour of its neighbours that the neighbours' code allows. That
  the schedulers allow for all that a run does to its row is a theorem
  (`ExecutionKeepsContract`, `RunsKeepContract`); the answers of the authorization
  engine are arbitrary in both kinds of run.
* The other contexts, which are most of the repository's lines: request-scoped
  aggregates, catalogues, parsers, scoring and report code, the frontend and
  generators, for the reasons in `PROJECT.json`. The map therefore covers a small
  share of the repository and most of the validation pipeline.

Observations that are not runs of their own:

* Provisos. Where the code does go wrong, a property that holds has to except
  it; the hazard is then described here and not caught by the property.
  `NoSilentSkip` excepts a boundary moved while its run is in flight,
  `EndedStaysDenied` a late submission that was approved and a revocation between
  read and record, `ChangeFeedFaithful` and `AppearedIsNew` overlapping
  reconciliations and lost reports (of which `DriftExplained` says only that each
  report has one baseline, services not included), `EndsQuietly` FAILED runs,
  `DisabledIsFinalUnlessLost` policies over which a stale copy was saved.
* Scheduler. A policy paused and resumed while its run is in flight is not
  checked now, as the comment on `resume()` says: the end of that run advances
  the boundary the resume created.
* Execution. A request committed between a step's check and its dispatch lets
  that step start, against the comment at `entity.py:281-283`; `CancelWindow`
  says that this concerns one step. Conditions of the header check do not count
  for the correlation at the end of a run.
* Authorization. `entity.py` says "REJECTED and EXPIRED are terminal. There is no
  transition back". A submission that loaded the draft, and commits after another
  one was submitted and decided, puts the row back to PENDING_APPROVAL. The
  theorem `EndIsFinalIfSerialized` shows that the missing lock is the only way to
  that. The newest ACTIVE authorization that covers a request decides
  it even outside its window, so it can shadow an older valid one; a second
  revocation that loaded in time succeeds too; `evaluated_at` is later than the
  `now` the decision used; candidates beyond the first 1000 are not seen.
* Reconciliation. Overlapping runs report the same drift twice and break the
  feed. A condition another run has seen since may be resolved from a stale
  read. A completed M14 handshake, made with the target's own port, resolves the
  TLS conditions M16 found on an IP asset, whatever port they are about. Conditions
  of services (`SENSITIVE_SERVICE_OBSERVED`, `PLAINTEXT_SENSITIVE_SERVICE_OBSERVED`)
  are never read, reported or resolved by `_reconcile()`: their assets are not
  directly related to the target, and the port `_asset_ports()` is said to read
  back ("Each SERVICE asset's own port, read back from the metadata", `processor.py:284`) is
  never written, so port-scoped resolution is dead code
  (`ServiceConditionsUnseen`, `ServiceConditionsNeverResolved`). A job lost between the snapshot and the report loses the report for good.
  Denied and failed runs save an empty snapshot, and everything "is no longer
  reachable". A header fetch that failed completes its step and counts as a check
  of the headers. The M14 report says that reactivation stamps a fresh
  `first_observed_at`; `upsert()` does not, and `AppearedIsNew` depends on that.
* Network run. TLS handshakes and protocol validators open a connection of their
  own, outside the semaphore and without another look for a cancellation
  (`orchestrator.py:387-414`): how many follow a request is bounded by the probes
  past their last look, not by `MAX_CONCURRENCY`. The TLS conditions they ingest
  (`orchestrator.py:405-409`) stay although the run is cancelled. The deadline is checked before the semaphore is awaited and not
  after. An exception of one probe leaves its siblings running after the row is
  FAILED. Probes dropped by a revocation or the deadline do not keep a run from
  being COMPLETED, nor its snapshot from reporting their services as vanished.
  A request between the last check and the final save is not honoured. The bound
  of 20 ports is never met, the profiles have 14 at most.
* Network scheduler. "DISABLED is terminal - it must never silently reactivate",
  says `PolicyLifecycle`. A pause or resume that loaded the policy before
  `disable()` committed puts its own life cycle back, and nothing else can:
  `DisabledStaysUnlessLost`. In the same way it may clear the claim of a run in
  flight: `ClaimsExcludeUnlessLost`. The most overdue policy that is not locked is claimed first,
  and a stuck one (`ns_stuck`) stays the most overdue: with as many of them as
  attempts in a cycle, no other policy is claimed. As in M14, a policy paused and resumed
  during its run has the new boundary advanced away by the end of that run.

## 7. Running it

    tlc -workers 2 -config ContinuousValidationHealthy.cfg MCContinuousValidation
    tlc -workers 2 -config NetworkRunProbes.cfg MCNetworkRun
    tlapm ValidationPlanProofs.tla

Each run of `PROJECT.json` names its module and configuration. The longest takes
about two and a half minutes with two workers; the proofs are some 7,800 obligations in eight
modules.
