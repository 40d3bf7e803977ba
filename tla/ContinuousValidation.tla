------------------------ MODULE ContinuousValidation ------------------------
(***************************************************************************)
(* The continuous-validation scheduler (M14).                              *)
(*                                                                         *)
(* Scheduler attempts (the concurrent process_one_due_policy() calls of    *)
(* every ContinuousValidationSchedulerWorker of every server process)      *)
(* claim due policies, run a validation for the due boundary, reconcile it *)
(* and move the schedule on, while operators activate, pause, resume and   *)
(* disable the same policies.  The policy row and the scheduled rows of    *)
(* validation_executions live in PostgreSQL; every action below is one     *)
(* committed transaction, or the point where an attempt learns its outcome.*)
(*                                                                         *)
(* claim_owner is not modelled: it is written and cleared together with    *)
(* claimed_at and no code reads it.                                        *)
(***************************************************************************)
EXTENDS Integers, FiniteSets

CONSTANTS
  Policies,    \* ContinuousValidationPolicy ids
  Workers,     \* concurrent scheduler attempts, over all processes
  Interval,    \* cadence_interval_seconds of each policy, in clock ticks
  Lease,       \* CLAIM_LEASE_SECONDS, in clock ticks
  RunBound,    \* ticks an attempt may take from its claim to its release
  MaxClock,    \* bound: last modelled instant
  MaxFaults    \* bound: faults (exceptions, crashes, stops) in a behaviour

ASSUME IntervalAssumption == Interval \in [Policies -> Nat \ {0}]
ASSUME BoundsAssumption == /\ Lease \in Nat
                           /\ RunBound \in Nat
                           /\ MaxClock \in Nat
                           /\ MaxFaults \in Nat

VARIABLES
  clock,       \* utc_now()
  policy,      \* continuous_validation_policies: one row per policy
  executions,  \* scheduled rows of validation_executions, <<policy, due>>
  terminal,    \* those of them whose run reached a terminal status
  attempt,     \* local state of each scheduler attempt
  faults       \* faults so far (bounds the model only)

vars == <<clock, policy, executions, terminal, attempt, faults>>

NoTime == -1   \* a NULL timestamp

Lifecycles == {"absent", "draft", "active", "paused", "disabled"}

Times == Nat \cup {NoTime}

PolicyRow == [lifecycle : Lifecycles, next_due_at : Times,
              last_scheduled_at : Times, claimed_at : Times]

(* Where an attempt is: claimed (claim committed, create_and_run called),  *)
(* running (its execution row is inserted), ran (create_and_run returned), *)
(* reconciled, collided (create_and_run raised IntegrityError), failed (it *)
(* raised anything else).                                                  *)
Stages == {"idle", "claimed", "running", "ran", "reconciled", "collided", "failed"}

Idle == [stage |-> "idle"]

BusyAttempt == [stage : Stages \ {"idle"}, policy : Policies, due : Nat, now : Nat]

TypeOK ==
  /\ clock \in Nat
  /\ policy \in [Policies -> PolicyRow]
  /\ executions \subseteq Policies \X Nat
  /\ terminal \subseteq executions
  /\ attempt \in [Workers -> {Idle} \cup BusyAttempt]
  /\ faults \in Nat

Busy(w) == attempt[w].stage # "idle"

Boundary(w) == <<attempt[w].policy, attempt[w].due>>

-----------------------------------------------------------------------------
(* The aggregate's transitions (domain/continuous_validation).             *)

LegalTransition(from, to) ==
  CASE to = "active"   -> from \in {"draft", "paused"}
    [] to = "paused"   -> from = "active"
    [] to = "disabled" -> from \in {"draft", "active", "paused"}
    [] OTHER           -> FALSE

(* Seeded fault: one interval at a time, the backlog is not coalesced.     *)
AdvanceScheduleOneInterval(row, interval, now) ==
  IF row.next_due_at = NoTime
  THEN row
  ELSE [row EXCEPT !.next_due_at = @ + interval, !.last_scheduled_at = now]

(* advance_schedule: one jump over every missed interval, never a loop.    *)
AdvanceSchedule(row, interval, now) ==
  LET elapsed == now - row.next_due_at
      missed  == IF elapsed >= 0 THEN elapsed \div interval ELSE 0
  IN  IF row.next_due_at = NoTime
      THEN row
      ELSE [row EXCEPT !.next_due_at = @ + (missed + 1) * interval,
                       !.last_scheduled_at = now]

ReleaseClaim(row) == [row EXCEPT !.claimed_at = NoTime]

-----------------------------------------------------------------------------
(* Operators: ContinuousValidationPolicyService.  _transition() holds the  *)
(* row lock from its read to its commit, so each is one step.              *)

Create(p) ==
  /\ policy[p].lifecycle = "absent"
  /\ policy' = [policy EXCEPT ![p].lifecycle = "draft"]
  /\ UNCHANGED <<clock, executions, terminal, attempt, faults>>

(* activate() and resume(): the same guard (the table admits ACTIVE from   *)
(* DRAFT and from PAUSED for both verbs) and the same effect.  Not at the  *)
(* last modelled instant, where time no longer tells two boundaries apart. *)
Activate(p) ==
  /\ clock < MaxClock
  /\ LegalTransition(policy[p].lifecycle, "active")
  /\ policy' = [policy EXCEPT ![p].lifecycle = "active", ![p].next_due_at = clock]
  /\ UNCHANGED <<clock, executions, terminal, attempt, faults>>

Pause(p) ==
  /\ LegalTransition(policy[p].lifecycle, "paused")
  /\ policy' = [policy EXCEPT ![p].lifecycle = "paused"]
  /\ UNCHANGED <<clock, executions, terminal, attempt, faults>>

Disable(p) ==
  /\ LegalTransition(policy[p].lifecycle, "disabled")
  /\ policy' = [policy EXCEPT ![p].lifecycle = "disabled", ![p].claimed_at = NoTime]
  /\ UNCHANGED <<clock, executions, terminal, attempt, faults>>

-----------------------------------------------------------------------------
(* Scheduler attempts: ContinuousValidationProcessor.                      *)

(* Seeded fault: the lease comparison is off by one.                       *)
ClaimableAtLeaseEnd(p) ==
  /\ policy[p].lifecycle = "active"
  /\ policy[p].next_due_at # NoTime
  /\ policy[p].next_due_at <= clock
  /\ policy[p].claimed_at = NoTime \/ policy[p].claimed_at <= clock - Lease

(* Seeded fault: an expired claim is never taken over.                     *)
ClaimableOnlyUnclaimed(p) ==
  /\ policy[p].lifecycle = "active"
  /\ policy[p].next_due_at # NoTime
  /\ policy[p].next_due_at <= clock
  /\ policy[p].claimed_at = NoTime

(* The WHERE clause of claim_one_due_policy's UPDATE.                      *)
Claimable(p) ==
  /\ policy[p].lifecycle = "active"
  /\ policy[p].next_due_at # NoTime
  /\ policy[p].next_due_at <= clock
  /\ \/ policy[p].claimed_at = NoTime
     \/ policy[p].claimed_at < clock - Lease

(* The claim commits alone: the row is free again during the whole run.    *)
(* The query orders by next_due_at, but SKIP LOCKED passes over a row that *)
(* any transaction has locked: every claimable policy may be the one.      *)
Claim(w) ==
  /\ ~Busy(w)
  /\ \E p \in Policies :
       /\ Claimable(p)
       /\ policy' = [policy EXCEPT ![p].claimed_at = clock]
       /\ attempt' = [attempt EXCEPT ![w] = [stage |-> "claimed", policy |-> p,
                                             due |-> policy[p].next_due_at, now |-> clock]]
  /\ UNCHANGED <<clock, executions, terminal, faults>>

Become(w, stage) == attempt' = [attempt EXCEPT ![w].stage = stage]

(* Seeded fault: the partial unique index is missing.                      *)
CreateExecutionUnindexed(w) ==
  /\ attempt[w].stage = "claimed"
  /\ executions' = executions \cup {Boundary(w)}
  /\ Become(w, "running")
  /\ UNCHANGED <<clock, policy, terminal, faults>>

(* create_and_run's first _save(): inserts the row of this boundary, or    *)
(* meets ux_validation_executions_policy_due.                              *)
CreateExecution(w) ==
  /\ attempt[w].stage = "claimed"
  /\ Boundary(w) \notin executions
  /\ executions' = executions \cup {Boundary(w)}
  /\ Become(w, "running")
  /\ UNCHANGED <<clock, policy, terminal, faults>>

BoundaryTaken(w) ==
  /\ attempt[w].stage = "claimed"
  /\ Boundary(w) \in executions
  /\ Become(w, "collided")
  /\ UNCHANGED <<clock, policy, executions, terminal, faults>>

(* Seeded fault: the result is filed under the instant of the claim        *)
(* instead of the due boundary.                                            *)
FinishRunAtClaimTime(w) ==
  /\ attempt[w].stage = "running"
  /\ terminal' = terminal \cup {<<attempt[w].policy, attempt[w].now>>}
  /\ Become(w, "ran")
  /\ UNCHANGED <<clock, policy, executions, faults>>

(* The last save of create_and_run: its row is DENIED, FAILED, CANCELLED,  *)
(* COMPLETED or PARTIALLY_COMPLETED.  Its event is still to be appended.   *)
FinishRun(w) ==
  /\ attempt[w].stage = "running"
  /\ terminal' = terminal \cup {Boundary(w)}
  /\ Become(w, "ran")
  /\ UNCHANGED <<clock, policy, executions, faults>>

Reconcile(w) ==
  /\ attempt[w].stage = "ran"
  /\ Become(w, "reconciled")
  /\ UNCHANGED <<clock, policy, executions, terminal, faults>>

Return(w) == attempt' = [attempt EXCEPT ![w] = Idle]

(* Seeded fault: the freshly read row is not checked for DISABLED.         *)
MutateUnchecked(p, newRow) == policy' = [policy EXCEPT ![p] = newRow]

(* _mutate_under_lock: re-reads the row FOR UPDATE, leaves a DISABLED one  *)
(* alone.                                                                  *)
MutateUnderLock(p, newRow) ==
  policy' = IF policy[p].lifecycle = "disabled"
            THEN policy
            ELSE [policy EXCEPT ![p] = newRow]

ReleaseAndAdvance(w) ==
  /\ attempt[w].stage \in {"reconciled", "collided"}
  /\ LET p == attempt[w].policy
     IN  MutateUnderLock(p, ReleaseClaim(AdvanceSchedule(policy[p], Interval[p], attempt[w].now)))
  /\ Return(w)
  /\ UNCHANGED <<clock, executions, terminal, faults>>

ReleaseClaimOnly(w) ==
  /\ attempt[w].stage = "failed"
  /\ LET p == attempt[w].policy IN MutateUnderLock(p, ReleaseClaim(policy[p]))
  /\ Return(w)
  /\ UNCHANGED <<clock, executions, terminal, faults>>

-----------------------------------------------------------------------------
(* Faults.  MaxFaults bounds their number; a fault happens early enough    *)
(* that a claim it leaves behind can expire within the modelled time.      *)

Fault ==
  /\ faults < MaxFaults
  /\ clock + Lease < MaxClock
  /\ faults' = faults + 1

(* Seeded fault: any exception is taken for a claim collision.             *)
RunRaisesAsCollision(w) ==
  /\ attempt[w].stage \in {"claimed", "running"}
  /\ Fault
  /\ Become(w, "collided")
  /\ UNCHANGED <<clock, policy, executions, terminal>>

(* create_and_run raises something other than IntegrityError, before it    *)
(* inserted the execution row, after that (nothing closes the row) or,     *)
(* with its last event, after the row was closed.                          *)
RunRaises(w) ==
  /\ attempt[w].stage \in {"claimed", "running", "ran"}
  /\ Fault
  /\ Become(w, "failed")
  /\ UNCHANGED <<clock, policy, executions, terminal>>

(* create_and_run raises an IntegrityError of its own after the insert:    *)
(* ux_validation_event_sequence when a concurrent cancel() appends the     *)
(* same event sequence number first.                                       *)
RunRaisesIntegrityError(w) ==
  /\ attempt[w].stage \in {"running", "ran"}
  /\ Fault
  /\ Become(w, "collided")
  /\ UNCHANGED <<clock, policy, executions, terminal>>

(* The attempt ends without touching the claim: _reconcile() or the        *)
(* release transaction raises, stop() cancels the task (CancelledError is  *)
(* no Exception), or the process dies.                                     *)
Abandon(w) ==
  /\ Busy(w)
  /\ Fault
  /\ Return(w)
  /\ UNCHANGED <<clock, policy, executions, terminal>>

(* Time passes; no attempt outlives RunBound.                              *)
Tick ==
  /\ clock < MaxClock
  /\ \A w \in Workers : Busy(w) => clock < attempt[w].now + RunBound
  /\ clock' = clock + 1
  /\ UNCHANGED <<policy, executions, terminal, attempt, faults>>

-----------------------------------------------------------------------------
Init ==
  /\ clock = 0
  /\ policy = [p \in Policies |-> [lifecycle |-> "absent", next_due_at |-> NoTime,
                                   last_scheduled_at |-> NoTime, claimed_at |-> NoTime]]
  /\ executions = {}
  /\ terminal = {}
  /\ attempt = [w \in Workers |-> Idle]
  /\ faults = 0

Operator(p) == Create(p) \/ Activate(p) \/ Pause(p) \/ Disable(p)

(* What an attempt does by itself after its claim.                         *)
Proceed(w) ==
  \/ CreateExecution(w) \/ BoundaryTaken(w) \/ FinishRun(w) \/ Reconcile(w)
  \/ ReleaseAndAdvance(w) \/ ReleaseClaimOnly(w)

Next ==
  \/ \E p \in Policies : Operator(p)
  \/ \E w \in Workers : \/ Claim(w)
                        \/ Proceed(w)
                        \/ RunRaises(w)
                        \/ RunRaisesIntegrityError(w)
                        \/ Abandon(w)
  \/ Tick

(* The poll loop claims again and again while something is due, a claimed  *)
(* run is awaited to its end, and time passes.  Operators owe nothing.     *)
Fairness ==
  /\ \A w \in Workers : WF_vars(Claim(w)) /\ WF_vars(Proceed(w))
  /\ WF_vars(Tick)

Spec == Init /\ [][Next]_vars /\ Fairness

-----------------------------------------------------------------------------
(* Properties.                                                             *)

(* As long as every attempt ends within the claim lease, two attempts      *)
(* never work on the same policy at the same time, whatever operators do   *)
(* to it meanwhile and whoever crashed before                              *)
(* (claim_one_due_policy, release_claim).                                  *)
ClaimExclusive ==
  RunBound <= Lease =>
    \A v, w \in Workers :
      Busy(v) /\ Busy(w) /\ attempt[v].policy = attempt[w].policy => v = w

(* Even when attempts outlive their lease and lose their claim, at most    *)
(* one of them is ever between the insert of a boundary's execution row    *)
(* and its end, and that row is still open: no boundary is validated twice *)
(* (ux_validation_executions_policy_due).                                  *)
OneRunPerBoundary ==
  \A w \in Workers : attempt[w].stage = "running" =>
    /\ Boundary(w) \in executions \ terminal
    /\ \A v \in Workers \ {w} :
         attempt[v].stage = "running" => Boundary(v) # Boundary(w)

(* The boundaries whose run is under way.                                  *)
UnderWay == {Boundary(w) : w \in {v \in Workers : attempt[v].stage = "running"}}

R == INSTANCE BoundaryRuns
       WITH Boundaries <- Policies \X (0..MaxClock), rows <- executions,
            results <- terminal, active <- UnderWay

(* Whatever becomes of claims, leases and attempts, a boundary that has    *)
(* come gets at most one row and one run, only that run gives the row its  *)
(* result, and when it is lost nobody ever takes the boundary up again     *)
(* (ux_validation_executions_policy_due, process_one_due_policy).          *)
RefinesBoundaryRuns == R!Spec

(* A DISABLED policy row never changes again: no post-run step of an       *)
(* attempt that was in flight when the operator disabled the policy        *)
(* touches it (_mutate_under_lock, PolicyLifecycle).                       *)
DisabledIsFinal ==
  [][\A p \in Policies :
       policy[p].lifecycle = "disabled" => policy'[p] = policy[p]]_vars

(* A scheduler step moved the schedule of p past its boundary.             *)
Advanced(p) ==
  /\ policy[p].lifecycle = policy'[p].lifecycle
  /\ policy[p].next_due_at # policy'[p].next_due_at

(* The boundary of p is not the one an attempt in flight was claimed for:  *)
(* an operator re-anchored the schedule meanwhile, or the attempt lost its *)
(* claim and another one has advanced it.                                  *)
MovedMidRun(p) ==
  \E w \in Workers : /\ Busy(w)
                     /\ attempt[w].policy = p
                     /\ attempt[w].due # policy[p].next_due_at

(* The schedule moves past a boundary only if a run for it was recorded,   *)
(* unless the boundary moved while a run for an earlier one was in flight  *)
(* (process_one_due_policy).                                               *)
NoSilentSkip ==
  [][\A p \in Policies : Advanced(p) =>
       <<p, policy[p].next_due_at>> \in executions \/ MovedMidRun(p)]_vars

(* A scheduler step takes the schedule past the instant the attempt began, *)
(* so a long backlog is one jump and never a burst of runs, and no farther *)
(* than that takes: the last boundary it passes is the one that was due or *)
(* one that had come by then, so nothing still ahead is skipped            *)
(* (advance_schedule).                                                     *)
BacklogCoalesced ==
  [][\A p \in Policies : Advanced(p) =>
       LET passed == policy'[p].next_due_at - Interval[p]
       IN  /\ policy'[p].next_due_at > policy'[p].last_scheduled_at
           /\ \/ passed <= policy'[p].last_scheduled_at
              \/ passed = policy[p].next_due_at]_vars

(* A due boundary of a policy that stays active is eventually given its    *)
(* execution row, although attempts fail, crash or are stopped with the    *)
(* claim in hand (the lease).                                              *)
DueBoundaryRuns ==
  \A p \in Policies : \A d \in 0..MaxClock :
    (policy[p].lifecycle = "active" /\ policy[p].next_due_at = d /\ d <= clock)
      ~> (\/ <<p, d>> \in executions
          \/ policy[p].next_due_at # d
          \/ policy[p].lifecycle # "active")

(* What the documentation says and the code does not do.                   *)

(* process_one_due_policy(): after a failed run "the SAME boundary is      *)
(* retried": a boundary whose run failed gets a run with a result as long  *)
(* as the policy stays active.                                             *)
FailedBoundaryRetried ==
  \A w \in Workers : \A p \in Policies : \A d \in 0..MaxClock :
    (/\ \E t \in 0..MaxClock :
          attempt[w] = [stage |-> "failed", policy |-> p, due |-> d, now |-> t]
     /\ policy[p].lifecycle = "active"
     /\ policy[p].next_due_at = d)
      ~> (<<p, d>> \in terminal \/ policy[p].lifecycle # "active")
=============================================================================
