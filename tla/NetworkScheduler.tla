-------------------------- MODULE NetworkScheduler --------------------------
(***************************************************************************)
(* The network monitoring scheduler (M16): NetworkMonitoringProcessor and  *)
(* the requests on the policies it serves.                                 *)
(*                                                                         *)
(* The claim, the lease and the release under a row lock are those of M14  *)
(* (ContinuousValidation).  Two things differ.  Whatever create_and_run()  *)
(* raises releases the claim and leaves the boundary where it is, the      *)
(* refusal of ux_nvr_policy_due included.  And a request of an operator    *)
(* reads the policy in one session and saves it in another, without a lock:*)
(* it is a load, the read inside save(), and an UPDATE of the columns that *)
(* differ from that read.                                                  *)
(*                                                                         *)
(* What goes on inside a run is in NetworkRun; run_now() neither claims nor*)
(* advances, and its rows have no due boundary.  claim_owner is written    *)
(* with claimed_at and read by nobody.                                     *)
(***************************************************************************)
EXTENDS Integers, FiniteSets

CONSTANTS
  Policies,    \* NetworkMonitoringPolicy ids
  Workers,     \* concurrent process_one_due_policy() calls, over all processes
  Operators,   \* concurrent activate(), pause(), resume(), disable() requests
  Interval,    \* cadence_interval_seconds of each policy, in clock ticks
  Lease,       \* CLAIM_LEASE_SECONDS, in clock ticks
  RunBound,    \* ticks an attempt may take from its claim to its release
  MaxClock,    \* bound: last modelled instant
  MaxFaults    \* bound: faults (exceptions, crashes, stops) in a behaviour

ASSUME NetworkIntervals == Interval \in [Policies -> Nat \ {0}]
ASSUME NetworkBounds == Lease \in Nat /\ RunBound \in Nat /\ MaxClock \in Nat /\ MaxFaults \in Nat

VARIABLES
  clock,    \* utc_now()
  policy,   \* network_monitoring_policies
  runs,     \* scheduled rows of network_validation_runs, <<policy, due>>
  ended,    \* those of them with a terminal status
  attempt,  \* local state of each process_one_due_policy() call
  request,  \* local state of each operator's request
  lost,     \* history: policies on which a request overwrote, or missed, a
            \*   change committed since it loaded the row
  faults    \* faults so far (bounds the model only)

vars == <<clock, policy, runs, ended, attempt, request, lost, faults>>

NoTime == -1

Times == Nat \cup {NoTime}

Lifecycles == {"absent", "draft", "active", "paused", "disabled"}

PolicyRow == [lifecycle : Lifecycles, next_due_at : Times, last_scheduled_at : Times,
              claimed_at : Times]

(* claimed: create_and_run() called; running: its row is inserted;         *)
(* reconciling: the row is terminal, its results are being applied; ran: it*)
(* returned; failed: it raised.                                            *)
Stages == {"claimed", "running", "reconciling", "ran", "failed"}

Idle == [stage |-> "idle"]

Attempt == [stage : Stages, policy : Policies, due : Nat, now : Nat]

(* loaded: base is the row _get() read, row the aggregate after its        *)
(* transition; saving: save() has read seen.                               *)
Request == [stage : {"loaded", "saving"}, policy : Policies, base : PolicyRow,
            row : PolicyRow, seen : PolicyRow]

TypeOK ==
  /\ clock \in Nat
  /\ policy \in [Policies -> PolicyRow]
  /\ runs \subseteq Policies \X Nat
  /\ ended \subseteq runs
  /\ attempt \in [Workers -> {Idle} \cup Attempt]
  /\ request \in [Operators -> {Idle} \cup Request]
  /\ lost \subseteq Policies
  /\ faults \in Nat

Busy(w) == attempt[w].stage # "idle"

Boundary(w) == <<attempt[w].policy, attempt[w].due>>

Init ==
  /\ clock = 0
  /\ policy = [p \in Policies |-> [lifecycle |-> "absent", next_due_at |-> NoTime,
                                   last_scheduled_at |-> NoTime, claimed_at |-> NoTime]]
  /\ runs = {}
  /\ ended = {}
  /\ attempt = [w \in Workers |-> Idle]
  /\ request = [o \in Operators |-> Idle]
  /\ lost = {}
  /\ faults = 0

-----------------------------------------------------------------------------
(* Operators: NetworkMonitoringPolicyService.                              *)

Create(p) ==
  /\ policy[p].lifecycle = "absent"
  /\ policy' = [policy EXCEPT ![p].lifecycle = "draft"]
  /\ UNCHANGED <<clock, runs, ended, attempt, request, lost, faults>>

(* is_legal_policy_transition()                                            *)
LegalTransition(from, to) ==
  <<from, to>> \in {<<"draft", "active">>, <<"draft", "disabled">>, <<"active", "paused">>,
                    <<"active", "disabled">>, <<"paused", "active">>, <<"paused", "disabled">>}

(* The aggregate's activate() and resume() (the same guard and the same    *)
(* effect), pause() and disable().                                         *)
Transition(row, to) ==
  [row EXCEPT !.lifecycle = to,
              !.next_due_at = IF to = "active" THEN clock ELSE @,
              !.claimed_at = IF to = "disabled" THEN NoTime ELSE @]

(* _get(), in a session of its own, and the transition in memory.  Early   *)
(* enough that a claim it may write back can expire within modelled time.  *)
Load(o, p, to) ==
  /\ request[o] = Idle
  /\ clock + Lease < MaxClock
  /\ LegalTransition(policy[p].lifecycle, to)
  /\ request' = [request EXCEPT ![o] = [stage |-> "loaded", policy |-> p, base |-> policy[p],
                                        row |-> Transition(policy[p], to), seen |-> policy[p]]]
  /\ UNCHANGED <<clock, policy, runs, ended, attempt, lost, faults>>

(* save() reads the row again, without a lock, to find out what changed.   *)
SaveRead(o) ==
  /\ request[o].stage = "loaded"
  /\ request' = [request EXCEPT ![o].stage = "saving", ![o].seen = policy[request[o].policy]]
  /\ UNCHANGED <<clock, policy, runs, ended, attempt, lost, faults>>

(* The UPDATE sets the columns that differ from what save() read.          *)
Merge(current, seen, row) ==
  [c \in DOMAIN row |-> IF row[c] # seen[c] THEN row[c] ELSE current[c]]

SaveWrite(o) ==
  /\ request[o].stage = "saving"
  /\ LET r == request[o]
         p == r.policy
     IN  /\ policy' = [policy EXCEPT ![p] = Merge(@, r.seen, r.row)]
         /\ lost' = IF policy[p] = r.base /\ r.seen = r.base THEN lost ELSE lost \cup {p}
  /\ request' = [request EXCEPT ![o] = Idle]
  /\ UNCHANGED <<clock, runs, ended, attempt, faults>>

(* The request ends before its commit: the client or the process is gone.  *)
Drop(o) ==
  /\ request[o] # Idle
  /\ request' = [request EXCEPT ![o] = Idle]
  /\ UNCHANGED <<clock, policy, runs, ended, attempt, lost, faults>>

-----------------------------------------------------------------------------
(* Attempts: NetworkMonitoringProcessor.process_one_due_policy().          *)

(* Seeded fault: an expired claim is never taken over.                     *)
ClaimableOnlyUnclaimed(p) ==
  /\ policy[p].lifecycle = "active"
  /\ policy[p].next_due_at # NoTime /\ policy[p].next_due_at <= clock
  /\ policy[p].claimed_at = NoTime

(* The WHERE clause of claim_one_due_policy().                             *)
Claimable(p) ==
  /\ policy[p].lifecycle = "active"
  /\ policy[p].next_due_at # NoTime /\ policy[p].next_due_at <= clock
  /\ policy[p].claimed_at = NoTime \/ policy[p].claimed_at < clock - Lease

(* claim_one_due_policy() orders by next_due_at, but SKIP LOCKED passes    *)
(* over a row that any transaction has locked: every claimable policy may  *)
(* be the one.                                                             *)
Claim(w) ==
  /\ ~Busy(w)
  /\ \E p \in Policies :
       /\ Claimable(p)
       /\ policy' = [policy EXCEPT ![p].claimed_at = clock]
       /\ attempt' = [attempt EXCEPT ![w] = [stage |-> "claimed", policy |-> p,
                                             due |-> policy[p].next_due_at, now |-> clock]]
  /\ UNCHANGED <<clock, runs, ended, request, lost, faults>>

Become(w, stage) == attempt' = [attempt EXCEPT ![w].stage = stage]

(* Seeded fault: the unique index is missing.                              *)
InsertUnindexed(w) ==
  /\ attempt[w].stage = "claimed"
  /\ runs' = runs \cup {Boundary(w)}
  /\ Become(w, "running")
  /\ UNCHANGED <<clock, policy, ended, request, lost, faults>>

(* The first _save_run() of create_and_run().                              *)
Insert(w) ==
  /\ attempt[w].stage = "claimed"
  /\ Boundary(w) \notin runs
  /\ runs' = runs \cup {Boundary(w)}
  /\ Become(w, "running")
  /\ UNCHANGED <<clock, policy, ended, request, lost, faults>>

(* ux_nvr_policy_due refuses it.                                           *)
Refused(w) ==
  /\ attempt[w].stage = "claimed"
  /\ Boundary(w) \in runs
  /\ Become(w, "failed")
  /\ UNCHANGED <<clock, policy, runs, ended, request, lost, faults>>

(* Seeded fault: the result is filed under the instant of the claim.       *)
FinishAtClaimTime(w) ==
  /\ attempt[w].stage = "running"
  /\ ended' = ended \cup {<<attempt[w].policy, attempt[w].now>>}
  /\ Become(w, "reconciling")
  /\ UNCHANGED <<clock, policy, runs, request, lost, faults>>

(* The terminal status is saved.                                           *)
Finish(w) ==
  /\ attempt[w].stage = "running"
  /\ ended' = ended \cup {Boundary(w)}
  /\ Become(w, "reconciling")
  /\ UNCHANGED <<clock, policy, runs, request, lost, faults>>

(* _reconcile(), if the run completed, and the return.                     *)
Reconcile(w) ==
  /\ attempt[w].stage = "reconciling"
  /\ Become(w, "ran")
  /\ UNCHANGED <<clock, policy, runs, ended, request, lost, faults>>

AdvanceSchedule(row, interval, now) ==
  LET elapsed == now - row.next_due_at
      missed  == IF elapsed >= 0 THEN elapsed \div interval ELSE 0
  IN  IF row.next_due_at = NoTime
      THEN row
      ELSE [row EXCEPT !.next_due_at = @ + (missed + 1) * interval, !.last_scheduled_at = now]

ReleaseClaim(row) == [row EXCEPT !.claimed_at = NoTime]

Return(w) == attempt' = [attempt EXCEPT ![w] = Idle]

(* Seeded fault: the freshly read row is not checked for DISABLED.         *)
MutateUnchecked(p, newRow) == policy' = [policy EXCEPT ![p] = newRow]

(* _mutate_under_lock(): reads the row FOR UPDATE, leaves a DISABLED one.  *)
MutateUnderLock(p, newRow) ==
  policy' = IF policy[p].lifecycle = "disabled" THEN policy ELSE [policy EXCEPT ![p] = newRow]

ReleaseAndAdvance(w) ==
  /\ attempt[w].stage = "ran"
  /\ LET p == attempt[w].policy
     IN  MutateUnderLock(p, ReleaseClaim(AdvanceSchedule(policy[p], Interval[p], attempt[w].now)))
  /\ Return(w)
  /\ UNCHANGED <<clock, runs, ended, request, lost, faults>>

(* Seeded fault: the boundary is left behind although the run raised.      *)
ReleaseClaimAdvancing(w) ==
  /\ attempt[w].stage = "failed"
  /\ LET p == attempt[w].policy
     IN  MutateUnderLock(p, ReleaseClaim(AdvanceSchedule(policy[p], Interval[p], attempt[w].now)))
  /\ Return(w)
  /\ UNCHANGED <<clock, runs, ended, request, lost, faults>>

(* except Exception: the claim is released, the boundary stays.            *)
ReleaseClaimOnly(w) ==
  /\ attempt[w].stage = "failed"
  /\ LET p == attempt[w].policy IN MutateUnderLock(p, ReleaseClaim(policy[p]))
  /\ Return(w)
  /\ UNCHANGED <<clock, runs, ended, request, lost, faults>>

-----------------------------------------------------------------------------
(* Faults, early enough that a claim they leave behind can expire.         *)

Fault ==
  /\ faults < MaxFaults
  /\ clock + Lease < MaxClock
  /\ faults' = faults + 1

(* create_and_run() raises: a database call outside of its try block, the  *)
(* asset service, _reconcile().                                            *)
RunRaises(w) ==
  /\ attempt[w].stage \in {"claimed", "running", "reconciling"}
  /\ Fault
  /\ Become(w, "failed")
  /\ UNCHANGED <<clock, policy, runs, ended, request, lost>>

(* The attempt ends with the claim in hand: stop() cancels it, the process *)
(* dies, or the release itself raises.                                     *)
Abandon(w) ==
  /\ Busy(w)
  /\ Fault
  /\ Return(w)
  /\ UNCHANGED <<clock, policy, runs, ended, request, lost>>

(* Time passes; no attempt outlives RunBound.                              *)
Tick ==
  /\ clock < MaxClock
  /\ \A w \in Workers : Busy(w) => clock < attempt[w].now + RunBound
  /\ clock' = clock + 1
  /\ UNCHANGED <<policy, runs, ended, attempt, request, lost, faults>>

-----------------------------------------------------------------------------
OperatorStep(o) ==
  \/ \E p \in Policies, to \in {"active", "paused", "disabled"} : Load(o, p, to)
  \/ SaveRead(o)
  \/ SaveWrite(o)
  \/ Drop(o)

(* What an attempt does by itself after its claim.                         *)
Proceed(w) ==
  \/ Insert(w) \/ Refused(w) \/ Finish(w) \/ Reconcile(w)
  \/ ReleaseAndAdvance(w) \/ ReleaseClaimOnly(w)

Next ==
  \/ \E p \in Policies : Create(p)
  \/ \E o \in Operators : OperatorStep(o)
  \/ \E w \in Workers : Claim(w) \/ Proceed(w) \/ RunRaises(w) \/ Abandon(w)
  \/ Tick

(* The poll loop goes on while the process lives, an attempt is awaited to *)
(* its end, and time passes.  Operators owe nothing.                       *)
Fairness ==
  /\ \A w \in Workers : WF_vars(Claim(w)) /\ WF_vars(Proceed(w))
  /\ WF_vars(Tick)

Spec == Init /\ [][Next]_vars /\ Fairness

-----------------------------------------------------------------------------
(* Properties.                                                             *)

(* While no request has overwritten a change it had not seen, and attempts *)
(* end within the lease, two attempts never work on one policy             *)
(* (claim_one_due_policy(), release_claim()).                              *)
ClaimExclusive ==
  RunBound <= Lease =>
    \A v, w \in Workers :
      /\ Busy(v) /\ Busy(w) /\ attempt[v].policy = attempt[w].policy
      /\ attempt[v].policy \notin lost
      => v = w

(* Claims lost to a request's save or to the lease notwithstanding, one    *)
(* attempt at most is between the insert of a boundary's row and its       *)
(* terminal status (ux_nvr_policy_due).                                    *)
OneRunPerBoundary ==
  \A w \in Workers : attempt[w].stage = "running" =>
    /\ Boundary(w) \in runs \ ended
    /\ \A v \in Workers \ {w} : attempt[v].stage = "running" => Boundary(v) # Boundary(w)

(* The boundaries whose run is under way.                                  *)
UnderWay == {Boundary(w) : w \in {v \in Workers : attempt[v].stage = "running"}}

R == INSTANCE BoundaryRuns
       WITH Boundaries <- Policies \X (0..MaxClock), rows <- runs, results <- ended,
            active <- UnderWay

(* Requests that write old boundaries and old claims back notwithstanding, *)
(* a boundary that has come gets at most one row and one run, only that run*)
(* gives the row its result, and when it is lost nobody ever takes the     *)
(* boundary up again (ux_nvr_policy_due, process_one_due_policy()).        *)
RefinesBoundaryRuns == R!Spec

(* The end of an attempt moved the schedule of its policy.                 *)
Advances(w) ==
  /\ Busy(w) /\ attempt'[w] = Idle
  /\ policy'[attempt[w].policy].next_due_at # policy[attempt[w].policy].next_due_at

(* An attempt takes the schedule past the boundary it was claimed for only *)
(* if that boundary has a run with a result, and never past anything to an *)
(* instant before its own claim (process_one_due_policy(),                 *)
(* advance_schedule()).                                                    *)
ResultBeforeAdvance ==
  [][\A w \in Workers : Advances(w) =>
       /\ policy[attempt[w].policy].next_due_at = attempt[w].due => Boundary(w) \in ended
       /\ policy'[attempt[w].policy].next_due_at > attempt[w].now]_vars

(* While no request has overwritten a change it had not seen, a DISABLED   *)
(* policy stays as it is: no run in flight and no request changes it       *)
(* (_mutate_under_lock(), PolicyLifecycle).                                *)
DisabledIsFinalUnlessLost ==
  [][\A p \in Policies \ lost' :
       policy[p].lifecycle = "disabled" => policy'[p] = policy[p]]_vars

(* A due boundary of a policy that stays active gets its run's row,        *)
(* although attempts raise, crash or are stopped with the claim in hand and*)
(* requests write old claims back (the lease).                             *)
DueBoundaryRuns ==
  \A p \in Policies : \A d \in 0..MaxClock :
    (policy[p].lifecycle = "active" /\ policy[p].next_due_at = d /\ d <= clock)
      ~> (\/ <<p, d>> \in runs
          \/ policy[p].next_due_at # d
          \/ policy[p].lifecycle # "active")

(* What the documentation says and the code does not do.                   *)

(* A due policy that stays active gets past its boundary: the poll loop    *)
(* recovers from the failure of a run (scheduler_worker: "retried next     *)
(* cycle"; report: "mirrors ContinuousValidationProcessor's claim ->       *)
(* orchestrate -> advance/release discipline").                            *)
ScheduleMovesOn ==
  \A p \in Policies : \A d \in 0..MaxClock :
    (policy[p].lifecycle = "active" /\ policy[p].next_due_at = d /\ d <= clock)
      ~> (policy[p].next_due_at # d \/ policy[p].lifecycle # "active")
=============================================================================
