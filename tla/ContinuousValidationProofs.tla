--------------------- MODULE ContinuousValidationProofs ---------------------
(***************************************************************************)
(* Theorems about the continuous-validation scheduler, for every set of    *)
(* policies and attempts, every cadence, lease and run bound.              *)
(***************************************************************************)
EXTENDS ContinuousValidation, TLAPS

(* What a step of an attempt leaves behind in the policy table.            *)
LEMMA AdvanceType ==
  ASSUME NEW row \in PolicyRow, NEW i \in Nat \ {0}, NEW now \in Nat
  PROVE  AdvanceSchedule(row, i, now) \in PolicyRow
<1> DEFINE elapsed == now - row.next_due_at
           missed  == IF elapsed >= 0 THEN elapsed \div i ELSE 0
<1>1. CASE row.next_due_at = NoTime
  BY <1>1 DEF AdvanceSchedule
<1>2. CASE row.next_due_at # NoTime
  <2>1. row.next_due_at \in Nat
    BY <1>2 DEF PolicyRow, Times
  <2>2. missed \in Nat
    BY <2>1
  <2>3. (missed + 1) * i \in Nat
    BY <2>2
  <2>4. row.next_due_at + (missed + 1) * i \in Nat
    BY <2>1, <2>3
  <2> HIDE DEF missed
  <2>5. [row EXCEPT !.next_due_at = @ + (missed + 1) * i, !.last_scheduled_at = now] \in PolicyRow
    BY <2>4 DEF PolicyRow, Times
  <2> QED
    BY <1>2, <2>5 DEF AdvanceSchedule, missed, elapsed
<1> QED
  BY <1>1, <1>2

LEMMA ReleaseType ==
  ASSUME NEW row \in PolicyRow
  PROVE  ReleaseClaim(row) \in PolicyRow
BY DEF ReleaseClaim, PolicyRow, Times

(* What a step of one attempt does to the table of attempts.               *)
LEMMA BecomeType ==
  ASSUME TypeOK, NEW w \in Workers, NEW s \in Stages \ {"idle"}, Busy(w), Become(w, s)
  PROVE  attempt' \in [Workers -> {Idle} \cup BusyAttempt]
BY DEF TypeOK, Become, Busy, Idle, BusyAttempt

LEMMA BusyType ==
  ASSUME TypeOK, NEW w \in Workers, Busy(w)
  PROVE  attempt[w] \in BusyAttempt
BY DEF TypeOK, Busy, Idle

LEMMA MutateType ==
  ASSUME TypeOK, NEW p \in Policies, NEW row \in PolicyRow, MutateUnderLock(p, row)
  PROVE  policy' \in [Policies -> PolicyRow]
BY DEF TypeOK, MutateUnderLock

(* TypeOK alone is not inductive: that a finishing run closes a row that    *)
(* exists rests on OneRunPerBoundary.                                      *)
LEMMA TypeStep == TypeOK /\ OneRunPerBoundary /\ [Next]_vars => TypeOK'
<1> SUFFICES ASSUME TypeOK, OneRunPerBoundary, [Next]_vars PROVE TypeOK'
  OBVIOUS
<1>1. ASSUME NEW p \in Policies, Operator(p) PROVE TypeOK'
  BY <1>1 DEF TypeOK, Operator, Create, Activate, Pause, Disable, PolicyRow, Times,
              Lifecycles, NoTime
<1>2. ASSUME NEW w \in Workers, Claim(w) PROVE TypeOK'
  BY <1>2, SMTT(30) DEF TypeOK, Claim, Claimable, Busy, PolicyRow, Times, NoTime, BusyAttempt, Stages
<1>3. ASSUME NEW w \in Workers, CreateExecution(w) PROVE TypeOK'
  BY <1>3, BecomeType, BusyType DEF TypeOK, CreateExecution, Boundary, Busy, Stages, BusyAttempt
<1>4. ASSUME NEW w \in Workers, BoundaryTaken(w) PROVE TypeOK'
  BY <1>4, BecomeType DEF TypeOK, BoundaryTaken, Busy, Stages
<1>5. ASSUME NEW w \in Workers, FinishRun(w) PROVE TypeOK'
  BY <1>5, BecomeType DEF TypeOK, OneRunPerBoundary, FinishRun, Busy, Stages
<1>6. ASSUME NEW w \in Workers, Reconcile(w) PROVE TypeOK'
  BY <1>6, BecomeType DEF TypeOK, Reconcile, Busy, Stages
<1>7. ASSUME NEW w \in Workers, ReleaseAndAdvance(w) PROVE TypeOK'
  <2> DEFINE p == attempt[w].policy
             row == ReleaseClaim(AdvanceSchedule(policy[p], Interval[p], attempt[w].now))
  <2>1. p \in Policies /\ attempt[w].now \in Nat
    BY <1>7, BusyType DEF ReleaseAndAdvance, Busy, BusyAttempt
  <2>2. policy[p] \in PolicyRow /\ Interval[p] \in Nat \ {0}
    BY <2>1, IntervalAssumption DEF TypeOK
  <2>3. row \in PolicyRow
    BY <2>1, <2>2, AdvanceType, ReleaseType
  <2>4. policy' \in [Policies -> PolicyRow]
    BY <1>7, <2>1, <2>3, MutateType DEF ReleaseAndAdvance
  <2> QED
    BY <1>7, <2>4 DEF TypeOK, ReleaseAndAdvance, Return
<1>8. ASSUME NEW w \in Workers, ReleaseClaimOnly(w) PROVE TypeOK'
  <2> DEFINE p == attempt[w].policy
  <2>1. p \in Policies
    BY <1>8, BusyType DEF ReleaseClaimOnly, Busy, BusyAttempt
  <2>2. ReleaseClaim(policy[p]) \in PolicyRow
    BY <2>1, ReleaseType DEF TypeOK
  <2>3. policy' \in [Policies -> PolicyRow]
    BY <1>8, <2>1, <2>2, MutateType DEF ReleaseClaimOnly
  <2> QED
    BY <1>8, <2>3 DEF TypeOK, ReleaseClaimOnly, Return
<1>9. ASSUME NEW w \in Workers, RunRaises(w) PROVE TypeOK'
  BY <1>9, BecomeType DEF TypeOK, RunRaises, Fault, Busy, Stages
<1>10. ASSUME NEW w \in Workers, RunRaisesIntegrityError(w) PROVE TypeOK'
  BY <1>10, BecomeType DEF TypeOK, RunRaisesIntegrityError, Fault, Busy, Stages
<1>11. ASSUME NEW w \in Workers, Abandon(w) PROVE TypeOK'
  BY <1>11 DEF TypeOK, Abandon, Fault, Return
<1>12. CASE Tick
  BY <1>12 DEF TypeOK, Tick
<1>13. CASE UNCHANGED vars
  BY <1>13 DEF TypeOK, vars
<1> QED
  BY <1>1, <1>2, <1>3, <1>4, <1>5, <1>6, <1>7, <1>8, <1>9, <1>10, <1>11, <1>12, <1>13
  DEF Next, Proceed

LEMMA RunStep == TypeOK /\ OneRunPerBoundary /\ [Next]_vars => OneRunPerBoundary'
<1> SUFFICES ASSUME TypeOK, OneRunPerBoundary, [Next]_vars PROVE OneRunPerBoundary'
  OBVIOUS
<1>1. ASSUME UNCHANGED <<executions, terminal, attempt>> PROVE OneRunPerBoundary'
  BY <1>1 DEF OneRunPerBoundary, Boundary
<1>2. ASSUME NEW w \in Workers, attempt'[w].stage # "running",
             \A v \in Workers \ {w} : attempt'[v] = attempt[v],
             UNCHANGED <<executions, terminal>>
      PROVE  OneRunPerBoundary'
  BY <1>2 DEF OneRunPerBoundary, Boundary
<1>3. ASSUME NEW w \in Workers, CreateExecution(w) PROVE OneRunPerBoundary'
  <2>1. Boundary(w)' = Boundary(w) /\ \A v \in Workers \ {w} : attempt'[v] = attempt[v]
    BY <1>3, BusyType DEF CreateExecution, Become, Boundary, TypeOK, Busy, BusyAttempt
  <2>2. Boundary(w) \in executions' \ terminal'
    BY <1>3 DEF CreateExecution, TypeOK
  <2>3. \A v \in Workers \ {w} : attempt[v].stage = "running" =>
          Boundary(v) # Boundary(w) /\ Boundary(v) \in executions' \ terminal'
    BY <1>3 DEF CreateExecution, OneRunPerBoundary
  <2> QED
    BY <2>1, <2>2, <2>3 DEF OneRunPerBoundary, Boundary
<1>4. ASSUME NEW w \in Workers, FinishRun(w) PROVE OneRunPerBoundary'
  <2>1. attempt'[w].stage # "running" /\ \A v \in Workers \ {w} : attempt'[v] = attempt[v]
    BY <1>4, BusyType DEF FinishRun, Become, TypeOK, Busy, BusyAttempt
  <2> QED
    BY <1>4, <2>1 DEF FinishRun, OneRunPerBoundary, Boundary
<1>5. ASSUME NEW w \in Workers,
             Claim(w) \/ BoundaryTaken(w) \/ Reconcile(w) \/ RunRaises(w)
             \/ RunRaisesIntegrityError(w)
             \/ ReleaseAndAdvance(w) \/ ReleaseClaimOnly(w) \/ Abandon(w)
      PROVE  OneRunPerBoundary'
  <2>1. attempt'[w].stage # "running"
    BY <1>5, BusyType DEF Claim, BoundaryTaken, Reconcile, RunRaises, RunRaisesIntegrityError,
       ReleaseAndAdvance, ReleaseClaimOnly, Abandon, Become, Return, Idle, TypeOK, Busy,
       BusyAttempt
  <2>2. /\ \A v \in Workers \ {w} : attempt'[v] = attempt[v]
        /\ UNCHANGED <<executions, terminal>>
    BY <1>5 DEF Claim, BoundaryTaken, Reconcile, RunRaises, RunRaisesIntegrityError,
       ReleaseAndAdvance, ReleaseClaimOnly, Abandon, Become, Return, TypeOK
  <2> QED
    BY <1>2, <2>1, <2>2
<1>6. ASSUME NEW p \in Policies, Operator(p) PROVE UNCHANGED <<executions, terminal, attempt>>
  BY <1>6 DEF Operator, Create, Activate, Pause, Disable
<1> QED
  BY <1>1, <1>3, <1>4, <1>5, <1>6 DEF Next, Proceed, Tick, vars

LEMMA RunInit == Init => TypeOK /\ OneRunPerBoundary
BY DEF Init, TypeOK, PolicyRow, Times, Lifecycles, Idle, NoTime, OneRunPerBoundary

(* Every reachable state is well typed: the claim never copies a NULL due  *)
(* time into an attempt, the schedule arithmetic stays within the instants *)
(* and only recorded runs get a result.                                    *)
THEOREM TypeCorrect == Spec => []TypeOK
BY RunInit, TypeStep, RunStep, PTL DEF Spec

(* However long attempts run and whoever loses a claim, a due boundary is  *)
(* never validated by two attempts at once nor again after it has a result *)
(* (ux_validation_executions_policy_due).                                  *)
THEOREM BoundariesRunOnce == Spec => []OneRunPerBoundary
BY RunInit, TypeStep, RunStep, PTL DEF Spec

-----------------------------------------------------------------------------
(* Claim exclusion.  ClaimExclusive is not inductive: it also takes that   *)
(* the row of a policy under work still carries the claim of the attempt   *)
(* (or is DISABLED, hence not claimable), and that this claim is not older *)
(* than RunBound.                                                          *)
HoldsClaim ==
  \A w \in Workers : Busy(w) =>
    \/ policy[attempt[w].policy].lifecycle = "disabled"
    \/ policy[attempt[w].policy].claimed_at = attempt[w].now

WithinBound ==
  \A w \in Workers : Busy(w) => clock <= attempt[w].now + RunBound

Exclusive ==
  \A v, w \in Workers :
    Busy(v) /\ Busy(w) /\ attempt[v].policy = attempt[w].policy => v = w

ClaimInv == TypeOK /\ OneRunPerBoundary /\ HoldsClaim /\ WithinBound /\ Exclusive

(* A busy attempt moving on to its next stage keeps what it was claimed    *)
(* with.                                                                   *)
LEMMA BecomeKeeps ==
  ASSUME ClaimInv, NEW w \in Workers, NEW s \in Stages \ {"idle"}, Busy(w), Become(w, s),
         UNCHANGED <<clock, policy>>, TypeOK', OneRunPerBoundary'
  PROVE  ClaimInv'
<1>1. \A v \in Workers : Busy(v)' = Busy(v)
  BY DEF Become, Busy, ClaimInv, TypeOK
<1>2. \A v \in Workers : Busy(v) =>
        attempt'[v].policy = attempt[v].policy /\ attempt'[v].now = attempt[v].now
  BY BusyType DEF Become, ClaimInv, TypeOK, BusyAttempt
<1> QED
  BY <1>1, <1>2 DEF ClaimInv, HoldsClaim, WithinBound, Exclusive

(* An attempt that returns hands its policy back: nobody else works on it. *)
LEMMA ReturnKeeps ==
  ASSUME ClaimInv, NEW w \in Workers, Busy(w), Return(w), UNCHANGED clock, TypeOK',
         OneRunPerBoundary',
         \A p \in Policies \ {attempt[w].policy} : policy'[p] = policy[p]
  PROVE  ClaimInv'
<1>1. ~Busy(w)'
  BY DEF Return, Busy, Idle, ClaimInv, TypeOK
<1>2. \A v \in Workers \ {w} : attempt'[v] = attempt[v]
  BY DEF Return, ClaimInv, TypeOK
<1>3. \A v \in Workers \ {w} : Busy(v) => policy'[attempt[v].policy] = policy[attempt[v].policy]
  BY BusyType DEF ClaimInv, Exclusive, BusyAttempt
<1> QED
  BY <1>1, <1>2, <1>3 DEF ClaimInv, HoldsClaim, WithinBound, Exclusive, Busy

LEMMA ClaimStep == RunBound <= Lease /\ ClaimInv /\ [Next]_vars => ClaimInv'
<1> SUFFICES ASSUME RunBound <= Lease, ClaimInv, [Next]_vars PROVE ClaimInv'
  OBVIOUS
<1>0. TypeOK /\ TypeOK' /\ OneRunPerBoundary'
  BY TypeStep, RunStep DEF ClaimInv
<1>1. ASSUME NEW p \in Policies, Operator(p) PROVE ClaimInv'
  BY <1>0, <1>1, BusyType, SMTT(30)
  DEF Operator, Create, Activate, Pause, Disable, LegalTransition,
     ClaimInv, HoldsClaim, WithinBound, Exclusive, Busy, TypeOK, PolicyRow, BusyAttempt
<1>2. ASSUME NEW w \in Workers, Claim(w) PROVE ClaimInv'
  <2>1. PICK p \in Policies :
          /\ Claimable(p)
          /\ policy' = [policy EXCEPT ![p].claimed_at = clock]
          /\ attempt' = [attempt EXCEPT ![w] = [stage |-> "claimed", policy |-> p,
                                               due |-> policy[p].next_due_at, now |-> clock]]
    BY <1>2 DEF Claim
  <2>2. \A v \in Workers : Busy(v) => attempt[v].policy # p
    <3> SUFFICES ASSUME NEW v \in Workers, Busy(v), attempt[v].policy = p PROVE FALSE
      OBVIOUS
    <3>1. attempt[v].now \in Nat /\ clock \in Nat
      BY <1>0, BusyType DEF BusyAttempt, TypeOK
    <3>2. policy[p].claimed_at = attempt[v].now
      BY <2>1 DEF Claimable, ClaimInv, HoldsClaim
    <3>3. clock <= attempt[v].now + RunBound
      BY DEF ClaimInv, WithinBound
    <3> QED
      BY <2>1, <3>1, <3>2, <3>3, BoundsAssumption DEF Claimable, NoTime
  <2>3. \A v \in Workers \ {w} : attempt'[v] = attempt[v]
    BY <1>0, <2>1 DEF TypeOK
  <2>4. /\ attempt'[w].policy = p
        /\ attempt'[w].now = clock
        /\ policy'[p].claimed_at = clock
        /\ clock' = clock
    BY <1>0, <1>2, <2>1 DEF TypeOK, PolicyRow, Claim
  <2>5. \A q \in Policies \ {p} : policy'[q] = policy[q]
    BY <1>0, <2>1 DEF TypeOK
  <2>6. \A v \in Workers \ {w} : Busy(v) => attempt[v].policy \in Policies \ {p}
    BY <1>0, <2>2, BusyType DEF BusyAttempt
  <2>7. HoldsClaim'
    BY <2>3, <2>4, <2>5, <2>6 DEF ClaimInv, HoldsClaim, Busy
  <2>8. WithinBound'
    BY <1>0, <2>3, <2>4, BoundsAssumption DEF ClaimInv, WithinBound, Busy, TypeOK
  <2>9. Exclusive'
    BY <2>2, <2>3, <2>4 DEF ClaimInv, Exclusive, Busy
  <2> QED
    BY <1>0, <2>7, <2>8, <2>9 DEF ClaimInv
<1>3. ASSUME NEW w \in Workers,
             CreateExecution(w) \/ BoundaryTaken(w) \/ FinishRun(w) \/ Reconcile(w)
             \/ RunRaises(w) \/ RunRaisesIntegrityError(w)
      PROVE ClaimInv'
  <2>1. Busy(w) /\ UNCHANGED <<clock, policy>>
    BY <1>3 DEF CreateExecution, BoundaryTaken, FinishRun, Reconcile, RunRaises,
                RunRaisesIntegrityError, Busy
  <2>2. \E s \in Stages \ {"idle"} : Become(w, s)
    BY <1>3 DEF CreateExecution, BoundaryTaken, FinishRun, Reconcile, RunRaises,
                RunRaisesIntegrityError, Stages
  <2> QED
    BY <1>0, <2>1, <2>2, BecomeKeeps
<1>4. ASSUME NEW w \in Workers, ReleaseAndAdvance(w) \/ ReleaseClaimOnly(w) \/ Abandon(w)
      PROVE ClaimInv'
  <2>1. Busy(w) /\ Return(w) /\ UNCHANGED clock
    BY <1>4 DEF ReleaseAndAdvance, ReleaseClaimOnly, Abandon, Busy
  <2>2. \A p \in Policies \ {attempt[w].policy} : policy'[p] = policy[p]
    BY <1>0, <1>4 DEF ReleaseAndAdvance, ReleaseClaimOnly, Abandon, MutateUnderLock, TypeOK
  <2> QED
    BY <1>0, <2>1, <2>2, ReturnKeeps
<1>5. CASE Tick
  <2>1. WithinBound'
    BY <1>0, <1>5, BusyType, BoundsAssumption DEF Tick, WithinBound, Busy, TypeOK, BusyAttempt
  <2> QED
    BY <1>0, <1>5, <2>1 DEF Tick, ClaimInv, HoldsClaim, Exclusive, Busy
<1>6. CASE UNCHANGED vars
  BY <1>0, <1>6 DEF vars, ClaimInv, HoldsClaim, WithinBound, Exclusive, Busy
<1> QED
  BY <1>1, <1>2, <1>3, <1>4, <1>5, <1>6 DEF Next, Proceed

(* As long as attempts end within the lease, no two of them ever work on   *)
(* the same policy, for any number of policies, workers and faults and     *)
(* any operator interference (claim_one_due_policy).                       *)
THEOREM ClaimsAreExclusive == Spec => []ClaimExclusive
<1>1. CASE RunBound <= Lease
  <2>1. Init => ClaimInv
    BY RunInit DEF Init, ClaimInv, Idle, HoldsClaim, WithinBound, Exclusive, Busy
  <2>2. ClaimInv /\ [Next]_vars => ClaimInv'
    BY <1>1, ClaimStep
  <2>3. ClaimInv => ClaimExclusive
    BY DEF ClaimInv, Exclusive, ClaimExclusive
  <2> QED
    BY <2>1, <2>2, <2>3, PTL DEF Spec
<1>2. CASE ~(RunBound <= Lease)
  <2>1. ClaimExclusive
    BY <1>2 DEF ClaimExclusive
  <2> QED
    BY <2>1, PTL
<1> QED
  BY <1>1, <1>2

-----------------------------------------------------------------------------
(* A DISABLED policy row is final, whatever was in flight when the         *)
(* operator disabled it (_mutate_under_lock).                              *)
THEOREM DisabledStaysDisabled == Spec => DisabledIsFinal
<1> DEFINE Final == \A p \in Policies :
                      policy[p].lifecycle = "disabled" => policy'[p] = policy[p]
<1>1. TypeOK /\ [Next]_vars => Final
  <2> SUFFICES ASSUME TypeOK, [Next]_vars,
                      NEW p \in Policies, policy[p].lifecycle = "disabled"
               PROVE  policy'[p] = policy[p]
    OBVIOUS
  <2>1. ASSUME NEW q \in Policies, Operator(q) PROVE policy'[p] = policy[p]
    BY <2>1 DEF TypeOK, Operator, Create, Activate, Pause, Disable, LegalTransition
  <2>2. ASSUME NEW w \in Workers, Claim(w) PROVE policy'[p] = policy[p]
    BY <2>2 DEF TypeOK, Claim, Claimable
  <2>3. ASSUME NEW w \in Workers, Proceed(w) PROVE policy'[p] = policy[p]
    BY <2>3 DEF TypeOK, Proceed, CreateExecution, BoundaryTaken, FinishRun, Reconcile,
                ReleaseAndAdvance, ReleaseClaimOnly, MutateUnderLock
  <2>4. ASSUME NEW w \in Workers, RunRaises(w) \/ RunRaisesIntegrityError(w) \/ Abandon(w)
        PROVE policy'[p] = policy[p]
    BY <2>4 DEF RunRaises, RunRaisesIntegrityError, Abandon
  <2> QED
    BY <2>1, <2>2, <2>3, <2>4 DEF Next, Tick, vars
<1>2. TypeOK /\ [Next]_vars => [Final]_vars
  BY <1>1
<1> QED
  BY <1>2, TypeCorrect, PTL DEF Spec, DisabledIsFinal

-----------------------------------------------------------------------------
(* What the scheduler does to the schedule.                                *)

RecordedStages == {"running", "ran", "reconciled", "collided"}

(* Past its insert, or once it met the index, an attempt's boundary is in  *)
(* validation_executions.                                                  *)
RunRecorded ==
  \A w \in Workers : attempt[w].stage \in RecordedStages => Boundary(w) \in executions

LEMMA RecordedStep ==
  TypeOK /\ RunRecorded /\ [Next]_vars => RunRecorded'
<1> SUFFICES ASSUME TypeOK, RunRecorded, [Next]_vars,
                    NEW v \in Workers, attempt'[v].stage \in RecordedStages
             PROVE  Boundary(v)' \in executions'
  BY DEF RunRecorded
<1>1. executions \subseteq executions'
  BY DEF Next, Operator, Create, Activate, Pause, Disable, Claim, Proceed, CreateExecution,
     BoundaryTaken, FinishRun, Reconcile, ReleaseAndAdvance, ReleaseClaimOnly, RunRaises,
     RunRaisesIntegrityError, Abandon, Tick, vars
<1>2. CASE attempt'[v] = attempt[v]
  BY <1>1, <1>2 DEF RunRecorded, Boundary
<1>3. CASE CreateExecution(v) \/ BoundaryTaken(v)
  <2>1. Boundary(v)' = Boundary(v)
    BY <1>3, BusyType DEF CreateExecution, BoundaryTaken, Become, Boundary, TypeOK, Busy,
                          BusyAttempt
  <2> QED
    BY <1>3, <2>1 DEF CreateExecution, BoundaryTaken
<1>4. CASE FinishRun(v) \/ Reconcile(v) \/ RunRaisesIntegrityError(v)
  <2>1. Boundary(v)' = Boundary(v) /\ attempt[v].stage \in RecordedStages
    BY <1>4, BusyType DEF FinishRun, Reconcile, RunRaisesIntegrityError, Become, Boundary,
                          TypeOK, Busy, BusyAttempt, RecordedStages
  <2> QED
    BY <1>1, <2>1 DEF RunRecorded
<1>5. CASE Claim(v) \/ RunRaises(v) \/ Return(v)
  BY <1>5, BusyType DEF Claim, RunRaises, Become, Return, Idle, TypeOK, Busy, BusyAttempt,
                        RecordedStages
<1>6. ASSUME NEW w \in Workers \ {v},
             Claim(w) \/ Proceed(w) \/ RunRaises(w) \/ RunRaisesIntegrityError(w) \/ Abandon(w)
      PROVE  attempt'[v] = attempt[v]
  BY <1>6 DEF TypeOK, Claim, Proceed, CreateExecution, BoundaryTaken, FinishRun, Reconcile,
     ReleaseAndAdvance, ReleaseClaimOnly, RunRaises, RunRaisesIntegrityError, Abandon,
     Become, Return
<1>7. ASSUME NEW p \in Policies, Operator(p) PROVE attempt'[v] = attempt[v]
  BY <1>7 DEF Operator, Create, Activate, Pause, Disable
<1>8. Tick \/ UNCHANGED vars => attempt'[v] = attempt[v]
  BY DEF Tick, vars
<1> QED
  BY <1>2, <1>3, <1>4, <1>5, <1>6, <1>7, <1>8
  DEF Next, Proceed, ReleaseAndAdvance, ReleaseClaimOnly, Abandon

(* The only step that moves a schedule is an attempt's release.            *)
LEMMA AdvancedBy ==
  ASSUME TypeOK, [Next]_vars, NEW p \in Policies, Advanced(p)
  PROVE  \E w \in Workers :
           /\ attempt[w].stage \in {"reconciled", "collided"}
           /\ attempt[w].policy = p
           /\ policy'[p] = ReleaseClaim(AdvanceSchedule(policy[p], Interval[p], attempt[w].now))
<1>1. ASSUME NEW q \in Policies, Operator(q) PROVE FALSE
  BY <1>1 DEF Operator, Create, Activate, Pause, Disable, LegalTransition, Advanced, TypeOK,
              PolicyRow
<1>2. ASSUME NEW w \in Workers, Claim(w) PROVE FALSE
  BY <1>2 DEF Claim, Advanced, TypeOK, PolicyRow
<1>3. ASSUME NEW w \in Workers, ReleaseClaimOnly(w) PROVE FALSE
  BY <1>3, BusyType DEF ReleaseClaimOnly, MutateUnderLock, ReleaseClaim, Advanced, TypeOK,
                        PolicyRow
<1>4. ASSUME UNCHANGED policy PROVE FALSE
  BY <1>4 DEF Advanced
<1>5. PICK w \in Workers : ReleaseAndAdvance(w)
  BY <1>1, <1>2, <1>3, <1>4 DEF Next, Proceed, CreateExecution, BoundaryTaken, FinishRun,
     Reconcile, RunRaises, RunRaisesIntegrityError, Abandon, Tick, vars
<1>6. attempt[w].policy = p
  BY <1>5 DEF ReleaseAndAdvance, MutateUnderLock, Advanced, TypeOK
<1>7. policy'[p] = ReleaseClaim(AdvanceSchedule(policy[p], Interval[p], attempt[w].now))
  BY <1>5, <1>6 DEF ReleaseAndAdvance, MutateUnderLock, Advanced, TypeOK
<1> QED
  BY <1>5, <1>6, <1>7 DEF ReleaseAndAdvance

(* A schedule never leaves a boundary without a recorded run, unless the   *)
(* boundary moved while an earlier run was in flight.                      *)
THEOREM NoBoundaryIsSkipped == Spec => NoSilentSkip
<1> DEFINE Step == \A p \in Policies : Advanced(p) =>
                     <<p, policy[p].next_due_at>> \in executions \/ MovedMidRun(p)
<1>1. Init => RunRecorded
  BY DEF Init, RunRecorded, RecordedStages, Idle
<1>2. TypeOK /\ RunRecorded /\ [Next]_vars => Step
  BY AdvancedBy DEF RunRecorded, RecordedStages, MovedMidRun, Busy, Boundary
<1>3. TypeOK /\ RunRecorded /\ [Next]_vars => [Step]_vars
  BY <1>2
<1> QED
  BY <1>1, <1>3, RecordedStep, TypeCorrect, PTL DEF Spec, NoSilentSkip

LEMMA DivBound ==
  ASSUME NEW a \in Nat, NEW b \in Nat \ {0}
  PROVE  (a \div b) * b <= a /\ a < (a \div b + 1) * b
OBVIOUS

(* advance_schedule() lands after now and, past the boundary it starts     *)
(* from, not more than one interval later.                                 *)
LEMMA AdvanceLands ==
  ASSUME NEW row \in PolicyRow, NEW i \in Nat \ {0}, NEW now \in Nat, row.next_due_at # NoTime
  PROVE  LET next == AdvanceSchedule(row, i, now).next_due_at
         IN  /\ next \in Nat
             /\ next > now
             /\ next - i <= now \/ next - i = row.next_due_at
<1> DEFINE due == row.next_due_at
           elapsed == now - due
           missed  == IF elapsed >= 0 THEN elapsed \div i ELSE 0
           next == AdvanceSchedule(row, i, now).next_due_at
<1>1. due \in Nat
  BY DEF PolicyRow, Times
<1>2. next = due + (missed + 1) * i
  BY <1>1 DEF AdvanceSchedule, PolicyRow
<1>3. CASE elapsed >= 0
  <2>1. elapsed \in Nat /\ missed = elapsed \div i
    BY <1>1, <1>3
  <2>2. missed \in Nat
    BY <2>1
  <2>3. missed * i <= elapsed /\ elapsed < (missed + 1) * i
    <3> HIDE DEF elapsed, missed
    <3> QED
      BY <2>1, DivBound
  <2> HIDE DEF missed
  <2>4. missed * i \in Nat /\ (missed + 1) * i = missed * i + i
    BY <2>2
  <2> QED
    BY <1>1, <1>2, <2>3, <2>4
<1>4. CASE ~(elapsed >= 0)
  <2>1. next = due + i /\ due > now
    BY <1>1, <1>2, <1>4
  <2> QED
    BY <1>1, <2>1
<1> QED
  BY <1>3, <1>4

(* advance_schedule() puts the next boundary after the instant the attempt *)
(* began, whatever the backlog and the cadence, and passes no boundary     *)
(* that is still ahead.                                                    *)
THEOREM BacklogIsCoalesced == Spec => BacklogCoalesced
<1> DEFINE Step == \A p \in Policies : Advanced(p) =>
       LET passed == policy'[p].next_due_at - Interval[p]
       IN  /\ policy'[p].next_due_at > policy'[p].last_scheduled_at
           /\ \/ passed <= policy'[p].last_scheduled_at
              \/ passed = policy[p].next_due_at
<1>1. TypeOK /\ [Next]_vars => Step
  <2> SUFFICES ASSUME TypeOK, [Next]_vars, NEW p \in Policies, Advanced(p)
               PROVE  /\ policy'[p].next_due_at > policy'[p].last_scheduled_at
                      /\ \/ policy'[p].next_due_at - Interval[p] <= policy'[p].last_scheduled_at
                         \/ policy'[p].next_due_at - Interval[p] = policy[p].next_due_at
    OBVIOUS
  <2>1. PICK w \in Workers :
          /\ attempt[w].stage \in {"reconciled", "collided"}
          /\ policy'[p] = ReleaseClaim(AdvanceSchedule(policy[p], Interval[p], attempt[w].now))
    BY AdvancedBy
  <2> DEFINE now == attempt[w].now
             i   == Interval[p]
             moved == AdvanceSchedule(policy[p], i, now)
  <2>2. now \in Nat /\ i \in Nat \ {0} /\ policy[p] \in PolicyRow /\ moved \in PolicyRow
    BY <2>1, BusyType, IntervalAssumption, AdvanceType DEF TypeOK, Busy, BusyAttempt
  <2>3. policy'[p].next_due_at = moved.next_due_at
        /\ policy'[p].last_scheduled_at = moved.last_scheduled_at
    <3> HIDE DEF moved
    <3> QED
      BY <2>1, <2>2 DEF ReleaseClaim, PolicyRow, moved
  <2>4. policy[p].next_due_at # NoTime
    BY <2>2, <2>3 DEF Advanced, AdvanceSchedule
  <2>5. moved.last_scheduled_at = now
    BY <2>2, <2>4 DEF AdvanceSchedule, PolicyRow
  <2> QED
    BY <2>2, <2>3, <2>4, <2>5, AdvanceLands
<1>2. TypeOK /\ [Next]_vars => [Step]_vars
  BY <1>1
<1> QED
  BY <1>2, TypeCorrect, PTL DEF Spec, BacklogCoalesced

-----------------------------------------------------------------------------
(* The abstract scheduler.                                                 *)

(* Attempts are claimed for boundaries that have come.                     *)
DuePassed == /\ clock <= MaxClock
             /\ \A w \in Workers : Busy(w) => attempt[w].due <= clock

LEMMA DueStep == TypeOK /\ DuePassed /\ [Next]_vars => DuePassed'
<1> SUFFICES ASSUME TypeOK, DuePassed, [Next]_vars PROVE DuePassed'
  OBVIOUS
<1>1. clock \in Nat /\ \A v \in Workers : Busy(v) => attempt[v].due \in Nat
  BY BusyType DEF TypeOK, BusyAttempt
<1>2. ASSUME NEW w \in Workers, Claim(w) PROVE DuePassed'
  <2>1. PICK p \in Policies :
          /\ Claimable(p)
          /\ attempt' = [attempt EXCEPT ![w] = [stage |-> "claimed", policy |-> p,
                                               due |-> policy[p].next_due_at, now |-> clock]]
    BY <1>2 DEF Claim
  <2>2. attempt'[w].due = policy[p].next_due_at /\ policy[p].next_due_at <= clock
        /\ UNCHANGED clock /\ \A v \in Workers \ {w} : attempt'[v] = attempt[v]
    BY <1>2, <2>1 DEF Claim, Claimable, TypeOK
  <2> QED
    BY <2>2 DEF DuePassed, Busy
<1>3. ASSUME NEW w \in Workers, NEW s \in Stages \ {"idle"}, Busy(w), Become(w, s), UNCHANGED clock
      PROVE  DuePassed'
  <2>1. \A v \in Workers : Busy(v)' = Busy(v) /\ (Busy(v) => attempt'[v].due = attempt[v].due)
    BY <1>3, BusyType DEF Become, Busy, TypeOK, BusyAttempt
  <2> QED
    BY <1>3, <2>1 DEF DuePassed
<1>4. ASSUME NEW w \in Workers, Return(w), UNCHANGED clock PROVE DuePassed'
  BY <1>4 DEF Return, Idle, DuePassed, Busy, TypeOK
<1>5. ASSUME NEW w \in Workers,
             CreateExecution(w) \/ BoundaryTaken(w) \/ FinishRun(w) \/ Reconcile(w)
             \/ RunRaises(w) \/ RunRaisesIntegrityError(w)
      PROVE  DuePassed'
  <2>1. Busy(w) /\ UNCHANGED clock /\ \E s \in Stages \ {"idle"} : Become(w, s)
    BY <1>5 DEF CreateExecution, BoundaryTaken, FinishRun, Reconcile, RunRaises,
                RunRaisesIntegrityError, Busy, Stages
  <2> QED
    BY <1>3, <2>1
<1>6. CASE Tick
  BY <1>1, <1>6, BoundsAssumption DEF Tick, DuePassed, Busy
<1>7. ASSUME UNCHANGED <<clock, attempt>> PROVE DuePassed'
  BY <1>7 DEF DuePassed, Busy
<1> QED
  BY <1>2, <1>4, <1>5, <1>6, <1>7
  DEF Next, Proceed, ReleaseAndAdvance, ReleaseClaimOnly, Abandon, Operator, Create, Activate,
      Pause, Disable, vars

(* What one attempt's step does to the set of boundaries under way.        *)
LEMMA UnderWayFrame ==
  ASSUME OneRunPerBoundary, NEW w \in Workers,
         \A v \in Workers \ {w} : attempt'[v] = attempt[v]
  PROVE  /\ attempt[w].stage # "running" /\ attempt'[w].stage # "running" => UNCHANGED UnderWay
         /\ attempt[w].stage # "running" /\ attempt'[w].stage = "running" =>
              UnderWay' = UnderWay \cup {Boundary(w)'}
         /\ attempt[w].stage = "running" /\ attempt'[w].stage # "running" =>
              Boundary(w) \in UnderWay /\ UnderWay' = UnderWay \ {Boundary(w)}
BY DEF UnderWay, OneRunPerBoundary, Boundary

LEMMA RefinementStep ==
  TypeOK /\ OneRunPerBoundary /\ DuePassed /\ [Next]_vars => [R!Next]_(R!vars)
<1> SUFFICES ASSUME TypeOK, OneRunPerBoundary, DuePassed, [Next]_vars PROVE [R!Next]_(R!vars)
  OBVIOUS
<1>1. ASSUME UNCHANGED <<executions, terminal, attempt>> PROVE UNCHANGED R!vars
  BY <1>1 DEF R!vars, UnderWay, Boundary
<1>2. ASSUME NEW w \in Workers, Busy(w) PROVE Boundary(w) \in Policies \X (0..MaxClock)
  <2>1. attempt[w] \in BusyAttempt /\ attempt[w].due <= clock /\ clock <= MaxClock
        /\ clock \in Nat
    BY <1>2, BusyType DEF DuePassed, TypeOK
  <2> QED
    BY <2>1, BoundsAssumption DEF Boundary, BusyAttempt
<1>3. ASSUME NEW w \in Workers, CreateExecution(w) PROVE R!Next
  <2>1. /\ Boundary(w)' = Boundary(w) /\ attempt'[w].stage = "running"
        /\ \A v \in Workers \ {w} : attempt'[v] = attempt[v]
    BY <1>3, BusyType DEF CreateExecution, Become, Boundary, TypeOK, Busy, BusyAttempt
  <2>2. UnderWay' = UnderWay \cup {Boundary(w)}
    BY <1>3, <2>1, UnderWayFrame DEF CreateExecution
  <2>3. R!Begin(Boundary(w))
    BY <1>3, <2>2 DEF CreateExecution, R!Begin
  <2> QED
    BY <1>2, <1>3, <2>3 DEF R!Next, CreateExecution, Busy
<1>4. ASSUME NEW w \in Workers, FinishRun(w) PROVE R!Next
  <2>1. /\ attempt'[w].stage # "running"
        /\ \A v \in Workers \ {w} : attempt'[v] = attempt[v]
    BY <1>4, BusyType DEF FinishRun, Become, TypeOK, Busy, BusyAttempt
  <2>2. Boundary(w) \in UnderWay /\ UnderWay' = UnderWay \ {Boundary(w)}
    BY <1>4, <2>1, UnderWayFrame DEF FinishRun
  <2>3. R!End(Boundary(w))
    BY <1>4, <2>2 DEF FinishRun, R!End
  <2> QED
    BY <1>2, <1>4, <2>3 DEF R!Next, FinishRun, Busy
<1>5. ASSUME NEW w \in Workers,
             Claim(w) \/ BoundaryTaken(w) \/ Reconcile(w) \/ RunRaises(w)
             \/ RunRaisesIntegrityError(w)
             \/ ReleaseAndAdvance(w) \/ ReleaseClaimOnly(w) \/ Abandon(w)
      PROVE  [R!Next]_(R!vars)
  <2>1. attempt'[w].stage # "running"
    BY <1>5, BusyType DEF Claim, BoundaryTaken, Reconcile, RunRaises, RunRaisesIntegrityError,
       ReleaseAndAdvance, ReleaseClaimOnly, Abandon, Become, Return, Idle, TypeOK, Busy,
       BusyAttempt
  <2>2. /\ \A v \in Workers \ {w} : attempt'[v] = attempt[v]
        /\ UNCHANGED <<executions, terminal>>
    BY <1>5 DEF Claim, BoundaryTaken, Reconcile, RunRaises, RunRaisesIntegrityError,
       ReleaseAndAdvance, ReleaseClaimOnly, Abandon, Become, Return, TypeOK
  <2>3. CASE attempt[w].stage # "running"
    BY <2>1, <2>2, <2>3, UnderWayFrame DEF R!vars
  <2>4. CASE attempt[w].stage = "running"
    <3>1. R!Lose(Boundary(w))
      BY <2>1, <2>2, <2>4, UnderWayFrame DEF R!Lose
    <3> QED
      BY <1>2, <2>4, <3>1 DEF R!Next, Busy
  <2> QED
    BY <2>3, <2>4
<1>6. ASSUME NEW p \in Policies, Operator(p) PROVE UNCHANGED <<executions, terminal, attempt>>
  BY <1>6 DEF Operator, Create, Activate, Pause, Disable
<1> QED
  BY <1>1, <1>3, <1>4, <1>5, <1>6 DEF Next, Proceed, Tick, vars

(* The scheduler of M14 keeps the promise of BoundaryRuns, whatever the    *)
(* lease and however long attempts take.                                   *)
THEOREM ImplementsBoundaryRuns == Spec => RefinesBoundaryRuns
<1>1. Init => R!Init /\ DuePassed
  BY BoundsAssumption DEF Init, R!Init, UnderWay, Idle, DuePassed, Busy
<1> QED
  BY <1>1, DueStep, RefinementStep, TypeCorrect, BoundariesRunOnce, PTL
  DEF Spec, RefinesBoundaryRuns, R!Spec

(* A boundary whose run raised, was stopped or died after its insert never *)
(* gets a result, however often it is claimed again: what cv_retry_lost    *)
(* shows of one boundary is the fate of all of them.                       *)
THEOREM LostBoundariesStayLost == Spec => R!OrphansStay
BY ImplementsBoundaryRuns, R!OrphansAreForever DEF RefinesBoundaryRuns

-----------------------------------------------------------------------------
(* What DueBoundaryRuns rests on: a claim is a lock with a time limit.     *)

(* A policy that is due and cannot be claimed was claimed within the last  *)
(* Lease ticks, whoever claimed it and whatever became of the claimant     *)
(* (claim_one_due_policy).                                                 *)
ClaimsExpire ==
  \A p \in Policies :
    policy[p].lifecycle = "active" /\ policy[p].next_due_at \in 0..clock /\ ~Claimable(p)
      => policy[p].claimed_at \in (clock - Lease)..clock

ClaimsPast == \A p \in Policies : policy[p].claimed_at <= clock

LEMMA PastStep == TypeOK /\ ClaimsPast /\ [Next]_vars => ClaimsPast'
<1> SUFFICES ASSUME TypeOK, ClaimsPast, [Next]_vars, NEW p \in Policies
             PROVE  policy'[p].claimed_at <= clock'
  BY DEF ClaimsPast
<1>0. clock' = clock \/ clock' = clock + 1
  BY DEF Next, Operator, Create, Activate, Pause, Disable, Claim, Proceed, CreateExecution,
         BoundaryTaken, FinishRun, Reconcile, ReleaseAndAdvance, ReleaseClaimOnly, RunRaises,
         RunRaisesIntegrityError, Abandon, Tick, vars
<1>1. /\ clock \in Nat /\ clock <= clock' /\ clock' \in Nat
      /\ policy[p] \in PolicyRow /\ policy[p].claimed_at \in Int
  BY <1>0 DEF TypeOK, PolicyRow, Times, NoTime
<1> DEFINE Stamped == \/ policy'[p].claimed_at = policy[p].claimed_at
                      \/ policy'[p].claimed_at = NoTime
                      \/ policy'[p].claimed_at = clock
<1>2. SUFFICES Stamped
  BY <1>1 DEF ClaimsPast, NoTime
<1>3. ASSUME NEW q \in Policies, Operator(q) PROVE Stamped
  BY <1>1, <1>3 DEF TypeOK, Operator, Create, Activate, Pause, Disable, PolicyRow
<1>4. ASSUME NEW w \in Workers, Claim(w) PROVE Stamped
  BY <1>1, <1>4 DEF TypeOK, Claim, PolicyRow
<1>5. ASSUME NEW w \in Workers, ReleaseAndAdvance(w) \/ ReleaseClaimOnly(w) PROVE Stamped
  <2> DEFINE q == attempt[w].policy
             moved == AdvanceSchedule(policy[q], Interval[q], attempt[w].now)
  <2>1. q \in Policies /\ policy[q] \in PolicyRow /\ moved \in PolicyRow
    BY <1>5, BusyType, IntervalAssumption, AdvanceType
    DEF ReleaseAndAdvance, ReleaseClaimOnly, Busy, BusyAttempt, TypeOK
  <2> HIDE DEF moved
  <2>2. ReleaseClaim(moved).claimed_at = NoTime /\ ReleaseClaim(policy[q]).claimed_at = NoTime
    BY <2>1 DEF ReleaseClaim, PolicyRow
  <2>3. policy'[p] = policy[p] \/ policy'[p] = ReleaseClaim(moved)
        \/ policy'[p] = ReleaseClaim(policy[q])
    BY <1>5, <2>1 DEF ReleaseAndAdvance, ReleaseClaimOnly, MutateUnderLock, TypeOK, moved
  <2> QED
    BY <2>2, <2>3
<1> QED
  BY <1>3, <1>4, <1>5 DEF Next, Proceed, CreateExecution, BoundaryTaken, FinishRun, Reconcile,
     RunRaises, RunRaisesIntegrityError, Abandon, Tick, vars

(* No fault, crash or operator leaves a due policy locked for longer than  *)
(* the lease: the clock alone makes it claimable again.                    *)
THEOREM ClaimsAreLeases == Spec => []ClaimsExpire
<1>1. Init => ClaimsPast
  BY DEF Init, ClaimsPast, NoTime
<1>2. TypeOK /\ ClaimsPast => ClaimsExpire
  <2> SUFFICES ASSUME TypeOK, ClaimsPast, NEW p \in Policies, policy[p].lifecycle = "active",
                      policy[p].next_due_at \in 0..clock, ~Claimable(p)
               PROVE  policy[p].claimed_at \in (clock - Lease)..clock
    BY DEF ClaimsExpire
  <2>1. clock \in Nat /\ policy[p].claimed_at \in Int /\ policy[p].claimed_at <= clock
    BY DEF TypeOK, PolicyRow, Times, NoTime, ClaimsPast
  <2>2. ~(policy[p].claimed_at < clock - Lease)
    BY <2>1 DEF Claimable, NoTime
  <2> QED
    BY <2>1, <2>2, BoundsAssumption
<1> QED
  BY <1>1, <1>2, PastStep, TypeCorrect, PTL DEF Spec
=============================================================================
