----------------------- MODULE NetworkSchedulerProofs -----------------------
(***************************************************************************)
(* Theorems about the network monitoring scheduler, for every set of       *)
(* policies, attempts and requests, every cadence, lease and run bound.    *)
(***************************************************************************)
EXTENDS NetworkScheduler, TLAPS

(* What is written to the policy table.                                    *)

LEMMA MergeType ==
  ASSUME NEW a \in PolicyRow, NEW b \in PolicyRow, NEW c \in PolicyRow
  PROVE  Merge(a, b, c) \in PolicyRow
BY DEF Merge, PolicyRow

(* Without a change since it was read, the row written is the one in       *)
(* memory.                                                                 *)
LEMMA MergeSame ==
  ASSUME NEW a \in PolicyRow, NEW c \in PolicyRow
  PROVE  Merge(a, a, c) = c
BY DEF Merge, PolicyRow

LEMMA TransitionType ==
  ASSUME NEW row \in PolicyRow, NEW to \in {"active", "paused", "disabled"}, clock \in Nat
  PROVE  Transition(row, to) \in PolicyRow
BY DEF Transition, PolicyRow, Lifecycles, Times, NoTime

LEMMA AdvanceType ==
  ASSUME NEW row \in PolicyRow, NEW i \in Nat \ {0}, NEW now \in Nat
  PROVE  AdvanceSchedule(row, i, now) \in PolicyRow
<1> DEFINE elapsed == now - row.next_due_at
           missed  == IF elapsed >= 0 THEN elapsed \div i ELSE 0
<1>1. CASE row.next_due_at = NoTime
  BY <1>1 DEF AdvanceSchedule
<1>2. CASE row.next_due_at # NoTime
  <2>1. row.next_due_at \in Nat
    BY <1>2 DEF PolicyRow, Times
  <2>2. missed \in Nat
    BY <2>1
  <2>3. row.next_due_at + (missed + 1) * i \in Nat
    BY <2>1, <2>2
  <2> HIDE DEF missed
  <2>4. [row EXCEPT !.next_due_at = @ + (missed + 1) * i, !.last_scheduled_at = now] \in PolicyRow
    BY <2>3 DEF PolicyRow, Times
  <2> QED
    BY <1>2, <2>4 DEF AdvanceSchedule, missed, elapsed
<1> QED
  BY <1>1, <1>2

LEMMA ReleaseType ==
  ASSUME NEW row \in PolicyRow
  PROVE  ReleaseClaim(row) \in PolicyRow
BY DEF ReleaseClaim, PolicyRow, Times

LEMMA BusyType ==
  ASSUME TypeOK, NEW w \in Workers, Busy(w)
  PROVE  attempt[w] \in Attempt
BY DEF TypeOK, Busy, Idle

LEMMA RequestType ==
  ASSUME TypeOK, NEW o \in Operators, request[o] # Idle
  PROVE  request[o] \in Request
BY DEF TypeOK

(* A step of one attempt to another stage.                                 *)
LEMMA BecomeType ==
  ASSUME TypeOK, NEW w \in Workers, NEW s \in Stages, Busy(w), Become(w, s)
  PROVE  attempt' \in [Workers -> {Idle} \cup Attempt]
BY BusyType DEF TypeOK, Become, Attempt

-----------------------------------------------------------------------------
(* Types, and one run per boundary.                                        *)

LEMMA OperatorType ==
  ASSUME TypeOK, NEW o \in Operators, OperatorStep(o)
  PROVE  TypeOK'
<1>1. ASSUME NEW p \in Policies, NEW to \in {"active", "paused", "disabled"}, Load(o, p, to)
      PROVE  TypeOK'
  <2>1. policy[p] \in PolicyRow /\ Transition(policy[p], to) \in PolicyRow
    BY TransitionType DEF TypeOK
  <2> QED
    BY <1>1, <2>1 DEF TypeOK, Load, Request
<1>2. CASE SaveRead(o)
  <2>1. request[o] \in Request
    BY <1>2, RequestType DEF SaveRead, Idle
  <2>2. policy[request[o].policy] \in PolicyRow
    BY <2>1 DEF TypeOK, Request
  <2> QED
    BY <1>2, <2>1, <2>2 DEF TypeOK, SaveRead, Request
<1>3. CASE SaveWrite(o)
  <2> DEFINE r == request[o]
  <2>1. r \in Request
    BY <1>3, RequestType DEF SaveWrite, Idle
  <2>2. Merge(policy[r.policy], r.seen, r.row) \in PolicyRow
    BY <2>1, MergeType DEF TypeOK, Request
  <2>3. policy' \in [Policies -> PolicyRow]
    BY <1>3, <2>1, <2>2 DEF TypeOK, SaveWrite
  <2>4. lost' \subseteq Policies
    BY <1>3, <2>1 DEF TypeOK, SaveWrite, Request
  <2> QED
    BY <1>3, <2>3, <2>4 DEF TypeOK, SaveWrite
<1>4. CASE Drop(o)
  BY <1>4 DEF TypeOK, Drop
<1> QED
  BY <1>1, <1>2, <1>3, <1>4 DEF OperatorStep

(* The row an attempt releases.                                            *)
LEMMA MutateType ==
  ASSUME TypeOK, NEW w \in Workers, ReleaseAndAdvance(w) \/ ReleaseClaimOnly(w)
  PROVE  policy' \in [Policies -> PolicyRow]
<1> DEFINE p == attempt[w].policy
<1>1. p \in Policies /\ attempt[w].now \in Nat
  BY BusyType DEF ReleaseAndAdvance, ReleaseClaimOnly, Busy, Attempt
<1>2. policy[p] \in PolicyRow /\ Interval[p] \in Nat \ {0}
  BY <1>1, NetworkIntervals DEF TypeOK
<1>3. /\ ReleaseClaim(AdvanceSchedule(policy[p], Interval[p], attempt[w].now)) \in PolicyRow
      /\ ReleaseClaim(policy[p]) \in PolicyRow
  BY <1>1, <1>2, AdvanceType, ReleaseType
<1> QED
  BY <1>3 DEF TypeOK, ReleaseAndAdvance, ReleaseClaimOnly, MutateUnderLock

(* That a finishing run closes a row that exists rests on                  *)
(* OneRunPerBoundary.                                                      *)
LEMMA TypeStep == TypeOK /\ OneRunPerBoundary /\ [Next]_vars => TypeOK'
<1> SUFFICES ASSUME TypeOK, OneRunPerBoundary, [Next]_vars PROVE TypeOK'
  OBVIOUS
<1>1. ASSUME NEW p \in Policies, Create(p) PROVE TypeOK'
  BY <1>1 DEF TypeOK, Create, PolicyRow, Lifecycles
<1>2. ASSUME NEW w \in Workers, Claim(w) PROVE TypeOK'
  <2>1. PICK p \in Policies :
          /\ Claimable(p)
          /\ policy' = [policy EXCEPT ![p].claimed_at = clock]
          /\ attempt' = [attempt EXCEPT ![w] = [stage |-> "claimed", policy |-> p,
                                               due |-> policy[p].next_due_at, now |-> clock]]
    BY <1>2 DEF Claim
  <2>2. policy[p].next_due_at \in Nat
    BY <2>1 DEF TypeOK, Claimable, PolicyRow, Times
  <2>3. attempt' \in [Workers -> {Idle} \cup Attempt]
    BY <2>1, <2>2 DEF TypeOK, Attempt, Stages
  <2>4. policy' \in [Policies -> PolicyRow]
    BY <2>1 DEF TypeOK, PolicyRow, Times
  <2> QED
    BY <1>2, <2>3, <2>4 DEF TypeOK, Claim
<1>3. ASSUME NEW w \in Workers, Insert(w) PROVE TypeOK'
  BY <1>3, BecomeType, BusyType DEF TypeOK, Insert, Boundary, Busy, Stages, Attempt
<1>4. ASSUME NEW w \in Workers, Refused(w) \/ Reconcile(w) PROVE TypeOK'
  BY <1>4, BecomeType DEF TypeOK, Refused, Reconcile, Busy, Stages
<1>5. ASSUME NEW w \in Workers, Finish(w) PROVE TypeOK'
  BY <1>5, BecomeType DEF TypeOK, OneRunPerBoundary, Finish, Busy, Stages
<1>6. ASSUME NEW w \in Workers, ReleaseAndAdvance(w) \/ ReleaseClaimOnly(w) PROVE TypeOK'
  BY <1>6, MutateType DEF TypeOK, ReleaseAndAdvance, ReleaseClaimOnly, Return
<1>7. ASSUME NEW w \in Workers, RunRaises(w) PROVE TypeOK'
  BY <1>7, BecomeType DEF TypeOK, RunRaises, Fault, Busy, Stages
<1>8. ASSUME NEW w \in Workers, Abandon(w) PROVE TypeOK'
  BY <1>8 DEF TypeOK, Abandon, Fault, Return
<1>9. CASE Tick \/ UNCHANGED vars
  BY <1>9 DEF TypeOK, Tick, vars
<1> QED
  BY <1>1, <1>2, <1>3, <1>4, <1>5, <1>6, <1>7, <1>8, <1>9, OperatorType DEF Next, Proceed

(* An operator's step leaves runs and attempts alone.                      *)
LEMMA OperatorFrame ==
  ASSUME NEW o \in Operators, OperatorStep(o)
  PROVE  UNCHANGED <<clock, runs, ended, attempt, faults>>
BY DEF OperatorStep, Load, SaveRead, SaveWrite, Drop

(* An attempt's step leaves the other attempts alone.                      *)
LEMMA AttemptFrame ==
  ASSUME TypeOK, NEW w \in Workers, Claim(w) \/ Proceed(w) \/ RunRaises(w) \/ Abandon(w)
  PROVE  /\ \A v \in Workers \ {w} : attempt'[v] = attempt[v]
         /\ UNCHANGED <<clock, request, lost>>
BY DEF TypeOK, Claim, Proceed, Insert, Refused, Finish, Reconcile, ReleaseAndAdvance,
       ReleaseClaimOnly, RunRaises, Abandon, Become, Return, Fault

LEMMA RunStep == TypeOK /\ OneRunPerBoundary /\ [Next]_vars => OneRunPerBoundary'
<1> SUFFICES ASSUME TypeOK, OneRunPerBoundary, [Next]_vars PROVE OneRunPerBoundary'
  OBVIOUS
<1>1. ASSUME UNCHANGED <<runs, ended, attempt>> PROVE OneRunPerBoundary'
  BY <1>1 DEF OneRunPerBoundary, Boundary
<1>2. ASSUME NEW w \in Workers, Insert(w) PROVE OneRunPerBoundary'
  <2>1. Boundary(w)' = Boundary(w) /\ \A v \in Workers \ {w} : attempt'[v] = attempt[v]
    BY <1>2, BusyType DEF Insert, Become, Boundary, TypeOK, Busy, Attempt
  <2>2. Boundary(w) \in runs' \ ended'
    BY <1>2 DEF Insert, TypeOK
  <2>3. \A v \in Workers \ {w} : attempt[v].stage = "running" =>
          Boundary(v) # Boundary(w) /\ Boundary(v) \in runs' \ ended'
    BY <1>2 DEF Insert, OneRunPerBoundary
  <2> QED
    BY <2>1, <2>2, <2>3 DEF OneRunPerBoundary, Boundary
<1>3. ASSUME NEW w \in Workers, Finish(w) PROVE OneRunPerBoundary'
  <2>1. attempt'[w].stage # "running" /\ \A v \in Workers \ {w} : attempt'[v] = attempt[v]
    BY <1>3, BusyType DEF Finish, Become, TypeOK, Busy, Attempt
  <2> QED
    BY <1>3, <2>1 DEF Finish, OneRunPerBoundary, Boundary
<1>4. ASSUME NEW w \in Workers,
             Claim(w) \/ Refused(w) \/ Reconcile(w) \/ RunRaises(w)
             \/ ReleaseAndAdvance(w) \/ ReleaseClaimOnly(w) \/ Abandon(w)
      PROVE  OneRunPerBoundary'
  <2>1. attempt'[w].stage # "running"
    BY <1>4, BusyType DEF Claim, Refused, Reconcile, RunRaises, ReleaseAndAdvance,
       ReleaseClaimOnly, Abandon, Become, Return, Idle, TypeOK, Busy, Attempt
  <2>2. /\ \A v \in Workers \ {w} : attempt'[v] = attempt[v]
        /\ UNCHANGED <<runs, ended>>
    BY <1>4, AttemptFrame DEF Claim, Proceed, Refused, Reconcile, RunRaises, ReleaseAndAdvance,
       ReleaseClaimOnly, Abandon
  <2> QED
    BY <2>1, <2>2 DEF OneRunPerBoundary, Boundary
<1> QED
  BY <1>1, <1>2, <1>3, <1>4, OperatorFrame DEF Next, Proceed, Create, Tick, vars

LEMMA RunInit == Init => TypeOK /\ OneRunPerBoundary
BY DEF Init, TypeOK, PolicyRow, Times, Lifecycles, Idle, NoTime, OneRunPerBoundary

(* Every reachable state is well typed, whatever columns a save merges.    *)
THEOREM SchedulerWellTyped == Spec => []TypeOK
BY RunInit, TypeStep, RunStep, PTL DEF Spec

(* However claims are lost, to the lease or to the save of a request, no   *)
(* boundary has two runs, nor one after its result (ux_nvr_policy_due).    *)
THEOREM BoundariesProbedOnce == Spec => []OneRunPerBoundary
BY RunInit, TypeStep, RunStep, PTL DEF Spec

-----------------------------------------------------------------------------
(* What a request carries: a legal transition of a row that was there.     *)

RequestsLegal ==
  \A o \in Operators : request[o] # Idle =>
    /\ request[o].base.lifecycle \notin {"absent", "disabled"}
    /\ \/ request[o].row.lifecycle = "disabled"
       \/ request[o].row.claimed_at = request[o].base.claimed_at

LEMMA RequestsStep == TypeOK /\ RequestsLegal /\ [Next]_vars => RequestsLegal'
<1> SUFFICES ASSUME TypeOK, RequestsLegal, [Next]_vars, NEW v \in Operators, request'[v] # Idle
             PROVE  RequestsLegal!(v)'
  BY DEF RequestsLegal
<1>1. CASE request'[v] = request[v]
  BY <1>1 DEF RequestsLegal
<1>2. ASSUME NEW o \in Operators, NEW p \in Policies, NEW to \in {"active", "paused", "disabled"},
             Load(o, p, to), request'[v] # request[v]
      PROVE  RequestsLegal!(v)'
  <2>1. /\ request'[v].base = policy[p]
        /\ request'[v].row = Transition(policy[p], to)
    BY <1>2 DEF Load, TypeOK
  <2>2. policy[p] \in PolicyRow
    BY DEF TypeOK
  <2> QED
    BY <1>2, <2>1, <2>2 DEF Load, LegalTransition, Transition, PolicyRow
<1>3. ASSUME NEW o \in Operators, SaveRead(o), request'[v] # request[v] PROVE RequestsLegal!(v)'
  <2>1. v = o /\ request[o] # Idle
    BY <1>3 DEF SaveRead, Idle, TypeOK
  <2>2. request[o] \in Request
    BY <2>1, RequestType
  <2>3. request'[v].base = request[v].base /\ request'[v].row = request[v].row
    BY <1>3, <2>1, <2>2 DEF SaveRead, TypeOK, Request
  <2> QED
    BY <2>1, <2>3 DEF RequestsLegal
<1>4. ASSUME NEW o \in Operators, SaveWrite(o) \/ Drop(o) PROVE request'[v] = request[v]
  BY <1>4 DEF SaveWrite, Drop, TypeOK
<1>5. ASSUME NEW w \in Workers, Claim(w) \/ Proceed(w) \/ RunRaises(w) \/ Abandon(w)
      PROVE  request'[v] = request[v]
  BY <1>5, AttemptFrame
<1> QED
  BY <1>1, <1>2, <1>3, <1>4, <1>5 DEF Next, OperatorStep, Create, Tick, vars

(* A request that missed nothing makes its transition, and one that missed *)
(* something leaves its mark.                                              *)
LEMMA SaveEffect ==
  ASSUME TypeOK, RequestsLegal, NEW o \in Operators, OperatorStep(o), NEW p \in Policies \ lost'
  PROVE  /\ p \notin lost
         /\ \/ policy'[p] = policy[p]
            \/ /\ policy[p].lifecycle \notin {"absent", "disabled"}
               /\ \/ policy'[p].lifecycle = "disabled"
                  \/ policy'[p].claimed_at = policy[p].claimed_at
<1>1. CASE UNCHANGED <<policy, lost>>
  BY <1>1
<1>2. CASE SaveWrite(o)
  <2> DEFINE r == request[o]
  <2>1. r # Idle /\ r \in Request
    BY <1>2, RequestType DEF SaveWrite, Idle
  <2>2. CASE r.policy # p
    BY <1>2, <2>2 DEF SaveWrite, TypeOK
  <2>3. CASE r.policy = p
    <3>1. policy[p] = r.base /\ r.seen = r.base /\ p \notin lost
      BY <1>2, <2>3 DEF SaveWrite
    <3>2. policy'[p] = Merge(r.base, r.base, r.row)
      BY <1>2, <2>3, <3>1 DEF SaveWrite, TypeOK
    <3>3. policy'[p] = r.row
      BY <2>1, <3>2, MergeSame DEF Request
    <3> QED
      BY <2>1, <3>1, <3>3 DEF RequestsLegal
  <2> QED
    BY <2>2, <2>3
<1> QED
  BY <1>1, <1>2 DEF OperatorStep, Load, SaveRead, Drop

-----------------------------------------------------------------------------
(* Claim exclusion, for the policies on which no request was lost.  The row*)
(* of a policy under work still carries the claim of the attempt, or is    *)
(* DISABLED, and the claim is no older than RunBound.                      *)
HoldsClaim ==
  \A w \in Workers : Busy(w) /\ attempt[w].policy \notin lost =>
    \/ policy[attempt[w].policy].lifecycle = "disabled"
    \/ policy[attempt[w].policy].claimed_at = attempt[w].now

WithinBound ==
  \A w \in Workers : Busy(w) => clock <= attempt[w].now + RunBound

Exclusive ==
  \A v, w \in Workers :
    Busy(v) /\ Busy(w) /\ attempt[v].policy = attempt[w].policy /\ attempt[v].policy \notin lost
      => v = w

ClaimInv == TypeOK /\ RequestsLegal /\ HoldsClaim /\ WithinBound /\ Exclusive

(* A busy attempt moving on keeps what it was claimed with.                *)
LEMMA BecomeKeeps ==
  ASSUME ClaimInv, NEW w \in Workers, NEW s \in Stages, Busy(w), Become(w, s),
         UNCHANGED <<clock, policy, lost>>, TypeOK', RequestsLegal'
  PROVE  ClaimInv'
<1>1. \A v \in Workers : Busy(v)' = Busy(v)
  BY DEF Become, Busy, ClaimInv, TypeOK, Stages
<1>2. \A v \in Workers : Busy(v) =>
        attempt'[v].policy = attempt[v].policy /\ attempt'[v].now = attempt[v].now
  BY BusyType DEF Become, ClaimInv, TypeOK, Attempt
<1> QED
  BY <1>1, <1>2 DEF ClaimInv, HoldsClaim, WithinBound, Exclusive

(* An attempt that returns changes its own policy at most, and unless a    *)
(* request was lost nobody else works on it.                               *)
LEMMA ReturnKeeps ==
  ASSUME ClaimInv, NEW w \in Workers, Busy(w), Return(w), UNCHANGED <<clock, lost>>,
         TypeOK', RequestsLegal',
         \A p \in Policies \ {attempt[w].policy} : policy'[p] = policy[p]
  PROVE  ClaimInv'
<1>1. ~Busy(w)'
  BY DEF Return, Busy, Idle, ClaimInv, TypeOK
<1>2. \A v \in Workers \ {w} : attempt'[v] = attempt[v]
  BY DEF Return, ClaimInv, TypeOK
<1>3. \A v \in Workers \ {w} : Busy(v) /\ attempt[v].policy \notin lost =>
        policy'[attempt[v].policy] = policy[attempt[v].policy]
  BY BusyType DEF ClaimInv, Exclusive, Attempt
<1> QED
  BY <1>1, <1>2, <1>3 DEF ClaimInv, HoldsClaim, WithinBound, Exclusive, Busy

LEMMA ClaimStep ==
  RunBound <= Lease /\ ClaimInv /\ OneRunPerBoundary /\ [Next]_vars => ClaimInv'
<1> SUFFICES ASSUME RunBound <= Lease, ClaimInv, OneRunPerBoundary, [Next]_vars PROVE ClaimInv'
  OBVIOUS
<1>0. TypeOK /\ TypeOK' /\ RequestsLegal /\ RequestsLegal'
  BY TypeStep, RequestsStep DEF ClaimInv
<1>1. ASSUME NEW o \in Operators, OperatorStep(o) PROVE ClaimInv'
  <2>1. UNCHANGED <<clock, attempt>>
    BY <1>1, OperatorFrame
  <2>2. \A p \in Policies : p \notin lost' =>
          /\ p \notin lost
          /\ \/ policy'[p] = policy[p]
             \/ /\ policy[p].lifecycle # "disabled"
                /\ \/ policy'[p].lifecycle = "disabled"
                   \/ policy'[p].claimed_at = policy[p].claimed_at
    BY <1>0, <1>1, SaveEffect
  <2>3. \A w \in Workers : Busy(w) => attempt[w].policy \in Policies
    BY <1>0, BusyType DEF Attempt
  <2>4. HoldsClaim'
    BY <2>1, <2>2, <2>3 DEF ClaimInv, HoldsClaim, Busy
  <2>5. Exclusive'
    BY <2>1, <2>2, <2>3 DEF ClaimInv, Exclusive, Busy
  <2> QED
    BY <1>0, <2>1, <2>4, <2>5 DEF ClaimInv, WithinBound, Busy
<1>2. ASSUME NEW p \in Policies, Create(p) PROVE ClaimInv'
  <2>1. \A q \in Policies : /\ policy'[q].claimed_at = policy[q].claimed_at
                            /\ policy[q].lifecycle = "disabled" => policy'[q] = policy[q]
    BY <1>0, <1>2 DEF Create, TypeOK, PolicyRow
  <2>2. \A w \in Workers : Busy(w) => attempt[w].policy \in Policies
    BY <1>0, BusyType DEF Attempt
  <2>3. UNCHANGED <<clock, attempt, lost>>
    BY <1>2 DEF Create
  <2> QED
    BY <1>0, <2>1, <2>2, <2>3 DEF ClaimInv, HoldsClaim, WithinBound, Exclusive, Busy
<1>3. ASSUME NEW w \in Workers, Claim(w) PROVE ClaimInv'
  <2>1. PICK p \in Policies :
          /\ Claimable(p)
          /\ policy' = [policy EXCEPT ![p].claimed_at = clock]
          /\ attempt' = [attempt EXCEPT ![w] = [stage |-> "claimed", policy |-> p,
                                               due |-> policy[p].next_due_at, now |-> clock]]
    BY <1>3 DEF Claim
  <2>2. \A v \in Workers : Busy(v) /\ p \notin lost => attempt[v].policy # p
    <3> SUFFICES ASSUME NEW v \in Workers, Busy(v), p \notin lost, attempt[v].policy = p
                 PROVE  FALSE
      OBVIOUS
    <3>1. attempt[v].now \in Nat /\ clock \in Nat
      BY <1>0, BusyType DEF Attempt, TypeOK
    <3>2. policy[p].claimed_at = attempt[v].now
      BY <2>1 DEF Claimable, ClaimInv, HoldsClaim
    <3>3. clock <= attempt[v].now + RunBound
      BY DEF ClaimInv, WithinBound
    <3> QED
      BY <2>1, <3>1, <3>2, <3>3, NetworkBounds DEF Claimable, NoTime
  <2>3. /\ \A v \in Workers \ {w} : attempt'[v] = attempt[v]
        /\ UNCHANGED <<clock, lost>>
    BY <1>0, <1>3, AttemptFrame
  <2>4. /\ attempt'[w].policy = p
        /\ attempt'[w].now = clock
        /\ policy'[p].claimed_at = clock
    BY <1>0, <2>1 DEF TypeOK, PolicyRow
  <2>5. \A q \in Policies \ {p} : policy'[q] = policy[q]
    BY <1>0, <2>1 DEF TypeOK
  <2>6. \A v \in Workers \ {w} : Busy(v) /\ attempt[v].policy \notin lost =>
          attempt[v].policy \in Policies \ {p}
    BY <1>0, <2>2, BusyType DEF Attempt
  <2>7. HoldsClaim'
    BY <2>3, <2>4, <2>5, <2>6 DEF ClaimInv, HoldsClaim, Busy
  <2>8. WithinBound'
    BY <1>0, <2>3, <2>4, NetworkBounds DEF ClaimInv, WithinBound, Busy, TypeOK
  <2>9. Exclusive'
    BY <2>2, <2>3, <2>4 DEF ClaimInv, Exclusive, Busy
  <2> QED
    BY <1>0, <2>7, <2>8, <2>9 DEF ClaimInv
<1>4. ASSUME NEW w \in Workers,
             Insert(w) \/ Refused(w) \/ Finish(w) \/ Reconcile(w) \/ RunRaises(w)
      PROVE  ClaimInv'
  <2>1. Busy(w) /\ UNCHANGED <<clock, policy, lost>>
    BY <1>4 DEF Insert, Refused, Finish, Reconcile, RunRaises, Busy
  <2>2. \E s \in Stages : Become(w, s)
    BY <1>4 DEF Insert, Refused, Finish, Reconcile, RunRaises, Stages
  <2> QED
    BY <1>0, <2>1, <2>2, BecomeKeeps
<1>5. ASSUME NEW w \in Workers, ReleaseAndAdvance(w) \/ ReleaseClaimOnly(w) \/ Abandon(w)
      PROVE  ClaimInv'
  <2>1. Busy(w) /\ Return(w) /\ UNCHANGED <<clock, lost>>
    BY <1>5 DEF ReleaseAndAdvance, ReleaseClaimOnly, Abandon, Busy
  <2>2. \A p \in Policies \ {attempt[w].policy} : policy'[p] = policy[p]
    BY <1>0, <1>5 DEF ReleaseAndAdvance, ReleaseClaimOnly, Abandon, MutateUnderLock, TypeOK
  <2> QED
    BY <1>0, <2>1, <2>2, ReturnKeeps
<1>6. CASE Tick
  <2>1. WithinBound'
    BY <1>0, <1>6, BusyType, NetworkBounds DEF Tick, WithinBound, Busy, TypeOK, Attempt
  <2> QED
    BY <1>0, <1>6, <2>1 DEF Tick, ClaimInv, HoldsClaim, Exclusive, Busy
<1>7. CASE UNCHANGED vars
  BY <1>0, <1>7 DEF vars, ClaimInv, HoldsClaim, WithinBound, Exclusive, Busy
<1> QED
  BY <1>1, <1>2, <1>3, <1>4, <1>5, <1>6, <1>7 DEF Next, Proceed

(* As long as attempts end within the lease and no request on a policy was *)
(* lost, no two attempts work on it, for any number of policies, attempts, *)
(* requests and faults (claim_one_due_policy()).                           *)
THEOREM ClaimsExcludeUnlessLost == Spec => []ClaimExclusive
<1>1. CASE RunBound <= Lease
  <2>1. Init => ClaimInv
    BY RunInit DEF Init, ClaimInv, Idle, RequestsLegal, HoldsClaim, WithinBound, Exclusive, Busy
  <2>2. ClaimInv /\ OneRunPerBoundary /\ [Next]_vars => ClaimInv'
    BY <1>1, ClaimStep
  <2>3. ClaimInv => ClaimExclusive
    BY DEF ClaimInv, Exclusive, ClaimExclusive
  <2> QED
    BY <2>1, <2>2, <2>3, BoundariesProbedOnce, PTL DEF Spec
<1>2. CASE ~(RunBound <= Lease)
  <2>1. ClaimExclusive
    BY <1>2 DEF ClaimExclusive
  <2> QED
    BY <2>1, PTL
<1> QED
  BY <1>1, <1>2

-----------------------------------------------------------------------------
(* Disabled policies.                                                      *)

(* While no request on it was lost, a DISABLED policy never changes again, *)
(* whatever was in flight when it was disabled.  So the lost update is the *)
(* only way the code breaks DisabledIsFinal.                               *)
THEOREM DisabledStaysUnlessLost == Spec => DisabledIsFinalUnlessLost
<1> DEFINE Final == \A p \in Policies \ lost' :
                      policy[p].lifecycle = "disabled" => policy'[p] = policy[p]
<1>1. TypeOK /\ RequestsLegal /\ [Next]_vars => Final
  <2> SUFFICES ASSUME TypeOK, RequestsLegal, [Next]_vars,
                      NEW p \in Policies \ lost', policy[p].lifecycle = "disabled"
               PROVE  policy'[p] = policy[p]
    OBVIOUS
  <2>1. ASSUME NEW o \in Operators, OperatorStep(o) PROVE policy'[p] = policy[p]
    BY <2>1, SaveEffect
  <2>2. ASSUME NEW w \in Workers, Claim(w) PROVE policy'[p] = policy[p]
    BY <2>2 DEF TypeOK, Claim, Claimable
  <2>3. ASSUME NEW w \in Workers, Proceed(w) PROVE policy'[p] = policy[p]
    BY <2>3 DEF TypeOK, Proceed, Insert, Refused, Finish, Reconcile, ReleaseAndAdvance,
                ReleaseClaimOnly, MutateUnderLock
  <2>4. ASSUME NEW q \in Policies, Create(q) PROVE policy'[p] = policy[p]
    BY <2>4 DEF TypeOK, Create
  <2> QED
    BY <2>1, <2>2, <2>3, <2>4 DEF Next, RunRaises, Abandon, Tick, vars
<1>2. TypeOK /\ RequestsLegal /\ [Next]_vars => [Final]_vars
  BY <1>1
<1>3. Init => RequestsLegal
  BY DEF Init, RequestsLegal
<1> QED
  BY <1>2, <1>3, RequestsStep, SchedulerWellTyped, PTL DEF Spec, DisabledIsFinalUnlessLost

-----------------------------------------------------------------------------
(* The schedule.                                                           *)

(* An attempt past the end of its run has a result for its boundary.       *)
ResultKept ==
  \A w \in Workers : attempt[w].stage \in {"reconciling", "ran"} => Boundary(w) \in ended

LEMMA ResultStep == TypeOK /\ ResultKept /\ [Next]_vars => ResultKept'
<1> SUFFICES ASSUME TypeOK, ResultKept, [Next]_vars,
                    NEW v \in Workers, attempt'[v].stage \in {"reconciling", "ran"}
             PROVE  Boundary(v)' \in ended'
  BY DEF ResultKept
<1>1. ended \subseteq ended'
  BY OperatorFrame DEF Next, Create, Claim, Proceed, Insert, Refused, Finish, Reconcile,
     ReleaseAndAdvance, ReleaseClaimOnly, RunRaises, Abandon, Tick, vars
<1>2. CASE attempt'[v] = attempt[v]
  BY <1>1, <1>2 DEF ResultKept, Boundary
<1>3. CASE Finish(v) \/ Reconcile(v)
  <2>1. Boundary(v)' = Boundary(v)
    BY <1>3, BusyType DEF Finish, Reconcile, Become, Boundary, TypeOK, Busy, Attempt
  <2> QED
    BY <1>3, <2>1 DEF Finish, Reconcile, ResultKept
<1>4. CASE Claim(v) \/ Insert(v) \/ Refused(v) \/ RunRaises(v) \/ Return(v)
  BY <1>4, BusyType DEF Claim, Insert, Refused, RunRaises, Become, Return, Idle, TypeOK, Busy,
                        Attempt
<1>5. ASSUME NEW w \in Workers \ {v}, Claim(w) \/ Proceed(w) \/ RunRaises(w) \/ Abandon(w)
      PROVE  attempt'[v] = attempt[v]
  BY <1>5, AttemptFrame
<1> QED
  BY <1>2, <1>3, <1>4, <1>5, OperatorFrame
  DEF Next, Proceed, ReleaseAndAdvance, ReleaseClaimOnly, Abandon, Create, Tick, vars

LEMMA DivBound ==
  ASSUME NEW a \in Nat, NEW b \in Nat \ {0}
  PROVE  a < (a \div b + 1) * b
OBVIOUS

(* advance_schedule() lands after now, whatever boundary it starts from.   *)
LEMMA AdvanceLater ==
  ASSUME NEW row \in PolicyRow, NEW i \in Nat \ {0}, NEW now \in Nat, row.next_due_at # NoTime
  PROVE  ReleaseClaim(AdvanceSchedule(row, i, now)).next_due_at > now
<1> DEFINE elapsed == now - row.next_due_at
           missed  == IF elapsed >= 0 THEN elapsed \div i ELSE 0
<1>1. row.next_due_at \in Nat
  BY DEF PolicyRow, Times
<1>2. ReleaseClaim(AdvanceSchedule(row, i, now)).next_due_at = row.next_due_at + (missed + 1) * i
  BY <1>1 DEF AdvanceSchedule, ReleaseClaim, PolicyRow, NoTime
<1>3. elapsed < (missed + 1) * i
  <2>1. CASE elapsed >= 0
    <3>1. elapsed \in Nat /\ missed = elapsed \div i
      BY <1>1, <2>1
    <3> HIDE DEF elapsed, missed
    <3> QED
      BY <3>1, DivBound
  <2>2. CASE ~(elapsed >= 0)
    BY <1>1, <2>2
  <2> QED
    BY <2>1, <2>2
<1>4. (missed + 1) * i \in Int
  BY <1>1
<1> HIDE DEF missed
<1> QED
  BY <1>1, <1>2, <1>3, <1>4

(* The schedule leaves the boundary of an attempt only with a result for   *)
(* it, and lands after the claim, although requests move the boundary and  *)
(* write old ones back.                                                    *)
THEOREM AdvancesHaveResults == Spec => ResultBeforeAdvance
<1> DEFINE Step == \A w \in Workers : Advances(w) =>
       /\ policy[attempt[w].policy].next_due_at = attempt[w].due => Boundary(w) \in ended
       /\ policy'[attempt[w].policy].next_due_at > attempt[w].now
<1>1. TypeOK /\ ResultKept /\ [Next]_vars => Step
  <2> SUFFICES ASSUME TypeOK, ResultKept, [Next]_vars, NEW w \in Workers, Advances(w)
               PROVE  /\ Boundary(w) \in ended
                      /\ policy'[attempt[w].policy].next_due_at > attempt[w].now
    OBVIOUS
  <2> DEFINE p == attempt[w].policy
  <2>1. p \in Policies /\ attempt[w].now \in Nat /\ policy[p] \in PolicyRow
        /\ Interval[p] \in Nat \ {0}
    BY BusyType, NetworkIntervals DEF Advances, Attempt, TypeOK
  <2>2. attempt'[w] # attempt[w]
    BY DEF Advances, Busy, Idle
  <2>3. ASSUME NEW v \in Workers \ {w}, Claim(v) \/ Proceed(v) \/ RunRaises(v) \/ Abandon(v)
        PROVE  FALSE
    BY <2>2, <2>3, AttemptFrame
  <2>4. ASSUME Claim(w) \/ Insert(w) \/ Refused(w) \/ Finish(w) \/ Reconcile(w) \/ RunRaises(w)
               \/ Abandon(w)
        PROVE  FALSE
    <3>1. CASE Abandon(w)
      BY <3>1 DEF Abandon, Advances
    <3>2. CASE Claim(w)
      BY <3>2 DEF Claim, Advances
    <3>3. CASE Insert(w) \/ Refused(w) \/ Finish(w) \/ Reconcile(w) \/ RunRaises(w)
      BY <3>3 DEF Insert, Refused, Finish, Reconcile, RunRaises, Advances
    <3> QED
      BY <2>4, <3>1, <3>2, <3>3
  <2>5. ASSUME ReleaseClaimOnly(w) PROVE FALSE
    BY <2>1, <2>5 DEF ReleaseClaimOnly, MutateUnderLock, ReleaseClaim, Advances, TypeOK, PolicyRow
  <2>6. ReleaseAndAdvance(w)
    BY <2>2, <2>3, <2>4, <2>5, OperatorFrame DEF Next, Proceed, Create, Tick, vars
  <2>7. policy'[p] = ReleaseClaim(AdvanceSchedule(policy[p], Interval[p], attempt[w].now))
    BY <2>1, <2>6 DEF ReleaseAndAdvance, MutateUnderLock, Advances, TypeOK
  <2>8. policy[p].next_due_at # NoTime
    BY <2>1, <2>7 DEF Advances, AdvanceSchedule, ReleaseClaim, PolicyRow
  <2> QED
    BY <2>1, <2>6, <2>7, <2>8, AdvanceLater DEF ReleaseAndAdvance, ResultKept
<1>2. TypeOK /\ ResultKept /\ [Next]_vars => [Step]_vars
  BY <1>1
<1>3. Init => ResultKept
  BY DEF Init, ResultKept, Idle
<1> QED
  BY <1>2, <1>3, ResultStep, SchedulerWellTyped, PTL DEF Spec, ResultBeforeAdvance

-----------------------------------------------------------------------------
(* The abstract scheduler.                                                 *)

(* Attempts are claimed for boundaries that have come, although requests   *)
(* write old boundaries back.                                              *)
DuePassed == /\ clock <= MaxClock
             /\ \A w \in Workers : Busy(w) => attempt[w].due <= clock

LEMMA DueStep == TypeOK /\ DuePassed /\ [Next]_vars => DuePassed'
<1> SUFFICES ASSUME TypeOK, DuePassed, [Next]_vars PROVE DuePassed'
  OBVIOUS
<1>1. clock \in Nat /\ \A v \in Workers : Busy(v) => attempt[v].due \in Nat
  BY BusyType DEF TypeOK, Attempt
<1>2. ASSUME NEW w \in Workers, Claim(w) PROVE DuePassed'
  <2>1. PICK p \in Policies :
          /\ Claimable(p)
          /\ attempt' = [attempt EXCEPT ![w] = [stage |-> "claimed", policy |-> p,
                                               due |-> policy[p].next_due_at, now |-> clock]]
    BY <1>2 DEF Claim
  <2>2. attempt'[w].due = policy[p].next_due_at /\ policy[p].next_due_at <= clock
        /\ UNCHANGED clock /\ \A v \in Workers \ {w} : attempt'[v] = attempt[v]
    BY <1>2, <2>1 DEF Claim, Claimable, TypeOK
  <2> QED
    BY <2>2 DEF DuePassed, Busy
<1>3. ASSUME NEW w \in Workers, NEW s \in Stages, Busy(w), Become(w, s), UNCHANGED clock
      PROVE  DuePassed'
  <2>1. \A v \in Workers : Busy(v)' = Busy(v) /\ (Busy(v) => attempt'[v].due = attempt[v].due)
    BY <1>3, BusyType DEF Become, Busy, TypeOK, Attempt, Stages
  <2> QED
    BY <1>3, <2>1 DEF DuePassed
<1>4. ASSUME NEW w \in Workers, Return(w), UNCHANGED clock PROVE DuePassed'
  BY <1>4 DEF Return, Idle, DuePassed, Busy, TypeOK
<1>5. ASSUME NEW w \in Workers,
             Insert(w) \/ Refused(w) \/ Finish(w) \/ Reconcile(w) \/ RunRaises(w)
      PROVE  DuePassed'
  <2>1. Busy(w) /\ UNCHANGED clock /\ \E s \in Stages : Become(w, s)
    BY <1>5 DEF Insert, Refused, Finish, Reconcile, RunRaises, Busy, Stages
  <2> QED
    BY <1>3, <2>1
<1>6. CASE Tick
  BY <1>1, <1>6, NetworkBounds DEF Tick, DuePassed, Busy
<1>7. ASSUME UNCHANGED <<clock, attempt>> PROVE DuePassed'
  BY <1>7 DEF DuePassed, Busy
<1> QED
  BY <1>2, <1>4, <1>5, <1>6, <1>7, OperatorFrame
  DEF Next, Proceed, ReleaseAndAdvance, ReleaseClaimOnly, Abandon, Create, vars

(* What one attempt's step does to the set of boundaries under way.        *)
LEMMA UnderWayFrame ==
  ASSUME OneRunPerBoundary, NEW w \in Workers,
         \A v \in Workers \ {w} : attempt'[v] = attempt[v]
  PROVE  /\ attempt[w].stage # "running" /\ attempt'[w].stage # "running" => UNCHANGED UnderWay
         /\ attempt[w].stage # "running" /\ attempt'[w].stage = "running" =>
              UnderWay' = UnderWay \cup {Boundary(w)'}
         /\ attempt[w].stage = "running" /\ attempt'[w].stage # "running" =>
              Boundary(w) \in UnderWay /\ UnderWay' = UnderWay \ {Boundary(w)}
BY DEF UnderWay, OneRunPerBoundary, Boundary

LEMMA RefinementStep ==
  TypeOK /\ OneRunPerBoundary /\ DuePassed /\ [Next]_vars => [R!Next]_(R!vars)
<1> SUFFICES ASSUME TypeOK, OneRunPerBoundary, DuePassed, [Next]_vars PROVE [R!Next]_(R!vars)
  OBVIOUS
<1>1. ASSUME UNCHANGED <<runs, ended, attempt>> PROVE UNCHANGED R!vars
  BY <1>1 DEF R!vars, UnderWay, Boundary
<1>2. ASSUME NEW w \in Workers, Busy(w) PROVE Boundary(w) \in Policies \X (0..MaxClock)
  <2>1. attempt[w] \in Attempt /\ attempt[w].due <= clock /\ clock <= MaxClock /\ clock \in Nat
    BY <1>2, BusyType DEF DuePassed, TypeOK
  <2> QED
    BY <2>1, NetworkBounds DEF Boundary, Attempt
<1>3. ASSUME NEW w \in Workers, Insert(w) PROVE R!Next
  <2>1. /\ Boundary(w)' = Boundary(w) /\ attempt'[w].stage = "running"
        /\ \A v \in Workers \ {w} : attempt'[v] = attempt[v]
    BY <1>3, BusyType DEF Insert, Become, Boundary, TypeOK, Busy, Attempt
  <2>2. UnderWay' = UnderWay \cup {Boundary(w)}
    BY <1>3, <2>1, UnderWayFrame DEF Insert
  <2>3. R!Begin(Boundary(w))
    BY <1>3, <2>2 DEF Insert, R!Begin
  <2> QED
    BY <1>2, <1>3, <2>3 DEF R!Next, Insert, Busy
<1>4. ASSUME NEW w \in Workers, Finish(w) PROVE R!Next
  <2>1. /\ attempt'[w].stage # "running"
        /\ \A v \in Workers \ {w} : attempt'[v] = attempt[v]
    BY <1>4, BusyType DEF Finish, Become, TypeOK, Busy, Attempt
  <2>2. Boundary(w) \in UnderWay /\ UnderWay' = UnderWay \ {Boundary(w)}
    BY <1>4, <2>1, UnderWayFrame DEF Finish
  <2>3. R!End(Boundary(w))
    BY <1>4, <2>2 DEF Finish, R!End
  <2> QED
    BY <1>2, <1>4, <2>3 DEF R!Next, Finish, Busy
<1>5. ASSUME NEW w \in Workers,
             Claim(w) \/ Refused(w) \/ Reconcile(w) \/ RunRaises(w)
             \/ ReleaseAndAdvance(w) \/ ReleaseClaimOnly(w) \/ Abandon(w)
      PROVE  [R!Next]_(R!vars)
  <2>1. attempt'[w].stage # "running"
    BY <1>5, BusyType DEF Claim, Refused, Reconcile, RunRaises, ReleaseAndAdvance,
       ReleaseClaimOnly, Abandon, Become, Return, Idle, TypeOK, Busy, Attempt
  <2>2. /\ \A v \in Workers \ {w} : attempt'[v] = attempt[v]
        /\ UNCHANGED <<runs, ended>>
    BY <1>5, AttemptFrame DEF Claim, Proceed, Refused, Reconcile, RunRaises, ReleaseAndAdvance,
       ReleaseClaimOnly, Abandon
  <2>3. CASE attempt[w].stage # "running"
    BY <2>1, <2>2, <2>3, UnderWayFrame DEF R!vars
  <2>4. CASE attempt[w].stage = "running"
    <3>1. R!Lose(Boundary(w))
      BY <2>1, <2>2, <2>4, UnderWayFrame DEF R!Lose
    <3> QED
      BY <1>2, <2>4, <3>1 DEF R!Next, Busy
  <2> QED
    BY <2>3, <2>4
<1> QED
  BY <1>1, <1>3, <1>4, <1>5, OperatorFrame DEF Next, Proceed, Create, Tick, vars

(* The scheduler of M16 keeps the promise of BoundaryRuns, whatever the    *)
(* lease and whatever requests write back.                                 *)
THEOREM NetworkImplementsBoundaryRuns == Spec => RefinesBoundaryRuns
<1>1. Init => R!Init /\ DuePassed
  BY NetworkBounds DEF Init, R!Init, UnderWay, Idle, DuePassed, Busy
<1> QED
  BY <1>1, DueStep, RefinementStep, SchedulerWellTyped, BoundariesProbedOnce, PTL
  DEF Spec, RefinesBoundaryRuns, R!Spec

(* A boundary whose run was lost after its insert never gets a result,     *)
(* however often it is claimed again.                                      *)
THEOREM LostProbesStayLost == Spec => R!OrphansStay
BY NetworkImplementsBoundaryRuns, R!OrphansAreForever DEF RefinesBoundaryRuns

-----------------------------------------------------------------------------
(* Why ns_stuck cannot end.                                                *)

(* The boundary of p has a row already, and every attempt on p has failed  *)
(* or is about to ask for that row again.                                  *)
Stuck(p, d) ==
  /\ policy[p].next_due_at = d
  /\ <<p, d>> \in runs
  /\ \A w \in Workers : Busy(w) /\ attempt[w].policy = p =>
       attempt[w].stage = "failed" \/ (attempt[w].stage = "claimed" /\ attempt[w].due = d)

(* No step of the scheduler gets a stuck policy past its boundary; only a  *)
(* request that sets another boundary does (process_one_due_policy(): its  *)
(* one except branch leaves next_due_at alone).                            *)
OnlyRequestsUnstick ==
  [][\A p \in Policies : \A d \in Nat :
       Stuck(p, d) => \/ Stuck(p, d)'
                      \/ \E o \in Operators : /\ SaveWrite(o)
                                              /\ request[o].policy = p
                                              /\ policy'[p].next_due_at # d]_vars

LEMMA RunsGrow == [Next]_vars => runs \subseteq runs'
BY OperatorFrame DEF Next, Create, Claim, Proceed, Insert, Refused, Finish, Reconcile,
   ReleaseAndAdvance, ReleaseClaimOnly, RunRaises, Abandon, Tick, vars

(* A policy whose run raised after its insert stays on that boundary for   *)
(* any number of retries, attempts and workers, until an operator          *)
(* re-anchors its schedule.                                                *)
THEOREM StuckUntilReanchored == Spec => OnlyRequestsUnstick
<1> DEFINE Unstuck(p, d) == \E o \in Operators : /\ SaveWrite(o)
                                                /\ request[o].policy = p
                                                /\ policy'[p].next_due_at # d
           Step == \A p \in Policies : \A d \in Nat :
                     Stuck(p, d) => \/ Stuck(p, d)'
                                    \/ \E o \in Operators : /\ SaveWrite(o)
                                                            /\ request[o].policy = p
                                                            /\ policy'[p].next_due_at # d
<1>1. TypeOK /\ [Next]_vars => Step
  <2> SUFFICES ASSUME TypeOK, [Next]_vars, NEW p \in Policies, NEW d \in Nat, Stuck(p, d)
               PROVE  Stuck(p, d)' \/ Unstuck(p, d)
    OBVIOUS
  <2> DEFINE Held(w) == Busy(w) /\ attempt[w].policy = p =>
               attempt[w].stage = "failed" \/ (attempt[w].stage = "claimed" /\ attempt[w].due = d)
  <2>0. <<p, d>> \in runs'
    BY RunsGrow DEF Stuck
  <2>1. ASSUME NEW o \in Operators, OperatorStep(o), ~Unstuck(p, d) PROVE Stuck(p, d)'
    <3>1. UNCHANGED attempt
      BY <2>1, OperatorFrame
    <3>2. policy'[p].next_due_at = d
      <4>1. CASE SaveWrite(o)
        <5>1. CASE request[o].policy = p
          BY <2>1, <4>1, <5>1
        <5>2. CASE request[o].policy # p
          BY <4>1, <5>2 DEF SaveWrite, Stuck, TypeOK
        <5> QED
          BY <5>1, <5>2
      <4> QED
        BY <2>1, <4>1 DEF OperatorStep, Load, SaveRead, Drop, Stuck
    <3> QED
      BY <2>0, <3>1, <3>2 DEF Stuck, Busy
  <2>2. ASSUME NEW w \in Workers, Held(w)',
               \A v \in Workers \ {w} : attempt'[v] = attempt[v],
               policy'[p].next_due_at = policy[p].next_due_at
        PROVE  Stuck(p, d)'
    BY <2>0, <2>2 DEF Stuck, Busy
  <2>3. ASSUME NEW w \in Workers, Claim(w) PROVE Stuck(p, d)'
    <3>1. PICK q \in Policies :
            /\ policy' = [policy EXCEPT ![q].claimed_at = clock]
            /\ attempt' = [attempt EXCEPT ![w] = [stage |-> "claimed", policy |-> q,
                                                 due |-> policy[q].next_due_at, now |-> clock]]
      BY <2>3 DEF Claim
    <3>2. policy'[p].next_due_at = policy[p].next_due_at
      BY <3>1 DEF TypeOK, PolicyRow
    <3>3. Held(w)'
      BY <3>1 DEF TypeOK, Stuck
    <3> QED
      BY <2>2, <2>3, <3>2, <3>3, AttemptFrame
  <2>4. ASSUME NEW w \in Workers,
               Insert(w) \/ Refused(w) \/ Finish(w) \/ Reconcile(w) \/ RunRaises(w)
        PROVE  Stuck(p, d)'
    <3>1. /\ Busy(w) /\ attempt[w] \in Attempt /\ UNCHANGED policy
          /\ \A v \in Workers \ {w} : attempt'[v] = attempt[v]
      BY <2>4, BusyType, AttemptFrame
      DEF Proceed, Insert, Refused, Finish, Reconcile, RunRaises, Busy
    <3>2. Held(w)'
      <4>1. CASE attempt[w].policy # p
        BY <2>4, <3>1, <4>1
        DEF Insert, Refused, Finish, Reconcile, RunRaises, Become, TypeOK, Attempt
      <4>2. CASE attempt[w].policy = p
        <5>1. Refused(w) \/ RunRaises(w)
          BY <2>4, <3>1, <4>2 DEF Insert, Finish, Reconcile, Stuck, Boundary
        <5> QED
          BY <3>1, <5>1 DEF Refused, RunRaises, Become, TypeOK, Attempt
      <4> QED
        BY <4>1, <4>2
    <3> QED
      BY <2>2, <3>1, <3>2
  <2>5. ASSUME NEW w \in Workers, ReleaseAndAdvance(w) \/ ReleaseClaimOnly(w) \/ Abandon(w)
        PROVE  Stuck(p, d)'
    <3>1. /\ Busy(w) /\ attempt[w] \in Attempt
          /\ \A v \in Workers \ {w} : attempt'[v] = attempt[v]
      BY <2>5, BusyType, AttemptFrame
      DEF Proceed, ReleaseAndAdvance, ReleaseClaimOnly, Abandon, Busy
    <3>2. ~Busy(w)'
      BY <2>5 DEF ReleaseAndAdvance, ReleaseClaimOnly, Abandon, Return, Idle, Busy, TypeOK
    <3>3. policy'[p].next_due_at = policy[p].next_due_at
      <4>1. CASE attempt[w].policy # p
        BY <2>5, <4>1 DEF ReleaseAndAdvance, ReleaseClaimOnly, Abandon, MutateUnderLock, TypeOK
      <4>2. CASE attempt[w].policy = p
        <5>1. ReleaseClaimOnly(w) \/ Abandon(w)
          BY <2>5, <3>1, <4>2 DEF ReleaseAndAdvance, Stuck
        <5> QED
          BY <4>2, <5>1
          DEF ReleaseClaimOnly, Abandon, MutateUnderLock, ReleaseClaim, TypeOK, PolicyRow
      <4> QED
        BY <4>1, <4>2
    <3> QED
      BY <2>2, <3>1, <3>2, <3>3
  <2>6. ASSUME NEW q \in Policies, Create(q) PROVE Stuck(p, d)'
    BY <2>0, <2>6 DEF Create, Stuck, Busy, TypeOK, PolicyRow
  <2>7. CASE Tick \/ UNCHANGED vars
    BY <2>0, <2>7 DEF Tick, vars, Stuck, Busy
  <2> QED
    BY <2>1, <2>3, <2>4, <2>5, <2>6, <2>7 DEF Next, Proceed
<1>2. TypeOK /\ [Next]_vars => [Step]_vars
  BY <1>1
<1> QED
  BY <1>2, SchedulerWellTyped, PTL DEF Spec, OnlyRequestsUnstick

-----------------------------------------------------------------------------
(* What DueBoundaryRuns rests on: a claim is a lock with a time limit.     *)

(* A policy that is due and cannot be claimed was claimed within the last  *)
(* Lease ticks, although a request may have written an old claim back      *)
(* (claim_one_due_policy(), save()).                                       *)
ClaimsExpire ==
  \A p \in Policies :
    policy[p].lifecycle = "active" /\ policy[p].next_due_at \in 0..clock /\ ~Claimable(p)
      => policy[p].claimed_at \in (clock - Lease)..clock

(* No claim is of the future, neither in a row nor in a request's copy.    *)
ClaimsPast ==
  /\ \A p \in Policies : policy[p].claimed_at <= clock
  /\ \A o \in Operators : request[o] # Idle => request[o].row.claimed_at <= clock

LEMMA ClockStep == TypeOK /\ [Next]_vars => clock \in Nat /\ clock' \in Nat /\ clock <= clock'
<1>1. [Next]_vars => clock' = clock \/ clock' = clock + 1
  BY OperatorFrame DEF Next, Create, Claim, Proceed, Insert, Refused, Finish, Reconcile,
     ReleaseAndAdvance, ReleaseClaimOnly, RunRaises, Abandon, Tick, vars
<1> QED
  BY <1>1 DEF TypeOK

(* Whatever is in claimed_at after a step was there before, or in a        *)
(* request, or is NULL or the present.                                     *)
LEMMA StampedBy ==
  ASSUME TypeOK, [Next]_vars, NEW p \in Policies
  PROVE  \/ policy'[p].claimed_at \in {policy[p].claimed_at, NoTime, clock}
         \/ \E o \in Operators : request[o] # Idle /\ policy'[p].claimed_at = request[o].row.claimed_at
<1>0. policy[p] \in PolicyRow
  BY DEF TypeOK
<1>1. ASSUME NEW o \in Operators, SaveWrite(o), policy'[p] # policy[p]
      PROVE  request[o] # Idle
             /\ policy'[p].claimed_at \in {policy[p].claimed_at, request[o].row.claimed_at}
  <2> DEFINE r == request[o]
  <2>1. r # Idle /\ r \in Request
    BY <1>1, RequestType DEF SaveWrite, Idle
  <2>2. policy'[p] = Merge(policy[p], r.seen, r.row)
    BY <1>1, <2>1 DEF SaveWrite, TypeOK
  <2>3. r.row \in PolicyRow /\ DOMAIN r.row = {"lifecycle", "next_due_at", "last_scheduled_at", "claimed_at"}
    BY <2>1 DEF Request, PolicyRow
  <2> QED
    BY <2>1, <2>2, <2>3 DEF Merge
<1>2. ASSUME NEW w \in Workers, Claim(w) PROVE policy'[p].claimed_at \in {policy[p].claimed_at, clock}
  BY <1>0, <1>2 DEF TypeOK, Claim, PolicyRow
<1>3. ASSUME NEW w \in Workers, ReleaseAndAdvance(w) \/ ReleaseClaimOnly(w)
      PROVE  policy'[p].claimed_at \in {policy[p].claimed_at, NoTime}
  <2> DEFINE q == attempt[w].policy
             moved == AdvanceSchedule(policy[q], Interval[q], attempt[w].now)
  <2>1. q \in Policies /\ policy[q] \in PolicyRow /\ moved \in PolicyRow
    BY <1>3, BusyType, NetworkIntervals, AdvanceType
    DEF ReleaseAndAdvance, ReleaseClaimOnly, Busy, Attempt, TypeOK
  <2> HIDE DEF moved
  <2>2. ReleaseClaim(moved).claimed_at = NoTime /\ ReleaseClaim(policy[q]).claimed_at = NoTime
    BY <2>1 DEF ReleaseClaim, PolicyRow
  <2>3. policy'[p] = policy[p] \/ policy'[p] = ReleaseClaim(moved)
        \/ policy'[p] = ReleaseClaim(policy[q])
    BY <1>3, <2>1 DEF ReleaseAndAdvance, ReleaseClaimOnly, MutateUnderLock, TypeOK, moved
  <2> QED
    BY <2>2, <2>3
<1>4. ASSUME NEW q \in Policies, Create(q) PROVE policy'[p].claimed_at = policy[p].claimed_at
  BY <1>0, <1>4 DEF TypeOK, Create, PolicyRow
<1> QED
  BY <1>1, <1>2, <1>3, <1>4 DEF Next, OperatorStep, Load, SaveRead, Drop, Proceed, Insert, Refused,
     Finish, Reconcile, RunRaises, Abandon, Tick, vars

LEMMA PastStep == TypeOK /\ TypeOK' /\ ClaimsPast /\ [Next]_vars => ClaimsPast'
<1> SUFFICES ASSUME TypeOK, TypeOK', ClaimsPast, [Next]_vars PROVE ClaimsPast'
  OBVIOUS
<1>0. clock \in Nat /\ clock' \in Nat /\ clock <= clock'
  BY ClockStep
<1>1. ASSUME NEW p \in Policies PROVE policy'[p].claimed_at <= clock'
  <2>1. policy[p].claimed_at \in Int
    BY DEF TypeOK, PolicyRow, Times, NoTime
  <2>2. \A o \in Operators : request[o] # Idle => request[o].row.claimed_at \in Int
    BY RequestType DEF Request, PolicyRow, Times, NoTime
  <2>3. policy'[p].claimed_at \in Int /\ policy'[p].claimed_at <= clock
    BY <1>0, <2>1, <2>2, StampedBy DEF ClaimsPast, NoTime
  <2> QED
    BY <1>0, <2>3
<1>2. ASSUME NEW v \in Operators, request'[v] # Idle PROVE request'[v].row.claimed_at <= clock'
  <2>1. CASE request[v] # Idle /\ request'[v].row = request[v].row
    <3>1. request[v].row.claimed_at \in Int /\ request[v].row.claimed_at <= clock
      BY <2>1, RequestType DEF ClaimsPast, Request, PolicyRow, Times, NoTime
    <3> QED
      BY <1>0, <2>1, <3>1
  <2>2. ASSUME NEW p \in Policies, NEW to \in {"active", "paused", "disabled"},
               request'[v].row = Transition(policy[p], to)
        PROVE  request'[v].row.claimed_at <= clock'
    <3>1. policy[p] \in PolicyRow /\ policy[p].claimed_at \in Int /\ policy[p].claimed_at <= clock
      BY DEF TypeOK, PolicyRow, Times, NoTime, ClaimsPast
    <3>2. request'[v].row.claimed_at \in {policy[p].claimed_at, NoTime}
      BY <2>2, <3>1 DEF Transition, PolicyRow
    <3> QED
      BY <1>0, <3>1, <3>2 DEF NoTime
  <2>3. ASSUME NEW o \in Operators, NEW p \in Policies, NEW to \in {"active", "paused", "disabled"},
               Load(o, p, to), request'[v] # request[v]
        PROVE  request'[v].row = Transition(policy[p], to)
    BY <2>3 DEF Load, TypeOK
  <2>4. ASSUME NEW o \in Operators, SaveRead(o), request'[v] # request[v]
        PROVE  request[v] # Idle /\ request'[v].row = request[v].row
    <3>1. v = o /\ request[o] # Idle
      BY <2>4 DEF SaveRead, Idle, TypeOK
    <3>2. request[o] \in Request
      BY <3>1, RequestType
    <3> QED
      BY <2>4, <3>1, <3>2 DEF SaveRead, TypeOK, Request
  <2>5. ASSUME NEW o \in Operators, SaveWrite(o) \/ Drop(o) PROVE request'[v] = request[v]
    BY <1>2, <2>5 DEF SaveWrite, Drop, TypeOK
  <2> QED
    BY <1>2, <2>1, <2>2, <2>3, <2>4, <2>5, AttemptFrame DEF Next, OperatorStep, Create, Tick, vars
<1> QED
  BY <1>1, <1>2 DEF ClaimsPast

(* No fault, crash or request leaves a due policy locked for longer than   *)
(* the lease, not even one that brings back a claim nobody holds.          *)
THEOREM NetworkClaimsAreLeases == Spec => []ClaimsExpire
<1>1. Init => ClaimsPast
  BY DEF Init, ClaimsPast, NoTime
<1>2. TypeOK /\ ClaimsPast => ClaimsExpire
  <2> SUFFICES ASSUME TypeOK, ClaimsPast, NEW p \in Policies, policy[p].lifecycle = "active",
                      policy[p].next_due_at \in 0..clock, ~Claimable(p)
               PROVE  policy[p].claimed_at \in (clock - Lease)..clock
    BY DEF ClaimsExpire
  <2>1. clock \in Nat /\ policy[p].claimed_at \in Int /\ policy[p].claimed_at <= clock
    BY DEF TypeOK, PolicyRow, Times, NoTime, ClaimsPast
  <2>2. ~(policy[p].claimed_at < clock - Lease)
    BY <2>1 DEF Claimable, NoTime
  <2> QED
    BY <2>1, <2>2, NetworkBounds
<1> QED
  BY <1>1, <1>2, PastStep, SchedulerWellTyped, PTL DEF Spec
=============================================================================
