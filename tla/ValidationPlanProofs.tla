------------------------ MODULE ValidationPlanProofs ------------------------
(***************************************************************************)
(* Theorems about the step plan of the gated validation execution and      *)
(* about what its event log announces, on top of the control facts of      *)
(* ValidationExecutionProofs.  They hold for every plan, every set of      *)
(* triggered rules, all limits and a runner that may die anywhere.         *)
(***************************************************************************)
EXTENDS ValidationExecutionProofs

-----------------------------------------------------------------------------
(* What the runner's statements do to the steps.                           *)

(* mark_running(), mark_completed(), ...: the step at the loop's index     *)
(* gets a status, every other step stays.                                  *)
Marks(s) ==
  /\ DOMAIN mem'.steps = DOMAIN mem.steps
  /\ \A k \in DOMAIN mem.steps :
       /\ mem'.steps[k].kind = mem.steps[k].kind
       /\ mem'.steps[k].rule = mem.steps[k].rule
       /\ k # i => mem'.steps[k] = mem.steps[k]
       /\ k = i => mem'.steps[k].status = s

LEMMA WithStepMarks ==
  ASSUME TypeOK, NEW s, mem' = WithStep(s)
  PROVE  Marks(s)
<1> DEFINE new == [mem.steps EXCEPT ![i] = [@ EXCEPT !.status = s]]
<1>1. mem \in Execution /\ mem.steps \in Seq(Step)
  BY DEF TypeOK, Execution
<1>2. mem'.steps = new
  BY <1>1 DEF WithStep, Execution
<1>3. \A k \in DOMAIN mem.steps :
        new[k] = IF k = i THEN [mem.steps[k] EXCEPT !.status = s] ELSE mem.steps[k]
  OBVIOUS
<1>4. \A k \in DOMAIN mem.steps : mem.steps[k] \in Step
  BY <1>1
<1> QED
  BY <1>2, <1>3, <1>4 DEF Marks, Step

LEMMA CommitMarks ==
  ASSUME Safe, NEW s \in StepStatuses, NEW es, NEW next, Commit(WithStep(s), es, next)
  PROVE  Marks(s) /\ row'.steps = mem'.steps /\ row'.status = row.status /\ pc' = next
<1>1. WithStep(s) \in Execution /\ WithStep(s).cancellation_requested = FALSE
  BY WithStepType, WithStepEffect DEF Safe, ControlOK
<1>2. mem' = WithStep(s) /\ row'.steps = WithStep(s).steps /\ pc' = next
  BY <1>1, CommitEffect DEF Safe
<1>3. row'.status = row.status
  BY StepCommitEffect DEF Safe
<1> QED
  BY <1>2, <1>3, WithStepMarks DEF Safe

(* The steps a cancelled run is left with.                                 *)
LEMMA CancelRunSteps ==
  ASSUME Safe, CancelRun
  PROVE  /\ DOMAIN mem'.steps = DOMAIN mem.steps
         /\ \A k \in DOMAIN mem.steps :
              /\ mem'.steps[k].kind = mem.steps[k].kind
              /\ mem'.steps[k].rule = mem.steps[k].rule
              /\ mem.steps[k].status # "pending" => mem'.steps[k] = mem.steps[k]
              /\ mem.steps[k].status = "pending" => mem'.steps[k].status = "cancelled"
         /\ row'.steps = mem'.steps /\ row'.status = "cancelled" /\ pc' = "done"
<1> DEFINE new == [k \in DOMAIN mem.steps |->
                     IF mem.steps[k].status = "pending"
                     THEN [mem.steps[k] EXCEPT !.status = "cancelled"] ELSE mem.steps[k]]
           m == [mem EXCEPT !.status = "cancelled", !.steps = new]
<1>1. mem \in Execution /\ mem.steps \in Seq(Step)
  BY DEF Safe, TypeOK, Execution
<1>2. Commit(m, <<"execution_cancelled">>, "done")
  BY DEF CancelRun
<1>3. mem' = m /\ row'.steps = m.steps /\ row'.status = m.status /\ pc' = "done"
  BY <1>1, <1>2 DEF Commit, Save, Execution
<1>4. m.steps = new /\ m.status = "cancelled"
  BY <1>1 DEF Execution
<1>5. \A k \in DOMAIN mem.steps : mem.steps[k] \in Step
  BY <1>1
<1> QED
  BY <1>3, <1>4, <1>5 DEF Step

LEMMA BuildPlanSteps ==
  ASSUME Safe, BuildPlan
  PROVE  \E plan \in Plans :
           LET n == IF Len(plan) > MaxSteps THEN MaxSteps ELSE Len(plan)
           IN  /\ mem'.steps = [k \in 1..n |->
                                 [kind |-> plan[k], rule |-> "initial", status |-> "pending"]]
               /\ row'.steps = mem'.steps /\ row'.status = row.status /\ pc' = "start"
<1>1. PICK plan \in Plans :
        LET n == IF Len(plan) > MaxSteps THEN MaxSteps ELSE Len(plan)
        IN  Commit([mem EXCEPT !.steps = [k \in 1..n |->
                      [kind |-> plan[k], rule |-> "initial", status |-> "pending"]]],
                   <<"plan_created">>, "start")
  BY DEF BuildPlan
<1> DEFINE n == IF Len(plan) > MaxSteps THEN MaxSteps ELSE Len(plan)
           new == [k \in 1..n |->
                     [kind |-> plan[k], rule |-> "initial", status |-> "pending"]]
<1>2. Commit([mem EXCEPT !.steps = new], <<"plan_created">>, "start")
  BY <1>1
<1>3. mem \in Execution /\ row.status = mem.status
  BY DEF Safe, TypeOK, ControlOK
<1> HIDE DEF new
<1>4. mem'.steps = new /\ row'.steps = new /\ row'.status = row.status /\ pc' = "start"
  BY <1>2, <1>3 DEF Commit, Save, Execution
<1> QED
  BY <1>4 DEF new

LEMMA ExpandPlanSteps ==
  ASSUME Safe, ExpandPlan
  PROVE  \E k \in DOMAIN RuleSpecs :
           /\ Wanted(k)
           /\ mem'.steps = Append(mem.steps, [kind   |-> RuleSpecs[k].kind,
                                              rule   |-> RuleSpecs[k].rule,
                                              status |-> "pending"])
           /\ row'.steps = mem'.steps /\ row'.status = row.status /\ pc' = "expand"
<1>1. PICK k \in DOMAIN RuleSpecs :
        /\ Wanted(k)
        /\ Commit([mem EXCEPT !.steps = Append(@, [kind   |-> RuleSpecs[k].kind,
                                                   rule   |-> RuleSpecs[k].rule,
                                                   status |-> "pending"])],
                  <<"adaptive_rule_matched", "step_added_to_plan">>, "expand")
  BY DEF ExpandPlan
<1> DEFINE new == Append(mem.steps, [kind |-> RuleSpecs[k].kind, rule |-> RuleSpecs[k].rule,
                                     status |-> "pending"])
<1>2. Commit([mem EXCEPT !.steps = new],
             <<"adaptive_rule_matched", "step_added_to_plan">>, "expand")
  BY <1>1
<1>3. mem \in Execution /\ row.status = mem.status
  BY DEF Safe, TypeOK, ControlOK
<1> HIDE DEF new
<1>4. mem'.steps = new /\ row'.steps = new /\ row'.status = row.status /\ pc' = "expand"
  BY <1>2, <1>3 DEF Commit, Save, Execution
<1> QED
  BY <1>1, <1>4 DEF new

LEMMA GatesKeep ==
  ASSUME Safe, Create \/ BeginPolicyCheck \/ Authorize \/ Deny \/ FailPreflight \/ Start
               \/ Finish
  PROVE  mem'.steps = mem.steps /\ row'.steps = mem.steps
<1>1. FinalStatus(mem.steps) \in Statuses
  BY DEF FinalStatus, Statuses, Terminal
<1> QED
  BY <1>1, MoveEffect DEF Safe, Create, BeginPolicyCheck, Authorize, Deny, FailPreflight, Start,
     Finish, Statuses, Terminal

LEMMA OthersKeep ==
  ASSUME Safe, \/ Reauthorize \/ NotCancelled \/ AllowStep \/ PlanExpanded \/ LoopEnds
               \/ Emit \/ Raise \/ Revoke \/ (\E c \in Cancellers : Canceller(c))
               \/ UNCHANGED vars
  PROVE  mem' = mem /\ row'.steps = row.steps
<1>1. CASE Reauthorize \/ NotCancelled \/ AllowStep \/ PlanExpanded \/ LoopEnds
  BY <1>1 DEF Reauthorize, NotCancelled, AllowStep, PlanExpanded, LoopEnds
<1>2. CASE Emit \/ Raise \/ Revoke
  BY <1>2, OthersControl DEF Safe
<1>3. CASE \E c \in Cancellers : Canceller(c)
  BY <1>3, CancellerControl DEF Safe
<1>4. CASE UNCHANGED vars
  BY <1>4 DEF vars
<1> QED
  BY <1>1, <1>2, <1>3, <1>4

LEMMA RecordKeeps ==
  ASSUME Safe, RecordStep
  PROVE  /\ mem' = mem /\ row'.steps = mem.steps /\ row'.status = row.status
         /\ pc' = "loop" /\ i' = i + 1 /\ hardStop' = hardStop
<1>1. PICK es : Commit(mem, es, "loop")
  BY DEF RecordStep
<1>2. mem \in Execution /\ mem.cancellation_requested = FALSE /\ row.status = mem.status
  BY DEF Safe, TypeOK, ControlOK
<1>3. mem' = mem /\ row'.steps = mem.steps /\ row'.status = row.status /\ pc' = "loop"
  BY <1>1, <1>2, CommitEffect DEF Safe
<1> QED
  BY <1>3 DEF RecordStep

(* The steps of the row are the steps in memory of a moment ago.           *)
LEMMA MarkSteps ==
  ASSUME Safe, SkipStep \/ DenyStep \/ StartStep \/ CompleteStep \/ FailStep
  PROVE  /\ \E s \in StepStatuses : Marks(s)
         /\ row'.status = row.status
         /\ row'.steps = row.steps \/ row'.steps = mem'.steps
<1>0. {"running", "completed", "failed", "skipped"} \subseteq StepStatuses
  BY DEF StepStatuses
<1>1. CASE SkipStep
  BY <1>0, <1>1, WithStepMarks DEF Safe, SkipStep
<1>2. CASE DenyStep
  BY <1>0, <1>2, CommitMarks DEF DenyStep
<1>3. CASE StartStep
  <2>1. PICK es : Commit(WithStep("running"), es, "dispatched")
    BY <1>3 DEF StartStep
  <2> QED
    BY <1>0, <2>1, CommitMarks
<1>4. CASE CompleteStep
  BY <1>0, <1>4, WithStepMarks DEF Safe, CompleteStep
<1>5. CASE FailStep
  BY <1>0, <1>5, WithStepMarks DEF Safe, FailStep
<1> QED
  BY <1>1, <1>2, <1>3, <1>4, <1>5

-----------------------------------------------------------------------------
(* The plan.                                                               *)

AdaptiveSteps(steps) == {k \in DOMAIN steps : Adaptive(steps[k])}

(* Within the limits and without a step type twice.                        *)
WellPlanned(steps) ==
  /\ Len(steps) <= MaxSteps
  /\ Cardinality(AdaptiveSteps(steps)) <= MaxAdaptive
  /\ \A j, k \in DOMAIN steps : steps[j].kind = steps[k].kind => j = k

(* Two step sequences that differ at most in the statuses.                 *)
SamePlan(steps, other) ==
  /\ DOMAIN other = DOMAIN steps
  /\ \A k \in DOMAIN steps : other[k].kind = steps[k].kind /\ other[k].rule = steps[k].rule

PlanInv == WellPlanned(mem.steps) /\ WellPlanned(row.steps)

LEMMA SamePlanWell ==
  ASSUME NEW steps \in Seq(Step), NEW other \in Seq(Step), WellPlanned(steps),
         SamePlan(steps, other)
  PROVE  WellPlanned(other)
<1>1. AdaptiveSteps(other) = AdaptiveSteps(steps)
  BY DEF AdaptiveSteps, Adaptive, SamePlan
<1>2. Len(other) = Len(steps)
  BY DEF SamePlan
<1> QED
  BY <1>1, <1>2 DEF WellPlanned, SamePlan

LEMMA EmptyPlanWell == WellPlanned(<<>>)
<1>1. AdaptiveSteps(<<>>) = {} /\ DOMAIN <<>> = {} /\ Len(<<>>) = 0
  BY DEF AdaptiveSteps
<1> QED
  BY <1>1, FS_EmptySet, LimitAssumption DEF WellPlanned

(* Each of the three plans names a step type once.                         *)
LEMMA PlanDistinct ==
  ASSUME NEW plan \in Plans, NEW j \in DOMAIN plan, NEW k \in DOMAIN plan, plan[j] = plan[k]
  PROVE  j = k
<1> DEFINE http  == <<"dns_resolution", "tcp_connectivity", "http_metadata",
                      "http_security_headers", "service_reachability">>
           https == <<"dns_resolution", "tcp_connectivity", "tls_handshake", "http_metadata",
                      "http_security_headers", "service_reachability">>
           discovery == <<"dns_resolution", "port_discovery">>
<1>1. plan = http \/ plan = https \/ plan = discovery
  BY PlanAssumption DEF StepPlans
<1>2. CASE plan = http
  <2>1. j \in 1..5 /\ k \in 1..5
    BY <1>2
  <2> QED
    BY <1>2, <2>1
<1>3. CASE plan = https
  <2>1. j \in 1..6 /\ k \in 1..6
    BY <1>3
  <2> QED
    BY <1>3, <2>1
<1>4. CASE plan = discovery
  <2>1. j \in 1..2 /\ k \in 1..2
    BY <1>4
  <2> QED
    BY <1>4, <2>1
<1> QED
  BY <1>1, <1>2, <1>3, <1>4

LEMMA BuildPlanWell ==
  ASSUME Safe, BuildPlan
  PROVE  WellPlanned(mem'.steps) /\ row'.steps = mem'.steps
<1>1. PICK plan \in Plans :
        LET n == IF Len(plan) > MaxSteps THEN MaxSteps ELSE Len(plan)
        IN  /\ mem'.steps = [k \in 1..n |->
                              [kind |-> plan[k], rule |-> "initial", status |-> "pending"]]
            /\ row'.steps = mem'.steps /\ row'.status = row.status /\ pc' = "start"
  BY BuildPlanSteps
<1> DEFINE n == IF Len(plan) > MaxSteps THEN MaxSteps ELSE Len(plan)
           new == [k \in 1..n |->
                     [kind |-> plan[k], rule |-> "initial", status |-> "pending"]]
<1>2. plan \in Seq(StepKinds)
  BY PlanType
<1>3. n \in Nat /\ n <= Len(plan) /\ n <= MaxSteps
  BY <1>2, LimitAssumption
<1>4. mem'.steps = new /\ row'.steps = mem'.steps
  BY <1>1
<1> HIDE DEF n
<1>5. DOMAIN new = 1..n /\ Len(new) = n
  BY <1>3
<1>6. \A k \in 1..n : new[k].rule = "initial" /\ new[k].kind = plan[k] /\ k \in DOMAIN plan
  BY <1>2, <1>3
<1> HIDE DEF new
<1>7. AdaptiveSteps(new) = {}
  BY <1>5, <1>6 DEF AdaptiveSteps, Adaptive
<1>8. \A j, k \in DOMAIN new : new[j].kind = new[k].kind => j = k
  BY <1>5, <1>6, PlanDistinct
<1>9. Len(new) <= MaxSteps /\ Cardinality(AdaptiveSteps(new)) <= MaxAdaptive
  BY <1>3, <1>5, <1>7, FS_EmptySet, LimitAssumption
<1> QED
  BY <1>4, <1>8, <1>9 DEF WellPlanned

LEMMA ExpandPlanWell ==
  ASSUME Safe, ExpandPlan, WellPlanned(mem.steps)
  PROVE  WellPlanned(mem'.steps) /\ row'.steps = mem'.steps
<1>1. PICK r \in DOMAIN RuleSpecs :
        /\ Wanted(r)
        /\ mem'.steps = Append(mem.steps, [kind   |-> RuleSpecs[r].kind,
                                           rule   |-> RuleSpecs[r].rule,
                                           status |-> "pending"])
        /\ row'.steps = mem'.steps /\ row'.status = row.status /\ pc' = "expand"
  BY ExpandPlanSteps
<1> DEFINE step == [kind |-> RuleSpecs[r].kind, rule |-> RuleSpecs[r].rule,
                    status |-> "pending"]
           old == mem.steps
           new == Append(old, step)
           n == Len(old)
<1>2. old \in Seq(Step) /\ n \in Nat /\ DOMAIN old = 1..n
  BY DEF Safe, TypeOK, Execution
<1>3. step \in Step /\ step.kind = RuleSpecs[r].kind
  BY RuleSpecType DEF Step, StepStatuses
<1>4. n < MaxSteps /\ Cardinality(AdaptiveSteps(old)) < MaxAdaptive
  BY DEF ExpandPlan, PlanHasRoom, AdaptiveSteps
<1>5. \A k \in DOMAIN old : old[k].kind # step.kind
  BY <1>1, <1>3 DEF Wanted, Kinds
<1>6. mem'.steps = new
  BY <1>1
<1> HIDE DEF step, old
<1>7. /\ new \in Seq(Step) /\ Len(new) = n + 1 /\ DOMAIN new = 1..(n + 1)
      /\ new[n + 1] = step /\ \A k \in 1..n : new[k] = old[k]
  BY <1>2, <1>3
<1> HIDE DEF new, n
<1>8. IsFiniteSet(AdaptiveSteps(old)) /\ n + 1 \notin AdaptiveSteps(old)
  <2>1. AdaptiveSteps(old) \subseteq 1..n
    BY <1>2 DEF AdaptiveSteps
  <2> QED
    BY <1>2, <2>1, FS_Interval, FS_Subset
<1>9. AdaptiveSteps(new) \subseteq AdaptiveSteps(old) \cup {n + 1}
  BY <1>2, <1>7 DEF AdaptiveSteps
<1>10. Cardinality(AdaptiveSteps(new)) <= MaxAdaptive
  <2>1. /\ IsFiniteSet(AdaptiveSteps(old) \cup {n + 1})
        /\ Cardinality(AdaptiveSteps(old) \cup {n + 1}) = Cardinality(AdaptiveSteps(old)) + 1
    BY <1>8, FS_AddElement
  <2>2. Cardinality(AdaptiveSteps(new)) <= Cardinality(AdaptiveSteps(old) \cup {n + 1})
    BY <1>9, <2>1, FS_Subset
  <2>3. Cardinality(AdaptiveSteps(old)) \in Nat /\ Cardinality(AdaptiveSteps(new)) \in Nat
    BY <1>8, <1>9, <2>1, FS_CardinalityType, FS_Subset
  <2> QED
    BY <1>4, <2>1, <2>2, <2>3, LimitAssumption
<1>11. \A j, k \in DOMAIN new : new[j].kind = new[k].kind => j = k
  BY <1>2, <1>5, <1>7 DEF WellPlanned, old
<1>12. Len(new) <= MaxSteps
  BY <1>2, <1>4, <1>7, LimitAssumption
<1>13. WellPlanned(new)
  BY <1>10, <1>11, <1>12 DEF WellPlanned
<1> QED
  BY <1>1, <1>6, <1>13

LEMMA PlanStep == Safe /\ Safe' /\ PlanInv /\ [Next]_vars => PlanInv'
<1> SUFFICES ASSUME Safe, Safe', PlanInv, [Next]_vars PROVE PlanInv'
  OBVIOUS
<1>0. mem.steps \in Seq(Step) /\ mem'.steps \in Seq(Step)
  BY DEF Safe, TypeOK, Execution
<1>1. CASE BuildPlan
  BY <1>1, BuildPlanWell DEF PlanInv
<1>2. CASE ExpandPlan
  BY <1>2, ExpandPlanWell DEF PlanInv
<1>3. CASE CancelRun
  <2>1. SamePlan(mem.steps, mem'.steps) /\ row'.steps = mem'.steps
    BY <1>3, CancelRunSteps DEF SamePlan
  <2> QED
    BY <1>0, <2>1, SamePlanWell DEF PlanInv
<1>4. CASE SkipStep \/ DenyStep \/ StartStep \/ CompleteStep \/ FailStep
  <2>1. SamePlan(mem.steps, mem'.steps)
    BY <1>4, MarkSteps DEF SamePlan, Marks
  <2>2. row'.steps = row.steps \/ row'.steps = mem'.steps
    BY <1>4, MarkSteps
  <2> QED
    BY <1>0, <2>1, <2>2, SamePlanWell DEF PlanInv
<1>5. CASE RecordStep
  BY <1>5, RecordKeeps DEF PlanInv
<1>6. CASE Create \/ BeginPolicyCheck \/ Authorize \/ Deny \/ FailPreflight \/ Start \/ Finish
  BY <1>6, GatesKeep DEF PlanInv
<1>7. CASE \/ Reauthorize \/ NotCancelled \/ AllowStep \/ PlanExpanded \/ LoopEnds
           \/ Emit \/ Raise \/ Revoke \/ (\E c \in Cancellers : Canceller(c))
           \/ UNCHANGED vars
  BY <1>7, OthersKeep DEF PlanInv
<1> QED
  BY <1>1, <1>2, <1>3, <1>4, <1>5, <1>6, <1>7 DEF Next, Runner, Preflight, RunStep

LEMMA AlwaysPlanned == Spec => []PlanInv
<1>1. Init => PlanInv
  <2> SUFFICES ASSUME Init PROVE PlanInv
    OBVIOUS
  <2>1. mem.steps = <<>> /\ row.steps = <<>>
    BY DEF Init, NoExecution
  <2> QED
    BY <2>1, EmptyPlanWell DEF PlanInv
<1> QED
  BY <1>1, PlanStep, AlwaysSafe, PTL DEF Spec

(* Whatever the discovery triggers, the saved plan stays within max_steps  *)
(* and max_adaptive_steps.                                                 *)
THEOREM PlanIsBounded == Spec => []PlanBounded
<1>1. PlanInv => PlanBounded
  BY DEF PlanInv, WellPlanned, AdaptiveSteps, PlanBounded
<1> QED
  BY <1>1, AlwaysPlanned, PTL

(* Two rules that want the same step type never put it in the plan twice.  *)
THEOREM StepTypesDistinct == Spec => []NoDuplicateStepType
<1>1. PlanInv => NoDuplicateStepType
  BY DEF PlanInv, WellPlanned, NoDuplicateStepType
<1> QED
  BY <1>1, AlwaysPlanned, PTL

-----------------------------------------------------------------------------
(* Progress through the plan.                                              *)

Results == {"completed", "failed"}

Gates == {"create", "created", "gate1", "gate2", "plan"}

AtStep == {"gate", "dispatch", "dispatched", "expand", "record"}

(* The status of the step the loop is at.                                  *)
StepStatusAt(p) ==
  CASE p = "dispatched" -> {"running"}
    [] p = "expand"     -> {"completed"}
    [] p = "record"     -> Results
    [] OTHER            -> {"pending"}

(* What is behind the loop has ended, what is ahead of it is pending.      *)
StepOK(k) ==
  /\ k < i => mem.steps[k].status \in Results \cup {"skipped"}
  /\ k = i => mem.steps[k].status \in StepStatusAt(pc)
  /\ k > i => mem.steps[k].status = "pending"
  /\ mem.steps[k].status = "skipped" => hardStop

(* Until the runner ends; a hard stop always leaves a failed step.         *)
ProgressOK ==
  pc \notin {"done", "raised"} =>
    /\ \A k \in DOMAIN mem.steps : StepOK(k)
    /\ pc \in Gates => mem.steps = <<>>
    /\ pc \in Gates \cup {"start"} => i = 1 /\ ~hardStop
    /\ pc \in AtStep => i \in DOMAIN mem.steps
    /\ pc = "finish" => i > Len(mem.steps)
    /\ hardStop => \E k \in DOMAIN mem.steps : mem.steps[k].status = "failed"

(* A result in the row is the result in memory.                            *)
BehindMemory ==
  \A k \in DOMAIN row.steps :
    k \in DOMAIN mem.steps /\ (row.steps[k].status \in Results => mem.steps[k] = row.steps[k])

ProgressInv == ProgressOK /\ BehindMemory /\ TerminalSettled /\ CompletedMeansAll

(* The runner only gives a status to a step that has no result.            *)
ResultsStay ==
  \A k \in DOMAIN mem.steps :
    /\ k \in DOMAIN mem'.steps
    /\ mem.steps[k].status \in Results => mem'.steps[k] = mem.steps[k]

LEMMA MarkKeepsResults ==
  ASSUME Safe, ProgressOK, SkipStep \/ DenyStep \/ StartStep \/ CompleteStep \/ FailStep
  PROVE  ResultsStay
<1>1. PICK s \in StepStatuses : Marks(s)
  BY MarkSteps
<1>2. i \in DOMAIN mem.steps => mem.steps[i].status \notin Results
  BY DEF SkipStep, DenyStep, StartStep, CompleteStep, FailStep, InLoop, At, ProgressOK, StepOK,
     StepStatusAt, Results
<1> QED
  BY <1>1, <1>2 DEF Marks, ResultsStay

LEMMA ResultsStep ==
  ASSUME Safe, Safe', ProgressOK, [Next]_vars
  PROVE  ResultsStay /\ (row'.steps = row.steps \/ row'.steps = mem'.steps)
<1>0. mem.steps \in Seq(Step) /\ mem'.steps \in Seq(Step)
  BY DEF Safe, TypeOK, Execution
<1>1. CASE BuildPlan
  <2>1. mem.steps = <<>>
    BY <1>1 DEF BuildPlan, At, ProgressOK, Gates
  <2>2. row'.steps = mem'.steps
    BY <1>1, BuildPlanWell
  <2> QED
    BY <2>1, <2>2 DEF ResultsStay
<1>2. CASE ExpandPlan
  <2>1. PICK r \in DOMAIN RuleSpecs :
          /\ mem'.steps = Append(mem.steps, [kind   |-> RuleSpecs[r].kind,
                                             rule   |-> RuleSpecs[r].rule,
                                             status |-> "pending"])
          /\ row'.steps = mem'.steps
    BY <1>2, ExpandPlanSteps
  <2> DEFINE step == [kind |-> RuleSpecs[r].kind, rule |-> RuleSpecs[r].rule,
                      status |-> "pending"]
  <2>2. mem'.steps = Append(mem.steps, step)
    BY <2>1
  <2> HIDE DEF step
  <2>3. \A k \in DOMAIN mem.steps : k \in DOMAIN mem'.steps /\ mem'.steps[k] = mem.steps[k]
    BY <1>0, <2>2
  <2> QED
    BY <2>1, <2>3 DEF ResultsStay
<1>3. CASE CancelRun
  BY <1>3, CancelRunSteps DEF ResultsStay, Results
<1>4. CASE SkipStep \/ DenyStep \/ StartStep \/ CompleteStep \/ FailStep
  BY <1>4, MarkKeepsResults, MarkSteps
<1>5. CASE RecordStep
  BY <1>5, RecordKeeps DEF ResultsStay
<1>6. CASE Create \/ BeginPolicyCheck \/ Authorize \/ Deny \/ FailPreflight \/ Start \/ Finish
  BY <1>6, GatesKeep DEF ResultsStay
<1>7. CASE \/ Reauthorize \/ NotCancelled \/ AllowStep \/ PlanExpanded \/ LoopEnds
           \/ Emit \/ Raise \/ Revoke \/ (\E c \in Cancellers : Canceller(c))
           \/ UNCHANGED vars
  BY <1>7, OthersKeep DEF ResultsStay
<1> QED
  BY <1>1, <1>2, <1>3, <1>4, <1>5, <1>6, <1>7 DEF Next, Runner, Preflight, RunStep

LEMMA BehindStep ==
  ASSUME Safe, Safe', ProgressOK, BehindMemory, [Next]_vars
  PROVE  BehindMemory'
BY ResultsStep DEF BehindMemory, ResultsStay

LEMMA PreflightProgress ==
  ASSUME Safe, Safe', ProgressOK, Preflight
  PROVE  ProgressOK'
<1>0. pc \in Gates \cup {"start"} /\ pc \notin {"done", "raised"}
  BY DEF Preflight, Create, BeginPolicyCheck, Authorize, Deny, Reauthorize, FailPreflight,
     BuildPlan, Start, At, Gates
<1>1. i' = 1 /\ ~hardStop' /\ i = 1 /\ ~hardStop
  BY <1>0 DEF ProgressOK, Preflight, Create, BeginPolicyCheck, Authorize, Deny, Reauthorize,
     FailPreflight, BuildPlan, Start, loop
<1>2. CASE Create \/ BeginPolicyCheck \/ Authorize \/ Reauthorize
  <2>1. pc \in Gates /\ pc' \in Gates
    BY <1>2 DEF Create, BeginPolicyCheck, Authorize, Reauthorize, At, Commit, Gates
  <2>2. mem'.steps = mem.steps
    BY <1>2, GatesKeep DEF Reauthorize
  <2>3. mem'.steps = <<>>
    BY <1>0, <2>1, <2>2 DEF ProgressOK
  <2> QED
    BY <1>1, <2>1, <2>3 DEF ProgressOK, Gates, AtStep
<1>3. CASE Deny \/ FailPreflight
  BY <1>3 DEF Deny, FailPreflight, Commit, ProgressOK
<1>4. CASE BuildPlan
  <2>1. PICK plan \in Plans :
          LET n == IF Len(plan) > MaxSteps THEN MaxSteps ELSE Len(plan)
          IN  /\ mem'.steps = [k \in 1..n |->
                                [kind |-> plan[k], rule |-> "initial", status |-> "pending"]]
              /\ pc' = "start"
    BY <1>4, BuildPlanSteps
  <2>2. \A k \in DOMAIN mem'.steps : mem'.steps[k].status = "pending"
    BY <2>1
  <2>3. DOMAIN mem'.steps = 1..Len(mem'.steps)
    BY DEF Safe, TypeOK, Execution
  <2> QED
    BY <1>1, <2>1, <2>2, <2>3 DEF ProgressOK, StepOK, StepStatusAt, Gates, AtStep, Results
<1>5. CASE Start
  <2>1. mem'.steps = mem.steps /\ pc = "start" /\ pc' = "loop"
    BY <1>5, GatesKeep DEF Start, At, Commit
  <2>2. \A k \in DOMAIN mem.steps : StepOK(k)
    BY <2>1 DEF ProgressOK
  <2>3. \A k \in DOMAIN mem'.steps : StepOK(k)'
    BY <1>1, <2>1, <2>2 DEF StepOK, StepStatusAt
  <2> QED
    BY <1>1, <2>1, <2>3 DEF ProgressOK, Gates, AtStep
<1> QED
  BY <1>2, <1>3, <1>4, <1>5 DEF Preflight

LEMMA MarkProgress ==
  ASSUME Safe, Safe', ProgressOK, SkipStep \/ DenyStep \/ StartStep \/ CompleteStep \/ FailStep
  PROVE  ProgressOK'
<1>0. {"running", "completed", "failed", "skipped"} \subseteq StepStatuses
  BY DEF StepStatuses
<1>a. i \in Nat \ {0} /\ DOMAIN mem.steps = 1..Len(mem.steps) /\ Len(mem.steps) \in Nat
  BY DEF Safe, TypeOK, Execution
<1>1. CASE SkipStep
  <2>1. Marks("skipped") /\ hardStop /\ hardStop' /\ i' = i + 1 /\ pc = "loop" /\ pc' = "loop"
    BY <1>1, WithStepMarks DEF Safe, SkipStep, InLoop, At
  <2>2. i \in DOMAIN mem.steps /\ mem.steps[i].status = "pending"
    BY <1>1, <1>a DEF SkipStep, InLoop, At, ProgressOK, StepOK, StepStatusAt
  <2>3. \A k \in DOMAIN mem'.steps : StepOK(k)'
    BY <1>a, <2>1, <2>2 DEF Marks, ProgressOK, StepOK, StepStatusAt
  <2>4. \E k \in DOMAIN mem'.steps : mem'.steps[k].status = "failed"
    BY <2>1, <2>2 DEF Marks, ProgressOK
  <2> QED
    BY <2>1, <2>3, <2>4 DEF ProgressOK, Gates, AtStep
<1>2. CASE DenyStep
  <2>1. Marks("failed") /\ hardStop' /\ i' = i + 1 /\ pc = "gate" /\ pc' = "loop"
    BY <1>0, <1>2, CommitMarks DEF DenyStep, At
  <2>2. i \in DOMAIN mem.steps
    BY <2>1 DEF ProgressOK, AtStep
  <2>3. \A k \in DOMAIN mem'.steps : StepOK(k)'
    BY <1>a, <2>1, <2>2 DEF Marks, ProgressOK, StepOK, StepStatusAt, Results
  <2>4. \E k \in DOMAIN mem'.steps : mem'.steps[k].status = "failed"
    BY <2>1, <2>2 DEF Marks
  <2> QED
    BY <2>1, <2>3, <2>4 DEF ProgressOK, Gates, AtStep
<1>3. CASE StartStep \/ CompleteStep \/ FailStep
  <2>1. PICK s \in StepStatuses : Marks(s) /\ s \in StepStatusAt(pc') /\ s # "skipped"
    <3>1. CASE StartStep
      <4>1. PICK es : Commit(WithStep("running"), es, "dispatched")
        BY <3>1 DEF StartStep
      <4> QED
        BY <1>0, <4>1, CommitMarks DEF StepStatusAt
    <3>2. CASE CompleteStep
      BY <1>0, <3>2, WithStepMarks DEF Safe, CompleteStep, StepStatusAt, Results
    <3>3. CASE FailStep
      BY <1>0, <3>3, WithStepMarks DEF Safe, FailStep, StepStatusAt, Results
    <3> QED
      BY <1>3, <3>1, <3>2, <3>3
  <2>2. i' = i /\ pc \in AtStep /\ pc' \in {"dispatched", "expand", "record"}
    BY <1>3 DEF StartStep, CompleteStep, FailStep, At, Commit, loop, AtStep
  <2>a. hardStop => hardStop'
    BY <1>3, Zenon DEF StartStep, CompleteStep, FailStep, loop
  <2>3. /\ i \in DOMAIN mem.steps /\ pc \notin {"done", "raised"}
        /\ mem.steps[i].status \in {"pending", "running"}
    BY <1>3 DEF StartStep, CompleteStep, FailStep, At, ProgressOK, AtStep, StepOK, StepStatusAt
  <2>4. \A k \in DOMAIN mem'.steps : StepOK(k)'
    BY <1>a, <2>1, <2>2, <2>3, <2>a DEF Marks, ProgressOK, StepOK
  <2>5. hardStop' => \E k \in DOMAIN mem'.steps : mem'.steps[k].status = "failed"
    <3>1. CASE hardStop
      BY <2>1, <2>3, <3>1 DEF Marks, ProgressOK
    <3>2. CASE ~hardStop /\ FailStep
      <4>1. Marks("failed")
        BY <3>2, WithStepMarks DEF Safe, FailStep
      <4> QED
        BY <2>3, <4>1 DEF Marks
    <3>3. CASE ~hardStop /\ ~FailStep
      BY <1>3, <3>3 DEF StartStep, CompleteStep, loop
    <3> QED
      BY <3>1, <3>2, <3>3
  <2> QED
    BY <2>1, <2>2, <2>3, <2>4, <2>5 DEF ProgressOK, Gates, AtStep, Marks
<1> QED
  BY <1>1, <1>2, <1>3

LEMMA RunStepProgress ==
  ASSUME Safe, Safe', ProgressOK, RunStep
  PROVE  ProgressOK'
<1>a. i \in Nat \ {0} /\ DOMAIN mem.steps = 1..Len(mem.steps) /\ Len(mem.steps) \in Nat
  BY DEF Safe, TypeOK, Execution
<1>1. CASE SkipStep \/ DenyStep \/ StartStep \/ CompleteStep \/ FailStep
  BY <1>1, MarkProgress
<1>2. CASE CancelRun \/ Finish
  BY <1>2 DEF CancelRun, Finish, Commit, ProgressOK
<1>3. CASE NotCancelled \/ AllowStep \/ PlanExpanded
  <2>1. /\ mem' = mem /\ i' = i /\ hardStop' = hardStop
        /\ pc \in {"loop", "gate", "expand"} /\ pc' \in {"gate", "dispatch", "record"}
        /\ pc = "expand" <=> pc' = "record"
    BY <1>3 DEF NotCancelled, AllowStep, PlanExpanded, InLoop, At, loop
  <2>a. StepStatusAt(pc) \subseteq StepStatusAt(pc')
    BY <2>1 DEF StepStatusAt, Results
  <2>2. i \in DOMAIN mem.steps
    BY <1>3, <1>a, <2>1 DEF NotCancelled, InLoop, AllowStep, PlanExpanded, At, ProgressOK, AtStep
  <2>3. \A k \in DOMAIN mem'.steps : StepOK(k)'
    BY <2>1, <2>a DEF ProgressOK, StepOK
  <2> QED
    BY <2>1, <2>2, <2>3 DEF ProgressOK, Gates, AtStep
<1>4. CASE ExpandPlan
  <2>1. PICK r \in DOMAIN RuleSpecs :
          /\ mem'.steps = Append(mem.steps, [kind   |-> RuleSpecs[r].kind,
                                             rule   |-> RuleSpecs[r].rule,
                                             status |-> "pending"])
          /\ pc' = "expand"
    BY <1>4, ExpandPlanSteps
  <2> DEFINE step == [kind |-> RuleSpecs[r].kind, rule |-> RuleSpecs[r].rule,
                      status |-> "pending"]
             n == Len(mem.steps)
  <2>2. mem'.steps = Append(mem.steps, step) /\ step.status = "pending"
    BY <2>1
  <2> HIDE DEF step
  <2>3. /\ DOMAIN mem'.steps = 1..(n + 1) /\ mem'.steps[n + 1] = step
        /\ \A k \in 1..n : mem'.steps[k] = mem.steps[k]
    BY <1>a, <2>2 DEF Safe, TypeOK, Execution
  <2>4. i' = i /\ hardStop' = hardStop /\ pc = "expand" /\ pc' = "expand"
    BY <1>4, <2>1 DEF ExpandPlan, At, loop
  <2>5. i \in 1..n
    BY <1>a, <2>4 DEF ProgressOK, AtStep
  <2>6. \A k \in 1..n : StepOK(k)
    BY <1>a, <2>4 DEF ProgressOK
  <2> HIDE DEF n
  <2>7. \A k \in 1..(n + 1) : StepOK(k)'
    <3> SUFFICES ASSUME NEW k \in 1..(n + 1) PROVE StepOK(k)'
      OBVIOUS
    <3>1. CASE k \in 1..n
      BY <2>3, <2>4, <2>6, <3>1 DEF StepOK
    <3>2. CASE k = n + 1
      <4>1. k > i' /\ mem'.steps[k].status = "pending"
        BY <1>a, <2>2, <2>3, <2>4, <2>5, <3>2 DEF n
      <4> QED
        BY <1>a, <2>4, <2>5, <3>2, <4>1 DEF StepOK, n
    <3> QED
      BY <1>a, <3>1, <3>2 DEF n
  <2>8. hardStop' => \E k \in DOMAIN mem'.steps : mem'.steps[k].status = "failed"
    BY <1>a, <2>3, <2>4 DEF ProgressOK, n
  <2> QED
    BY <1>a, <2>3, <2>4, <2>5, <2>7, <2>8 DEF ProgressOK, Gates, AtStep, n
<1>5. CASE RecordStep
  <2>1. mem' = mem /\ pc = "record" /\ pc' = "loop" /\ i' = i + 1 /\ hardStop' = hardStop
    BY <1>5, RecordKeeps DEF RecordStep, At
  <2>2. \A k \in DOMAIN mem'.steps : StepOK(k)'
    BY <1>a, <2>1 DEF ProgressOK, StepOK, StepStatusAt, Results
  <2> QED
    BY <2>1, <2>2 DEF ProgressOK, Gates, AtStep
<1>6. CASE LoopEnds
  <2>1. /\ mem' = mem /\ pc = "loop" /\ pc' = "finish" /\ i' = i /\ hardStop' = hardStop
        /\ i > Len(mem.steps)
    BY <1>6 DEF LoopEnds, At, loop
  <2>2. \A k \in DOMAIN mem'.steps : StepOK(k)'
    BY <2>1 DEF ProgressOK, StepOK, StepStatusAt
  <2> QED
    BY <2>1, <2>2 DEF ProgressOK, Gates, AtStep
<1> QED
  BY <1>1, <1>2, <1>3, <1>4, <1>5, <1>6 DEF RunStep

LEMMA OthersProgress ==
  ASSUME Safe, ProgressOK,
         Emit \/ Raise \/ Revoke \/ (\E c \in Cancellers : Canceller(c)) \/ UNCHANGED vars
  PROVE  ProgressOK'
<1>1. mem' = mem /\ i' = i /\ hardStop' = hardStop /\ pc' \in {pc, "raised"}
  BY DEF Emit, EmitRead, EmitAppend, EmitCollides, Raise, Die, Revoke, Canceller,
     RequestCancellation, CancelEmitRead, CancelEmitAppend, vars, loop
<1>2. pc' = pc => \A k \in DOMAIN mem.steps : StepOK(k)' = StepOK(k)
  BY <1>1 DEF StepOK
<1> QED
  BY <1>1, <1>2 DEF ProgressOK

(* The three ways into a terminal row.                                     *)
LEMMA EndsSettled ==
  ASSUME Safe, Safe', ProgressInv, [Next]_vars
  PROVE  TerminalSettled' /\ CompletedMeansAll'
<1>a. i \in Nat \ {0} /\ DOMAIN mem.steps = 1..Len(mem.steps) /\ Len(mem.steps) \in Nat
  BY DEF Safe, TypeOK, Execution
<1>1. CASE Deny \/ FailPreflight
  <2>1. mem.steps = <<>>
    BY <1>1 DEF Deny, FailPreflight, At, ProgressInv, ProgressOK, Gates
  <2>2. row'.steps = <<>>
    BY <1>1, <2>1, GatesKeep
  <2> QED
    BY <2>2 DEF TerminalSettled, CompletedMeansAll
<1>2. CASE CancelRun
  <2>1. \A k \in DOMAIN mem.steps : mem.steps[k].status # "running"
    BY <1>2, <1>a DEF CancelRun, InLoop, At, ProgressInv, ProgressOK, StepOK, StepStatusAt, Results
  <2> QED
    BY <1>2, <2>1, CancelRunSteps DEF TerminalSettled, CompletedMeansAll
<1>3. CASE Finish
  <2>1. row'.steps = mem.steps
    BY <1>3, GatesKeep
  <2>2. row'.status = FinalStatus(mem.steps)
    <3>1. FinalStatus(mem.steps) \in Statuses
      BY DEF FinalStatus, Statuses, Terminal
    <3> QED
      BY <1>3, <3>1, MoveEffect DEF Finish, Safe
  <2>3. \A k \in DOMAIN mem.steps : mem.steps[k].status \in Results \cup {"skipped"}
    BY <1>3, <1>a DEF Finish, At, ProgressInv, ProgressOK, StepOK
  <2>4. ASSUME row'.status = "completed", NEW k \in DOMAIN mem.steps
        PROVE  mem.steps[k].status = "completed"
    <3>1. Having(mem.steps, "failed") = {}
      BY <2>2, <2>4 DEF FinalStatus
    <3>2. \A j \in DOMAIN mem.steps : mem.steps[j].status # "failed"
      BY <3>1 DEF Having
    <3>3. ~hardStop
      BY <1>3, <3>2 DEF Finish, At, ProgressInv, ProgressOK
    <3>4. mem.steps[k].status # "skipped"
      BY <1>3, <3>3 DEF Finish, At, ProgressInv, ProgressOK, StepOK
    <3> QED
      BY <2>3, <3>2, <3>4 DEF Results
  <2> QED
    BY <2>1, <2>3, <2>4 DEF TerminalSettled, CompletedMeansAll, Results
<1>4. CASE /\ [Next]_vars
           /\ ~(Deny \/ FailPreflight \/ CancelRun \/ Finish)
  <2>1. CASE Preflight \/ RunStep
    <3>1. row'.status \notin Terminal
      <4>1. pc' \notin {"done", "raised"}
        BY <1>4, <2>1 DEF Preflight, RunStep, Create, BeginPolicyCheck, Authorize, Reauthorize,
           BuildPlan, Start, SkipStep, NotCancelled, DenyStep, AllowStep, StartStep,
           CompleteStep, FailStep, ExpandPlan, PlanExpanded, RecordStep, LoopEnds,
           InLoop, At, Commit
      <4> QED
        BY <4>1 DEF Safe, ControlOK, StatusAt, Terminal
    <3> QED
      BY <3>1 DEF TerminalSettled, CompletedMeansAll, Terminal
  <2>2. CASE Emit \/ Raise \/ Revoke
    BY <2>2, OthersControl DEF Safe, ProgressInv, TerminalSettled, CompletedMeansAll
  <2>3. ASSUME NEW c \in Cancellers, Canceller(c)
        PROVE  TerminalSettled' /\ CompletedMeansAll'
    BY <2>3, CancellerControl DEF Safe, ProgressInv, TerminalSettled, CompletedMeansAll
  <2>4. CASE UNCHANGED vars
    BY <2>4 DEF vars, ProgressInv, TerminalSettled, CompletedMeansAll
  <2> QED
    BY <1>4, <2>1, <2>2, <2>3, <2>4 DEF Next, Runner
<1> QED
  BY <1>1, <1>2, <1>3, <1>4

LEMMA ProgressStep == Safe /\ Safe' /\ ProgressInv /\ [Next]_vars => ProgressInv'
<1> SUFFICES ASSUME Safe, Safe', ProgressInv, [Next]_vars PROVE ProgressInv'
  OBVIOUS
<1>1. ProgressOK'
  BY PreflightProgress, RunStepProgress, OthersProgress DEF ProgressInv, Next, Runner
<1>2. BehindMemory'
  BY BehindStep DEF ProgressInv
<1> QED
  BY <1>1, <1>2, EndsSettled DEF ProgressInv

LEMMA AlwaysProgress == Spec => []ProgressInv
<1>1. Init => ProgressInv
  <2> SUFFICES ASSUME Init PROVE ProgressInv
    OBVIOUS
  <2>1. mem.steps = <<>> /\ row.steps = <<>> /\ pc = "create" /\ i = 1 /\ ~hardStop
    BY DEF Init, NoExecution
  <2>2. row.status = "absent"
    BY DEF Init, NoExecution
  <2> QED
    BY <2>1, <2>2 DEF ProgressInv, ProgressOK, BehindMemory, TerminalSettled, CompletedMeansAll,
       Terminal, AtStep
<1> QED
  BY <1>1, ProgressStep, AlwaysSafe, PTL DEF Spec

(* However a run ends - denied, failed early, cancelled, finished - no     *)
(* step of its row is left pending or running.                             *)
THEOREM TerminalRowsAreSettled == Spec => []TerminalSettled
<1>1. ProgressInv => TerminalSettled
  BY DEF ProgressInv
<1> QED
  BY <1>1, AlwaysProgress, PTL

(* COMPLETED is never given to a run that skipped a step: a hard stop      *)
(* leaves a failed step behind, which finish() sees.                       *)
THEOREM CompletedIsComplete == Spec => []CompletedMeansAll
<1>1. ProgressInv => CompletedMeansAll
  BY DEF ProgressInv
<1> QED
  BY <1>1, AlwaysProgress, PTL

(* A result that was saved once stays as it is, for ever.                  *)
THEOREM SavedResultsAreFinal == Spec => ResultsAreFinal
<1>1. Safe /\ Safe' /\ ProgressInv /\ [Next]_vars =>
        [\A k \in DOMAIN row.steps :
           row.steps[k].status \in {"completed", "failed"} =>
             k \in DOMAIN row'.steps /\ row'.steps[k] = row.steps[k]]_row
  BY ResultsStep DEF ProgressInv, BehindMemory, ResultsStay, Results
<1> QED
  BY <1>1, AlwaysSafe, AlwaysProgress, PTL DEF Spec, ResultsAreFinal

-----------------------------------------------------------------------------
(* What the log announces.                                                 *)

(* An event of this type tells the truth about execution r.                *)
Truthful(t, r) ==
  /\ t \in DOMAIN AnnouncedStatus => r.status = AnnouncedStatus[t]
  /\ t = "cancellation_requested" => r.cancellation_requested

(* The log, the events still to be emitted, and the requests that are      *)
(* about to report themselves.                                             *)
AnnounceInv ==
  /\ \A e \in events : Truthful(e.type, row)
  /\ \A k \in DOMAIN outbox : Truthful(outbox[k], row)
  /\ \A c \in Cancellers : canceller[c].pc \in {"emit", "append"} => Requested

LEMMA AnnouncedIsTerminal ==
  ASSUME NEW t \in DOMAIN AnnouncedStatus
  PROVE  AnnouncedStatus[t] \in Terminal
BY DEF AnnouncedStatus, Terminal

(* The types that announce nothing.                                        *)
Neutral == {"execution_created", "policy_check_started", "policy_allowed", "plan_created",
            "execution_started", "step_started", "step_completed", "step_failed", "observed",
            "adaptive_rule_matched", "step_added_to_plan"}

LEMMA NeutralIsTruthful ==
  ASSUME NEW t \in Neutral
  PROVE  Truthful(t, row')
BY DEF Neutral, Truthful, AnnouncedStatus

(* The outbox after a statement of the runner: neutral events, or the one  *)
(* event that announces the status just saved.                             *)
LEMMA PreflightOutbox ==
  ASSUME Safe, Preflight
  PROVE  \A k \in DOMAIN outbox' : Truthful(outbox'[k], row')
<1>1. CASE Create \/ BeginPolicyCheck \/ Authorize \/ BuildPlan \/ Start
  <2>1. PICK t \in Neutral : outbox' = <<t>>
    BY <1>1 DEF Create, BeginPolicyCheck, Authorize, BuildPlan, Start, Commit, Neutral
  <2> QED
    BY <2>1, NeutralIsTruthful
<1>2. CASE Reauthorize
  BY <1>2 DEF Reauthorize, At
<1>3. CASE Deny
  <2>1. row'.status = "denied" /\ outbox' = <<"policy_denied">>
    BY <1>3, MoveEffect DEF Safe, Deny, Commit, Statuses, Terminal
  <2>2. Truthful("policy_denied", row')
    BY <2>1 DEF Truthful, AnnouncedStatus, Requested
  <2> QED
    BY <2>1, <2>2
<1>4. CASE FailPreflight
  <2>1. row'.status = "failed" /\ outbox' = <<"execution_failed">>
    BY <1>4, MoveEffect DEF Safe, FailPreflight, Commit, Statuses, Terminal
  <2>2. Truthful("execution_failed", row')
    BY <2>1 DEF Truthful, AnnouncedStatus, Requested
  <2> QED
    BY <2>1, <2>2
<1> QED
  BY <1>1, <1>2, <1>3, <1>4 DEF Preflight

LEMMA RunStepOutbox ==
  ASSUME Safe, RunStep
  PROVE  \A k \in DOMAIN outbox' : Truthful(outbox'[k], row')
<1>1. CASE CancelRun
  <2>1. row'.status = "cancelled" /\ outbox' = <<"execution_cancelled">>
    BY <1>1, CancelRunSteps DEF CancelRun, Commit
  <2>2. Truthful("execution_cancelled", row')
    BY <2>1 DEF Truthful, AnnouncedStatus, Requested
  <2> QED
    BY <2>1, <2>2
<1>2. CASE Finish
  <2>1. FinalStatus(mem.steps) \in {"completed", "partially_completed", "failed"}
    BY DEF FinalStatus
  <2>2. row'.status = FinalStatus(mem.steps)
    BY <1>2, <2>1, MoveEffect DEF Safe, Finish, Statuses, Terminal
  <2>3. outbox' = <<FinalEvent(FinalStatus(mem.steps))>>
    BY <1>2 DEF Finish, Commit
  <2>4. Truthful(FinalEvent(FinalStatus(mem.steps)), row')
    BY <2>1, <2>2 DEF FinalEvent, Truthful, AnnouncedStatus
  <2> QED
    BY <2>3, <2>4
<1>3. CASE SkipStep \/ NotCancelled \/ AllowStep \/ FailStep \/ PlanExpanded
  BY <1>3 DEF SkipStep, NotCancelled, AllowStep, FailStep, PlanExpanded, InLoop, At
<1>4. CASE DenyStep \/ StartStep \/ ExpandPlan \/ RecordStep \/ LoopEnds
  <2>1. outbox' \in {<<>>, <<"step_failed">>, <<"step_completed">>, <<"step_started">>,
                     <<"step_started", "observed">>, <<"observed">>,
                     <<"adaptive_rule_matched", "step_added_to_plan">>}
    BY <1>4 DEF DenyStep, StartStep, ExpandPlan, RecordStep, LoopEnds, Commit
  <2>2. \A k \in DOMAIN outbox' : outbox'[k] \in Neutral
    BY <2>1 DEF Neutral
  <2> QED
    BY <2>2, NeutralIsTruthful
<1>5. CASE CompleteStep
  <2>1. \A k \in DOMAIN outbox' : outbox'[k] \in Neutral
    BY <1>5 DEF CompleteStep, Neutral
  <2> QED
    BY <2>1, NeutralIsTruthful
<1> QED
  BY <1>1, <1>2, <1>3, <1>4, <1>5 DEF RunStep

(* What was true stays true: an announced status is terminal, and a        *)
(* request is never withdrawn.                                             *)
LEMMA TruthStays ==
  ASSUME Safe, Safe', [Next]_vars, NEW t, Truthful(t, row)
  PROVE  Truthful(t, row')
<1>1. Requested => Requested'
  <2>1. CASE Preflight \/ RunStep
    BY <2>1, PreflightControl, RunStepControl DEF Safe
  <2>2. CASE Emit \/ Raise \/ Revoke \/ UNCHANGED vars
    BY <2>2, OthersControl DEF Safe, Requested, vars
  <2>3. ASSUME NEW c \in Cancellers, Canceller(c) PROVE Requested => Requested'
    BY <2>3, CancellerControl DEF Safe, Requested
  <2> QED
    BY <2>1, <2>2, <2>3 DEF Next, Runner
<1>2. row.status \in Terminal => row'.status = row.status
  <2> SUFFICES ASSUME row.status \in Terminal PROVE row'.status = row.status
    OBVIOUS
  <2>1. ~Preflight /\ ~RunStep
    BY TerminalStops DEF Safe
  <2>2. CASE Emit \/ Raise \/ Revoke
    BY <2>2, OthersControl DEF Safe
  <2>3. ASSUME NEW c \in Cancellers, Canceller(c) PROVE row'.status = row.status
    BY <2>3, CancellerControl DEF Safe
  <2>4. CASE UNCHANGED vars
    BY <2>4 DEF vars
  <2> QED
    BY <2>1, <2>2, <2>3, <2>4 DEF Next, Runner
<1> QED
  BY <1>1, <1>2, AnnouncedIsTerminal DEF Truthful, Requested

LEMMA AnnounceStep == Safe /\ Safe' /\ AnnounceInv /\ [Next]_vars => AnnounceInv'
<1> SUFFICES ASSUME Safe, Safe', AnnounceInv, [Next]_vars PROVE AnnounceInv'
  OBVIOUS
<1>0. /\ \A e \in events : Truthful(e.type, row')
      /\ \A k \in DOMAIN outbox : Truthful(outbox[k], row')
      /\ Requested => Requested'
  <2>1. \A e \in events : Truthful(e.type, row')
    BY TruthStays DEF AnnounceInv
  <2>2. \A k \in DOMAIN outbox : Truthful(outbox[k], row')
    BY TruthStays DEF AnnounceInv
  <2>3. Truthful("cancellation_requested", row) => Truthful("cancellation_requested", row')
    BY TruthStays
  <2>4. Requested => Requested'
    BY <2>3 DEF Truthful, AnnouncedStatus, Requested
  <2> QED
    BY <2>1, <2>2, <2>4
<1>a. outbox \in Seq(EventTypes)
  BY DEF Safe, TypeOK
<1>1. CASE Preflight \/ RunStep
  <2>1. events' = events /\ canceller' = canceller
    BY <1>1 DEF Preflight, RunStep, Create, BeginPolicyCheck, Authorize, Deny, Reauthorize,
       FailPreflight, BuildPlan, Start, SkipStep, CancelRun, NotCancelled, DenyStep, AllowStep,
       StartStep, CompleteStep, FailStep, ExpandPlan, PlanExpanded, RecordStep, LoopEnds,
       Finish, world
  <2>2. \A k \in DOMAIN outbox' : Truthful(outbox'[k], row')
    BY <1>1, PreflightOutbox, RunStepOutbox
  <2> QED
    BY <1>0, <2>1, <2>2 DEF AnnounceInv
<1>2. CASE EmitRead \/ EmitCollides \/ Raise
  <2>1. events' = events /\ canceller' = canceller
    BY <1>2 DEF EmitRead, EmitCollides, Raise, Die
  <2>2. outbox' \in {outbox, <<>>} \/ (outbox # <<>> /\ outbox' = Tail(outbox))
    BY <1>2 DEF EmitRead, EmitCollides, Raise, Die
  <2>3. \A k \in DOMAIN outbox' : \E j \in DOMAIN outbox : outbox'[k] = outbox[j]
    BY <1>a, <2>2
  <2> QED
    BY <1>0, <2>1, <2>3 DEF AnnounceInv
<1>3. CASE EmitAppend
  <2>1. outbox # <<>>
    BY <1>3 DEF EmitAppend, Safe, EmissionOK
  <2>2. outbox' = Tail(outbox) /\ canceller' = canceller
    BY <1>3 DEF EmitAppend
  <2>3. \A k \in DOMAIN outbox' : \E j \in DOMAIN outbox : outbox'[k] = outbox[j]
    BY <1>a, <2>1, <2>2
  <2>4. 1 \in DOMAIN outbox /\ Head(outbox) = outbox[1]
    BY <1>a, <2>1
  <2>5. \A e \in events' : Truthful(e.type, row')
    BY <1>0, <1>3, <2>4 DEF EmitAppend
  <2> QED
    BY <1>0, <2>2, <2>3, <2>5 DEF AnnounceInv
<1>4. CASE Revoke \/ UNCHANGED vars
  <2>1. events' = events /\ canceller' = canceller /\ outbox' = outbox
    BY <1>4 DEF Revoke, vars, world
  <2> QED
    BY <1>0, <2>1 DEF AnnounceInv
<1>5. ASSUME NEW c \in Cancellers, Canceller(c) PROVE AnnounceInv'
  <2>1. /\ \A d \in Cancellers \ {c} : canceller'[d] = canceller[d]
        /\ outbox' = outbox
    BY <1>5 DEF Canceller, RequestCancellation, CancelEmitRead, CancelEmitAppend, Safe, TypeOK
  <2>2. Requested'
    <3>1. CASE RequestCancellation(c)
      BY <3>1 DEF RequestCancellation, Requested, Safe, TypeOK, Execution
    <3>2. CASE CancelEmitRead(c) \/ CancelEmitAppend(c)
      BY <1>0, <3>2 DEF CancelEmitRead, CancelEmitAppend, AnnounceInv
    <3> QED
      BY <1>5, <3>1, <3>2 DEF Canceller
  <2>3. Truthful("cancellation_requested", row')
    BY <2>2 DEF Truthful, AnnouncedStatus, Requested
  <2>4. \A e \in events' : e \in events \/ e.type = "cancellation_requested"
    BY <1>5 DEF Canceller, RequestCancellation, CancelEmitRead, CancelEmitAppend
  <2>5. \A e \in events' : Truthful(e.type, row')
    BY <1>0, <2>3, <2>4
  <2> QED
    BY <1>0, <2>1, <2>2, <2>5 DEF AnnounceInv
<1> QED
  BY <1>1, <1>2, <1>3, <1>4, <1>5 DEF Next, Runner, Emit

(* Nothing the log says about the whole execution is ever contradicted by  *)
(* the row, whoever appended it and however late.                          *)
THEOREM AnnouncementsAreTrue == Spec => []AnnouncedIsSaved
<1>1. Init => AnnounceInv
  BY DEF Init, AnnounceInv
<1>2. AnnounceInv => AnnouncedIsSaved
  BY DEF AnnounceInv, Truthful, Requested, AnnouncedIsSaved
<1> QED
  BY <1>1, <1>2, AnnounceStep, AlwaysSafe, PTL DEF Spec

-----------------------------------------------------------------------------
(* Termination.  What RunSettles adds is fairness; that the runner cannot  *)
(* go on for ever is a matter of a measure.                                *)

Ends == {"finish", "done", "raised"}

LoopSteps == AtStep \cup {"loop"}

(* How far a statement is from the end of its phase.                       *)
Stage ==
  [p \in RunnerSteps |->
     CASE p \in {"raised"}                     -> 0
       [] p \in {"done", "record", "start"}    -> 1
       [] p \in {"finish", "expand", "plan"}   -> 2
       [] p \in {"dispatched", "gate2"}        -> 3
       [] p \in {"dispatch", "gate1"}          -> 4
       [] p \in {"gate", "created"}            -> 5
       [] OTHER                                -> 6]

(* A bound on the statements the runner still executes: the loop's index   *)
(* moves up, the plan may grow below it, and both stop at max_steps.       *)
LoopRank(k, n, stage) == 7 * (MaxSteps + 1 - k) + (MaxSteps - n) + stage

GateRank(stage) == 8 * MaxSteps + 6 + stage

Rank ==
  IF pc \in Ends THEN Stage[pc]
  ELSE IF pc \in LoopSteps THEN LoopRank(i, Len(mem.steps), Stage[pc]) ELSE GateRank(Stage[pc])

(* What is left to do of its events: a read and an insert for each.        *)
Pending == 2 * Len(outbox) + IF seq = 0 THEN 1 ELSE 0

MostStatements == 8 * MaxSteps + 12

(* The loop's index is at most one past the plan.                          *)
IndexOK == pc = "loop" => i <= Len(mem.steps) + 1

(* A runner that is gone emits nothing.                                    *)
Silent == pc = "raised" => outbox = <<>>

Bounded == Safe /\ PlanInv /\ ProgressInv /\ IndexOK /\ Silent

(* The arithmetic of the measure.                                          *)
LEMMA Sevens ==
  /\ \A n \in Int : 7 * n \in Int /\ 8 * n = 7 * n + n
  /\ \A m, n \in Nat : m <= n => 7 * m \in Nat /\ 7 * m <= 7 * n
  /\ \A m \in Nat, k \in Nat : 7 * (m + 1 - (k + 1)) = 7 * (m + 1 - k) - 7
OBVIOUS

LEMMA GateRankType ==
  /\ MostStatements \in Nat
  /\ \A s \in 0..6 : GateRank(s) \in 0..MostStatements /\ s < GateRank(s)
  /\ \A s, r \in 0..6 : s < r => GateRank(s) < GateRank(r)
<1>1. MaxSteps \in Nat /\ 8 * MaxSteps \in Nat
  BY LimitAssumption
<1> QED
  BY <1>1 DEF GateRank, MostStatements

(* Anywhere in the loop there is less to do than at the gates.             *)
LEMMA LoopRankType ==
  ASSUME NEW n \in 0..MaxSteps, NEW k \in Nat \ {0}, k <= n + 1, NEW s \in 0..6
  PROVE  /\ LoopRank(k, n, s) \in 0..MostStatements /\ s <= LoopRank(k, n, s)
         /\ LoopRank(k, n, s) < GateRank(1)
<1>1. /\ MaxSteps \in Nat /\ MaxSteps + 1 - k \in Nat /\ MaxSteps + 1 - k <= MaxSteps
      /\ MaxSteps - n \in 0..MaxSteps
  BY LimitAssumption
<1>2. /\ 7 * (MaxSteps + 1 - k) \in Nat /\ 7 * (MaxSteps + 1 - k) <= 7 * MaxSteps
      /\ 7 * MaxSteps \in Nat /\ 8 * MaxSteps = 7 * MaxSteps + MaxSteps
  BY <1>1, Sevens
<1>3. ASSUME NEW x \in Nat, NEW y \in Nat, x <= y, NEW z \in 0..MaxSteps
      PROVE  x + z + s \in 0..(y + MaxSteps + 12) /\ s <= x + z + s
             /\ x + z + s < y + MaxSteps + 6 + 1
  BY <1>1, <1>3
<1> QED
  BY <1>1, <1>2, <1>3 DEF LoopRank, GateRank, MostStatements

(* What makes the measure of the loop smaller.                             *)
LEMMA LoopRankShrinks ==
  ASSUME NEW n \in 0..MaxSteps, NEW k \in Nat \ {0}, NEW s \in 0..6
  PROVE  /\ \A r \in 0..6 : LoopRank(k + 1, n, r) < LoopRank(k, n, s) <=> r < s + 7
         /\ \A r \in 0..6 : LoopRank(k, n, r) < LoopRank(k, n, s) <=> r < s
         /\ LoopRank(k, n + 1, s) < LoopRank(k, n, s)
<1>1. MaxSteps \in Nat /\ 7 * (MaxSteps + 1 - k) \in Int
  BY LimitAssumption, Sevens
<1>2. 7 * (MaxSteps + 1 - (k + 1)) = 7 * (MaxSteps + 1 - k) - 7
  BY <1>1, Sevens
<1>3. ASSUME NEW x \in Int
      PROVE  /\ \A r \in 0..6 : x - 7 + (MaxSteps - n) + r < x + (MaxSteps - n) + s <=> r < s + 7
             /\ \A r \in 0..6 : x + (MaxSteps - n) + r < x + (MaxSteps - n) + s <=> r < s
             /\ x + (MaxSteps - (n + 1)) + s < x + (MaxSteps - n) + s
  BY <1>1
<1> QED
  BY <1>1, <1>2, <1>3 DEF LoopRank

LEMMA StageNumbers == \A p \in RunnerSteps : Stage[p] \in 0..6
BY DEF Stage

LEMMA PhaseTypes ==
  ASSUME Safe, PlanInv, ProgressInv
  PROVE  /\ MaxSteps \in Nat /\ i \in Nat \ {0} /\ pc \in RunnerSteps
         /\ Len(mem.steps) \in 0..MaxSteps /\ DOMAIN mem.steps = 1..Len(mem.steps)
         /\ pc \in AtStep => i <= Len(mem.steps)
<1>1. mem.steps \in Seq(Step)
  BY DEF Safe, TypeOK, Execution
<1> QED
  BY <1>1, LimitAssumption
  DEF Safe, TypeOK, PlanInv, WellPlanned, ProgressInv, ProgressOK, AtStep

LEMMA RankType ==
  ASSUME Bounded
  PROVE  Rank \in 0..MostStatements
<1>0. /\ MaxSteps \in Nat /\ i \in Nat \ {0} /\ pc \in RunnerSteps
      /\ Len(mem.steps) \in 0..MaxSteps
      /\ pc \in AtStep => i <= Len(mem.steps)
  BY PhaseTypes DEF Bounded
<1>1. Stage[pc] \in 0..6
  BY <1>0, StageNumbers
<1>2. CASE pc \in LoopSteps
  <2>1. i <= Len(mem.steps) + 1
    BY <1>0, <1>2 DEF Bounded, IndexOK, LoopSteps
  <2>2. pc \notin Ends
    BY <1>2 DEF LoopSteps, AtStep, Ends
  <2> QED
    BY <1>0, <1>1, <1>2, <2>1, <2>2, LoopRankType DEF Rank
<1>3. CASE pc \notin LoopSteps
  <2>1. 6 <= MostStatements
    BY GateRankType
  <2> QED
    BY <1>1, <1>3, <2>1, GateRankType DEF Rank
<1> QED
  BY <1>2, <1>3

LEMMA PendingType ==
  ASSUME Safe
  PROVE  Pending \in Nat
<1>1. outbox \in Seq(EventTypes) /\ seq \in Nat
  BY DEF Safe, TypeOK
<1>2. Len(outbox) \in Nat
  BY <1>1
<1> QED
  BY <1>1, <1>2 DEF Pending

(* The gates come in one order and each is passed once.                    *)
LEMMA PreflightShrinks ==
  ASSUME Bounded, Safe', PlanInv', ProgressInv', Preflight
  PROVE  Rank' < Rank /\ IndexOK'
<1>1. i' = i /\ i \in Nat
  BY PhaseTypes DEF Bounded, Preflight, Create, BeginPolicyCheck, Authorize, Deny,
     Reauthorize, FailPreflight, BuildPlan, Start, loop
<1>2. CASE Start
  <2>1. pc = "start" /\ pc' = "loop" /\ i = 1
    BY <1>2 DEF Start, At, Commit, Bounded, ProgressInv, ProgressOK
  <2>2. MaxSteps \in Nat /\ Len(mem'.steps) \in 0..MaxSteps
    BY LimitAssumption DEF Safe, TypeOK, Execution, PlanInv, WellPlanned
  <2>3. Rank = GateRank(1)
    BY <2>1 DEF Rank, Ends, LoopSteps, AtStep, Stage, RunnerSteps
  <2>4. Rank' = LoopRank(1, Len(mem'.steps), 6)
    BY <1>1, <2>1 DEF Rank, Ends, LoopSteps, AtStep, Stage, RunnerSteps
  <2> QED
    BY <1>1, <2>1, <2>2, <2>3, <2>4, LoopRankType DEF IndexOK
<1>3. CASE Create \/ BeginPolicyCheck \/ Authorize \/ Deny \/ Reauthorize \/ FailPreflight
           \/ BuildPlan
  <2>1. <<pc, pc'>> \in {<<"create", "created">>, <<"created", "gate1">>, <<"gate1", "gate2">>,
                         <<"gate1", "done">>, <<"gate2", "done">>, <<"gate2", "plan">>,
                         <<"plan", "done">>, <<"plan", "start">>}
    BY <1>3 DEF Create, BeginPolicyCheck, Authorize, Deny, Reauthorize, FailPreflight,
       BuildPlan, At, Commit
  <2>2. pc \in RunnerSteps \ (Ends \cup LoopSteps) /\ Stage[pc'] < Stage[pc]
    BY <2>1 DEF Ends, LoopSteps, AtStep, Stage, RunnerSteps
  <2>3. pc' \in RunnerSteps \ LoopSteps /\ pc' # "loop"
    BY <2>1 DEF LoopSteps, AtStep, RunnerSteps
  <2>4. Stage[pc] \in 0..6 /\ Stage[pc'] \in 0..6
    BY <2>2, <2>3, StageNumbers
  <2>5. Rank = GateRank(Stage[pc])
    BY <2>2 DEF Rank
  <2>6. Rank' = Stage[pc'] \/ Rank' = GateRank(Stage[pc'])
    BY <2>3 DEF Rank
  <2>7. Rank' < Rank
    <3>1. Stage[pc'] < GateRank(Stage[pc])
      BY <2>2, <2>4, GateRankType
    <3> QED
      BY <2>2, <2>4, <2>5, <2>6, <3>1, GateRankType
  <2> QED
    BY <2>3, <2>7 DEF IndexOK
<1> QED
  BY <1>2, <1>3 DEF Preflight

(* The lengths of the plan in memory before and after a statement.         *)
LEMMA SameLength ==
  ASSUME Safe, Safe', DOMAIN mem'.steps = DOMAIN mem.steps
  PROVE  Len(mem'.steps) = Len(mem.steps)
BY DEF Safe, TypeOK, Execution

(* Each statement of the loop goes on to a later one, to the next step, or *)
(* adds a step to a plan that has room.                                    *)
LEMMA RunStepShrinks ==
  ASSUME Bounded, Safe', PlanInv', ProgressInv', RunStep
  PROVE  Rank' < Rank /\ IndexOK'
<1> DEFINE n == Len(mem.steps)
<1>0. /\ MaxSteps \in Nat /\ i \in Nat \ {0} /\ n \in 0..MaxSteps
      /\ pc \in AtStep => i <= n
  BY PhaseTypes DEF Bounded
<1>1. CASE Finish
  <2>1. pc = "finish" /\ pc' = "done"
    BY <1>1 DEF Finish, At, Commit
  <2> QED
    BY <2>1 DEF Rank, Ends, Stage, RunnerSteps, IndexOK
<1>2. CASE CancelRun \/ LoopEnds
  <2>1. pc = "loop" /\ pc' \in {"done", "finish"}
    BY <1>2 DEF CancelRun, LoopEnds, InLoop, At, Commit
  <2>2. Rank = LoopRank(i, n, 6) /\ Rank' \in {1, 2}
    BY <2>1 DEF Rank, Ends, LoopSteps, Stage, RunnerSteps, AtStep
  <2>3. 6 <= LoopRank(i, n, 6) /\ LoopRank(i, n, 6) \in Nat
    <3>1. i <= n + 1
      BY <2>1 DEF Bounded, IndexOK
    <3>2. 6 <= LoopRank(i, n, 6) /\ LoopRank(i, n, 6) \in 0..MostStatements
      BY <1>0, <3>1, LoopRankType
    <3> QED
      BY <3>2, GateRankType
  <2> QED
    BY <2>1, <2>2, <2>3 DEF IndexOK
<1>3. CASE SkipStep \/ DenyStep \/ RecordStep
  <2>1. /\ i' = i + 1 /\ pc' = "loop" /\ pc \in {"loop", "gate", "record"}
    BY <1>3, RecordKeeps DEF Bounded, SkipStep, DenyStep, RecordStep, InLoop, At, Commit
  <2>2. Len(mem'.steps) = n
    <3>1. DOMAIN mem'.steps = DOMAIN mem.steps
      BY <1>3, MarkSteps, RecordKeeps DEF Bounded, Marks
    <3> QED
      BY <3>1, SameLength DEF Bounded
  <2>3. i <= n
    BY <1>0, <1>3 DEF SkipStep, InLoop, DenyStep, RecordStep, At, AtStep
  <2>4. PICK s \in 1..6 : Rank = LoopRank(i, n, s)
    BY <2>1 DEF Rank, Ends, LoopSteps, Stage, RunnerSteps, AtStep
  <2>5. Rank' = LoopRank(i + 1, n, 6)
    BY <2>1, <2>2 DEF Rank, Ends, LoopSteps, Stage, RunnerSteps, AtStep
  <2>6. Rank' < Rank
    <3>1. s \in 0..6 /\ 6 \in 0..6 /\ 6 < s + 7
      OBVIOUS
    <3>2. LoopRank(i + 1, n, 6) < LoopRank(i, n, s)
      BY <1>0, <3>1, LoopRankShrinks
    <3> QED
      BY <2>4, <2>5, <3>2
  <2> QED
    BY <1>0, <2>1, <2>2, <2>3, <2>6 DEF IndexOK
<1>4. CASE NotCancelled \/ AllowStep \/ StartStep \/ CompleteStep \/ FailStep \/ PlanExpanded
  <2>1. i' = i /\ <<pc, pc'>> \in {<<"loop", "gate">>, <<"loop", "dispatch">>,
          <<"gate", "dispatch">>, <<"dispatch", "dispatched">>, <<"dispatched", "expand">>,
          <<"dispatched", "record">>, <<"expand", "record">>}
    BY <1>4 DEF NotCancelled, AllowStep, StartStep, CompleteStep, FailStep, PlanExpanded,
       InLoop, At, Commit, loop
  <2>2. Len(mem'.steps) = n
    <3>1. DOMAIN mem'.steps = DOMAIN mem.steps
      BY <1>4, MarkSteps, OthersKeep DEF Bounded, Marks
    <3> QED
      BY <3>1, SameLength DEF Bounded
  <2>3. PICK s \in 0..6, r \in 0..6 : r < s /\ Rank = LoopRank(i, n, s) /\ Rank' = LoopRank(i, n, r)
    <3>1. pc \in LoopSteps \ Ends /\ pc' \in LoopSteps \ Ends /\ pc \in RunnerSteps
          /\ pc' \in RunnerSteps /\ Stage[pc'] < Stage[pc]
      BY <2>1 DEF Ends, LoopSteps, AtStep, Stage, RunnerSteps
    <3>2. Stage[pc] \in 0..6 /\ Stage[pc'] \in 0..6
      BY <3>1, StageNumbers
    <3>3. Rank = LoopRank(i, n, Stage[pc]) /\ Rank' = LoopRank(i, n, Stage[pc'])
      BY <2>1, <2>2, <3>1 DEF Rank
    <3> QED
      BY <3>1, <3>2, <3>3
  <2>4. Rank' < Rank
    BY <1>0, <2>3, LoopRankShrinks
  <2> QED
    BY <2>1, <2>4 DEF IndexOK
<1>5. CASE ExpandPlan
  <2>1. i' = i /\ pc = "expand" /\ pc' = "expand" /\ n < MaxSteps
    BY <1>5 DEF ExpandPlan, PlanHasRoom, At, Commit, loop
  <2>2. Len(mem'.steps) = n + 1
    <3>1. PICK step : mem'.steps = Append(mem.steps, step)
      BY <1>5, ExpandPlanSteps DEF Bounded
    <3>2. mem.steps \in Seq(Step)
      BY DEF Bounded, Safe, TypeOK, Execution
    <3> QED
      BY <3>1, <3>2
  <2>3. Rank = LoopRank(i, n, 2) /\ Rank' = LoopRank(i, n + 1, 2)
    BY <2>1, <2>2 DEF Rank, Ends, LoopSteps, Stage, RunnerSteps, AtStep
  <2>4. Rank' < Rank
    BY <1>0, <2>3, LoopRankShrinks
  <2> QED
    BY <2>1, <2>4 DEF IndexOK
<1> QED
  BY <1>1, <1>2, <1>3, <1>4, <1>5 DEF RunStep

(* An emission reads a number, then inserts or drops its event; whatever   *)
(* kills the runner leaves nothing to do.                                  *)
LEMMA EmitShrinks ==
  ASSUME Safe, EmitRead \/ EmitAppend
  PROVE  Rank' = Rank /\ Pending' < Pending /\ (IndexOK => IndexOK')
<1>1. outbox \in Seq(EventTypes) /\ seq \in Nat /\ outbox # <<>>
  BY DEF Safe, TypeOK, EmissionOK, EmitRead, EmitAppend
<1>2. pc' = pc /\ i' = i /\ mem' = mem
  BY DEF EmitRead, EmitAppend, loop
<1>3. Len(outbox) \in Nat /\ Len(Tail(outbox)) = Len(outbox) - 1
  BY <1>1
<1>4. \/ outbox' = Tail(outbox) /\ seq = 0 /\ seq' = 0
      \/ outbox' = outbox /\ seq = 0 /\ seq' # 0
      \/ outbox' = Tail(outbox) /\ seq # 0 /\ seq' = 0
  <2>1. IsFiniteSet(events)
    BY DEF Safe, EmissionOK
  <2>2. next_sequence # 0
    BY <2>1, FS_CardinalityType DEF next_sequence
  <2> QED
    BY <2>2 DEF EmitRead, EmitAppend
<1>5. Pending' < Pending
  BY <1>3, <1>4 DEF Pending
<1> QED
  BY <1>2, <1>5 DEF Rank, IndexOK

LEMMA DeathShrinks ==
  ASSUME Bounded, EmitCollides \/ Raise
  PROVE  Rank' < Rank /\ IndexOK'
<1>1. pc # "raised" /\ pc' = "raised" /\ pc \in RunnerSteps
  BY DEF Bounded, Safe, TypeOK, EmissionOK, Silent, EmitCollides, Raise, Die
<1>2. Rank' = 0
  BY <1>1 DEF Rank, Ends, Stage, RunnerSteps
<1>3. Rank # 0
  <2>1. Stage[pc] \in 1..6
    BY <1>1 DEF Stage, RunnerSteps
  <2>2. CASE pc \in LoopSteps
    <3>1. i <= Len(mem.steps) + 1
      BY <2>2, PhaseTypes DEF Bounded, IndexOK, LoopSteps
    <3>2. i \in Nat \ {0} /\ Len(mem.steps) \in 0..MaxSteps /\ Stage[pc] \in 0..6
      BY <2>1, PhaseTypes DEF Bounded
    <3>3. /\ Stage[pc] <= LoopRank(i, Len(mem.steps), Stage[pc])
          /\ LoopRank(i, Len(mem.steps), Stage[pc]) \in 0..MostStatements
      BY <3>1, <3>2, LoopRankType
    <3>4. Rank = LoopRank(i, Len(mem.steps), Stage[pc])
      BY <2>2 DEF Rank, LoopSteps, AtStep, Ends
    <3> QED
      BY <2>1, <3>3, <3>4, GateRankType
  <2>3. CASE pc \notin LoopSteps
    BY <2>1, <2>3, GateRankType DEF Rank
  <2> QED
    BY <2>2, <2>3
<1>4. Rank \in Nat
  BY RankType, GateRankType
<1> QED
  BY <1>1, <1>2, <1>3, <1>4 DEF IndexOK

LEMMA SilentStep ==
  ASSUME Safe, Silent, [Next]_vars
  PROVE  Silent'
<1>1. CASE Preflight \/ RunStep
  <2>1. pc' # "raised"
    BY <1>1, RunnerAlive
  <2> QED
    BY <2>1 DEF Silent
<1>2. CASE Emit \/ Raise
  BY <1>2 DEF Emit, EmitRead, EmitAppend, EmitCollides, Raise, Die, Silent, Safe, EmissionOK
<1>3. CASE Revoke \/ (\E c \in Cancellers : Canceller(c)) \/ UNCHANGED vars
  BY <1>3 DEF Revoke, Canceller, RequestCancellation, CancelEmitRead, CancelEmitAppend, vars,
     Silent
<1> QED
  BY <1>1, <1>2, <1>3 DEF Next, Runner

(* What the runner has left to do, as its steps and the others' change it. *)
Shrinks == Rank' < Rank \/ (Rank' = Rank /\ Pending' < Pending)

LEMMA MeasureStep ==
  ASSUME Bounded, Safe', PlanInv', ProgressInv', [Next]_vars
  PROVE  /\ IndexOK'
         /\ Runner \/ Raise => Shrinks
         /\ ~(Runner \/ Raise) => Rank' = Rank /\ Pending' = Pending
<1>1. CASE Preflight \/ RunStep
  BY <1>1, PreflightShrinks, RunStepShrinks DEF Shrinks, Runner
<1>2. CASE EmitRead \/ EmitAppend
  BY <1>2, EmitShrinks DEF Bounded, Shrinks, Runner, Emit
<1>3. CASE EmitCollides \/ Raise
  BY <1>3, DeathShrinks DEF Shrinks, Runner, Emit
<1>4. CASE ~(Runner \/ Raise)
  <2>1. pc' = pc /\ i' = i /\ mem' = mem /\ outbox' = outbox /\ seq' = seq
    BY <1>4 DEF Next, Revoke, Canceller, RequestCancellation, CancelEmitRead,
       CancelEmitAppend, vars, loop, world
  <2> QED
    BY <1>4, <2>1 DEF Bounded, IndexOK, Rank, Pending
<1> QED
  BY <1>1, <1>2, <1>3, <1>4 DEF Runner, Emit

LEMMA AlwaysBounded == Spec => []Bounded
<1>1. Init => IndexOK /\ Silent
  BY DEF Init, IndexOK, Silent
<1>2. Bounded /\ Safe' /\ PlanInv' /\ ProgressInv' /\ [Next]_vars => IndexOK' /\ Silent'
  <2> SUFFICES ASSUME Bounded, Safe', PlanInv', ProgressInv', [Next]_vars
               PROVE  IndexOK' /\ Silent'
    OBVIOUS
  <2>1. IndexOK'
    BY MeasureStep
  <2> QED
    BY <2>1, SilentStep DEF Bounded
<1> QED
  BY <1>1, <1>2, AlwaysSafe, AlwaysPlanned, AlwaysProgress, PTL DEF Spec, Bounded

(* The runner cannot go on for ever, however its steps, its cancellers and *)
(* the revocation interleave: <<Rank, Pending>>, a pair of naturals, falls *)
(* with every step of the runner and nobody else moves it.                 *)
THEOREM EveryRunnerStepIsProgress ==
  Spec => [][/\ Runner \/ Raise => Shrinks
             /\ ~(Runner \/ Raise) => Rank' = Rank /\ Pending' = Pending]_vars
<1>1. Bounded /\ Bounded' /\ [Next]_vars =>
        [/\ Runner \/ Raise => Shrinks
         /\ ~(Runner \/ Raise) => Rank' = Rank /\ Pending' = Pending]_vars
  <2> SUFFICES ASSUME Bounded, Bounded', [Next]_vars
               PROVE  /\ Runner \/ Raise => Shrinks
                      /\ ~(Runner \/ Raise) => Rank' = Rank /\ Pending' = Pending
    OBVIOUS
  <2>1. Safe' /\ PlanInv' /\ ProgressInv'
    BY DEF Bounded
  <2> QED
    BY <2>1, MeasureStep
<1> QED
  BY <1>1, AlwaysBounded, PTL DEF Spec

(* create_and_run() executes at most 8 * max_steps + 12 statements that    *)
(* are not about its events, whatever the discovery adds to its plan.      *)
THEOREM RunIsBounded == Spec => [](Rank \in 0..MostStatements /\ Pending \in Nat)
<1>1. Bounded => Rank \in 0..MostStatements /\ Pending \in Nat
  BY RankType, PendingType DEF Bounded
<1> QED
  BY <1>1, AlwaysBounded, PTL
=============================================================================
