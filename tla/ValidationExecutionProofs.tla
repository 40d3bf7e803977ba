--------------------- MODULE ValidationExecutionProofs ----------------------
(***************************************************************************)
(* Theorems about the gated validation execution, for every plan, every    *)
(* number of cancel requests and all limits, with a runner that may die    *)
(* between any two of its steps.                                           *)
(***************************************************************************)
EXTENDS ValidationExecution, FiniteSetTheorems, SequenceTheorems, TLAPS

-----------------------------------------------------------------------------
(* Type correctness.                                                       *)

(* Facts about the emission the types rest on.                             *)
EmissionOK ==
  /\ IsFiniteSet(events)
  /\ seq # 0 => outbox # <<>>
  /\ \A c \in Cancellers : canceller[c].pc = "append" => canceller[c].seq # 0

LEMMA StepStatusType ==
  ASSUME NEW x \in Step, NEW s \in StepStatuses
  PROVE  [x EXCEPT !.status = s] \in Step
BY DEF Step

(* The steps of an execution, each replaced by some step.                  *)
LEMMA MapStepsType ==
  ASSUME NEW steps \in Seq(Step), NEW new, new = [k \in DOMAIN steps |-> new[k]],
         \A k \in DOMAIN steps : new[k] \in Step
  PROVE  new \in Seq(Step)
<1>1. Len(steps) \in Nat /\ DOMAIN steps = 1..Len(steps)
  OBVIOUS
<1>2. new \in [1..Len(steps) -> Step]
  BY <1>1
<1> QED
  BY <1>1, <1>2, IsASeq

LEMMA WithStepType ==
  ASSUME TypeOK, NEW s \in StepStatuses
  PROVE  WithStep(s) \in Execution
<1> DEFINE new == [mem.steps EXCEPT ![i] = [@ EXCEPT !.status = s]]
<1>1. mem.steps \in Seq(Step) /\ mem \in Execution
  BY DEF TypeOK, Execution
<1>2. \A k \in DOMAIN mem.steps : mem.steps[k] \in Step
  BY <1>1
<1>3. \A k \in DOMAIN mem.steps :
        new[k] = IF k = i THEN [mem.steps[k] EXCEPT !.status = s] ELSE mem.steps[k]
  OBVIOUS
<1>4. \A k \in DOMAIN mem.steps : new[k] \in Step
  BY <1>2, <1>3, StepStatusType
<1>5. new \in Seq(Step)
  BY <1>1, <1>4, MapStepsType
<1>6. WithStep(s) = [mem EXCEPT !.steps = new]
  BY DEF WithStep
<1> QED
  BY <1>1, <1>5, <1>6 DEF Execution

LEMMA SavedType ==
  ASSUME TypeOK, NEW m \in Execution, NEW es \in Seq(EventTypes), NEW next \in RunnerSteps,
         Commit(m, es, next)
  PROVE  /\ mem' \in Execution /\ row' \in Execution
         /\ outbox' \in Seq(EventTypes) /\ pc' \in RunnerSteps
BY DEF TypeOK, Commit, Save, Execution

LEMMA CommitType ==
  ASSUME TypeOK, NEW m \in Execution, NEW es \in Seq(EventTypes), NEW next \in RunnerSteps,
         Commit(m, es, next), UNCHANGED <<loop, world, history>>
  PROVE  TypeOK'
BY SavedType DEF TypeOK, loop, world, history

(* A transition of the aggregate that changes only its status.             *)
LEMMA MoveType ==
  ASSUME TypeOK, NEW s \in Statuses, NEW e \in EventTypes, NEW next \in RunnerSteps,
         Commit([mem EXCEPT !.status = s], <<e>>, next), UNCHANGED <<loop, world, history>>
  PROVE  TypeOK'
<1>1. [mem EXCEPT !.status = s] \in Execution
  BY DEF TypeOK, Execution
<1>2. <<e>> \in Seq(EventTypes)
  OBVIOUS
<1> QED
  BY <1>1, <1>2, CommitType

LEMMA NextSequenceType ==
  ASSUME IsFiniteSet(events)
  PROVE  next_sequence \in Nat \ {0}
BY FS_CardinalityType DEF next_sequence

LEMMA PlanType ==
  ASSUME NEW plan \in Plans
  PROVE  plan \in Seq(StepKinds)
<1> DEFINE http  == <<"dns_resolution", "tcp_connectivity", "http_metadata",
                      "http_security_headers", "service_reachability">>
           https == <<"dns_resolution", "tcp_connectivity", "tls_handshake", "http_metadata",
                      "http_security_headers", "service_reachability">>
           discovery == <<"dns_resolution", "port_discovery">>
<1>1. plan = http \/ plan = https \/ plan = discovery
  BY PlanAssumption DEF StepPlans
<1>2. {"dns_resolution", "tcp_connectivity", "tls_handshake", "http_metadata",
       "http_security_headers", "service_reachability", "port_discovery"} \subseteq StepKinds
  BY DEF StepKinds, HardStopKinds, ReportKinds, ProbeKinds
<1>3. http \in Seq(StepKinds)
  BY <1>2
<1>4. https \in Seq(StepKinds)
  BY <1>2
<1>5. discovery \in Seq(StepKinds)
  BY <1>2
<1> QED
  BY <1>1, <1>3, <1>4, <1>5

LEMMA RuleSpecType ==
  ASSUME NEW k \in DOMAIN RuleSpecs
  PROVE  RuleSpecs[k].kind \in StepKinds /\ RuleSpecs[k].rule \in RuleIds
<1>1. RuleSpecs[k].rule \in RuleIds
  BY DEF RuleIds
<1>2. k \in 1..9
  BY DEF RuleSpecs
<1>3. RuleSpecs[k].kind \in ProbeKinds \cup ReportKinds
  BY <1>2 DEF RuleSpecs, ProbeKinds, ReportKinds
<1> QED
  BY <1>1, <1>3 DEF StepKinds

LEMMA PreflightType ==
  ASSUME TypeOK, Preflight
  PROVE  TypeOK'
<1>0. mem \in Execution
  BY DEF TypeOK
<1>1. CASE Create
  BY <1>1, MoveType DEF Create, Statuses, EventTypes, RunnerSteps
<1>2. CASE BeginPolicyCheck
  BY <1>2, MoveType DEF BeginPolicyCheck, Statuses, EventTypes, RunnerSteps
<1>3. CASE Authorize
  BY <1>3, MoveType DEF Authorize, Statuses, EventTypes, RunnerSteps
<1>4. CASE Deny
  BY <1>4, MoveType DEF Deny, Statuses, Terminal, EventTypes, RunnerSteps
<1>5. CASE Reauthorize
  BY <1>5 DEF Reauthorize, TypeOK, RunnerSteps, loop, world, history
<1>6. CASE FailPreflight
  BY <1>6, MoveType DEF FailPreflight, Statuses, Terminal, EventTypes, RunnerSteps
<1>7. CASE BuildPlan
  <2>1. PICK plan \in Plans :
          LET n == IF Len(plan) > MaxSteps THEN MaxSteps ELSE Len(plan)
          IN  Commit([mem EXCEPT !.steps = [k \in 1..n |->
                        [kind |-> plan[k], rule |-> "initial", status |-> "pending"]]],
                     <<"plan_created">>, "start")
    BY <1>7 DEF BuildPlan
  <2> DEFINE n == IF Len(plan) > MaxSteps THEN MaxSteps ELSE Len(plan)
             steps == [k \in 1..n |->
                        [kind |-> plan[k], rule |-> "initial", status |-> "pending"]]
  <2>2. plan \in Seq(StepKinds)
    BY PlanType
  <2>3. n \in Nat /\ n <= Len(plan)
    BY <2>2, LimitAssumption
  <2>4. Commit([mem EXCEPT !.steps = steps], <<"plan_created">>, "start")
    BY <2>1
  <2> HIDE DEF n
  <2>5. \A k \in 1..n : steps[k] \in Step
    BY <2>2, <2>3 DEF Step, StepStatuses
  <2>6. steps \in Seq(Step)
    BY <2>3, <2>5, IsASeq
  <2> HIDE DEF steps
  <2>7. [mem EXCEPT !.steps = steps] \in Execution
    BY <1>0, <2>6 DEF Execution
  <2>8. <<"plan_created">> \in Seq(EventTypes) /\ "start" \in RunnerSteps
    BY DEF EventTypes, RunnerSteps
  <2> QED
    BY <1>7, <2>4, <2>7, <2>8, CommitType DEF BuildPlan
<1>8. CASE Start
  BY <1>8, MoveType DEF Start, Statuses, EventTypes, RunnerSteps
<1> QED
  BY <1>1, <1>2, <1>3, <1>4, <1>5, <1>6, <1>7, <1>8 DEF Preflight

LEMMA RunStepType ==
  ASSUME TypeOK, RunStep
  PROVE  TypeOK'
<1>0. mem \in Execution /\ mem.steps \in Seq(Step) /\ i \in Nat \ {0}
  BY DEF TypeOK, Execution
<1>a. \A s \in {"running", "completed", "failed", "skipped"} : WithStep(s) \in Execution
  BY WithStepType DEF StepStatuses
<1>b. {"loop", "gate", "dispatch", "dispatched", "expand", "record", "finish", "done"}
        \subseteq RunnerSteps
  BY DEF RunnerSteps
<1>c. {"step_started", "step_completed", "step_failed", "observed", "adaptive_rule_matched",
       "step_added_to_plan", "execution_cancelled"} \subseteq EventTypes
  BY DEF EventTypes
<1>1. CASE SkipStep
  BY <1>0, <1>a, <1>1 DEF SkipStep, TypeOK, world, history
<1>2. CASE CancelRun
  <2> DEFINE steps == [k \in DOMAIN mem.steps |->
                         IF mem.steps[k].status = "pending"
                         THEN [mem.steps[k] EXCEPT !.status = "cancelled"]
                         ELSE mem.steps[k]]
  <2>1. \A k \in DOMAIN mem.steps : mem.steps[k] \in Step
    BY <1>0
  <2>2. \A k \in DOMAIN mem.steps : steps[k] \in Step
    BY <2>1, StepStatusType DEF StepStatuses
  <2>3. steps \in Seq(Step)
    BY <1>0, <2>2, MapStepsType
  <2>4. Commit([mem EXCEPT !.status = "cancelled", !.steps = steps],
               <<"execution_cancelled">>, "done")
    BY <1>2 DEF CancelRun
  <2> HIDE DEF steps
  <2>5. [mem EXCEPT !.status = "cancelled", !.steps = steps] \in Execution
    BY <1>0, <2>3 DEF Execution, Statuses, Terminal
  <2>6. <<"execution_cancelled">> \in Seq(EventTypes)
    BY <1>c
  <2> QED
    BY <1>2, <1>b, <2>4, <2>5, <2>6, CommitType DEF CancelRun
<1>3. CASE NotCancelled
  BY <1>b, <1>3 DEF NotCancelled, TypeOK, loop, world, history
<1>4. CASE DenyStep
  <2>1. <<"step_failed">> \in Seq(EventTypes)
    BY <1>c
  <2>2. /\ mem' \in Execution /\ row' \in Execution
        /\ outbox' \in Seq(EventTypes) /\ pc' \in RunnerSteps
    BY <1>a, <1>b, <1>4, <2>1, SavedType DEF DenyStep
  <2> QED
    BY <1>0, <1>4, <2>2 DEF DenyStep, TypeOK, world, history
<1>5. CASE AllowStep
  BY <1>b, <1>5 DEF AllowStep, TypeOK, loop, world, history
<1>6. CASE StartStep
  <2>1. <<"step_started">> \in Seq(EventTypes) /\ <<"step_started", "observed">> \in Seq(EventTypes)
    BY <1>c
  <2>2. PICK es \in Seq(EventTypes) : Commit(WithStep("running"), es, "dispatched")
    BY <1>6, <2>1 DEF StartStep
  <2>3. /\ mem' \in Execution /\ row' \in Execution
        /\ outbox' \in Seq(EventTypes) /\ pc' \in RunnerSteps
    BY <1>a, <1>b, <2>2, SavedType
  <2>4. lateStarts' \in Nat /\ unauthorized' \in Nat
    BY <1>6 DEF StartStep, TypeOK
  <2> QED
    BY <1>6, <2>3, <2>4 DEF StartStep, TypeOK, loop, world
<1>7. CASE CompleteStep
  <2>1. PICK n \in 0..MaxObserved :
          outbox' = [k \in 1..(n + IF Current.kind = "port_discovery" THEN 1 ELSE 0)
                       |-> "observed"]
    BY <1>7 DEF CompleteStep
  <2> DEFINE len == n + IF Current.kind = "port_discovery" THEN 1 ELSE 0
  <2>2. len \in Nat
    BY LimitAssumption
  <2>3. outbox' = [k \in 1..len |-> "observed"]
    BY <2>1
  <2> HIDE DEF len
  <2>4. outbox' \in Seq(EventTypes)
    BY <1>c, <2>2, <2>3, IsASeq
  <2>5. ingested' \in BOOLEAN
    BY <1>7 DEF CompleteStep, TypeOK
  <2>6. triggered' \subseteq RuleIds /\ pc' \in RunnerSteps
    BY <1>b, <1>7, TriggerAssumption DEF CompleteStep, TypeOK
  <2>7. mem' \in Execution
    BY <1>a, <1>7 DEF CompleteStep
  <2> QED
    BY <1>7, <2>4, <2>5, <2>6, <2>7 DEF CompleteStep, TypeOK, world, history
<1>8. CASE FailStep
  BY <1>a, <1>b, <1>8 DEF FailStep, TypeOK, world, history
<1>9. CASE ExpandPlan
  <2>1. PICK k \in DOMAIN RuleSpecs :
          Commit([mem EXCEPT !.steps = Append(@, [kind   |-> RuleSpecs[k].kind,
                                                  rule   |-> RuleSpecs[k].rule,
                                                  status |-> "pending"])],
                 <<"adaptive_rule_matched", "step_added_to_plan">>, "expand")
    BY <1>9 DEF ExpandPlan
  <2> DEFINE step == [kind |-> RuleSpecs[k].kind, rule |-> RuleSpecs[k].rule,
                      status |-> "pending"]
  <2>2. step \in Step
    BY RuleSpecType DEF Step, StepStatuses
  <2>3. Commit([mem EXCEPT !.steps = Append(@, step)],
               <<"adaptive_rule_matched", "step_added_to_plan">>, "expand")
    BY <2>1
  <2> HIDE DEF step
  <2>4. Append(mem.steps, step) \in Seq(Step)
    BY <1>0, <2>2
  <2>5. [mem EXCEPT !.steps = Append(@, step)] \in Execution
    BY <1>0, <2>4 DEF Execution
  <2>6. <<"adaptive_rule_matched", "step_added_to_plan">> \in Seq(EventTypes)
    BY <1>c
  <2> QED
    BY <1>b, <1>9, <2>3, <2>5, <2>6, CommitType DEF ExpandPlan
<1>10. CASE PlanExpanded
  BY <1>b, <1>10 DEF PlanExpanded, TypeOK, loop, world, history
<1>11. CASE RecordStep
  <2>1. <<"step_completed">> \in Seq(EventTypes) /\ <<"step_failed">> \in Seq(EventTypes)
    BY <1>c
  <2>2. PICK es \in Seq(EventTypes) : Commit(mem, es, "loop")
    BY <1>11, <2>1 DEF RecordStep
  <2>3. /\ mem' \in Execution /\ row' \in Execution
        /\ outbox' \in Seq(EventTypes) /\ pc' \in RunnerSteps
    BY <1>0, <1>b, <2>2, SavedType
  <2> QED
    BY <1>0, <1>11, <2>3 DEF RecordStep, TypeOK, world, history
<1>12. CASE LoopEnds
  <2>1. <<>> \in Seq(EventTypes) /\ <<"observed">> \in Seq(EventTypes)
    BY <1>c
  <2>2. outbox' \in Seq(EventTypes)
    BY <1>12, <2>1 DEF LoopEnds
  <2> QED
    BY <1>b, <1>12, <2>2 DEF LoopEnds, TypeOK, loop, world, history
<1>13. CASE Finish
  <2>1. FinalStatus(mem.steps) \in Statuses
    BY DEF FinalStatus, Statuses, Terminal
  <2>2. FinalEvent(FinalStatus(mem.steps)) \in EventTypes
    BY DEF FinalEvent, EventTypes
  <2> QED
    BY <1>b, <1>13, <2>1, <2>2, MoveType DEF Finish
<1> QED
  BY <1>1, <1>2, <1>3, <1>4, <1>5, <1>6, <1>7, <1>8, <1>9, <1>10, <1>11, <1>12, <1>13
  DEF RunStep

LEMMA OthersType ==
  ASSUME TypeOK, EmissionOK, Emit \/ Raise \/ Revoke \/ \E c \in Cancellers : Canceller(c)
  PROVE  TypeOK'
<1>0. next_sequence \in Nat \ {0}
  BY NextSequenceType DEF EmissionOK
<1>1. CASE EmitRead
  <2>0. outbox \in Seq(EventTypes) /\ outbox # <<>> /\ seq \in Nat
    BY <1>1 DEF EmitRead, TypeOK
  <2>1. outbox' \in Seq(EventTypes) /\ seq' \in Nat
    BY <1>0, <1>1, <2>0 DEF EmitRead
  <2> QED
    BY <1>1, <2>1 DEF EmitRead, TypeOK, loop, history
<1>2. CASE EmitAppend
  <2>1. outbox # <<>>
    BY <1>2 DEF EmissionOK, EmitAppend
  <2>2. Head(outbox) \in EventTypes /\ Tail(outbox) \in Seq(EventTypes)
    BY <2>1 DEF TypeOK
  <2>3. [seq |-> seq, type |-> Head(outbox)] \in [seq : Nat \ {0}, type : EventTypes]
    BY <1>2, <2>2 DEF TypeOK, EmitAppend
  <2> QED
    BY <1>2, <2>2, <2>3 DEF EmitAppend, TypeOK, loop, history
<1>3. CASE EmitCollides \/ Raise
  <2>1. Die
    BY <1>3 DEF EmitCollides, Raise
  <2>2. pc' \in RunnerSteps /\ outbox' \in Seq(EventTypes) /\ seq' \in Nat
    BY <2>1 DEF Die, RunnerSteps
  <2> QED
    BY <2>1, <2>2 DEF Die, TypeOK, loop, history
<1>4. CASE Revoke
  <2>2. revokedEarly' \in BOOLEAN /\ auth' \in BOOLEAN
    BY <1>4 DEF Revoke, TypeOK
  <2> QED
    BY <1>4, <2>2 DEF Revoke, TypeOK, loop
<1>5. ASSUME NEW c \in Cancellers, RequestCancellation(c) PROVE TypeOK'
  <2>1. row' \in Execution
    BY <1>5 DEF RequestCancellation, TypeOK, Execution
  <2> QED
    BY <1>5, <2>1 DEF RequestCancellation, TypeOK, loop, history
<1>6. ASSUME NEW c \in Cancellers, CancelEmitRead(c) PROVE TypeOK'
  BY <1>0, <1>6 DEF CancelEmitRead, TypeOK, loop, history
<1>7. ASSUME NEW c \in Cancellers, CancelEmitAppend(c) PROVE TypeOK'
  <2>1. [seq |-> canceller[c].seq, type |-> "cancellation_requested"]
          \in [seq : Nat \ {0}, type : EventTypes]
    BY <1>7 DEF TypeOK, EmissionOK, CancelEmitAppend, EventTypes
  <2> QED
    BY <1>7, <2>1 DEF CancelEmitAppend, TypeOK, loop, history
<1> QED
  BY <1>1, <1>2, <1>3, <1>4, <1>5, <1>6, <1>7 DEF Emit, Canceller

LEMMA EmissionStep == TypeOK /\ EmissionOK /\ [Next]_vars => EmissionOK'
<1> SUFFICES ASSUME TypeOK, EmissionOK, [Next]_vars PROVE EmissionOK'
  OBVIOUS
<1>0. next_sequence \in Nat \ {0}
  BY NextSequenceType DEF EmissionOK
<1>1. ASSUME UNCHANGED world, seq = 0 PROVE EmissionOK'
  BY <1>1 DEF EmissionOK, world
<1>2. ASSUME Preflight \/ RunStep PROVE EmissionOK'
  <2>1. UNCHANGED world /\ outbox = <<>>
    BY <1>2 DEF Preflight, RunStep, Create, BeginPolicyCheck, Authorize, Deny, Reauthorize,
       FailPreflight, BuildPlan, Start, SkipStep, CancelRun, NotCancelled, DenyStep, AllowStep,
       StartStep, CompleteStep, FailStep, ExpandPlan, PlanExpanded, RecordStep, LoopEnds,
       Finish, InLoop, At
  <2> QED
    BY <1>1, <2>1 DEF EmissionOK
<1>3. CASE EmitRead
  BY <1>3 DEF EmitRead, EmissionOK
<1>4. CASE EmitAppend
  BY <1>4, FS_AddElement DEF EmitAppend, EmissionOK
<1>5. CASE EmitCollides \/ Raise
  BY <1>5 DEF EmitCollides, Raise, Die, EmissionOK
<1>6. CASE Revoke \/ UNCHANGED vars
  BY <1>6 DEF Revoke, EmissionOK, vars, world
<1>7. ASSUME NEW c \in Cancellers, RequestCancellation(c) PROVE EmissionOK'
  BY <1>7 DEF RequestCancellation, EmissionOK, TypeOK
<1>8. ASSUME NEW c \in Cancellers, CancelEmitRead(c) PROVE EmissionOK'
  BY <1>0, <1>8 DEF CancelEmitRead, EmissionOK, TypeOK
<1>9. ASSUME NEW c \in Cancellers, CancelEmitAppend(c) PROVE EmissionOK'
  <2>1. IsFiniteSet(events')
    BY <1>9, FS_AddElement DEF CancelEmitAppend, EmissionOK
  <2> QED
    BY <1>9, <2>1 DEF CancelEmitAppend, EmissionOK, TypeOK
<1> QED
  BY <1>2, <1>3, <1>4, <1>5, <1>6, <1>7, <1>8, <1>9 DEF Next, Runner, Emit, Canceller

LEMMA TypeStep == TypeOK /\ EmissionOK /\ [Next]_vars => TypeOK'
<1> SUFFICES ASSUME TypeOK, EmissionOK, [Next]_vars PROVE TypeOK'
  OBVIOUS
<1>1. CASE UNCHANGED vars
  BY <1>1 DEF TypeOK, vars, loop, world, history
<1> QED
  BY <1>1, PreflightType, RunStepType, OthersType DEF Next, Runner

LEMMA InitOK == Init => TypeOK /\ EmissionOK
<1> SUFFICES ASSUME Init PROVE TypeOK /\ EmissionOK
  OBVIOUS
<1>1. NoExecution \in Execution
  BY DEF NoExecution, Execution, Statuses
<1>2. pc \in RunnerSteps /\ outbox \in Seq(EventTypes)
  BY DEF Init, RunnerSteps
<1>a. revokedEarly \in BOOLEAN /\ auth \in BOOLEAN
  BY Zenon DEF Init
<1>3. canceller \in [Cancellers -> [pc : {"idle", "emit", "append", "done"}, seq : Nat]]
  BY DEF Init
<1>b. row \in Execution /\ mem \in Execution /\ hardStop \in BOOLEAN /\ ingested \in BOOLEAN
  BY <1>1, Zenon DEF Init
<1>c. i \in Nat \ {0} /\ seq \in Nat /\ lateStarts \in Nat /\ unauthorized \in Nat
  BY DEF Init
<1>d. triggered \subseteq RuleIds /\ events \subseteq [seq : Nat \ {0}, type : EventTypes]
  BY Zenon DEF Init
<1>4. TypeOK
  BY <1>2, <1>3, <1>a, <1>b, <1>c, <1>d DEF TypeOK
<1>5. EmissionOK
  BY FS_EmptySet DEF Init, EmissionOK
<1> QED
  BY <1>4, <1>5

(* Every reachable state is well typed: the runner never emits from an     *)
(* empty outbox, sequence numbers start at 1 and the log stays finite.     *)
THEOREM TypeCorrect == Spec => []TypeOK
<1>1. Spec => [](TypeOK /\ EmissionOK)
  BY InitOK, TypeStep, EmissionStep, PTL DEF Spec
<1> QED
  BY <1>1, PTL

-----------------------------------------------------------------------------
(* Control: where the runner is determines the saved status, and its own   *)
(* copy of the cancellation flag is never set.                             *)

StatusAt(p) ==
  CASE p = "create"                      -> "absent"
    [] p = "created"                     -> "pending"
    [] p = "gate1"                       -> "policy_checking"
    [] p \in {"gate2", "plan", "start"}  -> "authorized"
    [] OTHER                             -> "running"

ControlOK ==
  /\ row.status = mem.status
  /\ mem.cancellation_requested = FALSE
  /\ pc \notin {"done", "raised"} => mem.status = StatusAt(pc)

Safe == TypeOK /\ EmissionOK /\ ControlOK

Requested == row.cancellation_requested

(* A commit of the runner, as the row's readers see it.                    *)
LEMMA CommitEffect ==
  ASSUME TypeOK, NEW m \in Execution, m.cancellation_requested = FALSE, NEW es, NEW next,
         Commit(m, es, next)
  PROVE  /\ mem' = m /\ pc' = next
         /\ row'.status = m.status /\ row'.steps = m.steps
         /\ Requested' = Requested
BY DEF TypeOK, Commit, Save, Execution, Requested

LEMMA MoveEffect ==
  ASSUME TypeOK, ControlOK, NEW s, s \in Statuses, NEW es, NEW next,
         Commit([mem EXCEPT !.status = s], es, next)
  PROVE  /\ row'.status = s /\ mem'.status = s /\ pc' = next
         /\ mem'.cancellation_requested = FALSE
         /\ row'.steps = mem.steps /\ mem'.steps = mem.steps
         /\ Requested' = Requested
<1> DEFINE m == [mem EXCEPT !.status = s]
<1>1. /\ m \in Execution /\ m.cancellation_requested = FALSE
      /\ m.status = s /\ m.steps = mem.steps
  BY DEF TypeOK, Execution, ControlOK
<1> QED
  BY <1>1, CommitEffect

LEMMA WithStepEffect ==
  ASSUME TypeOK, NEW s
  PROVE  /\ WithStep(s).status = mem.status
         /\ WithStep(s).cancellation_requested = mem.cancellation_requested
BY DEF TypeOK, Execution, WithStep

LEMMA StepCommitEffect ==
  ASSUME TypeOK, ControlOK, NEW s \in StepStatuses, NEW es, NEW next,
         Commit(WithStep(s), es, next)
  PROVE  /\ row'.status = row.status /\ mem'.status = row.status /\ pc' = next
         /\ mem'.cancellation_requested = FALSE
         /\ Requested' = Requested
BY WithStepType, WithStepEffect, CommitEffect DEF ControlOK

(* What a step of the runner may do to the row's status.                   *)
StatusMoves ==
  \/ row'.status = row.status
  \/ <<row.status, row'.status>> \in Lifecycle!Edges
  \/ row.status = "running" /\ Requested /\ row'.status = "cancelled"

LEMMA PreflightControl ==
  ASSUME TypeOK, ControlOK, Preflight
  PROVE  ControlOK' /\ Requested' = Requested /\ StatusMoves
<1> USE DEF At, StatusAt, StatusMoves, Lifecycle!Edges
<1>1. CASE Create
  BY <1>1, MoveEffect DEF Create, ControlOK, Statuses
<1>2. CASE BeginPolicyCheck
  BY <1>2, MoveEffect, ZenonT(30) DEF BeginPolicyCheck, ControlOK, Statuses
<1>3. CASE Authorize
  BY <1>3, MoveEffect DEF Authorize, ControlOK, Statuses
<1>4. CASE Deny
  BY <1>4, MoveEffect DEF Deny, ControlOK, Statuses, Terminal
<1>5. CASE Reauthorize
  BY <1>5 DEF Reauthorize, ControlOK, Requested
<1>6. CASE FailPreflight
  BY <1>6, MoveEffect DEF FailPreflight, ControlOK, Statuses, Terminal
<1>7. CASE BuildPlan
  <2>1. mem' \in Execution
    BY <1>7, PreflightType DEF Preflight, TypeOK
  <2>2. PICK steps : Commit([mem EXCEPT !.steps = steps], <<"plan_created">>, "start")
    BY <1>7 DEF BuildPlan
  <2> DEFINE m == [mem EXCEPT !.steps = steps]
  <2>3. m \in Execution
    BY <2>1, <2>2 DEF Commit, Save
  <2>4. m.cancellation_requested = FALSE /\ m.status = mem.status
    BY DEF TypeOK, Execution, ControlOK
  <2>5. /\ mem' = m /\ pc' = "start" /\ row'.status = m.status /\ Requested' = Requested
    BY <2>2, <2>3, <2>4, CommitEffect
  <2> HIDE DEF m
  <2> QED
    BY <1>7, <2>4, <2>5 DEF BuildPlan, ControlOK
<1>8. CASE Start
  <2>1. /\ row'.status = "running" /\ mem'.status = "running" /\ pc' = "loop"
        /\ mem'.cancellation_requested = FALSE /\ Requested' = Requested
    BY <1>8, MoveEffect DEF Start, Statuses
  <2>2. row.status = "authorized"
    BY <1>8 DEF Start, ControlOK
  <2> QED
    BY <2>1, <2>2 DEF ControlOK
<1> QED
  BY <1>1, <1>2, <1>3, <1>4, <1>5, <1>6, <1>7, <1>8 DEF Preflight

LEMMA RunStepControl ==
  ASSUME TypeOK, ControlOK, RunStep
  PROVE  ControlOK' /\ Requested' = Requested /\ StatusMoves
<1> USE DEF At, InLoop, StatusAt, StatusMoves
<1>0. {"running", "completed", "failed", "skipped"} \subseteq StepStatuses
  BY DEF StepStatuses
<1>1. CASE SkipStep
  BY <1>1, WithStepEffect DEF SkipStep, ControlOK, Requested
<1>2. CASE CancelRun
  <2>1. mem' \in Execution
    BY <1>2, RunStepType DEF RunStep, TypeOK
  <2>2. PICK steps : Commit([mem EXCEPT !.status = "cancelled", !.steps = steps],
                            <<"execution_cancelled">>, "done")
    BY <1>2 DEF CancelRun
  <2> DEFINE m == [mem EXCEPT !.status = "cancelled", !.steps = steps]
  <2>3. m \in Execution
    BY <2>1, <2>2 DEF Commit, Save
  <2>4. m.cancellation_requested = FALSE /\ m.status = "cancelled"
    BY DEF TypeOK, Execution, ControlOK
  <2>5. /\ mem' = m /\ pc' = "done" /\ row'.status = m.status /\ Requested' = Requested
    BY <2>2, <2>3, <2>4, CommitEffect
  <2> HIDE DEF m
  <2> QED
    BY <1>2, <2>4, <2>5 DEF CancelRun, ControlOK, Requested
<1>3. CASE NotCancelled
  BY <1>3 DEF NotCancelled, ControlOK, Requested
<1>4. CASE DenyStep
  <2>1. /\ row'.status = row.status /\ mem'.status = row.status /\ pc' = "loop"
        /\ mem'.cancellation_requested = FALSE /\ Requested' = Requested
    BY <1>0, <1>4, StepCommitEffect DEF DenyStep
  <2> QED
    BY <1>4, <2>1 DEF DenyStep, ControlOK
<1>5. CASE AllowStep
  BY <1>5 DEF AllowStep, ControlOK, Requested
<1>6. CASE StartStep
  <2>1. PICK es : Commit(WithStep("running"), es, "dispatched")
    BY <1>6 DEF StartStep
  <2>2. /\ row'.status = row.status /\ mem'.status = row.status /\ pc' = "dispatched"
        /\ mem'.cancellation_requested = FALSE /\ Requested' = Requested
    BY <1>0, <2>1, StepCommitEffect
  <2> QED
    BY <1>6, <2>2 DEF StartStep, ControlOK
<1>7. CASE CompleteStep
  BY <1>7, WithStepEffect DEF CompleteStep, ControlOK, Requested
<1>8. CASE FailStep
  BY <1>8, WithStepEffect DEF FailStep, ControlOK, Requested
<1>9. CASE ExpandPlan
  <2>1. mem' \in Execution
    BY <1>9, RunStepType DEF RunStep, TypeOK
  <2>2. PICK steps, es : Commit([mem EXCEPT !.steps = steps], es, "expand")
    BY <1>9 DEF ExpandPlan
  <2> DEFINE m == [mem EXCEPT !.steps = steps]
  <2>3. m \in Execution
    BY <2>1, <2>2 DEF Commit, Save
  <2>4. m.cancellation_requested = FALSE /\ m.status = mem.status
    BY DEF TypeOK, Execution, ControlOK
  <2>5. /\ mem' = m /\ pc' = "expand" /\ row'.status = m.status /\ Requested' = Requested
    BY <2>2, <2>3, <2>4, CommitEffect
  <2> HIDE DEF m
  <2> QED
    BY <1>9, <2>4, <2>5 DEF ExpandPlan, ControlOK
<1>10. CASE PlanExpanded
  BY <1>10 DEF PlanExpanded, ControlOK, Requested
<1>11. CASE RecordStep
  <2>1. PICK es : Commit(mem, es, "loop")
    BY <1>11 DEF RecordStep
  <2>2. /\ mem' = mem /\ pc' = "loop" /\ row'.status = mem.status /\ Requested' = Requested
    BY <2>1, CommitEffect DEF TypeOK, ControlOK
  <2> QED
    BY <1>11, <2>2 DEF RecordStep, ControlOK
<1>12. CASE LoopEnds
  BY <1>12 DEF LoopEnds, ControlOK, Requested
<1>13. CASE Finish
  <2>1. FinalStatus(mem.steps) \in {"completed", "partially_completed", "failed"}
    BY DEF FinalStatus
  <2> DEFINE s == FinalStatus(mem.steps)
  <2>2. Commit([mem EXCEPT !.status = s], <<FinalEvent(s)>>, "done")
    BY <1>13 DEF Finish
  <2> HIDE DEF s
  <2>3. /\ row'.status = s /\ mem'.status = s /\ pc' = "done"
        /\ mem'.cancellation_requested = FALSE
        /\ Requested' = Requested
    <3>1. s \in Statuses
      BY <2>1 DEF s, Statuses, Terminal
    <3> QED
      BY <2>2, <3>1, MoveEffect
  <2> QED
    BY <1>13, <2>1, <2>3 DEF Finish, ControlOK, Lifecycle!Edges, s
<1> QED
  BY <1>1, <1>2, <1>3, <1>4, <1>5, <1>6, <1>7, <1>8, <1>9, <1>10, <1>11, <1>12, <1>13
  DEF RunStep

(* Everybody but the runner's own statements leaves the aggregate alone.   *)
LEMMA OthersControl ==
  ASSUME TypeOK, ControlOK, Emit \/ Raise \/ Revoke
  PROVE  ControlOK' /\ UNCHANGED <<row, mem, i, lateStarts, unauthorized>> /\ pc' \in {pc, "raised"}
BY DEF Emit, EmitRead, EmitAppend, EmitCollides, Raise, Revoke, Die, ControlOK, loop, history

LEMMA CancellerControl ==
  ASSUME TypeOK, ControlOK, NEW c \in Cancellers, Canceller(c)
  PROVE  /\ ControlOK'
         /\ UNCHANGED <<mem, pc, i, auth, history>>
         /\ row'.status = row.status /\ row'.steps = row.steps
         /\ \/ row' = row
            \/ row.status \notin Terminal \cup {"absent"} /\ Requested'
<1>1. CASE RequestCancellation(c)
  BY <1>1 DEF RequestCancellation, ControlOK, TypeOK, Execution, Requested, loop
<1>2. CASE CancelEmitRead(c) \/ CancelEmitAppend(c)
  BY <1>2 DEF CancelEmitRead, CancelEmitAppend, ControlOK, loop
<1> QED
  BY <1>1, <1>2 DEF Canceller

LEMMA ControlStep == TypeOK /\ ControlOK /\ [Next]_vars => ControlOK'
<1>1. TypeOK /\ ControlOK /\ UNCHANGED vars => ControlOK'
  BY DEF vars, ControlOK
<1> QED
  BY <1>1, PreflightControl, RunStepControl, OthersControl, CancellerControl DEF Next, Runner

LEMMA AlwaysSafe == Spec => []Safe
<1>1. Init => ControlOK
  BY DEF Init, ControlOK, NoExecution, StatusAt
<1> QED
  BY <1>1, InitOK, TypeStep, EmissionStep, ControlStep, PTL DEF Spec, Safe

-----------------------------------------------------------------------------
(* The row seen from outside.                                              *)

LEMMA TerminalStops ==
  ASSUME ControlOK, row.status \in Terminal
  PROVE  ~Preflight /\ ~RunStep
<1>1. pc \in {"done", "raised"}
  BY DEF ControlOK, StatusAt, Terminal
<1> QED
  BY <1>1 DEF Preflight, RunStep, Create, BeginPolicyCheck, Authorize, Deny, Reauthorize,
     FailPreflight, BuildPlan, Start, SkipStep, CancelRun, NotCancelled, DenyStep, AllowStep,
     StartStep, CompleteStep, FailStep, ExpandPlan, PlanExpanded, RecordStep, LoopEnds,
     Finish, InLoop, At

(* A runner that is gone executes none of its statements.                  *)
LEMMA RunnerAlive ==
  ASSUME Preflight \/ RunStep
  PROVE  pc # "raised" /\ pc' # "raised"
BY DEF Preflight, RunStep, Create, BeginPolicyCheck, Authorize, Deny, Reauthorize,
   FailPreflight, BuildPlan, Start, SkipStep, CancelRun, NotCancelled, DenyStep, AllowStep,
   StartStep, CompleteStep, FailStep, ExpandPlan, PlanExpanded, RecordStep, LoopEnds,
   Finish, InLoop, At, Commit

(* A terminal row never changes: the runner is past its last save and a    *)
(* late cancel request is refused under the row lock.                      *)
THEOREM TerminalRowsAreFinal == Spec => TerminalIsFinal
<1>1. Safe /\ [Next]_vars => [row.status \in Terminal => row' = row]_row
  <2> SUFFICES ASSUME Safe, [Next]_vars, row.status \in Terminal PROVE row' = row
    OBVIOUS
  <2>1. ~Preflight /\ ~RunStep
    BY TerminalStops DEF Safe
  <2>2. CASE Emit \/ Raise \/ Revoke
    BY <2>2, OthersControl DEF Safe
  <2>3. ASSUME NEW c \in Cancellers, Canceller(c) PROVE row' = row
    BY <2>3, CancellerControl DEF Safe
  <2>4. CASE UNCHANGED vars
    BY <2>4 DEF vars
  <2> QED
    BY <2>1, <2>2, <2>3, <2>4 DEF Next, Runner
<1> QED
  BY <1>1, AlwaysSafe, PTL DEF Spec, TerminalIsFinal

(* Each step is a legal move of the status, an accepted request, the loss  *)
(* of the runner or invisible.                                             *)
LEMMA LifecycleMoves ==
  Safe /\ [Next]_vars => [Lifecycle!Next]_<<row.status, row.cancellation_requested, Abandoned>>
<1> SUFFICES ASSUME Safe, [Next]_vars
             PROVE  [Lifecycle!Next]_<<row.status, row.cancellation_requested, Abandoned>>
  OBVIOUS
<1>1. CASE Preflight \/ RunStep
  <2>1. Requested' = Requested /\ StatusMoves
    BY <1>1, PreflightControl, RunStepControl DEF Safe
  <2>2. Abandoned = FALSE /\ Abandoned' = FALSE
    BY <1>1, RunnerAlive DEF Abandoned
  <2> QED
    BY <2>1, <2>2 DEF StatusMoves, Requested, Lifecycle!Next, Lifecycle!Move, Lifecycle!Cancel
<1>2. CASE Emit \/ Raise \/ Revoke
  <2>1. row' = row /\ pc' \in {pc, "raised"}
    BY <1>2, OthersControl DEF Safe
  <2>2. Abandoned' = Abandoned \/ (Abandoned' = TRUE /\ row.status \notin Terminal)
    BY <2>1 DEF Abandoned
  <2> QED
    BY <2>1, <2>2 DEF Lifecycle!Next, Lifecycle!Abandon, Lifecycle!Terminal, Terminal
<1>3. ASSUME NEW c \in Cancellers, Canceller(c)
      PROVE  [Lifecycle!Next]_<<row.status, row.cancellation_requested, Abandoned>>
  <2>1. /\ row'.status = row.status /\ pc' = pc
        /\ row' = row \/ (row.status \notin Terminal \cup {"absent"} /\ Requested')
    BY <1>3, CancellerControl, Zenon DEF Safe
  <2>a. Abandoned' = Abandoned
    BY <2>1 DEF Abandoned
  <2>2. CASE row' = row
    BY <2>2, <2>a
  <2>3. CASE row.status \notin Terminal \cup {"absent"} /\ Requested'
    <3>1. row'.cancellation_requested = TRUE
      BY <1>3, <2>3, TypeStep DEF Safe, TypeOK, Execution, Requested, Next
    <3> QED
      BY <2>1, <2>3, <2>a, <3>1
      DEF Lifecycle!Next, Lifecycle!RequestCancellation, Lifecycle!Terminal, Terminal
  <2> QED
    BY <2>1, <2>2, <2>3
<1>4. CASE UNCHANGED vars
  BY <1>4 DEF vars, Abandoned
<1> QED
  BY <1>1, <1>2, <1>3, <1>4 DEF Next, Runner

(* The runner, the cancellers and all their races implement the abstract   *)
(* life cycle of the row (create_and_run(), cancel()).                     *)
THEOREM ImplementsLifecycle == Spec => RefinesLifecycle
<1>1. Init => Lifecycle!Init
  BY DEF Init, NoExecution, Lifecycle!Init, Abandoned
<1> QED
  BY <1>1, LifecycleMoves, AlwaysSafe, PTL DEF Spec, RefinesLifecycle, Lifecycle!Spec

(* A run whose runner is gone is never settled: its row keeps its status   *)
(* and its steps for ever, a RUNNING step among them, whoever asks for its *)
(* cancellation (create_and_run(), cancel()).                              *)
THEOREM AbandonedStaysOpen ==
  Spec => [][Abandoned => /\ Abandoned'
                          /\ row'.status = row.status /\ row'.steps = row.steps]_vars
<1>1. Safe /\ [Next]_vars =>
        [Abandoned => /\ Abandoned'
                      /\ row'.status = row.status /\ row'.steps = row.steps]_vars
  <2> SUFFICES ASSUME Safe, [Next]_vars, Abandoned
               PROVE  Abandoned' /\ row'.status = row.status /\ row'.steps = row.steps
    OBVIOUS
  <2>1. ~Preflight /\ ~RunStep
    BY RunnerAlive DEF Abandoned
  <2>2. CASE Emit \/ Raise \/ Revoke
    BY <2>2, OthersControl DEF Safe, Abandoned
  <2>3. ASSUME NEW c \in Cancellers, Canceller(c)
        PROVE  Abandoned' /\ row'.status = row.status /\ row'.steps = row.steps
    BY <2>3, CancellerControl DEF Safe, Abandoned
  <2>4. CASE UNCHANGED vars
    BY <2>4 DEF vars, Abandoned
  <2> QED
    BY <2>1, <2>2, <2>3, <2>4 DEF Next, Runner
<1> QED
  BY <1>1, AlwaysSafe, PTL DEF Spec

-----------------------------------------------------------------------------
(* What the scheduler takes this execution for.  To it a run is a row that *)
(* is inserted, that gets its result or loses its run, and that nobody     *)
(* touches afterwards: BoundaryRuns for one boundary.                      *)

RowOf == {b \in {"due"} : row.status # "absent"}

ResultOf == {b \in {"due"} : row.status \in Terminal}

UnderWayOf == {b \in {"due"} : row.status \notin Terminal \cup {"absent"} /\ ~Abandoned}

Boundary == INSTANCE BoundaryRuns
              WITH Boundaries <- {"due"}, rows <- RowOf, results <- ResultOf,
                   active <- UnderWayOf

(* A move of the life cycle is a move of the boundary.                     *)
LEMMA BoundaryMoves ==
  [Lifecycle!Next]_<<row.status, row.cancellation_requested, Abandoned>> =>
    [Boundary!Next]_<<RowOf, ResultOf, UnderWayOf>>
<1> SUFFICES ASSUME Lifecycle!Next \/ UNCHANGED <<row.status, Abandoned>>
             PROVE  \/ Boundary!Begin("due") \/ Boundary!End("due") \/ Boundary!Lose("due")
                    \/ UNCHANGED <<RowOf, ResultOf, UnderWayOf>>
  BY DEF Boundary!Next
<1> USE DEF RowOf, ResultOf, UnderWayOf, Terminal
<1>1. CASE UNCHANGED <<row.status, Abandoned>> \/ Lifecycle!RequestCancellation
  BY <1>1 DEF Lifecycle!RequestCancellation
<1>2. CASE Lifecycle!Abandon
  <2>1. CASE row.status = "absent" \/ Abandoned
    BY <1>2, <2>1 DEF Lifecycle!Abandon, Lifecycle!Terminal
  <2>2. CASE row.status # "absent" /\ ~Abandoned
    BY <1>2, <2>2 DEF Lifecycle!Abandon, Lifecycle!Terminal, Boundary!Lose
  <2> QED
    BY <2>1, <2>2
<1>3. CASE Lifecycle!Move \/ Lifecycle!Cancel
  <2>1. /\ ~Abandoned /\ ~Abandoned'
        /\ row.status \notin Terminal
        /\ row'.status # "absent"
    BY <1>3 DEF Lifecycle!Move, Lifecycle!Cancel, Lifecycle!Edges
  <2>2. CASE row.status = "absent"
    <3>1. row'.status = "pending"
      BY <1>3, <2>2 DEF Lifecycle!Move, Lifecycle!Cancel, Lifecycle!Edges
    <3> QED
      BY <2>1, <2>2, <3>1 DEF Boundary!Begin
  <2>3. CASE row.status # "absent" /\ row'.status \in Terminal
    BY <2>1, <2>3 DEF Boundary!End
  <2>4. CASE row.status # "absent" /\ row'.status \notin Terminal
    BY <2>1, <2>4
  <2> QED
    BY <2>2, <2>3, <2>4
<1> QED
  BY <1>1, <1>2, <1>3 DEF Lifecycle!Next

(* The execution keeps the contract its scheduler relies on, whatever      *)
(* races it: it inserts its row once, ends it or is lost, and a row it has *)
(* ended or left is never opened again.  FinishRun and RunRaises of the    *)
(* scheduler are therefore all that a run can do to its boundary           *)
(* (create_and_run(), process_one_due_policy()).                           *)
THEOREM ExecutionKeepsContract == Spec => Boundary!Spec
<1>1. Init => Boundary!Init
  BY DEF Init, NoExecution, Boundary!Init, RowOf, ResultOf, UnderWayOf, Terminal
<1>2. Safe /\ [Next]_vars => [Boundary!Next]_<<RowOf, ResultOf, UnderWayOf>>
  BY LifecycleMoves, BoundaryMoves
<1> QED
  BY <1>1, <1>2, AlwaysSafe, PTL DEF Spec, Boundary!Spec, Boundary!vars

-----------------------------------------------------------------------------
(* Cancellation.                                                           *)

(* CancelWindow is not inductive: that a second late dispatch cannot       *)
(* follow needs that a check passed only before the request.               *)
CancelInv ==
  /\ lateStarts \in {0, 1}
  /\ ~Requested => lateStarts = 0
  /\ pc \in {"gate", "dispatch"} => lateStarts = 0

LEMMA CancelStep == Safe /\ CancelInv /\ [Next]_vars => CancelInv'
<1> SUFFICES ASSUME Safe, CancelInv, [Next]_vars PROVE CancelInv'
  OBVIOUS
<1>1. CASE Preflight
  <2>1. Requested' = Requested /\ lateStarts' = lateStarts
    BY <1>1, PreflightControl DEF Safe, Preflight, Create, BeginPolicyCheck, Authorize, Deny,
       Reauthorize, FailPreflight, BuildPlan, Start, history
  <2>2. pc' \notin {"gate", "dispatch"}
    BY <1>1 DEF Preflight, Create, BeginPolicyCheck, Authorize, Deny, Reauthorize,
       FailPreflight, BuildPlan, Start, Commit
  <2> QED
    BY <2>1, <2>2 DEF CancelInv
<1>2. CASE RunStep
  <2>1. Requested' = Requested
    BY <1>2, RunStepControl DEF Safe
  <2>2. CASE StartStep
    <3>1. lateStarts = 0 /\ pc' = "dispatched"
      BY <2>2 DEF StartStep, CancelInv, At, Commit
    <3>2. lateStarts' = IF Requested THEN 1 ELSE 0
      BY <2>2, <3>1 DEF StartStep, Requested
    <3> QED
      BY <2>1, <3>1, <3>2 DEF CancelInv
  <2>3. CASE NotCancelled
    <3>1. lateStarts = 0 /\ lateStarts' = lateStarts
      BY <2>3 DEF NotCancelled, CancelInv, Requested, history
    <3> QED
      BY <3>1 DEF CancelInv
  <2>4. CASE AllowStep
    <3>1. lateStarts = 0 /\ lateStarts' = lateStarts
      BY <2>4 DEF AllowStep, CancelInv, At, history
    <3> QED
      BY <3>1 DEF CancelInv
  <2>5. CASE \/ SkipStep \/ CancelRun \/ DenyStep \/ CompleteStep \/ FailStep \/ ExpandPlan
             \/ PlanExpanded \/ RecordStep \/ LoopEnds \/ Finish
    <3>1. lateStarts' = lateStarts
      BY <2>5 DEF SkipStep, CancelRun, DenyStep, CompleteStep, FailStep, ExpandPlan,
         PlanExpanded, RecordStep, LoopEnds, Finish, history
    <3>2. pc' \notin {"gate", "dispatch"}
      BY <2>5 DEF SkipStep, CancelRun, DenyStep, CompleteStep, FailStep, ExpandPlan,
         PlanExpanded, RecordStep, LoopEnds, Finish, InLoop, At, Commit
    <3> QED
      BY <2>1, <3>1, <3>2 DEF CancelInv
  <2> QED
    BY <1>2, <2>2, <2>3, <2>4, <2>5 DEF RunStep
<1>3. CASE Emit \/ Raise \/ Revoke
  BY <1>3, OthersControl DEF Safe, CancelInv, Requested
<1>4. ASSUME NEW c \in Cancellers, Canceller(c) PROVE CancelInv'
  BY <1>4, CancellerControl DEF Safe, CancelInv, Requested, history
<1>5. CASE UNCHANGED vars
  BY <1>5 DEF CancelInv, Requested, vars, history
<1> QED
  BY <1>1, <1>2, <1>3, <1>4, <1>5 DEF Next, Runner

(* After a committed cancel request at most one more step is dispatched,   *)
(* for any plan and any number of requests.                                *)
THEOREM CancelIsPrompt == Spec => []CancelWindow
<1>1. Init => CancelInv
  BY DEF Init, CancelInv
<1>2. CancelInv => CancelWindow
  BY DEF CancelInv, CancelWindow
<1> QED
  BY <1>1, <1>2, CancelStep, AlwaysSafe, PTL DEF Spec

-----------------------------------------------------------------------------
(* Revocation.                                                             *)

(* RevocationWindow is not inductive: an adaptive step at its dispatch     *)
(* crossed the gate before the revocation.                                 *)
RevocationInv ==
  /\ unauthorized \in {0, 1}
  /\ auth => unauthorized = 0
  /\ pc = "dispatch" /\ Adaptive(Current) => unauthorized = 0

LEMMA RevocationStep == Safe /\ RevocationInv /\ [Next]_vars => RevocationInv'
<1> SUFFICES ASSUME Safe, RevocationInv, [Next]_vars PROVE RevocationInv'
  OBVIOUS
<1>1. CASE Preflight
  <2>1. unauthorized' = unauthorized /\ auth' = auth
    BY <1>1 DEF Preflight, Create, BeginPolicyCheck, Authorize, Deny, Reauthorize,
       FailPreflight, BuildPlan, Start, world, history
  <2>2. pc' # "dispatch"
    BY <1>1 DEF Preflight, Create, BeginPolicyCheck, Authorize, Deny, Reauthorize,
       FailPreflight, BuildPlan, Start, Commit
  <2> QED
    BY <2>1, <2>2 DEF RevocationInv
<1>2. CASE RunStep
  <2>1. CASE StartStep
    <3>1. pc' = "dispatched" /\ auth' = auth
      BY <2>1 DEF StartStep, Commit, world
    <3>2. Adaptive(Current) => unauthorized = 0
      BY <2>1 DEF StartStep, RevocationInv, At
    <3>3. unauthorized' = unauthorized + IF Adaptive(Current) /\ ~auth THEN 1 ELSE 0
      BY <2>1 DEF StartStep
    <3>4. unauthorized' \in {0, 1} /\ (auth => unauthorized' = 0)
      BY <3>2, <3>3 DEF RevocationInv
    <3> QED
      BY <3>1, <3>4 DEF RevocationInv
  <2>2. CASE NotCancelled
    BY <2>2 DEF NotCancelled, RevocationInv, Current, loop, world, history
  <2>3. CASE AllowStep
    BY <2>3 DEF AllowStep, RevocationInv, world, history
  <2>4. CASE \/ SkipStep \/ CancelRun \/ DenyStep \/ CompleteStep \/ FailStep \/ ExpandPlan
             \/ PlanExpanded \/ RecordStep \/ LoopEnds \/ Finish
    <3>1. unauthorized' = unauthorized /\ auth' = auth
      BY <2>4 DEF SkipStep, CancelRun, DenyStep, CompleteStep, FailStep, ExpandPlan,
         PlanExpanded, RecordStep, LoopEnds, Finish, history, world
    <3>2. pc' # "dispatch"
      BY <2>4 DEF SkipStep, CancelRun, DenyStep, CompleteStep, FailStep, ExpandPlan,
         PlanExpanded, RecordStep, LoopEnds, Finish, InLoop, At, Commit
    <3> QED
      BY <3>1, <3>2 DEF RevocationInv
  <2> QED
    BY <1>2, <2>1, <2>2, <2>3, <2>4 DEF RunStep
<1>3. CASE Emit \/ Raise \/ Revoke
  <2>1. UNCHANGED <<mem, i, unauthorized>> /\ pc' \in {pc, "raised"}
    BY <1>3, OthersControl DEF Safe
  <2>2. auth' => auth
    BY <1>3 DEF Emit, EmitRead, EmitAppend, EmitCollides, Raise, Die, Revoke
  <2> QED
    BY <2>1, <2>2 DEF RevocationInv, Current
<1>4. ASSUME NEW c \in Cancellers, Canceller(c) PROVE RevocationInv'
  BY <1>4, CancellerControl DEF Safe, RevocationInv, Current, history
<1>5. CASE UNCHANGED vars
  BY <1>5 DEF RevocationInv, Current, vars, loop, world, history
<1> QED
  BY <1>1, <1>2, <1>3, <1>4, <1>5 DEF Next, Runner

(* After a revocation at most one more adaptive step is dispatched,        *)
(* however many the discovery added.                                       *)
THEOREM RevocationIsPrompt == Spec => []RevocationWindow
<1>1. Init => RevocationInv
  BY DEF Init, RevocationInv
<1>2. RevocationInv => RevocationWindow
  BY DEF RevocationInv, RevocationWindow
<1> QED
  BY <1>1, <1>2, RevocationStep, AlwaysSafe, PTL DEF Spec

(* Until the second gate has decided there is no plan, and an execution    *)
(* that lost its authorization by then never gets past the gates.          *)
GateInv ==
  /\ pc \in {"create", "created", "gate1", "gate2"} => mem.steps = <<>> /\ row.steps = <<>>
  /\ revokedEarly => /\ ~auth
                     /\ row.steps = <<>>
                     /\ pc \in {"create", "created", "gate1", "gate2", "done", "raised"}

LEMMA GateStep == Safe /\ GateInv /\ [Next]_vars => GateInv'
<1> SUFFICES ASSUME Safe, GateInv, [Next]_vars PROVE GateInv'
  OBVIOUS
<1>1. ASSUME NEW s \in Statuses, NEW es, NEW next \in {"created", "gate1", "gate2", "done"},
             pc \in {"create", "created", "gate1", "gate2"},
             Commit([mem EXCEPT !.status = s], es, next), UNCHANGED <<loop, world, history>>
      PROVE  GateInv'
  <2>1. row'.steps = mem.steps /\ mem'.steps = mem.steps /\ pc' = next
    BY <1>1, MoveEffect DEF Safe
  <2> QED
    BY <1>1, <2>1 DEF GateInv, world, history
<1>2. CASE Create
  BY <1>1, <1>2 DEF Create, At, Statuses
<1>3. CASE BeginPolicyCheck
  BY <1>1, <1>3 DEF BeginPolicyCheck, At, Statuses
<1>4. CASE Authorize
  BY <1>1, <1>4 DEF Authorize, At, Statuses
<1>5. CASE Deny
  BY <1>1, <1>5 DEF Deny, At, Statuses, Terminal
<1>6. CASE Reauthorize
  BY <1>6 DEF Reauthorize, GateInv, world, history
<1>7. CASE FailPreflight \/ BuildPlan \/ Start
  <2>1. ~revokedEarly /\ ~revokedEarly'
    BY <1>7 DEF FailPreflight, BuildPlan, Start, At, GateInv, history
  <2>2. pc' \in {"done", "start", "loop"}
    BY <1>7 DEF FailPreflight, BuildPlan, Start, Commit
  <2> QED
    BY <2>1, <2>2 DEF GateInv
<1>8. CASE RunStep
  <2>1. ~revokedEarly /\ ~revokedEarly'
    BY <1>8 DEF RunStep, SkipStep, CancelRun, NotCancelled, DenyStep, AllowStep, StartStep,
       CompleteStep, FailStep, ExpandPlan, PlanExpanded, RecordStep, LoopEnds, Finish,
       InLoop, At, GateInv, history
  <2>2. pc' \notin {"create", "created", "gate1", "gate2"}
    BY <1>8 DEF RunStep, SkipStep, CancelRun, NotCancelled, DenyStep, AllowStep, StartStep,
       CompleteStep, FailStep, ExpandPlan, PlanExpanded, RecordStep, LoopEnds, Finish,
       InLoop, At, Commit
  <2> QED
    BY <2>1, <2>2 DEF GateInv
<1>9. CASE Emit \/ Raise
  BY <1>9 DEF Emit, EmitRead, EmitAppend, EmitCollides, Raise, Die, GateInv, history
<1>10. CASE Revoke
  BY <1>10 DEF Revoke, GateInv
<1>11. ASSUME NEW c \in Cancellers, Canceller(c) PROVE GateInv'
  BY <1>11, CancellerControl DEF Safe, GateInv, history
<1>12. CASE UNCHANGED vars
  BY <1>12 DEF GateInv, vars, world, history
<1> QED
  BY <1>2, <1>3, <1>4, <1>5, <1>6, <1>7, <1>8, <1>9, <1>10, <1>11, <1>12
  DEF Next, Runner, Preflight

(* No step is ever planned for an execution whose authorization is gone    *)
(* before the second gate decides.                                         *)
THEOREM GatesHold == Spec => []EarlyRevocationBlocks
<1>1. Init => GateInv
  <2> SUFFICES ASSUME Init PROVE GateInv
    OBVIOUS
  <2>1. row.steps = <<>> /\ mem.steps = <<>> /\ pc = "create"
    BY DEF Init, NoExecution
  <2>2. revokedEarly => ~auth
    BY Zenon DEF Init
  <2> QED
    BY <2>1, <2>2 DEF GateInv
<1>2. GateInv => EarlyRevocationBlocks
  BY DEF GateInv, EarlyRevocationBlocks
<1> QED
  BY <1>1, <1>2, GateStep, AlwaysSafe, PTL DEF Spec

-----------------------------------------------------------------------------
(* The event log.                                                          *)

(* A sequence number somebody holds was the next one when it was read, and *)
(* the log has only grown since.                                           *)
LogInv ==
  /\ EventLogDense
  /\ seq <= Cardinality(events) + 1 /\ seq <= MaxEvents
  /\ \A c \in Cancellers : /\ canceller[c].seq <= Cardinality(events) + 1
                           /\ canceller[c].seq <= MaxEvents

(* Whoever appends under the unique index appends at the end.              *)
LEMMA AppendDense ==
  ASSUME TypeOK, EmissionOK, EventLogDense, NEW n \in Nat \ {0}, NEW t,
         n <= Cardinality(events) + 1, n <= MaxEvents, ~SequenceTaken(n),
         events' = events \cup {[seq |-> n, type |-> t]}
  PROVE  EventLogDense' /\ Cardinality(events') = Cardinality(events) + 1
<1> DEFINE e == [seq |-> n, type |-> t]
           card == Cardinality(events)
<1>1. card \in Nat
  BY FS_CardinalityType DEF EmissionOK
<1>2. e.seq = n /\ e \notin events
  BY DEF SequenceTaken
<1>3. Cardinality(events') = card + 1
  BY <1>2, FS_AddElement DEF EmissionOK
<1>4. n \notin {x.seq : x \in events}
  BY DEF SequenceTaken
<1>5. n = card + 1
  BY <1>1, <1>4 DEF EventLogDense
<1>6. {x.seq : x \in events'} = {x.seq : x \in events} \cup {n}
  BY <1>2
<1>7. {x.seq : x \in events} \cup {n} = 1..(card + 1)
  BY <1>1, <1>5 DEF EventLogDense
<1> HIDE DEF card
<1> QED
  BY <1>1, <1>3, <1>5, <1>6, <1>7 DEF EventLogDense, card

LEMMA LogStep == TypeOK /\ EmissionOK /\ LogInv /\ [Next]_vars => LogInv'
<1> SUFFICES ASSUME TypeOK, EmissionOK, LogInv, [Next]_vars PROVE LogInv'
  OBVIOUS
<1>0. /\ Cardinality(events) \in Nat /\ next_sequence = Cardinality(events) + 1
      /\ MaxEvents \in Nat \ {0} /\ seq \in Nat
      /\ \A c \in Cancellers : canceller[c].seq \in Nat
  BY FS_CardinalityType, LimitAssumption DEF EmissionOK, next_sequence, TypeOK
<1>1. CASE Preflight \/ RunStep
  <2>1. UNCHANGED world
    BY <1>1 DEF Preflight, RunStep, Create, BeginPolicyCheck, Authorize, Deny, Reauthorize,
       FailPreflight, BuildPlan, Start, SkipStep, CancelRun, NotCancelled, DenyStep, AllowStep,
       StartStep, CompleteStep, FailStep, ExpandPlan, PlanExpanded, RecordStep, LoopEnds,
       Finish
  <2> QED
    BY <2>1 DEF LogInv, EventLogDense, world
<1>2. CASE EmitRead
  <2>1. seq' <= Cardinality(events) + 1 /\ seq' <= MaxEvents
    BY <1>0, <1>2 DEF EmitRead, LogInv
  <2> QED
    BY <1>2, <2>1 DEF EmitRead, LogInv, EventLogDense
<1>3. CASE EmitAppend
  <2>1. EventLogDense' /\ Cardinality(events') = Cardinality(events) + 1
    BY <1>0, <1>3, AppendDense DEF EmitAppend, LogInv
  <2>2. seq' = 0 /\ canceller' = canceller
    BY <1>3 DEF EmitAppend
  <2> QED
    BY <1>0, <2>1, <2>2 DEF LogInv
<1>4. CASE EmitCollides \/ Raise
  BY <1>0, <1>4 DEF EmitCollides, Raise, Die, LogInv, EventLogDense
<1>5. CASE Revoke \/ UNCHANGED vars
  BY <1>5 DEF Revoke, vars, world, LogInv, EventLogDense
<1>6. ASSUME NEW c \in Cancellers, RequestCancellation(c) PROVE LogInv'
  <2>1. \A d \in Cancellers : canceller'[d].seq = canceller[d].seq
    BY <1>6 DEF RequestCancellation, TypeOK
  <2> QED
    BY <1>6, <2>1 DEF RequestCancellation, LogInv, EventLogDense
<1>7. ASSUME NEW c \in Cancellers, CancelEmitRead(c) PROVE LogInv'
  <2>1. \A d \in Cancellers : canceller'[d].seq \in {canceller[d].seq, 0}
                              \/ (canceller'[d].seq = next_sequence /\ next_sequence <= MaxEvents)
    BY <1>0, <1>7 DEF CancelEmitRead, TypeOK
  <2> QED
    BY <1>0, <1>7, <2>1 DEF CancelEmitRead, LogInv, EventLogDense
<1>8. ASSUME NEW c \in Cancellers, CancelEmitAppend(c) PROVE LogInv'
  <2>1. \A d \in Cancellers : canceller'[d].seq \in {canceller[d].seq, 0}
    BY <1>8 DEF CancelEmitAppend, TypeOK
  <2>2. CASE SequenceTaken(canceller[c].seq)
    BY <1>0, <1>8, <2>1, <2>2 DEF CancelEmitAppend, LogInv, EventLogDense
  <2>3. CASE ~SequenceTaken(canceller[c].seq)
    <3>1. canceller[c].seq \in Nat \ {0}
      BY <1>0, <1>8 DEF CancelEmitAppend, EmissionOK
    <3>2. EventLogDense' /\ Cardinality(events') = Cardinality(events) + 1
      BY <1>8, <2>3, <3>1, AppendDense DEF CancelEmitAppend, LogInv
    <3> QED
      BY <1>0, <1>8, <2>1, <3>2 DEF CancelEmitAppend, LogInv
  <2> QED
    BY <2>2, <2>3
<1> QED
  BY <1>1, <1>2, <1>3, <1>4, <1>5, <1>6, <1>7, <1>8 DEF Next, Runner, Emit, Canceller

(* The log is dense and capped for any number of racing writers: the       *)
(* unique index turns every lost race into a failed append.                *)
THEOREM LogIsDense == Spec => []EventLogDense
<1>1. Init => LogInv
  <2> SUFFICES ASSUME Init PROVE LogInv
    OBVIOUS
  <2>1. Cardinality(events) = 0 /\ events = {} /\ seq = 0
    BY FS_EmptySet DEF Init
  <2>2. \A c \in Cancellers : canceller[c].seq = 0
    BY DEF Init
  <2>3. EventLogDense
    BY <2>1, LimitAssumption DEF EventLogDense
  <2> QED
    BY <2>1, <2>2, <2>3, LimitAssumption DEF LogInv
<1>2. LogInv => EventLogDense
  BY DEF LogInv
<1> QED
  BY <1>1, <1>2, LogStep, InitOK, TypeStep, EmissionStep, PTL DEF Spec
=============================================================================
