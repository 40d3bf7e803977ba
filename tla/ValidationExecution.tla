------------------------ MODULE ValidationExecution -------------------------
(***************************************************************************)
(* The gated validation execution (M11-M13).                               *)
(*                                                                         *)
(* One coroutine, the runner (create_and_run), carries an aggregate in     *)
(* memory through policy gates, a step plan and a step loop, and saves it  *)
(* after each transition.  Meanwhile other requests set the row's          *)
(* cancellation flag, and an operator may revoke the security              *)
(* authorization the gates consult.  Runner and cancellers write the same  *)
(* row and append to the same event log, each in transactions of its own.  *)
(*                                                                         *)
(* cancel()'s transaction locks the row from its read to its commit and    *)
(* writes back the status and the steps it read, so it is one step that    *)
(* sets the flag; a save of the runner waits for it, or one of the two     *)
(* aborts (Raise).  Payloads, evidence and time stamps are left out.       *)
(***************************************************************************)
EXTENDS Integers, Sequences, FiniteSets

CONSTANTS
  Plans,         \* the initial plans in use, a subset of StepPlans
  Triggers,      \* adaptive rules whose port may turn out to be reachable
  Cancellers,    \* concurrent POST /cancel requests
  MaxSteps,      \* limits.max_steps
  MaxAdaptive,   \* limits.max_adaptive_steps
  MaxEvents,     \* limits.max_events
  MaxObserved,   \* bound: observation events one step adds
  RunnerMayRaise \* whether the runner may fail between any two of its steps

VARIABLES
  row,           \* the row of validation_executions with its step rows
  mem,           \* the aggregate the runner holds
  pc,            \* what the runner does next
  i,             \* index of the step the loop is at
  hardStop,      \* hard_stop
  triggered,     \* adaptive rules triggered by the discovery
  ingested,      \* conditions_ingested > 0
  outbox,        \* events the runner emits before it goes on
  seq,           \* sequence number the runner read for its event, 0: none
  events,        \* rows of validation_execution_events
  canceller,     \* local state of each cancel request
  auth,          \* whether the policy engine allows active validation
  lateStarts,    \* history: steps dispatched after a committed request
  unauthorized,  \* history: adaptive steps dispatched after the revocation
  revokedEarly   \* history: no authorization before the second gate decided

loop     == <<i, hardStop, triggered, ingested>>
world    == <<events, seq, canceller, auth>>
history  == <<lateStarts, unauthorized, revokedEarly>>
vars     == <<row, mem, pc, loop, outbox, world, history>>

-----------------------------------------------------------------------------
(* Statuses, step types, plans and adaptive rules.                         *)

Terminal == {"completed", "partially_completed", "failed", "cancelled", "denied"}

Statuses == Terminal \cup {"absent", "pending", "policy_checking", "authorized", "running"}

StepStatuses == {"pending", "running", "completed", "failed", "skipped", "cancelled"}

(* The adaptive rules in the order the registry evaluates them, each with  *)
(* the step types it wants.                                                *)
RuleSpecs == << [rule |-> "PORT_443_TLS_HTTPS",   kind |-> "tls_handshake"],
                [rule |-> "PORT_443_TLS_HTTPS",   kind |-> "http_metadata"],
                [rule |-> "PORT_443_TLS_HTTPS",   kind |-> "http_security_headers"],
                [rule |-> "PORT_80_HTTP",         kind |-> "http_metadata"],
                [rule |-> "PORT_80_HTTP",         kind |-> "http_security_headers"],
                [rule |-> "PORT_22_SSH",          kind |-> "ssh_banner"],
                [rule |-> "PORT_3306_MYSQL",      kind |-> "mysql_handshake"],
                [rule |-> "PORT_5432_POSTGRESQL", kind |-> "postgresql_handshake"],
                [rule |-> "PORT_6379_REDIS",      kind |-> "redis_ping"] >>

RuleIds == {RuleSpecs[k].rule : k \in DOMAIN RuleSpecs}

(* A failure of these stops the whole run.                                 *)
HardStopKinds == {"dns_resolution", "tcp_connectivity"}

(* These only report on what is known, or list what they saw: they always  *)
(* complete.                                                               *)
ReportKinds == {"http_security_headers", "service_reachability", "port_discovery"}

ProbeKinds == {"tls_handshake", "http_metadata", "ssh_banner", "mysql_handshake",
               "postgresql_handshake", "redis_ping"}

StepKinds == HardStopKinds \cup ReportKinds \cup ProbeKinds

StepPlans == { <<"dns_resolution", "tcp_connectivity", "http_metadata",
                 "http_security_headers", "service_reachability">>,
               <<"dns_resolution", "tcp_connectivity", "tls_handshake", "http_metadata",
                 "http_security_headers", "service_reachability">>,
               <<"dns_resolution", "port_discovery">> }

ASSUME PlanAssumption == Plans \subseteq StepPlans
ASSUME TriggerAssumption == Triggers \subseteq RuleIds
ASSUME LimitAssumption == /\ MaxSteps \in Nat \ {0}
                          /\ MaxAdaptive \in Nat
                          /\ MaxEvents \in Nat \ {0}
                          /\ MaxObserved \in Nat
                          /\ RunnerMayRaise \in BOOLEAN

(* rule is "initial" for StepSource.INITIAL.                               *)
Step == [kind : StepKinds, rule : RuleIds \cup {"initial"}, status : StepStatuses]

Execution == [status : Statuses, steps : Seq(Step), cancellation_requested : BOOLEAN]

(* "observed" stands for the events that report findings of a step         *)
(* (DISCOVERY_STARTED, PORT_REACHABILITY_OBSERVED, ASSET_RESOLVED,         *)
(* SERVICE_CONTEXT_UPDATED, CONDITION_INGESTED, CORRELATION_EVALUATED).    *)
EventTypes == {"execution_created", "policy_check_started", "policy_allowed",
               "policy_denied", "plan_created", "execution_started", "step_started",
               "step_completed", "step_failed", "observed", "adaptive_rule_matched",
               "step_added_to_plan", "execution_completed", "execution_partial",
               "execution_failed", "execution_cancelled", "cancellation_requested"}

RunnerSteps == {"create", "created", "gate1", "gate2", "plan", "start", "loop", "gate",
                "dispatch", "dispatched", "expand", "record", "finish", "done", "raised"}

TypeOK ==
  /\ row \in Execution
  /\ mem \in Execution
  /\ pc \in RunnerSteps
  /\ i \in Nat \ {0}
  /\ hardStop \in BOOLEAN
  /\ triggered \subseteq RuleIds
  /\ ingested \in BOOLEAN
  /\ outbox \in Seq(EventTypes)
  /\ seq \in Nat
  /\ events \subseteq [seq : Nat \ {0}, type : EventTypes]
  /\ canceller \in [Cancellers -> [pc : {"idle", "emit", "append", "done"}, seq : Nat]]
  /\ auth \in BOOLEAN
  /\ lateStarts \in Nat
  /\ unauthorized \in Nat
  /\ revokedEarly \in BOOLEAN

-----------------------------------------------------------------------------
(* Building blocks of the runner.                                          *)

(* The runner awaits every _emit() before its next statement.              *)
At(p) == pc = p /\ outbox = <<>>

(* Seeded fault: a save overwrites the flag with the runner's stale copy.  *)
SaveOverwriting(m) == mem' = m /\ row' = m

(* repo.save(): status and steps are replaced, the flag is OR-ed.          *)
Save(m) ==
  /\ mem' = m
  /\ row' = [m EXCEPT !.cancellation_requested = @ \/ row.cancellation_requested]

(* A transition of the aggregate, its _save() and the _emit()s after it.   *)
Commit(m, es, next) ==
  /\ Save(m)
  /\ outbox' = es
  /\ pc' = next

Current == mem.steps[i]

WithStep(status) == [mem EXCEPT !.steps[i].status = status]

Adaptive(step) == step.rule # "initial"

Kinds(steps) == {steps[k].kind : k \in DOMAIN steps}

Having(steps, status) == {k \in DOMAIN steps : steps[k].status = status}

-----------------------------------------------------------------------------
(* create_and_run(): gates and plan.                                       *)

Create ==
  /\ At("create")
  /\ Commit([mem EXCEPT !.status = "pending"], <<"execution_created">>, "created")
  /\ UNCHANGED <<loop, world, history>>

BeginPolicyCheck ==
  /\ At("created")
  /\ Commit([mem EXCEPT !.status = "policy_checking"], <<"policy_check_started">>, "gate1")
  /\ UNCHANGED <<loop, world, history>>

Authorize ==
  /\ At("gate1")
  /\ auth
  /\ Commit([mem EXCEPT !.status = "authorized"], <<"policy_allowed">>, "gate2")
  /\ UNCHANGED <<loop, world, history>>

(* At the first gate, or at the second one just before dispatch.           *)
Deny ==
  /\ At("gate1") \/ At("gate2")
  /\ ~auth
  /\ Commit([mem EXCEPT !.status = "denied"], <<"policy_denied">>, "done")
  /\ UNCHANGED <<loop, world, history>>

(* Seeded fault: the first decision is reused at dispatch.                 *)
ReauthorizeCached ==
  /\ At("gate2")
  /\ pc' = "plan"
  /\ UNCHANGED <<row, mem, outbox, loop, world, history>>

Reauthorize ==
  /\ At("gate2")
  /\ auth
  /\ pc' = "plan"
  /\ UNCHANGED <<row, mem, outbox, loop, world, history>>

(* The target's endpoint cannot be normalized.                             *)
FailPreflight ==
  /\ At("plan")
  /\ Commit([mem EXCEPT !.status = "failed"], <<"execution_failed">>, "done")
  /\ UNCHANGED <<loop, world, history>>

BuildPlan ==
  /\ At("plan")
  /\ \E plan \in Plans :
       LET n == IF Len(plan) > MaxSteps THEN MaxSteps ELSE Len(plan)
       IN  Commit([mem EXCEPT !.steps = [k \in 1..n |->
                     [kind |-> plan[k], rule |-> "initial", status |-> "pending"]]],
                  <<"plan_created">>, "start")
  /\ UNCHANGED <<loop, world, history>>

Start ==
  /\ At("start")
  /\ Commit([mem EXCEPT !.status = "running"], <<"execution_started">>, "loop")
  /\ UNCHANGED <<loop, world, history>>

-----------------------------------------------------------------------------
(* _run_steps(): one iteration of the loop.                                *)

InLoop == At("loop") /\ i <= Len(mem.steps)

(* After a hard stop, a skip stays in memory and nothing else is checked.  *)
SkipStep ==
  /\ InLoop
  /\ hardStop
  /\ mem' = WithStep("skipped")
  /\ i' = i + 1
  /\ UNCHANGED <<row, pc, hardStop, triggered, ingested, outbox, world, history>>

(* Seeded fault: cancel() leaves the pending steps alone.                  *)
CancelRunLeavingSteps ==
  /\ InLoop
  /\ ~hardStop
  /\ row.cancellation_requested
  /\ Commit([mem EXCEPT !.status = "cancelled"], <<"execution_cancelled">>, "done")
  /\ UNCHANGED <<loop, world, history>>

(* Seeded fault: the cancelled aggregate is announced but not saved.       *)
CancelRunUnsaved ==
  /\ InLoop
  /\ ~hardStop
  /\ row.cancellation_requested
  /\ outbox' = <<"execution_cancelled">>
  /\ pc' = "done"
  /\ UNCHANGED <<row, mem, loop, world, history>>

(* Seeded fault: cancel() also rewrites the steps that have a result.      *)
CancelRunEveryStep ==
  /\ InLoop
  /\ ~hardStop
  /\ row.cancellation_requested
  /\ Commit([mem EXCEPT !.status = "cancelled",
                        !.steps = [k \in DOMAIN mem.steps |->
                            [mem.steps[k] EXCEPT !.status = "cancelled"]]],
            <<"execution_cancelled">>, "done")
  /\ UNCHANGED <<loop, world, history>>

(* A fresh read of the flag before every dispatch; cancel() settles every  *)
(* step that is still pending.                                             *)
CancelRun ==
  /\ InLoop
  /\ ~hardStop
  /\ row.cancellation_requested
  /\ Commit([mem EXCEPT !.status = "cancelled",
                        !.steps = [k \in DOMAIN mem.steps |->
                            IF mem.steps[k].status = "pending"
                            THEN [mem.steps[k] EXCEPT !.status = "cancelled"]
                            ELSE mem.steps[k]]],
            <<"execution_cancelled">>, "done")
  /\ UNCHANGED <<loop, world, history>>

(* Seeded fault: the flag of the aggregate in memory is tested.            *)
NotCancelledInMemory ==
  /\ InLoop
  /\ ~hardStop
  /\ ~mem.cancellation_requested
  /\ pc' = IF Adaptive(Current) THEN "gate" ELSE "dispatch"
  /\ UNCHANGED <<row, mem, loop, outbox, world, history>>

NotCancelled ==
  /\ InLoop
  /\ ~hardStop
  /\ ~row.cancellation_requested
  /\ pc' = IF Adaptive(Current) THEN "gate" ELSE "dispatch"
  /\ UNCHANGED <<row, mem, loop, outbox, world, history>>

(* Seeded fault: a denied adaptive step is skipped and not failed.         *)
DenyStepAsSkip ==
  /\ At("gate")
  /\ ~auth
  /\ Commit(WithStep("skipped"), <<"step_failed">>, "loop")
  /\ hardStop' = TRUE
  /\ i' = i + 1
  /\ UNCHANGED <<triggered, ingested, world, history>>

(* The dispatch boundary of adaptive steps: a fresh decision each time.    *)
DenyStep ==
  /\ At("gate")
  /\ ~auth
  /\ Commit(WithStep("failed"), <<"step_failed">>, "loop")
  /\ hardStop' = TRUE
  /\ i' = i + 1
  /\ UNCHANGED <<triggered, ingested, world, history>>

(* Seeded fault: the decision at the second gate holds for the whole run.  *)
AllowStepUnchecked ==
  /\ At("gate")
  /\ pc' = "dispatch"
  /\ UNCHANGED <<row, mem, loop, outbox, world, history>>

AllowStep ==
  /\ At("gate")
  /\ auth
  /\ pc' = "dispatch"
  /\ UNCHANGED <<row, mem, loop, outbox, world, history>>

StartStep ==
  /\ At("dispatch")
  /\ Commit(WithStep("running"),
            IF Current.kind = "port_discovery" THEN <<"step_started", "observed">>
                                               ELSE <<"step_started">>,
            "dispatched")
  /\ lateStarts' = lateStarts + IF row.cancellation_requested THEN 1 ELSE 0
  /\ unauthorized' = unauthorized + IF Adaptive(Current) /\ ~auth THEN 1 ELSE 0
  /\ UNCHANGED <<loop, world, revokedEarly>>

(* The step succeeds, in memory only.  Its findings are emitted before the *)
(* step is saved; conditions found by the header check are not counted.    *)
CompleteStep ==
  /\ At("dispatched")
  /\ mem' = WithStep("completed")
  /\ \E n \in 0..MaxObserved :
       /\ outbox' = [k \in 1..(n + IF Current.kind = "port_discovery" THEN 1 ELSE 0)
                       |-> "observed"]
       /\ \/ UNCHANGED ingested
          \/ n > 0 /\ Current.kind # "http_security_headers" /\ ingested' = TRUE
  /\ IF Current.kind = "port_discovery"
     THEN pc' = "expand" /\ triggered' \in SUBSET Triggers
     ELSE pc' = "record" /\ UNCHANGED triggered
  /\ UNCHANGED <<row, i, hardStop, world, history>>

(* Without name resolution or a connection nothing else is tried.          *)
FailStep ==
  /\ At("dispatched")
  /\ Current.kind \notin ReportKinds
  /\ mem' = WithStep("failed")
  /\ hardStop' = (hardStop \/ Current.kind \in HardStopKinds)
  /\ pc' = "record"
  /\ UNCHANGED <<row, i, triggered, ingested, outbox, world, history>>

(* Seeded fault: a rule does not look at the step types already planned,   *)
(* which leaves append_adaptive_step's check on (step type, rule).         *)
WantedPerRule(k) ==
  /\ RuleSpecs[k].rule \in triggered
  /\ ~\E j \in DOMAIN mem.steps : /\ mem.steps[j].kind = RuleSpecs[k].kind
                                  /\ mem.steps[j].rule = RuleSpecs[k].rule

(* A triggered rule wants the step types that are not planned yet; that    *)
(* covers append_adaptive_step's own check on (step type, rule).           *)
Wanted(k) ==
  /\ RuleSpecs[k].rule \in triggered
  /\ RuleSpecs[k].kind \notin Kinds(mem.steps)

(* append_adaptive_step's bounds.                                          *)
PlanHasRoom ==
  /\ Len(mem.steps) < MaxSteps
  /\ Cardinality({k \in DOMAIN mem.steps : Adaptive(mem.steps[k])}) < MaxAdaptive

(* The registry's rules are evaluated in order, one save per step added.   *)
ExpandPlan ==
  /\ At("expand")
  /\ PlanHasRoom
  /\ \E k \in DOMAIN RuleSpecs :
       /\ Wanted(k)
       /\ \A j \in 1..(k - 1) : ~Wanted(j)
       /\ Commit([mem EXCEPT !.steps = Append(@, [kind   |-> RuleSpecs[k].kind,
                                                  rule   |-> RuleSpecs[k].rule,
                                                  status |-> "pending"])],
                 <<"adaptive_rule_matched", "step_added_to_plan">>, "expand")
  /\ UNCHANGED <<loop, world, history>>

PlanExpanded ==
  /\ At("expand")
  /\ PlanHasRoom => \A k \in DOMAIN RuleSpecs : ~Wanted(k)
  /\ pc' = "record"
  /\ UNCHANGED <<row, mem, loop, outbox, world, history>>

RecordStep ==
  /\ At("record")
  /\ Commit(mem, IF Current.status = "completed" THEN <<"step_completed">>
                                                 ELSE <<"step_failed">>, "loop")
  /\ i' = i + 1
  /\ UNCHANGED <<hardStop, triggered, ingested, world, history>>

(* Correlation is re-evaluated, best effort, if a condition was counted.   *)
LoopEnds ==
  /\ At("loop")
  /\ i > Len(mem.steps)
  /\ outbox' \in {<<>>} \cup (IF ingested THEN {<<"observed">>} ELSE {})
  /\ pc' = "finish"
  /\ UNCHANGED <<row, mem, loop, world, history>>

(* finish(): computed from the steps that completed and failed.            *)
FinalStatus(steps) ==
  IF Having(steps, "failed") = {} THEN "completed"
  ELSE IF Having(steps, "completed") = {} THEN "failed" ELSE "partially_completed"

FinalEvent(status) ==
  CASE status = "completed"           -> "execution_completed"
    [] status = "partially_completed" -> "execution_partial"
    [] OTHER                          -> "execution_failed"

Finish ==
  /\ At("finish")
  /\ LET final == FinalStatus(mem.steps)
     IN  Commit([mem EXCEPT !.status = final], <<FinalEvent(final)>>, "done")
  /\ UNCHANGED <<loop, world, history>>

-----------------------------------------------------------------------------
(* Events: count + 1 is read, then inserted under a unique index on        *)
(* (execution, sequence); a writer that read the same count fails.         *)

(* Seeded fault: sequence numbers start at 0.                              *)
NextSequenceZeroBased == Cardinality(events)

next_sequence == Cardinality(events) + 1

SequenceTaken(n) == \E e \in events : e.seq = n

(* _emit() of the runner: the read, which drops the event at the cap.      *)
EmitRead ==
  /\ outbox # <<>>
  /\ seq = 0
  /\ IF next_sequence > MaxEvents
     THEN outbox' = Tail(outbox) /\ UNCHANGED seq
     ELSE seq' = next_sequence /\ UNCHANGED outbox
  /\ UNCHANGED <<row, mem, pc, loop, events, canceller, auth, history>>

(* Seeded fault: no unique index on (execution, sequence).                 *)
EmitAppendUnindexed ==
  /\ seq # 0
  /\ events' = events \cup {[seq |-> seq, type |-> Head(outbox)]}
  /\ outbox' = Tail(outbox)
  /\ seq' = 0
  /\ UNCHANGED <<row, mem, pc, loop, canceller, auth, history>>

EmitAppend ==
  /\ seq # 0
  /\ ~SequenceTaken(seq)
  /\ events' = events \cup {[seq |-> seq, type |-> Head(outbox)]}
  /\ outbox' = Tail(outbox)
  /\ seq' = 0
  /\ UNCHANGED <<row, mem, pc, loop, canceller, auth, history>>

Die ==
  /\ pc' = "raised"
  /\ outbox' = <<>>
  /\ seq' = 0
  /\ UNCHANGED <<row, mem, loop, events, canceller, auth, history>>

(* The insert meets the index: IntegrityError leaves create_and_run().     *)
EmitCollides ==
  /\ seq # 0
  /\ SequenceTaken(seq)
  /\ Die

(* Any other exception (asset or condition service, database, a deadlock   *)
(* between two saves), task cancellation or the death of the process:      *)
(* nothing resumes or closes the row.                                      *)
Raise ==
  /\ RunnerMayRaise
  /\ pc # "raised"
  /\ ~At("done")
  /\ Die

-----------------------------------------------------------------------------
(* cancel() of another request, and the operator who revokes.              *)

(* Row lock, terminal check, flag, save.                                   *)
RequestCancellation(c) ==
  /\ canceller[c].pc = "idle"
  /\ row.status \notin Terminal \cup {"absent"}
  /\ row' = [row EXCEPT !.cancellation_requested = TRUE]
  /\ canceller' = [canceller EXCEPT ![c].pc = "emit"]
  /\ UNCHANGED <<mem, pc, loop, outbox, events, seq, auth, history>>

CancelEmitRead(c) ==
  /\ canceller[c].pc = "emit"
  /\ canceller' = [canceller EXCEPT
                     ![c] = IF next_sequence > MaxEvents
                            THEN [pc |-> "done", seq |-> 0]
                            ELSE [pc |-> "append", seq |-> next_sequence]]
  /\ UNCHANGED <<row, mem, pc, loop, outbox, events, seq, auth, history>>

(* A collision fails the request after its flag was committed.             *)
CancelEmitAppend(c) ==
  /\ canceller[c].pc = "append"
  /\ events' = IF SequenceTaken(canceller[c].seq)
               THEN events
               ELSE events \cup {[seq |-> canceller[c].seq, type |-> "cancellation_requested"]}
  /\ canceller' = [canceller EXCEPT ![c] = [pc |-> "done", seq |-> 0]]
  /\ UNCHANGED <<row, mem, pc, loop, outbox, seq, auth, history>>

Revoke ==
  /\ auth
  /\ auth' = FALSE
  /\ IF pc \in {"create", "created", "gate1", "gate2"}
     THEN revokedEarly' = TRUE
     ELSE UNCHANGED revokedEarly
  /\ UNCHANGED <<row, mem, pc, loop, outbox, events, seq, canceller, lateStarts, unauthorized>>

-----------------------------------------------------------------------------
NoExecution == [status |-> "absent", steps |-> <<>>, cancellation_requested |-> FALSE]

Init ==
  /\ row = NoExecution
  /\ mem = NoExecution
  /\ pc = "create"
  /\ i = 1
  /\ hardStop = FALSE
  /\ triggered = {}
  /\ ingested = FALSE
  /\ outbox = <<>>
  /\ seq = 0
  /\ events = {}
  /\ canceller = [c \in Cancellers |-> [pc |-> "idle", seq |-> 0]]
  /\ auth \in BOOLEAN
  /\ lateStarts = 0
  /\ unauthorized = 0
  /\ revokedEarly = ~auth

Preflight == \/ Create \/ BeginPolicyCheck \/ Authorize \/ Deny \/ Reauthorize
             \/ FailPreflight \/ BuildPlan \/ Start

RunStep == \/ SkipStep \/ CancelRun \/ NotCancelled \/ DenyStep \/ AllowStep \/ StartStep
           \/ CompleteStep \/ FailStep \/ ExpandPlan \/ PlanExpanded \/ RecordStep
           \/ LoopEnds \/ Finish

Emit == EmitRead \/ EmitAppend \/ EmitCollides

Runner == Preflight \/ RunStep \/ Emit

Canceller(c) == RequestCancellation(c) \/ CancelEmitRead(c) \/ CancelEmitAppend(c)

Next == Runner \/ Raise \/ Revoke \/ \E c \in Cancellers : Canceller(c)

(* The runner is an awaited coroutine whose network steps have time-outs:  *)
(* until it dies it goes on.  Nobody has to cancel or to revoke.           *)
Fairness == WF_vars(Runner)

Spec == Init /\ [][Next]_vars /\ Fairness

-----------------------------------------------------------------------------
(* Properties.                                                             *)

(* Once a cancellation is committed at most one more step is dispatched,   *)
(* the one whose check was already over, however many steps are planned    *)
(* and whatever the runner saves meanwhile (_run_steps, repo.save).        *)
CancelWindow == lateStarts <= 1

(* Once the authorization is revoked at most one more adaptive step is     *)
(* dispatched (_adaptive_dispatch_allowed).                                *)
RevocationWindow == unauthorized <= 1

(* An authorization that is gone before the second gate decides keeps      *)
(* every step from being planned (create_and_run, deny).                   *)
EarlyRevocationBlocks == revokedEarly => row.steps = <<>>

(* A row with a terminal status never changes again, its flag included: a  *)
(* late cancel is refused and no save is still on its way                  *)
(* (request_cancellation, create_and_run).                                 *)
TerminalIsFinal == [][row.status \in Terminal => row' = row]_row

(* A saved step result is never reinterpreted by a later save, a cancel or *)
(* a plan expansion (StepStatus, repo.save).                               *)
ResultsAreFinal ==
  [][\A k \in DOMAIN row.steps :
       row.steps[k].status \in {"completed", "failed"} =>
         k \in DOMAIN row'.steps /\ row'.steps[k] = row.steps[k]]_row

(* No step of a terminal execution is left pending or running (cancel,     *)
(* skip, _run_steps).                                                      *)
TerminalSettled ==
  row.status \in Terminal =>
    \A k \in DOMAIN row.steps : row.steps[k].status \notin {"pending", "running"}

(* COMPLETED means that every planned step completed, although finish()    *)
(* only looks for failures: whatever skips a step also failed one.         *)
CompletedMeansAll ==
  row.status = "completed" =>
    \A k \in DOMAIN row.steps : row.steps[k].status = "completed"

(* The plan stays within its limits however many rules are triggered       *)
(* (build_plan, append_adaptive_step).                                     *)
PlanBounded ==
  /\ Len(row.steps) <= MaxSteps
  /\ Cardinality({k \in DOMAIN row.steps : Adaptive(row.steps[k])}) <= MaxAdaptive

(* The plan holds each step type once, also when several rules want the    *)
(* same one (the rules' evaluate).                                         *)
NoDuplicateStepType ==
  \A j, k \in DOMAIN row.steps : row.steps[j].kind = row.steps[k].kind => j = k

(* However the runner and the cancellers race, the log has no gap, no      *)
(* duplicate and at most max_events entries (_emit, next_sequence, append).*)
EventLogDense ==
  /\ {e.seq : e \in events} = 1..Cardinality(events)
  /\ Cardinality(events) <= MaxEvents

(* The status each event about the whole execution announces.              *)
AnnouncedStatus ==
  [t \in {"policy_denied", "execution_completed", "execution_partial",
          "execution_failed", "execution_cancelled"} |->
     CASE t = "policy_denied"       -> "denied"
       [] t = "execution_completed" -> "completed"
       [] t = "execution_partial"   -> "partially_completed"
       [] t = "execution_failed"    -> "failed"
       [] t = "execution_cancelled" -> "cancelled"]

(* What the log announces about the whole execution is what the row says   *)
(* (_save before _emit).                                                   *)
AnnouncedIsSaved ==
  \A e \in events : /\ e.type \in DOMAIN AnnouncedStatus =>
                         row.status = AnnouncedStatus[e.type]
                    /\ e.type = "cancellation_requested" => row.cancellation_requested

(* A run that does not die settles its row, cancelled or not.              *)
RunSettles == <>(row.status \in Terminal \/ pc = "raised")

(* The runner is gone and has left the row open.                           *)
Abandoned == pc = "raised" /\ row.status \notin Terminal

(* The row, seen from outside, is an ExecutionLifecycle.                   *)
Lifecycle == INSTANCE ExecutionLifecycle
               WITH status <- row.status, requested <- row.cancellation_requested,
                    abandoned <- Abandoned

RefinesLifecycle == Lifecycle!Spec

(* What the documentation says and the code does not do.                   *)

(* request_cancellation(): "the running loop observes this flag between    *)
(* steps and is the one that calls cancel()": a requested cancellation is  *)
(* answered by a terminal row.                                             *)
CancelObserved == row.cancellation_requested ~> row.status \in Terminal
=============================================================================
