------------------------- MODULE DriftReconciliation -------------------------
(***************************************************************************)
(* Reconciliation after a validation run (M14): _reconcile() of            *)
(* ContinuousValidationProcessor for the runs of one policy.               *)
(*                                                                         *)
(* Every run ingests the conditions it observes; after it, _reconcile()    *)
(* reads the active conditions, resolves those the run re-checked and did  *)
(* not see, reads them again, builds a snapshot, reads the previous        *)
(* snapshot and saves the new one, and reports the drift between the two.  *)
(* Each read and each write is a transaction of its own and nothing is     *)
(* locked: a scheduled run and run_now() calls interleave, and network     *)
(* validation runs (M16) write conditions of the same assets.  A job may   *)
(* end anywhere (an exception, a lost process).                            *)
(***************************************************************************)
EXTENDS DriftDetection, FiniteSets

CONSTANTS
  Workers,    \* whoever may run a validation: the scheduler, run_now() calls
  Outcomes,   \* the step lists a run may end with
  Foreign,    \* the conditions network runs may find on the IP assets
  MaxRuns,    \* bound: executions
  MaxForeign  \* bound: observations by network runs

ASSUME OutcomesAssumption == Outcomes \subseteq Seq(Step)
ASSUME ForeignAssumption ==
  Foreign \subseteq {r \in Rules : "tls_handshake" \in RuleCoverage[r]} \X Addresses
ASSUME MaxRunsAssumption == MaxRuns \in Nat
ASSUME MaxForeignAssumption == MaxForeign \in Nat

Runs == 1..MaxRuns

NoRun == 0

(* The conditions that can be observed.                                    *)
Keys == Foreign \cup UNION {Observed(o) : o \in Outcomes}

VARIABLES
  clock,      \* utc_now(); every timestamp taken is a new instant
  runs,       \* executions created so far
  foreign,    \* observations by network runs so far
  conditions, \* security_conditions: lifecycle, first and last_observed_at
  snapshots,  \* validation_state_snapshots, per execution
  drift,      \* security_drift_events: <<execution, category, identity_key>>
  job,        \* per worker: its run and how far its reconciliation got
  believed,   \* history: what a reader of the change feed takes for current
  disturbed   \* history: reconciliations overlapped, or a report was lost

vars == <<clock, runs, foreign, conditions, snapshots, drift, job, believed, disturbed>>

ServiceMaps == {Services(o) : o \in Outcomes}

Content == [ips : SUBSET Addresses, ports : SUBSET Ports, services : ServiceMaps,
            conditions : SUBSET Keys, correlations : SUBSET Correlations]

NoContent == [ips |-> {}]

(* Content less the services: what can be told from the feed alone.        *)
Views == [ips : SUBSET Addresses, ports : SUBSET Ports, conditions : SUBSET Keys,
          correlations : SUBSET Correlations]

View(c) == [ips |-> c.ips, ports |-> c.ports, conditions |-> c.conditions,
            correlations |-> c.correlations]

(* SecurityDriftCategory                                                   *)
Categories ==
  {"ip_observed", "ip_no_longer_observed", "port_became_reachable",
   "port_no_longer_reachable", "protocol_validated", "protocol_no_longer_validated",
   "protocol_changed", "tls_certificate_changed", "condition_appeared",
   "condition_resolved", "condition_reactivated", "correlation_appeared",
   "correlation_resolved"}

Condition == [lifecycle : {"absent", "active", "resolved"}, first : Nat, last : Nat]

Snapshot == [content : Content, captured : Nat]

NoSnapshot == [content |-> NoContent, captured |-> 0]

Phases == {"idle", "running", "collecting", "built", "saving", "reporting"}

(* left: observed, not yet ingested.  unread: assets whose active          *)
(* conditions are still to be read.  stale: to be resolved.  seen: active  *)
(* after the resolution.  base: the snapshot to compare with.              *)
Job == [phase : Phases, run : Runs \cup {NoRun}, steps : Outcomes \cup {<<>>}, started : Nat,
        left : SUBSET Keys, unread : SUBSET RelatedAssets, stale : SUBSET Keys,
        seen : SUBSET Keys, content : Content \cup {NoContent}, captured : Nat,
        base : Runs \cup {NoRun}]

IdleJob == [phase |-> "idle", run |-> NoRun, steps |-> <<>>, started |-> 0, left |-> {},
            unread |-> {}, stale |-> {}, seen |-> {}, content |-> NoContent,
            captured |-> 0, base |-> NoRun]

TypeOK ==
  /\ clock \in Nat
  /\ runs \in {NoRun} \cup Runs
  /\ foreign \in 0..MaxForeign
  /\ conditions \in [Keys -> Condition]
  /\ snapshots \in [Runs -> Snapshot \cup {NoSnapshot}]
  /\ \A e \in drift : e[1] \in Runs /\ e[2] \in Categories
  /\ job \in [Workers -> Job]
  /\ believed \in Views
  /\ disturbed \in BOOLEAN
  /\ \A w \in Workers :
       /\ job[w].phase # "idle" => job[w].run \in 1..runs
       /\ job[w].phase \in {"built", "saving", "reporting"} => job[w].content \in Content

Init ==
  /\ clock = 1
  /\ runs = NoRun
  /\ foreign = 0
  /\ conditions = [k \in Keys |-> [lifecycle |-> "absent", first |-> 0, last |-> 0]]
  /\ snapshots = [r \in Runs |-> NoSnapshot]
  /\ drift = {}
  /\ job = [w \in Workers |-> IdleJob]
  /\ believed = [ips |-> {}, ports |-> {}, conditions |-> {}, correlations |-> {}]
  /\ disturbed = FALSE

-----------------------------------------------------------------------------
(* The run, as far as this component sees it.                              *)

(* Seeded fault: the next run is given the same identity.                  *)
StartUncounted(w) ==
  /\ job[w].phase = "idle"
  /\ runs < MaxRuns
  /\ \E o \in Outcomes :
       job' = [job EXCEPT ![w] = [IdleJob EXCEPT !.phase = "running", !.run = runs + 1,
                                    !.steps = o, !.started = clock, !.left = Observed(o)]]
  /\ clock' = clock + 1
  /\ UNCHANGED <<runs, foreign, conditions, snapshots, drift, believed, disturbed>>

(* create_and_run() by the scheduler or run_now(): any status, also denied,*)
(* failed or cancelled; what is left of it are its completed steps.        *)
Start(w) ==
  /\ job[w].phase = "idle"
  /\ runs < MaxRuns
  /\ \E o \in Outcomes :
       job' = [job EXCEPT ![w] = [IdleJob EXCEPT !.phase = "running", !.run = runs + 1,
                                    !.steps = o, !.started = clock, !.left = Observed(o),
                                    !.unread = RelatedAssets]]
  /\ runs' = runs + 1
  /\ clock' = clock + 1
  /\ UNCHANGED <<foreign, conditions, snapshots, drift, believed, disturbed>>

(* Seeded fault: a reactivated condition gets a new first_observed_at.     *)
UpsertRestarting(c, now) ==
  [lifecycle |-> "active",
   first |-> IF c.lifecycle = "active" THEN c.first ELSE now,
   last |-> now]

(* SecurityConditionRepository.upsert()                                    *)
Upsert(c, now) ==
  [lifecycle |-> "active",
   first |-> IF c.lifecycle = "absent" THEN now ELSE c.first,
   last |-> now]

Ingest(w) ==
  /\ job[w].phase = "running"
  /\ \E k \in job[w].left :
       /\ conditions' = [conditions EXCEPT ![k] = Upsert(@, clock)]
       /\ job' = [job EXCEPT ![w].left = @ \ {k}]
  /\ clock' = clock + 1
  /\ UNCHANGED <<runs, foreign, snapshots, drift, believed, disturbed>>

(* A network run completes a TLS handshake with one of the addresses: it   *)
(* ingests what it finds on the IP asset, under the same rules.            *)
IngestElsewhere ==
  /\ foreign < MaxForeign
  /\ \E k \in Foreign : conditions' = [conditions EXCEPT ![k] = Upsert(@, clock)]
  /\ foreign' = foreign + 1
  /\ clock' = clock + 1
  /\ UNCHANGED <<runs, snapshots, drift, job, believed, disturbed>>

-----------------------------------------------------------------------------
(* _reconcile()                                                            *)

ActiveOn(asset) == {k \in Keys : k[2] = asset /\ conditions[k].lifecycle = "active"}

(* What _resolve_absent_conditions() will pass over still_active_keys for: *)
(* conditions of covered rules last observed before the run started.       *)
StaleOn(j, asset) ==
  {k \in ActiveOn(asset) : Covers(j.steps, k) /\ conditions[k].last < j.started}

(* conditions_before, one asset after the other.                           *)
ReadBefore(w) ==
  LET j == job[w] IN
  /\ j.phase = "running"
  /\ j.left = {}
  /\ \E a \in j.unread :
       job' = [job EXCEPT ![w].stale = @ \cup StaleOn(j, a), ![w].unread = @ \ {a}]
  /\ UNCHANGED <<clock, runs, foreign, conditions, snapshots, drift, believed, disturbed>>

Resolving(w) == job[w].phase = "running" /\ job[w].left = {} /\ job[w].unread = {}

(* resolve_stale_for_rule_and_asset(), a transaction per rule and asset: it*)
(* resolves what is active now and was not fresh when conditions_before was*)
(* read, whatever has been observed since.                                 *)
Resolve(w) ==
  /\ Resolving(w)
  /\ \E k \in job[w].stale :
       /\ conditions' = IF conditions[k].lifecycle = "active"
                        THEN [conditions EXCEPT ![k].lifecycle = "resolved"]
                        ELSE conditions
       /\ job' = [job EXCEPT ![w].stale = @ \ {k}]
  /\ UNCHANGED <<clock, runs, foreign, snapshots, drift, believed, disturbed>>

Resolved(w) ==
  /\ Resolving(w)
  /\ job[w].stale = {}
  /\ job' = [job EXCEPT ![w].phase = "collecting", ![w].unread = RelatedAssets]
  /\ UNCHANGED <<clock, runs, foreign, conditions, snapshots, drift, believed, disturbed>>

(* conditions_after                                                        *)
ReadAfter(w) ==
  /\ job[w].phase = "collecting"
  /\ \E a \in job[w].unread :
       job' = [job EXCEPT ![w].seen = @ \cup ActiveOn(a), ![w].unread = @ \ {a}]
  /\ UNCHANGED <<clock, runs, foreign, conditions, snapshots, drift, believed, disturbed>>

Writing(w) == job[w].phase \in {"built", "saving", "reporting"}

(* The snapshot is built, and captured_at taken, before the transaction    *)
(* that reads the previous one.  Which correlations are active is M9's     *)
(* business: any.                                                          *)
Build(w) ==
  /\ job[w].phase = "collecting"
  /\ job[w].unread = {}
  /\ \E c \in SUBSET Correlations :
       job' = [job EXCEPT ![w].phase = "built", ![w].seen = {}, ![w].captured = clock,
                          ![w].content = BuildSnapshot(job[w].steps, job[w].seen, c)]
  /\ clock' = clock + 1
  /\ disturbed' = (disturbed \/ \E v \in Workers : Writing(v))
  /\ UNCHANGED <<runs, foreign, conditions, snapshots, drift, believed>>

Saved == {r \in Runs : snapshots[r] # NoSnapshot}

(* Seeded fault: the oldest snapshot.                                      *)
LatestFirst ==
  {r \in Saved : \A s \in Saved : snapshots[r].captured <= snapshots[s].captured}

(* ORDER BY captured_at DESC LIMIT 1                                       *)
Latest == {r \in Saved : \A s \in Saved : snapshots[s].captured <= snapshots[r].captured}

(* get_latest_for_policy() ...                                             *)
ReadLatest(w) ==
  /\ job[w].phase = "built"
  /\ \E r \in IF Saved = {} THEN {NoRun} ELSE Latest :
       job' = [job EXCEPT ![w].base = r, ![w].phase = "saving"]
  /\ UNCHANGED <<clock, runs, foreign, conditions, snapshots, drift, believed, disturbed>>

(* ... and save(), committed together; another commit may come between.    *)
Save(w) ==
  LET j == job[w] IN
  /\ j.phase = "saving"
  /\ snapshots' = [snapshots EXCEPT ![j.run] = [content |-> j.content, captured |-> j.captured]]
  /\ job' = [job EXCEPT ![w].phase = "reporting"]
  /\ believed' = IF j.base = NoRun THEN View(j.content) ELSE believed
  /\ UNCHANGED <<clock, runs, foreign, conditions, drift, disturbed>>

(* _compute_reactivated_keys(); first_observed_at never changes, so it does*)
(* not matter when it is read.                                             *)
Reactivated(base, content) ==
  {k \in content.conditions \ snapshots[base].content.conditions :
     conditions[k].first < snapshots[base].captured}

(* Seeded fault: everything is new in the first run.                       *)
EventsWithoutBaseline(base, content) ==
  IF base = NoRun
  THEN {<<"port_became_reachable", p>> : p \in content.ports}
  ELSE DetectDrift(snapshots[base].content, content, Reactivated(base, content))

Events(base, content) ==
  IF base = NoRun THEN {}
  ELSE DetectDrift(snapshots[base].content, content, Reactivated(base, content))

(* The feed applied to what was believed before: the reading the           *)
(* categories ask for.                                                     *)
Applied(old, events, appeared, gone) ==
  (old \ {x \in old : <<gone, x>> \in events})
  \cup {e[2] : e \in {f \in events : f[1] \in appeared}}

Apply(old, events) ==
  [ips          |-> Applied(old.ips, events, {"ip_observed"}, "ip_no_longer_observed"),
   ports        |-> Applied(old.ports, events, {"port_became_reachable"},
                            "port_no_longer_reachable"),
   conditions   |-> Applied(old.conditions, events,
                            {"condition_appeared", "condition_reactivated"},
                            "condition_resolved"),
   correlations |-> Applied(old.correlations, events, {"correlation_appeared"},
                            "correlation_resolved")]

(* detect_drift() and persist(), one transaction; an event that is there   *)
(* already is skipped.                                                     *)
Report(w) ==
  LET j == job[w]
      events == Events(j.base, j.content)
  IN  /\ j.phase = "reporting"
      /\ drift' = drift \cup {<<j.run, e[1], e[2]>> : e \in events}
      /\ believed' = Apply(believed, events)
      /\ job' = [job EXCEPT ![w] = IdleJob]
      /\ UNCHANGED <<clock, runs, foreign, conditions, snapshots, disturbed>>

(* An exception or a lost process; what is committed stays.                *)
Abandon(w) ==
  /\ job[w].phase # "idle"
  /\ job' = [job EXCEPT ![w] = IdleJob]
  /\ disturbed' = (disturbed \/ job[w].phase = "reporting")
  /\ UNCHANGED <<clock, runs, foreign, conditions, snapshots, drift, believed>>

StepOf(w) ==
  \/ Start(w) \/ Ingest(w)
  \/ ReadBefore(w) \/ Resolve(w) \/ Resolved(w) \/ ReadAfter(w)
  \/ Build(w) \/ ReadLatest(w) \/ Save(w) \/ Report(w)
  \/ Abandon(w)

Next == IngestElsewhere \/ \E w \in Workers : StepOf(w)

Spec == Init /\ [][Next]_vars

-----------------------------------------------------------------------------
(* Properties.                                                             *)

(* The execution's own steps re-checked what condition k claims: a step    *)
(* that covers its rule completed, and where the rule is about the protocol*)
(* of one port it validated on that port.                                  *)
Rechecked(steps, k) ==
  \E i \in DOMAIN steps :
    /\ steps[i].status = "completed"
    /\ steps[i].type \in RuleCoverage[k[1]]
    /\ steps[i].type \in ProtocolTypes => steps[i].validated /\ steps[i].port = k[2]

(* No resolution without a check: a condition is resolved only by a run    *)
(* that re-evaluated its rule and did not observe it, never because a step *)
(* failed, was inconclusive or was skipped in that run, whoever else       *)
(* observes or resolves meanwhile (_resolve_absent_conditions(),           *)
(* condition_reconciliation.py).  It does not say that nobody else has     *)
(* observed the condition since the run read it: that may happen.          *)
ResolvedWasRechecked ==
  [][\A k \in Keys :
       conditions[k].lifecycle = "active" /\ conditions'[k].lifecycle = "resolved" =>
         \E w \in Workers :
           /\ Resolving(w)
           /\ Rechecked(job[w].steps, k)
           /\ k \notin Observed(job[w].steps)]_vars

Reported(r, categories) ==
  {e[3] : e \in {d \in drift : d[1] = r /\ d[2] \in categories}}

Explains(b, r, part(_), appeared, gone) ==
  /\ Reported(r, appeared) = part(snapshots[r].content) \ part(snapshots[b].content)
  /\ Reported(r, {gone}) = part(snapshots[b].content) \ part(snapshots[r].content)

(* What a run reports of addresses, ports, conditions and correlations is  *)
(* exactly its snapshot's difference from one snapshot that was committed  *)
(* before: nothing is mixed from two baselines, nothing is reported without*)
(* one, and nothing of the four is left out, however many reconciliations  *)
(* interleave (get_latest_for_policy(), detect_drift(), persist()).        *)
DriftExplained ==
  \A r \in Runs :
    (\E d \in drift : d[1] = r) =>
      \E b \in Saved \ {r} :
        /\ r \in Saved
        /\ Explains(b, r, LAMBDA c : c.ips, {"ip_observed"}, "ip_no_longer_observed")
        /\ Explains(b, r, LAMBDA c : c.ports, {"port_became_reachable"},
                    "port_no_longer_reachable")
        /\ Explains(b, r, LAMBDA c : c.conditions,
                    {"condition_appeared", "condition_reactivated"}, "condition_resolved")
        /\ Explains(b, r, LAMBDA c : c.correlations, {"correlation_appeared"},
                    "correlation_resolved")

(* The change feed can be trusted: unless two reconciliations overlapped   *)
(* or a job died between its snapshot and its report, whoever starts from  *)
(* the first snapshot and applies every event has exactly the latest       *)
(* snapshot (processor._reconcile()).                                      *)
ChangeFeedFaithful ==
  (~disturbed /\ \A w \in Workers : job[w].phase # "reporting") =>
    \A r \in Latest : believed = View(snapshots[r].content)

(* A condition reported as appeared is in no earlier snapshot: one that    *)
(* comes back after having been resolved is reported as reactivated        *)
(* (_compute_reactivated_keys()), under the same proviso.                  *)
AppearedIsNew ==
  ~disturbed =>
    \A r, s \in Saved :
      snapshots[s].captured < snapshots[r].captured =>
        Reported(r, {"condition_appeared"}) \cap snapshots[s].content.conditions = {}

(* A certificate that changed is reported: when the run and its baseline   *)
(* both completed a TLS handshake on port p and saw different fingerprints,*)
(* the report has tls_certificate_changed for p (_service_drift()).        *)
CertificateChangeReported ==
  \A w \in Workers :
    job[w].phase = "reporting" /\ job[w].base # NoRun =>
      \A p \in Ports :
        LET old == snapshots[job[w].base].content.services[p]
            new == job[w].content.services[p]
        IN  (\E i \in DOMAIN old, k \in DOMAIN new :
               /\ old[i].protocol = "tls_handshake" /\ new[k].protocol = "tls_handshake"
               /\ old[i].fingerprint # new[k].fingerprint) =>
             <<"tls_certificate_changed", p>> \in Events(job[w].base, job[w].content)
=============================================================================
