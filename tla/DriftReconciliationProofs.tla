---------------------- MODULE DriftReconciliationProofs ----------------------
(***************************************************************************)
(* Theorems about reconciliation and drift, for every number of workers and*)
(* runs, every set of ports, addresses and correlations, and every step    *)
(* list a run may end with.                                                *)
(***************************************************************************)
EXTENDS DriftReconciliation, TLAPS

-----------------------------------------------------------------------------
(* The pure part.                                                          *)

LEMMA SnapshotTyped ==
  ASSUME NEW o \in Outcomes, NEW S \in SUBSET Keys, NEW C \in SUBSET Correlations
  PROVE  BuildSnapshot(o, S, C) \in Content
<1>1. \A i \in DOMAIN o : o[i] \in Step
  BY OutcomesAssumption
<1>2. \A i \in DOMAIN o : o[i].ips \in SUBSET Addresses /\ o[i].ports \in SUBSET Ports
  BY <1>1 DEF Step
<1>3. Services(o) \in ServiceMaps
  BY DEF ServiceMaps
<1>4. /\ UNION {o[i].ips : i \in CompletedOf(o, "dns_resolution")} \in SUBSET Addresses
      /\ UNION {o[i].ports : i \in CompletedOf(o, "port_discovery")} \in SUBSET Ports
  BY <1>2 DEF CompletedOf
<1> QED
  BY <1>3, <1>4 DEF BuildSnapshot, Content

LEMMA ContentParts ==
  ASSUME NEW c \in Content
  PROVE  /\ c.ips \in SUBSET Addresses /\ c.ports \in SUBSET Ports
         /\ c.conditions \in SUBSET Keys /\ c.correlations \in SUBSET Correlations
         /\ View(c) \in Views
BY DEF Content, View, Views

LEMMA NoContentIsNone == NoContent \notin Content
<1>1. DOMAIN NoContent = {"ips"}
  BY DEF NoContent
<1>2. ASSUME NEW c \in Content PROVE "ports" \in DOMAIN c
  BY DEF Content
<1> QED
  BY <1>1, <1>2

(* What detect_drift() says, category by category.                         *)
LEMMA DriftParts ==
  ASSUME NEW old, NEW new, NEW R, NEW x
  PROVE  LET ev == DetectDrift(old, new, R) IN
         /\ <<"ip_observed", x>> \in ev <=> x \in new.ips \ old.ips
         /\ <<"ip_no_longer_observed", x>> \in ev <=> x \in old.ips \ new.ips
         /\ <<"port_became_reachable", x>> \in ev <=> x \in new.ports \ old.ports
         /\ <<"port_no_longer_reachable", x>> \in ev <=> x \in old.ports \ new.ports
         /\ <<"condition_appeared", x>> \in ev <=> x \in (new.conditions \ old.conditions) \ R
         /\ <<"condition_reactivated", x>> \in ev <=>
              x \in (new.conditions \ old.conditions) \cap R
         /\ <<"condition_resolved", x>> \in ev <=> x \in old.conditions \ new.conditions
         /\ <<"correlation_appeared", x>> \in ev <=> x \in new.correlations \ old.correlations
         /\ <<"correlation_resolved", x>> \in ev <=> x \in old.correlations \ new.correlations
<1> DEFINE ev == DetectDrift(old, new, R)
           other == ServiceDrift(old, new)
<1>1. CASE old = new
  BY <1>1 DEF DetectDrift
<1>2. CASE old # new
  <2>1. ASSUME NEW e \in other
        PROVE  e[1] \in {"protocol_validated", "protocol_no_longer_validated", "protocol_changed",
                         "tls_certificate_changed"}
    BY DEF ServiceDrift, ServiceDriftCategories
  <2>2. \A c, y : <<c, y>> \in other =>
          c \in {"protocol_validated", "protocol_no_longer_validated", "protocol_changed",
                 "tls_certificate_changed"}
    BY <2>1
  <2>3. ev = Change(old.ips, new.ips, "ip_observed", "ip_no_longer_observed")
             \cup Change(old.ports, new.ports, "port_became_reachable", "port_no_longer_reachable")
             \cup other
             \cup ConditionDrift(old.conditions, new.conditions, R)
             \cup Change(old.correlations, new.correlations,
                         "correlation_appeared", "correlation_resolved")
    BY <1>2 DEF DetectDrift
  <2> HIDE DEF ev, other
  <2>4. \A a, b, f, g, c, y : <<c, y>> \in Change(a, b, f, g) <=>
          (c = f /\ y \in b \ a) \/ (c = g /\ y \in a \ b)
    BY DEF Change
  <2>5. \A a, b, c, y : <<c, y>> \in ConditionDrift(a, b, R) <=>
          \/ c = "condition_reactivated" /\ y \in (b \ a) \cap R
          \/ c = "condition_appeared" /\ y \in (b \ a) \ R
          \/ c = "condition_resolved" /\ y \in a \ b
    BY DEF ConditionDrift
  <2>6. \A c : <<c, x>> \in ev <=>
          \/ <<c, x>> \in other
          \/ c = "ip_observed" /\ x \in new.ips \ old.ips
          \/ c = "ip_no_longer_observed" /\ x \in old.ips \ new.ips
          \/ c = "port_became_reachable" /\ x \in new.ports \ old.ports
          \/ c = "port_no_longer_reachable" /\ x \in old.ports \ new.ports
          \/ c = "condition_reactivated" /\ x \in (new.conditions \ old.conditions) \cap R
          \/ c = "condition_appeared" /\ x \in (new.conditions \ old.conditions) \ R
          \/ c = "condition_resolved" /\ x \in old.conditions \ new.conditions
          \/ c = "correlation_appeared" /\ x \in new.correlations \ old.correlations
          \/ c = "correlation_resolved" /\ x \in old.correlations \ new.correlations
    BY <2>3, <2>4, <2>5
  <2> QED
    BY <2>2, <2>6 DEF ev
<1> QED
  BY <1>1, <1>2

(* Every event is a category and a key.                                    *)
LEMMA DriftPairs ==
  ASSUME NEW old, NEW new, NEW R, NEW e \in DetectDrift(old, new, R)
  PROVE  e = <<e[1], e[2]>> /\ e[1] \in Categories
<1>1. ASSUME e \in ServiceDrift(old, new) PROVE e = <<e[1], e[2]>> /\ e[1] \in Categories
  BY <1>1 DEF ServiceDrift, ServiceDriftCategories, Categories
<1>2. ASSUME NEW a, NEW b, NEW f \in Categories, NEW g \in Categories, e \in Change(a, b, f, g)
      PROVE e = <<e[1], e[2]>> /\ e[1] \in Categories
  BY <1>2 DEF Change
<1>3. ASSUME NEW a, NEW b, e \in ConditionDrift(a, b, R)
      PROVE e = <<e[1], e[2]>> /\ e[1] \in Categories
  BY <1>3 DEF ConditionDrift, Categories
<1>4. {"ip_observed", "ip_no_longer_observed", "port_became_reachable", "port_no_longer_reachable",
       "correlation_appeared", "correlation_resolved"} \subseteq Categories
  BY DEF Categories
<1> QED
  BY <1>1, <1>2, <1>3, <1>4 DEF DetectDrift

Pairs(ev) == \A e \in ev : e = <<e[1], e[2]>>

(* The events of category g, or of the categories in A, name exactly S.    *)
Names(ev, g, S) == \A x : <<g, x>> \in ev <=> x \in S

NamesAny(ev, A, S) == \A x : (\E c \in A : <<c, x>> \in ev) <=> x \in S

LEMMA AppliedPart ==
  ASSUME NEW ev, Pairs(ev), NEW A, NEW g, NEW old, NEW new,
         Names(ev, g, old \ new), NamesAny(ev, A, new \ old)
  PROVE  Applied(old, ev, A, g) = new
<1>1. {e[2] : e \in {f \in ev : f[1] \in A}} = new \ old
  <2>1. ASSUME NEW x \in new \ old PROVE x \in {e[2] : e \in {f \in ev : f[1] \in A}}
    <3>1. PICK c \in A : <<c, x>> \in ev
      BY DEF NamesAny
    <3> QED
      BY <3>1
  <2>2. ASSUME NEW e \in ev, e[1] \in A PROVE e[2] \in new \ old
    BY <2>2 DEF Pairs, NamesAny
  <2> QED
    BY <2>1, <2>2
<1> QED
  BY <1>1 DEF Applied, Names

(* Applying the drift between two snapshots to the first gives the second. *)
LEMMA AppliedDrift ==
  ASSUME NEW old \in Content, NEW new \in Content, NEW R
  PROVE  Apply(View(old), DetectDrift(old, new, R)) = View(new)
<1> DEFINE ev == DetectDrift(old, new, R)
<1>1. Pairs(ev)
  BY DriftPairs DEF Pairs
<1>2. \A x :
         /\ <<"ip_observed", x>> \in ev <=> x \in new.ips \ old.ips
         /\ <<"ip_no_longer_observed", x>> \in ev <=> x \in old.ips \ new.ips
         /\ <<"port_became_reachable", x>> \in ev <=> x \in new.ports \ old.ports
         /\ <<"port_no_longer_reachable", x>> \in ev <=> x \in old.ports \ new.ports
         /\ <<"condition_appeared", x>> \in ev <=> x \in (new.conditions \ old.conditions) \ R
         /\ <<"condition_reactivated", x>> \in ev <=>
              x \in (new.conditions \ old.conditions) \cap R
         /\ <<"condition_resolved", x>> \in ev <=> x \in old.conditions \ new.conditions
         /\ <<"correlation_appeared", x>> \in ev <=> x \in new.correlations \ old.correlations
         /\ <<"correlation_resolved", x>> \in ev <=> x \in old.correlations \ new.correlations
  BY DriftParts, ZenonT(30)
<1> HIDE DEF ev
<1>3. Applied(old.ips, ev, {"ip_observed"},
              "ip_no_longer_observed") = new.ips
  <2> DEFINE A == {"ip_observed"}
             O == old.ips
             N == new.ips
  <2>1. NamesAny(ev, A, N \ O)
    BY <1>2 DEF NamesAny
  <2>2. Names(ev, "ip_no_longer_observed", O \ N)
    BY <1>2 DEF Names
  <2> HIDE DEF A, O, N
  <2>3. Applied(O, ev, A, "ip_no_longer_observed") = N
    BY <1>1, <2>1, <2>2, AppliedPart
  <2> QED
    BY <2>3 DEF A, O, N
<1>4. Applied(old.ports, ev, {"port_became_reachable"},
              "port_no_longer_reachable") = new.ports
  <2> DEFINE A == {"port_became_reachable"}
             O == old.ports
             N == new.ports
  <2>1. NamesAny(ev, A, N \ O)
    BY <1>2 DEF NamesAny
  <2>2. Names(ev, "port_no_longer_reachable", O \ N)
    BY <1>2 DEF Names
  <2> HIDE DEF A, O, N
  <2>3. Applied(O, ev, A, "port_no_longer_reachable") = N
    BY <1>1, <2>1, <2>2, AppliedPart
  <2> QED
    BY <2>3 DEF A, O, N
<1>5. Applied(old.conditions, ev, {"condition_appeared", "condition_reactivated"},
              "condition_resolved") = new.conditions
  <2> DEFINE A == {"condition_appeared", "condition_reactivated"}
             O == old.conditions
             N == new.conditions
  <2>1. NamesAny(ev, A, N \ O)
    BY <1>2 DEF NamesAny
  <2>2. Names(ev, "condition_resolved", O \ N)
    BY <1>2 DEF Names
  <2> HIDE DEF A, O, N
  <2>3. Applied(O, ev, A, "condition_resolved") = N
    BY <1>1, <2>1, <2>2, AppliedPart
  <2> QED
    BY <2>3 DEF A, O, N
<1>6. Applied(old.correlations, ev, {"correlation_appeared"},
              "correlation_resolved") = new.correlations
  <2> DEFINE A == {"correlation_appeared"}
             O == old.correlations
             N == new.correlations
  <2>1. NamesAny(ev, A, N \ O)
    BY <1>2 DEF NamesAny
  <2>2. Names(ev, "correlation_resolved", O \ N)
    BY <1>2 DEF Names
  <2> HIDE DEF A, O, N
  <2>3. Applied(O, ev, A, "correlation_resolved") = N
    BY <1>1, <2>1, <2>2, AppliedPart
  <2> QED
    BY <2>3 DEF A, O, N
<1> QED
  BY <1>3, <1>4, <1>5, <1>6 DEF Apply, View, ev

(* A view stays one, whatever drift is applied to it.                      *)
LEMMA AppliedTyped ==
  ASSUME NEW v \in Views, NEW old \in Content, NEW new \in Content, NEW R
  PROVE  Apply(v, DetectDrift(old, new, R)) \in Views
<1> DEFINE ev == DetectDrift(old, new, R)
<1>0. \A x :
         /\ <<"ip_observed", x>> \in ev <=> x \in new.ips \ old.ips
         /\ <<"ip_no_longer_observed", x>> \in ev <=> x \in old.ips \ new.ips
         /\ <<"port_became_reachable", x>> \in ev <=> x \in new.ports \ old.ports
         /\ <<"port_no_longer_reachable", x>> \in ev <=> x \in old.ports \ new.ports
         /\ <<"condition_appeared", x>> \in ev <=> x \in (new.conditions \ old.conditions) \ R
         /\ <<"condition_reactivated", x>> \in ev <=>
              x \in (new.conditions \ old.conditions) \cap R
         /\ <<"condition_resolved", x>> \in ev <=> x \in old.conditions \ new.conditions
         /\ <<"correlation_appeared", x>> \in ev <=> x \in new.correlations \ old.correlations
         /\ <<"correlation_resolved", x>> \in ev <=> x \in old.correlations \ new.correlations
  BY DriftParts, ZenonT(30)
<1>1. \A e \in ev : e = <<e[1], e[2]>>
  BY DriftPairs
<1> HIDE DEF ev
<1>2. \A x :
         /\ <<"ip_observed", x>> \in ev => x \in Addresses
         /\ <<"port_became_reachable", x>> \in ev => x \in Ports
         /\ <<"condition_appeared", x>> \in ev => x \in Keys
         /\ <<"condition_reactivated", x>> \in ev => x \in Keys
         /\ <<"correlation_appeared", x>> \in ev => x \in Correlations
  BY <1>0, ContentParts
<1>3. \A e \in ev : /\ e[1] = "ip_observed" => e[2] \in Addresses
                    /\ e[1] = "port_became_reachable" => e[2] \in Ports
                    /\ e[1] \in {"condition_appeared", "condition_reactivated"} => e[2] \in Keys
                    /\ e[1] = "correlation_appeared" => e[2] \in Correlations
  BY <1>1, <1>2
<1>4. /\ v.ips \in SUBSET Addresses /\ v.ports \in SUBSET Ports
      /\ v.conditions \in SUBSET Keys /\ v.correlations \in SUBSET Correlations
  BY DEF Views
<1>5. Applied(v.ips, ev, {"ip_observed"}, "ip_no_longer_observed") \in SUBSET Addresses
  BY <1>3, <1>4 DEF Applied
<1>6. Applied(v.ports, ev, {"port_became_reachable"}, "port_no_longer_reachable") \in SUBSET Ports
  BY <1>3, <1>4 DEF Applied
<1>7. Applied(v.conditions, ev, {"condition_appeared", "condition_reactivated"},
              "condition_resolved") \in SUBSET Keys
  BY <1>3, <1>4 DEF Applied
<1>8. Applied(v.correlations, ev, {"correlation_appeared"}, "correlation_resolved")
        \in SUBSET Correlations
  BY <1>3, <1>4 DEF Applied
<1> QED
  BY <1>5, <1>6, <1>7, <1>8 DEF Apply, Views, ev

LEMMA AppliedNothing ==
  ASSUME NEW v \in Views
  PROVE  Apply(v, {}) = v
BY DEF Apply, Applied, Views

(* The gate of _resolve_absent_conditions() means what it is for.          *)
LEMMA CoversMeansRechecked ==
  ASSUME NEW o, NEW k, Covers(o, k)
  PROVE  Rechecked(o, k)
<1>1. k[1] \in Rules /\ CoveringSteps(o, k[1]) # {}
  BY DEF Covers, CoveredRules
<1>2. CASE k[1] \in PortScopedRules
  BY <1>2 DEF Covers, AssetPort
<1>3. CASE k[1] \notin PortScopedRules
  <2>1. PICK i \in CoveringSteps(o, k[1]) : TRUE
    BY <1>1
  <2>2. RuleCoverage[k[1]] \cap ProtocolTypes = {}
    BY <1>1, <1>3 DEF Rules, RuleCoverage, ProtocolTypes, PortScopedRules
  <2> QED
    BY <2>1, <2>2 DEF CoveringSteps, StepProvidesCoverage, Rechecked
<1> QED
  BY <1>2, <1>3

-----------------------------------------------------------------------------
(* What the steps do to the job of one worker.                             *)

LEMMA NextSteps == Next <=> IngestElsewhere \/ \E w \in Workers : StepOf(w)
BY DEF Next

(* The other jobs are left alone; w is in phase f.                         *)
Now(w, f) ==
  /\ job' \in [Workers -> Job]
  /\ \A v \in Workers \ {w} : job'[v] = job[v]
  /\ job'[w].phase = f

SameRun(w) ==
  /\ job'[w].run = job[w].run
  /\ job'[w].steps = job[w].steps
  /\ job'[w].started = job[w].started

SameSnapshot(w) == job'[w].content = job[w].content /\ job'[w].captured = job[w].captured

SameWork(w) ==
  /\ job'[w].left = job[w].left
  /\ job'[w].stale = job[w].stale
  /\ job'[w].seen = job[w].seen

(* A job knows its steps, and its baseline was committed.                  *)
Based(w) ==
  /\ job[w].phase # "idle" => job[w].steps \in Outcomes
  /\ job[w].phase \in {"saving", "reporting"} => job[w].base \in Saved \cup {NoRun}

Typed == TypeOK /\ \A w \in Workers : Based(w)

LEMMA JobTyped ==
  ASSUME TypeOK, NEW w \in Workers
  PROVE  /\ job \in [Workers -> Job]
         /\ job[w].phase \in Phases /\ job[w].run \in Runs \cup {NoRun}
         /\ job[w].steps \in Outcomes \cup {<<>>} /\ job[w].started \in Nat
         /\ job[w].left \in SUBSET Keys /\ job[w].unread \in SUBSET RelatedAssets
         /\ job[w].stale \in SUBSET Keys /\ job[w].seen \in SUBSET Keys
         /\ job[w].content \in Content \cup {NoContent} /\ job[w].captured \in Nat
         /\ job[w].base \in Runs \cup {NoRun}
BY DEF TypeOK, Job

LEMMA JobReplaced ==
  ASSUME TypeOK, NEW w \in Workers, NEW new \in Job, job' = [job EXCEPT ![w] = new]
  PROVE  /\ job' \in [Workers -> Job] /\ job'[w] = new
         /\ \A v \in Workers \ {w} : job'[v] = job[v]
<1>1. job \in [Workers -> Job]
  BY JobTyped
<1> QED
  BY <1>1

LEMMA PhaseNames ==
  \A f \in {"idle", "running", "collecting", "built", "saving", "reporting"} : f \in Phases
BY DEF Phases

LEMMA IdleTyped == IdleJob \in Job
BY PhaseNames DEF IdleJob, Job

LEMMA EndEffect ==
  ASSUME TypeOK, NEW w \in Workers, job' = [job EXCEPT ![w] = IdleJob]
  PROVE  /\ Now(w, "idle")
         /\ job'[w].stale = {} /\ job'[w].seen = {}
<1>1. job'[w] = IdleJob /\ job' \in [Workers -> Job]
  BY IdleTyped, JobTyped
<1> QED
  BY <1>1, JobTyped DEF Now, IdleJob

LEMMA StartEffect ==
  ASSUME TypeOK, NEW w \in Workers, Start(w)
  PROVE  /\ Now(w, "running")
         /\ job'[w].run = runs + 1 /\ job'[w].started = clock
         /\ job'[w].steps \in Outcomes
         /\ job'[w].left = Observed(job'[w].steps)
         /\ job'[w].stale = {} /\ job'[w].seen = {}
<1>1. PICK o \in Outcomes :
        job' = [job EXCEPT ![w] = [IdleJob EXCEPT !.phase = "running", !.run = runs + 1,
                                     !.steps = o, !.started = clock, !.left = Observed(o),
                                     !.unread = RelatedAssets]]
  BY DEF Start
<1> DEFINE j == [IdleJob EXCEPT !.phase = "running", !.run = runs + 1, !.steps = o,
                                !.started = clock, !.left = Observed(o),
                                !.unread = RelatedAssets]
<1>2. Observed(o) \in SUBSET Keys /\ runs + 1 \in Runs /\ clock \in Nat
  BY MaxRunsAssumption DEF Keys, Start, TypeOK, Runs, NoRun
<1>3. /\ j \in Job
      /\ j.phase = "running" /\ j.run = runs + 1 /\ j.steps = o /\ j.started = clock
      /\ j.left = Observed(o) /\ j.stale = {} /\ j.seen = {}
  BY <1>2, PhaseNames DEF IdleJob, Job
<1> HIDE DEF j
<1>4. job'[w] = j /\ job' \in [Workers -> Job] /\ \A v \in Workers \ {w} : job'[v] = job[v]
  BY <1>1, <1>3, JobTyped DEF j
<1> QED
  BY <1>3, <1>4 DEF Now

LEMMA IngestEffect ==
  ASSUME TypeOK, NEW w \in Workers, Ingest(w)
  PROVE  /\ job[w].phase = "running" /\ Now(w, "running") /\ SameRun(w)
         /\ job'[w].stale = job[w].stale /\ job'[w].seen = job[w].seen
         /\ \E k \in job[w].left :
              /\ job'[w].left = job[w].left \ {k}
              /\ conditions' = [conditions EXCEPT ![k] = Upsert(@, clock)]
<1>1. PICK k \in job[w].left :
        /\ conditions' = [conditions EXCEPT ![k] = Upsert(@, clock)]
        /\ job' = [job EXCEPT ![w].left = @ \ {k}]
  BY DEF Ingest
<1> DEFINE new == [job[w] EXCEPT !.left = @ \ {k}]
<1>a. job[w] \in Job
  BY JobTyped
<1>2. /\ new \in Job /\ new.left = job[w].left \ {k} /\ new.phase = job[w].phase
      /\ new.run = job[w].run /\ new.steps = job[w].steps /\ new.started = job[w].started
      /\ new.stale = job[w].stale /\ new.seen = job[w].seen
  BY <1>a DEF Job
<1>b. job' = [job EXCEPT ![w] = new]
  BY <1>1
<1> HIDE DEF new
<1>3. /\ job' \in [Workers -> Job] /\ \A v \in Workers \ {w} : job'[v] = job[v]
      /\ job'[w].left = job[w].left \ {k}
      /\ SameRun(w) /\ job'[w].phase = job[w].phase
      /\ job'[w].stale = job[w].stale /\ job'[w].seen = job[w].seen
  BY <1>2, <1>b, JobReplaced DEF SameRun
<1> QED
  BY <1>1, <1>3 DEF Ingest, Now

LEMMA ReadBeforeEffect ==
  ASSUME TypeOK, NEW w \in Workers, ReadBefore(w)
  PROVE  /\ job[w].phase = "running" /\ job[w].left = {} /\ Now(w, "running") /\ SameRun(w)
         /\ job'[w].left = job[w].left /\ job'[w].seen = job[w].seen
         /\ \E a \in RelatedAssets : job'[w].stale = job[w].stale \cup StaleOn(job[w], a)
<1>1. PICK a \in job[w].unread :
        job' = [job EXCEPT ![w].stale = @ \cup StaleOn(job[w], a), ![w].unread = @ \ {a}]
  BY DEF ReadBefore
<1>2. /\ job \in [Workers -> Job] /\ job[w].stale \cup StaleOn(job[w], a) \in SUBSET Keys
      /\ job[w].unread \ {a} \in SUBSET RelatedAssets
  BY JobTyped DEF StaleOn, ActiveOn
<1>3. /\ job' \in [Workers -> Job] /\ \A v \in Workers \ {w} : job'[v] = job[v]
      /\ job'[w].stale = job[w].stale \cup StaleOn(job[w], a)
      /\ SameRun(w) /\ job'[w].phase = job[w].phase
      /\ job'[w].left = job[w].left /\ job'[w].seen = job[w].seen
  BY <1>1, <1>2 DEF Job, SameRun
<1>4. a \in RelatedAssets
  BY JobTyped
<1> QED
  BY <1>3, <1>4 DEF ReadBefore, Now

LEMMA ResolveEffect ==
  ASSUME TypeOK, NEW w \in Workers, Resolve(w)
  PROVE  /\ Resolving(w) /\ Now(w, "running") /\ SameRun(w)
         /\ job'[w].left = job[w].left /\ job'[w].seen = job[w].seen
         /\ \E k \in job[w].stale :
              /\ job'[w].stale = job[w].stale \ {k}
              /\ conditions' = IF conditions[k].lifecycle = "active"
                               THEN [conditions EXCEPT ![k].lifecycle = "resolved"]
                               ELSE conditions
<1>1. PICK k \in job[w].stale :
        /\ conditions' = IF conditions[k].lifecycle = "active"
                         THEN [conditions EXCEPT ![k].lifecycle = "resolved"]
                         ELSE conditions
        /\ job' = [job EXCEPT ![w].stale = @ \ {k}]
  BY DEF Resolve
<1> DEFINE new == [job[w] EXCEPT !.stale = @ \ {k}]
<1>a. job[w] \in Job
  BY JobTyped
<1>2. /\ new \in Job /\ new.stale = job[w].stale \ {k} /\ new.phase = job[w].phase
      /\ new.run = job[w].run /\ new.steps = job[w].steps /\ new.started = job[w].started
      /\ new.left = job[w].left /\ new.seen = job[w].seen
  BY <1>a DEF Job
<1>b. job' = [job EXCEPT ![w] = new]
  BY <1>1
<1> HIDE DEF new
<1>3. /\ job' \in [Workers -> Job] /\ \A v \in Workers \ {w} : job'[v] = job[v]
      /\ job'[w].stale = job[w].stale \ {k}
      /\ SameRun(w) /\ job'[w].phase = job[w].phase
      /\ job'[w].left = job[w].left /\ job'[w].seen = job[w].seen
  BY <1>2, <1>b, JobReplaced DEF SameRun
<1> QED
  BY <1>1, <1>3 DEF Resolve, Resolving, Now

LEMMA ResolvedEffect ==
  ASSUME TypeOK, NEW w \in Workers, Resolved(w)
  PROVE  /\ job[w].phase = "running" /\ Now(w, "collecting") /\ SameRun(w) /\ SameWork(w)
<1>1. job' = [job EXCEPT ![w].phase = "collecting", ![w].unread = RelatedAssets]
  BY DEF Resolved
<1> DEFINE new == [job[w] EXCEPT !.phase = "collecting", !.unread = RelatedAssets]
<1>a. job[w] \in Job /\ "collecting" \in Phases
  BY JobTyped, PhaseNames
<1>2. /\ new \in Job /\ new.phase = "collecting"
      /\ new.run = job[w].run /\ new.steps = job[w].steps /\ new.started = job[w].started
      /\ new.left = job[w].left /\ new.stale = job[w].stale /\ new.seen = job[w].seen
  BY <1>a DEF Job
<1>b. job' = [job EXCEPT ![w] = new]
  BY <1>1
<1> HIDE DEF new
<1>3. /\ job' \in [Workers -> Job] /\ \A v \in Workers \ {w} : job'[v] = job[v]
      /\ job'[w].phase = "collecting" /\ SameRun(w) /\ SameWork(w)
  BY <1>2, <1>b, JobReplaced DEF SameRun, SameWork
<1> QED
  BY <1>3 DEF Resolved, Resolving, Now

LEMMA ReadAfterEffect ==
  ASSUME TypeOK, NEW w \in Workers, ReadAfter(w)
  PROVE  /\ job[w].phase = "collecting" /\ Now(w, "collecting") /\ SameRun(w)
         /\ job'[w].stale = job[w].stale
         /\ \E a \in RelatedAssets : job'[w].seen = job[w].seen \cup ActiveOn(a)
<1>1. PICK a \in job[w].unread :
        job' = [job EXCEPT ![w].seen = @ \cup ActiveOn(a), ![w].unread = @ \ {a}]
  BY DEF ReadAfter
<1>2. /\ job \in [Workers -> Job] /\ job[w].seen \cup ActiveOn(a) \in SUBSET Keys
      /\ job[w].unread \ {a} \in SUBSET RelatedAssets
  BY JobTyped DEF ActiveOn
<1>3. /\ job' \in [Workers -> Job] /\ \A v \in Workers \ {w} : job'[v] = job[v]
      /\ job'[w].seen = job[w].seen \cup ActiveOn(a)
      /\ SameRun(w) /\ job'[w].phase = job[w].phase /\ job'[w].stale = job[w].stale
  BY <1>1, <1>2 DEF Job, SameRun
<1>4. a \in RelatedAssets
  BY JobTyped
<1> QED
  BY <1>3, <1>4 DEF ReadAfter, Now

LEMMA BuildEffect ==
  ASSUME Typed, NEW w \in Workers, Build(w)
  PROVE  /\ job[w].phase = "collecting" /\ Now(w, "built") /\ SameRun(w)
         /\ job'[w].stale = job[w].stale /\ job'[w].seen = {}
         /\ job'[w].captured = clock /\ job'[w].content \in Content
         /\ job'[w].content.conditions = job[w].seen
<1>1. PICK c \in SUBSET Correlations :
        job' = [job EXCEPT ![w].phase = "built", ![w].seen = {}, ![w].captured = clock,
                           ![w].content = BuildSnapshot(job[w].steps, job[w].seen, c)]
  BY DEF Build
<1> DEFINE new == BuildSnapshot(job[w].steps, job[w].seen, c)
<1>2. /\ job \in [Workers -> Job] /\ "built" \in Phases /\ clock \in Nat
      /\ new \in Content /\ new.conditions = job[w].seen
  <2>1. job[w].phase = "collecting" /\ job[w].steps \in Outcomes /\ job[w].seen \in SUBSET Keys
    BY JobTyped DEF Build, Typed, Based
  <2>2. new \in Content
    BY <2>1, SnapshotTyped
  <2>3. new.conditions = job[w].seen
    BY DEF BuildSnapshot
  <2> QED
    BY <2>2, <2>3, JobTyped, PhaseNames DEF Typed, TypeOK
<1> DEFINE j == [job[w] EXCEPT !.phase = "built", !.seen = {}, !.captured = clock, !.content = new]
<1>3. job' = [job EXCEPT ![w] = j] /\ job[w] \in Job
  BY <1>1, <1>2
<1> HIDE DEF new
<1>4. /\ j \in Job
      /\ j.phase = "built" /\ j.seen = {} /\ j.captured = clock /\ j.content = new
      /\ j.run = job[w].run /\ j.steps = job[w].steps /\ j.started = job[w].started
      /\ j.stale = job[w].stale
  BY <1>2, <1>3 DEF Job
<1> HIDE DEF j
<1>5. job' \in [Workers -> Job] /\ job'[w] = j /\ \A v \in Workers \ {w} : job'[v] = job[v]
  BY <1>2, <1>3, <1>4
<1> QED
  BY <1>2, <1>4, <1>5 DEF Build, Now, SameRun

LEMMA ReadLatestEffect ==
  ASSUME TypeOK, NEW w \in Workers, ReadLatest(w)
  PROVE  /\ job[w].phase = "built" /\ Now(w, "saving")
         /\ SameRun(w) /\ SameSnapshot(w) /\ SameWork(w)
         /\ job'[w].base \in IF Saved = {} THEN {NoRun} ELSE Latest
<1>1. PICK r \in IF Saved = {} THEN {NoRun} ELSE Latest :
        job' = [job EXCEPT ![w].base = r, ![w].phase = "saving"]
  BY DEF ReadLatest
<1> DEFINE new == [job[w] EXCEPT !.base = r, !.phase = "saving"]
<1>a. job[w] \in Job /\ "saving" \in Phases /\ r \in Runs \cup {NoRun}
  BY JobTyped, PhaseNames DEF Latest, Saved
<1>2. /\ new \in Job /\ new.phase = "saving" /\ new.base = r
      /\ new.run = job[w].run /\ new.steps = job[w].steps /\ new.started = job[w].started
      /\ new.left = job[w].left /\ new.stale = job[w].stale /\ new.seen = job[w].seen
      /\ new.content = job[w].content /\ new.captured = job[w].captured
  BY <1>a DEF Job
<1>b. job' = [job EXCEPT ![w] = new]
  BY <1>1
<1> HIDE DEF new
<1>3. /\ job' \in [Workers -> Job] /\ \A v \in Workers \ {w} : job'[v] = job[v]
      /\ job'[w].phase = "saving" /\ job'[w].base = r
      /\ SameRun(w) /\ SameSnapshot(w) /\ SameWork(w)
  BY <1>2, <1>b, JobReplaced DEF SameRun, SameSnapshot, SameWork
<1> QED
  BY <1>3 DEF ReadLatest, Now

LEMMA SaveEffect ==
  ASSUME TypeOK, NEW w \in Workers, Save(w)
  PROVE  /\ job[w].phase = "saving" /\ Now(w, "reporting")
         /\ SameRun(w) /\ SameSnapshot(w) /\ SameWork(w) /\ job'[w].base = job[w].base
<1>1. job' = [job EXCEPT ![w].phase = "reporting"] /\ job[w].phase = "saving"
  BY DEF Save
<1>2. job \in [Workers -> Job] /\ "reporting" \in Phases
  BY JobTyped, PhaseNames
<1>3. /\ job' \in [Workers -> Job] /\ \A v \in Workers \ {w} : job'[v] = job[v]
      /\ job'[w].phase = "reporting" /\ job'[w].base = job[w].base
      /\ SameRun(w) /\ SameSnapshot(w) /\ SameWork(w)
  BY <1>1, <1>2 DEF Job, SameRun, SameSnapshot, SameWork
<1> QED
  BY <1>1, <1>3 DEF Now

LEMMA SavedTyped ==
  ASSUME TypeOK, NEW r \in Saved
  PROVE  /\ r \in Runs /\ snapshots[r] \in Snapshot
         /\ snapshots[r].content \in Content /\ snapshots[r].captured \in Nat
<1>1. r \in Runs /\ snapshots[r] \in Snapshot
  BY DEF TypeOK, Saved
<1> QED
  BY <1>1 DEF Snapshot

(* A save adds one snapshot.                                               *)
LEMMA SaveAdds ==
  ASSUME Typed, NEW w \in Workers, Save(w)
  PROVE  /\ job[w].run \in Runs /\ job[w].content \in Content /\ job[w].captured \in Nat
         /\ snapshots' \in [Runs -> Snapshot \cup {NoSnapshot}]
         /\ snapshots'[job[w].run] =
              [content |-> job[w].content, captured |-> job[w].captured]
         /\ snapshots'[job[w].run].content = job[w].content
         /\ snapshots'[job[w].run].captured = job[w].captured
         /\ \A r \in Runs \ {job[w].run} : snapshots'[r] = snapshots[r]
         /\ Saved' = Saved \cup {job[w].run}
<1> DEFINE s == [content |-> job[w].content, captured |-> job[w].captured]
<1>1. /\ job[w].run \in Runs /\ job[w].content \in Content /\ job[w].captured \in Nat
      /\ snapshots \in [Runs -> Snapshot \cup {NoSnapshot}]
  BY JobTyped, MaxRunsAssumption DEF Typed, TypeOK, Save, Runs, NoRun
<1>2. /\ s \in Snapshot /\ s.content = job[w].content /\ s.captured = job[w].captured
  BY <1>1 DEF Snapshot
<1>3. s # NoSnapshot
  BY <1>1, <1>2, NoContentIsNone DEF NoSnapshot
<1>4. snapshots' = [snapshots EXCEPT ![job[w].run] = s]
  BY DEF Save
<1> HIDE DEF s
<1>5. /\ snapshots' \in [Runs -> Snapshot \cup {NoSnapshot}]
      /\ snapshots'[job[w].run] = s
      /\ \A r \in Runs \ {job[w].run} : snapshots'[r] = snapshots[r]
  BY <1>1, <1>2, <1>4
<1>6. Saved' = Saved \cup {job[w].run}
  BY <1>1, <1>3, <1>5 DEF Saved
<1> QED
  BY <1>1, <1>2, <1>5, <1>6 DEF s

LEMMA EventsTyped ==
  ASSUME Typed, NEW w \in Workers, job[w].phase = "reporting"
  PROVE  /\ \A e \in Events(job[w].base, job[w].content) : e[1] \in Categories
         /\ Apply(believed, Events(job[w].base, job[w].content)) \in Views
<1>1. believed \in Views /\ job[w].content \in Content /\ job[w].base \in Saved \cup {NoRun}
  BY DEF Typed, TypeOK, Based
<1>2. CASE job[w].base = NoRun
  <2>1. Events(job[w].base, job[w].content) = {}
    BY <1>2 DEF Events
  <2> QED
    BY <1>1, <2>1, AppliedNothing
<1>3. CASE job[w].base # NoRun
  <2>1. snapshots[job[w].base].content \in Content
    BY <1>1, <1>3, SavedTyped DEF Typed
  <2>2. Events(job[w].base, job[w].content) =
          DetectDrift(snapshots[job[w].base].content, job[w].content,
                      Reactivated(job[w].base, job[w].content))
    BY <1>3 DEF Events
  <2> QED
    BY <1>1, <2>1, <2>2, DriftPairs, AppliedTyped
<1> QED
  BY <1>2, <1>3

(* Conditions are typed, and a condition once seen keeps its first         *)
(* observation.                                                            *)
Kept(k) ==
  conditions[k].lifecycle # "absent" =>
    conditions'[k].lifecycle # "absent" /\ conditions'[k].first = conditions[k].first

LEMMA ConditionEffect ==
  ASSUME Typed, NEW w \in Workers, Ingest(w) \/ Resolve(w)
  PROVE  /\ conditions' \in [Keys -> Condition]
         /\ \A k \in Keys : Kept(k) /\ conditions'[k].last \in {conditions[k].last, clock}
<1>t. conditions \in [Keys -> Condition] /\ clock \in Nat
  BY DEF Typed, TypeOK
<1>1. CASE Ingest(w)
  <2>1. PICK k \in job[w].left : conditions' = [conditions EXCEPT ![k] = Upsert(@, clock)]
    BY <1>1, IngestEffect DEF Typed
  <2>2. k \in Keys
    BY JobTyped DEF Typed
  <2> QED
    BY <1>t, <2>1, <2>2 DEF Upsert, Condition, Kept
<1>2. CASE Resolve(w)
  <2>1. PICK k \in job[w].stale :
          conditions' = IF conditions[k].lifecycle = "active"
                        THEN [conditions EXCEPT ![k].lifecycle = "resolved"]
                        ELSE conditions
    BY <1>2, ResolveEffect DEF Typed
  <2>2. k \in Keys
    BY JobTyped DEF Typed
  <2> QED
    BY <1>t, <2>1, <2>2 DEF Condition, Kept
<1> QED
  BY <1>1, <1>2

LEMMA ElsewhereEffect ==
  ASSUME Typed, IngestElsewhere
  PROVE  /\ UNCHANGED <<runs, snapshots, drift, job, believed, disturbed>>
         /\ clock' = clock + 1 /\ foreign' \in 0..MaxForeign
         /\ conditions' \in [Keys -> Condition]
         /\ \E k \in Keys : conditions' = [conditions EXCEPT ![k] = Upsert(@, clock)]
         /\ \A k \in Keys : Kept(k) /\ conditions'[k].last \in {conditions[k].last, clock}
<1>t. conditions \in [Keys -> Condition] /\ clock \in Nat /\ foreign \in 0..MaxForeign
  BY DEF Typed, TypeOK
<1>1. PICK k \in Foreign : conditions' = [conditions EXCEPT ![k] = Upsert(@, clock)]
  BY DEF IngestElsewhere
<1>2. k \in Keys
  BY DEF Keys
<1>3. foreign' \in 0..MaxForeign
  BY <1>t, MaxForeignAssumption DEF IngestElsewhere
<1>4. /\ conditions' \in [Keys -> Condition]
      /\ \A x \in Keys : Kept(x) /\ conditions'[x].last \in {conditions[x].last, clock}
  BY <1>t, <1>1, <1>2 DEF Upsert, Condition, Kept
<1> QED
  BY <1>1, <1>2, <1>3, <1>4 DEF IngestElsewhere

-----------------------------------------------------------------------------
(* Types.                                                                  *)

LEMMA TypedByEffect ==
  ASSUME Typed, NEW w \in Workers, NEW f, Now(w, f),
         clock' \in Nat, runs' \in {NoRun} \cup Runs, runs' >= runs, foreign' = foreign,
         conditions' \in [Keys -> Condition],
         snapshots' \in [Runs -> Snapshot \cup {NoSnapshot}], Saved \subseteq Saved',
         \A e \in drift' : e[1] \in Runs /\ e[2] \in Categories,
         believed' \in Views, disturbed' \in BOOLEAN,
         f # "idle" => job'[w].run \in 1..runs' /\ job'[w].steps \in Outcomes,
         f \in {"built", "saving", "reporting"} => job'[w].content \in Content,
         f \in {"saving", "reporting"} => job'[w].base \in Saved \cup {NoRun}
  PROVE  Typed'
<1>1. runs \in Nat /\ runs' \in Nat
  BY MaxRunsAssumption DEF Typed, TypeOK, Runs, NoRun
<1>2. ASSUME NEW v \in Workers
      PROVE  /\ job'[v].phase # "idle" => job'[v].run \in 1..runs'
             /\ job'[v].phase \in {"built", "saving", "reporting"} => job'[v].content \in Content
             /\ Based(v)'
  <2>1. CASE v = w
    BY <2>1 DEF Now, Based
  <2>2. CASE v # w
    <3>1. job'[v] = job[v]
      BY <2>2 DEF Now
    <3>2. /\ job[v].phase # "idle" => job[v].run \in 1..runs
          /\ job[v].phase \in {"built", "saving", "reporting"} => job[v].content \in Content
          /\ Based(v)
      BY DEF Typed, TypeOK
    <3> QED
      BY <1>1, <3>1, <3>2 DEF Based
  <2> QED
    BY <2>1, <2>2
<1> QED
  BY <1>2 DEF Typed, TypeOK, Now

LEMMA TypedInit == Init => Typed
<1> SUFFICES ASSUME Init PROVE Typed
  OBVIOUS
<1>1. job \in [Workers -> Job] /\ \A w \in Workers : job[w].phase = "idle"
  BY IdleTyped DEF Init, IdleJob
<1>2. conditions \in [Keys -> Condition] /\ believed \in Views
  BY DEF Init, Condition, Views
<1>3. foreign \in 0..MaxForeign
  BY MaxForeignAssumption DEF Init
<1> QED
  BY <1>1, <1>2, <1>3 DEF Init, Typed, TypeOK, Based

LEMMA TypedStep == Typed /\ [Next]_vars => Typed'
<1> SUFFICES ASSUME Typed, [Next]_vars PROVE Typed'
  OBVIOUS
<1>1. CASE UNCHANGED vars
  BY <1>1 DEF vars, Typed, TypeOK, Based, Saved
<1>2. ASSUME NEW w \in Workers, StepOf(w) PROVE Typed'
  <2>t. /\ TypeOK /\ clock \in Nat /\ runs \in {NoRun} \cup Runs /\ runs >= runs
        /\ conditions \in [Keys -> Condition]
        /\ snapshots \in [Runs -> Snapshot \cup {NoSnapshot}]
        /\ \A e \in drift : e[1] \in Runs /\ e[2] \in Categories
        /\ believed \in Views /\ disturbed \in BOOLEAN
        /\ job[w].phase # "idle" => job[w].run \in 1..runs /\ job[w].steps \in Outcomes
        /\ job[w].phase \in {"built", "saving", "reporting"} => job[w].content \in Content
        /\ job[w].phase \in {"saving", "reporting"} => job[w].base \in Saved \cup {NoRun}
    BY MaxRunsAssumption DEF Typed, TypeOK, Based, Runs, NoRun
  <2>s. snapshots' = snapshots => Saved' = Saved
    BY DEF Saved
  <2>1. CASE Start(w)
    <3>1. /\ runs' \in {NoRun} \cup Runs /\ runs' >= runs /\ runs + 1 \in 1..runs' /\ clock' \in Nat
      BY <2>1, <2>t, MaxRunsAssumption DEF Start, Runs, NoRun
    <3>2. UNCHANGED <<foreign, conditions, snapshots, drift, believed, disturbed>>
      BY <2>1 DEF Start
    <3> QED
      BY <2>1, <2>t, <2>s, <3>1, <3>2, StartEffect, TypedByEffect
  <2>2. CASE Ingest(w)
    <3>1. clock' \in Nat /\ UNCHANGED <<runs, foreign, snapshots, drift, believed, disturbed>>
      BY <2>2, <2>t DEF Ingest
    <3>2. conditions' \in [Keys -> Condition]
      BY <2>2, ConditionEffect
    <3>3. job[w].phase = "running" /\ Now(w, "running") /\ SameRun(w)
      BY <2>2, <2>t, IngestEffect
    <3> QED
      BY <2>t, <2>s, <3>1, <3>2, <3>3, TypedByEffect DEF SameRun
  <2>3. CASE ReadBefore(w)
    <3>1. UNCHANGED <<clock, runs, foreign, conditions, snapshots, drift, believed, disturbed>>
      BY <2>3 DEF ReadBefore
    <3>2. job[w].phase = "running" /\ Now(w, "running") /\ SameRun(w)
      BY <2>3, <2>t, ReadBeforeEffect
    <3> QED
      BY <2>t, <2>s, <3>1, <3>2, TypedByEffect DEF SameRun
  <2>4. CASE Resolve(w)
    <3>1. UNCHANGED <<clock, runs, foreign, snapshots, drift, believed, disturbed>>
      BY <2>4 DEF Resolve
    <3>2. conditions' \in [Keys -> Condition]
      BY <2>4, ConditionEffect
    <3>3. job[w].phase = "running" /\ Now(w, "running") /\ SameRun(w)
      BY <2>4, <2>t, ResolveEffect DEF Resolving
    <3> QED
      BY <2>t, <2>s, <3>1, <3>2, <3>3, TypedByEffect DEF SameRun
  <2>5. CASE Resolved(w)
    <3>1. UNCHANGED <<clock, runs, foreign, conditions, snapshots, drift, believed, disturbed>>
      BY <2>5 DEF Resolved
    <3>2. job[w].phase = "running" /\ Now(w, "collecting") /\ SameRun(w)
      BY <2>5, <2>t, ResolvedEffect
    <3> QED
      BY <2>t, <2>s, <3>1, <3>2, TypedByEffect DEF SameRun
  <2>6. CASE ReadAfter(w)
    <3>1. UNCHANGED <<clock, runs, foreign, conditions, snapshots, drift, believed, disturbed>>
      BY <2>6 DEF ReadAfter
    <3>2. job[w].phase = "collecting" /\ Now(w, "collecting") /\ SameRun(w)
      BY <2>6, <2>t, ReadAfterEffect
    <3> QED
      BY <2>t, <2>s, <3>1, <3>2, TypedByEffect DEF SameRun
  <2>7. CASE Build(w)
    <3>1. clock' \in Nat /\ disturbed' \in BOOLEAN
          /\ UNCHANGED <<runs, foreign, conditions, snapshots, drift, believed>>
      BY <2>7, <2>t DEF Build
    <3>2. /\ job[w].phase = "collecting" /\ Now(w, "built") /\ SameRun(w)
          /\ job'[w].content \in Content
      BY <2>7, BuildEffect
    <3> QED
      BY <2>t, <2>s, <3>1, <3>2, TypedByEffect DEF SameRun
  <2>8. CASE ReadLatest(w)
    <3>1. UNCHANGED <<clock, runs, foreign, conditions, snapshots, drift, believed, disturbed>>
      BY <2>8 DEF ReadLatest
    <3>2. /\ job[w].phase = "built" /\ Now(w, "saving") /\ SameRun(w)
          /\ job'[w].content = job[w].content /\ job'[w].base \in Saved \cup {NoRun}
      BY <2>8, <2>t, ReadLatestEffect DEF SameSnapshot, Latest
    <3> QED
      BY <2>t, <2>s, <3>1, <3>2, TypedByEffect DEF SameRun
  <2>9. CASE Save(w)
    <3>1. UNCHANGED <<clock, runs, foreign, conditions, drift, disturbed>>
      BY <2>9 DEF Save
    <3>2. /\ job[w].phase = "saving" /\ Now(w, "reporting") /\ SameRun(w)
          /\ job'[w].content = job[w].content /\ job'[w].base = job[w].base
      BY <2>9, <2>t, SaveEffect DEF SameSnapshot
    <3>3. snapshots' \in [Runs -> Snapshot \cup {NoSnapshot}] /\ Saved \subseteq Saved'
      BY <2>9, SaveAdds
    <3>4. believed' \in Views
      BY <2>9, <2>t, <3>2, ContentParts DEF Save
    <3> QED
      BY <2>t, <3>1, <3>2, <3>3, <3>4, TypedByEffect DEF SameRun
  <2>10. CASE Report(w)
    <3>1. /\ UNCHANGED <<clock, runs, foreign, conditions, snapshots, disturbed>>
          /\ job[w].phase = "reporting" /\ Now(w, "idle")
      BY <2>10, <2>t, EndEffect DEF Report
    <3>2. /\ drift' = drift \cup {<<job[w].run, e[1], e[2]>> :
                                    e \in Events(job[w].base, job[w].content)}
          /\ believed' = Apply(believed, Events(job[w].base, job[w].content))
      BY <2>10 DEF Report
    <3>3. job[w].run \in Runs
      BY <2>t, <3>1, MaxRunsAssumption DEF Runs, NoRun
    <3>4. believed' \in Views /\ \A e \in drift' : e[1] \in Runs /\ e[2] \in Categories
      BY <2>t, <3>1, <3>2, <3>3, EventsTyped
    <3> QED
      BY <2>t, <2>s, <3>1, <3>4, TypedByEffect
  <2>11. CASE Abandon(w)
    <3>1. /\ UNCHANGED <<clock, runs, foreign, conditions, snapshots, drift, believed>>
          /\ disturbed' \in BOOLEAN /\ Now(w, "idle")
      BY <2>11, <2>t, EndEffect DEF Abandon
    <3> QED
      BY <2>t, <2>s, <3>1, TypedByEffect
  <2> QED
    BY <1>2, <2>1, <2>2, <2>3, <2>4, <2>5, <2>6, <2>7, <2>8, <2>9, <2>10, <2>11 DEF StepOf
<1>3. CASE IngestElsewhere
  <2>1. /\ UNCHANGED <<runs, snapshots, drift, job, believed, disturbed>>
        /\ clock' \in Nat /\ foreign' \in 0..MaxForeign /\ conditions' \in [Keys -> Condition]
    BY <1>3, ElsewhereEffect DEF Typed, TypeOK
  <2> QED
    BY <2>1 DEF Typed, TypeOK, Based, Saved
<1> QED
  BY <1>1, <1>2, <1>3, NextSteps

LEMMA TypedHolds == Spec => []Typed
BY TypedInit, TypedStep, PTL DEF Spec

(* Every reachable state is well typed; a job knows the run it is for, and *)
(* its snapshot is built from the step list of that run (_reconcile()).    *)
THEOREM ReconciliationWellTyped == Spec => []TypeOK
<1>1. Typed => TypeOK
  BY DEF Typed
<1> QED
  BY <1>1, TypedHolds, PTL

-----------------------------------------------------------------------------
(* No false resolution.                                                    *)

(* What a job observed and has ingested is fresh; what it will resolve it  *)
(* re-checked and did not observe.                                         *)
Rechecks(w) ==
  /\ job[w].phase # "idle" => job[w].started < clock
  /\ job[w].phase = "running" =>
       \A k \in Observed(job[w].steps) \ job[w].left : conditions[k].last >= job[w].started
  /\ \A k \in job[w].stale : Covers(job[w].steps, k) /\ k \notin Observed(job[w].steps)

AllRecheck == \A w \in Workers : Rechecks(w)

(* Time goes on, and conditions are only observed again.                   *)
TimeGoesOn ==
  /\ clock' \in {clock, clock + 1}
  /\ \A k \in Keys : conditions'[k].last \in {conditions[k].last, clock}

LEMMA ObservedKeys == ASSUME NEW o \in Outcomes PROVE Observed(o) \in SUBSET Keys
BY DEF Keys

LEMMA RechecksKept ==
  ASSUME Typed, NEW v \in Workers, Rechecks(v), TimeGoesOn,
         SameRun(v), job'[v].left = job[v].left,
         \A k \in job'[v].stale : Covers(job[v].steps, k) /\ k \notin Observed(job[v].steps),
         job'[v].phase # "idle" => job[v].phase # "idle",
         job'[v].phase = "running" => job[v].phase = "running"
  PROVE  Rechecks(v)'
<1>1. clock \in Nat /\ clock' \in Nat /\ clock <= clock' /\ job[v].started \in Nat
  BY JobTyped DEF Typed, TypeOK, TimeGoesOn
<1>2. ASSUME job[v].phase = "running", NEW k \in Observed(job[v].steps) \ job[v].left
      PROVE  conditions'[k].last >= job[v].started
  <2>1. k \in Keys
    BY <1>2, ObservedKeys DEF Typed, Based
  <2>2. conditions[k].last \in Nat
    BY <2>1 DEF Typed, TypeOK, Condition
  <2>3. conditions[k].last >= job[v].started /\ job[v].started < clock
    BY <1>2 DEF Rechecks
  <2>4. conditions'[k].last \in {conditions[k].last, clock}
    BY <2>1 DEF TimeGoesOn
  <2> QED
    BY <1>1, <2>2, <2>3, <2>4
<1>3. job'[v].phase # "idle" => job'[v].started < clock'
  BY <1>1 DEF Rechecks, SameRun
<1>4. job'[v].phase = "running" =>
        \A k \in Observed(job'[v].steps) \ job'[v].left : conditions'[k].last >= job'[v].started
  BY <1>2 DEF SameRun
<1>5. \A k \in job'[v].stale : Covers(job'[v].steps, k) /\ k \notin Observed(job'[v].steps)
  BY DEF SameRun
<1> QED
  BY <1>3, <1>4, <1>5 DEF Rechecks

LEMMA RechecksOther ==
  ASSUME Typed, NEW v \in Workers, Rechecks(v), TimeGoesOn, job'[v] = job[v]
  PROVE  Rechecks(v)'
BY RechecksKept DEF SameRun, Rechecks

LEMMA RechecksEnded ==
  ASSUME NEW w \in Workers, Now(w, "idle"), job'[w].stale = {}
  PROVE  Rechecks(w)'
BY DEF Rechecks, Now

LEMMA StaleIsSound ==
  ASSUME Typed, NEW w \in Workers, Rechecks(w), job[w].phase = "running", job[w].left = {}, NEW a,
         NEW k \in StaleOn(job[w], a)
  PROVE  Covers(job[w].steps, k) /\ k \notin Observed(job[w].steps)
<1>1. k \in Keys /\ Covers(job[w].steps, k) /\ conditions[k].last < job[w].started
  BY DEF StaleOn, ActiveOn
<1>2. conditions[k].last \in Nat /\ job[w].started \in Nat
  BY <1>1, JobTyped DEF Typed, TypeOK, Condition
<1>3. k \in Observed(job[w].steps) => conditions[k].last >= job[w].started
  BY DEF Rechecks
<1> QED
  BY <1>1, <1>2, <1>3

LEMMA RecheckStep == Typed /\ AllRecheck /\ [Next]_vars => AllRecheck'
<1> SUFFICES ASSUME Typed, AllRecheck, [Next]_vars, NEW v \in Workers PROVE Rechecks(v)'
  BY DEF AllRecheck
<1>t. Rechecks(v) /\ TypeOK /\ clock \in Nat
  BY DEF AllRecheck, Typed, TypeOK
<1>a. clock' \in {clock, clock + 1} /\ conditions' = conditions => TimeGoesOn
  BY DEF TimeGoesOn
<1>1. CASE UNCHANGED vars
  BY <1>1, <1>t, <1>a, RechecksOther DEF vars
<1>2. ASSUME NEW w \in Workers, StepOf(w) PROVE Rechecks(v)'
  <2>w. Rechecks(w)
    BY DEF AllRecheck
  <2>1. TimeGoesOn
    <3>1. CASE Ingest(w) \/ Resolve(w)
      BY <3>1, ConditionEffect DEF TimeGoesOn, Ingest, Resolve
    <3>2. CASE Start(w) \/ ReadBefore(w) \/ Resolved(w) \/ ReadAfter(w) \/ Build(w)
               \/ ReadLatest(w) \/ Save(w) \/ Report(w) \/ Abandon(w)
      BY <3>2, <1>a
      DEF Start, ReadBefore, Resolved, ReadAfter, Build, ReadLatest, Save, Report, Abandon
    <3> QED
      BY <1>2, <3>1, <3>2 DEF StepOf
  <2>2. CASE v # w
    <3>1. job'[v] = job[v]
      BY <1>2, <2>2, <1>t DEF StepOf, Start, Ingest, ReadBefore, Resolve, Resolved, ReadAfter, Build,
                              ReadLatest, Save, Report, Abandon, TypeOK
    <3> QED
      BY <1>t, <2>1, <3>1, RechecksOther
  <2>3. CASE v = w
    <3>1. CASE Start(w)
      <4>1. /\ Now(w, "running") /\ job'[w].started = clock /\ job'[w].stale = {}
            /\ job'[w].left = Observed(job'[w].steps) /\ clock' = clock + 1
        BY <3>1, <1>t, StartEffect DEF Start
      <4> QED
        BY <1>t, <2>3, <4>1 DEF Rechecks
    <3>2. CASE Ingest(w)
      <4>1. PICK k \in job[w].left :
              /\ job'[w].left = job[w].left \ {k}
              /\ conditions' = [conditions EXCEPT ![k] = Upsert(@, clock)]
        BY <3>2, <1>t, IngestEffect
      <4>2. /\ job[w].phase = "running" /\ job'[w].phase = "running" /\ SameRun(w)
            /\ job'[w].stale = job[w].stale /\ clock' = clock + 1
        BY <3>2, <1>t, IngestEffect DEF Now, Ingest
      <4>3. k \in Keys /\ conditions \in [Keys -> Condition] /\ job[w].started \in Nat
        BY <1>t, JobTyped DEF TypeOK
      <4>4. conditions'[k].last = clock /\ \A x \in Keys \ {k} : conditions'[x] = conditions[x]
        BY <4>1, <4>3 DEF Upsert
      <4>5. Observed(job[w].steps) \in SUBSET Keys
        BY <4>2, ObservedKeys DEF Typed, Based
      <4>6. ASSUME NEW x \in Observed(job[w].steps) \ job'[w].left
            PROVE  conditions'[x].last >= job[w].started
        <5>1. CASE x = k
          BY <5>1, <4>2, <4>3, <4>4, <1>t, <2>w DEF Rechecks
        <5>2. CASE x # k
          BY <5>2, <4>1, <4>2, <4>4, <4>5, <2>w DEF Rechecks
        <5> QED
          BY <5>1, <5>2
      <4>7. job[w].started < clock'
        BY <1>t, <4>2, <4>3, <2>w DEF Rechecks
      <4> QED
        BY <2>3, <4>2, <4>6, <4>7, <2>w DEF Rechecks, SameRun
    <3>3. CASE ReadBefore(w)
      <4>1. PICK a : job'[w].stale = job[w].stale \cup StaleOn(job[w], a)
        BY <3>3, <1>t, ReadBeforeEffect
      <4>2. /\ job[w].phase = "running" /\ job[w].left = {} /\ job'[w].phase = "running"
            /\ SameRun(w) /\ job'[w].left = job[w].left
        BY <3>3, <1>t, ReadBeforeEffect DEF Now
      <4>3. \A k \in job'[w].stale : Covers(job[w].steps, k) /\ k \notin Observed(job[w].steps)
        BY <4>1, <4>2, <2>w, StaleIsSound DEF Rechecks
      <4> QED
        BY <2>1, <2>3, <2>w, <4>2, <4>3, RechecksKept
    <3>4. CASE Resolve(w)
      <4>1. PICK k : job'[w].stale = job[w].stale \ {k}
        BY <3>4, <1>t, ResolveEffect
      <4>2. /\ job[w].phase = "running" /\ job'[w].phase = "running"
            /\ SameRun(w) /\ job'[w].left = job[w].left
        BY <3>4, <1>t, ResolveEffect DEF Now, Resolving
      <4>3. \A x \in job'[w].stale : Covers(job[w].steps, x) /\ x \notin Observed(job[w].steps)
        BY <4>1, <2>w DEF Rechecks
      <4> QED
        BY <2>1, <2>3, <2>w, <4>2, <4>3, RechecksKept
    <3>5. CASE Resolved(w) \/ ReadAfter(w) \/ Build(w) \/ ReadLatest(w) \/ Save(w)
      <4>1. /\ job[w].phase # "idle" /\ job'[w].phase \notin {"idle", "running"} /\ SameRun(w)
            /\ job'[w].stale = job[w].stale
        BY <3>5, <1>t, ResolvedEffect, ReadAfterEffect, BuildEffect, ReadLatestEffect, SaveEffect
        DEF Now, SameWork
      <4>2. job[w].started < clock' /\ clock' \in Nat
        <5>1. job[w].started \in Nat
          BY <1>t, JobTyped
        <5> QED
          BY <1>t, <2>1, <2>w, <4>1, <5>1 DEF Rechecks, TimeGoesOn
      <4> QED
        BY <2>3, <2>w, <4>1, <4>2 DEF Rechecks, SameRun
    <3>6. CASE Report(w) \/ Abandon(w)
      <4>1. Now(w, "idle") /\ job'[w].stale = {}
        BY <3>6, <1>t, EndEffect DEF Report, Abandon
      <4> QED
        BY <2>3, <4>1, RechecksEnded
    <3> QED
      BY <1>2, <3>1, <3>2, <3>3, <3>4, <3>5, <3>6 DEF StepOf
  <2> QED
    BY <2>2, <2>3
<1>3. CASE IngestElsewhere
  <2>1. TimeGoesOn /\ job' = job
    BY <1>3, ElsewhereEffect DEF TimeGoesOn
  <2> QED
    BY <1>t, <2>1, RechecksOther
<1> QED
  BY <1>1, <1>2, <1>3, NextSteps

(* A run never resolves a condition it did not re-check or has observed    *)
(* itself, however its steps failed and whatever other runs do at the same *)
(* time (_resolve_absent_conditions(), compute_covered_rule_ids()).        *)
THEOREM NoFalseResolution == Spec => ResolvedWasRechecked
<1>1. Init => AllRecheck
  BY DEF Init, IdleJob, AllRecheck, Rechecks
<1>2. Typed /\ AllRecheck /\ [Next]_vars =>
        [\A k \in Keys :
           conditions[k].lifecycle = "active" /\ conditions'[k].lifecycle = "resolved" =>
             \E w \in Workers :
               /\ Resolving(w)
               /\ Rechecked(job[w].steps, k)
               /\ k \notin Observed(job[w].steps)]_vars
  <2> SUFFICES ASSUME Typed, AllRecheck, Next, NEW k \in Keys,
                      conditions[k].lifecycle = "active", conditions'[k].lifecycle = "resolved"
               PROVE  \E w \in Workers :
                        /\ Resolving(w)
                        /\ Rechecked(job[w].steps, k)
                        /\ k \notin Observed(job[w].steps)
    OBVIOUS
  <2>t. TypeOK /\ conditions \in [Keys -> Condition]
    BY DEF Typed, TypeOK
  <2>0. ~IngestElsewhere
    <3>1. SUFFICES ASSUME IngestElsewhere PROVE FALSE
      OBVIOUS
    <3>2. PICK x \in Keys : conditions' = [conditions EXCEPT ![x] = Upsert(@, clock)]
      BY <3>1, ElsewhereEffect
    <3> QED
      BY <2>t, <3>2 DEF Upsert
  <2>1. PICK w \in Workers : StepOf(w)
    BY <2>0, NextSteps
  <2>2. CASE Resolve(w)
    <3>1. PICK x \in job[w].stale :
            conditions' = IF conditions[x].lifecycle = "active"
                          THEN [conditions EXCEPT ![x].lifecycle = "resolved"] ELSE conditions
      BY <2>2, <2>t, ResolveEffect
    <3>2. k = x
      BY <2>t, <3>1 DEF Condition
    <3>3. Covers(job[w].steps, k) /\ k \notin Observed(job[w].steps) /\ Resolving(w)
      BY <2>2, <2>t, <3>2, ResolveEffect DEF AllRecheck, Rechecks
    <3> QED
      BY <3>3, CoversMeansRechecked
  <2>3. CASE Ingest(w)
    <3>1. PICK x \in job[w].left : conditions' = [conditions EXCEPT ![x] = Upsert(@, clock)]
      BY <2>3, <2>t, IngestEffect
    <3> QED
      BY <2>t, <3>1 DEF Upsert
  <2>4. CASE ~Resolve(w) /\ ~Ingest(w)
    <3>1. conditions' = conditions
      BY <2>1, <2>4
      DEF StepOf, Start, ReadBefore, Resolved, ReadAfter, Build, ReadLatest, Save, Report,
          Abandon
    <3> QED
      BY <3>1
  <2> QED
    BY <2>2, <2>3, <2>4
<1> QED
  BY <1>1, <1>2, RecheckStep, TypedHolds, PTL DEF Spec, ResolvedWasRechecked

-----------------------------------------------------------------------------
(* Conditions of services.                                                 *)

OnRelated(S) == \A k \in S : k[2] \in RelatedAssets

(* Whatever a job has read lies on the assets related to the target.       *)
Related(w) ==
  /\ OnRelated(job[w].stale) /\ OnRelated(job[w].seen)
  /\ Writing(w) => OnRelated(job[w].content.conditions)

(* No snapshot holds a condition of a service.                             *)
ServicesUnseen ==
  \A r \in Saved : \A k \in snapshots[r].content.conditions : k[2] \notin Ports

(* No condition of a service, and none of a rule about a service's         *)
(* protocol, is ever resolved.                                             *)
ServicesStayOpen ==
  [][\A k \in Keys :
       /\ k[2] \in Ports \/ k[1] \in PortScopedRules
       /\ conditions[k].lifecycle = "active"
       => conditions'[k].lifecycle = "active"]_vars

AllRelated == (\A w \in Workers : Related(w))
              /\ \A r \in Saved : OnRelated(snapshots[r].content.conditions)

LEMMA RelatedIsNoService == ASSUME NEW a \in RelatedAssets PROVE a \notin Ports
BY PortsAssumption DEF RelatedAssets

LEMMA RelatedStep == Typed /\ AllRelated /\ [Next]_vars => AllRelated'
<1> SUFFICES ASSUME Typed, AllRelated, [Next]_vars PROVE AllRelated'
  OBVIOUS
<1>t. TypeOK
  BY DEF Typed
<1>1. CASE UNCHANGED vars
  BY <1>1 DEF vars, AllRelated, Related, Writing, Saved
<1>2. CASE IngestElsewhere
  BY <1>2, ElsewhereEffect DEF AllRelated, Related, Writing, Saved
<1>3. ASSUME NEW w \in Workers, StepOf(w) PROVE AllRelated'
  <2>w. Related(w)
    BY DEF AllRelated
  <2>1. ASSUME NEW v \in Workers \ {w} PROVE Related(v)'
    <3>1. job'[v] = job[v]
      BY <1>3, <1>t DEF StepOf, Start, Ingest, ReadBefore, Resolve, Resolved, ReadAfter, Build,
                        ReadLatest, Save, Report, Abandon, TypeOK
    <3> QED
      BY <3>1 DEF AllRelated, Related, Writing
  <2>2. Related(w)'
    <3>1. CASE Start(w)
      BY <3>1, <1>t, StartEffect DEF Now, Related, Writing, OnRelated
    <3>2. CASE Ingest(w)
      BY <3>2, <1>t, <2>w, IngestEffect DEF Now, Related, Writing
    <3>3. CASE ReadBefore(w)
      <4>1. PICK a \in RelatedAssets : job'[w].stale = job[w].stale \cup StaleOn(job[w], a)
        BY <3>3, <1>t, ReadBeforeEffect
      <4>2. OnRelated(job'[w].stale)
        BY <2>w, <4>1 DEF Related, OnRelated, StaleOn, ActiveOn
      <4> QED
        BY <3>3, <1>t, <2>w, <4>2, ReadBeforeEffect DEF Now, Related, Writing
    <3>4. CASE Resolve(w)
      <4>1. PICK k : job'[w].stale = job[w].stale \ {k}
        BY <3>4, <1>t, ResolveEffect
      <4>2. OnRelated(job'[w].stale)
        BY <2>w, <4>1 DEF Related, OnRelated
      <4> QED
        BY <3>4, <1>t, <2>w, <4>2, ResolveEffect DEF Now, Related, Writing
    <3>5. CASE Resolved(w)
      BY <3>5, <1>t, <2>w, ResolvedEffect DEF Now, SameWork, Related, Writing
    <3>6. CASE ReadAfter(w)
      <4>1. PICK a \in RelatedAssets : job'[w].seen = job[w].seen \cup ActiveOn(a)
        BY <3>6, <1>t, ReadAfterEffect
      <4>2. OnRelated(job'[w].seen)
        BY <2>w, <4>1 DEF Related, OnRelated, ActiveOn
      <4> QED
        BY <3>6, <1>t, <2>w, <4>2, ReadAfterEffect DEF Now, Related, Writing
    <3>7. CASE Build(w)
      BY <3>7, <2>w, BuildEffect DEF Related, OnRelated
    <3>8. CASE ReadLatest(w) \/ Save(w)
      BY <3>8, <1>t, <2>w, ReadLatestEffect, SaveEffect
      DEF Now, SameWork, SameSnapshot, Related, Writing
    <3>9. CASE Report(w) \/ Abandon(w)
      BY <3>9, <1>t, EndEffect DEF Report, Abandon, Now, Related, Writing, OnRelated
    <3> QED
      BY <1>3, <3>1, <3>2, <3>3, <3>4, <3>5, <3>6, <3>7, <3>8, <3>9 DEF StepOf
  <2>3. \A r \in Saved' : OnRelated(snapshots'[r].content.conditions)
    <3>1. CASE Save(w)
      <4>1. OnRelated(job[w].content.conditions)
        BY <3>1, <2>w DEF Save, Related, Writing
      <4>2. /\ Saved' = Saved \cup {job[w].run}
            /\ snapshots'[job[w].run].content = job[w].content
            /\ \A r \in Runs \ {job[w].run} : snapshots'[r] = snapshots[r]
        BY <3>1, SaveAdds
      <4> QED
        BY <4>1, <4>2 DEF AllRelated, Saved
    <3>2. CASE ~Save(w)
      <4>1. snapshots' = snapshots
        BY <1>3, <3>2 DEF StepOf, Start, Ingest, ReadBefore, Resolve, Resolved, ReadAfter, Build,
                          ReadLatest, Report, Abandon
      <4> QED
        BY <4>1 DEF AllRelated, Saved
    <3> QED
      BY <3>1, <3>2
  <2> QED
    BY <2>1, <2>2, <2>3 DEF AllRelated
<1> QED
  BY <1>1, <1>2, <1>3, NextSteps

LEMMA RelatedHolds == Spec => []AllRelated
<1>1. Init => AllRelated
  BY DEF Init, IdleJob, AllRelated, Related, OnRelated, Writing, Saved
<1> QED
  BY <1>1, RelatedStep, TypedHolds, PTL DEF Spec

(* The reconciliation never looks at a condition of a service: such        *)
(* conditions are in no snapshot, so no drift event ever speaks of one     *)
(* (_related_asset_ids()).                                                 *)
THEOREM ServiceConditionsUnseen == Spec => []ServicesUnseen
<1>1. Typed /\ AllRelated => ServicesUnseen
  BY RelatedIsNoService DEF AllRelated, OnRelated, ServicesUnseen
<1> QED
  BY <1>1, RelatedHolds, TypedHolds, PTL

(* An open condition of a service stays open for ever, even when every run *)
(* re-checks it and finds nothing: its asset is never read                 *)
(* (_related_asset_ids()), and were it read, the port the rule asks for is *)
(* unknown (_asset_ports(), _resolve_absent_conditions()).                 *)
THEOREM ServiceConditionsNeverResolved == Spec => ServicesStayOpen
<1>1. Typed /\ AllRecheck /\ AllRelated /\ [Next]_vars =>
        [\A k \in Keys :
           /\ k[2] \in Ports \/ k[1] \in PortScopedRules
           /\ conditions[k].lifecycle = "active"
           => conditions'[k].lifecycle = "active"]_vars
  <2> SUFFICES ASSUME Typed, AllRecheck, AllRelated, Next, NEW k \in Keys,
                      k[2] \in Ports \/ k[1] \in PortScopedRules,
                      conditions[k].lifecycle = "active"
               PROVE  conditions'[k].lifecycle = "active"
    OBVIOUS
  <2>t. TypeOK /\ conditions \in [Keys -> Condition]
    BY DEF Typed, TypeOK
  <2>1. CASE IngestElsewhere
    <3>1. PICK x \in Keys : conditions' = [conditions EXCEPT ![x] = Upsert(@, clock)]
      BY <2>1, ElsewhereEffect
    <3> QED
      BY <2>t, <3>1 DEF Upsert
  <2>2. ASSUME NEW w \in Workers, StepOf(w) PROVE conditions'[k].lifecycle = "active"
    <3>1. CASE Resolve(w)
      <4>1. PICK x \in job[w].stale :
              conditions' = IF conditions[x].lifecycle = "active"
                            THEN [conditions EXCEPT ![x].lifecycle = "resolved"] ELSE conditions
        BY <3>1, <2>t, ResolveEffect
      <4>2. x[2] \in RelatedAssets /\ Covers(job[w].steps, x)
        BY DEF AllRelated, Related, OnRelated, AllRecheck, Rechecks
      <4>3. x # k
        BY <4>2, RelatedIsNoService DEF Covers, AssetPort
      <4> QED
        BY <2>t, <4>1, <4>3
    <3>2. CASE Ingest(w)
      <4>1. PICK x \in job[w].left : conditions' = [conditions EXCEPT ![x] = Upsert(@, clock)]
        BY <3>2, <2>t, IngestEffect
      <4> QED
        BY <2>t, <4>1 DEF Upsert
    <3>3. CASE ~Resolve(w) /\ ~Ingest(w)
      BY <2>2, <3>3
      DEF StepOf, Start, ReadBefore, Resolved, ReadAfter, Build, ReadLatest, Save, Report, Abandon
    <3> QED
      BY <3>1, <3>2, <3>3
  <2> QED
    BY <2>1, <2>2, NextSteps
<1>2. Init => AllRecheck
  BY DEF Init, IdleJob, AllRecheck, Rechecks
<1> QED
  BY <1>1, <1>2, RecheckStep, RelatedHolds, TypedHolds, PTL DEF Spec, ServicesStayOpen

-----------------------------------------------------------------------------
(* What is reported is the difference of two snapshots.                    *)

NoDrift(r) == \A d \in drift : d[1] # r

(* A run is reconciled by one job.                                         *)
Distinct ==
  \A v, w \in Workers :
    v # w /\ job[v].phase # "idle" /\ job[w].phase # "idle" => job[v].run # job[w].run

(* Until a job ends nothing is reported for its run, and nothing saved     *)
(* before its own save.                                                    *)
Fresh(w) ==
  job[w].phase # "idle" =>
    /\ NoDrift(job[w].run)
    /\ job[w].phase # "reporting" => job[w].run \notin Saved
    /\ job[w].phase = "reporting" =>
         /\ job[w].run \in Saved
         /\ snapshots[job[w].run].content = job[w].content
         /\ snapshots[job[w].run].captured = job[w].captured
         /\ job[w].base # job[w].run

Unused == \A r \in Runs : r > runs => r \notin Saved /\ NoDrift(r)

Difference(b, r) ==
  LET old == snapshots[b].content
      new == snapshots[r].content
  IN  /\ Reported(r, {"ip_observed"}) = new.ips \ old.ips
      /\ Reported(r, {"ip_no_longer_observed"}) = old.ips \ new.ips
      /\ Reported(r, {"port_became_reachable"}) = new.ports \ old.ports
      /\ Reported(r, {"port_no_longer_reachable"}) = old.ports \ new.ports
      /\ Reported(r, {"condition_appeared", "condition_reactivated"}) =
           new.conditions \ old.conditions
      /\ Reported(r, {"condition_resolved"}) = old.conditions \ new.conditions
      /\ Reported(r, {"correlation_appeared"}) = new.correlations \ old.correlations
      /\ Reported(r, {"correlation_resolved"}) = old.correlations \ new.correlations

Explained(r) == NoDrift(r) \/ (r \in Saved /\ \E b \in Saved \ {r} : Difference(b, r))

Identity ==
  /\ Distinct
  /\ \A w \in Workers : Fresh(w)
  /\ Unused
  /\ \A r \in Runs : Explained(r)

LEMMA SameReports ==
  ASSUME drift' = drift
  PROVE  /\ \A r : NoDrift(r)' <=> NoDrift(r)
         /\ \A r, A : Reported(r, A)' = Reported(r, A)
BY DEF NoDrift, Reported

(* What a run reports anew is all there is for it.                         *)
LEMMA NewReports ==
  ASSUME NEW r, NoDrift(r), NEW ev, Pairs(ev),
         drift' = drift \cup {<<r, e[1], e[2]>> : e \in ev}
  PROVE  /\ \A A, S : NamesAny(ev, A, S) => Reported(r, A)' = S
         /\ \A q : q # r => (NoDrift(q)' <=> NoDrift(q))
         /\ \A q, A : q # r => Reported(q, A)' = Reported(q, A)
<1>1. \A d \in drift' : d[1] = r => \E e \in ev : d = <<r, e[1], e[2]>>
  BY DEF NoDrift
<1>2. \A e \in ev : <<r, e[1], e[2]>> \in drift'
  OBVIOUS
<1>3. ASSUME NEW A, NEW S, NamesAny(ev, A, S) PROVE Reported(r, A)' = S
  <2>1. ASSUME NEW x \in S PROVE x \in Reported(r, A)'
    <3>1. PICK c \in A : <<c, x>> \in ev
      BY <1>3 DEF NamesAny
    <3>2. <<r, c, x>> \in drift'
      BY <1>2, <3>1
    <3> QED
      BY <3>2 DEF Reported
  <2>2. ASSUME NEW d \in drift', d[1] = r, d[2] \in A PROVE d[3] \in S
    <3>1. PICK e \in ev : d = <<r, e[1], e[2]>>
      BY <1>1, <2>2
    <3>2. <<e[1], e[2]>> \in ev /\ e[1] \in A
      BY <2>2, <3>1 DEF Pairs
    <3> QED
      BY <1>3, <3>1, <3>2 DEF NamesAny
  <2> QED
    BY <2>1, <2>2 DEF Reported
<1>4. \A q : q # r => \A d : d[1] = q => (d \in drift' <=> d \in drift)
  OBVIOUS
<1> QED
  BY <1>3, <1>4 DEF NoDrift, Reported

LEMMA DistinctKept ==
  ASSUME Distinct, NEW w \in Workers, NEW f, Now(w, f),
         f # "idle" => job[w].phase # "idle" /\ SameRun(w)
  PROVE  Distinct'
BY DEF Distinct, Now, SameRun

(* A step that neither saves nor reports.                                  *)
LEMMA QuietKept ==
  ASSUME Typed, Identity, NEW w \in Workers, NEW f, Now(w, f),
         f # "idle" => job[w].phase \notin {"idle", "reporting"} /\ SameRun(w),
         f # "reporting", UNCHANGED <<runs, snapshots, drift>>
  PROVE  Identity'
<1>1. Saved' = Saved
  BY DEF Saved
<1>2. Distinct'
  BY DistinctKept DEF Identity
<1>3. ASSUME NEW v \in Workers PROVE Fresh(v)'
  <2>1. Fresh(v)
    BY DEF Identity
  <2>2. CASE v = w
    BY <1>1, <2>1, <2>2, SameReports DEF Fresh, Now, SameRun
  <2>3. CASE v # w
    BY <1>1, <2>1, <2>3, SameReports DEF Fresh, Now
  <2> QED
    BY <2>2, <2>3
<1>4. Unused' /\ \A r \in Runs : Explained(r)'
  BY <1>1, SameReports DEF Identity, Unused, Explained, Difference
<1> QED
  BY <1>2, <1>3, <1>4 DEF Identity

LEMMA StartKept ==
  ASSUME Typed, Identity, NEW w \in Workers, Start(w)
  PROVE  Identity'
<1>1. /\ Now(w, "running") /\ job'[w].run = runs + 1 /\ runs' = runs + 1
      /\ UNCHANGED <<snapshots, drift>>
  BY StartEffect DEF Typed, Start
<1>2. runs \in Nat /\ runs + 1 \in Runs /\ \A r \in Runs : r \in Nat
  BY MaxRunsAssumption DEF Typed, TypeOK, Runs, NoRun, Start
<1>3. Saved' = Saved
  BY <1>1 DEF Saved
<1>4. runs + 1 \notin Saved /\ NoDrift(runs + 1)
  BY <1>2 DEF Identity, Unused
<1>5. ASSUME NEW v \in Workers \ {w} PROVE job'[v] = job[v] /\ Fresh(v)
                                           /\ (job[v].phase # "idle" => job[v].run \in 1..runs)
  BY <1>1 DEF Now, Identity, Typed, TypeOK
<1>6. Distinct'
  <2>1. ASSUME NEW v \in Workers \ {w}, job'[v].phase # "idle" PROVE job'[v].run # job'[w].run
    BY <1>1, <1>2, <1>5, <2>1
  <2> QED
    BY <1>5, <2>1 DEF Identity, Distinct
<1>7. ASSUME NEW v \in Workers PROVE Fresh(v)'
  <2>1. CASE v = w
    BY <1>1, <1>3, <1>4, <2>1, SameReports DEF Fresh, Now
  <2>2. CASE v # w
    BY <1>1, <1>3, <1>5, <2>2, SameReports DEF Fresh
  <2> QED
    BY <2>1, <2>2
<1>8. Unused'
  BY <1>1, <1>2, <1>3, SameReports DEF Identity, Unused
<1>9. \A r \in Runs : Explained(r)'
  BY <1>1, <1>3, SameReports DEF Identity, Explained, Difference
<1> QED
  BY <1>6, <1>7, <1>8, <1>9 DEF Identity

LEMMA SaveKept ==
  ASSUME Typed, Identity, NEW w \in Workers, Save(w)
  PROVE  Identity'
<1> DEFINE run == job[w].run
<1>1. /\ job[w].phase = "saving" /\ Now(w, "reporting") /\ SameRun(w)
      /\ job'[w].content = job[w].content /\ job'[w].captured = job[w].captured
      /\ job'[w].base = job[w].base /\ UNCHANGED <<runs, drift>>
  BY SaveEffect DEF Typed, Save, SameSnapshot
<1>2. /\ run \in Runs /\ Saved' = Saved \cup {run}
      /\ snapshots'[run].content = job[w].content
      /\ snapshots'[run].captured = job[w].captured
      /\ \A r \in Runs \ {run} : snapshots'[r] = snapshots[r]
  BY SaveAdds
<1>3. run \notin Saved /\ NoDrift(run)
  BY <1>1 DEF Identity, Fresh
<1>4. Distinct'
  BY <1>1, DistinctKept DEF Identity
<1>5. ASSUME NEW v \in Workers PROVE Fresh(v)'
  <2>1. CASE v = w
    <3>1. job[w].base # run
      BY <1>1, <1>2, <1>3 DEF Typed, Based, Runs, NoRun
    <3> QED
      BY <1>1, <1>2, <1>3, <2>1, <3>1, SameReports DEF Fresh, Now, SameRun
  <2>2. CASE v # w
    <3>1. Fresh(v) /\ job'[v] = job[v] /\ (job[v].phase # "idle" => job[v].run # run)
      BY <1>1, <2>2 DEF Identity, Distinct, Now
    <3>2. job[v].phase # "idle" => job[v].run \in Runs
      BY MaxRunsAssumption DEF Typed, TypeOK, Runs, NoRun
    <3> QED
      BY <1>1, <1>2, <3>1, <3>2, SameReports DEF Fresh
  <2> QED
    BY <2>1, <2>2
<1>6. Unused'
  <2>1. run \in Nat /\ runs \in Nat /\ run <= runs
    BY <1>1, MaxRunsAssumption DEF Typed, TypeOK, Runs, NoRun
  <2> QED
    BY <1>1, <1>2, <2>1, SameReports DEF Identity, Unused
<1>7. ASSUME NEW r \in Runs PROVE Explained(r)'
  <2>1. CASE NoDrift(r)
    BY <1>1, <2>1, SameReports DEF Explained
  <2>2. CASE ~NoDrift(r)
    <3>1. PICK b \in Saved \ {r} : r \in Saved /\ Difference(b, r)
      BY <2>2 DEF Identity, Explained
    <3>2. snapshots'[r] = snapshots[r] /\ snapshots'[b] = snapshots[b] /\ b \in Saved' /\ r \in Saved'
      BY <1>2, <1>3, <3>1 DEF Saved
    <3>3. Difference(b, r)'
      BY <1>1, <3>1, <3>2, SameReports DEF Difference
    <3> QED
      BY <3>1, <3>2, <3>3 DEF Explained
  <2> QED
    BY <2>1, <2>2
<1> QED
  BY <1>4, <1>5, <1>6, <1>7 DEF Identity

(* The events of a report, and what they say of its two snapshots.         *)
LEMMA ReportedDifference ==
  ASSUME NEW old, NEW new, NEW R, NEW ev, ev = DetectDrift(old, new, R)
  PROVE  /\ Pairs(ev)
         /\ NamesAny(ev, {"ip_observed"}, new.ips \ old.ips)
         /\ NamesAny(ev, {"ip_no_longer_observed"}, old.ips \ new.ips)
         /\ NamesAny(ev, {"port_became_reachable"}, new.ports \ old.ports)
         /\ NamesAny(ev, {"port_no_longer_reachable"}, old.ports \ new.ports)
         /\ NamesAny(ev, {"condition_appeared", "condition_reactivated"},
                     new.conditions \ old.conditions)
         /\ NamesAny(ev, {"condition_appeared"}, (new.conditions \ old.conditions) \ R)
         /\ NamesAny(ev, {"condition_resolved"}, old.conditions \ new.conditions)
         /\ NamesAny(ev, {"correlation_appeared"}, new.correlations \ old.correlations)
         /\ NamesAny(ev, {"correlation_resolved"}, old.correlations \ new.correlations)
<1>1. \A x :
         /\ <<"ip_observed", x>> \in DetectDrift(old, new, R) <=> x \in new.ips \ old.ips
         /\ <<"ip_no_longer_observed", x>> \in DetectDrift(old, new, R) <=> x \in old.ips \ new.ips
         /\ <<"port_became_reachable", x>> \in DetectDrift(old, new, R) <=>
              x \in new.ports \ old.ports
         /\ <<"port_no_longer_reachable", x>> \in DetectDrift(old, new, R) <=>
              x \in old.ports \ new.ports
         /\ <<"condition_appeared", x>> \in DetectDrift(old, new, R) <=>
              x \in (new.conditions \ old.conditions) \ R
         /\ <<"condition_reactivated", x>> \in DetectDrift(old, new, R) <=>
              x \in (new.conditions \ old.conditions) \cap R
         /\ <<"condition_resolved", x>> \in DetectDrift(old, new, R) <=>
              x \in old.conditions \ new.conditions
         /\ <<"correlation_appeared", x>> \in DetectDrift(old, new, R) <=>
              x \in new.correlations \ old.correlations
         /\ <<"correlation_resolved", x>> \in DetectDrift(old, new, R) <=>
              x \in old.correlations \ new.correlations
  BY DriftParts, ZenonT(30)
<1>2. Pairs(ev)
  BY DriftPairs DEF Pairs
<1> QED
  BY <1>1, <1>2 DEF NamesAny

(* What is known when a job reports.                                       *)
LEMMA ReportFacts ==
  ASSUME Typed, Identity, NEW w \in Workers, Report(w)
  PROVE  /\ Now(w, "idle") /\ job[w].phase = "reporting"
         /\ job[w].run \in Saved /\ job[w].base \in (Saved \ {job[w].run}) \cup {NoRun}
         /\ snapshots[job[w].run].content = job[w].content
         /\ NoDrift(job[w].run)
         /\ Pairs(Events(job[w].base, job[w].content))
         /\ drift' = drift \cup {<<job[w].run, e[1], e[2]>> :
                                   e \in Events(job[w].base, job[w].content)}
         /\ UNCHANGED <<runs, snapshots>>
<1>1. job[w].phase = "reporting" /\ job' = [job EXCEPT ![w] = IdleJob]
  BY DEF Report
<1>2. /\ job[w].run \in Saved /\ job[w].base # job[w].run
      /\ snapshots[job[w].run].content = job[w].content /\ NoDrift(job[w].run)
      /\ job[w].base \in Saved \cup {NoRun}
  BY <1>1 DEF Identity, Fresh, Typed, Based
<1>3. Pairs(Events(job[w].base, job[w].content))
  BY DriftPairs DEF Events, Pairs
<1>4. Now(w, "idle")
  BY <1>1, EndEffect DEF Typed
<1> QED
  BY <1>1, <1>2, <1>3, <1>4 DEF Report

LEMMA ReportKept ==
  ASSUME Typed, Identity, NEW w \in Workers, Report(w)
  PROVE  Identity'
<1>0. PICK run, base, ev :
        run = job[w].run /\ base = job[w].base /\ ev = Events(job[w].base, job[w].content)
  OBVIOUS
<1>1. /\ Now(w, "idle") /\ job[w].phase = "reporting"
      /\ run \in Saved /\ base \in (Saved \ {run}) \cup {NoRun}
      /\ snapshots[run].content = job[w].content
      /\ NoDrift(run) /\ Pairs(ev)
      /\ drift' = drift \cup {<<run, e[1], e[2]>> : e \in ev}
      /\ UNCHANGED <<runs, snapshots>>
  BY <1>0, ReportFacts
<1>2. Saved' = Saved
  BY <1>1 DEF Saved
<1>3. base # NoRun => ev = DetectDrift(snapshots[base].content, job[w].content,
                                       Reactivated(base, job[w].content))
  BY <1>0 DEF Events
<1>4. base = NoRun => ev = {}
  BY <1>0 DEF Events
<1>h. \A A, S : NamesAny(ev, A, S) => Reported(run, A)' = S
  BY <1>1, NewReports
<1>o. /\ \A q : q # run => (NoDrift(q)' <=> NoDrift(q))
      /\ \A q, A : q # run => Reported(q, A)' = Reported(q, A)
  BY <1>1, NewReports
<1>5. Distinct'
  BY <1>1, DistinctKept DEF Identity
<1>6. ASSUME NEW v \in Workers PROVE Fresh(v)'
  <2>1. CASE v = w
    BY <1>1, <2>1 DEF Fresh, Now
  <2>2. CASE v # w
    <3>1. Fresh(v) /\ job'[v] = job[v] /\ (job[v].phase # "idle" => job[v].run # run)
      BY <1>0, <1>1, <2>2 DEF Identity, Distinct, Now
    <3> QED
      BY <1>1, <1>2, <1>o, <3>1 DEF Fresh
  <2> QED
    BY <2>1, <2>2
<1>7. Unused'
  <2>1. run \in Nat /\ runs \in Nat /\ run <= runs
    BY <1>0, <1>1, MaxRunsAssumption DEF Typed, TypeOK, Runs, NoRun
  <2> QED
    BY <1>1, <1>2, <1>o, <2>1 DEF Identity, Unused, Runs
<1>8. ASSUME NEW r \in Runs PROVE Explained(r)'
  <2>1. CASE r # run
    BY <1>1, <1>2, <1>o, <2>1 DEF Identity, Explained, Difference
  <2>2. CASE r = run /\ base = NoRun
    <3>1. drift' = drift
      BY <1>1, <1>4, <2>2
    <3> QED
      BY <1>1, <2>2, <3>1, SameReports DEF Explained
  <2>3. CASE r = run /\ base # NoRun
    <3>0. PICK old, new, R : /\ old = snapshots[base].content
                             /\ new = snapshots[run].content
                             /\ R = Reactivated(base, job[w].content)
      OBVIOUS
    <3>1. ev = DetectDrift(old, new, R)
      BY <1>1, <1>3, <2>3, <3>0
    <3>2. /\ NamesAny(ev, {"ip_observed"}, new.ips \ old.ips)
          /\ NamesAny(ev, {"ip_no_longer_observed"}, old.ips \ new.ips)
          /\ NamesAny(ev, {"port_became_reachable"}, new.ports \ old.ports)
          /\ NamesAny(ev, {"port_no_longer_reachable"}, old.ports \ new.ports)
          /\ NamesAny(ev, {"condition_appeared", "condition_reactivated"},
                      new.conditions \ old.conditions)
          /\ NamesAny(ev, {"condition_resolved"}, old.conditions \ new.conditions)
          /\ NamesAny(ev, {"correlation_appeared"}, new.correlations \ old.correlations)
          /\ NamesAny(ev, {"correlation_resolved"}, old.correlations \ new.correlations)
      BY <3>1, ReportedDifference
    <3>3. Difference(base, run)'
      <4>1. /\ Reported(run, {"ip_observed"})' = new.ips \ old.ips
            /\ Reported(run, {"ip_no_longer_observed"})' = old.ips \ new.ips
            /\ Reported(run, {"port_became_reachable"})' = new.ports \ old.ports
            /\ Reported(run, {"port_no_longer_reachable"})' = old.ports \ new.ports
            /\ Reported(run, {"condition_appeared", "condition_reactivated"})' =
                 new.conditions \ old.conditions
            /\ Reported(run, {"condition_resolved"})' = old.conditions \ new.conditions
            /\ Reported(run, {"correlation_appeared"})' = new.correlations \ old.correlations
            /\ Reported(run, {"correlation_resolved"})' = old.correlations \ new.correlations
        BY <1>h, <3>2
      <4> QED
        BY <1>1, <3>0, <4>1 DEF Difference
    <3> QED
      BY <1>1, <1>2, <2>3, <3>3 DEF Explained
  <2> QED
    BY <2>1, <2>2, <2>3
<1> QED
  BY <1>5, <1>6, <1>7, <1>8 DEF Identity

LEMMA IdentityStep == Typed /\ Identity /\ [Next]_vars => Identity'
<1> SUFFICES ASSUME Typed, Identity, [Next]_vars PROVE Identity'
  OBVIOUS
<1>t. TypeOK
  BY DEF Typed
<1>1. CASE UNCHANGED <<runs, snapshots, drift, job>>
  BY <1>1, ZenonT(30) DEF Identity, Distinct, Fresh, Unused, Explained, Difference,
                          NoDrift, Saved, Reported
<1>2. ASSUME NEW w \in Workers, StepOf(w) PROVE Identity'
  <2>1. CASE Ingest(w) \/ ReadBefore(w) \/ Resolve(w)
    <3>1. /\ job[w].phase = "running" /\ Now(w, "running") /\ SameRun(w)
          /\ UNCHANGED <<runs, snapshots, drift>>
      BY <2>1, <1>t, IngestEffect, ReadBeforeEffect, ResolveEffect
      DEF Ingest, ReadBefore, Resolve, Resolving
    <3> QED
      BY <3>1, QuietKept
  <2>2. CASE Resolved(w) \/ ReadAfter(w)
    <3>1. /\ job[w].phase \notin {"idle", "reporting"} /\ Now(w, "collecting") /\ SameRun(w)
          /\ UNCHANGED <<runs, snapshots, drift>>
      BY <2>2, <1>t, ResolvedEffect, ReadAfterEffect DEF Resolved, ReadAfter
    <3> QED
      BY <3>1, QuietKept
  <2>3. CASE Build(w)
    <3>1. /\ job[w].phase = "collecting" /\ Now(w, "built") /\ SameRun(w)
          /\ UNCHANGED <<runs, snapshots, drift>>
      BY <2>3, BuildEffect DEF Build
    <3> QED
      BY <3>1, QuietKept
  <2>4. CASE ReadLatest(w)
    <3>1. /\ job[w].phase = "built" /\ Now(w, "saving") /\ SameRun(w)
          /\ UNCHANGED <<runs, snapshots, drift>>
      BY <2>4, <1>t, ReadLatestEffect DEF ReadLatest
    <3> QED
      BY <3>1, QuietKept
  <2>5. CASE Abandon(w)
    <3>1. Now(w, "idle") /\ UNCHANGED <<runs, snapshots, drift>>
      BY <2>5, <1>t, EndEffect DEF Abandon
    <3> QED
      BY <3>1, QuietKept
  <2> QED
    BY <1>2, <2>1, <2>2, <2>3, <2>4, <2>5, StartKept, SaveKept, ReportKept DEF StepOf
<1>3. CASE UNCHANGED vars \/ IngestElsewhere
  <2>1. UNCHANGED <<runs, snapshots, drift, job>>
    BY <1>3 DEF vars, IngestElsewhere
  <2> QED
    BY <1>1, <2>1
<1> QED
  BY <1>2, <1>3, NextSteps

LEMMA IdentityHolds == Spec => []Identity
<1>1. Init => Identity
  BY DEF Init, IdleJob, Identity, Distinct, Fresh, Unused, Explained, NoDrift, Saved
<1> QED
  BY <1>1, IdentityStep, TypedHolds, PTL DEF Spec

(* Every report is the difference from one snapshot that was committed     *)
(* before, however many workers reconcile at the same time and wherever    *)
(* they die (detect_drift(), persist()).                                   *)
THEOREM ReportsAreDifferences == Spec => []DriftExplained
<1>1. Identity => DriftExplained
  <2> SUFFICES ASSUME Identity, NEW r \in Runs, NEW d \in drift, d[1] = r
               PROVE  \E b \in Saved \ {r} :
                 /\ r \in Saved
                 /\ Explains(b, r, LAMBDA c : c.ips, {"ip_observed"}, "ip_no_longer_observed")
                 /\ Explains(b, r, LAMBDA c : c.ports, {"port_became_reachable"},
                             "port_no_longer_reachable")
                 /\ Explains(b, r, LAMBDA c : c.conditions,
                             {"condition_appeared", "condition_reactivated"},
                             "condition_resolved")
                 /\ Explains(b, r, LAMBDA c : c.correlations, {"correlation_appeared"},
                             "correlation_resolved")
    BY DEF DriftExplained
  <2>1. PICK b \in Saved \ {r} : r \in Saved /\ Difference(b, r)
    BY DEF Identity, Explained, NoDrift
  <2> QED
    BY <2>1 DEF Difference, Explains
<1> QED
  BY <1>1, IdentityHolds, PTL

-----------------------------------------------------------------------------
(* The change feed.                                                        *)

(* Condition k was observed first before time t.                           *)
Known(k, t) == conditions[k].lifecycle # "absent" /\ conditions[k].first < t

Dated(w) ==
  /\ \A k \in job[w].seen : Known(k, clock)
  /\ Writing(w) => /\ job[w].captured < clock
                   /\ \A k \in job[w].content.conditions : Known(k, job[w].captured)

DatedSnapshot(r) ==
  /\ snapshots[r].captured < clock
  /\ \A k \in snapshots[r].content.conditions : Known(k, snapshots[r].captured)

(* captured_at is later than the first observation of all it contains.     *)
Dates ==
  /\ \A k \in Keys : conditions[k].lifecycle # "absent" => Known(k, clock)
  /\ \A w \in Workers : Dated(w)
  /\ \A r \in Saved : DatedSnapshot(r)

Passing ==
  /\ clock' \in {clock, clock + 1}
  /\ \A k \in Keys : Kept(k)
  /\ \A k \in Keys : conditions'[k].lifecycle # "absent" => Known(k, clock)'

LEMMA KnownKept ==
  ASSUME Typed, Passing, NEW k \in Keys, NEW t \in Nat, NEW u \in Nat, t <= u, Known(k, t)
  PROVE  conditions'[k].lifecycle # "absent" /\ conditions'[k].first < u
<1>1. conditions[k].first \in Nat
  BY DEF Typed, TypeOK, Condition
<1> QED
  BY <1>1 DEF Passing, Kept, Known

LEMMA ClockPasses ==
  ASSUME Typed, Passing
  PROVE  clock \in Nat /\ clock' \in Nat /\ clock <= clock'
BY DEF Typed, TypeOK, Passing

LEMMA DatedKept ==
  ASSUME Typed, Passing, NEW v \in Workers, Dated(v), job'[v].seen = job[v].seen,
         Writing(v)' => Writing(v) /\ SameSnapshot(v)
  PROVE  Dated(v)'
<1>1. clock \in Nat /\ clock' \in Nat /\ clock <= clock'
  BY ClockPasses
<1>2. job[v].seen \in SUBSET Keys /\ job[v].captured \in Nat
  BY JobTyped DEF Typed
<1>3. \A k \in job'[v].seen : Known(k, clock)'
  BY <1>1, <1>2, KnownKept DEF Dated, Known
<1>4. ASSUME Writing(v)'
      PROVE  /\ job'[v].captured < clock'
             /\ \A k \in job'[v].content.conditions :
                  conditions'[k].lifecycle # "absent" /\ conditions'[k].first < job'[v].captured
  <2>1. Writing(v) /\ job'[v].content = job[v].content /\ job'[v].captured = job[v].captured
    BY <1>4 DEF SameSnapshot
  <2>2. job[v].content \in Content
    BY <2>1 DEF Writing, Typed, TypeOK
  <2>3. job[v].content.conditions \in SUBSET Keys
    BY <2>2, ContentParts
  <2> QED
    BY <1>1, <1>2, <2>1, <2>3, KnownKept DEF Dated
<1> QED
  BY <1>3, <1>4 DEF Dated, Known

LEMMA DatedSnapshotKept ==
  ASSUME Typed, Passing, NEW r \in Saved, DatedSnapshot(r), snapshots'[r] = snapshots[r]
  PROVE  DatedSnapshot(r)'
<1>1. clock \in Nat /\ clock' \in Nat /\ clock <= clock'
  BY ClockPasses
<1>2. snapshots[r].content \in Content /\ snapshots[r].captured \in Nat
  BY SavedTyped DEF Typed
<1>3. snapshots[r].content.conditions \in SUBSET Keys
  BY <1>2, ContentParts
<1> QED
  BY <1>1, <1>2, <1>3, KnownKept DEF DatedSnapshot, Known

LEMMA TimePasses ==
  ASSUME Typed, Dates, NEW w \in Workers, StepOf(w)
  PROVE  Passing
<1>t. clock \in Nat /\ conditions \in [Keys -> Condition]
  BY DEF Typed, TypeOK
<1>1. CASE Ingest(w)
  <2>1. PICK k \in job[w].left : conditions' = [conditions EXCEPT ![k] = Upsert(@, clock)]
    BY <1>1, IngestEffect DEF Typed
  <2>2. k \in Keys
    BY JobTyped DEF Typed
  <2>3. \A x \in Keys : conditions[x].first \in Nat
    BY <1>t DEF Condition
  <2>4. \A x \in Keys : conditions'[x].lifecycle # "absent" => conditions'[x].first < clock + 1
    <3>1. conditions'[k].first < clock + 1
      BY <1>t, <2>1, <2>2, <2>3 DEF Dates, Known, Upsert
    <3>2. \A x \in Keys \ {k} : conditions'[x] = conditions[x]
      BY <2>1, <1>t
    <3> QED
      BY <1>t, <2>3, <3>1, <3>2 DEF Dates, Known
  <2> QED
    BY <1>1, <2>4, ConditionEffect DEF Passing, Known, Ingest
<1>2. CASE Resolve(w)
  <2>1. PICK k \in job[w].stale :
          conditions' = IF conditions[k].lifecycle = "active"
                        THEN [conditions EXCEPT ![k].lifecycle = "resolved"] ELSE conditions
    BY <1>2, ResolveEffect DEF Typed
  <2>2. k \in Keys
    BY JobTyped DEF Typed
  <2>3. \A x \in Keys : conditions'[x].first = conditions[x].first
                        /\ (conditions'[x].lifecycle # "absent" => conditions[x].lifecycle # "absent")
    BY <1>t, <2>1, <2>2 DEF Condition
  <2> QED
    BY <1>2, <2>3, ConditionEffect DEF Passing, Known, Resolve, Dates
<1>3. CASE ~Ingest(w) /\ ~Resolve(w)
  <2>1. conditions' = conditions /\ clock' \in {clock, clock + 1}
    BY <1>3 DEF StepOf, Start, ReadBefore, Resolved, ReadAfter, Build, ReadLatest, Save, Report,
                Abandon
  <2>2. \A x \in Keys : conditions[x].first \in Nat
    BY <1>t DEF Condition
  <2> QED
    BY <1>t, <2>1, <2>2 DEF Passing, Kept, Known, Dates
<1> QED
  BY <1>1, <1>2, <1>3

LEMMA TimePassesElsewhere ==
  ASSUME Typed, Dates, IngestElsewhere
  PROVE  Passing
<1>t. clock \in Nat /\ conditions \in [Keys -> Condition]
  BY DEF Typed, TypeOK
<1>1. PICK k \in Keys : conditions' = [conditions EXCEPT ![k] = Upsert(@, clock)]
  BY ElsewhereEffect
<1>2. \A x \in Keys : conditions[x].first \in Nat
  BY <1>t DEF Condition
<1>3. conditions'[k].first < clock + 1
  BY <1>t, <1>1, <1>2 DEF Dates, Known, Upsert
<1>4. \A x \in Keys \ {k} : conditions'[x] = conditions[x]
  BY <1>t, <1>1
<1>5. \A x \in Keys : conditions'[x].lifecycle # "absent" => conditions'[x].first < clock + 1
  BY <1>t, <1>2, <1>3, <1>4 DEF Dates, Known
<1> QED
  BY <1>5, ElsewhereEffect DEF Passing, Known

LEMMA DatesStep == Typed /\ Identity /\ Dates /\ [Next]_vars => Dates'
<1> SUFFICES ASSUME Typed, Identity, Dates, [Next]_vars PROVE Dates'
  OBVIOUS
<1>1. CASE UNCHANGED vars
  BY <1>1 DEF vars, Dates, Dated, DatedSnapshot, Known, Writing, Saved
<1>2. ASSUME NEW w \in Workers, StepOf(w) PROVE Dates'
  <2>p. Passing /\ TypeOK
    BY <1>2, TimePasses DEF Typed
  <2>c. clock \in Nat /\ clock' \in Nat /\ clock <= clock'
    BY <2>p, ClockPasses
  <2>1. ASSUME NEW v \in Workers \ {w} PROVE Dated(v)'
    <3>1. job'[v] = job[v]
      BY <1>2, <2>p DEF StepOf, Start, Ingest, ReadBefore, Resolve, Resolved, ReadAfter, Build,
                        ReadLatest, Save, Report, Abandon, TypeOK
    <3> QED
      BY <2>p, <3>1, DatedKept DEF Dates, Writing, SameSnapshot
  <2>2. Dated(w)'
    <3>w. Dated(w)
      BY DEF Dates
    <3>1. CASE Start(w) \/ Report(w) \/ Abandon(w)
      <4>1. job'[w].seen = {} /\ ~Writing(w)'
        BY <3>1, <2>p, StartEffect, EndEffect DEF Now, Writing, Report, Abandon
      <4> QED
        BY <4>1 DEF Dated
    <3>2. CASE Ingest(w) \/ ReadBefore(w) \/ Resolve(w) \/ Resolved(w)
      <4>1. job'[w].seen = job[w].seen /\ ~Writing(w)'
        BY <3>2, <2>p, IngestEffect, ReadBeforeEffect, ResolveEffect, ResolvedEffect
        DEF Now, Writing, SameWork
      <4> QED
        BY <2>p, <3>w, <4>1, DatedKept
    <3>3. CASE ReadAfter(w)
      <4>1. PICK a : job'[w].seen = job[w].seen \cup ActiveOn(a)
        BY <3>3, <2>p, ReadAfterEffect
      <4>2. ~Writing(w)' /\ UNCHANGED <<clock, conditions>>
        BY <3>3, <2>p, ReadAfterEffect DEF Now, Writing, ReadAfter
      <4>3. \A k \in ActiveOn(a) : Known(k, clock)
        BY DEF ActiveOn, Dates
      <4> QED
        BY <3>w, <4>1, <4>2, <4>3 DEF Dated, Known
    <3>4. CASE Build(w)
      <4>1. /\ job'[w].seen = {} /\ job'[w].captured = clock
            /\ job'[w].content.conditions = job[w].seen
            /\ clock' = clock + 1 /\ conditions' = conditions
        BY <3>4, BuildEffect DEF Build
      <4> QED
        BY <2>c, <3>w, <4>1 DEF Dated, Known
    <3>5. CASE ReadLatest(w) \/ Save(w)
      <4>1. job'[w].seen = job[w].seen /\ Writing(w) /\ SameSnapshot(w)
        BY <3>5, <2>p, ReadLatestEffect, SaveEffect DEF Writing, SameWork
      <4> QED
        BY <2>p, <3>w, <4>1, DatedKept
    <3> QED
      BY <1>2, <3>1, <3>2, <3>3, <3>4, <3>5 DEF StepOf
  <2>3. ASSUME NEW r \in Saved' PROVE DatedSnapshot(r)'
    <3>1. CASE Save(w)
      <4>1. /\ snapshots'[job[w].run].content = job[w].content
            /\ snapshots'[job[w].run].captured = job[w].captured
            /\ \A x \in Runs \ {job[w].run} : snapshots'[x] = snapshots[x]
            /\ Saved' = Saved \cup {job[w].run}
        BY <3>1, SaveAdds
      <4>2. CASE r = job[w].run
        <5>1. Writing(w) /\ Dated(w) /\ UNCHANGED <<clock, conditions>>
          BY <3>1 DEF Save, Writing, Dates
        <5> QED
          BY <4>1, <4>2, <5>1 DEF Dated, DatedSnapshot, Known
      <4>3. CASE r # job[w].run
        BY <2>p, <4>1, <4>3, DatedSnapshotKept DEF Dates, Saved
      <4> QED
        BY <4>2, <4>3
    <3>2. CASE ~Save(w)
      <4>1. snapshots' = snapshots
        BY <1>2, <3>2 DEF StepOf, Start, Ingest, ReadBefore, Resolve, Resolved, ReadAfter, Build,
                          ReadLatest, Report, Abandon
      <4> QED
        BY <2>p, <4>1, DatedSnapshotKept DEF Dates, Saved
    <3> QED
      BY <3>1, <3>2
  <2>4. \A k \in Keys : conditions'[k].lifecycle # "absent" => Known(k, clock)'
    BY <2>p DEF Passing
  <2> QED
    BY <2>1, <2>2, <2>3, <2>4 DEF Dates
<1>3. CASE IngestElsewhere
  <2>1. Passing /\ UNCHANGED <<snapshots, job>>
    BY <1>3, TimePassesElsewhere, ElsewhereEffect
  <2>2. ASSUME NEW v \in Workers PROVE Dated(v)'
    BY <2>1, DatedKept DEF Dates, Writing, SameSnapshot
  <2>3. ASSUME NEW r \in Saved' PROVE DatedSnapshot(r)'
    BY <2>1, DatedSnapshotKept DEF Dates, Saved
  <2> QED
    BY <2>1, <2>2, <2>3 DEF Dates, Passing
<1> QED
  BY <1>1, <1>2, <1>3, NextSteps

LEMMA DatesHold == Spec => []Dates
<1>1. Init => Dates
  BY DEF Init, IdleJob, Dates, Dated, Writing, Saved
<1> QED
  BY <1>1, DatesStep, IdentityHolds, TypedHolds, PTL DEF Spec

(* While nothing was disturbed: one job at a time writes,                  *)
Alone == \A v, w \in Workers : v # w => ~(Writing(v) /\ Writing(w))

(* its snapshot is the newest and its baseline the one before it,          *)
Ordered(w) ==
  /\ job[w].phase \in {"built", "saving"} =>
       \A r \in Saved : snapshots[r].captured < job[w].captured
  /\ job[w].phase = "saving" =>
       /\ job[w].base = NoRun => Saved = {}
       /\ job[w].base # NoRun => job[w].base \in Latest
  /\ job[w].phase = "reporting" =>
       /\ job[w].base = NoRun => Saved = {job[w].run} /\ believed = View(job[w].content)
       /\ job[w].base # NoRun =>
            /\ snapshots[job[w].base].captured < job[w].captured
            /\ \A s \in Saved \ {job[w].run} :
                 snapshots[s].captured <= snapshots[job[w].base].captured
            /\ believed = View(snapshots[job[w].base].content)

(* the feed is up to date unless a report is pending,                      *)
FeedOK ==
  (\A w \in Workers : job[w].phase # "reporting") =>
    \A r \in Latest : believed = View(snapshots[r].content)

(* and what was called new was.                                            *)
NewOK ==
  \A r, s \in Saved :
    snapshots[s].captured < snapshots[r].captured =>
      Reported(r, {"condition_appeared"}) \cap snapshots[s].content.conditions = {}

Serial == ~disturbed => Alone /\ (\A w \in Workers : Ordered(w)) /\ FeedOK /\ NewOK

(* A step that changes neither snapshots nor feed.                         *)
LEMMA SerialKept ==
  ASSUME Typed, Serial, ~disturbed, NEW w \in Workers, NEW f, Now(w, f),
         UNCHANGED <<snapshots, drift, believed>>,
         Alone', Ordered(w)', f # "reporting", job[w].phase # "reporting"
  PROVE  Serial'
<1>1. Saved' = Saved /\ Latest' = Latest /\ \A r, A : Reported(r, A)' = Reported(r, A)
  BY DEF Saved, Latest, Reported
<1>2. ASSUME NEW v \in Workers PROVE Ordered(v)'
  <2>1. CASE v = w
    BY <2>1
  <2>2. CASE v # w
    <3>1. job'[v] = job[v] /\ Ordered(v)
      BY <2>2 DEF Now, Serial
    <3> QED
      BY <1>1, <3>1 DEF Ordered
  <2> QED
    BY <2>1, <2>2
<1>3. FeedOK'
  <2>1. (\A v \in Workers : job'[v].phase # "reporting") =>
          (\A v \in Workers : job[v].phase # "reporting")
    BY DEF Now
  <2> QED
    BY <1>1, <2>1 DEF Serial, FeedOK
<1>4. NewOK'
  BY <1>1 DEF Serial, NewOK
<1> QED
  BY <1>2, <1>3, <1>4 DEF Serial

LEMMA AloneKept ==
  ASSUME Alone, NEW w \in Workers, NEW f, Now(w, f), Writing(w)' => Writing(w)
  PROVE  Alone'
BY DEF Alone, Writing, Now

LEMMA SaveSerial ==
  ASSUME Typed, Identity, Serial, ~disturbed, NEW w \in Workers, Save(w)
  PROVE  Serial'
<1>0. PICK run : run = job[w].run
  OBVIOUS
<1>1. /\ job[w].phase = "saving" /\ Now(w, "reporting")
      /\ job'[w].run = run /\ job'[w].content = job[w].content
      /\ job'[w].captured = job[w].captured /\ job'[w].base = job[w].base
      /\ drift' = drift
      /\ believed' = IF job[w].base = NoRun THEN View(job[w].content) ELSE believed
  BY <1>0, SaveEffect DEF Typed, Save, SameRun, SameSnapshot
<1>2. /\ run \in Runs /\ run \notin Saved /\ Saved' = Saved \cup {run}
      /\ snapshots'[run].content = job[w].content
      /\ snapshots'[run].captured = job[w].captured
      /\ \A r \in Runs \ {run} : snapshots'[r] = snapshots[r]
      /\ NoDrift(run) /\ job[w].captured \in Nat
  BY <1>0, <1>1, SaveAdds DEF Identity, Fresh
<1>3. \A r \in Saved : /\ snapshots'[r] = snapshots[r] /\ snapshots[r].captured \in Nat
                       /\ snapshots[r].captured < job[w].captured
  BY <1>1, <1>2, SavedTyped DEF Saved, Serial, Ordered, Typed
<1>4. Alone'
  BY <1>1, AloneKept DEF Serial, Writing
<1>5. Ordered(w)'
  <2>1. CASE job[w].base = NoRun
    BY <1>1, <1>2, <2>1 DEF Serial, Ordered, Now
  <2>2. CASE job[w].base # NoRun
    <3>1. job[w].base \in Latest
      BY <1>1, <2>2 DEF Serial, Ordered
    <3>2. believed = View(snapshots[job[w].base].content)
      <4>1. \A v \in Workers : job[v].phase # "reporting"
        BY <1>1 DEF Serial, Alone, Writing
      <4> QED
        BY <3>1, <4>1 DEF Serial, FeedOK
    <3>3. \A s \in Saved : snapshots[s].captured <= snapshots[job[w].base].captured
      BY <3>1 DEF Latest
    <3> QED
      BY <1>1, <1>2, <1>3, <2>2, <3>1, <3>2, <3>3 DEF Ordered, Latest, Now
  <2> QED
    BY <2>1, <2>2
<1>6. ASSUME NEW v \in Workers \ {w} PROVE Ordered(v)'
  <2>1. job'[v] = job[v] /\ ~Writing(v)
    BY <1>1 DEF Now, Serial, Alone, Writing
  <2> QED
    BY <2>1 DEF Ordered, Writing
<1>7. FeedOK'
  BY <1>1 DEF FeedOK, Now
<1>8. NewOK'
  <2> SUFFICES ASSUME NEW r \in Saved', NEW s \in Saved',
                      snapshots'[s].captured < snapshots'[r].captured
               PROVE  Reported(r, {"condition_appeared"})'
                        \cap snapshots'[s].content.conditions = {}
    BY DEF NewOK
  <2>1. Reported(r, {"condition_appeared"})' = Reported(r, {"condition_appeared"})
    BY <1>1, SameReports
  <2>2. CASE r = run
    BY <1>2, <2>1, <2>2 DEF Reported, NoDrift
  <2>3. CASE r # run /\ s = run
    BY <1>2, <1>3, <2>3
  <2>4. CASE r # run /\ s # run
    BY <1>2, <1>3, <2>1, <2>4 DEF Serial, NewOK
  <2> QED
    BY <2>2, <2>3, <2>4
<1> QED
  BY <1>4, <1>5, <1>6, <1>7, <1>8 DEF Serial

LEMMA ReportSerial ==
  ASSUME Typed, Identity, Dates, Serial, ~disturbed, NEW w \in Workers, Report(w)
  PROVE  Serial'
<1>0. PICK run, base, ev, new :
        /\ run = job[w].run /\ base = job[w].base /\ new = job[w].content
        /\ ev = Events(job[w].base, job[w].content)
  OBVIOUS
<1>1. /\ Now(w, "idle") /\ job[w].phase = "reporting"
      /\ run \in Saved /\ base \in (Saved \ {run}) \cup {NoRun}
      /\ snapshots[run].content = new
      /\ NoDrift(run) /\ Pairs(ev)
      /\ drift' = drift \cup {<<run, e[1], e[2]>> : e \in ev}
      /\ UNCHANGED <<runs, snapshots>>
  BY <1>0, ReportFacts
<1>2. Saved' = Saved /\ Latest' = Latest /\ believed' = Apply(believed, ev)
  BY <1>0, <1>1 DEF Saved, Latest, Report
<1>o. Ordered(w) /\ snapshots[run].captured = job[w].captured
  BY <1>0, <1>1 DEF Serial, Identity, Fresh
<1>n. /\ \A A, S : NamesAny(ev, A, S) => Reported(run, A)' = S
      /\ \A q, A : q # run => Reported(q, A)' = Reported(q, A)
  BY <1>1, NewReports
<1>3. Alone'
  BY <1>1, AloneKept DEF Serial, Writing, Now
<1>4. ASSUME NEW v \in Workers PROVE Ordered(v)'
  <2>1. CASE v = w
    BY <1>1, <2>1 DEF Ordered, Now
  <2>2. CASE v # w
    <3>1. job'[v] = job[v] /\ ~Writing(v)
      BY <1>1, <2>2 DEF Now, Serial, Alone, Writing
    <3> QED
      BY <3>1 DEF Ordered, Writing
  <2> QED
    BY <2>1, <2>2
<1>5. CASE base = NoRun
  <2>1. Saved = {run} /\ believed = View(new) /\ ev = {} /\ believed \in Views
    BY <1>0, <1>1, <1>5, <1>o DEF Ordered, Events, Typed, TypeOK
  <2>2. believed' = believed
    BY <1>2, <2>1, AppliedNothing
  <2>3. FeedOK'
    BY <1>1, <1>2, <2>1, <2>2 DEF FeedOK, Latest
  <2>4. NewOK'
    <3>1. snapshots[run].captured \in Nat
      BY <1>1, SavedTyped DEF Typed
    <3> QED
      BY <1>1, <1>2, <2>1, <3>1 DEF NewOK
  <2> QED
    BY <1>3, <1>4, <2>3, <2>4 DEF Serial
<1>6. CASE base # NoRun
  <2>0. PICK old, R : old = snapshots[base].content /\ R = Reactivated(base, new)
    OBVIOUS
  <2>1. /\ base \in Saved \ {run}
        /\ snapshots[base].captured < snapshots[run].captured
        /\ \A s \in Saved \ {run} : snapshots[s].captured <= snapshots[base].captured
        /\ believed = View(old)
    BY <1>0, <1>1, <1>6, <1>o, <2>0 DEF Ordered
  <2>2. old \in Content /\ new \in Content /\ \A s \in Saved : snapshots[s].captured \in Nat
    BY <1>1, <2>0, <2>1, SavedTyped DEF Typed
  <2>3. ev = DetectDrift(old, new, R)
    BY <1>0, <1>6, <2>0 DEF Events
  <2>4. believed' = View(new)
    BY <1>2, <2>1, <2>2, <2>3, AppliedDrift
  <2>5. \A r \in Latest : r = run
    BY <1>1, <2>1, <2>2 DEF Latest
  <2>6. FeedOK'
    BY <1>1, <1>2, <2>4, <2>5 DEF FeedOK
  <2>7. Reported(run, {"condition_appeared"})' = (new.conditions \ old.conditions) \ R
    <3>1. NamesAny(ev, {"condition_appeared"}, (new.conditions \ old.conditions) \ R)
      BY <2>3, ReportedDifference
    <3> QED
      BY <1>n, <3>1
  <2>8. ASSUME NEW r \in Saved, NEW s \in Saved, snapshots[s].captured < snapshots[r].captured,
               NEW k \in Reported(r, {"condition_appeared"})', k \in snapshots[s].content.conditions
        PROVE  FALSE
    <3>1. CASE r # run
      BY <1>n, <2>8, <3>1 DEF Serial, NewOK
    <3>2. CASE r = run
      <4>1. k \in new.conditions \ old.conditions /\ k \notin R /\ s # run
        BY <2>7, <2>2, <2>8, <3>2
      <4>2. k \in Keys
        BY <2>2, <4>1, ContentParts
      <4>3. conditions[k].first \in Nat
        BY <4>2 DEF Typed, TypeOK, Condition
      <4>4. ~(conditions[k].first < snapshots[base].captured)
        BY <2>0, <4>1 DEF Reactivated
      <4>5. conditions[k].first < snapshots[s].captured
        BY <2>8 DEF Dates, DatedSnapshot, Known
      <4> QED
        BY <2>1, <2>2, <4>1, <4>3, <4>4, <4>5
    <3> QED
      BY <3>1, <3>2
  <2>9. NewOK'
    BY <1>1, <1>2, <2>8 DEF NewOK
  <2> QED
    BY <1>3, <1>4, <2>6, <2>9 DEF Serial
<1> QED
  BY <1>5, <1>6

LEMMA SerialStep == Typed /\ Identity /\ Dates /\ Serial /\ [Next]_vars => Serial'
<1> SUFFICES ASSUME Typed, Identity, Dates, Serial, [Next]_vars, ~disturbed' PROVE Serial'
  BY DEF Serial
<1>t. TypeOK /\ clock \in Nat
  BY DEF Typed, TypeOK
<1>1. CASE UNCHANGED <<snapshots, drift, job, believed, disturbed>>
  BY <1>1 DEF Serial, Alone, Ordered, FeedOK, NewOK, Writing, Saved, Latest, Reported
<1>2. ASSUME NEW w \in Workers, StepOf(w) PROVE Serial'
  <2>d. ~disturbed
    BY <1>2 DEF StepOf, Start, Ingest, ReadBefore, Resolve, Resolved, ReadAfter, Build,
                ReadLatest, Save, Report, Abandon
  <2>s. Alone /\ \A v \in Workers : Ordered(v)
    BY <2>d DEF Serial
  <2>q. ASSUME NEW f, Now(w, f), f \in {"idle", "running", "collecting"},
               job[w].phase # "reporting", UNCHANGED <<snapshots, drift, believed>>
        PROVE  Serial'
    <3>1. Alone'
      BY <2>q, <2>s, AloneKept DEF Writing, Now
    <3>2. Ordered(w)'
      BY <2>q DEF Ordered, Now
    <3> QED
      BY <2>q, <2>d, <3>1, <3>2, SerialKept
  <2>1. CASE Start(w) \/ Ingest(w) \/ ReadBefore(w) \/ Resolve(w)
    <3>1. /\ Now(w, "running") /\ job[w].phase # "reporting"
          /\ UNCHANGED <<snapshots, drift, believed>>
      BY <2>1, <1>t, StartEffect, IngestEffect, ReadBeforeEffect, ResolveEffect
      DEF Start, Ingest, ReadBefore, Resolve, Resolving
    <3> QED
      BY <2>q, <3>1
  <2>2. CASE Resolved(w) \/ ReadAfter(w)
    <3>1. /\ Now(w, "collecting") /\ job[w].phase # "reporting"
          /\ UNCHANGED <<snapshots, drift, believed>>
      BY <2>2, <1>t, ResolvedEffect, ReadAfterEffect DEF Resolved, ReadAfter
    <3> QED
      BY <2>q, <3>1
  <2>3. CASE Abandon(w)
    <3>1. /\ Now(w, "idle") /\ job[w].phase # "reporting"
          /\ UNCHANGED <<snapshots, drift, believed>>
      BY <2>3, <1>t, EndEffect DEF Abandon
    <3> QED
      BY <2>q, <3>1
  <2>4. CASE Build(w)
    <3>1. /\ job[w].phase = "collecting" /\ Now(w, "built") /\ job'[w].captured = clock
          /\ UNCHANGED <<snapshots, drift, believed>>
      BY <2>4, BuildEffect DEF Build
    <3>2. \A v \in Workers : ~Writing(v)
      BY <2>4 DEF Build
    <3>3. Alone'
      BY <3>1, <3>2 DEF Alone, Writing, Now
    <3>4. Ordered(w)'
      BY <3>1 DEF Ordered, Now, Dates, DatedSnapshot, Saved
    <3> QED
      BY <2>d, <3>1, <3>3, <3>4, SerialKept
  <2>5. CASE ReadLatest(w)
    <3>1. /\ job[w].phase = "built" /\ Now(w, "saving") /\ job'[w].captured = job[w].captured
          /\ job'[w].base \in IF Saved = {} THEN {NoRun} ELSE Latest
          /\ UNCHANGED <<snapshots, drift, believed>>
      BY <2>5, <1>t, ReadLatestEffect DEF ReadLatest, SameSnapshot
    <3>2. Saved' = Saved /\ Latest' = Latest
      BY <3>1 DEF Saved, Latest
    <3>3. Alone'
      BY <3>1, <2>s, AloneKept DEF Writing
    <3>4. job'[w].base = NoRun => Saved = {}
      BY <3>1, MaxRunsAssumption DEF Latest, Saved, Runs, NoRun
    <3>5. Ordered(w)'
      BY <2>s, <3>1, <3>2, <3>4 DEF Ordered, Now
    <3> QED
      BY <2>d, <3>1, <3>3, <3>5, SerialKept
  <2> QED
    BY <1>2, <2>d, <2>1, <2>2, <2>3, <2>4, <2>5, SaveSerial, ReportSerial DEF StepOf
<1>3. CASE UNCHANGED vars \/ IngestElsewhere
  <2>1. UNCHANGED <<snapshots, drift, job, believed, disturbed>>
    BY <1>3 DEF vars, IngestElsewhere
  <2> QED
    BY <1>1, <2>1
<1> QED
  BY <1>2, <1>3, NextSteps

LEMMA SerialHolds == Spec => []Serial
<1>1. Init => Serial
  BY DEF Init, IdleJob, Serial, Alone, Ordered, FeedOK, NewOK, Writing, Saved, Latest
<1> QED
  BY <1>1, SerialStep, DatesHold, IdentityHolds, TypedHolds, PTL DEF Spec

(* Unless reconciliations overlapped or a report was lost, the feed applied*)
(* to the first snapshot gives the latest one, after any number of runs    *)
(* (_reconcile()).                                                         *)
THEOREM FeedIsFaithful == Spec => []ChangeFeedFaithful
<1>1. Serial => ChangeFeedFaithful
  BY DEF Serial, FeedOK, ChangeFeedFaithful
<1> QED
  BY <1>1, SerialHolds, PTL

(* Under the same proviso nothing that was in an earlier snapshot is       *)
(* reported as appeared (_compute_reactivated_keys()).                     *)
THEOREM AppearedWasNeverSeen == Spec => []AppearedIsNew
<1>1. Serial => AppearedIsNew
  BY DEF Serial, NewOK, AppearedIsNew
<1> QED
  BY <1>1, SerialHolds, PTL

-----------------------------------------------------------------------------
(* Certificates: what _service_drift() can and cannot see, since it keeps  *)
(* one entry per port.                                                     *)

(* No run has two entries for a port, and a completed handshake has a      *)
(* fingerprint.                                                            *)
OneEntryPerPort ==
  \A m \in ServiceMaps, p \in Ports :
    m[p] # <<>> =>
      \E e \in Entry :
        /\ m[p] = <<e>>
        /\ e.protocol = "tls_handshake" => e.fingerprint # NoFingerprint

(* The entry kept for a port, the last one, never carries a fingerprint:   *)
(* an HTTP step follows the handshake, as the rule of port 443 plans it.   *)
HandshakesHidden ==
  \A m \in ServiceMaps, p \in Ports :
    m[p] # <<>> => m[p][Len(m[p])].fingerprint = NoFingerprint

(* What a job that is to report compares.                                  *)
LEMMA Compared ==
  ASSUME Typed, NEW w \in Workers, job[w].phase = "reporting", job[w].base # NoRun
  PROVE  /\ snapshots[job[w].base].content.services \in ServiceMaps
         /\ job[w].content.services \in ServiceMaps
         /\ Events(job[w].base, job[w].content) =
              DetectDrift(snapshots[job[w].base].content, job[w].content,
                          Reactivated(job[w].base, job[w].content))
<1>1. job[w].content \in Content /\ job[w].base \in Saved
  BY DEF Typed, TypeOK, Based
<1>2. snapshots[job[w].base].content \in Content
  BY <1>1, SavedTyped DEF Typed
<1> QED
  BY <1>1, <1>2 DEF Content, Events

(* tls_certificate_changed comes from the entries kept for the port.       *)
LEMMA CertificateDrift ==
  ASSUME NEW old, NEW new, NEW R, NEW p
  PROVE  <<"tls_certificate_changed", p>> \in DetectDrift(old, new, R) <=>
           /\ old # new
           /\ p \in Ports
           /\ EntryFor(old, p).fingerprint # NoFingerprint
           /\ EntryFor(new, p).fingerprint # NoFingerprint
           /\ EntryFor(old, p).fingerprint # EntryFor(new, p).fingerprint
<1> DEFINE e == <<"tls_certificate_changed", p>>
<1>1. e \in DetectDrift(old, new, R) <=> old # new /\ e \in ServiceDrift(old, new)
  BY DEF DetectDrift, Change, ConditionDrift
<1>2. \A a, b : "tls_certificate_changed" \in ServiceDriftCategories(a, b) <=>
                 /\ NoFingerprint \notin {a.fingerprint, b.fingerprint}
                 /\ a.fingerprint # b.fingerprint
  BY DEF ServiceDriftCategories
<1>3. e \in ServiceDrift(old, new) <=>
        /\ p \in Ports
        /\ "tls_certificate_changed" \in ServiceDriftCategories(EntryFor(old, p), EntryFor(new, p))
  BY DEF ServiceDrift
<1> QED
  BY <1>1, <1>2, <1>3

(* Where a port has one entry a run, every changed certificate is reported,*)
(* whichever runs interleave: two entries for a port are the only reason   *)
(* for a missed one (_service_drift()).                                    *)
THEOREM SingleEntriesReportCertificates ==
  ASSUME OneEntryPerPort
  PROVE  Spec => []CertificateChangeReported
<1>1. Typed => CertificateChangeReported
  <2> SUFFICES ASSUME Typed, NEW w \in Workers, job[w].phase = "reporting", job[w].base # NoRun,
                      NEW p \in Ports,
                      NEW i \in DOMAIN snapshots[job[w].base].content.services[p],
                      NEW k \in DOMAIN job[w].content.services[p],
                      snapshots[job[w].base].content.services[p][i].protocol = "tls_handshake",
                      job[w].content.services[p][k].protocol = "tls_handshake",
                      snapshots[job[w].base].content.services[p][i].fingerprint
                        # job[w].content.services[p][k].fingerprint
               PROVE  <<"tls_certificate_changed", p>> \in Events(job[w].base, job[w].content)
    BY DEF CertificateChangeReported
  <2> DEFINE old == snapshots[job[w].base].content
             new == job[w].content
  <2>1. old.services \in ServiceMaps /\ new.services \in ServiceMaps
    BY Compared
  <2>a. PICK a \in Entry :
          /\ old.services[p] = <<a>>
          /\ a.protocol = "tls_handshake" => a.fingerprint # NoFingerprint
    <3>1. old.services[p] # <<>>
      OBVIOUS
    <3> QED
      BY <2>1, <3>1 DEF OneEntryPerPort
  <2>b. PICK b \in Entry :
          /\ new.services[p] = <<b>>
          /\ b.protocol = "tls_handshake" => b.fingerprint # NoFingerprint
    <3>1. new.services[p] # <<>>
      OBVIOUS
    <3> QED
      BY <2>1, <3>1 DEF OneEntryPerPort
  <2>2. /\ old.services[p] = <<a>> /\ new.services[p] = <<b>>
        /\ a.protocol = "tls_handshake" => a.fingerprint # NoFingerprint
        /\ b.protocol = "tls_handshake" => b.fingerprint # NoFingerprint
    BY <2>a, <2>b
  <2>3. i = 1 /\ k = 1
    BY <2>2
  <2>4. /\ a.fingerprint # b.fingerprint
        /\ a.fingerprint # NoFingerprint /\ b.fingerprint # NoFingerprint
    BY <2>2, <2>3
  <2>5. EntryFor(old, p) = a /\ EntryFor(new, p) = b
    BY <2>2 DEF EntryFor
  <2>6. old # new
    BY <2>2, <2>4
  <2>7. <<"tls_certificate_changed", p>> \in
          DetectDrift(old, new, Reactivated(job[w].base, job[w].content))
    BY <2>4, <2>5, <2>6, CertificateDrift
  <2> QED
    BY <2>7, Compared
<1> QED
  BY <1>1, TypedHolds, PTL

(* Where every handshake is followed by an HTTP step on its port, no       *)
(* certificate drift is ever reported, by any run, whatever the target     *)
(* presents (_service_drift(), build_snapshot_from_execution()).           *)
THEOREM HiddenHandshakesReportNothing ==
  ASSUME HandshakesHidden
  PROVE  Spec => [](\A d \in drift : d[2] # "tls_certificate_changed")
<1> DEFINE None == \A d \in drift : d[2] # "tls_certificate_changed"
<1>1. Init => None
  BY DEF Init
<1>2. Typed /\ None /\ [Next]_vars => None'
  <2> SUFFICES ASSUME Typed, None, [Next]_vars PROVE None'
    OBVIOUS
  <2>1. CASE UNCHANGED vars \/ IngestElsewhere
    BY <2>1 DEF vars, IngestElsewhere
  <2>2. ASSUME NEW w \in Workers, StepOf(w), ~Report(w) PROVE None'
    BY <2>2 DEF StepOf, Start, Ingest, ReadBefore, Resolve, Resolved, ReadAfter, Build, ReadLatest,
       Save, Abandon
  <2>3. ASSUME NEW w \in Workers, Report(w) PROVE None'
    <3> DEFINE ev == Events(job[w].base, job[w].content)
    <3>1. drift' = drift \cup {<<job[w].run, e[1], e[2]>> : e \in ev} /\ job[w].phase = "reporting"
      BY <2>3 DEF Report
    <3>2. \A e \in ev : e[1] # "tls_certificate_changed"
      <4>1. CASE job[w].base = NoRun
        BY <4>1 DEF Events
      <4>2. CASE job[w].base # NoRun
        <5> DEFINE old == snapshots[job[w].base].content
                   R == Reactivated(job[w].base, job[w].content)
        <5>1. /\ old.services \in ServiceMaps /\ job[w].content.services \in ServiceMaps
              /\ ev = DetectDrift(old, job[w].content, R)
          BY <3>1, <4>2, Compared
        <5>2. \A p \in Ports : EntryFor(old, p).fingerprint = NoFingerprint
          BY <5>1 DEF EntryFor, NoEntry, HandshakesHidden
        <5>3. ASSUME NEW p PROVE <<"tls_certificate_changed", p>> \notin ev
          <6>1. <<"tls_certificate_changed", p>> \notin DetectDrift(old, job[w].content, R)
            <7> HIDE DEF old, R
            <7> QED
              BY <5>2, CertificateDrift
          <6> QED
            BY <5>1, <6>1
        <5>4. \A e \in ev : e = <<e[1], e[2]>>
          BY <5>1, DriftPairs
        <5> QED
          BY <5>3, <5>4
      <4> QED
        BY <4>1, <4>2
    <3> QED
      BY <3>1, <3>2
  <2> QED
    BY <2>1, <2>2, <2>3, NextSteps
<1> QED
  BY <1>1, <1>2, TypedHolds, PTL DEF Spec
==============================================================================
