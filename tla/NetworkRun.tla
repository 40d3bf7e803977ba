----------------------------- MODULE NetworkRun -----------------------------
(***************************************************************************)
(* Network validation runs (M16): create_and_run() of                      *)
(* NetworkValidationOrchestrator, for runs of one target asset.            *)
(*                                                                         *)
(* A run checks the target's addresses against the authorizations, plans a *)
(* set of ports and starts one coroutine per address and port; a semaphore *)
(* bounds how many of them connect at a time.  Each asks the database for a*)
(* cancellation and for the authorization of its address again before it   *)
(* connects.  Meanwhile requests to cancel, revocations, failures and other*)
(* runs of the same target arrive.                                         *)
(***************************************************************************)
EXTENDS Naturals, Sequences, FiniteSets

CONSTANTS
  Runs,           \* runs that may be created
  Addresses,      \* candidate addresses of the target asset
  CommonPorts,    \* _COMMON_SERVICE_PORTS
  ExtendedPorts,  \* _EXTENDED_SERVICE_PORTS
  TlsPorts,       \* _TLS_CANDIDATE_PORTS
  ProtocolPorts,  \* ports whose protocol has a validator in the registry
  MaxPorts,       \* MAX_PORTS_PER_PLAN
  MaxConcurrency, \* MAX_CONCURRENCY
  Profiles        \* the profiles runs are created with

AllProfiles == {"network_baseline", "network_standard", "network_deep_safe"}

ASSUME PortsAssumption == CommonPorts \cup ExtendedPorts \subseteq Nat \ {0}
ASSUME LimitsAssumption == MaxPorts \in Nat /\ MaxConcurrency \in Nat \ {0}
ASSUME ProfilesAssumption == Profiles \subseteq AllProfiles
ASSUME FiniteAssumption == IsFiniteSet(Addresses) /\ IsFiniteSet(CommonPorts \cup ExtendedPorts)

Ports == CommonPorts \cup ExtendedPorts

Probes == Addresses \X Ports

(* Ports that are connected to a second time, to validate what answers.    *)
ValidatedPorts == TlsPorts \cup ProtocolPorts

VARIABLES
  row,       \* network_validation_runs
  exec,      \* what create_and_run() of a run holds in memory
  allowed,   \* addresses an ACTIVE authorization covers at this moment
  services,  \* ports of the target's SERVICE assets in the inventory
  captures,  \* runs in the order of their snapshots' captured_at
  snapshot,  \* network_state_snapshots: the ports, per run
  conditions,\* TLS conditions ingested on the address assets, with their port
  past,      \* history: probes beyond their last look for a cancellation when
             \*   the request to cancel was committed
  connects,  \* history: probes whose TCP connect came after the request
  validates, \* history: probes whose validation connected after the request
  barred,    \* history: probes whose address lost its authorization before
             \*   they asked for it again
  void       \* history: asked to stop only after it was denied

vars == <<row, exec, allowed, services, captures, snapshot, conditions,
          past, connects, validates, barred, void>>

Statuses == {"absent", "pending", "policy_checking", "authorized", "running", "completed",
             "partially_completed", "failed", "cancelled", "denied"}

Terminal == {"completed", "partially_completed", "failed", "cancelled", "denied"}

Row == [status : Statuses, cancellation_requested : BOOLEAN, profile : Profiles \cup {"none"},
        scheduled : BOOLEAN]

(* idle: not created; running: the status is RUNNING, nothing planned yet; *)
(* planning: the cancellation check passed; probing: in gather(); probed:  *)
(* _execute_validation() returned; failing: it raised; finishing: the final*)
(* check found no request; reconciling: terminal, results to be applied;   *)
(* discovered, built: inventory updated, snapshot captured; over: returned,*)
(* raised or lost.                                                         *)
Phases == {"idle", "created", "checking", "authorized", "running", "planning", "probing",
           "probed", "failing", "finishing", "reconciling", "discovered", "built", "over"}

Ended == {"skipped", "expired", "revoked", "unreached", "validated", "raised"}

(* In the order of _probe(): queued (not begun), waiting (for the          *)
(* semaphore), inside, verified (authorization read again), cleared (no    *)
(* request to cancel), reached (connected; protocol or TLS still to be     *)
(* validated).                                                             *)
ProbeStates == {"none", "queued", "waiting", "inside", "verified", "cleared", "reached"}
               \cup Ended

(* unchecked: candidate addresses the scope check has still to look at.    *)
Exec == [phase : Phases, unchecked : SUBSET Addresses, addresses : SUBSET Addresses,
         probe : [Probes -> ProbeStates], expired : BOOLEAN]

NoPort == 0

NoSnapshot == {NoPort}

TypeOK ==
  /\ row \in [Runs -> Row]
  /\ exec \in [Runs -> Exec]
  /\ allowed \subseteq Addresses
  /\ services \subseteq Ports
  /\ captures \in Seq(Runs)
  /\ snapshot \in [Runs -> (SUBSET Ports) \cup {NoSnapshot}]
  /\ conditions \subseteq Probes
  /\ past \in [Runs -> SUBSET Probes]
  /\ connects \in [Runs -> SUBSET Probes]
  /\ validates \in [Runs -> SUBSET Probes]
  /\ barred \in [Runs -> SUBSET Probes]
  /\ void \in [Runs -> BOOLEAN]
  /\ \A r \in Runs : exec[r].phase = "idle" <=> row[r].status = "absent"

NoProbes == [p \in Probes |-> "none"]

Init ==
  /\ row = [r \in Runs |-> [status |-> "absent", cancellation_requested |-> FALSE,
                            profile |-> "none", scheduled |-> FALSE]]
  /\ exec = [r \in Runs |-> [phase |-> "idle", unchecked |-> {}, addresses |-> {},
                             probe |-> NoProbes, expired |-> FALSE]]
  /\ allowed \in SUBSET Addresses
  /\ services = {}
  /\ captures = <<>>
  /\ snapshot = [r \in Runs |-> NoSnapshot]
  /\ conditions = {}
  /\ past = [r \in Runs |-> {}]
  /\ connects = [r \in Runs |-> {}]
  /\ validates = [r \in Runs |-> {}]
  /\ barred = [r \in Runs |-> {}]
  /\ void = [r \in Runs |-> FALSE]

-----------------------------------------------------------------------------
(* The run, up to its probes.                                              *)

(* A transition of the aggregate and its save: the update never writes     *)
(* cancellation_requested.                                                 *)
Become(r, from, status, phase) ==
  /\ exec[r].phase = from
  /\ row' = [row EXCEPT ![r].status = status]
  /\ exec' = [exec EXCEPT ![r].phase = phase]

AfterRequest == <<past, connects, validates>>

AtResults == <<allowed, services, captures, snapshot, conditions, AfterRequest, barred, void>>

(* Seeded fault: the run is in memory only.                                *)
CreateUnsaved(r) ==
  /\ exec[r].phase = "idle"
  /\ exec' = [exec EXCEPT ![r].phase = "created"]
  /\ UNCHANGED <<row, AtResults>>

(* The first save; a scheduled run belongs to a policy.                    *)
Create(r) ==
  /\ exec[r].phase = "idle"
  /\ \E profile \in Profiles, scheduled \in BOOLEAN :
       row' = [row EXCEPT ![r] = [status |-> "pending", cancellation_requested |-> FALSE,
                                  profile |-> profile, scheduled |-> scheduled]]
  /\ exec' = [exec EXCEPT ![r].phase = "created"]
  /\ UNCHANGED AtResults

BeginPolicyCheck(r) ==
  /\ exec[r].phase = "created"
  /\ row' = [row EXCEPT ![r].status = "policy_checking"]
  /\ exec' = [exec EXCEPT ![r].phase = "checking", ![r].unchecked = Addresses]
  /\ UNCHANGED AtResults

(* _authorize_addresses(): one candidate against the authorizations.       *)
CheckAddress(r, a) ==
  /\ exec[r].phase = "checking"
  /\ a \in exec[r].unchecked
  /\ exec' = [exec EXCEPT ![r].unchecked = @ \ {a},
                          ![r].addresses = IF a \in allowed THEN @ \cup {a} ELSE @]
  /\ UNCHANGED <<row, AtResults>>

Authorize(r) ==
  /\ exec[r].unchecked = {} /\ exec[r].addresses # {}
  /\ Become(r, "checking", "authorized", "authorized")
  /\ UNCHANGED AtResults

(* None is authorized.  (An asset of another type is denied as well.)      *)
Deny(r) ==
  /\ exec[r].unchecked = {} /\ exec[r].addresses = {}
  /\ Become(r, "checking", "denied", "over")
  /\ UNCHANGED AtResults

Start(r) ==
  /\ Become(r, "authorized", "running", "running")
  /\ UNCHANGED AtResults

CheckCancelled(r) ==
  /\ exec[r].phase = "running"
  /\ exec' = [exec EXCEPT ![r].phase = IF row[r].cancellation_requested
                                       THEN "probed" ELSE "planning"]
  /\ UNCHANGED <<row, AtResults>>

(* get_latest_for_policy(): where the saved snapshot captured last is, if  *)
(* there is one.                                                           *)
LatestSaved ==
  {k \in DOMAIN captures :
     /\ snapshot[captures[k]] # NoSnapshot
     /\ \A j \in DOMAIN captures : j > k => snapshot[captures[j]] = NoSnapshot}

PreviouslyKnownPorts(r) ==
  IF row[r].scheduled THEN UNION {snapshot[captures[k]] : k \in LatestSaved} ELSE {}

ProfilePorts(profile) ==
  CASE profile = "network_baseline" -> {}
    [] profile = "network_standard" -> CommonPorts
    [] OTHER -> CommonPorts \cup ExtendedPorts

(* build_plan(): the lowest MaxPorts of them.                              *)
BuildPlan(profile, known) ==
  LET ports == known \cup ProfilePorts(profile)
  IN  {p \in ports : Cardinality({q \in ports : q < p}) < MaxPorts}

Plan(r) ==
  /\ exec[r].phase = "planning"
  /\ LET ports == BuildPlan(row[r].profile, PreviouslyKnownPorts(r))
     IN  exec' = [exec EXCEPT ![r].phase = "probing",
                              ![r].probe = [p \in Probes |->
                                IF p[1] \in exec[r].addresses /\ p[2] \in ports
                                THEN "queued" ELSE "none"]]
  /\ barred' = [barred EXCEPT ![r] = {p \in Probes : p[1] \notin allowed}]
  /\ UNCHANGED <<row, allowed, services, captures, snapshot, conditions, AfterRequest, void>>

-----------------------------------------------------------------------------
(* _probe(), one coroutine per address and port.  They outlive gather()    *)
(* when one of them raises: nothing cancels the others.                    *)

Move(r, p, from, to) ==
  /\ exec[r].probe[p] = from
  /\ exec' = [exec EXCEPT ![r].probe[p] = to]

(* The deadline, and the first look for a cancellation.                    *)
Begin(r, p) ==
  /\ Move(r, p, "queued", IF exec[r].expired THEN "expired"
                          ELSE IF row[r].cancellation_requested THEN "skipped"
                          ELSE "waiting")
  /\ UNCHANGED <<row, AtResults>>

Holders(r) == {p \in Probes : exec[r].probe[p] \in {"inside", "verified", "cleared"}}

Acquire(r, p) ==
  /\ Cardinality(Holders(r)) < MaxConcurrency
  /\ Move(r, p, "waiting", "inside")
  /\ UNCHANGED <<row, AtResults>>

(* Seeded fault: the decision of the plan is used again.                   *)
ReverifyCached(r, p) ==
  /\ Move(r, p, "inside", IF p[1] \in exec[r].addresses THEN "verified" ELSE "revoked")
  /\ UNCHANGED <<row, AtResults>>

(* Seeded fault: a refused probe keeps its place in the semaphore.         *)
ReverifyLeaking(r, p) ==
  /\ p[1] \in allowed
  /\ Move(r, p, "inside", "verified")
  /\ UNCHANGED <<row, AtResults>>

(* _reverify_address()                                                     *)
Reverify(r, p) ==
  /\ Move(r, p, "inside", IF p[1] \in allowed THEN "verified" ELSE "revoked")
  /\ UNCHANGED <<row, AtResults>>

(* Seeded fault: no second look.                                           *)
ClearUnchecked(r, p) ==
  /\ Move(r, p, "verified", "cleared")
  /\ UNCHANGED <<row, AtResults>>

(* The second look for a cancellation.                                     *)
Clear(r, p) ==
  /\ Move(r, p, "verified", IF row[r].cancellation_requested THEN "skipped" ELSE "cleared")
  /\ UNCHANGED <<row, AtResults>>

(* p connects now: history records it when the run was asked to stop.      *)
Connecting(r, p) ==
  connects' = [connects EXCEPT ![r] = IF row[r].cancellation_requested THEN @ \cup {p} ELSE @]

Validating(r, p) ==
  validates' = [validates EXCEPT ![r] = IF row[r].cancellation_requested THEN @ \cup {p} ELSE @]

(* check_tcp_connectivity(), the end of the semaphore, and the observation.*)
Connect(r, p) ==
  /\ \E result \in {"reached", "unreached"} : Move(r, p, "cleared", result)
  /\ Connecting(r, p)
  /\ UNCHANGED <<row, allowed, services, captures, snapshot, conditions, past, validates,
                 barred, void>>

(* The TLS handshake or the protocol's validator connects again, if the    *)
(* port has one; neither the semaphore nor a cancellation holds it back.   *)
(* What a handshake finds is ingested at once, if the address is in the    *)
(* inventory and the ingestion succeeds.                                   *)
Validate(r, p) ==
  /\ Move(r, p, "reached", "validated")
  /\ IF p[2] \in ValidatedPorts THEN Validating(r, p) ELSE UNCHANGED validates
  /\ \/ UNCHANGED conditions
     \/ p[2] \in TlsPorts /\ conditions' = conditions \cup {p}
  /\ UNCHANGED <<row, allowed, services, captures, snapshot, past, connects, barred, void>>

(* A database call of the coroutine raises: the two looks, the              *)
(* authorization, and the observations that follow the connections (which  *)
(* do not raise themselves).  gather() raises with the first.              *)
Raise(r, p) ==
  /\ exec[r].probe[p] \notin Ended \cup {"none"}
  /\ exec[r].probe[p] = "reached" => p[2] \in ValidatedPorts
  /\ exec' = [exec EXCEPT ![r].probe[p] = "raised",
                          ![r].phase = IF @ = "probing" THEN "failing" ELSE @]
  /\ IF exec[r].probe[p] = "cleared" THEN Connecting(r, p) ELSE UNCHANGED connects
  /\ IF exec[r].probe[p] = "reached" THEN Validating(r, p) ELSE UNCHANGED validates
  /\ UNCHANGED <<row, allowed, services, captures, snapshot, conditions, past, barred, void>>

(* EXECUTION_DEADLINE_SECONDS have passed.                                 *)
Expire(r) ==
  /\ exec[r].phase = "probing"
  /\ ~exec[r].expired
  /\ exec' = [exec EXCEPT ![r].expired = TRUE]
  /\ UNCHANGED <<row, AtResults>>

Quiet(r) == \A p \in Probes : exec[r].probe[p] \in Ended \cup {"none"}

(* Seeded fault: the first result is waited for, not all of them.          *)
GatherFirst(r) ==
  /\ exec[r].phase = "probing"
  /\ \E p \in Probes : exec[r].probe[p] \in Ended
  /\ exec' = [exec EXCEPT ![r].phase = "probed"]
  /\ UNCHANGED <<row, AtResults>>

Gather(r) ==
  /\ exec[r].phase = "probing"
  /\ Quiet(r)
  /\ exec' = [exec EXCEPT ![r].phase = "probed"]
  /\ UNCHANGED <<row, AtResults>>

-----------------------------------------------------------------------------
(* The end of the run.                                                     *)

Fail(r) ==
  /\ Become(r, "failing", "failed", "over")
  /\ UNCHANGED AtResults

(* Seeded fault: no last look.                                             *)
LastCheckSkipped(r) ==
  /\ exec[r].phase = "probed"
  /\ exec' = [exec EXCEPT ![r].phase = "finishing"]
  /\ UNCHANGED <<row, AtResults>>

(* The last look for a cancellation; a cancelled run applies nothing.      *)
LastCheck(r) ==
  /\ exec[r].phase = "probed"
  /\ IF row[r].cancellation_requested
     THEN /\ row' = [row EXCEPT ![r].status = "cancelled"]
          /\ exec' = [exec EXCEPT ![r].phase = "over"]
     ELSE /\ exec' = [exec EXCEPT ![r].phase = "finishing"]
          /\ UNCHANGED row
  /\ UNCHANGED AtResults

(* COMPLETED unless an address was denied.                                 *)
Finish(r) ==
  /\ Become(r, "finishing", IF exec[r].addresses = Addresses
                            THEN "completed" ELSE "partially_completed", "reconciling")
  /\ UNCHANGED AtResults

ReachablePorts(r) == {p[2] : p \in {q \in Probes : exec[r].probe[q] = "validated"}}

(* run_discovery(): what was reached enters the inventory.  Only a run of a*)
(* policy goes on to a snapshot.                                           *)
Discover(r) ==
  /\ exec[r].phase = "reconciling"
  /\ services' = services \cup ReachablePorts(r)
  /\ exec' = [exec EXCEPT ![r].phase = IF row[r].scheduled THEN "discovered" ELSE "over"]
  /\ UNCHANGED <<row, allowed, captures, snapshot, conditions, AfterRequest, barred, void>>

(* NetworkStateSnapshot.build() takes captured_at; the save comes later.   *)
Capture(r) ==
  /\ exec[r].phase = "discovered"
  /\ captures' = Append(captures, r)
  /\ exec' = [exec EXCEPT ![r].phase = "built"]
  /\ UNCHANGED <<row, allowed, services, snapshot, conditions, AfterRequest, barred, void>>

SaveSnapshot(r) ==
  /\ exec[r].phase = "built"
  /\ snapshot' = [snapshot EXCEPT ![r] = ReachablePorts(r)]
  /\ exec' = [exec EXCEPT ![r].phase = "over"]
  /\ UNCHANGED <<row, allowed, services, captures, conditions, AfterRequest, barred, void>>

-----------------------------------------------------------------------------
(* The others.                                                             *)

(* History keeps which probes are past their last look when the first      *)
(* request is committed.                                                   *)
Asked(r) ==
  past' = [past EXCEPT ![r] = IF row[r].cancellation_requested THEN @
                              ELSE {p \in Probes : exec[r].probe[p] \in {"cleared", "reached"}}]

(* Seeded fault: the request is taken whatever has become of the run.      *)
RequestCancellationAnytime(r) ==
  /\ row[r].status # "absent"
  /\ row' = [row EXCEPT ![r].cancellation_requested = TRUE]
  /\ void' = [void EXCEPT ![r] = @ \/ (row[r].status = "denied"
                                       /\ ~row[r].cancellation_requested)]
  /\ Asked(r)
  /\ UNCHANGED <<exec, allowed, services, captures, snapshot, conditions, connects, validates, barred>>

(* One UPDATE that skips a terminal row (DENIED is not among the statuses  *)
(* it skips).                                                              *)
RequestCancellation(r) ==
  /\ row[r].status \notin (Terminal \ {"denied"}) \cup {"absent"}
  /\ row' = [row EXCEPT ![r].cancellation_requested = TRUE]
  /\ void' = [void EXCEPT ![r] = @ \/ (row[r].status = "denied"
                                       /\ ~row[r].cancellation_requested)]
  /\ Asked(r)
  /\ UNCHANGED <<exec, allowed, services, captures, snapshot, conditions, connects, validates, barred>>

(* An authorization is revoked or runs out, or another one is approved.    *)
Revoke(a) ==
  /\ a \in allowed
  /\ allowed' = allowed \ {a}
  /\ barred' = [r \in Runs |-> barred[r] \cup
                 {p \in Probes : p[1] = a /\ exec[r].probe[p] \in {"queued", "waiting", "inside"}}]
  /\ UNCHANGED <<row, exec, services, captures, snapshot, conditions, AfterRequest, void>>

Approve(a) ==
  /\ a \notin allowed
  /\ allowed' = allowed \cup {a}
  /\ barred' = [r \in Runs |-> {p \in barred[r] : p[1] # a}]
  /\ UNCHANGED <<row, exec, services, captures, snapshot, conditions, AfterRequest, void>>

(* create_and_run() raises outside of the probes, or the process is lost:  *)
(* the row stays as it is and the probes are gone.                         *)
Lose(r) ==
  /\ exec[r].phase # "idle"
  /\ exec[r].phase = "over" => ~Quiet(r)
  /\ exec' = [exec EXCEPT ![r].phase = "over", ![r].probe = NoProbes]
  /\ UNCHANGED <<row, AtResults>>

ProbeStep(r, p) ==
  \/ Begin(r, p) \/ Acquire(r, p) \/ Reverify(r, p) \/ Clear(r, p)
  \/ Connect(r, p) \/ Validate(r, p)

RunStep(r) ==
  \/ BeginPolicyCheck(r) \/ (\E a \in Addresses : CheckAddress(r, a))
  \/ Authorize(r) \/ Deny(r) \/ Start(r) \/ CheckCancelled(r) \/ Plan(r)
  \/ Gather(r) \/ Fail(r) \/ LastCheck(r) \/ Finish(r) \/ Discover(r) \/ Capture(r) \/ SaveSnapshot(r)

Next ==
  \/ \E r \in Runs : \/ Create(r) \/ RunStep(r)
                     \/ Expire(r) \/ RequestCancellation(r) \/ Lose(r)
                     \/ \E p \in Probes : ProbeStep(r, p) \/ Raise(r, p)
  \/ \E a \in Addresses : Revoke(a) \/ Approve(a)

(* The event loop resumes every coroutine, asyncio.Semaphore is handed on  *)
(* in the order of arrival, and every call has a time limit.               *)
Fairness ==
  \A r \in Runs : WF_vars(RunStep(r)) /\ \A p \in Probes : SF_vars(ProbeStep(r, p))

Spec == Init /\ [][Next]_vars /\ Fairness
-----------------------------------------------------------------------------
(* Properties.                                                             *)

(* After a request to cancel is committed only probes that were past their *)
(* last look at that moment still connect: those that hold the semaphore,  *)
(* at most MAX_CONCURRENCY, to their port, and those that go on to a TLS   *)
(* handshake or a validator once more.  The semaphore does not bound the   *)
(* latter, but no probe joins them, however long the plan is (_probe()).   *)
CancelStopsProbes ==
  \A r \in Runs : /\ Cardinality(connects[r]) <= MaxConcurrency
                  /\ connects[r] \cup validates[r] \subseteq past[r]

Connected == {"reached", "unreached", "validated"}

(* A probe whose address lost its authorization before the probe asked     *)
(* again does not connect, although the run was authorized and planned with*)
(* the address (_reverify_address()).                                      *)
RevokedNeverProbed ==
  \A r \in Runs : \A p \in barred[r] : exec[r].probe[p] \notin Connected

(* Neither inventory nor snapshot nor drift is updated by a run one of     *)
(* whose probes was skipped because of a cancellation: whatever request a  *)
(* probe saw, the end of the run sees too (create_and_run()).  The TLS     *)
(* conditions the other probes ingested stay.                              *)
SkippedIsNotApplied ==
  \A r \in Runs :
    (\E p \in Probes : exec[r].probe[p] = "skipped") =>
      /\ exec[r].phase \notin {"reconciling", "discovered", "built"}
      /\ snapshot[r] = NoSnapshot

(* A run whose row says it ended has no probe left, unless it FAILED: then *)
(* the probes gather() does not wait for go on after the end.              *)
EndsQuietly ==
  \A r \in Runs : row[r].status \in Terminal \ {"failed"} => Quiet(r)

(* A request that came only after the denial does not count as one.        *)
Requested(r) == row[r].cancellation_requested /\ ~void[r]

(* The run is lost and has left its row open.                              *)
Abandoned(r) == exec[r].phase = "over" /\ row[r].status \notin Terminal

(* The row of a run, seen from outside.                                    *)
Lifecycle(r) ==
  INSTANCE ExecutionLifecycle WITH status <- row[r].status, requested <- Requested(r),
                                   abandoned <- Abandoned(r)

(* NetworkRunStatus "mirrors ExecutionStatus's exact transition graph": the*)
(* row of every network run implements the life cycle of a validation      *)
(* execution, cancellation and the loss of the run included.               *)
RefinesLifecycle ==
  /\ \A r \in Runs : Lifecycle(r)!Init
  /\ [][\A r \in Runs : Lifecycle(r)!Next \/ UNCHANGED <<row[r].status, Requested(r), Abandoned(r)>>]_vars

(* Every run ends, and so do its probes, also those it left behind: nobody *)
(* waits forever for the semaphore (_probe(), gather()).                   *)
RunSettles ==
  \A r \in Runs : exec[r].phase = "created" ~> exec[r].phase = "over" /\ Quiet(r)

(* What the documentation says and the code does not do.                   *)

(* NETWORK_BASELINE: "revalidate previously-known services only (this      *)
(* authorized target's own current AIAsset SERVICE inventory)": a baseline *)
(* run of a policy plans every port of the inventory.                      *)
BaselineRevalidates ==
  [][\A r \in Runs :
       /\ exec[r].phase = "planning" /\ exec'[r].phase = "probing"
       /\ row[r].profile = "network_baseline" /\ row[r].scheduled
       => \A a \in exec[r].addresses, s \in services : exec'[r].probe[<<a, s>>] # "none"]_vars
=============================================================================
