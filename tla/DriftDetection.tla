---------------------------- MODULE DriftDetection ----------------------------
(***************************************************************************)
(* The pure part of M14: what a validation execution proves about the      *)
(* target (coverage of condition rules, the normalized snapshot) and how   *)
(* two snapshots are compared.                                             *)
(*                                                                         *)
(* A step of an execution is a record: its type, status, the port of its   *)
(* source_fact_ref (NoPort for a step of the initial plan), whether its    *)
(* protocol validated, and its evidence: the ports or addresses it saw, a  *)
(* certificate fingerprint, the rules it found violated.                   *)
(***************************************************************************)
EXTENDS Naturals, Sequences

CONSTANTS
  Ports,           \* ports that may be seen or validated
  Addresses,       \* what DNS may answer; each is an IP asset the target is linked to
  Fingerprints,    \* TLS certificate fingerprints
  SensitivePorts,  \* is_sensitive_port()
  TargetPort,      \* the port of the target's own endpoint
  TargetAsset,     \* the asset of the target itself
  Correlations     \* identity keys of M9 correlations

NoPort == 0

NoFingerprint == "none"

ASSUME PortsAssumption ==
  /\ Ports \subseteq Nat \ {NoPort}
  /\ SensitivePorts \subseteq Ports
  /\ TargetPort \in Ports
  /\ TargetAsset \notin Ports \cup Addresses
  /\ Addresses \cap Ports = {}
  /\ NoFingerprint \notin Fingerprints

ProtocolTypes == {"ssh_banner", "mysql_handshake", "postgresql_handshake", "redis_ping"}

StepTypes == {"dns_resolution", "port_discovery", "tls_handshake", "http_metadata",
              "http_security_headers"} \cup ProtocolTypes

(* _CONDITION_RULE_COVERAGE                                                *)
RuleCoverage ==
  [MISSING_HSTS_HEADER                   |-> {"http_security_headers"},
   MISSING_CSP_HEADER                    |-> {"http_security_headers"},
   MISSING_X_CONTENT_TYPE_OPTIONS_HEADER |-> {"http_security_headers"},
   TLS_CERTIFICATE_EXPIRED               |-> {"tls_handshake"},
   TLS_SELF_SIGNED_CERTIFICATE_OBSERVED  |-> {"tls_handshake"},
   DEPRECATED_TLS_PROTOCOL_OBSERVED      |-> {"tls_handshake"},
   SENSITIVE_SERVICE_OBSERVED            |-> {"port_discovery"},
   PLAINTEXT_SENSITIVE_SERVICE_OBSERVED  |-> ProtocolTypes]

Rules == DOMAIN RuleCoverage

PortScopedRules == {"PLAINTEXT_SENSITIVE_SERVICE_OBSERVED"}

(* An IP asset is named by its address, a service asset by its port.       *)
Assets == {TargetAsset} \cup Addresses \cup Ports

Step == [type : StepTypes, status : {"completed", "failed"}, port : Ports \cup {NoPort},
         validated : BOOLEAN, ports : SUBSET Ports, ips : SUBSET Addresses,
         fingerprint : Fingerprints \cup {NoFingerprint}, findings : SUBSET Rules]

(* A condition's identity: its rule and the asset it is about.             *)
Key == Rules \X Assets

-----------------------------------------------------------------------------
(* What a handshake or the headers reveal is ingested on the target's      *)
(* asset, whatever port the step looked at.                                *)
TargetConditions(s) ==
  IF s.type \in {"tls_handshake", "http_security_headers"}
  THEN {<<r, TargetAsset>> : r \in {x \in s.findings : s.type \in RuleCoverage[x]}}
  ELSE {}

(* A sensitive port, or a validated protocol without TLS, is ingested on   *)
(* the asset of the service.                                               *)
ServiceConditions(s) ==
  CASE s.type = "port_discovery" ->
         {<<"SENSITIVE_SERVICE_OBSERVED", p>> : p \in s.ports \cap SensitivePorts}
    [] s.type \in ProtocolTypes /\ s.validated /\ s.port # NoPort ->
         {<<r, s.port>> : r \in s.findings \cap PortScopedRules}
    [] OTHER -> {}

StepConditions(s) ==
  IF s.status = "completed" THEN TargetConditions(s) \cup ServiceConditions(s) ELSE {}

Observed(steps) == UNION {StepConditions(steps[i]) : i \in DOMAIN steps}

(* Seeded fault: a step that was tried and failed counts as a re-check.    *)
StepProvidesCoverageTried(s, types) ==
  /\ s.type \in types
  /\ s.type \in ProtocolTypes => s.validated

StepProvidesCoverage(s, types) ==
  /\ s.type \in types
  /\ s.status = "completed"
  /\ s.type \in ProtocolTypes => s.validated

CoveringSteps(steps, rule) ==
  {i \in DOMAIN steps : StepProvidesCoverage(steps[i], RuleCoverage[rule])}

CoveredRules(steps) == {r \in Rules : CoveringSteps(steps, r) # {}}

CoveredPorts(steps, rule) == {steps[i].port : i \in CoveringSteps(steps, rule)} \ {NoPort}

(* _related_asset_ids(): the target's asset and what it is directly linked *)
(* to.  Discovery links the target to its IP assets, these to a host and   *)
(* the host to the services, so no service asset is among them.            *)
RelatedAssets == {TargetAsset} \cup Addresses

(* _asset_ports(): the "port" in the metadata of an asset.  Nothing writes *)
(* that key, on any asset: _enrich_validated_service() stamps the protocol,*)
(* the validator and what it learned.                                      *)
AssetPort(asset) == NoPort

(* The gate of _resolve_absent_conditions() for one condition.             *)
Covers(steps, key) ==
  /\ key[1] \in CoveredRules(steps)
  /\ key[1] \in PortScopedRules =>
       /\ AssetPort(key[2]) # NoPort
       /\ AssetPort(key[2]) \in CoveredPorts(steps, key[1])

-----------------------------------------------------------------------------
(* The snapshot.                                                           *)

ServicePort(s) == IF s.port = NoPort THEN TargetPort ELSE s.port

IsService(s) ==
  /\ s.status = "completed"
  /\ \/ s.type \in {"tls_handshake", "http_metadata"}
     \/ s.type \in ProtocolTypes /\ s.validated

(* A ServiceSnapshotEntry; the type of a step stands for its protocol and  *)
(* its validator.                                                          *)
ServiceEntry(s) ==
  [protocol |-> s.type,
   fingerprint |-> IF s.type = "tls_handshake" THEN s.fingerprint ELSE NoFingerprint]

Entry == [protocol : StepTypes, fingerprint : Fingerprints \cup {NoFingerprint}]

(* The entries sorted by port (a stable sort): per port, in step order.    *)
Services(steps) ==
  [p \in Ports |->
     LET of == SelectSeq(steps, LAMBDA s : IsService(s) /\ ServicePort(s) = p)
     IN  [i \in DOMAIN of |-> ServiceEntry(of[i])]]

CompletedOf(steps, type) ==
  {i \in DOMAIN steps : steps[i].type = type /\ steps[i].status = "completed"}

(* build_snapshot_from_execution(): what was not completed is not there.   *)
BuildSnapshot(steps, conditions, correlations) ==
  [ips          |-> UNION {steps[i].ips : i \in CompletedOf(steps, "dns_resolution")},
   ports        |-> UNION {steps[i].ports : i \in CompletedOf(steps, "port_discovery")},
   services     |-> Services(steps),
   conditions   |-> conditions,
   correlations |-> correlations]

-----------------------------------------------------------------------------
(* The comparison.  An event is a category and an identity key.            *)

NoEntry == [protocol |-> "none", fingerprint |-> NoFingerprint]

(* {s.port: s for s in services}: of several entries for a port, the last. *)
EntryFor(snapshot, p) ==
  LET of == snapshot.services[p] IN IF of = <<>> THEN NoEntry ELSE of[Len(of)]

ServiceDriftCategories(old, new) ==
  {c \in {"protocol_validated", "protocol_no_longer_validated", "protocol_changed",
          "tls_certificate_changed"} :
     CASE c = "protocol_validated" -> old = NoEntry /\ new # NoEntry
       [] c = "protocol_no_longer_validated" -> old # NoEntry /\ new = NoEntry
       [] c = "protocol_changed" ->
            old # NoEntry /\ new # NoEntry /\ old.protocol # new.protocol
       [] OTHER ->
            /\ NoFingerprint \notin {old.fingerprint, new.fingerprint}
            /\ old.fingerprint # new.fingerprint}

ServiceDrift(old, new) ==
  UNION {{<<c, p>> : c \in ServiceDriftCategories(EntryFor(old, p), EntryFor(new, p))} :
           p \in Ports}

Change(old, new, appeared, gone) ==
  {<<appeared, x>> : x \in new \ old} \cup {<<gone, x>> : x \in old \ new}

ConditionDrift(old, new, reactivated) ==
  {<<IF k \in reactivated THEN "condition_reactivated" ELSE "condition_appeared", k>> :
     k \in new \ old}
  \cup {<<"condition_resolved", k>> : k \in old \ new}

(* detect_drift() of two snapshots; without a previous one, and between    *)
(* identical ones (content_fingerprint), there is none.                    *)
DetectDrift(old, new, reactivated) ==
  IF old = new THEN {}
  ELSE Change(old.ips, new.ips, "ip_observed", "ip_no_longer_observed")
       \cup Change(old.ports, new.ports, "port_became_reachable", "port_no_longer_reachable")
       \cup ServiceDrift(old, new)
       \cup ConditionDrift(old.conditions, new.conditions, reactivated)
       \cup Change(old.correlations, new.correlations,
                   "correlation_appeared", "correlation_resolved")
=============================================================================
