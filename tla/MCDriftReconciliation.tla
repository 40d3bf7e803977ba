------------------------ MODULE MCDriftReconciliation ------------------------
(* Instances of DriftReconciliation for TLC.                               *)
EXTENDS DriftReconciliation, TLC

CONSTANTS ip1, f1, f2

Completed(type, port) ==
  [type |-> type, status |-> "completed", port |-> port, validated |-> TRUE, ports |-> {},
   ips |-> {}, fingerprint |-> NoFingerprint, findings |-> {}]

Dns == [Completed("dns_resolution", NoPort) EXCEPT !.ips = {ip1}]

Discovery(ports) == [Completed("port_discovery", NoPort) EXCEPT !.ports = ports]

Tls(fingerprint, findings) ==
  [Completed("tls_handshake", 443) EXCEPT !.fingerprint = fingerprint, !.findings = findings]

Http == Completed("http_metadata", 443)

Headers(findings) == [Completed("http_security_headers", 443) EXCEPT !.findings = findings]

Expired == {"TLS_CERTIFICATE_EXPIRED"}

(* A run that finds an expired certificate; one that finds it in order; one*)
(* that sees another port and whose handshake fails.                       *)
MCOutcomes ==
  {<<Dns, Discovery({443}), Tls(f1, Expired), Http, Headers({})>>,
   <<Dns, Discovery({443}), Tls(f2, {}), Http, Headers({})>>,
   <<Dns, Discovery({443, 8443}), [Tls(f1, {}) EXCEPT !.status = "failed"], Http, Headers({})>>}

(* A network run finds an expired certificate at the address, too.         *)
MCForeign == {<<"TLS_CERTIFICATE_EXPIRED", ip1>>}

(* An HTTPS target with two certificates.                                  *)
CertificateOutcomes ==
  {<<Dns, Discovery({443}), Tls(f, findings), Http, Headers({})>> :
     f \in {f1, f2}, findings \in {{}, Expired}}

WorkerSymmetry == Permutations(Workers)
=============================================================================
