SPECIFICATION Spec
CONSTANTS
  ip1 = ip1
  f1 = f1
  f2 = f2
  Ports = {443, 8443}
  Addresses = {ip1}
  Fingerprints = {f1, f2}
  SensitivePorts = {}
  TargetPort = 443
  TargetAsset = TargetAsset
  Correlations = {}
  Workers = {w1}
  Outcomes <- CertificateOutcomes
  Foreign = {}
  MaxForeign = 0
  MaxRuns = 2
CHECK_DEADLOCK FALSE
INVARIANT CertificateChangeReported
