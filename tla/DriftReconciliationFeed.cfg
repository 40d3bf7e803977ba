SPECIFICATION Spec
CONSTANTS
  ip1 = ip1
  f1 = f1
  f2 = f2
  Ports = {443, 8443}
  Addresses = {ip1}
  Fingerprints = {f1, f2}
  SensitivePorts = {}
  TargetPort = 443
  TargetAsset = TargetAsset
  Correlations = {}
  Workers = {w1, w2}
  Outcomes <- MCOutcomes
  Foreign <- MCForeign
  MaxForeign = 1
  MaxRuns = 3
CHECK_DEADLOCK FALSE
SYMMETRY WorkerSymmetry
INVARIANTS TypeOK DriftExplained ChangeFeedFaithful AppearedIsNew
PROPERTY ResolvedWasRechecked
