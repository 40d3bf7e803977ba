SPECIFICATION Spec
CONSTANTS
  r1 = r1
  r2 = r2
  a1 = a1
  a2 = a2
  Runs = {r1}
  Addresses = {a1, a2}
  CommonPorts = {443}
  ExtendedPorts = {}
  TlsPorts = {443}
  ProtocolPorts = {}
  MaxPorts = 2
  MaxConcurrency = 1
  Profiles = {"network_baseline", "network_standard"}
CHECK_DEADLOCK FALSE
INVARIANTS TypeOK CancelStopsProbes RevokedNeverProbed SkippedIsNotApplied EndsQuietly
PROPERTIES RefinesLifecycle RunSettles
