SPECIFICATION Spec
CONSTANTS
  r1 = r1
  r2 = r2
  a1 = a1
  a2 = a2
  Runs = {r1, r2}
  Addresses = {a1}
  CommonPorts = {22}
  ExtendedPorts = {}
  TlsPorts = {}
  ProtocolPorts = {22}
  MaxPorts = 2
  MaxConcurrency = 1
  Profiles = {"network_baseline", "network_standard"}
CHECK_DEADLOCK FALSE
PROPERTY BaselineRevalidates
