CONSTANTS
  p1 = p1
  p2 = p2
  w1 = w1
  w2 = w2
  Policies = {p1}
  Workers = {w1, w2}
  Interval <- MCIntervalOne
  Lease = 1
  RunBound = 1
  MaxClock = 5
  MaxFaults = 2
SPECIFICATION Spec
CHECK_DEADLOCK FALSE
INVARIANT TypeOK
INVARIANT ClaimExclusive
PROPERTY RefinesBoundaryRuns
PROPERTY NoSilentSkip
PROPERTY BacklogCoalesced
PROPERTY DisabledIsFinal
PROPERTY DueBoundaryRuns
