CONSTANTS
  p1 = p1
  p2 = p2
  w1 = w1
  w2 = w2
  Policies = {p1}
  Workers = {w1, w2}
  Interval <- MCIntervalOne
  Lease = 1
  RunBound = 1
  MaxClock = 5
  MaxFaults = 1
SPECIFICATION Spec
CHECK_DEADLOCK FALSE
PROPERTY FailedBoundaryRetried
