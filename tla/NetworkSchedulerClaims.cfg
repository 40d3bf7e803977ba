SPECIFICATION Spec
CONSTANTS
  p1 = p1
  w1 = w1
  w2 = w2
  o1 = o1
  Policies = {p1}
  Workers = {w1, w2}
  Operators = {o1}
  Interval <- MCInterval
  Lease = 0
  RunBound = 1
  MaxClock = 2
  MaxFaults = 1
CHECK_DEADLOCK FALSE
INVARIANT TypeOK
PROPERTIES RefinesBoundaryRuns ResultBeforeAdvance DisabledIsFinalUnlessLost DueBoundaryRuns
