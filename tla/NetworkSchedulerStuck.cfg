SPECIFICATION Spec
CONSTANTS
  p1 = p1
  w1 = w1
  w2 = w2
  o1 = o1
  Policies = {p1}
  Workers = {w1}
  Operators = {o1}
  Interval <- MCInterval
  Lease = 1
  RunBound = 1
  MaxClock = 3
  MaxFaults = 1
CHECK_DEADLOCK FALSE
PROPERTY ScheduleMovesOn
