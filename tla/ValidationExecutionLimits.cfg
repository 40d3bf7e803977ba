SPECIFICATION Spec
CONSTANTS
  c1 = c1
  c2 = c2
  Plans <- MCDiscoveryPlan
  Triggers <- MCWebTriggers
  Cancellers = {c1, c2}
  MaxSteps = 4
  MaxAdaptive = 1
  MaxEvents = 9
  MaxObserved = 1
  RunnerMayRaise = FALSE
INVARIANTS
  EventLogDense
PROPERTIES
  RunSettles
CHECK_DEADLOCK FALSE
