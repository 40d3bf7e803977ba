SPECIFICATION Spec
CONSTANTS
  c1 = c1
  c2 = c2
  Plans <- MCBaselinePlans
  Triggers = {}
  Cancellers = {c1}
  MaxSteps = 6
  MaxAdaptive = 0
  MaxEvents = 200
  MaxObserved = 0
  RunnerMayRaise = FALSE
PROPERTIES
  CancelObserved
CHECK_DEADLOCK FALSE
