SPECIFICATION Spec
CONSTANTS
  c1 = c1
  c2 = c2
  Plans <- MCAllPlans
  Triggers <- MCAllTriggers
  Cancellers = {c1}
  MaxSteps = 12
  MaxAdaptive = 8
  MaxEvents = 200
  MaxObserved = 0
  RunnerMayRaise = TRUE
INVARIANTS
  TypeOK
  CancelWindow
  RevocationWindow
  EarlyRevocationBlocks
  TerminalSettled
  CompletedMeansAll
  NoDuplicateStepType
  AnnouncedIsSaved
PROPERTIES
  ResultsAreFinal
  RefinesLifecycle
CHECK_DEADLOCK FALSE
