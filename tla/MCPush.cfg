SPECIFICATION Spec
CONSTANTS
  Endpoint = {e1, e2}
  Worker = {w1, w2}
  MaxAttempts = 2
  MaxId = 2
  Fault <- AllFaults
  FaultBudget = 1
INVARIANTS
  TypeOK
  ResponseTruthful
  PushesExplained
PROPERTIES
  SentLeavesNone
  EventuallyEnds
CHECK_DEADLOCK FALSE
