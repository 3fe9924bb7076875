SPECIFICATION SafeSpec
CONSTANTS
  Endpoint = {e1, e2}
  Worker = {w1}
  MaxAttempts = 3
  MaxId = 2
  Fault <- LoadFaults
  FaultBudget = 1
INVARIANTS
  NoRepush
CHECK_DEADLOCK FALSE
