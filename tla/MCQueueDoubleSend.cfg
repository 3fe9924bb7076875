SPECIFICATION SafeSpec
CONSTANTS
  Delivery = {1, 2}
  Email = {1}
  Instance = {i1}
  BatchSize = 2
  MaxAttempts = 2
  StaleAfter = 1
  BackoffFirst = 1
  BackoffCap = 2
  Fault = {}
  FaultBudget = 2
  Backoff <- MCBackoff
INVARIANTS
  NeverDoubleSent
