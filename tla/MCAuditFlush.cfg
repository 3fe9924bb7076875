SPECIFICATION SafeSpec
CONSTANTS
  a1 = a1
  a2 = a2
  a3 = a3
  Action = {a1, a2}
  Asked = 2
  Fault = {}
  FaultBudget = 0
INVARIANTS
  FlushedOnShutdown
CHECK_DEADLOCK FALSE
