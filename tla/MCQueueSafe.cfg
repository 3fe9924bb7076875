SPECIFICATION Spec
CONSTANTS
  Delivery = {1}
  Email = {}
  Instance = {i1, i2}
  BatchSize = 1
  MaxAttempts = 2
  StaleAfter = 2
  BackoffFirst = 1
  BackoffCap = 2
  Fault = {"crash", "stop", "claim", "mark", "late"}
  FaultBudget = 1
  Backoff <- MCBackoff
INVARIANTS
  TypeOK
  ClaimExclusive
  AttemptsAccounted
  DuplicatesExplained
  
PROPERTIES
  TerminalIsFinal
  
  RowsEnd
