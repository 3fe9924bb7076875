SPECIFICATION TrackingSpec
CONSTANTS
  Delivery = {1}
  Email = {1}
  Instance = {i1}
  BatchSize = 2
  MaxAttempts = 3
  StaleAfter = 2
  BackoffFirst = 1
  BackoffCap = 2
  Fault = {"crash", "late", "mark"}
  FaultBudget = 2
  Backoff <- MCBackoff
  Serial = {1, 2}
  EventType = {"email.bounced"}
  HasActor = {1}
INVARIANTS
  TrackingTypeOK
  OneEmailPerRow
  MissedOnlyEarly
PROPERTIES
  KeepsEvents
  ReportsReachTheLog
