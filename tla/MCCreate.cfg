SPECIFICATION SafeSpec
CONSTANTS
  u1 = u1
  User = {u1}
  Channel <- MCChannel
  Reader = {1, 2}
  Wish <- MCWish
  Patch <- MCPatch
  Tenant <- MCTenant
  ChangeBudget = 3
  Fault <- AllFaults
  FaultBudget = 1
  Outside = Outside
  Invalid = Invalid
INVARIANTS
  TypeOK
  ResolvedWasInForce
  RefusalLeavesNothing
  DuplicatesExplained
  EmailIsWhole
  LogAgreesWithFeed
  NothingMissing
  OptOutHonoured
CHECK_DEADLOCK FALSE
