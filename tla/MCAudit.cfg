SPECIFICATION SafeSpec
CONSTANTS
  a1 = a1
  a2 = a2
  a3 = a3
  Action = {a1, a2, a3}
  Asked = 2
  Fault = {"database", "kill"}
  FaultBudget = 1
SYMMETRY Symmetry
INVARIANTS
  TypeOK
  LossesExplained
  PagesExplained
CHECK_DEADLOCK FALSE
