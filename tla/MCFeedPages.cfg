SPECIFICATION SafeSpec
CONSTANTS
  Row = {1, 2, 3, 4, 5}
  ResourceOf <- MCResourceOf
  Accessible <- MCAccessible
  Asked = 2
INVARIANTS
  PagesExplained
CHECK_DEADLOCK FALSE
