CONSTANTS
  Stmt = {1, 2, 3}
  HasResult = {2, 3}
SPECIFICATION Spec
CHECK_DEADLOCK FALSE
INVARIANTS NotClosedAtWork
