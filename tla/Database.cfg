CONSTANTS
  Stmt = {1, 2, 3}
  HasResult = {2, 3}
SPECIFICATION FairSpec
CHECK_DEADLOCK FALSE
INVARIANTS TypeOK CallbackAfterAll ResultHasSource
PROPERTIES ImplementsService ExecutedIsForwarded AwakeExecutesAll
