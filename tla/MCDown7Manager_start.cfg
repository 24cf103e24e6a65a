CONSTANTS
  f1 = f1  f2 = f2  f3 = f3
  Feeds <- MCFeeds
SPECIFICATION Spec
INVARIANT RollbackStopsStarted
CHECK_DEADLOCK FALSE
