CONSTANT MaxSessions = 2
SPECIFICATION Spec
INVARIANT MlrNotUsedAfterFree
CHECK_DEADLOCK FALSE
