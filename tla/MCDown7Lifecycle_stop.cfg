\* down7_stop() against every point of two sessions of down7_start().
CONSTANTS
  MaxSessions = 2
SPECIFICATION Spec
INVARIANT NoSelfDeadlock
PROPERTY StopEndsProcess
CHECK_DEADLOCK FALSE
