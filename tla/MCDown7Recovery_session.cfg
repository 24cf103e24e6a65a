\* Three sessions of down7_start() sharing the multicast receiver memory.
CONSTANTS
  p1 = p1
  p2 = p2
  p3 = p3
  NoProd = NoProd
  Prods <- MCProds
  MaxSessions = 3
SPECIFICATION Spec
INVARIANT TypeOK
INVARIANT FirstSessionSound
INVARIANT MissedNeverLost
PROPERTY FirstSessionRecovers
CHECK_DEADLOCK FALSE
