CONSTANTS
  d1 = d1  d2 = d2
  Progs <- MCProgs
  Vers <- MCVers
  Disps <- MCDisps
  SrvProg = 300029
  SrvVers = 7
  SrvDisp = d1
  DispatchMayDestroy = TRUE
  MaxCallouts = 3
  MaxConns = 2
SPECIFICATION Spec
INVARIANT NoUseAfterFree
