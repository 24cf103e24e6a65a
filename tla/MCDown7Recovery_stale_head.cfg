\* Two sessions of down7_start() sharing the multicast receiver memory.
CONSTANTS
  p1 = p1
  p2 = p2
  p3 = p3
  NoProd = NoProd
  Prods <- MCProds
  MaxSessions = 2
SPECIFICATION Spec
INVARIANT NoUnexpectedProduct
CHECK_DEADLOCK FALSE
