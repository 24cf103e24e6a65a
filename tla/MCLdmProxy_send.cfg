\* lp_new(), lp_hiya(), lp_send() and lp_flush() against an LDM-5 or LDM-6
\* that answers, refuses or times out any call, over a connection that may
\* break at any point.
CONSTANTS
  NProds = 4
  Size <- MCSize
  DBUFMAX = 2
  HereisLimits = {1, 3}
  UpVersions = {5, 6}
SPECIFICATION Spec
INVARIANT DeliveryConfirmed
INVARIANT PacketsWithinLimits
\* The client returns after lp_free(); the LDM then has nothing to read.
CHECK_DEADLOCK FALSE
