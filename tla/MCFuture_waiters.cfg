CONSTANTS
  c1 = c1  c2 = c2  c3 = c3  v1 = v1  v2 = v2
  NoOutcome = NoOutcome
  Clients <- MCClients
  Mode <- MCMode
  Values <- MCValues
SPECIFICATION Spec
PROPERTY FutureSafe FutureLive
CHECK_DEADLOCK FALSE
