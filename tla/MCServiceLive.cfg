SPECIFICATION FairSpec
CONSTANTS
  c1 = c1  c2 = c2  c3 = c3
  k1 = k1  k2 = k2  k1x = k1x  blank = blank
  v1 = v1  v2 = v2
  NoValue = NoValue
  None = None
  Main = Main
  Clients = {c1, c2}
  Keys = {k1, k2, k1x, blank}
  Values = {v1, v2}
  BlankKey = blank
  InitialWorkers = 1
  Growth = 1
  Limit = 1
  EpollMayFail = TRUE
  SignalTargets = {Main}
  Frail = {c1}
  MaxRequests <- OneOrTwo
  RequestsOf <- OnlyGets
  Nulled <- MCNulled
INVARIANTS ConnectionsAccounted
PROPERTIES TakenOver Answered ShutdownEnds
CHECK_DEADLOCK FALSE
