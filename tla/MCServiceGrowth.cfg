SPECIFICATION FairSpec
CONSTANTS
  c1 = c1  c2 = c2  c3 = c3
  k1 = k1  k2 = k2  k1x = k1x  blank = blank
  v1 = v1  v2 = v2
  NoValue = NoValue
  None = None
  Main = Main
  Clients = {c1, c2, c3}
  Keys = {k1, k2, k1x, blank}
  Values = {v1, v2}
  BlankKey = blank
  InitialWorkers = 1
  Growth = 2
  Limit = 1
  EpollMayFail = FALSE
  SignalTargets = {}
  Frail = {}
  MaxRequests <- NeverAsked
  RequestsOf <- OnlyGets
  Nulled <- MCNulled
PROPERTIES TakenOver
CHECK_DEADLOCK FALSE
