SPECIFICATION Spec
CONSTANTS
  c1 = c1  c2 = c2  c3 = c3
  k1 = k1  k2 = k2  k1x = k1x  blank = blank
  v1 = v1  v2 = v2
  NoValue = NoValue
  None = None
  Main = Main
  Clients = {c1, c2}
  Keys = {k1, k2, k1x, blank}
  Values = {v1, v2}
  BlankKey = blank
  InitialWorkers = 1
  Growth = 1
  Limit = 2
  EpollMayFail = TRUE
  SignalTargets <- MainAndWorker
  Frail = {c1}
  MaxRequests <- TwoEach
  RequestsOf <- OwnKeys
  Nulled <- MCNulled
INVARIANTS TypeOK AnswersExpected InStep ConnectionsAccounted QuietShutdown
PROPERTIES AppliesWhatWasSent
CHECK_DEADLOCK FALSE
