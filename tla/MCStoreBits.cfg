SPECIFICATION HistorySpec
CONSTANTS
  w1 = w1
  w2 = w2
  k1 = k1
  k2 = k2
  v1 = v1
  Workers = {w1, w2}
  Keys = {k1, k2}
  Values = {v1}
  NoKey = NoKey
  NoValue = NoValue
  NoWorker = NoWorker
  Files = {1, 2}
  TableLen = 1
  MaxEntries = 2
  MaxCrashes = 0
  OpenOutcomes = {TRUE}
  FileOf <- MCFileOf
  SlotOf <- MCSlotOf
  RequestsOf <- MCRequestsOf
PROPERTIES StoreIsMap
