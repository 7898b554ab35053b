SPECIFICATION HistorySpec
CONSTANTS
  w1 = w1
  w2 = w2
  k1 = k1
  k2 = k2
  k3 = k3
  v1 = v1
  v2 = v2
  Workers = {w1, w2}
  Keys = {k1, k2, k3}
  Values = {v1, v2}
  NoKey = NoKey
  NoValue = NoValue
  NoWorker = NoWorker
  Files = {1}
  TableLen = 1
  MaxEntries = 4
  MaxCrashes = 1
  OpenOutcomes = {TRUE, FALSE}
  FileOf <- MCFileOf
  SlotOf <- MCSlotOf
  RequestsOf <- MCRequestsOf
INVARIANTS TypeOK LocksMatchCalls RingsWhole KeysAreLinked
PROPERTIES FilesGuarded StoreIsMap LockGivenBack
