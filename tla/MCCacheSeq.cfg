SPECIFICATION LRUSpec
CONSTANTS
  w1 = w1
  k1 = k1
  k2 = k2
  k3 = k3
  v1 = v1
  v2 = v2
  Workers = {w1}
  Main = Main
  Keys = {k1, k2, k3}
  Values = {v1, v2}
  NoKey = NoKey
  NoValue = NoValue
  Nil = Nil
  Buckets = {1, 2}
  NumQueues = 1
  TableLen = 2
  BlockSize = 2
  MaxBlocks = 1
  BucketOf <- MCBucketOf
  RequestsOf <- MCRequestsOf
  InitialDbs <- MCInitialDbs
INVARIANTS ListsProper NodesAccounted OneNodePerKey NeverCrashes InOrderOfUse
PROPERTIES ImplementsMap CleaningKeepsValues EveryRequestAnswered CleaningEnds
