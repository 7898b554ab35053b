SPECIFICATION LinSpec
CONSTANTS
  w1 = w1
  w2 = w2
  k1 = k1
  v1 = v1
  v2 = v2
  Workers = {w1, w2}
  Main = Main
  Keys = {k1}
  Values = {v1, v2}
  NoKey = NoKey
  NoValue = NoValue
  Nil = Nil
  Buckets = {1}
  NumQueues = 1
  TableLen = 2
  BlockSize = 2
  MaxBlocks = 1
  BucketOf <- MCBucketOf
  RequestsOf <- MCRequestsOf
  InitialDbs <- MCInitialDbs
INVARIANTS LinearizableUntilLate ListsProper NodesAccounted
PROPERTY CleaningKeepsSingles
