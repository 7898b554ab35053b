SPECIFICATION Spec
CONSTANTS
  w1 = w1
  w2 = w2
  k1 = k1
  k2 = k2
  k3 = k3
  v1 = v1
  Workers = {w1, w2}
  Main = Main
  Keys = {k1, k2, k3}
  Values = {v1}
  NoKey = NoKey
  NoValue = NoValue
  Nil = Nil
  Buckets = {1, 2}
  NumQueues = 2
  TableLen = 2
  BlockSize = 1
  MaxBlocks = 2
  BucketOf <- MCBucketOf
  RequestsOf <- MCRequestsOf
  InitialDbs <- MCInitialDbs
INVARIANTS TypeOK MutualExclusion LocksMatchPlaces NoLockDeadlock OnlyLocksBlock NeverMarkedOut
PROPERTIES HeadsGuarded
