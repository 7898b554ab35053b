------------------------- MODULE KVCacheListProofs --------------------------
(***************************************************************************)
(* Where every node of the cache is, proved for every number of workers,   *)
(* keys, values, nodes, buckets and LRU queues, as long as calls do not    *)
(* overlap: the bucket lists and the LRU queues are proper lists, no node is*)
(* lost or at two places, no two linked nodes hold one key, and an eviction*)
(* that a worker asks for finds a victim.                                  *)
(*                                                                         *)
(* MapInv is the inductive invariant: the lists are given by sequences of  *)
(* nodes (bt for the buckets, qu for the queues), and every place of a call*)
(* has the facts the code relies on there (AtWork).                        *)
(***************************************************************************)
EXTENDS KVCacheViews, KVCacheProofs

Evicting == {"evict", "scan", "peek", "lockvictim", "unlink", "writeback"}
Making   == Evicting \cup {"new", "acquire", "fill", "publish", "insert"}
Holding  == {"fill", "publish", "insert", "writeback"}

(* An idle thread has nothing in hand; a busy one runs in its own phase;   *)
(* the cleaning thread only evicts.                                        *)
Quiet ==
  /\ phase # "crashed"
  /\ \A t \in Threads : /\ pc[t] = "idle" => loc[t] = NoLocals /\ req[t] = NoMessage
                        /\ pc[t] # "idle" => phase = (IF t = Main THEN "cleaning" ELSE "serving")
  /\ pc[Main] \in Evicting \cup {"idle"} /\ req[Main] = NoMessage

Home(n) == BucketOf[entry[n].key]

(* What is true of a node from its filling to its write-back. *)
Filled(n) == /\ entry[n].key \in Keys
             /\ \/ entry[n].dirty = "TODELETE"
                \/ entry[n].dirty = "DIRTY" /\ entry[n].value # NoValue

(* bt and qu: the nodes of the bucket lists and of the LRU queues, in      *)
(* order.                                                                  *)
Shape(bt, qu) == InOrder(ht, Buckets, Node, bt) /\ InOrder(lru, Queue, Node, qu)

(* A linked node is filled, and linked in the bucket of its key and in the *)
(* queue it remembers; no two hold one key.                                *)
Shelved(bt, qu) ==
  /\ \A b \in Buckets : \A n \in Range(bt[b]) :
       Filled(n) /\ Home(n) = b /\ n \in Range(qu[entry[n].lruIdx])
  /\ \A q \in Queue : \A n \in Range(qu[q]) : entry[n].lruIdx = q /\ n \in Range(bt[Home(n)])
  /\ \A b \in Buckets : \A m, n \in Range(bt[b]) : entry[m].key = entry[n].key => m = n

Loose(bt, qu, n) == /\ \A b \in Buckets : n \notin Range(bt[b])
                    /\ \A q \in Queue : n \notin Range(qu[q])

Allocated == (1..pool.blocks) \X (1..BlockSize)

Pooled(bt, qu) ==
  phase = "serving" =>
    /\ pool.blocks # 0
    /\ \A i, j \in 1..Len(pool.free) : pool.free[i] = pool.free[j] => i = j
    /\ \A n \in Range(pool.free) : /\ n \in Allocated /\ Loose(bt, qu, n)
                                   /\ \A w \in Workers : loc[w].slot # n
    /\ \A n \in Allocated : \/ n \in Range(pool.free) \/ n \in Range(bt[Home(n)])
                            \/ \E w \in Workers : loc[w].slot = n
    /\ \A b \in Buckets : Range(bt[b]) \subseteq Allocated
    /\ \A w \in Workers : IF pc[w] \in Holding THEN loc[w].slot \in Allocated
                                               ELSE loc[w].slot = Nil

Asked(t) == /\ req[t].op \in {"GET", "PUT", "DELETE"} /\ req[t].key \in Keys
            /\ req[t].op = "PUT" => req[t].value \in Values

(* No linked node holds the key k. *)
Absent(bt, k) == \A b \in Buckets : \A n \in Range(bt[b]) : entry[n].key # k

Searching(t, s) ==
  /\ loc[t].bucket = Bucket(t)
  /\ \/ loc[t].node = Nil /\ \A j \in 1..Len(s) : entry[s[j]].key # req[t].key
     \/ \E i \in 1..Len(s) : /\ loc[t].node = s[i]
                             /\ \A j \in 1..(i - 1) : entry[s[j]].key # req[t].key

Found(t, bt) ==
  LET n == loc[t].node
      e == entry[n]
  IN /\ n \in Range(bt[Bucket(t)]) /\ e.key = req[t].key
     /\ pc[t] = "touch" => /\ req[t].op = "GET" /\ loc[t].queue = e.lruIdx
                           /\ e.dirty # "TODELETE" => req[t].value = e.value
     /\ pc[t] # "touch" => /\ req[t].op \in {"PUT", "DELETE"}
                           /\ req[t].op = "DELETE" => e.dirty # "TODELETE"

(* The queues the scan has seen were empty. *)
Scanned(t) ==
  \E start \in Queue :
     /\ loc[t].queue = (start + loc[t].scans) % NumQueues
     /\ evictIdx = (start + loc[t].scans + 1) % NumQueues
     /\ \A i \in 0..(loc[t].scans - 1) : lru.head[(start + i) % NumQueues] = Nil

(* What thread t relies on at its place. *)
AtWork(t, bt, qu) ==
  /\ t \in Workers /\ pc[t] # "idle" => Asked(t)
  /\ pc[t] = "walk" => Searching(t, bt[Bucket(t)])
  /\ pc[t] \in {"touch", "relock", "update"} => Found(t, bt)
  /\ pc[t] \in Making =>
       /\ Absent(bt, req[t].key)
       /\ t \in Workers => req[t].op \in {"GET", "PUT"}
       /\ req[t].op = "GET" => req[t].value = db[req[t].key] /\ req[t].value # NoValue
  /\ pc[t] = "acquire" => ~PoolEmpty(pool)
  /\ t \in Workers /\ pc[t] \in Evicting => PoolEmpty(pool)
  /\ pc[t] = "scan" => Scanned(t)
  /\ pc[t] \in {"peek", "lockvictim", "unlink"} => lru.head[loc[t].queue] # Nil
  /\ pc[t] \in {"lockvictim", "unlink"} => loc[t].bucket = Home(lru.tail[loc[t].queue])
  /\ pc[t] \in Holding => Loose(bt, qu, loc[t].slot)
  /\ pc[t] = "writeback" =>
       LET v == loc[t].slot
       IN Filled(v) /\ Absent(bt, entry[v].key) /\ entry[v].key # req[t].key
  /\ pc[t] \in {"publish", "insert"} =>
       entry[loc[t].slot] = SetAll(req[t], loc[t].queue) /\ loc[t].bucket = Bucket(t)

Good(bt, qu) == /\ Shape(bt, qu) /\ Shelved(bt, qu) /\ Pooled(bt, qu)
                /\ \A t \in Threads : AtWork(t, bt, qu)

MapInv == Quiet /\ \E bt, qu : Good(bt, qu)

-----------------------------------------------------------------------------
(* Thread t is the only one that does anything. *)
Working(t) == /\ At(t, pc[t]) /\ pc[t] # "idle" /\ \A s \in Threads \ {t} : pc[s] = "idle"

(* A thread that takes a step is busy, in its own phase. *)
LEMMA StepIsAtWork ==
  ASSUME NEW t \in Threads, Step(t)
  PROVE  At(t, pc[t]) /\ pc[t] # "idle"
<1>1. CASE Search(t) \/ Get(t)
      BY <1>1 DEF Search, Get, LockForSearch, WalkOn, GetHit, GetTouch, GetMissFound,
                  GetMissAbsent, Hit, Miss, At
<1>2. CASE Put(t) \/ Delete(t) \/ Relock(t)
      BY <1>2 DEF Put, Delete, Relock, PutHit, PutUpdate, PutMiss, DeleteHitDeleted,
                  DeleteHit, DeleteMark, DeleteMiss, Hit, Miss, At
<1>3. CASE PutNew(t)
      BY <1>3 DEF PutNew, NewEntry, Acquire, Fill, LockForInsert, Insert, At
<1>4. CASE Eviction(t)
      BY <1>4 DEF Eviction, EvictBegin, ScanOn, ScanFound, ScanNothing, Peek,
                  LockVictimBucket, UnlinkVictim, WriteBack, At
<1> QED BY <1>1, <1>2, <1>3, <1>4 DEF Step

(* While calls do not overlap, a busy thread is the only one. *)
LEMMA BusyAlone ==
  ASSUME Quiet, OneAtATime, NEW t \in Threads, At(t, pc[t]), pc[t] # "idle"
  PROVE  Working(t)
<1> SUFFICES ASSUME NEW s \in Threads \ {t}, pc[s] # "idle"
             PROVE  FALSE
    BY DEF Working
<1>1. (s = Main) = (t = Main)
      BY DEF Quiet, At
<1>2. s \in Workers /\ t \in Workers
      BY <1>1, CacheAssumption DEF Threads
<1> QED BY <1>2 DEF OneAtATime

(* A step of one thread changes no other's request. *)
LEMMA RequestsAlone ==
  ASSUME TypeOK, NEW t \in Threads, Step(t)
  PROVE  \A s \in Threads \ {t} : req'[s] = req[s]
<1>0. req \in [Threads -> Messages]
      BY DEF TypeOK
<1>1. CASE Search(t) \/ Get(t)
      BY <1>0, <1>1 DEF Search, Get, LockForSearch, WalkOn, GetHit, GetTouch, GetMissFound,
                        GetMissAbsent, Finish
<1>2. CASE Put(t) \/ Delete(t) \/ Relock(t)
      BY <1>0, <1>2 DEF Put, Delete, Relock, PutHit, PutUpdate, PutMiss, DeleteHitDeleted,
                        DeleteHit, DeleteMark, DeleteMiss, Finish
<1>3. CASE PutNew(t)
      BY <1>0, <1>3 DEF PutNew, NewEntry, Acquire, Fill, LockForInsert, Insert, Crash,
                        Finish, threadVars
<1>4. CASE Eviction(t)
      BY <1>0, <1>4 DEF Eviction, EvictBegin, ScanOn, ScanFound, ScanNothing, Peek,
                        LockVictimBucket, UnlinkVictim, WriteBack, Crash, threadVars
<1> QED BY <1>1, <1>2, <1>3, <1>4 DEF Step

(* An idle thread relies on nothing. *)
LEMMA IdleAtWork ==
  ASSUME NEW s, NEW bt, NEW qu, pc'[s] = "idle"
  PROVE  AtWork(s, bt, qu)'
BY DEF AtWork, Making, Evicting, Holding

(* The parts of the invariant that are not about places. *)
Sound(bt, qu) == Shape(bt, qu) /\ Shelved(bt, qu) /\ Pooled(bt, qu)

(* A step that changes neither lists, nodes nor the pool, nor what threads *)
(* hold, keeps them.                                                       *)
LEMMA LooksKeepSound ==
  ASSUME NEW bt, NEW qu, Sound(bt, qu), UNCHANGED <<ht, lru, entry, pool>>,
         phase' = "serving" =>
           /\ phase = "serving"
           /\ \A w \in Workers : /\ loc'[w].slot = loc[w].slot
                                 /\ pc'[w] \in Holding <=> pc[w] \in Holding
  PROVE  Sound(bt, qu)'
<1>1. Shape(bt, qu)' /\ Shelved(bt, qu)'
      BY DEF Sound, Shape, Shelved, Filled, Home
<1>2. Pooled(bt, qu)'
      BY DEF Sound, Pooled, Allocated, Loose, Home
<1> QED BY <1>1, <1>2 DEF Sound

(* What a step leaves for its thread is enough: the others are idle. *)
LEMMA TakesOver ==
  ASSUME NEW t \in Threads, TypeOK, Working(t), Step(t), NEW bt, NEW qu,
         Sound(bt, qu)', AtWork(t, bt, qu)'
  PROVE  Good(bt, qu)'
<1>1. \A s \in Threads \ {t} : pc'[s] = "idle"
      BY StepAlone DEF Working
<1>2. \A s \in Threads \ {t} : AtWork(s, bt, qu)'
      BY <1>1, IdleAtWork
<1> QED BY <1>2 DEF Good, Sound

-----------------------------------------------------------------------------
(* The steps that only look.                                              *)

(* What the steps of one thread start from. *)
Ready(t, bt, qu) == /\ LockInv /\ Quiet /\ Working(t)
                    /\ Sound(bt, qu) /\ AtWork(t, bt, qu)

(* The types and list facts a step starts from. *)
LEMMA ReadyTypes ==
  ASSUME NEW t \in Threads, NEW bt, NEW qu, Ready(t, bt, qu)
  PROVE  /\ TypeOK /\ InOrder(ht, Buckets, Node, bt) /\ InOrder(lru, Queue, Node, qu)
         /\ loc[t] \in Locals /\ loc \in [Threads -> Locals]
         /\ pc \in [Threads -> Places]
         /\ req[t] \in Messages /\ req \in [Threads -> Messages]
         /\ Bucket(t) \in Buckets
BY BucketType DEF Ready, LockInv, TypeOK, Sound, Shape

(* The search: locking the bucket, and going from node to node. *)
LEMMA SearchKeeps ==
  ASSUME NEW t \in Threads, NEW bt, NEW qu, Ready(t, bt, qu), Search(t)
  PROVE  Sound(bt, qu)' /\ AtWork(t, bt, qu)'
<1> DEFINE s == bt[Bucket(t)]
<1>0. /\ loc[t] \in Locals /\ loc \in [Threads -> Locals] /\ pc \in [Threads -> Places]
      /\ Bucket(t) \in Buckets /\ InOrder(ht, Buckets, Node, bt)
      BY ReadyTypes
<1>1. UNCHANGED <<req, entry, ht, lru, pool, phase, ret>> /\ Bucket(t)' = Bucket(t)
      BY DEF Search, LockForSearch, WalkOn, htVars, lruVars, LockShared, Bucket
<1>2. pc'[t] = "walk" /\ pc[t] \in {"lookup", "walk"} /\ loc'[t].slot = loc[t].slot
      BY <1>0 DEF Search, LockForSearch, WalkOn, At, Goto, Locals
<1>3. \A w \in Threads \ {t} : pc'[w] = pc[w] /\ loc'[w] = loc[w]
      BY <1>0 DEF Search, LockForSearch, WalkOn, Goto
<1>4. Sound(bt, qu)'
      <2>1. \A w \in Workers : /\ loc'[w].slot = loc[w].slot
                               /\ pc'[w] \in Holding <=> pc[w] \in Holding
            BY <1>2, <1>3 DEF Holding, Threads
      <2> QED BY <1>1, <2>1, LooksKeepSound DEF Ready
<1>5. Searching(t, s)'
      <2>1. CASE LockForSearch(t)
            <3>1. /\ loc'[t].bucket = Bucket(t) /\ loc'[t].node = ht.head[Bucket(t)]
                  BY <1>0, <2>1 DEF LockForSearch, Locals
            <3>2. CASE ht.head[Bucket(t)] = Nil
                  <4>1. Range(s) = {}
                        BY <1>0, <3>2, OrderedEnds
                  <4>2. \A j \in 1..Len(s) : s[j] \in Range(s)
                        BY <1>0, OrderedNodes
                  <4> QED BY <1>1, <3>1, <3>2, <4>1, <4>2 DEF Searching
            <3>3. CASE ht.head[Bucket(t)] # Nil
                  <4>1. 1 \in 1..Len(s) /\ ht.head[Bucket(t)] = s[1]
                        BY <1>0, <3>3, OrderedHead
                  <4> QED BY <1>1, <3>1, <4>1 DEF Searching
            <3> QED BY <3>2, <3>3
      <2>2. CASE WalkOn(t)
            <3>1. /\ loc[t].node # Nil /\ entry[loc[t].node].key # req[t].key
                  /\ pc[t] = "walk"
                  /\ loc' = [loc EXCEPT ![t].node = ht.next[loc[t].node]]
                  BY <2>2 DEF WalkOn, entry_equals, At
            <3>2. loc'[t].bucket = loc[t].bucket /\ loc'[t].node = ht.next[loc[t].node]
                  BY <1>0, <3>1 DEF Locals
            <3>3. Searching(t, s)
                  BY <3>1 DEF Ready, AtWork
            <3>4. PICK i \in 1..Len(s) : /\ loc[t].node = s[i]
                                         /\ \A j \in 1..(i - 1) : entry[s[j]].key # req[t].key
                  BY <3>1, <3>3 DEF Searching
            <3>5. ht.next[s[i]] = IF i = Len(s) THEN Nil ELSE s[i + 1]
                  BY <1>0, <3>4 DEF InOrder, IsList
            <3>6. Len(s) \in Nat
                  BY <1>0 DEF InOrder
            <3>7. \A j \in 1..i : entry[s[j]].key # req[t].key
                  BY <3>1, <3>4, <3>6
            <3>8. loc'[t].bucket = Bucket(t)
                  BY <3>2, <3>3 DEF Searching
            <3>9. CASE i = Len(s)
                  BY <1>1, <3>2, <3>4, <3>5, <3>7, <3>8, <3>9 DEF Searching
            <3>10. CASE i # Len(s)
                  <4>1. i + 1 \in 1..Len(s) /\ (i + 1) - 1 = i
                        BY <3>6, <3>10
                  <4> QED BY <1>1, <3>2, <3>4, <3>5, <3>7, <3>8, <3>10, <4>1 DEF Searching
            <3> QED BY <3>9, <3>10
      <2> QED BY <2>1, <2>2 DEF Search
<1>6. AtWork(t, bt, qu)'
      <2>1. t \in Workers => Asked(t)'
            BY <1>1, <1>2 DEF Ready, AtWork, Asked
      <2> QED BY <1>1, <1>2, <1>5, <2>1 DEF AtWork, Making, Evicting, Holding
<1> QED BY <1>4, <1>6

(* A step that only looks, for one thread among idle ones. *)
LEMMA LooksKeep ==
  ASSUME NEW t \in Threads, NEW bt, NEW qu, Ready(t, bt, qu), Step(t),
         UNCHANGED <<ht, lru, entry, pool>>, phase' # "serving" \/ phase' = phase,
         pc'[t] \in Holding <=> pc[t] \in Holding,
         \/ loc'[t].slot = loc[t].slot
         \/ pc[t] \notin Holding /\ loc'[t].slot = Nil
  PROVE  Sound(bt, qu)'
<1>1. \A w \in Threads \ {t} : pc'[w] = pc[w] /\ loc'[w] = loc[w]
      BY ReadyTypes, StepAlone
<1>2. t \in Workers /\ phase = "serving" /\ pc[t] \notin Holding => loc[t].slot = Nil
      BY DEF Ready, Sound, Pooled
<1>3. ASSUME phase' = "serving", NEW w \in Workers
      PROVE  loc'[w].slot = loc[w].slot /\ (pc'[w] \in Holding <=> pc[w] \in Holding)
      BY <1>1, <1>2, <1>3 DEF Threads
<1> QED BY <1>3, LooksKeepSound DEF Ready

(* A search that stops at a node has found a linked one with its key, and  *)
(* one that stops at the end has met every node the key could be in.       *)
LEMMA HitIsFound ==
  ASSUME NEW t \in Threads, NEW bt, NEW qu, Ready(t, bt, qu), NEW op, Hit(t, op)
  PROVE  /\ loc[t].node \in Range(bt[Bucket(t)]) /\ entry[loc[t].node].key = req[t].key
         /\ loc[t].bucket = Bucket(t) /\ pc[t] = "walk" /\ req[t].op = op
         /\ t \in Workers
<1>1. pc[t] = "walk" /\ loc[t].node # Nil /\ entry[loc[t].node].key = req[t].key /\ req[t].op = op
      BY DEF Hit, At, entry_equals
<1>2. Searching(t, bt[Bucket(t)])
      BY <1>1 DEF Ready, AtWork
<1>3. PICK i \in 1..Len(bt[Bucket(t)]) : loc[t].node = bt[Bucket(t)][i]
      BY <1>1, <1>2 DEF Searching
<1>4. t \in Workers
      BY <1>1 DEF Ready, Quiet, Evicting, Threads
<1> QED BY <1>1, <1>2, <1>3, <1>4, ReadyTypes, OrderedNodes DEF Searching

(* A search that meets the end has shown that no node holds the key. *)
LEMMA MissIsAbsent ==
  ASSUME NEW t \in Threads, NEW bt, NEW qu, Ready(t, bt, qu), NEW op, Miss(t, op)
  PROVE  /\ Absent(bt, req[t].key) /\ pc[t] = "walk" /\ req[t].op = op
         /\ loc[t].bucket = Bucket(t) /\ t \in Workers
<1>0. Nil \notin Node
      BY CacheAssumption
<1>1. pc[t] = "walk" /\ loc[t].node = Nil /\ req[t].op = op
      BY DEF Miss, At
<1>2. Searching(t, bt[Bucket(t)])
      BY <1>1 DEF Ready, AtWork
<1>3. \A j \in 1..Len(bt[Bucket(t)]) : entry[bt[Bucket(t)][j]].key # req[t].key
      <2> SUFFICES ASSUME NEW i \in 1..Len(bt[Bucket(t)]), Nil = bt[Bucket(t)][i] PROVE FALSE
          BY <1>1, <1>2 DEF Searching
      <2> QED BY <1>0, ReadyTypes, OrderedNodes
<1>4. \A n \in Range(bt[Bucket(t)]) : entry[n].key # req[t].key
      BY <1>3, ReadyTypes, OrderedNodes, SMTT(30)
<1>5. Absent(bt, req[t].key)
      BY <1>4 DEF Absent, Ready, Sound, Shelved, Home, Bucket
<1>6. t \in Workers
      BY <1>1 DEF Ready, Quiet, Evicting, Threads
<1> QED BY <1>1, <1>2, <1>5, <1>6 DEF Searching

(* The searches that end, and the calls that return without a node. *)
LEMMA HitKeeps ==
  ASSUME NEW t \in Threads, NEW bt, NEW qu, Ready(t, bt, qu),
         GetHit(t) \/ PutHit(t) \/ DeleteHit(t) \/ Relock(t)
  PROVE  Sound(bt, qu)' /\ AtWork(t, bt, qu)'
<1> DEFINE n == loc[t].node
<1>0. /\ loc[t] \in Locals /\ loc \in [Threads -> Locals] /\ pc \in [Threads -> Places]
      /\ req[t] \in Messages /\ req \in [Threads -> Messages]
      BY ReadyTypes
<1>1. UNCHANGED <<entry, ht, lru, pool, phase, ret>>
      BY DEF GetHit, PutHit, DeleteHit, Relock, htVars, lruVars
<1>2. /\ pc[t] \notin Holding /\ pc'[t] \in {"touch", "relock", "update"}
      /\ loc'[t].slot = loc[t].slot /\ loc'[t].node = loc[t].node
      BY <1>0 DEF GetHit, PutHit, DeleteHit, Relock, Hit, At, Goto, Locals, Holding
<1>3. Step(t)
      BY DEF Step, Get, Put, Delete
<1>4. Sound(bt, qu)'
      BY <1>1, <1>2, <1>3, LooksKeep DEF Holding
<1>5. /\ t \in Workers /\ req[t].op # "NONE"
      /\ n \in Range(bt[Bucket(t)]) /\ entry[n].key = req[t].key
      <2>1. CASE Relock(t)
            <3>1. pc[t] = "relock"
                  BY <2>1 DEF Relock, At
            <3>2. t \in Workers
                  BY <3>1 DEF Ready, Quiet, Evicting, Threads
            <3> QED BY <3>1, <3>2 DEF Ready, AtWork, Found
      <2> QED BY <2>1, HitIsFound DEF GetHit, PutHit, DeleteHit
<1>6. /\ req'[t].op = req[t].op /\ req'[t].key = req[t].key /\ Bucket(t)' = Bucket(t)
      /\ req[t].op = "PUT" => req'[t].value = req[t].value
      <2>1. CASE GetHit(t)
            <3>1. /\ \E v : req' = [req EXCEPT ![t].value = v]
                  /\ req[t].op = "GET"
                  BY <2>1 DEF GetHit, Hit
            <3> QED BY <1>0, <1>5, <3>1 DEF Bucket, Messages, NoMessage
      <2>2. CASE PutHit(t) \/ DeleteHit(t) \/ Relock(t)
            BY <2>2 DEF PutHit, DeleteHit, Relock, Bucket
      <2> QED BY <2>1, <2>2
<1>7. Asked(t)'
      <2>1. Asked(t)
            BY <1>5 DEF Ready, AtWork, Working
      <2> QED BY <1>6, <2>1 DEF Asked
<1>8. Found(t, bt)'
      <2>1. CASE GetHit(t)
            <3>1. /\ pc'[t] = "touch" /\ req[t].op = "GET"
                  /\ loc' = [loc EXCEPT ![t].queue = entry[n].lruIdx]
                  /\ req' = [req EXCEPT ![t].value =
                               IF entry[n].dirty = "TODELETE" THEN req[t].value ELSE entry[n].value]
                  BY <1>0, <1>5, <2>1 DEF GetHit, Hit, Goto, Messages, NoMessage
            <3>2. loc'[t].queue = entry[n].lruIdx
                  BY <1>0, <3>1 DEF Locals
            <3>3. entry[n].dirty # "TODELETE" => req'[t].value = entry[n].value
                  BY <1>0, <1>5, <3>1 DEF Messages, NoMessage
            <3> QED BY <1>1, <1>2, <1>5, <1>6, <3>1, <3>2, <3>3 DEF Found
      <2>2. CASE PutHit(t)
            <3>1. pc'[t] = "relock" /\ req[t].op = "PUT"
                  BY <1>0, <2>2 DEF PutHit, Hit, Goto
            <3> QED BY <1>1, <1>2, <1>5, <1>6, <3>1 DEF Found
      <2>3. CASE DeleteHit(t)
            <3>1. pc'[t] = "relock" /\ req[t].op = "DELETE" /\ entry[n].dirty # "TODELETE"
                  BY <1>0, <2>3 DEF DeleteHit, Hit, Goto
            <3> QED BY <1>1, <1>2, <1>5, <1>6, <3>1 DEF Found
      <2>4. CASE Relock(t)
            <3>1. pc'[t] = "update" /\ pc[t] = "relock"
                  BY <1>0, <2>4 DEF Relock, At, Goto
            <3>2. Found(t, bt)
                  BY <3>1 DEF Ready, AtWork
            <3> QED BY <1>1, <1>2, <1>5, <1>6, <3>1, <3>2 DEF Found
      <2> QED BY <2>1, <2>2, <2>3, <2>4
<1> QED BY <1>2, <1>4, <1>7, <1>8 DEF AtWork, Making, Evicting, Holding

(* A search that found nothing, and goes on to make a node. *)
LEMMA MissKeeps ==
  ASSUME NEW t \in Threads, NEW bt, NEW qu, Ready(t, bt, qu),
         GetMissFound(t) \/ PutMiss(t)
  PROVE  Sound(bt, qu)' /\ AtWork(t, bt, qu)'
<1>0. /\ loc[t] \in Locals /\ loc \in [Threads -> Locals] /\ pc \in [Threads -> Places]
      /\ req[t] \in Messages /\ req \in [Threads -> Messages]
      BY ReadyTypes
<1>1. UNCHANGED <<entry, ht, lru, pool, phase, ret, db, loc>>
      BY DEF GetMissFound, PutMiss, htVars, lruVars
<1>2. pc[t] \notin Holding /\ pc'[t] = "new"
      BY <1>0 DEF GetMissFound, PutMiss, Miss, At, Goto, Holding
<1>3. Step(t)
      BY DEF Step, Get, Put
<1>4. Sound(bt, qu)'
      BY <1>1, <1>2, <1>3, LooksKeep DEF Holding
<1>5. Absent(bt, req[t].key) /\ t \in Workers /\ req[t].op \in {"GET", "PUT"}
      BY MissIsAbsent DEF GetMissFound, PutMiss
<1>6. /\ req'[t].op = req[t].op /\ req'[t].key = req[t].key
      /\ req[t].op = "PUT" => req'[t].value = req[t].value
      /\ req[t].op = "GET" => req'[t].value = db[req[t].key] /\ db[req[t].key] # NoValue
      BY <1>0, <1>5 DEF GetMissFound, PutMiss, Miss, Messages, NoMessage
<1>7. Asked(t)'
      BY <1>5, <1>6 DEF Ready, AtWork, Asked, Working
<1>8. Absent(bt, req[t].key)'
      BY <1>1, <1>5, <1>6 DEF Absent
<1> QED BY <1>1, <1>2, <1>4, <1>5, <1>6, <1>7, <1>8 DEF AtWork, Making, Evicting, Holding

(* The returns that touch no list. *)
LEMMA ReturnKeeps ==
  ASSUME NEW t \in Threads, NEW bt, NEW qu, Ready(t, bt, qu),
         GetMissAbsent(t) \/ DeleteHitDeleted(t) \/ DeleteMiss(t)
  PROVE  Sound(bt, qu)' /\ AtWork(t, bt, qu)'
<1>0. /\ loc \in [Threads -> Locals] /\ pc \in [Threads -> Places]
      BY ReadyTypes
<1>1. UNCHANGED <<entry, ht, lru, pool, phase>>
      BY DEF GetMissAbsent, DeleteHitDeleted, DeleteMiss, htVars, lruVars
<1>2. pc[t] = "walk" /\ \E ok, v : Finish(t, ok, v)
      BY DEF GetMissAbsent, DeleteHitDeleted, DeleteMiss, Hit, Miss, At
<1>3. pc'[t] = "idle" /\ loc'[t] = NoLocals
      BY <1>0, <1>2 DEF Finish, Goto
<1>4. pc[t] \notin Holding /\ pc'[t] \notin Holding /\ loc'[t].slot = Nil
      BY <1>2, <1>3 DEF NoLocals, Holding
<1>5. Step(t)
      BY DEF Step, Get, Delete
<1>6. Sound(bt, qu)'
      BY <1>1, <1>4, <1>5, LooksKeep
<1> QED BY <1>3, <1>6, IdleAtWork

-----------------------------------------------------------------------------
(* Counting on modulo n only needs what was counted modulo n. *)
LEMMA ModOfNext ==
  ASSUME NEW n \in Nat \ {0}, NEW c \in Nat
  PROVE  (c + 1) % n = ((c % n) + 1) % n
<1> DEFINE q == c \div n
           r == c % n
<1>1. q \in Nat /\ r \in 0..n - 1 /\ c = n * q + r
      OBVIOUS
<1> HIDE DEF q, r
<1>2. \A k \in Nat, i \in 0..n - 1 : (n * k + i) % n = i
      OBVIOUS
<1>3. CASE r + 1 < n
      <2>1. c + 1 = n * q + (r + 1) /\ r + 1 \in 0..n - 1
            BY <1>1, <1>3
      <2>2. (c + 1) % n = r + 1
            BY <1>1, <1>2, <2>1
      <2>3. (r + 1) % n = r + 1
            BY <1>1, <1>3
      <2> QED BY <2>2, <2>3 DEF r
<1>4. CASE r + 1 = n
      <2>1. c + 1 = n * (q + 1) + 0
            BY <1>1, <1>4
      <2>2. (c + 1) % n = 0
            BY <1>1, <1>2, <2>1
      <2>3. (r + 1) % n = 0
            BY <1>4
      <2> QED BY <2>2, <2>3 DEF r
<1> QED BY <1>1, <1>3, <1>4

(* A whole round from any queue meets every queue. *)
LEMMA RoundMeetsAll ==
  ASSUME NEW s \in Queue, NEW q \in Queue
  PROVE  \E i \in 0..(NumQueues - 1) : (s + i) % NumQueues = q
<1>0. NumQueues \in Nat \ {0} /\ s \in 0..(NumQueues - 1) /\ q \in 0..(NumQueues - 1)
      BY CacheAssumption DEF Queue
<1>1. CASE q >= s
      <2>1. (q - s) \in 0..(NumQueues - 1) /\ s + (q - s) = q /\ q % NumQueues = q
            BY <1>0, <1>1
      <2> QED BY <2>1
<1>2. CASE q < s
      <2>1. /\ (q - s + NumQueues) \in 0..(NumQueues - 1)
            /\ s + (q - s + NumQueues) = q + NumQueues
            BY <1>0, <1>2
      <2>2. (q + NumQueues) % NumQueues = q
            BY <1>0
      <2> QED BY <2>1, <2>2
<1> QED BY <1>0, <1>1, <1>2

(* The steps that change one thread's place and its queue, at most. *)
LEMMA PlaceKeeps ==
  ASSUME NEW t \in Threads, NEW bt, NEW qu, Ready(t, bt, qu),
         NewEntry(t) \/ LockForInsert(t) \/ ScanFound(t) \/ LockVictimBucket(t)
  PROVE  Sound(bt, qu)' /\ AtWork(t, bt, qu)'
<1>0. /\ loc[t] \in Locals /\ loc \in [Threads -> Locals] /\ pc \in [Threads -> Places]
      BY ReadyTypes
<1>1. UNCHANGED <<entry, ht, lru, pool, phase, ret, req, db, loc, evictIdx>>
      BY DEF NewEntry, LockForInsert, ScanFound, LockVictimBucket, htVars, lruVars, idxVars
<1>2. pc[t] \in Making /\ (pc'[t] \in Holding <=> pc[t] \in Holding)
      BY <1>0 DEF NewEntry, LockForInsert, ScanFound, LockVictimBucket, At, Goto,
                  Holding, Making, Evicting
<1>3. Step(t)
      BY DEF Step, PutNew, Eviction
<1>4. Sound(bt, qu)'
      BY <1>1, <1>2, <1>3, LooksKeep
<1>5. t \in Workers => Asked(t)'
      BY <1>1, <1>2 DEF Ready, Working, AtWork, Asked
<1>6. Absent(bt, req[t].key)'
      BY <1>1, <1>2 DEF Ready, AtWork, Absent
<1>7. /\ t \in Workers => req[t].op \in {"GET", "PUT"}
      /\ req[t].op = "GET" => req[t].value = db[req[t].key] /\ req[t].value # NoValue
      BY <1>2 DEF Ready, AtWork
<1>8. CASE NewEntry(t)
      <2>1. pc'[t] = IF PoolEmpty(pool) THEN "evict" ELSE "acquire"
            BY <1>0, <1>8 DEF NewEntry, Goto
      <2> QED BY <1>1, <1>4, <1>5, <1>6, <1>7, <2>1 DEF AtWork, Evicting, Holding
<1>9. CASE LockForInsert(t)
      <2>1. pc[t] = "publish" /\ pc'[t] = "insert"
            BY <1>0, <1>9 DEF LockForInsert, Goto, At
      <2>2. Loose(bt, qu, loc[t].slot)'
            BY <1>1, <2>1 DEF Ready, AtWork, Holding, Loose
      <2>3. (entry[loc[t].slot] = SetAll(req[t], loc[t].queue) /\ loc[t].bucket = Bucket(t))'
            BY <1>1, <2>1 DEF Ready, AtWork, SetAll, Bucket
      <2> QED BY <1>1, <1>4, <1>5, <1>6, <1>7, <2>1, <2>2, <2>3 DEF AtWork, Evicting, Holding
<1>10. CASE ScanFound(t)
      <2>1. pc[t] = "scan" /\ pc'[t] = "peek" /\ lru.head[loc[t].queue] # Nil
            BY <1>0, <1>10 DEF ScanFound, Goto, At
      <2>2. t \in Workers => PoolEmpty(pool)
            BY <2>1 DEF Ready, AtWork, Evicting
      <2> QED BY <1>1, <1>4, <1>5, <1>6, <1>7, <2>1, <2>2 DEF AtWork, Evicting, Holding
<1>11. CASE LockVictimBucket(t)
      <2>1. pc[t] = "lockvictim" /\ pc'[t] = "unlink"
            BY <1>0, <1>11 DEF LockVictimBucket, Goto, At
      <2>2. /\ t \in Workers => PoolEmpty(pool)
            /\ lru.head[loc[t].queue] # Nil /\ loc[t].bucket = Home(lru.tail[loc[t].queue])
            BY <2>1 DEF Ready, AtWork, Evicting
      <2> QED BY <1>1, <1>4, <1>5, <1>6, <1>7, <2>1, <2>2 DEF AtWork, Evicting, Holding, Home
<1> QED BY <1>8, <1>9, <1>10, <1>11

(* The scan for a queue with a node: the queues it has seen are empty. *)
LEMMA ScanKeeps ==
  ASSUME NEW t \in Threads, NEW bt, NEW qu, Ready(t, bt, qu),
         EvictBegin(t) \/ ScanOn(t)
  PROVE  Sound(bt, qu)' /\ AtWork(t, bt, qu)'
<1>0. /\ loc[t] \in Locals /\ loc \in [Threads -> Locals] /\ pc \in [Threads -> Places]
      /\ evictIdx \in Queue /\ NumQueues \in Nat \ {0}
      BY ReadyTypes, CacheAssumption DEF TypeOK
<1>1. UNCHANGED <<entry, ht, lru, pool, phase, ret, req, db>>
      BY DEF EvictBegin, ScanOn, htVars, lruVars
<1>2. /\ pc[t] \in {"evict", "scan"} /\ pc'[t] = "scan"
      /\ loc'[t].slot = loc[t].slot
      BY <1>0 DEF EvictBegin, ScanOn, At, Goto, Locals
<1>3. Step(t)
      BY DEF Step, Eviction
<1>4. Sound(bt, qu)'
      BY <1>1, <1>2, <1>3, LooksKeep DEF Holding
<1>5. t \in Workers => Asked(t)'
      BY <1>1, <1>2 DEF Ready, Working, AtWork, Asked
<1>6. /\ Absent(bt, req[t].key)'
      /\ t \in Workers => req[t].op \in {"GET", "PUT"} /\ PoolEmpty(pool)
      /\ req[t].op = "GET" => req[t].value = db[req[t].key] /\ req[t].value # NoValue
      BY <1>1, <1>2 DEF Ready, AtWork, Absent, Making, Evicting
<1>7. Scanned(t)'
      <2>1. CASE EvictBegin(t)
            <3>1. /\ loc'[t].queue = evictIdx /\ loc'[t].scans = 0
                  /\ evictIdx' = (evictIdx + 1) % NumQueues
                  BY <1>0, <2>1 DEF EvictBegin, Stepped, Locals
            <3>2. evictIdx + 0 = evictIdx /\ evictIdx % NumQueues = evictIdx
                  /\ 0..(0 - 1) = {} /\ evictIdx + 0 + 1 = evictIdx + 1
                  BY <1>0 DEF Queue
            <3> QED BY <1>0, <3>1, <3>2 DEF Scanned
      <2>2. CASE ScanOn(t)
            <3> DEFINE k == loc[t].scans
            <3>1. /\ loc'[t].queue = evictIdx /\ loc'[t].scans = k + 1 /\ k \in Nat
                  /\ evictIdx' = (evictIdx + 1) % NumQueues
                  /\ pc[t] = "scan" /\ lru.head[loc[t].queue] = Nil
                  BY <1>0, <2>2, CacheAssumption DEF ScanOn, Stepped, At, Locals
            <3>2. PICK start \in Queue :
                    /\ loc[t].queue = (start + k) % NumQueues
                    /\ evictIdx = (start + k + 1) % NumQueues
                    /\ \A i \in 0..(k - 1) : lru.head[(start + i) % NumQueues] = Nil
                  BY <3>1 DEF Ready, AtWork, Scanned
            <3>3. start + k + 1 \in Nat /\ start + (k + 1) = start + k + 1
                  /\ start + (k + 1) + 1 = (start + k + 1) + 1
                  BY <1>0, <3>1 DEF Queue
            <3>4. evictIdx' = ((start + k + 1) + 1) % NumQueues
                  BY <1>0, <3>1, <3>2, <3>3, ModOfNext
            <3>5. \A i \in 0..((k + 1) - 1) : lru.head[(start + i) % NumQueues] = Nil
                  <4>1. \A i \in 0..((k + 1) - 1) : i \in 0..(k - 1) \/ i = k
                        BY <3>1
                  <4> QED BY <3>1, <3>2, <4>1
            <3> QED BY <1>1, <3>1, <3>2, <3>3, <3>4, <3>5 DEF Scanned
      <2> QED BY <2>1, <2>2
<1> QED BY <1>1, <1>2, <1>4, <1>5, <1>6, <1>7 DEF AtWork, Making, Evicting, Holding

(* What Shelved and the shape say together of a linked node. *)
LEMMA LinkedNode ==
  ASSUME NEW bt, NEW qu, Sound(bt, qu), TypeOK, NEW b \in Buckets, NEW n \in Range(bt[b])
  PROVE  /\ n \in Node /\ Filled(n) /\ Home(n) = b
         /\ entry[n] \in Entries /\ entry[n].lruIdx \in Queue
         /\ n \in Range(qu[entry[n].lruIdx])
<1>1. n \in Node
      BY OrderedNodes DEF Sound, Shape
<1>2. entry[n] \in Entries
      BY <1>1 DEF TypeOK
<1> QED BY <1>1, <1>2 DEF Sound, Shelved, Entries

(* What Shelved and the shape say together of a queued node. *)
LEMMA QueuedNode ==
  ASSUME NEW bt, NEW qu, Sound(bt, qu), TypeOK, NEW q \in Queue, NEW n \in Range(qu[q])
  PROVE  /\ n \in Node /\ Home(n) \in Buckets /\ n \in Range(bt[Home(n)])
         /\ entry[n].lruIdx = q
<1>1. n \in Node
      BY OrderedNodes DEF Sound, Shape
<1>2. entry[n] \in Entries
      BY <1>1 DEF TypeOK
<1>3. Home(n) \in Buckets
      BY <1>2, CacheAssumption DEF Home, Entries
<1> QED BY <1>1, <1>3 DEF Sound, Shelved

(* The blocks of the pool are blocks of nodes. *)
LEMMA AllocatedNodes == ASSUME TypeOK PROVE Allocated \subseteq Node
<1>1. pool.blocks \in 0..MaxBlocks
      BY DEF TypeOK, Pools
<1> QED BY <1>1, BlockAssumption DEF Allocated, Node

(* While a worker asks for a victim every node is on some queue. *)
LEMMA VictimExists ==
  ASSUME NEW t \in Workers, NEW bt, NEW qu, Ready(t, bt, qu), pc[t] = "scan"
  PROVE  \E q \in Queue : lru.head[q] # Nil
<1> DEFINE n == <<1, 1>>
<1>0. t \in Threads /\ t # Main
      BY CacheAssumption DEF Threads
<1>1. TypeOK /\ InOrder(lru, Queue, Node, qu)
      BY <1>0, ReadyTypes
<1>2. phase = "serving" /\ PoolEmpty(pool)
      BY <1>0 DEF Ready, Working, At, AtWork, Evicting
<1>3. n \in Allocated /\ n # Nil
      <2>1. pool.blocks \in Nat \ {0}
            BY <1>1, <1>2 DEF Ready, Sound, Pooled, TypeOK, Pools
      <2>2. n \in Allocated
            BY <2>1, BlockAssumption DEF Allocated
      <2> QED BY <1>1, <2>2, AllocatedNodes, CacheAssumption
<1>4. \A w \in Workers : loc[w].slot = Nil
      <2>1. \A w \in Workers : pc[w] \notin Holding
            BY <1>0 DEF Ready, Working, Holding, Threads
      <2> QED BY <1>2, <2>1 DEF Ready, Sound, Pooled
<1>5. n \notin Range(pool.free)
      BY <1>2 DEF PoolEmpty, Range
<1>6. n \in Range(bt[Home(n)])
      BY <1>2, <1>3, <1>4, <1>5 DEF Ready, Sound, Pooled
<1>7. Home(n) \in Buckets
      <2>1. n \in Node
            BY <1>1, <1>3, AllocatedNodes
      <2>2. entry[n] \in Entries
            BY <1>1, <2>1 DEF TypeOK
      <2> QED BY <2>2, CacheAssumption DEF Home, Entries
<1>8. entry[n].lruIdx \in Queue /\ n \in Range(qu[entry[n].lruIdx])
      BY <1>1, <1>6, <1>7, LinkedNode DEF Ready
<1> QED BY <1>1, <1>8, OrderedEnds

(* So the scan, which looks at every queue, ends at one that has a node. *)
LEMMA ScanSucceeds ==
  ASSUME NEW t \in Threads, NEW bt, NEW qu, Ready(t, bt, qu), ScanNothing(t)
  PROVE  t = Main
<1> SUFFICES ASSUME t \in Workers PROVE FALSE
    BY DEF Threads
<1>1. pc[t] = "scan" /\ lru.head[loc[t].queue] = Nil /\ loc[t].scans = TableLen
      BY DEF ScanNothing, At
<1>2. TableLen \in Nat /\ NumQueues \in Nat \ {0} /\ TableLen >= NumQueues
      BY CacheAssumption
<1>3. PICK start \in Queue :
        \A i \in 0..(TableLen - 1) : lru.head[(start + i) % NumQueues] = Nil
      BY <1>1 DEF Ready, AtWork, Scanned
<1>4. PICK q \in Queue : lru.head[q] # Nil
      BY <1>1, VictimExists
<1>5. PICK i \in 0..(NumQueues - 1) : (start + i) % NumQueues = q
      BY RoundMeetsAll
<1>6. i \in 0..(TableLen - 1)
      BY <1>2
<1> QED BY <1>3, <1>4, <1>5, <1>6

(* The end of the scan, which only cache_clean meets. *)
LEMMA ScanEndKeeps ==
  ASSUME NEW t \in Threads, NEW bt, NEW qu, Ready(t, bt, qu), ScanNothing(t)
  PROVE  Sound(bt, qu)' /\ AtWork(t, bt, qu)' /\ phase' # "crashed"
<1>1. t = Main
      BY ScanSucceeds
<1>2. /\ UNCHANGED <<entry, ht, lru, pool>> /\ phase' = "stopped" /\ pc'[t] = "idle"
      BY <1>1, ReadyTypes DEF ScanNothing, htVars, lruVars, Goto
<1>3. Sound(bt, qu)'
      BY <1>2, LooksKeepSound DEF Ready
<1> QED BY <1>2, <1>3, IdleAtWork

(* A thread that has found a queue with a node finds its tail. *)
LEMMA TailIsThere ==
  ASSUME NEW t \in Threads, NEW bt, NEW qu, Ready(t, bt, qu), pc[t] \in {"peek", "unlink"}
  PROVE  /\ lru.tail[loc[t].queue] # Nil /\ loc[t].queue \in Queue
         /\ lru.tail[loc[t].queue] \in Range(qu[loc[t].queue])
<1>1. lru.head[loc[t].queue] # Nil
      BY DEF Ready, AtWork
<1>2. loc[t].queue \in Queue
      BY ReadyTypes DEF Locals
<1>3. InOrder(lru, Queue, Node, qu)
      BY ReadyTypes
<1> QED BY <1>1, <1>2, <1>3, OrderedEnds

(* Peeking finds the tail, and the bucket of its key. *)
LEMMA PeekKeeps ==
  ASSUME NEW t \in Threads, NEW bt, NEW qu, Ready(t, bt, qu), Peek(t)
  PROVE  Sound(bt, qu)' /\ AtWork(t, bt, qu)' /\ phase' # "crashed"
<1> DEFINE v == lru.tail[loc[t].queue]
<1>0. /\ loc[t] \in Locals /\ loc \in [Threads -> Locals] /\ pc \in [Threads -> Places]
      BY ReadyTypes
<1>1. pc[t] = "peek" /\ v # Nil
      BY TailIsThere DEF Peek, At
<1>2. /\ UNCHANGED <<entry, ht, lru, pool, phase, ret, req, db>> /\ pc'[t] = "lockvictim"
      /\ loc' = [loc EXCEPT ![t].bucket = Home(v)]
      BY <1>0, <1>1 DEF Peek, htVars, lruVars, Goto, Home
<1>3. loc'[t].slot = loc[t].slot /\ loc'[t].queue = loc[t].queue /\ loc'[t].bucket = Home(v)
      BY <1>0, <1>2 DEF Locals
<1>4. Step(t)
      BY DEF Step, Eviction
<1>5. Sound(bt, qu)'
      BY <1>1, <1>2, <1>3, <1>4, LooksKeep DEF Holding
<1>6. t \in Workers => Asked(t)'
      BY <1>1, <1>2 DEF Ready, Working, AtWork, Asked
<1>7. /\ Absent(bt, req[t].key)'
      /\ t \in Workers => req[t].op \in {"GET", "PUT"} /\ PoolEmpty(pool)
      /\ req[t].op = "GET" => req[t].value = db[req[t].key] /\ req[t].value # NoValue
      /\ lru.head[loc[t].queue] # Nil
      BY <1>1, <1>2 DEF Ready, AtWork, Absent, Making, Evicting
<1>8. loc'[t].bucket = Home(lru.tail[loc[t].queue])'
      BY <1>2, <1>3 DEF Home
<1>9. phase' # "crashed"
      BY <1>2 DEF Ready, Quiet
<1> QED BY <1>2, <1>3, <1>5, <1>6, <1>7, <1>8, <1>9 DEF AtWork, Making, Evicting, Holding

-----------------------------------------------------------------------------
(* The steps that change nodes or lists.                                  *)

(* A node is written to, and a queue put in another order. *)
LEMMA TouchKeepsSound ==
  ASSUME NEW bt, NEW qu, NEW T, TypeOK, Sound(bt, qu),
         InOrder(lru, Queue, Node, T)', \A q \in Queue : Range(T[q]) = Range(qu[q]),
         UNCHANGED <<ht, pool>>,
         \A n \in Node : /\ entry'[n].key = entry[n].key /\ entry'[n].lruIdx = entry[n].lruIdx
                         /\ Filled(n) => Filled(n)',
         phase' = "serving" =>
           /\ phase = "serving"
           /\ \A w \in Workers : /\ loc'[w].slot = loc[w].slot
                                 /\ pc'[w] \in Holding <=> pc[w] \in Holding
  PROVE  Sound(bt, T)'
<1>1. Shape(bt, T)'
      BY DEF Sound, Shape
<1>2. \A n \in Node : Home(n)' = Home(n)
      BY DEF Home
<1>3. Shelved(bt, T)'
      <2>1. ASSUME NEW b \in Buckets, NEW n \in Range(bt[b])
            PROVE  /\ Filled(n)' /\ Home(n)' = b
                   /\ n \in Range(T[entry'[n].lruIdx])
            BY <1>2, LinkedNode
      <2>2. ASSUME NEW q \in Queue, NEW n \in Range(T[q])
            PROVE  entry'[n].lruIdx = q /\ n \in Range(bt[Home(n)'])
            BY <1>2, QueuedNode
      <2>3. ASSUME NEW b \in Buckets, NEW m \in Range(bt[b]), NEW n \in Range(bt[b]),
                   entry'[m].key = entry'[n].key
            PROVE  m = n
            <3>1. m \in Node /\ n \in Node
                  BY LinkedNode
            <3> QED BY <2>3, <3>1 DEF Sound, Shelved
      <2> QED BY <2>1, <2>2, <2>3 DEF Shelved
<1>4. Pooled(bt, T)'
      <2> SUFFICES ASSUME phase' = "serving" PROVE Pooled(bt, T)'
          BY DEF Pooled
      <2>1. Pooled(bt, qu) /\ phase = "serving"
            BY DEF Sound
      <2>2. Allocated' = Allocated /\ Allocated \subseteq Node
            BY AllocatedNodes DEF Allocated
      <2>3. \A n : Loose(bt, qu, n) => Loose(bt, T, n)
            BY DEF Loose
      <2> QED BY <1>2, <2>1, <2>2, <2>3 DEF Pooled, Loose
<1> QED BY <1>1, <1>3, <1>4 DEF Sound

(* A node in its bucket is moved to the front of its queue. *)
LEMMA MoveKeepsShape ==
  ASSUME NEW bt, NEW qu, TypeOK, Sound(bt, qu),
         NEW b \in Buckets, NEW n \in Range(bt[b]),
         lru' = move_to_head_LRU(lru, entry[n].lruIdx, n)
  PROVE  \E T : /\ InOrder(lru, Queue, Node, T)'
                /\ \A q \in Queue : Range(T[q]) = Range(qu[q])
<1>1. entry[n].lruIdx \in Queue /\ n \in Range(qu[entry[n].lruIdx])
      BY LinkedNode
<1>2. InOrder(lru, Queue, Node, qu)
      BY DEF Sound, Shape
<1> QED BY <1>1, <1>2, MoveToFrontKeepsOrder DEF move_to_head_LRU

(* The steps that move a node to the front of its queue. *)
LEMMA TouchKeeps ==
  ASSUME NEW t \in Threads, NEW bt, NEW qu, Ready(t, bt, qu),
         GetTouch(t) \/ PutUpdate(t) \/ DeleteMark(t)
  PROVE  \E T : Sound(bt, T)' /\ AtWork(t, bt, T)'
<1> PICK n : n = loc[t].node
    OBVIOUS
<1>0. /\ TypeOK /\ loc \in [Threads -> Locals] /\ pc \in [Threads -> Places]
      /\ Bucket(t) \in Buckets /\ entry \in [Node -> Entries] /\ lru \in ListFamily(Queue, Node)
      BY ReadyTypes DEF TypeOK
<1>1. /\ pc[t] \in {"touch", "update"} /\ \E ok, v : Finish(t, ok, v)
      /\ UNCHANGED <<ht, pool, phase>>
      BY DEF GetTouch, PutUpdate, DeleteMark, At, htVars
<1>2. pc'[t] = "idle" /\ loc'[t].slot = Nil
      BY <1>0, <1>1 DEF Finish, Goto, NoLocals
<1>3. Found(t, bt)
      BY <1>1 DEF Ready, AtWork
<1>4. n \in Range(bt[Bucket(t)]) /\ Sound(bt, qu)
      BY <1>3 DEF Found, Ready
<1>5. n \in Node /\ Filled(n)
      BY <1>0, <1>4, LinkedNode
<1>6. /\ lru' = lru \/ lru' = move_to_head_LRU(lru, entry[n].lruIdx, n)
      /\ \A m \in Node \ {n} : entry'[m] = entry[m]
      /\ entry'[n].key = entry[n].key /\ entry'[n].lruIdx = entry[n].lruIdx
      /\ Filled(n)'
      <2>1. CASE GetTouch(t)
            BY <1>5, <2>1 DEF GetTouch, Filled
      <2>2. CASE PutUpdate(t)
            <3> DEFINE v == req[t].value
            <3>1. entry' = [entry EXCEPT ![n] = [entry[n] EXCEPT !.dirty = DirtyAfterPut(entry[n], v),
                                                                 !.value = v]]
                  BY <1>0, <1>5, <2>2 DEF PutUpdate, Entries
            <3>2. v \in Values /\ v # NoValue
                  <4>1. t \in Workers /\ req[t].op = "PUT"
                        BY <1>1, <2>2 DEF PutUpdate, Ready, Quiet, Evicting, Threads
                  <4>2. Asked(t)
                        BY <1>1, <4>1 DEF Ready, AtWork
                  <4> QED BY <4>1, <4>2, ValueAssumption DEF Asked
            <3>3. entry[n] \in Entries
                  BY <1>0, <1>5
            <3>4. /\ entry'[n].key = entry[n].key /\ entry'[n].lruIdx = entry[n].lruIdx
                  /\ entry'[n].dirty = DirtyAfterPut(entry[n], v) /\ entry'[n].value = v
                  BY <1>0, <1>5, <3>1, <3>3 DEF Entries
            <3>5. DirtyAfterPut(entry[n], v) = "DIRTY"
                  BY <1>5 DEF DirtyAfterPut, Filled
            <3>6. lru' = move_to_head_LRU(lru, entry[n].lruIdx, n)
                  BY <2>2 DEF PutUpdate
            <3>7. \A m \in Node \ {n} : entry'[m] = entry[m]
                  BY <1>0, <3>1
            <3> HIDE DEF v
            <3> QED BY <1>5, <3>2, <3>4, <3>5, <3>6, <3>7 DEF Filled
      <2>3. CASE DeleteMark(t)
            <3>1. CASE entry[n].dirty = "TODELETE"
                  BY <1>5, <2>3, <3>1 DEF DeleteMark, Filled
            <3>2. CASE entry[n].dirty # "TODELETE"
                  <4>1. /\ entry' = [entry EXCEPT ![n].dirty = "TODELETE"]
                        /\ lru' = move_to_head_LRU(lru, entry[n].lruIdx, n)
                        BY <2>3, <3>2 DEF DeleteMark
                  <4>2. /\ entry'[n].key = entry[n].key /\ entry'[n].lruIdx = entry[n].lruIdx
                        /\ entry'[n].dirty = "TODELETE"
                        BY <1>0, <1>5, <4>1 DEF Entries
                  <4> QED BY <1>0, <1>5, <4>1, <4>2 DEF Filled
            <3> QED BY <3>1, <3>2
      <2> QED BY <1>1, <2>1, <2>2, <2>3
<1>7. PICK T : /\ InOrder(lru, Queue, Node, T)'
               /\ \A q \in Queue : Range(T[q]) = Range(qu[q])
      <2>1. CASE lru' = lru
            BY <2>1, ReadyTypes
      <2>2. CASE lru' = move_to_head_LRU(lru, entry[n].lruIdx, n)
            BY <1>0, <1>4, <2>2, MoveKeepsShape
      <2> QED BY <1>6, <2>1, <2>2
<1>8. \A m \in Node : /\ entry'[m].key = entry[m].key /\ entry'[m].lruIdx = entry[m].lruIdx
                      /\ Filled(m) => Filled(m)'
      BY <1>6 DEF Filled
<1>9. ASSUME phase' = "serving", NEW w \in Workers
      PROVE  loc'[w].slot = loc[w].slot /\ (pc'[w] \in Holding <=> pc[w] \in Holding)
      <2>1. Step(t)
            BY DEF Step, Get, Put, Delete
      <2>2. w # t => pc'[w] = pc[w] /\ loc'[w] = loc[w]
            BY <1>0, <2>1, StepAlone DEF Threads
      <2>3. w = t => loc[w].slot = Nil
            BY <1>1, <1>9 DEF Ready, Sound, Pooled, Holding
      <2> QED BY <1>1, <1>2, <2>2, <2>3 DEF Holding
<1>10. Sound(bt, T)'
      BY <1>0, <1>1, <1>4, <1>7, <1>8, <1>9, TouchKeepsSound
<1> QED BY <1>2, <1>10, IdleAtWork

(* The last free node leaves the pool; the others stay, in order. *)
LEMMA AcquireFacts ==
  ASSUME NEW p \in Pools, ~PoolEmpty(p),
         \A i, j \in 1..Len(p.free) : p.free[i] = p.free[j] => i = j
  PROVE  /\ Acquired(p) \in Range(p.free)
         /\ AfterAcquire(p).blocks = p.blocks
         /\ Range(AfterAcquire(p).free) = Range(p.free) \ {Acquired(p)}
         /\ \A i, j \in 1..Len(AfterAcquire(p).free) :
              AfterAcquire(p).free[i] = AfterAcquire(p).free[j] => i = j
         /\ AfterAcquire(p).free \in Seq(Node)
         /\ Len(AfterAcquire(p).free) = Len(p.free) - 1
<1> DEFINE s == p.free
           k == Len(s)
           r == SubSeq(s, 1, k - 1)
<1>1. s \in Seq(Node) /\ k \in Nat /\ k # 0 /\ p = [free |-> s, blocks |-> p.blocks]
      BY DEF Pools, PoolEmpty
<1>2. /\ Acquired(p) = s[k]
      /\ AfterAcquire(p).free = r /\ AfterAcquire(p).blocks = p.blocks
      BY <1>1 DEF Acquired, AfterAcquire, Stocked, PoolEmpty
<1> HIDE DEF s
<1>3. /\ r \in Seq(Node) /\ Len(r) = k - 1 /\ k \in 1..k
      /\ \A i \in 1..(k - 1) : r[i] = s[i] /\ i \in 1..k /\ i # k
      <2>1. k - 1 \in Nat /\ \A i \in 1..(k - 1) : i \in 1..k /\ i # k
            BY <1>1
      <2>2. r \in Seq(Node) /\ Len(r) = k - 1
            <3>1. \A i \in 1..(k - 1) : s[i] \in Node
                  BY <1>1, <2>1
            <3> HIDE DEF k
            <3>2. k - 1 \in Int /\ 1 \in Int /\ (1 <= k - 1 => k - 1 - 1 + 1 = k - 1)
                  /\ (~(1 <= k - 1) => k - 1 = 0)
                  BY <1>1
            <3> QED BY <3>1, <3>2, SubSeqProperties
      <2>3. \A i \in 1..(k - 1) : r[i] = s[i]
            BY <1>1
      <2>4. k \in 1..k
            BY <1>1
      <2> QED BY <2>1, <2>2, <2>3, <2>4
<1> HIDE DEF r, k
<1>4. \A i, j \in 1..k : s[i] = s[j] => i = j
      BY DEF s, k
<1>5. \A x : x \in Range(s) <=> \E i \in 1..k : x = s[i]
      BY <1>1 DEF Range, k
<1>6. \A x : x \in Range(r) <=> \E i \in 1..(k - 1) : x = r[i]
      BY <1>3 DEF Range
<1>7. \A i \in 1..k : i = k \/ i \in 1..(k - 1)
      BY <1>1
<1>8. ASSUME NEW x \in Range(r) PROVE x \in Range(s) \ {s[k]}
      <2>1. PICK i \in 1..(k - 1) : x = r[i]
            BY <1>6
      <2> QED BY <1>3, <1>4, <1>5, <2>1
<1>9. ASSUME NEW x \in Range(s) \ {s[k]} PROVE x \in Range(r)
      <2>1. PICK i \in 1..k : x = s[i]
            BY <1>5
      <2>2. i \in 1..(k - 1)
            BY <1>7, <2>1
      <2> QED BY <1>3, <1>6, <2>1, <2>2
<1>10. Range(r) = Range(s) \ {s[k]}
      BY <1>8, <1>9
<1>11. s[k] \in Range(s)
      BY <1>3, <1>5
<1>12. \A i, j \in 1..Len(r) : r[i] = r[j] => i = j
      BY <1>3, <1>4
<1> QED BY <1>2, <1>3, <1>10, <1>11, <1>12 DEF s, k

(* Taking a node from the pool. *)
LEMMA AcquireKeeps ==
  ASSUME NEW t \in Threads, NEW bt, NEW qu, Ready(t, bt, qu), Acquire(t)
  PROVE  Sound(bt, qu)' /\ AtWork(t, bt, qu)' /\ phase' # "crashed"
<1> PICK n : n = Acquired(pool)
    OBVIOUS
<1>0. /\ TypeOK /\ loc \in [Threads -> Locals] /\ pc \in [Threads -> Places]
      /\ loc[t] \in Locals /\ pool \in Pools
      BY ReadyTypes DEF TypeOK
<1>1. /\ pc[t] = "acquire" /\ ~PoolEmpty(pool) /\ t \in Workers /\ phase = "serving"
      BY CacheAssumption DEF Acquire, At, Ready, AtWork, Quiet, Evicting, Threads
<1>2. /\ UNCHANGED <<entry, ht, lru, phase, ret, req, db>> /\ pc'[t] = "fill"
      /\ loc' = [loc EXCEPT ![t].slot = n] /\ pool' = AfterAcquire(pool)
      BY <1>0, <1>1 DEF Acquire, htVars, lruVars, Goto
<1>3. loc'[t].slot = n
      BY <1>0, <1>2 DEF Locals
<1>4. Step(t)
      BY DEF Step, PutNew
<1>5. \A w \in Workers \ {t} : pc'[w] = pc[w] /\ loc'[w] = loc[w]
      BY <1>0, <1>4, StepAlone DEF Threads
<1>6. Pooled(bt, qu)
      BY DEF Ready, Sound
<1>7. /\ n \in Range(pool.free) /\ pool'.blocks = pool.blocks
      /\ Range(pool'.free) = Range(pool.free) \ {n}
      /\ \A i, j \in 1..Len(pool'.free) : pool'.free[i] = pool'.free[j] => i = j
      BY <1>0, <1>1, <1>2, <1>6, AcquireFacts DEF Pooled
<1>8. Loose(bt, qu, n) /\ n \in Allocated /\ Allocated' = Allocated
      BY <1>1, <1>6, <1>7 DEF Pooled, Allocated
<1>9. Shape(bt, qu)' /\ Shelved(bt, qu)'
      BY <1>2 DEF Ready, Sound, Shape, Shelved, Filled, Home
<1>10. Pooled(bt, qu)'
      <2>1. pool'.blocks # 0 /\ \A i, j \in 1..Len(pool'.free) : pool'.free[i] = pool'.free[j] => i = j
            BY <1>1, <1>6, <1>7 DEF Pooled
      <2>2. ASSUME NEW m \in Range(pool'.free)
            PROVE  /\ m \in Allocated' /\ Loose(bt, qu, m)'
                   /\ \A w \in Workers : loc'[w].slot # m
            BY <1>1, <1>3, <1>5, <1>6, <1>7, <1>8 DEF Pooled, Loose
      <2>3. ASSUME NEW m \in Allocated'
            PROVE  \/ m \in Range(pool'.free) \/ m \in Range(bt[Home(m)'])
                   \/ \E w \in Workers : loc'[w].slot = m
            <3>1. Home(m)' = Home(m)
                  BY <1>2 DEF Home
            <3>2. ASSUME NEW w \in Workers, loc[w].slot = m, m # n
                  PROVE  loc'[w].slot = m
                  <4>1. w = t => loc[w].slot = Nil /\ Nil \notin Allocated
                        BY <1>0, <1>1, <1>6, AllocatedNodes, CacheAssumption DEF Pooled, Holding
                  <4> QED BY <1>5, <1>8, <2>3, <3>2, <4>1
            <3> QED BY <1>1, <1>3, <1>6, <1>7, <1>8, <2>3, <3>1, <3>2 DEF Pooled
      <2>4. \A b \in Buckets : Range(bt[b]) \subseteq Allocated'
            BY <1>1, <1>6, <1>8 DEF Pooled
      <2>5. ASSUME NEW w \in Workers
            PROVE  IF pc'[w] \in Holding THEN loc'[w].slot \in Allocated' ELSE loc'[w].slot = Nil
            BY <1>1, <1>2, <1>3, <1>5, <1>6, <1>8 DEF Pooled, Holding
      <2> QED BY <2>1, <2>2, <2>3, <2>4, <2>5 DEF Pooled
<1>11. Asked(t)'
      BY <1>1, <1>2 DEF Ready, AtWork, Asked
<1>12. /\ Absent(bt, req[t].key)'
       /\ req[t].op \in {"GET", "PUT"}
       /\ req[t].op = "GET" => req[t].value = db[req[t].key] /\ req[t].value # NoValue
      BY <1>1, <1>2 DEF Ready, AtWork, Absent, Making
<1>13. Loose(bt, qu, loc[t].slot)'
      BY <1>3, <1>8 DEF Loose
<1>14. AtWork(t, bt, qu)'
      BY <1>2, <1>11, <1>12, <1>13 DEF AtWork, Evicting
<1> QED BY <1>1, <1>2, <1>9, <1>10, <1>14 DEF Sound

(* A worker with a node in its hands has one of the pool's that is nowhere *)
(* else.                                                                   *)
LEMMA HeldNode ==
  ASSUME NEW t \in Threads, NEW bt, NEW qu, Ready(t, bt, qu), pc[t] \in {"fill", "publish", "insert"}
  PROVE  /\ t \in Workers /\ phase = "serving"
         /\ loc[t].slot \in Allocated /\ loc[t].slot \in Node
         /\ loc[t].slot \notin Range(pool.free) /\ Loose(bt, qu, loc[t].slot)
<1>1. t \in Workers /\ phase = "serving" /\ TypeOK /\ pc[t] \in Holding
      BY ReadyTypes, CacheAssumption DEF Ready, Working, At, Quiet, Evicting, Threads, Holding
<1>2. loc[t].slot \in Allocated /\ loc[t].slot \notin Range(pool.free)
      BY <1>1 DEF Ready, Sound, Pooled
<1>3. Loose(bt, qu, loc[t].slot)
      BY <1>1 DEF Ready, AtWork
<1> QED BY <1>1, <1>2, <1>3, AllocatedNodes

(* Filling the node in hand: it is on no list, so its links may be         *)
(* cleared.                                                                *)
LEMMA FillKeeps ==
  ASSUME NEW t \in Threads, NEW bt, NEW qu, Ready(t, bt, qu), Fill(t)
  PROVE  Sound(bt, qu)' /\ AtWork(t, bt, qu)' /\ phase' # "crashed"
<1> PICK n : n = loc[t].slot
    OBVIOUS
<1>0. /\ TypeOK /\ loc \in [Threads -> Locals] /\ pc \in [Threads -> Places]
      /\ loc[t] \in Locals /\ entry \in [Node -> Entries] /\ req[t] \in Messages
      BY ReadyTypes DEF TypeOK
<1>1. pc[t] = "fill" /\ Fill(t)
      BY DEF Fill, At
<1>2. /\ t \in Workers /\ phase = "serving" /\ n \in Allocated /\ n \in Node
      /\ n \notin Range(pool.free) /\ Loose(bt, qu, n)
      BY <1>1, HeldNode
<1>3. /\ UNCHANGED <<pool, phase, ret, req, db>> /\ pc'[t] = "publish"
      /\ loc' = [loc EXCEPT ![t].queue = insertIdx, ![t].bucket = Bucket(t)]
      /\ entry' = [entry EXCEPT ![n] = SetAll(req[t], insertIdx)]
      /\ ht' = ForgetLinks(ht, n) /\ lru' = ForgetLinks(lru, n)
      BY <1>0 DEF Fill, Goto
<1>4. loc'[t].slot = n /\ loc'[t].queue = insertIdx /\ loc'[t].bucket = Bucket(t)
      BY <1>0, <1>3 DEF Locals
<1>5. entry'[n] = SetAll(req[t], insertIdx) /\ \A m \in Node \ {n} : entry'[m] = entry[m]
      BY <1>0, <1>2, <1>3
<1>6. Step(t)
      BY DEF Step, PutNew
<1>7. \A w \in Workers \ {t} : pc'[w] = pc[w] /\ loc'[w] = loc[w]
      BY <1>0, <1>6, StepAlone DEF Threads
<1>8. \A b \in Buckets : \A m \in Range(bt[b]) : m \in Node \ {n} /\ entry'[m] = entry[m]
      BY <1>0, <1>2, <1>5, LinkedNode DEF Ready, Loose
<1>9. \A q \in Queue : \A m \in Range(qu[q]) : m \in Node \ {n} /\ entry'[m] = entry[m]
      BY <1>0, <1>2, <1>5, QueuedNode DEF Ready, Loose
<1>10. Shape(bt, qu)'
      <2>1. InOrder(ForgetLinks(ht, n), Buckets, Node, bt)
            BY <1>2, ReadyTypes, ForgetLinksKeepsOrder DEF Loose
      <2>2. InOrder(ForgetLinks(lru, n), Queue, Node, qu)
            BY <1>2, ReadyTypes, ForgetLinksKeepsOrder DEF Loose
      <2> QED BY <1>3, <2>1, <2>2 DEF Shape
<1>11. Shelved(bt, qu)'
      <2>1. Shelved(bt, qu)
            BY DEF Ready, Sound
      <2> QED BY <1>8, <1>9, <2>1 DEF Shelved, Filled, Home
<1>12. Pooled(bt, qu)'
      <2>1. Pooled(bt, qu)
            BY DEF Ready, Sound
      <2>2. /\ pool'.blocks # 0
            /\ \A i, j \in 1..Len(pool'.free) : pool'.free[i] = pool'.free[j] => i = j
            /\ \A b \in Buckets : Range(bt[b]) \subseteq Allocated'
            BY <1>2, <1>3, <2>1 DEF Pooled, Allocated
      <2>3. \A w \in Workers : loc'[w].slot = loc[w].slot /\ (pc'[w] \in Holding <=> pc[w] \in Holding)
            BY <1>1, <1>3, <1>4, <1>7 DEF Holding
      <2>4. ASSUME NEW m \in Range(pool'.free)
            PROVE  /\ m \in Allocated' /\ Loose(bt, qu, m)'
                   /\ \A w \in Workers : loc'[w].slot # m
            <3>1. m \in Range(pool.free) /\ Allocated' = Allocated
                  BY <1>3 DEF Allocated
            <3>2. m \in Allocated /\ Loose(bt, qu, m) /\ \A w \in Workers : loc[w].slot # m
                  BY <1>2, <2>1, <3>1 DEF Pooled
            <3> QED BY <2>3, <3>1, <3>2 DEF Loose
      <2>5. ASSUME NEW m \in Allocated'
            PROVE  \/ m \in Range(pool'.free) \/ m \in Range(bt[Home(m)'])
                   \/ \E w \in Workers : loc'[w].slot = m
            <3>1. m \in Node /\ m \in Allocated
                  BY <1>0, <1>3, AllocatedNodes DEF Allocated
            <3>2. m # n => Home(m)' = Home(m)
                  BY <1>5, <3>1 DEF Home
            <3>3. CASE m = n
                  BY <1>2, <1>4, <3>3
            <3>4. CASE m # n
                  <4>1. \/ m \in Range(pool.free) \/ m \in Range(bt[Home(m)])
                        \/ \E w \in Workers : loc[w].slot = m
                        BY <1>2, <2>1, <3>1 DEF Pooled
                  <4> QED BY <1>3, <2>3, <3>2, <3>4, <4>1
            <3> QED BY <3>3, <3>4
      <2>6. \A w \in Workers :
              IF pc'[w] \in Holding THEN loc'[w].slot \in Allocated' ELSE loc'[w].slot = Nil
            BY <1>2, <1>3, <2>1, <2>3 DEF Pooled, Allocated
      <2> QED BY <2>2, <2>4, <2>5, <2>6 DEF Pooled
<1>13. Asked(t)'
      BY <1>1, <1>2, <1>3 DEF Ready, AtWork, Asked
<1>14. /\ Absent(bt, req[t].key)'
       /\ req[t].op \in {"GET", "PUT"}
       /\ req[t].op = "GET" => req[t].value = db[req[t].key] /\ req[t].value # NoValue
      BY <1>1, <1>2, <1>3, <1>8 DEF Ready, AtWork, Absent, Making
<1>15. Loose(bt, qu, loc[t].slot)'
      BY <1>2, <1>4 DEF Loose
<1>16. (entry[loc[t].slot] = SetAll(req[t], loc[t].queue) /\ loc[t].bucket = Bucket(t))'
      BY <1>3, <1>4, <1>5 DEF SetAll, Bucket
<1>17. AtWork(t, bt, qu)'
      BY <1>3, <1>13, <1>14, <1>15, <1>16 DEF AtWork, Evicting
<1> QED BY <1>2, <1>3, <1>10, <1>11, <1>12, <1>17 DEF Sound

(* The lists S without n anywhere; T is S with n put on q, or taken out.   *)
Nowhere(Q, S, n) == \A r \in Q : n \notin Range(S[r])
With(Q, S, T, q, n) ==
  \A r \in Q : \A m : m \in Range(T[r]) <=> m \in Range(S[r]) \/ (r = q /\ m = n)
Minus(Q, S, T, n) == \A r \in Q : \A m : m \in Range(T[r]) <=> m \in Range(S[r]) /\ m # n

(* One node more on one list, none on the others. *)
LEMMA Pushed ==
  ASSUME NEW Q, NEW L, NEW S, InOrder(L, Q, Node, S), NEW q \in Q, NEW n \in Node,
         Nowhere(Q, S, n)
  PROVE  \E T : InOrder(PushFront(L, q, n), Q, Node, T) /\ With(Q, S, T, q, n)
<1>1. PICK T : /\ InOrder(PushFront(L, q, n), Q, Node, T)
               /\ T[q] = InFront(n, S[q]) /\ \A r \in Q \ {q} : T[r] = S[r]
               /\ Range(T[q]) = Range(S[q]) \cup {n}
      BY PushFrontKeepsOrder DEF Nowhere
<1>2. With(Q, S, T, q, n)
      BY <1>1 DEF With
<1> QED BY <1>1, <1>2

(* One node taken off its list. *)
LEMMA Taken ==
  ASSUME NEW Q, NEW L, NEW S, InOrder(L, Q, Node, S), NEW q \in Q, NEW n \in Range(S[q])
  PROVE  \E T : InOrder(Unlink(L, q, n), Q, Node, T) /\ Minus(Q, S, T, n)
<1>1. PICK T : /\ InOrder(Unlink(L, q, n), Q, Node, T)
               /\ \A r \in Q : Range(T[r]) = Range(S[r]) \ {n}
      BY UnlinkKeepsOrder
<1>2. Minus(Q, S, T, n)
      BY <1>1 DEF Minus
<1> QED BY <1>1, <1>2

(* Linking the filled node in its bucket and in its queue. *)
LEMMA InsertKeeps ==
  ASSUME NEW t \in Threads, NEW bt, NEW qu, Ready(t, bt, qu), Insert(t)
  PROVE  \E B, T : Sound(B, T)' /\ AtWork(t, B, T)'
<1> DEFINE n == loc[t].slot
           c == loc[t].bucket
           d == loc[t].queue
<1>0. /\ TypeOK /\ loc \in [Threads -> Locals] /\ pc \in [Threads -> Places]
      /\ loc[t] \in Locals /\ entry \in [Node -> Entries] /\ req[t] \in Messages
      /\ InOrder(ht, Buckets, Node, bt) /\ InOrder(lru, Queue, Node, qu)
      BY ReadyTypes DEF TypeOK
<1>1. pc[t] = "insert" /\ c \in Buckets /\ d \in Queue
      BY <1>0 DEF Insert, At, Locals
<1>2. /\ t \in Workers /\ phase = "serving" /\ n \in Allocated /\ n \in Node
      /\ n \notin Range(pool.free) /\ Loose(bt, qu, n)
      BY <1>1, HeldNode
<1>3. /\ UNCHANGED <<pool, phase, entry, db>> /\ \E ok, v : Finish(t, ok, v)
      /\ ht' = PushFront(ht, c, n) /\ lru' = PushFront(lru, d, n)
      BY <1>1 DEF Insert, insert_to_head_HT, insert_to_head_LRU
<1>11. /\ entry[n] = SetAll(req[t], d) /\ c = Bucket(t) /\ Asked(t) /\ Absent(bt, req[t].key)
       /\ req[t].op \in {"GET", "PUT"} /\ (req[t].op = "GET" => req[t].value # NoValue)
      BY <1>1, <1>2 DEF Ready, AtWork, Making
<1> HIDE DEF n, c, d
<1>4. pc'[t] = "idle" /\ loc'[t].slot = Nil
      BY <1>0, <1>3 DEF Finish, Goto, NoLocals
<1>5. Step(t)
      BY DEF Step, PutNew
<1>6. \A w \in Workers \ {t} : pc'[w] = pc[w] /\ loc'[w] = loc[w]
      BY <1>0, <1>5, StepAlone DEF Threads
<1>5b. PICK B : InOrder(ht', Buckets, Node, B) /\ With(Buckets, bt, B, c, n)
      BY <1>0, <1>1, <1>2, <1>3, Pushed DEF Loose, Nowhere
<1>6b. PICK T : InOrder(lru', Queue, Node, T) /\ With(Queue, qu, T, d, n)
      BY <1>0, <1>1, <1>2, <1>3, Pushed DEF Loose, Nowhere
<1>7. \A b \in Buckets : \A m : m \in Range(B[b]) <=> m \in Range(bt[b]) \/ (b = c /\ m = n)
      BY <1>5b DEF With
<1>8. \A q \in Queue : \A m : m \in Range(T[q]) <=> m \in Range(qu[q]) \/ (q = d /\ m = n)
      BY <1>6b DEF With
<1>12. Filled(n) /\ Home(n) = c /\ entry[n].lruIdx = d /\ entry[n].key = req[t].key
      BY <1>11, ValueAssumption DEF SetAll, Filled, Home, Bucket, Asked
<1>13. \A m : Home(m)' = Home(m) /\ (Filled(m)' <=> Filled(m))
      BY <1>3 DEF Home, Filled
<1>14. Shape(B, T)'
      BY <1>5b, <1>6b DEF Shape
<1>15. Shelved(B, T)'
      <2>0. Shelved(bt, qu)
            BY DEF Ready, Sound
      <2>1. ASSUME NEW b \in Buckets, NEW m \in Range(B[b])
            PROVE  /\ Filled(m)' /\ Home(m)' = b /\ m \in Range(T[entry'[m].lruIdx])
            <3>1. CASE m \in Range(bt[b])
                  <4>1. /\ Filled(m) /\ Home(m) = b /\ m \in Range(qu[entry[m].lruIdx])
                        /\ entry[m].lruIdx \in Queue
                        BY <1>0, <3>1, LinkedNode DEF Ready
                  <4> QED BY <1>3, <1>8, <1>13, <4>1
            <3>2. CASE b = c /\ m = n
                  BY <1>1, <1>3, <1>8, <1>12, <1>13, <3>2
            <3> QED BY <1>7, <3>1, <3>2
      <2>2. ASSUME NEW q \in Queue, NEW m \in Range(T[q])
            PROVE  entry'[m].lruIdx = q /\ m \in Range(B[Home(m)'])
            <3>1. CASE m \in Range(qu[q])
                  <4>1. entry[m].lruIdx = q /\ m \in Range(bt[Home(m)]) /\ Home(m) \in Buckets
                        BY <1>0, <3>1, QueuedNode DEF Ready
                  <4> QED BY <1>3, <1>7, <1>13, <4>1
            <3>2. CASE q = d /\ m = n
                  BY <1>1, <1>3, <1>7, <1>12, <1>13, <3>2
            <3> QED BY <1>8, <3>1, <3>2
      <2>3. ASSUME NEW b \in Buckets, NEW m \in Range(B[b]), NEW k \in Range(B[b]),
                   entry'[m].key = entry'[k].key
            PROVE  m = k
            <3>1. CASE m \in Range(bt[b]) /\ k \in Range(bt[b])
                  BY <1>3, <2>0, <2>3, <3>1 DEF Shelved
            <3>2. CASE m \in Range(bt[b]) /\ k = n
                  BY <1>3, <1>11, <1>12, <2>3, <3>2 DEF Absent
            <3>3. CASE m = n /\ k \in Range(bt[b])
                  BY <1>3, <1>11, <1>12, <2>3, <3>3 DEF Absent
            <3> QED BY <1>7, <3>1, <3>2, <3>3
      <2> QED BY <2>1, <2>2, <2>3 DEF Shelved
<1>16. Pooled(B, T)'
      <2>0. Pooled(bt, qu)
            BY DEF Ready, Sound
      <2>1. pool.blocks # 0 /\ \A i, j \in 1..Len(pool.free) : pool.free[i] = pool.free[j] => i = j
            BY <1>2, <2>0 DEF Pooled
      <2>2. ASSUME NEW m \in Range(pool.free)
            PROVE  m \in Allocated /\ Loose(B, T, m) /\ \A w \in Workers : loc'[w].slot # m
            <3>1. m \in Allocated /\ Loose(bt, qu, m) /\ \A w \in Workers : loc[w].slot # m
                  BY <1>2, <2>0 DEF Pooled
            <3>2. m # n /\ m # Nil
                  BY <1>0, <1>2, <3>1, AllocatedNodes, CacheAssumption
            <3>3. Loose(B, T, m)
                  BY <1>7, <1>8, <3>1, <3>2 DEF Loose
            <3> QED BY <1>4, <1>6, <3>1, <3>2, <3>3
      <2>3. ASSUME NEW m \in Allocated
            PROVE  \/ m \in Range(pool.free) \/ m \in Range(B[Home(m)])
                   \/ \E w \in Workers : loc'[w].slot = m
            <3>1. \/ m \in Range(pool.free) \/ m \in Range(bt[Home(m)])
                  \/ \E w \in Workers : loc[w].slot = m
                  BY <1>2, <2>0 DEF Pooled
            <3>2. Home(m) \in Buckets
                  <4>1. entry[m] \in Entries
                        BY <1>0, AllocatedNodes
                  <4> QED BY <4>1, CacheAssumption DEF Home, Entries
            <3>3. m = n => m \in Range(B[Home(m)])
                  BY <1>1, <1>7, <1>12
            <3>4. \A w \in Workers : loc[w].slot = m => m = n \/ loc'[w].slot = m
                  BY <1>6 DEF n
            <3> QED BY <1>7, <3>1, <3>2, <3>3, <3>4
      <2>4. ASSUME NEW b \in Buckets PROVE Range(B[b]) \subseteq Allocated
            <3>1. Range(bt[b]) \subseteq Allocated
                  BY <1>2, <2>0 DEF Pooled
            <3> QED BY <1>2, <1>7, <3>1
      <2>5. \A w \in Workers :
              IF pc'[w] \in Holding THEN loc'[w].slot \in Allocated ELSE loc'[w].slot = Nil
            BY <1>2, <1>4, <1>6, <2>0 DEF Pooled, Holding
      <2>6. Allocated' = Allocated /\ \A m : Loose(B, T, m)' <=> Loose(B, T, m)
            BY <1>3 DEF Allocated, Loose
      <2> QED BY <1>3, <1>13, <2>1, <2>2, <2>3, <2>4, <2>5, <2>6 DEF Pooled
<1> QED BY <1>4, <1>14, <1>15, <1>16, IdleAtWork DEF Sound

(* Taking the victim, the last node of its queue, out of both its lists. *)
LEMMA VictimFacts ==
  ASSUME NEW t \in Threads, NEW bt, NEW qu, Ready(t, bt, qu), pc[t] = "unlink"
  PROVE  LET v == lru.tail[loc[t].queue]
         IN  /\ v # Nil /\ v \in Node /\ loc[t].queue \in Queue /\ loc[t].bucket \in Buckets
             /\ v \in Range(qu[loc[t].queue]) /\ v \in Range(bt[loc[t].bucket])
             /\ Filled(v) /\ Home(v) = loc[t].bucket /\ entry[v].lruIdx = loc[t].queue
<1> PICK v : v = lru.tail[loc[t].queue]
    OBVIOUS
<1>0. TypeOK /\ Sound(bt, qu)
      BY ReadyTypes DEF Ready
<1>1. v # Nil /\ loc[t].queue \in Queue /\ v \in Range(qu[loc[t].queue])
      BY TailIsThere
<1>2. loc[t].bucket = Home(v)
      BY DEF Ready, AtWork
<1>3. v \in Node /\ Home(v) \in Buckets /\ v \in Range(bt[Home(v)]) /\ entry[v].lruIdx = loc[t].queue
      BY <1>0, <1>1, QueuedNode
<1>4. Filled(v)
      BY <1>0, <1>3, LinkedNode
<1> QED BY <1>1, <1>2, <1>3, <1>4

(* Unlinking the victim from both: it is in the hands of the thread then. *)
LEMMA UnlinkKeeps ==
  ASSUME NEW t \in Threads, NEW bt, NEW qu, Ready(t, bt, qu), UnlinkVictim(t)
  PROVE  (\E B, T : Sound(B, T)' /\ AtWork(t, B, T)') /\ phase' # "crashed"
<1> DEFINE v == lru.tail[loc[t].queue]
           c == loc[t].bucket
           d == loc[t].queue
<1>0. /\ TypeOK /\ loc \in [Threads -> Locals] /\ pc \in [Threads -> Places]
      /\ loc[t] \in Locals /\ entry \in [Node -> Entries] /\ req[t] \in Messages
      /\ InOrder(ht, Buckets, Node, bt) /\ InOrder(lru, Queue, Node, qu)
      /\ Sound(bt, qu) /\ Shelved(bt, qu)
      BY ReadyTypes DEF TypeOK, Ready, Sound
<1>1. pc[t] = "unlink"
      BY DEF UnlinkVictim, At
<1>2. /\ v # Nil /\ v \in Node /\ d \in Queue /\ c \in Buckets
      /\ v \in Range(qu[d]) /\ v \in Range(bt[c])
      /\ Filled(v) /\ Home(v) = c /\ entry[v].lruIdx = d
      BY <1>1, VictimFacts
<1>3. /\ UNCHANGED <<pool, phase, entry, db, req>> /\ pc'[t] = "writeback"
      /\ loc' = [loc EXCEPT ![t].slot = v]
      /\ ht' = Unlink(ht, c, v) /\ lru' = Unlink(lru, d, v)
      BY <1>0, <1>2 DEF UnlinkVictim, remove_from_dll_HT, remove_from_dll_LRU, Goto
<1> HIDE DEF v, c, d
<1>4. loc'[t].slot = v
      BY <1>0, <1>3 DEF Locals
<1>5. Step(t)
      BY DEF Step, Eviction
<1>6. \A w \in Workers \ {t} : pc'[w] = pc[w] /\ loc'[w] = loc[w]
      BY <1>0, <1>5, StepAlone DEF Threads
<1>7. PICK B : InOrder(ht', Buckets, Node, B) /\ Minus(Buckets, bt, B, v)
      BY <1>0, <1>2, <1>3, Taken
<1>8. PICK T : InOrder(lru', Queue, Node, T) /\ Minus(Queue, qu, T, v)
      BY <1>0, <1>2, <1>3, Taken
<1>9. \A b \in Buckets : \A m : m \in Range(B[b]) <=> m \in Range(bt[b]) /\ m # v
      BY <1>7 DEF Minus
<1>10. \A q \in Queue : \A m : m \in Range(T[q]) <=> m \in Range(qu[q]) /\ m # v
      BY <1>8 DEF Minus
<1>11. \A m : Home(m)' = Home(m) /\ (Filled(m)' <=> Filled(m))
      BY <1>3 DEF Home, Filled
<1>12. Shape(B, T)'
      BY <1>7, <1>8 DEF Shape
<1>13. Shelved(B, T)'
      <2>1. ASSUME NEW b \in Buckets, NEW m \in Range(B[b])
            PROVE  /\ Filled(m)' /\ Home(m)' = b /\ m \in Range(T[entry'[m].lruIdx])
            <3>1. m \in Range(bt[b]) /\ m # v
                  BY <1>9
            <3>2. /\ Filled(m) /\ Home(m) = b /\ m \in Range(qu[entry[m].lruIdx])
                  /\ entry[m].lruIdx \in Queue
                  BY <1>0, <3>1, LinkedNode
            <3> QED BY <1>3, <1>10, <1>11, <3>1, <3>2
      <2>2. ASSUME NEW q \in Queue, NEW m \in Range(T[q])
            PROVE  entry'[m].lruIdx = q /\ m \in Range(B[Home(m)'])
            <3>1. m \in Range(qu[q]) /\ m # v
                  BY <1>10
            <3>2. entry[m].lruIdx = q /\ m \in Range(bt[Home(m)]) /\ Home(m) \in Buckets
                  BY <1>0, <3>1, QueuedNode
            <3> QED BY <1>3, <1>9, <1>11, <3>1, <3>2
      <2>3. ASSUME NEW b \in Buckets, NEW m \in Range(B[b]), NEW k \in Range(B[b]),
                   entry'[m].key = entry'[k].key
            PROVE  m = k
            BY <1>0, <1>3, <1>9, <2>3 DEF Shelved
      <2> QED BY <2>1, <2>2, <2>3 DEF Shelved
<1>14. Loose(B, T, v)
      BY <1>9, <1>10 DEF Loose
<1>15. Pooled(B, T)'
      <2> SUFFICES ASSUME phase = "serving" PROVE Pooled(B, T)'
          BY <1>3 DEF Pooled
      <2>0. Pooled(bt, qu) /\ t \in Workers
            BY <1>1 DEF Ready, Sound, Working, At, Threads
      <2>1. pool.blocks # 0 /\ \A i, j \in 1..Len(pool.free) : pool.free[i] = pool.free[j] => i = j
            BY <2>0 DEF Pooled
      <2>2. v \in Allocated /\ loc[t].slot = Nil
            BY <1>1, <1>2, <2>0 DEF Pooled, Holding
      <2>3. ASSUME NEW m \in Range(pool.free)
            PROVE  m \in Allocated /\ Loose(B, T, m) /\ \A w \in Workers : loc'[w].slot # m
            <3>1. m \in Allocated /\ Loose(bt, qu, m) /\ \A w \in Workers : loc[w].slot # m
                  BY <2>0 DEF Pooled
            <3>2. m # v
                  BY <1>2, <3>1 DEF Loose
            <3>3. Loose(B, T, m)
                  BY <1>9, <1>10, <3>1 DEF Loose
            <3> QED BY <1>4, <1>6, <3>1, <3>2, <3>3
      <2>4. ASSUME NEW m \in Allocated
            PROVE  \/ m \in Range(pool.free) \/ m \in Range(B[Home(m)])
                   \/ \E w \in Workers : loc'[w].slot = m
            <3>1. \/ m \in Range(pool.free) \/ m \in Range(bt[Home(m)])
                  \/ \E w \in Workers : loc[w].slot = m
                  BY <2>0 DEF Pooled
            <3>2. m \in Node /\ m # Nil
                  BY <1>0, AllocatedNodes, CacheAssumption
            <3>3. Home(m) \in Buckets
                  <4>1. entry[m] \in Entries
                        BY <1>0, <3>2
                  <4> QED BY <4>1, CacheAssumption DEF Home, Entries
            <3>4. \A w \in Workers : loc[w].slot = m => loc'[w].slot = m
                  BY <1>6, <2>2, <3>2
            <3>5. m = v => loc'[t].slot = m
                  BY <1>4
            <3> QED BY <1>9, <2>0, <3>1, <3>3, <3>4, <3>5
      <2>5. ASSUME NEW b \in Buckets PROVE Range(B[b]) \subseteq Allocated
            <3>1. Range(bt[b]) \subseteq Allocated
                  BY <2>0 DEF Pooled
            <3> QED BY <1>9, <3>1
      <2>6. \A w \in Workers :
              IF pc'[w] \in Holding THEN loc'[w].slot \in Allocated ELSE loc'[w].slot = Nil
            BY <1>3, <1>4, <1>6, <2>0, <2>2 DEF Pooled, Holding
      <2>7. Allocated' = Allocated /\ \A m : Loose(B, T, m)' <=> Loose(B, T, m)
            BY <1>3 DEF Allocated, Loose
      <2> QED BY <1>3, <1>11, <2>1, <2>3, <2>4, <2>5, <2>6, <2>7 DEF Pooled
<1>16. t \in Workers => Asked(t)'
      BY <1>1, <1>3 DEF Ready, Working, AtWork, Asked
<1>17. /\ Absent(bt, req[t].key)
       /\ t \in Workers => req[t].op \in {"GET", "PUT"} /\ PoolEmpty(pool)
       /\ req[t].op = "GET" => req[t].value = db[req[t].key] /\ req[t].value # NoValue
      BY <1>1 DEF Ready, AtWork, Making, Evicting
<1>18. Absent(B, req[t].key)'
      BY <1>3, <1>9, <1>17 DEF Absent
<1>19. entry[v].key # req[t].key
      BY <1>2, <1>17 DEF Absent
<1>20. Absent(B, entry[v].key)
      <2> SUFFICES ASSUME NEW b \in Buckets, NEW m \in Range(B[b]), entry[m].key = entry[v].key
                   PROVE  FALSE
          BY DEF Absent
      <2>1. m \in Range(bt[b]) /\ m # v
            BY <1>9
      <2>2. b = c
            BY <1>0, <1>2, <2>1 DEF Shelved, Home
      <2> QED BY <1>0, <1>2, <2>1, <2>2 DEF Shelved
<1>21. /\ Loose(B, T, loc[t].slot)'
       /\ (LET x == loc[t].slot
           IN Filled(x) /\ Absent(B, entry[x].key) /\ entry[x].key # req[t].key)'
      <2>1. Loose(B, T, loc'[t].slot)
            BY <1>4, <1>14
      <2> QED BY <1>2, <1>3, <1>4, <1>19, <1>20, <2>1 DEF Filled, Absent, Loose
<1>22. AtWork(t, B, T)'
      BY <1>3, <1>16, <1>17, <1>18, <1>21 DEF AtWork, Making, Evicting, Holding
<1>23. phase' # "crashed"
      BY <1>3 DEF Ready, Quiet
<1> QED BY <1>12, <1>13, <1>15, <1>22, <1>23 DEF Sound

(* Writing the victim back: a worker is left with a node to fill. *)
LEMMA WriteBackKeeps ==
  ASSUME NEW t \in Threads, NEW bt, NEW qu, Ready(t, bt, qu), WriteBack(t)
  PROVE  Sound(bt, qu)' /\ AtWork(t, bt, qu)' /\ phase' # "crashed"
<1> DEFINE v == loc[t].slot
<1>0. /\ TypeOK /\ loc \in [Threads -> Locals] /\ pc \in [Threads -> Places]
      /\ db \in [Keys -> MaybeValue]
      BY ReadyTypes DEF TypeOK
<1>1. /\ UNCHANGED <<pool, phase, entry, req, loc, ht, lru>> /\ pc[t] = "writeback"
      /\ pc'[t] = (IF t = Main THEN "evict" ELSE "fill") /\ db' = Flushed(db, entry[v])
      BY <1>0 DEF WriteBack, At, Goto
<1>2. Step(t)
      BY DEF Step, Eviction
<1>3. ASSUME phase' = "serving", NEW w \in Workers
      PROVE  loc'[w].slot = loc[w].slot /\ (pc'[w] \in Holding <=> pc[w] \in Holding)
      <2>1. t # Main
            BY <1>1, <1>3 DEF Ready, Working, At
      <2>2. w # t => pc'[w] = pc[w]
            BY <1>0, <1>2, StepAlone DEF Threads
      <2> QED BY <1>1, <2>1, <2>2 DEF Holding
<1>4. Sound(bt, qu)'
      BY <1>1, <1>3, LooksKeepSound DEF Ready
<1>5. t \in Workers => Asked(t)'
      BY <1>1 DEF Ready, Working, AtWork, Asked
<1>6. /\ Absent(bt, req[t].key)'
      /\ t \in Workers => req[t].op \in {"GET", "PUT"} /\ PoolEmpty(pool)
      /\ req[t].op = "GET" => req[t].value = db[req[t].key] /\ req[t].value # NoValue
      /\ Filled(v) /\ entry[v].key # req[t].key /\ Loose(bt, qu, v)
      BY <1>1 DEF Ready, AtWork, Absent, Making, Evicting, Holding
<1>7. req[t].op = "GET" => req[t].key \in Keys
      BY ReadyTypes DEF Messages, NoMessage
<1>8. req[t].op = "GET" => db'[req[t].key] = db[req[t].key]
      BY <1>0, <1>1, <1>6, <1>7 DEF Flushed
<1>9. Loose(bt, qu, loc[t].slot)'
      BY <1>1, <1>6 DEF Loose
<1>10. t = Main \/ t \in Workers
      BY DEF Threads
<1>11. Main \notin Workers
      BY CacheAssumption
<1>12. AtWork(t, bt, qu)'
      BY <1>1, <1>5, <1>6, <1>8, <1>9, <1>10, <1>11 DEF AtWork, Making, Evicting, Holding
<1>13. phase' # "crashed"
      BY <1>1 DEF Ready, Quiet
<1> QED BY <1>4, <1>12, <1>13

-----------------------------------------------------------------------------
(* Every step, together.                                                  *)

(* Whatever its thread does, a step keeps everything. *)
LEMMA StepKeeps ==
  ASSUME NEW t \in Threads, NEW bt, NEW qu, Ready(t, bt, qu), Step(t)
  PROVE  (\E B, T : Good(B, T)') /\ phase' # "crashed"
<1>0. /\ TypeOK /\ Working(t) /\ phase # "crashed"
      BY ReadyTypes DEF Ready, Quiet
<1>1. CASE Search(t)
      <2>1. phase' # "crashed"
            BY <1>0, <1>1 DEF Search, LockForSearch, WalkOn
      <2> QED BY <1>0, <1>1, <2>1, SearchKeeps, TakesOver
<1>2. CASE GetHit(t) \/ PutHit(t) \/ DeleteHit(t) \/ Relock(t)
      <2>1. phase' # "crashed"
            BY <1>0, <1>2 DEF GetHit, PutHit, DeleteHit, Relock
      <2> QED BY <1>0, <1>2, <2>1, HitKeeps, TakesOver
<1>3. CASE GetMissFound(t) \/ PutMiss(t)
      <2>1. phase' # "crashed"
            BY <1>0, <1>3 DEF GetMissFound, PutMiss
      <2> QED BY <1>0, <1>3, <2>1, MissKeeps, TakesOver
<1>4. CASE GetMissAbsent(t) \/ DeleteHitDeleted(t) \/ DeleteMiss(t)
      <2>1. phase' # "crashed"
            BY <1>0, <1>4 DEF GetMissAbsent, DeleteHitDeleted, DeleteMiss
      <2> QED BY <1>0, <1>4, <2>1, ReturnKeeps, TakesOver
<1>5. CASE GetTouch(t) \/ PutUpdate(t) \/ DeleteMark(t)
      <2>1. phase' # "crashed"
            BY <1>0, <1>5 DEF GetTouch, PutUpdate, DeleteMark
      <2>2. PICK T : Sound(bt, T)' /\ AtWork(t, bt, T)'
            BY <1>5, TouchKeeps
      <2> QED BY <1>0, <2>1, <2>2, TakesOver
<1>6. CASE NewEntry(t) \/ LockForInsert(t) \/ ScanFound(t) \/ LockVictimBucket(t)
      <2>1. phase' # "crashed"
            BY <1>0, <1>6 DEF NewEntry, LockForInsert, ScanFound, LockVictimBucket
      <2> QED BY <1>0, <1>6, <2>1, PlaceKeeps, TakesOver
<1>7. CASE EvictBegin(t) \/ ScanOn(t)
      <2>1. phase' # "crashed"
            BY <1>0, <1>7 DEF EvictBegin, ScanOn
      <2> QED BY <1>0, <1>7, <2>1, ScanKeeps, TakesOver
<1>8. CASE ScanNothing(t) \/ Peek(t) \/ Acquire(t) \/ Fill(t) \/ WriteBack(t)
      BY <1>0, <1>8, ScanEndKeeps, PeekKeeps, AcquireKeeps, FillKeeps, WriteBackKeeps, TakesOver
<1>9. CASE Insert(t)
      <2>1. phase' # "crashed"
            BY <1>0, <1>9 DEF Insert
      <2>2. PICK B, T : Sound(B, T)' /\ AtWork(t, B, T)'
            BY <1>9, InsertKeeps
      <2> QED BY <1>0, <2>1, <2>2, TakesOver
<1>10. CASE UnlinkVictim(t)
      <2>1. phase' # "crashed" /\ \E B, T : Sound(B, T)' /\ AtWork(t, B, T)'
            BY <1>10, UnlinkKeeps
      <2>2. PICK B, T : Sound(B, T)' /\ AtWork(t, B, T)'
            BY <2>1
      <2> QED BY <1>0, <2>1, <2>2, TakesOver
<1> QED BY <1>1, <1>2, <1>3, <1>4, <1>5, <1>6, <1>7, <1>8, <1>9, <1>10
        DEF Step, Search, Get, Put, Delete, PutNew, Eviction

(* What a step does to the places, which is all Quiet speaks of. *)
LEMMA StepQuiet ==
  ASSUME LockInv, NEW t \in Threads, Quiet, Working(t), Step(t), phase' # "crashed"
  PROVE  Quiet'
<1>0. /\ TypeOK /\ loc \in [Threads -> Locals] /\ pc \in [Threads -> Places]
      /\ req \in [Threads -> Messages] /\ Main \in Threads /\ ~Crash
      BY DEF LockInv, TypeOK, Threads, Crash
<1>1. \A s \in Threads \ {t} : /\ pc'[s] = "idle" /\ pc[s] = "idle"
                                /\ loc'[s] = loc[s] /\ req'[s] = req[s]
      BY <1>0, StepAlone, RequestsAlone DEF Working
<1>2. \A s \in Threads \ {t} : loc[s] = NoLocals /\ req[s] = NoMessage
      BY <1>1 DEF Quiet
<1>3. phase = (IF t = Main THEN "cleaning" ELSE "serving")
      BY DEF Working, At
<1>4. CASE \/ GetTouch(t) \/ GetMissAbsent(t) \/ PutUpdate(t) \/ DeleteHitDeleted(t)
           \/ DeleteMark(t) \/ DeleteMiss(t) \/ Insert(t)
      <2>1. /\ pc[t] \in {"touch", "walk", "update", "insert"} /\ phase' = phase
            /\ \E ok, v : Finish(t, ok, v)
            BY <1>4 DEF GetTouch, GetMissAbsent, PutUpdate, DeleteHitDeleted, DeleteMark,
                        DeleteMiss, Insert, Hit, Miss, At
      <2>2. t # Main
            BY <2>1 DEF Quiet, Evicting
      <2>3. pc'[t] = "idle" /\ loc'[t] = NoLocals /\ req'[t] = NoMessage
            BY <1>0, <2>1 DEF Finish, Goto
      <2> QED BY <1>0, <1>1, <1>2, <1>3, <2>1, <2>2, <2>3 DEF Quiet
<1>5. CASE Eviction(t)
      <2>1. /\ req' = req /\ pc'[t] \in Evicting \cup {"idle", "fill"}
            /\ t = Main => pc'[t] # "fill"
            /\ IF pc'[t] = "idle" THEN t = Main /\ loc'[t] = NoLocals ELSE phase' = phase
            BY <1>0, <1>5 DEF Eviction, EvictBegin, ScanOn, ScanFound, ScanNothing, Peek,
               LockVictimBucket, UnlinkVictim, WriteBack, Goto, Evicting, At
      <2>2. t = Main => req'[t] = NoMessage
            BY <2>1 DEF Quiet
      <2> QED BY <1>0, <1>1, <1>2, <1>3, <2>1, <2>2 DEF Quiet, Evicting
<1>6. CASE \/ Search(t) \/ GetHit(t) \/ GetMissFound(t) \/ PutHit(t) \/ PutMiss(t)
           \/ DeleteHit(t) \/ Relock(t) \/ NewEntry(t) \/ Acquire(t) \/ Fill(t)
           \/ LockForInsert(t)
      <2>1. /\ pc[t] \in {"lookup", "walk", "relock", "new", "acquire", "fill", "publish"}
            /\ phase' = phase /\ pc'[t] # "idle"
            BY <1>0, <1>6 DEF Search, LockForSearch, WalkOn, GetHit, GetMissFound, PutHit, PutMiss,
               DeleteHit, Relock, NewEntry, Acquire, Fill, LockForInsert, Hit, Miss, At, Goto
      <2>2. t # Main
            BY <2>1 DEF Quiet, Evicting
      <2> QED BY <1>0, <1>1, <1>2, <1>3, <2>1, <2>2 DEF Quiet
<1> QED BY <1>4, <1>5, <1>6 DEF Step, Get, Put, Delete, PutNew

(* Every step of a thread keeps the invariant. *)
LEMMA StepMapInv ==
  ASSUME LockInv, OneAtATime, MapInv, NEW t \in Threads, Step(t)
  PROVE  MapInv'
<1>1. At(t, pc[t]) /\ pc[t] # "idle" /\ Working(t)
      BY StepIsAtWork, BusyAlone DEF MapInv
<1>2. PICK bt, qu : Good(bt, qu)
      BY DEF MapInv
<1>3. Ready(t, bt, qu)
      BY <1>1, <1>2 DEF Ready, MapInv, Good, Sound
<1>4. (\E B, T : Good(B, T)') /\ phase' # "crashed"
      BY <1>3, StepKeeps
<1>5. Quiet'
      BY <1>1, <1>4, StepQuiet DEF MapInv
<1> QED BY <1>4, <1>5 DEF MapInv

(* So does a request that reaches a worker. *)
LEMMA BeginMapInv ==
  ASSUME LockInv, MapInv, NEW w \in Workers, NEW r \in RequestsOf[w], Begin(w, r)
  PROVE  MapInv'
<1>0. /\ TypeOK /\ loc \in [Threads -> Locals] /\ pc \in [Threads -> Places]
      /\ req \in [Threads -> Messages] /\ w \in Threads /\ w # Main
      BY CacheAssumption DEF LockInv, TypeOK, Threads
<1>1. /\ pc[w] = "idle" /\ phase = "serving"
      /\ req' = [req EXCEPT ![w] = r] /\ pc' = [pc EXCEPT ![w] = "lookup"]
      /\ UNCHANGED <<entry, ht, lru, pool, phase, db, loc, evictIdx>>
      BY <1>0 DEF Begin, At, Goto, htVars, lruVars, idxVars
<1>2. req'[w] = r /\ pc'[w] = "lookup"
      BY <1>0, <1>1
<1>3. \A s \in Threads \ {w} : pc'[s] = pc[s] /\ loc'[s] = loc[s] /\ req'[s] = req[s]
      BY <1>0, <1>1
<1>4. PICK bt, qu : Good(bt, qu)
      BY DEF MapInv
<1>5. Quiet'
      BY <1>0, <1>1, <1>2, <1>3 DEF MapInv, Quiet
<1>6. Sound(bt, qu)'
      <2>1. \A v \in Workers : /\ loc'[v].slot = loc[v].slot
                               /\ pc'[v] \in Holding <=> pc[v] \in Holding
            BY <1>1, <1>2, <1>3 DEF Holding, Threads
      <2> QED BY <1>1, <1>4, <2>1, LooksKeepSound DEF Good, Sound
<1>7. AtWork(w, bt, qu)'
      <2>1. r \in Requests
            BY CacheAssumption
      <2>2. Asked(w)'
            BY <1>2, <2>1 DEF Asked, Requests
      <2> QED BY <1>2, <2>2 DEF AtWork, Making, Evicting, Holding
<1>8. ASSUME NEW s \in Threads \ {w} PROVE AtWork(s, bt, qu)'
      <2>1. AtWork(s, bt, qu)
            BY <1>4 DEF Good
      <2>2. Bucket(s)' = Bucket(s) /\ pc'[s] = pc[s] /\ loc'[s] = loc[s] /\ req'[s] = req[s]
            BY <1>3 DEF Bucket
      <2> QED BY <1>1, <2>1, <2>2 DEF AtWork, Asked, Searching, Found, Absent, Scanned,
                  Home, Loose, Filled, SetAll
<1> QED BY <1>5, <1>6, <1>7, <1>8 DEF MapInv, Good, Sound

(* So does the signal: nobody is inside a call, nothing is in hand. *)
LEMMA CleaningMapInv ==
  ASSUME LockInv, MapInv, StartCleaning
  PROVE  MapInv'
<1>0. /\ TypeOK /\ pc \in [Threads -> Places] /\ Main \in Threads
      /\ \A t \in Threads : t # Main => t \in Workers
      BY DEF LockInv, TypeOK, Threads
<1>1. /\ phase = "serving" /\ phase' = "cleaning" /\ \A w \in Workers : pc[w] = "idle"
      /\ pc' = [pc EXCEPT ![Main] = "evict"]
      /\ UNCHANGED <<entry, ht, lru, pool, db, loc, req>>
      BY DEF StartCleaning, Goto, htVars, lruVars
<1>2. PICK bt, qu : Good(bt, qu)
      BY DEF MapInv
<1>3. Quiet'
      BY <1>0, <1>1 DEF MapInv, Quiet, Evicting
<1>4. Sound(bt, qu)'
      BY <1>1, <1>2, LooksKeepSound DEF Good, Sound
<1>5. AtWork(Main, bt, qu)'
      <2>1. req'[Main] = NoMessage
            BY <1>1 DEF MapInv, Quiet
      <2>2. Absent(bt, req[Main].key)'
            BY <1>0, <1>1, <1>2, <2>1, LinkedNode, CacheAssumption
               DEF Good, Sound, Absent, Filled, NoMessage
      <2> QED BY <1>0, <1>1, <2>1, <2>2, CacheAssumption
              DEF AtWork, Making, Evicting, Holding, NoMessage
<1>6. ASSUME NEW s \in Threads \ {Main} PROVE AtWork(s, bt, qu)'
      BY <1>0, <1>1, IdleAtWork
<1> QED BY <1>3, <1>4, <1>5, <1>6 DEF MapInv, Good, Sound

(* A new process: nothing linked, all the first block free. *)
LEMMA FreshPool ==
  /\ InitialPool.blocks = 1
  /\ \A i \in 1..Len(InitialPool.free), j \in 1..Len(InitialPool.free) :
       InitialPool.free[i] = InitialPool.free[j] => i = j
  /\ \A n : n \in Range(InitialPool.free) <=> n \in (1..1) \X (1..BlockSize)
<1> DEFINE f == [i \in 1..BlockSize |-> <<1, i>>]
<1>1. InitialPool.blocks = 1 /\ InitialPool.free = <<>> \o [i \in 1..BlockSize |-> <<0 + 1, i>>]
      BY DEF InitialPool, AllocateOneBlock
<1>2. BlockSize \in Nat
      BY BlockAssumption
<1>3. f \in Seq((1..1) \X (1..BlockSize)) /\ Len(f) = BlockSize
      BY <1>2
<1>4. InitialPool.free = f
      <2>1. [i \in 1..BlockSize |-> <<0 + 1, i>>] = f
            OBVIOUS
      <2> QED BY <1>1, <1>3, <2>1
<1>5. \A i \in 1..BlockSize : f[i] = <<1, i>>
      OBVIOUS
<1>6. \A n : n \in Range(f) <=> \E i \in 1..BlockSize : n = f[i]
      BY <1>3 DEF Range
<1>7. \A i, j \in 1..BlockSize : f[i] = f[j] => i = j
      BY <1>5
<1>8. \A n : n \in (1..1) \X (1..BlockSize) <=> \E i \in 1..BlockSize : n = <<1, i>>
      OBVIOUS
<1> HIDE DEF f
<1>9. Len(InitialPool.free) = BlockSize
      BY <1>3, <1>4
<1>10. \A n : n \in Range(InitialPool.free) <=> n \in (1..1) \X (1..BlockSize)
      <2>1. \A n : n \in Range(f) <=> \E i \in 1..BlockSize : n = <<1, i>>
            BY <1>5, <1>6
      <2> QED BY <1>4, <1>8, <2>1
<1> QED BY <1>1, <1>4, <1>7, <1>9, <1>10

Fresh == /\ pool = InitialPool /\ ht = EmptyLists(Buckets, Node) /\ lru = EmptyLists(Queue, Node)
         /\ phase = "serving" /\ pc = [t \in Threads |-> "idle"]
         /\ req = [t \in Threads |-> NoMessage] /\ loc = [t \in Threads |-> NoLocals]

(* A new process satisfies it. *)
LEMMA FreshMapInv == Fresh => MapInv
<1> SUFFICES ASSUME Fresh PROVE MapInv
    OBVIOUS
<1> USE DEF Fresh
<1>1. PICK bt : InOrder(ht, Buckets, Node, bt) /\ \A b \in Buckets : Range(bt[b]) = {}
      BY EmptyListsInOrder, CacheAssumption
<1>2. PICK qu : InOrder(lru, Queue, Node, qu) /\ \A q \in Queue : Range(qu[q]) = {}
      BY EmptyListsInOrder, CacheAssumption
<1>3. Quiet
      BY DEF Quiet, Threads
<1>4. Shape(bt, qu) /\ Shelved(bt, qu)
      BY <1>1, <1>2 DEF Shape, Shelved
<1>5. Pooled(bt, qu)
      <2>1. \A w \in Workers : loc[w].slot = Nil /\ pc[w] = "idle"
            BY DEF NoLocals, Threads
      <2>2. Allocated = (1..1) \X (1..BlockSize)
            BY FreshPool DEF Allocated
      <2>3. Nil \notin Allocated
            <3>1. Allocated \subseteq Node
                  BY <2>2, BlockAssumption DEF Node
            <3> QED BY <3>1, CacheAssumption
      <2>4. \A n : n \in Range(pool.free) <=> n \in Allocated
            BY <2>2, FreshPool
      <2>5. \A n : Loose(bt, qu, n)
            BY <1>1, <1>2 DEF Loose
      <2>6. /\ pool.blocks # 0
            /\ \A i, j \in 1..Len(pool.free) : pool.free[i] = pool.free[j] => i = j
            BY FreshPool
      <2>7. \A b \in Buckets : Range(bt[b]) \subseteq Allocated
            BY <1>1
      <2> HIDE DEF Fresh
      <2> QED BY <2>1, <2>3, <2>4, <2>5, <2>6, <2>7 DEF Pooled, Holding
<1>6. \A t \in Threads : AtWork(t, bt, qu)
      BY DEF AtWork, Making, Evicting, Holding
<1> QED BY <1>3, <1>4, <1>5, <1>6 DEF MapInv, Good

(* MapInv is inductive, given the invariant of the locks. *)
LEMMA MapInvStep == LockInv /\ OneAtATime /\ MapInv /\ [Next]_vars => MapInv'
<1> SUFFICES ASSUME LockInv, OneAtATime, MapInv, [Next]_vars PROVE MapInv'
    OBVIOUS
<1>1. ASSUME NEW w \in Workers, NEW r \in RequestsOf[w], Begin(w, r) PROVE MapInv'
      BY <1>1, BeginMapInv
<1>2. ASSUME NEW t \in Threads, Step(t) PROVE MapInv'
      BY <1>2, StepMapInv
<1>3. CASE StartCleaning
      BY <1>3, CleaningMapInv
<1>4. CASE Restart
      <2>1. Fresh'
            BY <1>4 DEF Restart, Fresh
      <2>2. Fresh' => MapInv'
            BY FreshMapInv, PTL
      <2> QED BY <2>1, <2>2
<1>5. CASE UNCHANGED vars
      <2>1. UNCHANGED <<db, pool, entry, ht, lru, evictIdx, pc, req, loc, phase>>
            BY <1>5 DEF vars, htVars, lruVars, idxVars, threadVars
      <2>2. PICK bt, qu : Good(bt, qu)
            BY DEF MapInv
      <2>3. Sound(bt, qu)'
            BY <2>1, <2>2, LooksKeepSound DEF Good, Sound
      <2>4. ASSUME NEW s \in Threads PROVE AtWork(s, bt, qu)'
            <3>1. AtWork(s, bt, qu)
                  BY <2>2 DEF Good
            <3>2. /\ Asked(s)' = Asked(s) /\ Scanned(s)' = Scanned(s) /\ Bucket(s)' = Bucket(s)
                  /\ \A l : Searching(s, l)' = Searching(s, l)
                  /\ Found(s, bt)' = Found(s, bt)
                  BY <2>1 DEF Asked, Scanned, Bucket, Searching, Found
            <3>3. /\ \A k : Absent(bt, k)' = Absent(bt, k)
                  /\ \A n : Home(n)' = Home(n) /\ Filled(n)' = Filled(n)
                  /\ \A n : Loose(bt, qu, n)' = Loose(bt, qu, n)
                  BY <2>1 DEF Absent, Home, Filled, Loose
            <3> QED BY <2>1, <3>1, <3>2, <3>3 DEF AtWork, SetAll
      <2>5. Quiet'
            BY <2>1 DEF MapInv, Quiet
      <2> QED BY <2>3, <2>4, <2>5 DEF MapInv, Good, Sound
<1> QED BY <1>1, <1>2, <1>3, <1>4, <1>5 DEF Next

(* While calls do not overlap, every place of a call has what the code     *)
(* relies on there, in particular proper lists and nobody else's node.     *)
THEOREM MapInvariant == Spec /\ []OneAtATime => []MapInv
<1>1. Init => MapInv
      BY FreshMapInv DEF Init, Fresh
<1> QED BY <1>1, MapInvStep, LockInvariant, PTL DEF Spec

-----------------------------------------------------------------------------
(* Counting: no list is longer than the number of nodes.                  *)

(* A sequence without repetition is as long as it has elements. *)
LEMMA CountsItself ==
  ASSUME NEW N, NEW s \in Seq(N), \A i, j \in 1..Len(s) : s[i] = s[j] => i = j
  PROVE  IsFiniteSet(Range(s)) /\ Cardinality(Range(s)) = Len(s) /\ Len(s) \in Nat
<1>1. Len(s) \in Nat /\ DOMAIN s = 1..Len(s)
      OBVIOUS
<1>2. IsFiniteSet(1..Len(s)) /\ Cardinality(1..Len(s)) = Len(s)
      BY <1>1, FS_Interval
<1>3. s \in [1..Len(s) -> Range(s)] /\ \A x \in Range(s) : \E i \in 1..Len(s) : s[i] = x
      BY <1>1 DEF Range
<1>4. s \in Bijection(1..Len(s), Range(s))
      BY <1>3 DEF Bijection, Injection, Surjection, IsInjective
<1>5. ExistsBijection(1..Len(s), Range(s))
      BY <1>4 DEF ExistsBijection
<1> QED BY <1>1, <1>2, <1>5, FS_Bijection

(* Two sets without a common element have together as many as each. *)
LEMMA CountOfBoth ==
  ASSUME NEW S, NEW T, IsFiniteSet(S), IsFiniteSet(T), S \cap T = {}
  PROVE  /\ IsFiniteSet(S \cup T)
         /\ Cardinality(S \cup T) = Cardinality(S) + Cardinality(T)
<1>1. Cardinality(S) \in Nat /\ Cardinality(T) \in Nat
      BY FS_CardinalityType
<1>2. Cardinality(S \cap T) = 0
      BY FS_EmptySet
<1>3. /\ IsFiniteSet(S \cup T)
      /\ Cardinality(S \cup T) = Cardinality(S) + Cardinality(T) - Cardinality(S \cap T)
      BY FS_Union
<1> QED BY <1>1, <1>2, <1>3

(* How many nodes there are, and how many are allocated. *)
LEMMA CountOfNodes ==
  /\ IsFiniteSet(Node) /\ Cardinality(Node) = NodeCount /\ NodeCount \in Nat
  /\ TypeOK => /\ IsFiniteSet(Allocated) /\ Allocated \subseteq Node
               /\ Cardinality(Allocated) = pool.blocks * BlockSize
<1>1. BlockSize \in Nat /\ MaxBlocks \in Nat
      BY BlockAssumption
<1>2. ASSUME NEW m \in Nat
      PROVE  /\ IsFiniteSet((1..m) \X (1..BlockSize))
             /\ Cardinality((1..m) \X (1..BlockSize)) = m * BlockSize
      <2> DEFINE B == 1..m
                 P == 1..BlockSize
      <2>1. /\ IsFiniteSet(B) /\ Cardinality(B) = m
            /\ IsFiniteSet(P) /\ Cardinality(P) = BlockSize
            BY <1>1, FS_Interval
      <2> HIDE DEF B, P
      <2>2. IsFiniteSet(B \X P) /\ Cardinality(B \X P) = Cardinality(B) * Cardinality(P)
            BY <2>1, FS_Product
      <2> QED BY <2>1, <2>2 DEF B, P
<1>3. NodeCount \in Nat
      BY <1>1 DEF NodeCount
<1>4. TypeOK => pool.blocks \in Nat
      BY DEF TypeOK, Pools
<1> QED BY <1>1, <1>2, <1>3, <1>4, AllocatedNodes DEF Node, NodeCount, Allocated

(* A list of nodes ends within NodeCount steps of a walk. *)
LEMMA OrderedIsShort ==
  ASSUME NEW Q, NEW L, NEW S, InOrder(L, Q, Node, S), NEW q \in Q
  PROVE  Members(L, q, NodeCount) = Range(S[q]) /\ ProperList(L, q, NodeCount)
<1>1. S[q] \in Seq(Node) /\ \A i, j \in 1..Len(S[q]) : S[q][i] = S[q][j] => i = j
      BY DEF InOrder, Apart
<1>2. Range(S[q]) \subseteq Node
      BY OrderedNodes
<1>3. Len(S[q]) \in Nat /\ Len(S[q]) <= NodeCount
      BY <1>1, <1>2, CountsItself, CountOfNodes, FS_Subset
<1> QED BY <1>3, CountOfNodes, ListInOrder

-----------------------------------------------------------------------------
(* What the invariant says of the cache.                                  *)

(* The invariant gives ListsProper, *)
LEMMA ListsAreProper == MapInv => ListsProper
BY OrderedIsShort DEF MapInv, Good, Shape, ListsProper

(* OneNodePerKey, *)
LEMMA KeysAreUnique == MapInv => OneNodePerKey
<1> SUFFICES ASSUME MapInv, NEW b \in Buckets, NEW m \in InBucket(b), NEW n \in InBucket(b),
                    entry[m].key = entry[n].key
             PROVE  m = n
    BY DEF OneNodePerKey
<1>1. PICK bt, qu : Shape(bt, qu) /\ Shelved(bt, qu)
      BY DEF MapInv, Good
<1>2. InBucket(b) = Range(bt[b])
      BY <1>1, OrderedIsShort DEF Shape, InBucket
<1> QED BY <1>1, <1>2 DEF Shelved

(* While the server runs, a thread has a node in its hands only inside a   *)
(* call, and only one thread is inside one.                                *)
LEMMA HandsApart ==
  ASSUME MapInv, OneAtATime, phase = "serving", NEW bt, NEW qu, Pooled(bt, qu)
  PROVE  /\ \A t \in Threads : \/ loc[t].slot = Nil
                               \/ t \in Workers /\ pc[t] \in Holding /\ loc[t].slot \in Allocated
         /\ \A s, t \in Threads : loc[s].slot # Nil /\ loc[t].slot # Nil => s = t
<1>1. \A w \in Workers : IF pc[w] \in Holding THEN loc[w].slot \in Allocated ELSE loc[w].slot = Nil
      BY DEF Pooled
<1>2. loc[Main].slot = Nil
      <2>1. pc[Main] = "idle"
            BY DEF MapInv, Quiet, Threads
      <2> QED BY <2>1 DEF MapInv, Quiet, Threads, NoLocals
<1>3. ASSUME NEW s \in Threads, NEW t \in Threads, loc[s].slot # Nil, loc[t].slot # Nil
      PROVE  s = t
      <2>1. s \in Workers /\ t \in Workers
            BY <1>2, <1>3 DEF Threads
      <2>2. pc[s] \in Holding /\ pc[t] \in Holding
            BY <1>1, <1>3, <2>1
      <2> QED BY <2>1, <2>2 DEF OneAtATime, Holding
<1> QED BY <1>1, <1>2, <1>3 DEF Threads

(* and NodesAccounted: the linked, the free and the evicted nodes are      *)
(* apart and together all that are allocated.                              *)
LEMMA NodesAreAccounted == TypeOK /\ MapInv /\ OneAtATime => NodesAccounted
<1> SUFFICES ASSUME TypeOK, MapInv, OneAtATime, phase = "serving" PROVE NodesAccounted
    BY DEF NodesAccounted
<1> DEFINE linked == UNION {InBucket(b) : b \in Buckets}
           queued == UNION {InQueue(q) : q \in Queue}
           free   == Range(pool.free)
<1>1. PICK bt, qu : Good(bt, qu)
      BY DEF MapInv
<1>2. /\ Sound(bt, qu) /\ Pooled(bt, qu)
      /\ InOrder(ht, Buckets, Node, bt) /\ InOrder(lru, Queue, Node, qu)
      BY <1>1 DEF Good, Sound, Shape
<1>3. /\ \A b \in Buckets : InBucket(b) = Range(bt[b])
      /\ \A q \in Queue : InQueue(q) = Range(qu[q])
      BY <1>2, OrderedIsShort DEF InBucket, InQueue
<1>4. /\ \A n : n \in linked <=> \E b \in Buckets : n \in Range(bt[b])
      /\ \A n : n \in queued <=> \E q \in Queue : n \in Range(qu[q])
      BY <1>3
<1>5. linked = queued
      <2>1. ASSUME NEW n \in linked PROVE n \in queued
            BY <1>2, <1>4, LinkedNode
      <2>2. ASSUME NEW n \in queued PROVE n \in linked
            BY <1>2, <1>4, QueuedNode
      <2> QED BY <2>1, <2>2
<1>6. /\ \A n \in free : n \in Allocated /\ n \notin linked /\ \A w \in Workers : loc[w].slot # n
      /\ linked \subseteq Allocated
      BY <1>2, <1>4 DEF Pooled, Loose
<1>7. /\ \A t \in Threads : \/ loc[t].slot = Nil
                            \/ t \in Workers /\ pc[t] \in Holding /\ loc[t].slot \in Allocated
      /\ \A s, t \in Threads : loc[s].slot # Nil /\ loc[t].slot # Nil => s = t
      BY <1>2, HandsApart
<1>8. Nil \notin Allocated
      BY AllocatedNodes, CacheAssumption
<1> HIDE DEF linked, queued, free
<1>9. \A t \in Threads : loc[t].slot \notin linked \cup free
      <2> SUFFICES ASSUME NEW t \in Threads, loc[t].slot \in linked \cup free PROVE FALSE
          OBVIOUS
      <2>1. loc[t].slot # Nil
            BY <1>6, <1>8
      <2>2. t \in Workers /\ pc[t] \in Holding
            BY <1>7, <2>1
      <2>3. Loose(bt, qu, loc[t].slot)
            BY <1>1, <2>2 DEF Good, AtWork
      <2> QED BY <1>4, <1>6, <2>2, <2>3 DEF Loose
<1>10. Cardinality(linked) + Len(pool.free) + Cardinality(Evicted) = pool.blocks * BlockSize
      <2>1. Evicted \subseteq Allocated /\ Evicted \cap (linked \cup free) = {}
            BY <1>7, <1>9 DEF Evicted
      <2>2. linked \cap free = {} /\ free \subseteq Allocated /\ linked \subseteq Allocated
            BY <1>6
      <2>3. Allocated \subseteq (linked \cup free) \cup Evicted
            <3> SUFFICES ASSUME NEW n \in Allocated PROVE n \in (linked \cup free) \cup Evicted
                OBVIOUS
            <3>1. \/ n \in free \/ n \in Range(bt[Home(n)]) \/ \E w \in Workers : loc[w].slot = n
                  BY <1>2 DEF Pooled, free
            <3>2. Home(n) \in Buckets
                  <4>1. entry[n] \in Entries
                        BY AllocatedNodes DEF TypeOK
                  <4> QED BY <4>1, CacheAssumption DEF Home, Entries
            <3>3. (\E w \in Workers : loc[w].slot = n) => n \in Evicted
                  BY <1>8 DEF Evicted, Threads
            <3> QED BY <1>4, <3>1, <3>2, <3>3
      <2>4. IsFiniteSet(Allocated) /\ Cardinality(Allocated) = pool.blocks * BlockSize
            BY CountOfNodes
      <2>5. IsFiniteSet(linked) /\ IsFiniteSet(free) /\ IsFiniteSet(Evicted)
            BY <2>1, <2>2, <2>4, FS_Subset
      <2>6. Cardinality(free) = Len(pool.free)
            BY <1>2, CountsItself DEF Pooled, free, TypeOK, Pools
      <2>7. /\ IsFiniteSet(linked \cup free)
            /\ Cardinality(linked \cup free) = Cardinality(linked) + Cardinality(free)
            BY <2>2, <2>5, CountOfBoth
      <2>8. Cardinality((linked \cup free) \cup Evicted)
              = Cardinality(linked \cup free) + Cardinality(Evicted)
            BY <2>1, <2>5, <2>7, CountOfBoth
      <2>9. (linked \cup free) \cup Evicted = Allocated
            BY <2>1, <2>2, <2>3
      <2> QED BY <2>4, <2>6, <2>7, <2>8, <2>9
<1>11. ASSUME NEW b \in Buckets, NEW n \in InBucket(b)
      PROVE  BucketOf[entry[n].key] = b /\ n \in InQueue(entry[n].lruIdx)
      BY <1>2, <1>3, LinkedNode DEF Home
<1>12. linked \cap free = {}
      BY <1>6
<1>13. \A s, t \in Threads : s # t /\ loc[s].slot # Nil => loc[s].slot # loc[t].slot
      BY <1>7
<1> QED BY <1>5, <1>9, <1>10, <1>11, <1>12, <1>13 DEF NodesAccounted, linked, queued, free

(* Every bucket and every LRU queue is a proper list at every step, as     *)
(* long as calls do not overlap.                                           *)
THEOREM ListsStayProper == Spec /\ []OneAtATime => []ListsProper
BY MapInvariant, ListsAreProper, PTL

(* Every node of the pool is linked, free or in the hands of one thread,   *)
(* and none is lost, as long as calls do not overlap.                      *)
THEOREM EveryNodeHasOnePlace == Spec /\ []OneAtATime => []NodesAccounted
BY MapInvariant, TypeCorrect, NodesAreAccounted, PTL

(* No two linked nodes hold one key, as long as calls do not overlap. *)
THEOREM KeysStayUnique == Spec /\ []OneAtATime => []OneNodePerKey
BY MapInvariant, KeysAreUnique, PTL

(* An eviction that a worker asks for finds a victim, and a tail at a      *)
(* queue it found filled: no null pointer is dereferenced, as long as      *)
(* calls do not overlap. It needs CACHE_TABLE_LEN to be at least the       *)
(* number of queues.                                                       *)
THEOREM NoNullPointer == Spec /\ []OneAtATime => []NeverCrashes
<1>1. MapInv => NeverCrashes
      BY DEF MapInv, Quiet, NeverCrashes
<1> QED BY <1>1, MapInvariant, PTL
=============================================================================
