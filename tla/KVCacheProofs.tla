--------------------------- MODULE KVCacheProofs ----------------------------
(***************************************************************************)
(* What KVCache guarantees however its threads interleave, proved for every*)
(* number of workers, keys, values, nodes, buckets and LRU queues: its     *)
(* types, what its locks exclude, who changes the bucket lists, and that   *)
(* no test for an evicted node succeeds.                                   *)
(***************************************************************************)
EXTENDS KVCacheLocks, LinkedListsProofs

(* Types, proved together with the fact that no step follows a null node   *)
(* (PointersHeld).                                                         *)

(* Taking an object from the pool gives a node and leaves a pool. *)
LEMMA PoolType ==
  ASSUME NEW p \in Pools, ~PoolEmpty(p) \/ HasRoom(p)
  PROVE  Acquired(p) \in Node /\ AfterAcquire(p) \in Pools
<1> DEFINE s == Stocked(p)
<1>1. s \in Pools /\ s.free # <<>>
  BY BlockAssumption DEF Stocked, Pools, PoolEmpty, HasRoom, AllocateOneBlock, Node
<1>2. s.free[Len(s.free)] \in Node
  BY <1>1 DEF Pools
<1>3. SubSeq(s.free, 1, Len(s.free) - 1) \in Seq(Node)
  BY <1>1 DEF Pools
<1> QED
  BY <1>1, <1>2, <1>3 DEF Acquired, AfterAcquire, Pools

(* The pool of a new process is a pool. *)
LEMMA PoolStart == InitialPool \in Pools
BY BlockAssumption DEF InitialPool, AllocateOneBlock, Pools, Node

-----------------------------------------------------------------------------
(* A message of a running call has a key, and any message can be read. *)
LEMMA MessageFacts ==
  ASSUME NEW m \in Messages, m.op # "NONE"
  PROVE  /\ m.op \in {"GET", "PUT", "DELETE"} /\ m.key \in Keys /\ m.value \in MaybeValue
         /\ \A v \in MaybeValue : [m EXCEPT !.value = v] \in Messages
BY DEF Messages, NoMessage

(* Any message, that of an idle thread included, has a key and a value. *)
LEMMA MessageFields ==
  ASSUME NEW m \in Messages
  PROVE  m.key \in Keys \cup {NoKey} /\ m.value \in MaybeValue
BY DEF Messages, NoMessage, MaybeValue

(* Every thread works on a bucket. *)
LEMMA BucketType ==
  ASSUME TypeOK, NEW t \in Threads
  PROVE  Bucket(t) \in Buckets /\ loc[t].bucket \in Buckets /\ loc[t].queue \in Queue
BY MessageFields, CacheAssumption DEF Bucket, TypeOK, Locals

(* The locals of a thread, and the parts of the state they are set from. *)
LEMMA LocType ==
  ASSUME TypeOK
  PROVE  /\ loc \in [Threads -> Locals] /\ insertIdx \in Queue /\ evictIdx \in Queue
         /\ ht \in ListFamily(Buckets, Node) /\ lru \in ListFamily(Queue, Node)
BY DEF TypeOK

(* A call that returns leaves the thread's variables in their types. *)
LEMMA FinishType ==
  ASSUME TypeOK, NEW t \in Threads, NEW ok \in BOOLEAN, NEW v \in MaybeValue,
         Finish(t, ok, v)
  PROVE  /\ pc' \in [Threads -> Places] /\ req' \in [Threads -> Messages]
         /\ ret' \in [Threads -> Answers] /\ loc' \in [Threads -> Locals]
<1>1. NoLocals \in Locals
  BY CacheAssumption DEF NoLocals, Locals, Queue
<1>2. NoMessage \in Messages /\ "idle" \in Places /\ Answer(ok, v) \in Answers
  BY DEF Messages, Places, Answer, Answers
<1> QED
  BY <1>1, <1>2 DEF Finish, Goto, TypeOK,
     htVars, lruVars, idxVars, Goto, Places

(* Locking and unlocking a bucket keeps the locks in their types. *)
LEMMA LockType ==
  ASSUME TypeOK, NEW t \in Threads, NEW b \in Buckets,
         \/ LockShared(t, b) \/ UnlockShared(t, b)
         \/ LockBucket(t, b) \/ UnlockBucket(b)
  PROVE  /\ htReaders' \in [Buckets -> SUBSET Threads]
         /\ htWriter' \in [Buckets -> Threads \cup {NoThread}]
BY DEF LockShared, UnlockShared, LockBucket, UnlockBucket, TypeOK

(* A step of the two counters is an index again. *)
LEMMA SteppedType == ASSUME NEW i \in Queue PROVE Stepped(i) \in Queue
BY CacheAssumption DEF Queue, Stepped

(* A crash changes nothing but the phase. *)
LEMMA CrashType == ASSUME TypeOK, Crash PROVE TypeOK'
BY DEF Crash, TypeOK, htVars, lruVars, idxVars, threadVars

-----------------------------------------------------------------------------
(* The type invariant, one action at a time. *)
LEMMA SearchType ==
  ASSUME TypeOK, PointersHeld, NEW t \in Threads, Search(t)
  PROVE  TypeOK'
<1>1. CASE LockForSearch(t)
  <2>1. ht.head[Bucket(t)] \in Node \cup {Nil}
    BY BucketType DEF TypeOK, ListFamily
  <2>2. loc' \in [Threads -> Locals]
    BY <1>1, <2>1, BucketType, LocType DEF Locals, LockForSearch
  <2> QED
    BY <1>1, <2>2, BucketType, LockType DEF LockForSearch, TypeOK,
       htVars, lruVars, idxVars, Goto, Places
<1>2. CASE WalkOn(t)
  <2>1. loc[t] \in Locals /\ loc[t].node \in Node
    BY <1>2, LocType DEF WalkOn, Locals
  <2>2. ht.next[loc[t].node] \in Node \cup {Nil}
    BY <2>1, LocType DEF ListFamily
  <2>3. loc' = [loc EXCEPT ![t].node = ht.next[loc[t].node]]
    BY <1>2, <2>1, LocType DEF WalkOn, Locals
  <2>4. loc' \in [Threads -> Locals]
    BY <2>1, <2>2, <2>3, LocType DEF Locals
  <2> QED
    BY <1>2, <2>4 DEF WalkOn, TypeOK,
       htVars, lruVars, idxVars, Goto, Places
<1> QED
  BY <1>1, <1>2 DEF Search

(* Every step of cache_GET_ptr keeps the types. *)
LEMMA GetType ==
  ASSUME TypeOK, PointersHeld, NEW t \in Threads, Get(t)
  PROVE  TypeOK'
<1>1. CASE GetHit(t)
  <2> DEFINE e == entry[loc[t].node]
             v == IF e.dirty = "TODELETE" THEN req[t].value ELSE e.value
  <2>1. e \in Entries
    BY <1>1 DEF GetHit, Hit, TypeOK, Locals
  <2>2. req[t] \in Messages /\ req[t].op # "NONE"
    BY <1>1 DEF GetHit, Hit, TypeOK
  <2>3. v \in MaybeValue
    BY <2>1, <2>2, MessageFields DEF Entries
  <2>4. req' = [req EXCEPT ![t] = [req[t] EXCEPT !.value = v]]
    BY <1>1, <2>2 DEF GetHit, TypeOK, Messages
  <2>5. req' \in [Threads -> Messages]
    BY <2>2, <2>3, <2>4, MessageFacts DEF TypeOK
  <2>6. loc' \in [Threads -> Locals]
    BY <1>1, <2>1, LocType DEF GetHit, Locals, Entries
  <2> QED
    BY <1>1, <2>5, <2>6 DEF GetHit, TypeOK,
       htVars, lruVars, idxVars, Goto, Places
<1>2. CASE GetTouch(t)
  <2>1. loc[t].node \in Node
    BY <1>2 DEF GetTouch, At, PointersHeld, TypeOK, Locals
  <2>2. lru' \in ListFamily(Queue, Node)
    BY <1>2, <2>1, MoveToFrontInto, ListFamilyIsInto
    DEF GetTouch, TypeOK, Entries, move_to_head_LRU
  <2>3. \E ok \in BOOLEAN, v \in MaybeValue : Finish(t, ok, v)
    BY <1>2, MessageFields DEF GetTouch, MaybeValue, TypeOK
  <2> QED
    BY <1>2, <2>2, <2>3, FinishType, LockType, BucketType DEF GetTouch, TypeOK,
       htVars, lruVars, idxVars, Goto, Places
<1>3. CASE GetMissFound(t)
  <2>1. req[t] \in Messages /\ req[t].op # "NONE"
    BY <1>3 DEF GetMissFound, Miss, TypeOK
  <2>2. db[req[t].key] \in MaybeValue
    BY <2>1, MessageFacts DEF TypeOK
  <2>3. req' = [req EXCEPT ![t] = [req[t] EXCEPT !.value = db[req[t].key]]]
    BY <1>3, <2>1 DEF GetMissFound, TypeOK, Messages
  <2>4. req' \in [Threads -> Messages]
    BY <2>1, <2>2, <2>3, MessageFacts DEF TypeOK
  <2> QED
    BY <1>3, <2>4, LockType, BucketType DEF GetMissFound, TypeOK,
       htVars, lruVars, idxVars, Goto, Places
<1>4. CASE GetMissAbsent(t)
  BY <1>4, FinishType, LockType, BucketType DEF GetMissAbsent, TypeOK, MaybeValue,
     htVars, lruVars, idxVars, Goto, Places
<1> QED
  BY <1>1, <1>2, <1>3, <1>4 DEF Get

(* Every step of cache_PUT keeps the types. *)
LEMMA PutType ==
  ASSUME TypeOK, PointersHeld, NEW t \in Threads, Put(t)
  PROVE  TypeOK'
<1>1. CASE PutHit(t)
  BY <1>1, LockType, BucketType DEF PutHit, TypeOK,
     htVars, lruVars, idxVars, Goto, Places
<1>2. CASE PutUpdate(t)
  <2> DEFINE n == loc[t].node
             e == entry[n]
             d == DirtyAfterPut(e, req[t].value)
  <2>1. n \in Node
    BY <1>2 DEF PutUpdate, At, PointersHeld, TypeOK, Locals
  <2>2. e \in Entries /\ entry \in [Node -> Entries]
    BY <2>1 DEF TypeOK
  <2>3. entry' = [entry EXCEPT ![n] = [e EXCEPT !.dirty = d, !.value = req[t].value]]
    BY <1>2, <2>1, <2>2 DEF PutUpdate, Entries
  <2>4. [e EXCEPT !.dirty = d, !.value = req[t].value] \in Entries
    BY <2>2, MessageFields DEF Entries, TypeOK, DirtyAfterPut
  <2>5. entry' \in [Node -> Entries]
    BY <2>1, <2>2, <2>3, <2>4
  <2>6. lru' \in ListFamily(Queue, Node)
    BY <1>2, <2>1, MoveToFrontInto, ListFamilyIsInto
    DEF PutUpdate, TypeOK, Entries, move_to_head_LRU
  <2>7. Finish(t, TRUE, NoValue) /\ NoValue \in MaybeValue
    BY <1>2 DEF PutUpdate, MaybeValue
  <2> QED
    BY <1>2, <2>5, <2>6, <2>7, FinishType, LockType, BucketType DEF PutUpdate, TypeOK,
       htVars, lruVars, idxVars, Goto, Places
<1>3. CASE PutMiss(t)
  BY <1>3, LockType, BucketType DEF PutMiss, TypeOK,
     htVars, lruVars, idxVars, Goto, Places
<1> QED
  BY <1>1, <1>2, <1>3 DEF Put

(* Every step of cache_DELETE keeps the types. *)
LEMMA DeleteType ==
  ASSUME TypeOK, PointersHeld, NEW t \in Threads, Delete(t)
  PROVE  TypeOK'
<1>1. CASE DeleteHitDeleted(t)
  BY <1>1, FinishType, LockType, BucketType DEF DeleteHitDeleted, TypeOK, MaybeValue,
     htVars, lruVars, idxVars, Goto, Places
<1>2. CASE DeleteHit(t)
  BY <1>2, LockType, BucketType DEF DeleteHit, TypeOK,
     htVars, lruVars, idxVars, Goto, Places
<1>3. CASE DeleteMark(t)
  <2>1. loc[t].node \in Node
    BY <1>3 DEF DeleteMark, At, PointersHeld, TypeOK, Locals
  <2>2. entry[loc[t].node] \in Entries
    BY <2>1 DEF TypeOK
  <2>3. lru' \in ListFamily(Queue, Node) /\ entry' \in [Node -> Entries]
    <3>1. CASE entry[loc[t].node].dirty = "TODELETE"
      BY <1>3, <3>1 DEF DeleteMark, TypeOK
    <3>2. CASE entry[loc[t].node].dirty # "TODELETE"
      <4>1. lru' = MoveToFront(lru, entry[loc[t].node].lruIdx, loc[t].node)
        BY <1>3, <3>2 DEF DeleteMark, move_to_head_LRU
      <4>2. lru' \in ListFamily(Queue, Node)
        BY <2>1, <2>2, <4>1, LocType, MoveToFrontInto, ListFamilyIsInto DEF Entries
      <4>3. entry' = [entry EXCEPT ![loc[t].node].dirty = "TODELETE"]
        BY <1>3, <3>2 DEF DeleteMark
      <4> QED
        BY <2>1, <2>2, <4>2, <4>3 DEF TypeOK, Entries
    <3> QED
      BY <3>1, <3>2
  <2>4. \E ok \in BOOLEAN : Finish(t, ok, NoValue) /\ NoValue \in MaybeValue
    BY <1>3 DEF DeleteMark, MaybeValue
  <2> QED
    BY <1>3, <2>3, <2>4, FinishType, LockType, BucketType DEF DeleteMark, TypeOK,
       htVars, lruVars, idxVars, Goto, Places
<1>4. CASE DeleteMiss(t)
  <2>1. db' \in [Keys -> MaybeValue]
    BY <1>4 DEF DeleteMiss, TypeOK, MaybeValue
  <2>2. \E ok \in BOOLEAN : Finish(t, ok, NoValue) /\ NoValue \in MaybeValue
    BY <1>4 DEF DeleteMiss, MaybeValue
  <2> QED
    BY <1>4, <2>1, <2>2, FinishType, LockType, BucketType DEF DeleteMiss, TypeOK,
       htVars, lruVars, idxVars, Goto, Places
<1> QED
  BY <1>1, <1>2, <1>3, <1>4 DEF Delete

(* Every step of cache_PUT_new_entry keeps the types. *)
LEMMA PutNewType ==
  ASSUME TypeOK, PointersHeld, NEW t \in Threads, PutNew(t)
  PROVE  TypeOK'
<1>1. CASE NewEntry(t)
  BY <1>1 DEF NewEntry, TypeOK,
     htVars, lruVars, idxVars, Goto, Places
<1>2. CASE Acquire(t)
  <2>1. CASE PoolEmpty(pool) /\ ~HasRoom(pool)
    BY <1>2, <2>1, CrashType DEF Acquire
  <2>2. CASE ~PoolEmpty(pool) \/ HasRoom(pool)
    <3>1. Acquired(pool) \in Node /\ AfterAcquire(pool) \in Pools
      BY <2>2, PoolType DEF TypeOK
    <3>2. loc' \in [Threads -> Locals]
      BY <1>2, <2>2, <3>1, LocType DEF Acquire, Locals
    <3> QED
      BY <1>2, <2>2, <3>1, <3>2 DEF Acquire, TypeOK,
         htVars, lruVars, idxVars, Goto, Places
  <2> QED
    BY <2>1, <2>2
<1>3. CASE Fill(t)
  <2>1. loc[t].slot \in Node
    BY <1>3 DEF Fill, At, PointersHeld, TypeOK, Locals
  <2>2. req[t].value \in MaybeValue /\ req[t].key \in Keys \cup {NoKey}
    BY MessageFields DEF TypeOK
  <2>3. entry' \in [Node -> Entries]
    BY <1>3, <2>2 DEF TypeOK, Entries, Fill, SetAll
  <2>4. loc' \in [Threads -> Locals]
    BY <1>3, BucketType, LocType DEF Fill, Locals
  <2>5. ht' \in ListFamily(Buckets, Node) /\ lru' \in ListFamily(Queue, Node)
    BY <1>3, <2>1, ForgetLinksInto, ListFamilyIsInto DEF Fill, TypeOK
  <2> QED
    BY <1>3, <2>3, <2>4, <2>5, SteppedType DEF Fill, TypeOK,
       htVars, lruVars, idxVars, Goto, Places
<1>4. CASE LockForInsert(t)
  BY <1>4, LockType, BucketType DEF LockForInsert, TypeOK,
     htVars, lruVars, idxVars, Goto, Places
<1>5. CASE Insert(t)
  <2>1. loc[t].slot \in Node
    BY <1>5 DEF Insert, At, PointersHeld, TypeOK, Locals
  <2>2. ht' \in ListFamily(Buckets, Node) /\ lru' \in ListFamily(Queue, Node)
    BY <1>5, <2>1, BucketType, PushFrontInto, ListFamilyIsInto
    DEF Insert, TypeOK, insert_to_head_HT, insert_to_head_LRU
  <2>3. \E v \in MaybeValue : Finish(t, TRUE, v)
    BY <1>5, MessageFields DEF Insert, MaybeValue, TypeOK
  <2> QED
    BY <1>5, <2>2, <2>3, FinishType, LockType, BucketType DEF Insert, TypeOK,
       htVars, lruVars, idxVars, Goto, Places
<1> QED
  BY <1>1, <1>2, <1>3, <1>4, <1>5 DEF PutNew

(* Every step of cache_eviction keeps the types, those of cache_clean too. *)
LEMMA EvictionType ==
  ASSUME TypeOK, PointersHeld, NEW t \in Threads, Eviction(t)
  PROVE  TypeOK'
<1>1. CASE EvictBegin(t)
  <2>1. loc[t] \in Locals /\ 0 \in 0..TableLen
    BY CacheAssumption, LocType
  <2>2. loc' \in [Threads -> Locals]
    BY <1>1, <2>1, LocType DEF EvictBegin, Locals
  <2> QED
    BY <1>1, <2>2, SteppedType DEF EvictBegin, TypeOK,
       htVars, lruVars, idxVars, Goto, Places
<1>2. CASE ScanOn(t)
  <2>1. loc[t] \in Locals /\ loc[t].scans + 1 \in 0..TableLen
    BY <1>2, CacheAssumption DEF ScanOn, TypeOK, Locals
  <2>2. loc' = [loc EXCEPT ![t].queue = evictIdx, ![t].scans = loc[t].scans + 1]
    BY <1>2, <2>1 DEF ScanOn, TypeOK, Locals
  <2>3. loc' \in [Threads -> Locals]
    BY <2>1, <2>2 DEF TypeOK, Locals
  <2> QED
    BY <1>2, <2>3, SteppedType DEF ScanOn, TypeOK,
       htVars, lruVars, idxVars, Goto, Places
<1>3. CASE ScanFound(t)
  BY <1>3 DEF ScanFound, TypeOK,
     htVars, lruVars, idxVars, Goto, Places
<1>4. CASE ScanNothing(t)
  <2>1. CASE t = Main
    <3>1. NoLocals \in Locals
      BY CacheAssumption DEF NoLocals, Locals, Queue
    <3> QED
      BY <1>4, <2>1, <3>1 DEF ScanNothing, TypeOK,
         htVars, lruVars, idxVars, Goto, Places
  <2>2. CASE t # Main
    BY <1>4, <2>2, CrashType DEF ScanNothing
  <2> QED
    BY <2>1, <2>2
<1>5. CASE Peek(t)
  <2> DEFINE victim == lru.tail[loc[t].queue]
  <2>1. CASE victim = Nil
    BY <1>5, <2>1, CrashType DEF Peek
  <2>2. CASE victim # Nil
    <3>1. victim \in Node
      BY <2>2, BucketType DEF TypeOK, ListFamily
    <3>2. BucketOf[entry[victim].key] \in Buckets
      BY <3>1, CacheAssumption DEF TypeOK, Entries
    <3>3. loc' = [loc EXCEPT ![t].bucket = BucketOf[entry[victim].key]]
      BY <1>5, <2>2 DEF Peek
    <3>4. loc' \in [Threads -> Locals]
      BY <3>2, <3>3 DEF TypeOK, Locals
    <3> QED
      BY <1>5, <2>2, <3>4 DEF Peek, TypeOK,
         htVars, lruVars, idxVars, Goto, Places
  <2> QED
    BY <2>1, <2>2
<1>6. CASE LockVictimBucket(t)
  BY <1>6, LockType, BucketType DEF LockVictimBucket, TypeOK,
     htVars, lruVars, idxVars, Goto, Places
<1>7. CASE UnlinkVictim(t)
  <2> DEFINE victim == lru.tail[loc[t].queue]
  <2>1. CASE victim = Nil
    BY <1>7, <2>1, CrashType DEF UnlinkVictim
  <2>2. CASE victim # Nil
    <3>1. victim \in Node
      BY <2>2, BucketType DEF TypeOK, ListFamily
    <3>2. ht' \in ListFamily(Buckets, Node) /\ lru' \in ListFamily(Queue, Node)
      BY <1>7, <2>2, <3>1, BucketType, UnlinkInto, ListFamilyIsInto
      DEF UnlinkVictim, TypeOK, remove_from_dll_HT, remove_from_dll_LRU
    <3>3. loc' \in [Threads -> Locals]
      BY <1>7, <2>2, <3>1, LocType DEF UnlinkVictim, Locals
    <3> QED
      BY <1>7, <2>2, <3>2, <3>3 DEF UnlinkVictim, TypeOK,
         htVars, lruVars, idxVars, Goto, Places
  <2> QED
    BY <2>1, <2>2
<1>8. CASE WriteBack(t)
  <2>1. loc[t].slot \in Node
    BY <1>8 DEF WriteBack, At, PointersHeld, TypeOK, Locals
  <2>2. entry[loc[t].slot] \in Entries
    BY <2>1 DEF TypeOK
  <2>3. db' \in [Keys -> MaybeValue]
    BY <1>8, <2>2 DEF WriteBack, TypeOK, Entries, MaybeValue, Flushed
  <2> QED
    BY <1>8, <2>3, LockType, BucketType DEF WriteBack, TypeOK,
       htVars, lruVars, idxVars, Goto, Places
<1> QED
  BY <1>1, <1>2, <1>3, <1>4, <1>5, <1>6, <1>7, <1>8 DEF Eviction

(* So does asking for the exclusive lock. *)
LEMMA RelockType ==
  ASSUME TypeOK, PointersHeld, NEW t \in Threads, Relock(t)
  PROVE  TypeOK'
<1>1. entry[loc[t].node] \in Entries
  BY DEF Relock, At, PointersHeld, TypeOK, Locals
<1>2. loc' \in [Threads -> Locals]
  BY <1>1, ZenonT(40) DEF Relock, TypeOK, Locals, Entries
<1> QED
  BY <1>2, LockType, BucketType
  DEF Relock, TypeOK, htVars, lruVars, idxVars, Goto, Places

(* Taking a request keeps the types. *)
LEMMA BeginType ==
  ASSUME TypeOK, NEW w \in Workers, NEW r \in RequestsOf[w], Begin(w, r)
  PROVE  TypeOK'
<1>1. w \in Threads /\ r \in Requests
  BY CacheAssumption DEF Threads
<1>2. r \in Messages /\ NoAnswer \in Answers
  BY <1>1 DEF Requests, Messages, MaybeValue, NoAnswer, Answer, Answers
<1> QED
  BY <1>1, <1>2 DEF Begin, TypeOK, htVars, lruVars, idxVars, Goto, Places,
     htVars, lruVars, idxVars, Goto, Places

(* A fresh process is in its types. *)
LEMMA FreshTypes ==
  /\ InitialPool \in Pools /\ BlankEntry \in Entries /\ NoMessage \in Messages
  /\ NoLocals \in Locals /\ NoAnswer \in Answers /\ 0 \in Queue
  /\ EmptyLists(Buckets, Node) \in ListFamily(Buckets, Node)
  /\ EmptyLists(Queue, Node) \in ListFamily(Queue, Node)
BY PoolStart, EmptyListsInto, ListFamilyIsInto, CacheAssumption
DEF BlankEntry, Entries, NoMessage, Messages, NoLocals, Locals, NoAnswer, Answer,
    Answers, MaybeValue, Queue

(* A new process starts within the types. *)
LEMMA InitType == Init => TypeOK
BY FreshTypes, CacheAssumption DEF Init, TypeOK, Places

(* Every step keeps the types, given that no thread follows a null node. *)
LEMMA TypeStep == TypeOK /\ PointersHeld /\ [Next]_vars => TypeOK'
<1> SUFFICES ASSUME TypeOK, PointersHeld, [Next]_vars
             PROVE  TypeOK'
  OBVIOUS
<1>1. ASSUME NEW w \in Workers, NEW r \in RequestsOf[w], Begin(w, r)
      PROVE  TypeOK'
  BY <1>1, BeginType
<1>2. ASSUME NEW t \in Threads, Step(t)
      PROVE  TypeOK'
  BY <1>2, SearchType, GetType, PutType, DeleteType, RelockType, PutNewType, EvictionType
  DEF Step
<1>3. CASE StartCleaning
  BY <1>3 DEF StartCleaning, TypeOK, htVars, lruVars, idxVars, Goto, Places, Threads
<1>4. CASE Restart
  BY <1>4, FreshTypes DEF Restart, TypeOK, Places
<1>5. CASE UNCHANGED vars
  BY <1>5 DEF vars, threadVars, htVars, lruVars, idxVars, TypeOK
<1> QED
  BY <1>1, <1>2, <1>3, <1>4, <1>5 DEF Next

-----------------------------------------------------------------------------
(* The locks are held exactly where the code holds them.                  *)

(* What the lock arguments need of the types. *)
LEMMA LockTypes ==
  ASSUME TypeOK
  PROVE  /\ pc \in [Threads -> Places] /\ loc \in [Threads -> Locals]
         /\ htReaders \in [Buckets -> SUBSET Threads]
         /\ htWriter \in [Buckets -> Threads \cup {NoThread}]
         /\ lruOwner \in [Queue -> Threads \cup {NoThread}]
         /\ NoThread \notin Threads
         /\ \A t \in Threads : Bucket(t) \in Buckets /\ loc[t].bucket \in Buckets
                                 /\ loc[t].queue \in Queue
BY BucketType, CacheAssumption DEF TypeOK, NoThread

(* A crash moves no thread and no lock. *)
LEMMA CrashKeepsLocks ==
  ASSUME Crash
  PROVE  /\ LocksMatchPlaces => LocksMatchPlaces'
         /\ PointersHeld => PointersHeld'
         /\ NoReaderBesideWriter => NoReaderBesideWriter'
BY DEF Crash, LocksMatchPlaces, PointersHeld, NoReaderBesideWriter, Reads, Writes, Evicts,
       htVars, lruVars, threadVars

(* The steps of the search hold the shared lock they say they hold. *)
LEMMA SearchLocks ==
  ASSUME TypeOK, LocksMatchPlaces, NEW t \in Threads, Search(t)
  PROVE  LocksMatchPlaces'
<1> USE LockTypes DEF LocksMatchPlaces, Reads, Writes, Evicts, Sharing, Owning
<1>1. CASE LockForSearch(t)
  BY <1>1 DEF LockForSearch, At, Goto, LockShared, lruVars, idxVars
<1>2. CASE WalkOn(t)
  BY <1>2 DEF WalkOn, At, htVars, lruVars, idxVars
<1> QED
  BY <1>1, <1>2 DEF Search

(* Every way out of cache_GET_ptr gives its shared lock back. *)
LEMMA GetLocks ==
  ASSUME TypeOK, LocksMatchPlaces, NEW t \in Threads, Get(t)
  PROVE  LocksMatchPlaces'
<1> USE LockTypes DEF LocksMatchPlaces, Reads, Writes, Evicts, Sharing, Owning
<1>1. CASE GetHit(t)
  BY <1>1 DEF GetHit, At, Hit, Goto, htVars, lruVars, idxVars
<1>2. CASE GetTouch(t)
  <2>1. CASE entry[loc[t].node].dirty = "TODELETE"
    BY <1>2, <2>1 DEF GetTouch, At, Goto, Finish, UnlockShared, NoLocals,
         idxVars
  <2>2. CASE entry[loc[t].node].dirty # "TODELETE"
    BY <1>2, <2>2 DEF GetTouch, At, Goto, Finish, UnlockShared, NoLocals,
         idxVars
  <2> QED
    BY <2>1, <2>2
<1>3. CASE GetMissFound(t)
  BY <1>3 DEF GetMissFound, At, Miss, Goto, UnlockShared, lruVars, idxVars
<1>4. CASE GetMissAbsent(t)
  BY <1>4 DEF GetMissAbsent, At, Miss, Goto, Finish, UnlockShared, lruVars,
       NoLocals, idxVars
<1> QED
  BY <1>1, <1>2, <1>3, <1>4 DEF Get

(* So does every way out of cache_PUT with either lock. *)
LEMMA PutLocks ==
  ASSUME TypeOK, LocksMatchPlaces, NEW t \in Threads, Put(t)
  PROVE  LocksMatchPlaces'
<1> USE LockTypes DEF LocksMatchPlaces, Reads, Writes, Evicts, Sharing, Owning
<1>1. CASE PutHit(t)
  BY <1>1 DEF PutHit, At, Hit, Goto, UnlockShared, lruVars, idxVars
<1>2. CASE PutUpdate(t)
  BY <1>2 DEF PutUpdate, At, Goto, Finish, UnlockBucket, NoLocals, idxVars
<1>3. CASE PutMiss(t)
  BY <1>3 DEF PutMiss, At, Miss, Goto, UnlockShared, lruVars, idxVars
<1> QED
  BY <1>1, <1>2, <1>3 DEF Put

(* So does every way out of cache_DELETE. *)
LEMMA DeleteLocks ==
  ASSUME TypeOK, LocksMatchPlaces, NEW t \in Threads, Delete(t)
  PROVE  LocksMatchPlaces'
<1> USE LockTypes DEF LocksMatchPlaces, Reads, Writes, Evicts, Sharing, Owning
<1>1. CASE DeleteHitDeleted(t)
  BY <1>1 DEF DeleteHitDeleted, At, Hit, Goto, Finish, UnlockShared, lruVars,
       NoLocals, idxVars
<1>2. CASE DeleteHit(t)
  BY <1>2 DEF DeleteHit, At, Hit, Goto, UnlockShared, lruVars, idxVars
<1>3. CASE DeleteMark(t)
  <2>1. \E ok \in BOOLEAN : Finish(t, ok, NoValue)
    BY <1>3 DEF DeleteMark
  <2>2. At(t, "update") /\ UnlockBucket(loc[t].bucket) /\ lruOwner' = lruOwner
    BY <1>3 DEF DeleteMark
  <2> QED
    BY <2>1, <2>2 DEF At, Goto, Finish, UnlockBucket, NoLocals
<1>4. CASE DeleteMiss(t)
  BY <1>4 DEF DeleteMiss, At, Miss, Goto, Finish, UnlockShared, lruVars,
       NoLocals, idxVars
<1> QED
  BY <1>1, <1>2, <1>3, <1>4 DEF Delete

(* So does cache_PUT_new_entry. *)
LEMMA PutNewLocks ==
  ASSUME TypeOK, LocksMatchPlaces, NEW t \in Threads, PutNew(t)
  PROVE  LocksMatchPlaces'
<1> USE LockTypes DEF LocksMatchPlaces, Reads, Writes, Evicts, Sharing, Owning
<1>1. CASE NewEntry(t)
  BY <1>1 DEF NewEntry, At, Goto, htVars, lruVars, idxVars
<1>2. CASE Acquire(t)
  <2>1. CASE PoolEmpty(pool) /\ ~HasRoom(pool)
    BY <1>2, <2>1, CrashKeepsLocks DEF Acquire
  <2>2. CASE ~PoolEmpty(pool) \/ HasRoom(pool)
    BY <1>2, <2>2 DEF Acquire, At, Goto, htVars, lruVars, threadVars, idxVars
  <2> QED
    BY <2>1, <2>2
<1>3. CASE Fill(t)
  BY <1>3 DEF Fill, At, Goto
<1>4. CASE LockForInsert(t)
  BY <1>4 DEF LockForInsert, At, Goto, LockBucket, Unlocked, lruVars, idxVars
<1>5. CASE Insert(t)
  BY <1>5 DEF Insert, At, Goto, Finish, UnlockBucket, NoLocals, idxVars
<1> QED
  BY <1>1, <1>2, <1>3, <1>4, <1>5 DEF PutNew

(* cache_eviction holds both of its locks from the unlinking of the victim *)
(* to the end of the write to the file, and no lock after it. *)
LEMMA EvictionLocks ==
  ASSUME TypeOK, LocksMatchPlaces, NEW t \in Threads, Eviction(t)
  PROVE  LocksMatchPlaces'
<1> USE LockTypes DEF LocksMatchPlaces, Reads, Writes, Evicts, Sharing, Owning
<1>1. CASE EvictBegin(t)
  BY <1>1 DEF EvictBegin, At, Goto, htVars, lruVars
<1>2. CASE ScanOn(t)
  BY <1>2 DEF ScanOn, At, htVars, lruVars
<1>3. CASE ScanFound(t)
  BY <1>3 DEF ScanFound, At, Goto, htVars, lruVars, idxVars
<1>4. CASE ScanNothing(t)
  <2>1. CASE t # Main
    BY <1>4, <2>1, CrashKeepsLocks DEF ScanNothing
  <2>2. CASE t = Main
    BY <1>4, <2>2 DEF ScanNothing, At, Goto, htVars, lruVars, NoLocals,
         threadVars, idxVars
  <2> QED
    BY <2>1, <2>2
<1>5. CASE Peek(t)
  BY <1>5 DEF Peek, At, Goto, Crash, htVars, lruVars, threadVars, idxVars
<1>6. CASE LockVictimBucket(t)
  BY <1>6 DEF LockVictimBucket, At, Goto, LockBucket, Unlocked, lruVars,
       idxVars
<1>7. CASE UnlinkVictim(t)
  <2>1. CASE lru.tail[loc[t].queue] = Nil
    BY <1>7, <2>1, CrashKeepsLocks DEF UnlinkVictim
  <2>2. CASE lru.tail[loc[t].queue] # Nil
    <3> DEFINE q == loc[t].queue
    <3>1. /\ pc[t] = "unlink" /\ pc' = [pc EXCEPT ![t] = "writeback"]
          /\ lruOwner[q] = NoThread /\ lruOwner' = [lruOwner EXCEPT ![q] = t]
          /\ UNCHANGED <<htReaders, htWriter>>
      BY <1>7, <2>2 DEF UnlinkVictim, At, Goto
    <3>2. loc' = [loc EXCEPT ![t].slot = lru.tail[q]]
      BY <1>7, <2>2 DEF UnlinkVictim
    <3>3. /\ \A s \in Threads \ {t} : loc'[s] = loc[s]
          /\ loc'[t].bucket = loc[t].bucket /\ loc'[t].queue = q
      BY <3>2 DEF Locals
    <3> QED
      BY <3>1, <3>3
  <2> QED
    BY <2>1, <2>2
<1>8. CASE WriteBack(t)
  BY <1>8 DEF WriteBack, At, Goto, UnlockBucket, idxVars
<1> QED
  BY <1>1, <1>2, <1>3, <1>4, <1>5, <1>6, <1>7, <1>8 DEF Eviction

-----------------------------------------------------------------------------
(* A step of a thread moves no other thread and touches no other's locals. *)
LEMMA SearchAlone ==
  ASSUME TypeOK, NEW t \in Threads, Search(t)
  PROVE  \A s \in Threads \ {t} : pc'[s] = pc[s] /\ loc'[s] = loc[s]
<1> USE LockTypes
<1>1. CASE LockForSearch(t)
  BY <1>1 DEF LockForSearch, Goto
<1>2. CASE WalkOn(t)
  BY <1>2 DEF WalkOn
<1> QED
  BY <1>1, <1>2 DEF Search

(* A step of cache_GET_ptr moves its own thread and no other. *)
LEMMA GetAlone ==
  ASSUME TypeOK, NEW t \in Threads, Get(t)
  PROVE  \A s \in Threads \ {t} : pc'[s] = pc[s] /\ loc'[s] = loc[s]
<1> USE LockTypes
<1>1. CASE GetHit(t)
  BY <1>1 DEF GetHit, Goto
<1>2. CASE GetTouch(t)
  BY <1>2 DEF GetTouch, Goto, Finish
<1>3. CASE GetMissFound(t)
  BY <1>3 DEF GetMissFound, Goto
<1>4. CASE GetMissAbsent(t)
  BY <1>4 DEF GetMissAbsent, Goto, Finish
<1> QED
  BY <1>1, <1>2, <1>3, <1>4 DEF Get

(* The same of cache_PUT. *)
LEMMA PutAlone ==
  ASSUME TypeOK, NEW t \in Threads, Put(t)
  PROVE  \A s \in Threads \ {t} : pc'[s] = pc[s] /\ loc'[s] = loc[s]
<1> USE LockTypes
<1>1. CASE PutHit(t)
  BY <1>1 DEF PutHit, Goto
<1>2. CASE PutUpdate(t)
  BY <1>2 DEF PutUpdate, Goto, Finish
<1>3. CASE PutMiss(t)
  BY <1>3 DEF PutMiss, Goto
<1> QED
  BY <1>1, <1>2, <1>3 DEF Put

(* The same of cache_DELETE. *)
LEMMA DeleteAlone ==
  ASSUME TypeOK, NEW t \in Threads, Delete(t)
  PROVE  \A s \in Threads \ {t} : pc'[s] = pc[s] /\ loc'[s] = loc[s]
<1> USE LockTypes
<1>1. CASE DeleteHitDeleted(t)
  BY <1>1 DEF DeleteHitDeleted, Goto, Finish
<1>2. CASE DeleteHit(t)
  BY <1>2 DEF DeleteHit, Goto
<1>3. CASE DeleteMark(t)
  BY <1>3 DEF DeleteMark, Goto, Finish
<1>4. CASE DeleteMiss(t)
  BY <1>4 DEF DeleteMiss, Goto, Finish
<1> QED
  BY <1>1, <1>2, <1>3, <1>4 DEF Delete

(* The same of cache_PUT_new_entry. *)
LEMMA PutNewAlone ==
  ASSUME TypeOK, NEW t \in Threads, PutNew(t)
  PROVE  \A s \in Threads \ {t} : pc'[s] = pc[s] /\ loc'[s] = loc[s]
<1> USE LockTypes
<1>1. CASE NewEntry(t)
  BY <1>1 DEF NewEntry, Goto
<1>2. CASE Acquire(t)
  BY <1>2 DEF Acquire, Goto, Crash, threadVars
<1>3. CASE Fill(t)
  BY <1>3 DEF Fill, Goto
<1>4. CASE LockForInsert(t)
  BY <1>4 DEF LockForInsert, Goto
<1>5. CASE Insert(t)
  BY <1>5 DEF Insert, Goto, Finish
<1> QED
  BY <1>1, <1>2, <1>3, <1>4, <1>5 DEF PutNew

(* The same of cache_eviction. *)
LEMMA EvictionAlone ==
  ASSUME TypeOK, NEW t \in Threads, Eviction(t)
  PROVE  \A s \in Threads \ {t} : pc'[s] = pc[s] /\ loc'[s] = loc[s]
<1> USE LockTypes
<1>1. CASE EvictBegin(t)
  BY <1>1 DEF EvictBegin, Goto
<1>2. CASE ScanOn(t)
  BY <1>2 DEF ScanOn
<1>3. CASE ScanFound(t)
  BY <1>3 DEF ScanFound, Goto
<1>4. CASE ScanNothing(t)
  BY <1>4 DEF ScanNothing, Goto, Crash, threadVars
<1>5. CASE Peek(t)
  BY <1>5 DEF Peek, Goto, Crash, threadVars
<1>6. CASE LockVictimBucket(t)
  BY <1>6 DEF LockVictimBucket, Goto
<1>7. CASE UnlinkVictim(t)
  BY <1>7 DEF UnlinkVictim, Goto, Crash, threadVars
<1>8. CASE WriteBack(t)
  BY <1>8 DEF WriteBack, Goto
<1> QED
  BY <1>1, <1>2, <1>3, <1>4, <1>5, <1>6, <1>7, <1>8 DEF Eviction

(* A step of a thread leaves every other thread's place and locals alone. *)
LEMMA StepAlone ==
  ASSUME TypeOK, NEW t \in Threads, Step(t)
  PROVE  \A s \in Threads \ {t} : pc'[s] = pc[s] /\ loc'[s] = loc[s]
<1>1. CASE Relock(t)
  BY <1>1, LockTypes DEF Relock, Goto
<1> QED
  BY <1>1, SearchAlone, GetAlone, PutAlone, DeleteAlone, PutNewAlone, EvictionAlone DEF Step

-----------------------------------------------------------------------------
(* No lock is held when the process starts. *)
LEMMA InitLocks == Init => LocksMatchPlaces
BY CacheAssumption
DEF Init, LocksMatchPlaces, Reads, Writes, Evicts, Sharing, Owning, NoThread

(* Every step keeps the locks where the code holds them. *)
LEMMA LocksStep == LockInv /\ [Next]_vars => LocksMatchPlaces'
<1> SUFFICES ASSUME LockInv, [Next]_vars
             PROVE  LocksMatchPlaces'
  OBVIOUS
<1>0. TypeOK /\ LocksMatchPlaces /\ MainWaits
  BY DEF LockInv
<1>1. ASSUME NEW w \in Workers, NEW r \in RequestsOf[w], Begin(w, r)
      PROVE  LocksMatchPlaces'
  BY <1>0, <1>1, LockTypes
  DEF Begin, At, Goto, htVars, lruVars, Threads, LocksMatchPlaces, Reads, Writes, Evicts,
      Sharing, Owning
<1>2. ASSUME NEW t \in Threads, Step(t)
      PROVE  LocksMatchPlaces'
  <2>1. CASE Relock(t)
    BY <1>0, <2>1, LockTypes
    DEF Relock, At, Goto, LockBucket, Unlocked, lruVars, Locals, LocksMatchPlaces, Reads,
        Writes, Evicts, Sharing, Owning
  <2> QED
    BY <1>0, <1>2, <2>1, SearchLocks, GetLocks, PutLocks, DeleteLocks, PutNewLocks,
       EvictionLocks DEF Step
<1>3. CASE StartCleaning
  BY <1>0, <1>3, LockTypes
  DEF StartCleaning, Goto, MainWaits, htVars, lruVars, Threads, LocksMatchPlaces, Reads,
      Writes, Evicts, Sharing, Owning
<1>4. CASE Restart
  BY <1>4, CacheAssumption
  DEF Restart, LocksMatchPlaces, Reads, Writes, Evicts, Sharing, Owning, NoThread
<1>5. CASE UNCHANGED vars
  BY <1>0, <1>5
  DEF vars, htVars, lruVars, threadVars, LocksMatchPlaces, Reads, Writes, Evicts
<1> QED
  BY <1>1, <1>2, <1>3, <1>4, <1>5 DEF Next

-----------------------------------------------------------------------------
(* The rest of the inductive invariant.                                   *)

(* Whatever a thread does to the bucket locks, it keeps readers and writer *)
(* apart. *)
LEMMA LockingKeepsApart ==
  ASSUME TypeOK, NoReaderBesideWriter, NEW t \in Threads, NEW b \in Buckets,
         \/ LockShared(t, b) \/ UnlockShared(t, b)
         \/ LockBucket(t, b) \/ UnlockBucket(b)
         \/ UNCHANGED <<htReaders, htWriter>>
  PROVE  NoReaderBesideWriter'
BY LockTypes DEF NoReaderBesideWriter, LockShared, UnlockShared, LockBucket, UnlockBucket,
                 Unlocked

(* Every step keeps the readers of a bucket apart from its writer. *)
LEMMA ApartStep == LockInv /\ [Next]_vars => NoReaderBesideWriter'
<1> SUFFICES ASSUME LockInv, [Next]_vars
             PROVE  NoReaderBesideWriter'
  OBVIOUS
<1>0. TypeOK /\ NoReaderBesideWriter
  BY DEF LockInv
<1>1. ASSUME NEW t \in Threads, Step(t)
      PROVE  NoReaderBesideWriter'
  <2>1. CASE Crash
    BY <1>0, <2>1, CrashKeepsLocks
  <2>2. CASE ~Crash
    <3>1. \/ UNCHANGED <<htReaders, htWriter>>
          \/ \E b \in Buckets : \/ LockShared(t, b) \/ UnlockShared(t, b)
                                \/ LockBucket(t, b) \/ UnlockBucket(b)
      <4>1. CASE Search(t) \/ Get(t)
        BY <1>0, <4>1, LockTypes
        DEF Search, Get, LockForSearch, WalkOn, GetHit, GetTouch, GetMissFound,
            GetMissAbsent, htVars
      <4>2. CASE Put(t) \/ Delete(t) \/ Relock(t)
        BY <1>0, <4>2, LockTypes
        DEF Put, Delete, Relock, PutHit, PutUpdate, PutMiss, DeleteHitDeleted, DeleteHit,
            DeleteMark, DeleteMiss, htVars
      <4>3. CASE PutNew(t)
        BY <1>0, <2>2, <4>3, LockTypes
        DEF PutNew, NewEntry, Acquire, Fill, LockForInsert, Insert, htVars
      <4>4. CASE Eviction(t)
        BY <1>0, <2>2, <4>4, LockTypes
        DEF Eviction, EvictBegin, ScanOn, ScanFound, ScanNothing, Peek, LockVictimBucket,
            UnlinkVictim, WriteBack, htVars
      <4> QED
        BY <1>1, <4>1, <4>2, <4>3, <4>4 DEF Step
    <3> QED
      BY <1>0, <3>1, LockingKeepsApart, LockTypes
  <2> QED
    BY <2>1, <2>2
<1>2. CASE Restart
  BY <1>2 DEF Restart, NoReaderBesideWriter
<1>3. CASE UNCHANGED <<htReaders, htWriter>>
  BY <1>0, <1>3 DEF NoReaderBesideWriter
<1> QED
  BY <1>1, <1>2, <1>3 DEF Next, Begin, StartCleaning, vars, htVars

(* The thread that cleans only moves once the phase has changed. *)
LEMMA MainStep == LockInv /\ [Next]_vars => MainWaits'
<1> SUFFICES ASSUME LockInv, [Next]_vars, phase' = "serving"
             PROVE  pc'[Main] = "idle"
  BY DEF MainWaits
<1>0. /\ phase = "serving" => pc[Main] = "idle"
      /\ pc \in [Threads -> Places] /\ Main \notin Workers
  BY CacheAssumption, LockTypes DEF LockInv, MainWaits
<1>1. CASE Restart
  BY <1>1 DEF Restart, Threads
<1>2. CASE UNCHANGED vars
  BY <1>0, <1>2 DEF vars, threadVars
<1>3. CASE StartCleaning
  BY <1>3 DEF StartCleaning
<1>4. ASSUME NEW w \in Workers, NEW r \in RequestsOf[w], Begin(w, r)
      PROVE  pc'[Main] = "idle"
  BY <1>0, <1>4 DEF Begin, At, Goto
<1>5. ASSUME NEW t \in Threads, Step(t)
      PROVE  pc'[Main] = "idle"
  <2>1. phase = "serving" /\ t # Main
    <3>1. CASE Search(t) \/ Get(t)
      BY <3>1 DEF Search, Get, LockForSearch, WalkOn, GetHit, GetTouch, GetMissFound,
                  GetMissAbsent, Hit, Miss, At
    <3>2. CASE Put(t) \/ Delete(t) \/ Relock(t)
      BY <3>2 DEF Put, Delete, Relock, PutHit, PutUpdate, PutMiss, DeleteHitDeleted,
                  DeleteHit, DeleteMark, DeleteMiss, Hit, Miss, At
    <3>3. CASE PutNew(t)
      BY <3>3 DEF PutNew, NewEntry, Acquire, Fill, LockForInsert, Insert, At, Crash
    <3>4. CASE Eviction(t)
      BY <3>4 DEF Eviction, EvictBegin, ScanOn, ScanFound, ScanNothing, Peek,
                  LockVictimBucket, UnlinkVictim, WriteBack, At, Crash
    <3> QED
      BY <1>5, <3>1, <3>2, <3>3, <3>4 DEF Step
  <2>2. pc'[Main] = pc[Main]
    BY <1>0, <1>5, <2>1, StepAlone DEF Threads, LockInv
  <2> QED
    BY <1>0, <2>1, <2>2
<1> QED
  BY <1>1, <1>2, <1>3, <1>4, <1>5 DEF Next

(* No step makes a thread follow a null node: the places where a node is   *)
(* needed are only entered with one.                                       *)
LEMMA HeldStep == LockInv /\ [Next]_vars => PointersHeld'
<1> SUFFICES ASSUME LockInv, [Next]_vars
             PROVE  PointersHeld'
  OBVIOUS
<1>0. TypeOK /\ PointersHeld /\ Nil \notin Node
  BY CacheAssumption DEF LockInv
<1>1. ASSUME NEW w \in Workers, NEW r \in RequestsOf[w], Begin(w, r)
      PROVE  PointersHeld'
  BY <1>0, <1>1, LockTypes DEF Begin, Goto, PointersHeld, Threads
<1>2. ASSUME NEW t \in Threads, Step(t)
      PROVE  PointersHeld'
  <2> DEFINE Held(s) == /\ pc[s] \in {"touch", "relock", "update"} => loc[s].node # Nil
                        /\ pc[s] \in {"fill", "publish", "insert", "writeback"}
                             => loc[s].slot # Nil
  <2>1. \A s \in Threads \ {t} : Held(s)'
    BY <1>0, <1>2, StepAlone DEF PointersHeld
  <2>2. Held(t)'
    <3> USE <1>0, LockTypes DEF PointersHeld, Locals
    <3>1. CASE Search(t)
      BY <3>1 DEF Search, LockForSearch, WalkOn, Goto, At
    <3>2. CASE GetHit(t)
      BY <3>2 DEF GetHit, Hit, Goto
    <3>3. CASE GetTouch(t) \/ GetMissAbsent(t) \/ PutUpdate(t)
      BY <3>3 DEF GetTouch, GetMissAbsent, PutUpdate, Finish, Goto
    <3>4. CASE GetMissFound(t) \/ PutMiss(t) \/ PutHit(t)
      BY <3>4 DEF GetMissFound, PutMiss, PutHit, Hit, Goto
    <3>5. CASE Delete(t)
      BY <3>5 DEF Delete, DeleteHitDeleted, DeleteHit, DeleteMark, DeleteMiss, Hit, Finish,
                  Goto
    <3>6. CASE Relock(t)
      BY <3>6 DEF Relock, Goto, At
    <3>7. CASE NewEntry(t)
      BY <3>7 DEF NewEntry, Goto
    <3>8. CASE Acquire(t)
      <4>1. CASE PoolEmpty(pool) /\ ~HasRoom(pool)
        BY <3>8, <4>1 DEF Acquire, Crash, threadVars
      <4>2. CASE ~PoolEmpty(pool) \/ HasRoom(pool)
        BY <3>8, <4>2, PoolType DEF Acquire, Goto, TypeOK
      <4> QED
        BY <4>1, <4>2
    <3>9. CASE Fill(t) \/ LockForInsert(t)
      BY <3>9 DEF Fill, LockForInsert, Goto, At
    <3>10. CASE Insert(t)
      BY <3>10 DEF Insert, Finish, Goto
    <3>11. CASE EvictBegin(t) \/ ScanOn(t) \/ ScanFound(t)
      BY <3>11 DEF EvictBegin, ScanOn, ScanFound, Goto, At
    <3>12. CASE ScanNothing(t)
      BY <3>12 DEF ScanNothing, Goto, Crash, threadVars
    <3>13. CASE Peek(t)
      BY <3>13 DEF Peek, Goto, Crash, threadVars
    <3>14. CASE LockVictimBucket(t)
      BY <3>14 DEF LockVictimBucket, Goto
    <3>15. CASE UnlinkVictim(t)
      BY <3>15 DEF UnlinkVictim, Goto, Crash, threadVars
    <3>16. CASE WriteBack(t)
      BY <3>16 DEF WriteBack, Goto, At
    <3> QED
      BY <1>2, <3>1, <3>2, <3>3, <3>4, <3>5, <3>6, <3>7, <3>8, <3>9, <3>10, <3>11, <3>12,
         <3>13, <3>14, <3>15, <3>16
      DEF Step, Get, Put, PutNew, Eviction
  <2> QED
    BY <2>1, <2>2 DEF PointersHeld
<1>3. CASE StartCleaning
  BY <1>0, <1>3, LockTypes DEF StartCleaning, Goto, PointersHeld
<1>4. CASE Restart
  BY <1>4 DEF Restart, PointersHeld
<1>5. CASE UNCHANGED vars
  BY <1>0, <1>5 DEF vars, threadVars, PointersHeld
<1> QED
  BY <1>1, <1>2, <1>3, <1>4, <1>5 DEF Next

-----------------------------------------------------------------------------
(* The inductive invariant holds initially and every step keeps it. *)
LEMMA LockInvInit == Init => LockInv
<1> SUFFICES ASSUME Init
             PROVE  LockInv
  OBVIOUS
<1>1. TypeOK /\ LocksMatchPlaces
  BY InitType, InitLocks
<1>2. PointersHeld /\ NoReaderBesideWriter /\ MainWaits
  BY DEF Init, PointersHeld, NoReaderBesideWriter, MainWaits, Threads
<1> QED
  BY <1>1, <1>2 DEF LockInv

(* Every step keeps every part of the inductive invariant. *)
LEMMA LockInvStep == LockInv /\ [Next]_vars => LockInv'
BY TypeStep, HeldStep, LocksStep, ApartStep, MainStep DEF LockInv

(* The inductive invariant holds in every behaviour. *)
THEOREM LockInvariant == Spec => []LockInv
<1>1. LockInv /\ [Next]_vars => LockInv'
  BY LockInvStep
<1> QED
  BY LockInvInit, <1>1, PTL DEF Spec

(* Every variable keeps its type in every behaviour of the cache, however  *)
(* the threads interleave. *)
THEOREM TypeCorrect == Spec => []TypeOK
BY LockInvariant, PTL DEF LockInv

(* The bucket locks and the queue locks are held exactly by the threads    *)
(* that are where the code holds them. *)
THEOREM LocksAreHeldWhereUsed == Spec => []LocksMatchPlaces
BY LockInvariant, PTL DEF LockInv

(* Two threads are never in sections that exclude each other. *)
LEMMA LocksExclude == LockInv => MutualExclusion
<1> SUFFICES ASSUME LockInv, NEW s \in Threads, NEW t \in Threads, s # t
             PROVE  /\ \A b \in Buckets : Writes(s, b) => ~Writes(t, b) /\ ~Reads(t, b)
                    /\ \A q \in Queue : ~(Evicts(s, q) /\ Evicts(t, q))
  BY DEF MutualExclusion
<1>1. ASSUME NEW b \in Buckets, Writes(s, b)
      PROVE  ~Writes(t, b) /\ ~Reads(t, b)
  <2>1. htWriter[b] = s /\ s # NoThread
    BY <1>1, LockTypes DEF LockInv, LocksMatchPlaces
  <2>2. htReaders[b] = {}
    BY <2>1 DEF LockInv, NoReaderBesideWriter
  <2> QED
    BY <2>1, <2>2 DEF LockInv, LocksMatchPlaces
<1>2. ASSUME NEW q \in Queue, Evicts(s, q), Evicts(t, q)
      PROVE  FALSE
  BY <1>2 DEF LockInv, LocksMatchPlaces
<1> QED
  BY <1>1, <1>2

(* No thread is ever inside a section of a bucket another thread is        *)
(* updating, and no queue has two victims on their way to the file. *)
THEOREM SectionsExclude == Spec => []MutualExclusion
BY LockInvariant, LocksExclude, PTL

(* Some busy thread waits for no lock.  Were they all waiting: a thread at *)
(* "writeback" waits for nothing, so no queue is locked; then the threads  *)
(* that wait for a queue do not wait, so nobody is inside a section of a   *)
(* bucket; then nobody waits for a bucket either.                          *)
LEMMA SomeoneCanGoOn == LockInv => NoLockDeadlock
<1> SUFFICES ASSUME LockInv, NEW busy \in Threads, Busy(busy),
                    \A t \in Threads : Busy(t) => Blocked(t)
             PROVE  FALSE
  BY DEF NoLockDeadlock
<1>0. TypeOK /\ LocksMatchPlaces
  BY DEF LockInv
<1>1. \A q \in Queue : lruOwner[q] = NoThread
  <2> SUFFICES ASSUME NEW q \in Queue, lruOwner[q] # NoThread
               PROVE  FALSE
    OBVIOUS
  <2>1. PICK t \in Threads : lruOwner[q] = t
    BY <1>0, LockTypes
  <2>2. pc[t] = "writeback"
    BY <1>0, <2>1 DEF LocksMatchPlaces, Evicts
  <2> QED
    BY <2>2 DEF Busy, Blocked
<1>2. \A t \in Threads : pc[t] \notin {"touch", "update", "insert", "unlink"}
  BY <1>0, <1>1, LockTypes DEF Busy, Blocked
<1>3. \A t \in Threads : pc[t] \notin {"walk", "writeback"}
  BY DEF Busy, Blocked
<1>4. \A b \in Buckets : htReaders[b] = {} /\ htWriter[b] = NoThread
  BY <1>0, <1>2, <1>3, LockTypes DEF LocksMatchPlaces, Reads, Writes, Sharing, Owning
<1> QED
  BY <1>0, <1>2, <1>4, LockTypes DEF Busy, Blocked, Unlocked

(* However many threads work on however many buckets and queues, some      *)
(* thread that is inside a call can always go on. *)
THEOREM DeadlockFree == Spec => []NoLockDeadlock
BY LockInvariant, SomeoneCanGoOn, PTL

-----------------------------------------------------------------------------
(* The action formula of HeadsGuarded for one bucket. *)
Guarded(b) == ht'.head[b] # ht.head[b] => \E t \in Threads : htWriter[b] = t /\ pc'[t] # pc[t]

(* insert_to_head_HT and remove_from_dll_HT are the operations that change *)
(* the head of a bucket, and both change that of the bucket they name.     *)
LEMMA HeadsElsewhere ==
  ASSUME TypeOK, NEW b \in Buckets, NEW c \in Buckets, b # c, NEW n
  PROVE  /\ insert_to_head_HT(ht, c, n).head[b] = ht.head[b]
         /\ remove_from_dll_HT(ht, c, n).head[b] = ht.head[b]
         /\ ForgetLinks(ht, n).head = ht.head
BY DEF insert_to_head_HT, remove_from_dll_HT, PushFront, Unlink, ForgetLinks, TypeOK, ListFamily

(* A step of a thread changes the head of a bucket that it has locked. *)
LEMMA HeadsStep ==
  ASSUME TypeOK, LocksMatchPlaces, NEW t \in Threads, Step(t), NEW b \in Buckets
  PROVE  Guarded(b)
<1>1. ASSUME pc[t] \in Owning, pc'[t] # pc[t], ht'.head[b] # ht.head[b],
             ht'.head[b] # ht.head[b] => b = loc[t].bucket
      PROVE  Guarded(b)
  BY <1>1 DEF Guarded, LocksMatchPlaces, Writes
<1>2. CASE Insert(t)
  BY <1>1, <1>2, LockTypes, HeadsElsewhere DEF Insert, Finish, Goto, At, Owning, Guarded
<1>3. CASE UnlinkVictim(t) /\ ~Crash
  BY <1>1, <1>3, LockTypes, HeadsElsewhere DEF UnlinkVictim, Goto, At, Owning, Guarded
<1>4. CASE Fill(t)
  BY <1>4 DEF Fill, ForgetLinks, Guarded
<1>5. CASE ht' = ht
  BY <1>5 DEF Guarded
<1>6. Insert(t) \/ (UnlinkVictim(t) /\ ~Crash) \/ Fill(t) \/ ht' = ht
  <2>1. CASE Search(t) \/ Get(t)
    BY <2>1 DEF Search, LockForSearch, WalkOn, Get, GetHit, GetTouch, GetMissFound, GetMissAbsent,
                htVars
  <2>2. CASE Put(t) \/ Delete(t) \/ Relock(t)
    BY <2>2 DEF Put, PutHit, PutUpdate, PutMiss, Delete, DeleteHitDeleted, DeleteHit, DeleteMark,
                DeleteMiss, Relock, htVars
  <2>3. CASE PutNew(t)
    BY <2>3 DEF PutNew, NewEntry, Acquire, Crash, LockForInsert, htVars
  <2>4. CASE Eviction(t)
    BY <2>4 DEF Eviction, EvictBegin, ScanOn, ScanFound, ScanNothing, Peek, LockVictimBucket,
                WriteBack, Crash, htVars
  <2> QED
    BY <2>1, <2>2, <2>3, <2>4 DEF Step
<1> QED
  BY <1>2, <1>3, <1>4, <1>5, <1>6

(* In every behaviour the first node of a bucket of a living process only  *)
(* changes by a step of the thread that holds the bucket exclusively.      *)
THEOREM BucketsAreGuarded == Spec => HeadsGuarded
<1> DEFINE A == \A b \in Buckets :
                  ht'.head[b] # ht.head[b] /\ phase \in {"serving", "cleaning"}
                    => \E t \in Threads : htWriter[b] = t /\ pc'[t] # pc[t]
<1>1. LockInv /\ [Next]_vars => [A]_vars
  <2> SUFFICES ASSUME LockInv, Next, NEW b \in Buckets, phase \in {"serving", "cleaning"}
               PROVE  Guarded(b)
    BY DEF Guarded
  <2>1. ASSUME NEW t \in Threads, Step(t)
        PROVE  Guarded(b)
    BY <2>1, HeadsStep DEF LockInv
  <2>2. ASSUME NEW w \in Workers, NEW r \in RequestsOf[w], Begin(w, r)
        PROVE  Guarded(b)
    BY <2>2 DEF Begin, htVars, Guarded
  <2>3. CASE StartCleaning
    BY <2>3 DEF StartCleaning, htVars, Guarded
  <2>4. CASE Restart
    BY <2>4 DEF Restart
  <2> QED
    BY <2>1, <2>2, <2>3, <2>4 DEF Next
<1> QED
  BY LockInvariant, <1>1, PTL DEF Spec, HeadsGuarded

-----------------------------------------------------------------------------
(* What becomes of an evicted node.                                       *)

(* Every pointer of the lists, every node a thread is searching with and   *)
(* every node a thread is about to link has been filled in the life of     *)
(* this process.                                                           *)
LinksInUse == /\ ht \in ListsInto(Buckets, Node, InUse)
              /\ lru \in ListsInto(Queue, Node, InUse)

HandsInUse ==
  \A t \in Threads :
    /\ loc[t].node # Nil => loc[t].node \in InUse
    /\ pc[t] \in {"publish", "insert", "writeback"} => loc[t].slot \in InUse

(* The inductive invariant behind NeverMarkedOut: the pointers that lead   *)
(* to a tail are those of every link, so all of them have to be followed.  *)
ReuseInv == LinksInUse /\ HandsInUse

(* Pointers that lead into a set lead into every larger one. *)
LEMMA ListsIntoGrow ==
  ASSUME NEW Q, NEW N, NEW S, NEW T, S \subseteq T, NEW L \in ListsInto(Q, N, S)
  PROVE  L \in ListsInto(Q, N, T)
<1>1. /\ L.head \in [Q -> T \cup {Nil}] /\ L.tail \in [Q -> T \cup {Nil}]
      /\ L.prev \in [N -> T \cup {Nil}] /\ L.next \in [N -> T \cup {Nil}]
  BY DEF ListsInto
<1>2. L = [head |-> L.head, tail |-> L.tail, prev |-> L.prev, next |-> L.next]
  BY DEF ListsInto
<1> QED
  BY <1>1, <1>2 DEF ListsInto

(* The head of a bucket, and what follows a node in use, is in use. *)
LEMMA FollowingInUse ==
  ASSUME LinksInUse
  PROVE  /\ \A b \in Buckets : ht.head[b] \in InUse \cup {Nil}
         /\ \A n \in Node : ht.next[n] \in InUse \cup {Nil}
         /\ \A q \in Queue : lru.tail[q] \in InUse \cup {Nil}
BY DEF LinksInUse, ListsInto

(* The steps that write a node: cache_PUT and cache_DELETE on a hit, and   *)
(* set_all. *)
Writing(t) == PutUpdate(t) \/ DeleteMark(t) \/ Fill(t)

(* No other step of a thread writes one. *)
LEMMA OthersKeepEntries ==
  ASSUME NEW t \in Threads, Step(t), ~Writing(t)
  PROVE  entry' = entry /\ InUse' = InUse
<1>1. entry' = entry
  <2>1. CASE Search(t) \/ Get(t)
    BY <2>1 DEF Search, LockForSearch, WalkOn, Get, GetHit, GetTouch, GetMissFound, GetMissAbsent
  <2>2. CASE Put(t) \/ Delete(t) \/ Relock(t)
    BY <2>2 DEF Put, PutHit, PutMiss, Delete, DeleteHitDeleted, DeleteHit, DeleteMiss, Relock,
                Writing
  <2>3. CASE PutNew(t)
    BY <2>3 DEF PutNew, NewEntry, Acquire, Crash, LockForInsert, Insert, Writing
  <2>4. CASE Eviction(t)
    BY <2>4 DEF Eviction, EvictBegin, ScanOn, ScanFound, ScanNothing, Peek, LockVictimBucket,
                UnlinkVictim, WriteBack, Crash
  <2> QED
    BY <2>1, <2>2, <2>3, <2>4 DEF Step
<1> QED
  BY <1>1 DEF InUse

(* A node in use stays in use while the process lives. *)
LEMMA InUseGrows ==
  ASSUME TypeOK, PointersHeld, NEW t \in Threads, Step(t)
  PROVE  InUse \subseteq InUse'
<1>0. entry \in [Node -> Entries] /\ \A n \in Node : entry[n] \in Entries
  BY DEF TypeOK
<1>1. CASE PutUpdate(t)
  <2>1. loc[t].node \in Node
    BY <1>1 DEF PutUpdate, At, PointersHeld, TypeOK, Locals
  <2>2. \A n \in Node : \/ entry'[n] = entry[n]
                        \/ entry[n].dirty # "NOT_IN_CACHE" => entry'[n].dirty # "NOT_IN_CACHE"
    BY <1>0, <1>1, <2>1 DEF PutUpdate, DirtyAfterPut, Entries
  <2> QED
    BY <2>2 DEF InUse
<1>2. CASE DeleteMark(t)
  <2>1. loc[t].node \in Node
    BY <1>2 DEF DeleteMark, At, PointersHeld, TypeOK, Locals
  <2>2. \A n \in Node : entry'[n] = entry[n] \/ entry'[n].dirty = "TODELETE"
    BY <1>0, <1>2, <2>1 DEF DeleteMark, Entries
  <2> QED
    BY <2>2 DEF InUse
<1>3. CASE Fill(t)
  <2>1. \A n \in Node : entry'[n] = entry[n] \/ entry'[n].dirty = "DIRTY"
    BY <1>0, <1>3 DEF Fill, SetAll
  <2> QED
    BY <2>1 DEF InUse
<1> QED
  BY <1>1, <1>2, <1>3, OthersKeepEntries DEF Writing

(* set_all brings the node it fills into use. *)
LEMMA FillUses ==
  ASSUME TypeOK, PointersHeld, NEW t \in Threads, Fill(t)
  PROVE  loc[t].slot \in InUse' /\ loc[t].slot \in Node
<1>1. loc[t].slot \in Node
  BY DEF Fill, At, PointersHeld, TypeOK, Locals
<1> QED
  BY <1>1 DEF Fill, SetAll, TypeOK, InUse

-----------------------------------------------------------------------------
(* No step of a thread makes a list lead to a node that is not in use. *)
LEMMA LinksStep ==
  ASSUME TypeOK, PointersHeld, ReuseInv, NEW t \in Threads, Step(t)
  PROVE  LinksInUse'
<1>0. /\ InUse \subseteq InUse' /\ InUse' \subseteq Node
      /\ ht \in ListsInto(Buckets, Node, InUse')
      /\ lru \in ListsInto(Queue, Node, InUse')
  <2>1. InUse \subseteq InUse' /\ InUse' \subseteq Node
    BY InUseGrows DEF InUse
  <2> QED
    BY <2>1, ListsIntoGrow DEF ReuseInv, LinksInUse
<1>a. /\ loc[t] \in Locals /\ loc[t].bucket \in Buckets /\ loc[t].queue \in Queue
      /\ \A n \in Node : entry[n].lruIdx \in Queue
  BY LockTypes DEF TypeOK, Entries
<1>1. CASE GetTouch(t) \/ PutUpdate(t) \/ DeleteMark(t)
  <2>1. loc[t].node \in InUse' /\ loc[t].node \in Node
    BY <1>0, <1>1, <1>a DEF GetTouch, PutUpdate, DeleteMark, At, PointersHeld, ReuseInv, HandsInUse,
                      Locals
  <2>2. ht' = ht /\ (lru' = lru \/ lru' = MoveToFront(lru, entry[loc[t].node].lruIdx, loc[t].node))
    BY <1>1 DEF GetTouch, PutUpdate, DeleteMark, move_to_head_LRU
  <2>3. MoveToFront(lru, entry[loc[t].node].lruIdx, loc[t].node) \in ListsInto(Queue, Node, InUse')
    BY <1>0, <1>a, <2>1, MoveToFrontInto
  <2> QED
    BY <1>0, <2>2, <2>3 DEF LinksInUse
<1>2. CASE Fill(t)
  <2>1. loc[t].slot \in Node
    BY <1>2, FillUses
  <2>2. ForgetLinks(ht, loc[t].slot) \in ListsInto(Buckets, Node, InUse')
    BY <1>0, <2>1, ForgetLinksInto
  <2>3. ForgetLinks(lru, loc[t].slot) \in ListsInto(Queue, Node, InUse')
    BY <1>0, <2>1, ForgetLinksInto
  <2> QED
    BY <1>2, <2>2, <2>3 DEF Fill, LinksInUse
<1>3. CASE Insert(t)
  <2>1. loc[t].slot \in InUse'
    BY <1>0, <1>3 DEF Insert, At, ReuseInv, HandsInUse
  <2>2. PushFront(ht, loc[t].bucket, loc[t].slot) \in ListsInto(Buckets, Node, InUse')
    BY <1>0, <1>a, <2>1, PushFrontInto
  <2>3. PushFront(lru, loc[t].queue, loc[t].slot) \in ListsInto(Queue, Node, InUse')
    BY <1>0, <1>a, <2>1, PushFrontInto
  <2> QED
    BY <1>3, <2>2, <2>3 DEF Insert, insert_to_head_HT, insert_to_head_LRU, LinksInUse
<1>4. CASE UnlinkVictim(t) /\ ~Crash
  <2> DEFINE victim == lru.tail[loc[t].queue]
  <2>1. victim \in Node
    BY <1>0, <1>4, <1>a, FollowingInUse DEF UnlinkVictim, ReuseInv, InUse
  <2>2. Unlink(ht, loc[t].bucket, victim) \in ListsInto(Buckets, Node, InUse')
    BY <1>0, <1>a, <2>1, UnlinkInto
  <2>3. Unlink(lru, loc[t].queue, victim) \in ListsInto(Queue, Node, InUse')
    BY <1>0, <1>a, <2>1, UnlinkInto
  <2> QED
    BY <1>4, <2>2, <2>3 DEF UnlinkVictim, remove_from_dll_HT, remove_from_dll_LRU, LinksInUse
<1>5. CASE UNCHANGED <<ht, lru>>
  BY <1>0, <1>5 DEF LinksInUse
<1>6. \/ GetTouch(t) \/ PutUpdate(t) \/ DeleteMark(t) \/ Fill(t) \/ Insert(t)
      \/ UnlinkVictim(t) /\ ~Crash
      \/ UNCHANGED <<ht, lru>>
  <2>1. CASE Search(t) \/ Get(t)
    BY <2>1 DEF Search, LockForSearch, WalkOn, Get, GetHit, GetMissFound, GetMissAbsent,
                htVars, lruVars
  <2>2. CASE Put(t) \/ Delete(t) \/ Relock(t)
    BY <2>2 DEF Put, PutHit, PutMiss, Delete, DeleteHitDeleted, DeleteHit, DeleteMiss, Relock,
                htVars, lruVars
  <2>3. CASE PutNew(t)
    BY <2>3 DEF PutNew, NewEntry, Acquire, Crash, LockForInsert, htVars, lruVars
  <2>4. CASE Eviction(t)
    BY <2>4 DEF Eviction, EvictBegin, ScanOn, ScanFound, ScanNothing, Peek, LockVictimBucket,
                WriteBack, Crash, htVars, lruVars
  <2> QED
    BY <2>1, <2>2, <2>3, <2>4 DEF Step
<1> QED
  BY <1>1, <1>2, <1>3, <1>4, <1>5, <1>6

(* No step of a thread gives it, or leaves another, a node not in use. *)
LEMMA HandsStep ==
  ASSUME TypeOK, PointersHeld, ReuseInv, NEW t \in Threads, Step(t)
  PROVE  HandsInUse'
<1> DEFINE Good(s) == /\ loc[s].node # Nil => loc[s].node \in InUse
                      /\ pc[s] \in {"publish", "insert", "writeback"} => loc[s].slot \in InUse
<1>0. InUse \subseteq InUse' /\ Good(t)
  BY InUseGrows DEF ReuseInv, HandsInUse
<1>1. \A s \in Threads \ {t} : Good(s)'
  BY <1>0, StepAlone DEF ReuseInv, HandsInUse
<1>2. Good(t)'
  <2> USE <1>0, LockTypes, CacheAssumption
  <2>1. CASE Search(t)
    <3>1. loc'[t].node \in InUse \cup {Nil} /\ loc'[t].slot = loc[t].slot
      <4>1. CASE LockForSearch(t)
        BY <4>1, FollowingInUse DEF LockForSearch, Locals, ReuseInv
      <4>2. CASE WalkOn(t)
        BY <4>2, FollowingInUse DEF WalkOn, Locals, ReuseInv, InUse
      <4> QED
        BY <2>1, <4>1, <4>2 DEF Search
    <3>2. pc'[t] = "walk"
      BY <2>1 DEF Search, LockForSearch, WalkOn, Goto, At
    <3> QED
      BY <3>1, <3>2
  <2>2. CASE GetTouch(t) \/ GetMissAbsent(t) \/ PutUpdate(t) \/ DeleteHitDeleted(t)
               \/ DeleteMark(t) \/ DeleteMiss(t) \/ Insert(t)
    <3>1. \E ok, v : Finish(t, ok, v)
      BY <2>2 DEF GetTouch, GetMissAbsent, PutUpdate, DeleteHitDeleted, DeleteMark, DeleteMiss,
                  Insert
    <3> QED
      BY <3>1 DEF Finish, Goto, NoLocals
  <2>3. CASE GetHit(t) \/ GetMissFound(t) \/ PutHit(t) \/ PutMiss(t) \/ DeleteHit(t) \/ Relock(t)
               \/ NewEntry(t)
    <3>1. loc'[t].node = loc[t].node
      BY <2>3 DEF GetHit, GetMissFound, PutHit, PutMiss, DeleteHit, Relock, NewEntry, Locals
    <3>2. pc'[t] \in {"touch", "new", "relock", "update", "evict", "acquire"}
      BY <2>3 DEF GetHit, GetMissFound, PutHit, PutMiss, DeleteHit, Relock, NewEntry, Goto
    <3> QED
      BY <3>1, <3>2
  <2>4. CASE Acquire(t)
    <3>1. CASE Crash
      BY <3>1 DEF Crash, threadVars
    <3>2. CASE ~Crash
      BY <2>4, <3>2 DEF Acquire, Goto, Locals
    <3> QED
      BY <3>1, <3>2
  <2>5. CASE Fill(t)
    <3>1. loc'[t].node = loc[t].node /\ loc'[t].slot = loc[t].slot
      BY <2>5 DEF Fill, Locals
    <3> QED
      BY <2>5, <3>1, FillUses
  <2>6. CASE LockForInsert(t)
    BY <2>6 DEF LockForInsert, Goto, At
  <2>7. CASE Eviction(t)
    <3>1. CASE Crash
      BY <3>1 DEF Crash, threadVars
    <3>2. CASE UnlinkVictim(t) /\ ~Crash
      BY <3>2, FollowingInUse DEF UnlinkVictim, Goto, Locals, ReuseInv
    <3>3. CASE ScanNothing(t) /\ ~Crash
      BY <3>3 DEF ScanNothing, Goto, NoLocals
    <3>4. CASE EvictBegin(t) \/ ScanOn(t) \/ ScanFound(t) \/ LockVictimBucket(t) \/ WriteBack(t)
      BY <3>4 DEF EvictBegin, ScanOn, ScanFound, LockVictimBucket, WriteBack, Goto, Locals, At
    <3>5. CASE Peek(t) /\ ~Crash
      BY <3>5 DEF Peek, Goto, Locals
    <3> QED
      BY <2>7, <3>1, <3>2, <3>3, <3>4, <3>5 DEF Eviction
  <2> QED
    BY <2>1, <2>2, <2>3, <2>4, <2>5, <2>6, <2>7 DEF Step, Get, Put, Delete, PutNew
<1> QED
  BY <1>1, <1>2 DEF HandsInUse

-----------------------------------------------------------------------------
(* A new process has empty lists and idle threads. *)
LEMMA ReuseInit == Init => ReuseInv
BY EmptyListsInto, CacheAssumption DEF Init, ReuseInv, LinksInUse, HandsInUse, NoLocals

(* Every step keeps the invariant. *)
LEMMA ReuseStep == LockInv /\ ReuseInv /\ [Next]_vars => ReuseInv'
<1> SUFFICES ASSUME LockInv, ReuseInv, [Next]_vars
             PROVE  ReuseInv'
  OBVIOUS
<1>0. TypeOK /\ PointersHeld
  BY DEF LockInv
<1>1. ASSUME NEW w \in Workers, NEW r \in RequestsOf[w], Begin(w, r)
      PROVE  ReuseInv'
  BY <1>0, <1>1, LockTypes
  DEF Begin, Goto, ReuseInv, LinksInUse, HandsInUse, InUse, htVars, lruVars, Threads
<1>2. ASSUME NEW t \in Threads, Step(t)
      PROVE  ReuseInv'
  BY <1>0, <1>2, LinksStep, HandsStep DEF ReuseInv
<1>3. CASE StartCleaning
  BY <1>0, <1>3, LockTypes
  DEF StartCleaning, Goto, ReuseInv, LinksInUse, HandsInUse, InUse, htVars, lruVars
<1>4. CASE Restart
  BY <1>4, EmptyListsInto, CacheAssumption
  DEF Restart, ReuseInv, LinksInUse, HandsInUse, NoLocals
<1>5. CASE UNCHANGED vars
  BY <1>5
  DEF ReuseInv, LinksInUse, HandsInUse, InUse, vars, htVars, lruVars, threadVars
<1> QED
  BY <1>1, <1>2, <1>3, <1>4, <1>5 DEF Next

(* The invariant gives what the tests of NOT_IN_CACHE look at: the node a  *)
(* thread is working on and the tail of a queue.                           *)
LEMMA ReuseInvEnough == ReuseInv => NeverMarkedOut
BY FollowingInUse DEF ReuseInv, HandsInUse, NeverMarkedOut

(* No node cache_PUT, cache_DELETE or cache_eviction tests for the mark    *)
(* NOT_IN_CACHE carries it, in any behaviour: the tests at KVCache.hpp:272,*)
(* 345, 369 and 419 do not notice that a node was evicted or filled again. *)
THEOREM EvictionGoesUnnoticed == Spec => []NeverMarkedOut
<1>1. LockInv /\ ReuseInv /\ [Next]_vars => LockInv' /\ ReuseInv'
  BY LockInvStep, ReuseStep
<1>2. Init => LockInv /\ ReuseInv
  BY LockInvInit, ReuseInit
<1> QED
  BY <1>1, <1>2, ReuseInvEnough, PTL DEF Spec
=============================================================================
