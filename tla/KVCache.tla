------------------------------- MODULE KVCache -------------------------------
(***************************************************************************)
(* The write-back cache of KVCache.hpp as the threads of the server run    *)
(* it: cache_GET, cache_PUT and cache_DELETE by the workers, cache_clean   *)
(* by the thread that takes SIGINT, and under all of them cache_eviction   *)
(* and cache_PUT_new_entry.                                                *)
(*                                                                         *)
(* A step is what a thread does between two points where another thread    *)
(* can make a difference: a lock it has to wait for, an atomic counter, or *)
(* shared memory it reads without a lock.  Persistent storage is one map   *)
(* here (its file locks make each call on it one step).  A null pointer    *)
(* that is dereferenced ends the process.                                  *)
(***************************************************************************)
EXTENDS KVRequests, LinkedLists, MemoryPool, FiniteSets

CONSTANTS Workers,       \* the worker threads
          Main,          \* the thread that runs cache_clean
          Buckets,       \* indices of hashTable
          NumQueues,     \* lruEvictionTable.size()
          TableLen,      \* CACHE_TABLE_LEN, as the bound of the victim scan
          BucketOf,      \* hash1 % CACHE_TABLE_LEN of a key
          NoKey,         \* the key of a CacheNode that was never filled
          RequestsOf,    \* RequestsOf[w]: the requests that reach worker w
          InitialDbs     \* what the database files may hold at the first start

Threads == Workers \cup {Main}
Queue   == 0..(NumQueues - 1)
NoThread == Nil

ASSUME CacheAssumption ==
  /\ Nil \notin Node /\ Nil \notin Threads /\ Main \notin Workers
  /\ NoKey \notin Keys
  /\ NumQueues \in Nat \ {0} /\ TableLen \in Nat /\ TableLen >= NumQueues
  /\ BucketOf \in [Keys \cup {NoKey} -> Buckets]
  /\ RequestsOf \in [Workers -> SUBSET Requests]
  /\ InitialDbs \subseteq [Keys -> MaybeValue]

VARIABLES
  db,                    \* persistent storage: key -> value
  pool,                  \* cacheNodeMemoryPool
  entry,                 \* what the nodes hold: message, lru_idx, dirty_bit
  ht, lru,               \* the lists of hashTable and of lruEvictionTable
  htReaders, htWriter,   \* rw_lock of each bucket: shared and exclusive owners
  lruOwner,              \* rw_lock of each LRU queue, only ever taken exclusively
  insertIdx, evictIdx,   \* lruTableInsertIdx and lruEvictionIdx, modulo the size
  pc, req, ret, loc,     \* per thread: place, ptr, answer, local variables
  phase                  \* of the process: serving, cleaning, stopped, crashed

htVars     == <<ht, htReaders, htWriter>>
lruVars    == <<lru, lruOwner>>
idxVars    == <<insertIdx, evictIdx>>
threadVars == <<pc, req, ret, loc>>
vars == <<db, pool, entry, htVars, lruVars, idxVars, threadVars, phase>>

Entries == [key : Keys \cup {NoKey}, value : MaybeValue, lruIdx : Queue,
            dirty : {"DIRTY", "NOT_IN_CACHE", "TODELETE"}]
BlankEntry == [key |-> NoKey, value |-> NoValue, lruIdx |-> 0, dirty |-> "NOT_IN_CACHE"]

NoAnswer  == Answer(FALSE, NoValue)
NoMessage == [op |-> "NONE", key |-> NoKey, value |-> NoValue]

(* The locals of one call.  node: cacheNodeIter; slot: new_cacheNode or    *)
(* ptrToRemove; bucket: hashTableIdx or hqIdx; queue: the index of the LRU *)
(* queue the thread works on; scans: i of cache_eviction.                  *)
NoLocals == [node |-> Nil, slot |-> Nil, bucket |-> BucketOf[NoKey],
             queue |-> 0, scans |-> 0]

(* A freshly started process on the files of an earlier one. *)
Init ==
  /\ db \in InitialDbs
  /\ pool = InitialPool
  /\ entry = [n \in Node |-> BlankEntry]
  /\ ht = EmptyLists(Buckets, Node)
  /\ lru = EmptyLists(Queue, Node)
  /\ htReaders = [b \in Buckets |-> {}]
  /\ htWriter = [b \in Buckets |-> NoThread]
  /\ lruOwner = [q \in Queue |-> NoThread]
  /\ insertIdx = 0 /\ evictIdx = 0
  /\ pc = [t \in Threads |-> "idle"]
  /\ req = [t \in Threads |-> NoMessage]
  /\ ret = [t \in Threads |-> NoAnswer]
  /\ loc = [t \in Threads |-> NoLocals]
  /\ phase = "serving"

-----------------------------------------------------------------------------
(* Mistakes that would be easy to make in the operators of the next part,  *)
(* one variant each.  No action uses them: with one of them in place of    *)
(* the operator it is named after, the properties of the cache must fail.  *)

move_to_head_LRU_forgotten(L, q, n)    == L
remove_from_dll_LRU_forgotten(L, q, n) == L
insert_to_head_LRU_one_way(L, q, n) ==
  [PushFront(L, q, n) EXCEPT !.prev = [L.prev EXCEPT ![n] = Nil]]
insert_to_head_LRU_no_tail(L, q, n) == [PushFront(L, q, n) EXCEPT !.tail = L.tail]

(* A deleted entry is passed over by the search. *)
entry_equals_alive(n, t) == entry[n].key = req[t].key /\ entry[n].dirty # "TODELETE"

Stepped_past_end(i) == (i + 1) % (NumQueues + 1)

(* A deleted entry that is put again with its old value stays deleted. *)
DirtyAfterPut_still_deleted(e, v) == IF e.value = v THEN e.dirty ELSE "DIRTY"

(* set_all leaves the mark of the constructor. *)
SetAll_unmarked(r, q) ==
  [key |-> r.key, value |-> r.value, lruIdx |-> q, dirty |-> "NOT_IN_CACHE"]

(* A deleted entry is dropped, its key is left in the file. *)
Flushed_undeleted(d, e) == IF e.dirty = "DIRTY" THEN [d EXCEPT ![e.key] = e.value] ELSE d

(* The writer does not wait for the readers. *)
Unlocked_by_writer(b) == htWriter[b] = NoThread

(* The reader excludes other readers. *)
LockShared_alone(t, b) == /\ htWriter[b] = NoThread /\ htReaders[b] = {}
                          /\ htReaders' = [htReaders EXCEPT ![b] = {t}]
                          /\ UNCHANGED htWriter

(* A return path that keeps the lock. *)
UnlockShared_forgotten(t, b) == UNCHANGED <<htReaders, htWriter>>
UnlockBucket_forgotten(b)    == UNCHANGED <<htReaders, htWriter>>

(* The guard object is a temporary: it locks and unlocks at once. *)
LockBucket_temporary(t, b) == /\ htWriter[b] = NoThread /\ htReaders[b] = {}
                              /\ UNCHANGED <<htReaders, htWriter>>

-----------------------------------------------------------------------------
(* The six list operations of the source, and what it stores in a node. *)
move_to_head_LRU(L, q, n)    == MoveToFront(L, q, n)
remove_from_dll_LRU(L, q, n) == Unlink(L, q, n)
insert_to_head_LRU(L, q, n)  == PushFront(L, q, n)
remove_from_dll_HT(L, b, n)  == Unlink(L, b, n)
insert_to_head_HT(L, b, n)   == PushFront(L, b, n)

entry_equals(n, t) == entry[n].key = req[t].key

(* get_next_lru_queue_idx and get_next_eviction_queue_idx return a counter *)
(* and step it, as one atomic operation.                                   *)
Stepped(i) == (i + 1) % NumQueues

(* The dirty_bit of entry e once value v is put in it. *)
DirtyAfterPut(e, v) == IF e.value = v /\ e.dirty # "TODELETE" THEN e.dirty ELSE "DIRTY"

(* set_all for request r and LRU queue q: a node put in by a GET is DIRTY  *)
(* like one put in by a PUT.                                               *)
SetAll(r, q) == [key |-> r.key, value |-> r.value, lruIdx |-> q, dirty |-> "DIRTY"]

(* The files d once the victim e is written to, or deleted from, them. *)
Flushed(d, e) == [d EXCEPT ![e.key] = CASE e.dirty = "TODELETE" -> NoValue
                                        [] e.dirty = "DIRTY"    -> e.value
                                        [] OTHER                -> @]

Bucket(t) == BucketOf[req[t].key]

Unlocked(b) == htWriter[b] = NoThread /\ htReaders[b] = {}

LockShared(t, b) == /\ htWriter[b] = NoThread
                    /\ htReaders' = [htReaders EXCEPT ![b] = @ \cup {t}]
                    /\ UNCHANGED htWriter

UnlockShared(t, b) == /\ htReaders' = [htReaders EXCEPT ![b] = @ \ {t}]
                      /\ UNCHANGED htWriter

LockBucket(t, b) == /\ Unlocked(b)
                    /\ htWriter' = [htWriter EXCEPT ![b] = t]
                    /\ UNCHANGED htReaders

UnlockBucket(b) == /\ htWriter' = [htWriter EXCEPT ![b] = NoThread]
                   /\ UNCHANGED htReaders

Goto(t, place) == pc' = [pc EXCEPT ![t] = place]

(* The call returns: the answer is out and its locals are gone. *)
Finish(t, ok, v) ==
  /\ Goto(t, "idle")
  /\ ret' = [ret EXCEPT ![t] = Answer(ok, v)]
  /\ req' = [req EXCEPT ![t] = NoMessage]
  /\ loc' = [loc EXCEPT ![t] = NoLocals]

(* A thread only runs in the phase that is its own. *)
At(t, place) == pc[t] = place /\ phase = (IF t = Main THEN "cleaning" ELSE "serving")

(* A null pointer was dereferenced. *)
Crash == /\ phase' = "crashed"
         /\ UNCHANGED <<db, pool, entry, htVars, lruVars, idxVars, threadVars>>

-----------------------------------------------------------------------------
(* The search through the bucket, under its shared lock.                  *)

Begin(w, r) ==
  /\ At(w, "idle")
  /\ req' = [req EXCEPT ![w] = r]
  /\ ret' = [ret EXCEPT ![w] = NoAnswer]
  /\ Goto(w, "lookup")
  /\ UNCHANGED <<db, pool, entry, htVars, lruVars, idxVars, loc, phase>>

LockForSearch(t) ==
  /\ At(t, "lookup")
  /\ LockShared(t, Bucket(t))
  /\ loc' = [loc EXCEPT ![t].node = ht.head[Bucket(t)], ![t].bucket = Bucket(t)]
  /\ Goto(t, "walk")
  /\ UNCHANGED <<db, pool, entry, ht, lruVars, idxVars, req, ret, phase>>

WalkOn(t) ==
  /\ At(t, "walk")
  /\ loc[t].node # Nil /\ ~entry_equals(loc[t].node, t)
  /\ loc' = [loc EXCEPT ![t].node = ht.next[@]]
  /\ UNCHANGED <<db, pool, entry, htVars, lruVars, idxVars, pc, req, ret, phase>>

Hit(t, op)  == At(t, "walk") /\ req[t].op = op
                 /\ loc[t].node # Nil /\ entry_equals(loc[t].node, t)
Miss(t, op) == At(t, "walk") /\ req[t].op = op /\ loc[t].node = Nil

-----------------------------------------------------------------------------
(* cache_GET_ptr                                                          *)

GetHit(t) ==
  LET e == entry[loc[t].node]
  IN /\ Hit(t, "GET")
     /\ req' = [req EXCEPT ![t].value = IF e.dirty = "TODELETE" THEN @ ELSE e.value]
     /\ loc' = [loc EXCEPT ![t].queue = e.lruIdx]
     /\ Goto(t, "touch")
     /\ UNCHANGED <<db, pool, entry, htVars, lruVars, idxVars, ret, phase>>

GetTouch(t) ==
  LET n == loc[t].node
  IN /\ At(t, "touch")
     /\ lruOwner[loc[t].queue] = NoThread
     /\ lru' = move_to_head_LRU(lru, entry[n].lruIdx, n)
     /\ UnlockShared(t, loc[t].bucket)
     /\ IF entry[n].dirty = "TODELETE" THEN Finish(t, FALSE, NoValue)
                                       ELSE Finish(t, TRUE, req[t].value)
     /\ UNCHANGED <<db, pool, entry, ht, lruOwner, idxVars, phase>>

(* read_from_db finds the key: its value is brought into the cache. *)
GetMissFound(t) ==
  /\ Miss(t, "GET")
  /\ db[req[t].key] # NoValue
  /\ req' = [req EXCEPT ![t].value = db[req[t].key]]
  /\ UnlockShared(t, loc[t].bucket)
  /\ Goto(t, "new")
  /\ UNCHANGED <<db, pool, entry, ht, lruVars, idxVars, ret, loc, phase>>

GetMissAbsent(t) ==
  /\ Miss(t, "GET")
  /\ db[req[t].key] = NoValue
  /\ UnlockShared(t, loc[t].bucket)
  /\ Finish(t, FALSE, NoValue)
  /\ UNCHANGED <<db, pool, entry, ht, lruVars, idxVars, phase>>

-----------------------------------------------------------------------------
(* cache_PUT                                                              *)

(* The shared lock is given up before the exclusive one is asked for. *)
PutHit(t) ==
  /\ Hit(t, "PUT")
  /\ UnlockShared(t, loc[t].bucket)
  /\ Goto(t, "relock")
  /\ UNCHANGED <<db, pool, entry, ht, lruVars, idxVars, req, ret, loc, phase>>

(* cacheNodeIter is used again, whatever became of it in between. *)
Relock(t) ==
  /\ At(t, "relock")
  /\ LockBucket(t, loc[t].bucket)
  /\ loc' = [loc EXCEPT ![t].queue = entry[loc[t].node].lruIdx]
  /\ Goto(t, "update")
  /\ UNCHANGED <<db, pool, entry, ht, lruVars, idxVars, req, ret, phase>>

PutUpdate(t) ==
  LET n == loc[t].node
      e == entry[n]
  IN /\ At(t, "update") /\ req[t].op = "PUT"
     /\ lruOwner[loc[t].queue] = NoThread
     /\ entry' = [entry EXCEPT ![n].dirty = DirtyAfterPut(e, req[t].value),
                               ![n].value = req[t].value]
     /\ lru' = move_to_head_LRU(lru, e.lruIdx, n)
     /\ UnlockBucket(loc[t].bucket)
     /\ Finish(t, TRUE, NoValue)
     /\ UNCHANGED <<db, pool, ht, lruOwner, idxVars, phase>>

PutMiss(t) ==
  /\ Miss(t, "PUT")
  /\ UnlockShared(t, loc[t].bucket)
  /\ Goto(t, "new")
  /\ UNCHANGED <<db, pool, entry, ht, lruVars, idxVars, req, ret, loc, phase>>

-----------------------------------------------------------------------------
(* cache_DELETE                                                           *)

DeleteHitDeleted(t) ==
  /\ Hit(t, "DELETE")
  /\ entry[loc[t].node].dirty = "TODELETE"
  /\ UnlockShared(t, loc[t].bucket)
  /\ Finish(t, FALSE, NoValue)
  /\ UNCHANGED <<db, pool, entry, ht, lruVars, idxVars, phase>>

DeleteHit(t) ==
  /\ Hit(t, "DELETE")
  /\ entry[loc[t].node].dirty # "TODELETE"
  /\ UnlockShared(t, loc[t].bucket)
  /\ Goto(t, "relock")
  /\ UNCHANGED <<db, pool, entry, ht, lruVars, idxVars, req, ret, loc, phase>>

DeleteMark(t) ==
  LET n == loc[t].node
  IN /\ At(t, "update") /\ req[t].op = "DELETE"
     /\ lruOwner[loc[t].queue] = NoThread
     /\ IF entry[n].dirty = "TODELETE"
          THEN /\ UNCHANGED <<entry, lru>>
               /\ Finish(t, FALSE, NoValue)
          ELSE /\ entry' = [entry EXCEPT ![n].dirty = "TODELETE"]
               /\ lru' = move_to_head_LRU(lru, entry[n].lruIdx, n)
               /\ Finish(t, TRUE, NoValue)
     /\ UnlockBucket(loc[t].bucket)
     /\ UNCHANGED <<db, pool, ht, lruOwner, idxVars, phase>>

DeleteMiss(t) ==
  /\ Miss(t, "DELETE")
  /\ db' = [db EXCEPT ![req[t].key] = NoValue]
  /\ UnlockShared(t, loc[t].bucket)
  /\ Finish(t, db[req[t].key] # NoValue, NoValue)
  /\ UNCHANGED <<pool, entry, ht, lruVars, idxVars, phase>>

-----------------------------------------------------------------------------
(* cache_PUT_new_entry                                                    *)

(* is_full reads the pool's counter without its mutex. *)
NewEntry(t) ==
  /\ At(t, "new")
  /\ Goto(t, IF PoolEmpty(pool) THEN "evict" ELSE "acquire")
  /\ UNCHANGED <<db, pool, entry, htVars, lruVars, idxVars, req, ret, loc, phase>>

Acquire(t) ==
  /\ At(t, "acquire")
  /\ IF PoolEmpty(pool) /\ ~HasRoom(pool)
       THEN Crash        \* out of memory
       ELSE /\ loc' = [loc EXCEPT ![t].slot = Acquired(pool)]
            /\ pool' = AfterAcquire(pool)
            /\ Goto(t, "fill")
            /\ UNCHANGED <<db, entry, htVars, lruVars, idxVars, req, ret, phase>>

(* get_next_lru_queue_idx and set_all, on a node thought to be unlinked. *)
Fill(t) ==
  LET n == loc[t].slot
  IN /\ At(t, "fill")
     /\ entry' = [entry EXCEPT ![n] = SetAll(req[t], insertIdx)]
     /\ ht' = ForgetLinks(ht, n)
     /\ lru' = ForgetLinks(lru, n)
     /\ loc' = [loc EXCEPT ![t].queue = insertIdx, ![t].bucket = Bucket(t)]
     /\ insertIdx' = Stepped(insertIdx)
     /\ Goto(t, "publish")
     /\ UNCHANGED <<db, pool, htReaders, htWriter, lruOwner, evictIdx, req, ret, phase>>

LockForInsert(t) ==
  /\ At(t, "publish")
  /\ LockBucket(t, loc[t].bucket)
  /\ Goto(t, "insert")
  /\ UNCHANGED <<db, pool, entry, ht, lruVars, idxVars, req, ret, loc, phase>>

Insert(t) ==
  /\ At(t, "insert")
  /\ lruOwner[loc[t].queue] = NoThread
  /\ ht' = insert_to_head_HT(ht, loc[t].bucket, loc[t].slot)
  /\ lru' = insert_to_head_LRU(lru, loc[t].queue, loc[t].slot)
  /\ UnlockBucket(loc[t].bucket)
  /\ Finish(t, TRUE, IF req[t].op = "GET" THEN req[t].value ELSE NoValue)
  /\ UNCHANGED <<db, pool, entry, lruOwner, idxVars, phase>>

-----------------------------------------------------------------------------
(* cache_eviction                                                         *)

EvictBegin(t) ==
  /\ At(t, "evict")
  /\ loc' = [loc EXCEPT ![t].queue = evictIdx, ![t].scans = 0]
  /\ evictIdx' = Stepped(evictIdx)
  /\ Goto(t, "scan")
  /\ UNCHANGED <<db, pool, entry, htVars, lruVars, insertIdx, req, ret, phase>>

(* Heads are read without a lock. *)
ScanOn(t) ==
  /\ At(t, "scan")
  /\ lru.head[loc[t].queue] = Nil /\ loc[t].scans < TableLen
  /\ loc' = [loc EXCEPT ![t].queue = evictIdx, ![t].scans = @ + 1]
  /\ evictIdx' = Stepped(evictIdx)
  /\ UNCHANGED <<db, pool, entry, htVars, lruVars, insertIdx, pc, req, ret, phase>>

ScanFound(t) ==
  /\ At(t, "scan")
  /\ lru.head[loc[t].queue] # Nil
  /\ Goto(t, "peek")
  /\ UNCHANGED <<db, pool, entry, htVars, lruVars, idxVars, req, ret, loc, phase>>

(* Nothing to evict: nullptr is returned.  set_all dereferences it; for    *)
(* cache_clean it is the end of the loop, and the process exits.           *)
ScanNothing(t) ==
  /\ At(t, "scan")
  /\ lru.head[loc[t].queue] = Nil /\ loc[t].scans = TableLen
  /\ IF t = Main
       THEN /\ phase' = "stopped"
            /\ Goto(t, "idle")
            /\ loc' = [loc EXCEPT ![t] = NoLocals]
            /\ UNCHANGED <<db, pool, entry, htVars, lruVars, idxVars, req, ret>>
       ELSE Crash

(* The victim's bucket is read off the tail without a lock. *)
Peek(t) ==
  LET victim == lru.tail[loc[t].queue]
  IN /\ At(t, "peek")
     /\ IF victim = Nil
          THEN Crash
          ELSE /\ loc' = [loc EXCEPT ![t].bucket = BucketOf[entry[victim].key]]
               /\ Goto(t, "lockvictim")
               /\ UNCHANGED <<db, pool, entry, htVars, lruVars, idxVars, req, ret, phase>>

LockVictimBucket(t) ==
  /\ At(t, "lockvictim")
  /\ LockBucket(t, loc[t].bucket)
  /\ Goto(t, "unlink")
  /\ UNCHANGED <<db, pool, entry, ht, lruVars, idxVars, req, ret, loc, phase>>

(* The tail is read again under the locks, the bucket is not. *)
UnlinkVictim(t) ==
  LET q == loc[t].queue
      victim == lru.tail[q]
  IN /\ At(t, "unlink")
     /\ lruOwner[q] = NoThread
     /\ IF victim = Nil
          THEN Crash
          ELSE /\ lruOwner' = [lruOwner EXCEPT ![q] = t]
               /\ ht' = remove_from_dll_HT(ht, loc[t].bucket, victim)
               /\ lru' = remove_from_dll_LRU(lru, q, victim)
               /\ loc' = [loc EXCEPT ![t].slot = victim]
               /\ Goto(t, "writeback")
               /\ UNCHANGED <<db, pool, entry, htReaders, htWriter, idxVars, req, ret, phase>>

(* The victim is written to, or deleted from, the file with both locks     *)
(* held.  cache_clean then asks for the next one.                          *)
WriteBack(t) ==
  /\ At(t, "writeback")
  /\ db' = Flushed(db, entry[loc[t].slot])
  /\ UnlockBucket(loc[t].bucket)
  /\ lruOwner' = [lruOwner EXCEPT ![loc[t].queue] = NoThread]
  /\ Goto(t, IF t = Main THEN "evict" ELSE "fill")
  /\ UNCHANGED <<pool, entry, ht, lru, idxVars, req, ret, loc, phase>>

-----------------------------------------------------------------------------
(* The process.                                                           *)

(* The handler of SIGINT has locked every worker's mutex_serving_clients,  *)
(* so no worker is inside a call.                                          *)
StartCleaning ==
  /\ phase = "serving"
  /\ \A w \in Workers : pc[w] = "idle"
  /\ phase' = "cleaning"
  /\ Goto(Main, "evict")
  /\ UNCHANGED <<db, pool, entry, htVars, lruVars, idxVars, req, ret, loc>>

(* A new process is started on the files the last one left. *)
Restart == /\ phase \in {"stopped", "crashed"}
           /\ pool' = InitialPool
           /\ entry' = [n \in Node |-> BlankEntry]
           /\ ht' = EmptyLists(Buckets, Node)
           /\ lru' = EmptyLists(Queue, Node)
           /\ htReaders' = [b \in Buckets |-> {}]
           /\ htWriter' = [b \in Buckets |-> NoThread]
           /\ lruOwner' = [q \in Queue |-> NoThread]
           /\ insertIdx' = 0 /\ evictIdx' = 0
           /\ pc' = [t \in Threads |-> "idle"]
           /\ req' = [t \in Threads |-> NoMessage]
           /\ loc' = [t \in Threads |-> NoLocals]
           /\ phase' = "serving"
           /\ UNCHANGED <<db, ret>>

-----------------------------------------------------------------------------
Search(t)   == LockForSearch(t) \/ WalkOn(t)
Get(t)      == GetHit(t) \/ GetTouch(t) \/ GetMissFound(t) \/ GetMissAbsent(t)
Put(t)      == PutHit(t) \/ PutUpdate(t) \/ PutMiss(t)
Delete(t)   == DeleteHitDeleted(t) \/ DeleteHit(t) \/ DeleteMark(t) \/ DeleteMiss(t)
PutNew(t)   == NewEntry(t) \/ Acquire(t) \/ Fill(t) \/ LockForInsert(t) \/ Insert(t)
Eviction(t) == \/ EvictBegin(t) \/ ScanOn(t) \/ ScanFound(t) \/ ScanNothing(t)
               \/ Peek(t) \/ LockVictimBucket(t) \/ UnlinkVictim(t) \/ WriteBack(t)

(* What thread t does on its own, once it has a request or a signal. *)
Step(t) == \/ Search(t) \/ Get(t) \/ Put(t) \/ Delete(t) \/ Relock(t)
           \/ PutNew(t) \/ Eviction(t)

Next == \/ \E w \in Workers : \E r \in RequestsOf[w] : Begin(w, r)
        \/ \E t \in Threads : Step(t)
        \/ StartCleaning
        \/ Restart

Spec == Init /\ [][Next]_vars

(* The operating system runs every thread that can run. *)
Fairness == \A t \in Threads : WF_vars(Step(t))

FairSpec == Spec /\ Fairness
=============================================================================
