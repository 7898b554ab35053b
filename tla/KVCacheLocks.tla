---------------------------- MODULE KVCacheLocks ----------------------------
(***************************************************************************)
(* What the locks of the cache guarantee, whatever the threads do to the   *)
(* lists.  These properties hold for every number of threads, nodes,       *)
(* buckets and queues; KVCacheProofs proves them.                          *)
(***************************************************************************)
EXTENDS KVCache

Places == {"idle", "lookup", "walk", "touch", "relock", "update", "new", "acquire",
           "fill", "publish", "insert", "evict", "scan", "peek", "lockvictim",
           "unlink", "writeback"}

Messages == {NoMessage} \cup [op : {"GET", "PUT", "DELETE"}, key : Keys, value : MaybeValue]

Locals == [node : Node \cup {Nil}, slot : Node \cup {Nil}, bucket : Buckets,
           queue : Queue, scans : 0..TableLen]

(* Every variable holds what its declaration in the source can hold; in    *)
(* particular a counter taken modulo the number of queues is an index of   *)
(* one, and no thread outruns the bound of the victim scan.                *)
TypeOK ==
  /\ db \in [Keys -> MaybeValue]
  /\ pool \in Pools
  /\ entry \in [Node -> Entries]
  /\ ht \in ListFamily(Buckets, Node)
  /\ lru \in ListFamily(Queue, Node)
  /\ htReaders \in [Buckets -> SUBSET Threads]
  /\ htWriter \in [Buckets -> Threads \cup {NoThread}]
  /\ lruOwner \in [Queue -> Threads \cup {NoThread}]
  /\ insertIdx \in Queue /\ evictIdx \in Queue
  /\ pc \in [Threads -> Places]
  /\ req \in [Threads -> Messages]
  /\ ret \in [Threads -> Answers]
  /\ loc \in [Threads -> Locals]
  /\ phase \in {"serving", "cleaning", "stopped", "crashed"}

-----------------------------------------------------------------------------
(* Where a thread holds what. *)
Sharing == {"walk", "touch"}
Owning  == {"update", "insert", "unlink", "writeback"}

Reads(t, b)  == pc[t] \in Sharing /\ loc[t].bucket = b
Writes(t, b) == pc[t] \in Owning /\ loc[t].bucket = b
Evicts(t, q) == pc[t] = "writeback" /\ loc[t].queue = q

(* No thread is inside a bucket's exclusive section while another is       *)
(* inside any section of that bucket, and no two victims of one LRU queue  *)
(* are on their way to the file at once.                                   *)
MutualExclusion ==
  \A s, t \in Threads : s # t =>
    /\ \A b \in Buckets : Writes(s, b) => ~Writes(t, b) /\ ~Reads(t, b)
    /\ \A q \in Queue : ~(Evicts(s, q) /\ Evicts(t, q))

(* The locks are held by exactly the threads that are at a place where the *)
(* code holds them: no return path keeps one, none releases another's.     *)
LocksMatchPlaces ==
  /\ \A b \in Buckets : htReaders[b] = {t \in Threads : Reads(t, b)}
  /\ \A b \in Buckets, t \in Threads : htWriter[b] = t <=> Writes(t, b)
  /\ \A q \in Queue, t \in Threads : lruOwner[q] = t <=> Evicts(t, q)

NoReaderBesideWriter ==
  \A b \in Buckets : htWriter[b] # NoThread => htReaders[b] = {}

(* Until the signal, the thread that will clean does nothing. *)
MainWaits == phase = "serving" => pc[Main] = "idle"

(* Where the code follows cacheNodeIter or new_cacheNode without a test    *)
(* there is a node to follow, and a thread in a search has a request.      *)
PointersHeld ==
  \A t \in Threads :
    /\ pc[t] \in {"touch", "relock", "update"} => loc[t].node # Nil
    /\ pc[t] \in {"fill", "publish", "insert", "writeback"} => loc[t].slot # Nil

(* The inductive invariant behind MutualExclusion and NoLockDeadlock. *)
LockInv == TypeOK /\ PointersHeld /\ LocksMatchPlaces /\ NoReaderBesideWriter /\ MainWaits

-----------------------------------------------------------------------------
Busy(t) == pc[t] # "idle"

(* The thread waits for a lock another thread has. *)
Blocked(t) ==
  CASE pc[t] = "lookup" -> htWriter[Bucket(t)] # NoThread
    [] pc[t] \in {"relock", "publish", "lockvictim"} -> ~Unlocked(loc[t].bucket)
    [] pc[t] \in {"touch", "update", "insert", "unlink"} ->
         lruOwner[loc[t].queue] # NoThread
    [] OTHER -> FALSE

(* While any thread is inside a call, one of them waits for no lock: the   *)
(* order bucket, LRU queue, file in which every path takes its locks, and  *)
(* never a bucket under another lock, cannot close a circle.               *)
NoLockDeadlock == (\E t \in Threads : Busy(t)) => \E t \in Threads : Busy(t) /\ ~Blocked(t)

(* Blocked is what it says: a thread inside a call of a process that is    *)
(* alive either waits for a lock or can go on.                             *)
OnlyLocksBlock ==
  \A t \in Threads :
    Busy(t) /\ phase = (IF t = Main THEN "cleaning" ELSE "serving")
       => (ENABLED Step(t) <=> ~Blocked(t))

-----------------------------------------------------------------------------
(* No node the lists or a search lead to is ever marked NOT_IN_CACHE: an   *)
(* evicted node keeps its mark until it is filled again.  The tests of     *)
(* that mark at KVCache.hpp:272, 345, 369 and 419, which are there to      *)
(* notice an eviction between two locks, cannot succeed.                   *)
InUse == {n \in Node : entry[n].dirty # "NOT_IN_CACHE"}

NeverMarkedOut ==
  /\ \A t \in Threads : loc[t].node # Nil => loc[t].node \in InUse
  /\ \A q \in Queue : lru.tail[q] # Nil => lru.tail[q] \in InUse

(* After the second lock, cache_PUT and cache_DELETE write to the entry of *)
(* the key they were asked for: what the tests of the mark are there for.  *)
UpdatesOwnEntry ==
  \A t \in Threads : pc[t] = "update" => entry[loc[t].node].key = req[t].key

(* While a process lives, the first node of a bucket only ever changes by  *)
(* a step of the thread that holds the bucket exclusively.                 *)
HeadsGuarded ==
  [][\A b \in Buckets :
       ht'.head[b] # ht.head[b] /\ phase \in {"serving", "cleaning"}
         => \E t \in Threads : htWriter[b] = t /\ pc'[t] # pc[t]]_vars
=============================================================================
