---------------------------- MODULE KVCacheViews ----------------------------
(***************************************************************************)
(* What the state of the cache means: which value the server would answer  *)
(* for a key, and where every node is.                                     *)
(***************************************************************************)
EXTENDS KVCache, SequencesExt

NodeCount == MaxBlocks * BlockSize

Answering(t) == pc[t] # "idle" /\ pc'[t] = "idle"

-----------------------------------------------------------------------------
(* The value the server answers for k: that of the first node of k's       *)
(* bucket that holds k, of a victim on its way to the file, or of the file.*)

InBucket(b) == Members(ht, b, NodeCount)
InQueue(q)  == Members(lru, q, NodeCount)

ValueIn(n) == IF entry[n].dirty = "TODELETE" THEN NoValue ELSE entry[n].value

Visible(k) ==
  LET walk    == Walk(ht, BucketOf[k], NodeCount)
      hits    == {i \in 0..NodeCount : walk[i] # Nil /\ entry[walk[i]].key = k}
      victims == {loc[t].slot : t \in {t \in Threads : pc[t] = "writeback"}}
      leaving == {n \in victims : entry[n].key = k}
  IN IF phase \in {"stopped", "crashed"} THEN db[k]
     ELSE CASE hits # {} -> ValueIn(walk[CHOOSE i \in hits : \A j \in hits : i <= j])
            [] hits = {} /\ leaving # {} -> ValueIn(CHOOSE n \in leaving : TRUE)
            [] OTHER -> db[k]

(* The call of a worker as its client sees it. *)
CallOf(w) == IF pc[w] = "idle" THEN ret[w]
             ELSE [req[w] EXCEPT !.value = IF req[w].op = "PUT" THEN @ ELSE NoValue]

Map == INSTANCE KVMap WITH Clients <- Workers,
                           dict <- [k \in Keys |-> Visible(k)],
                           call <- [w \in Workers |-> CallOf(w)]

(* The cache, the eviction and the files together are one map on which     *)
(* every request takes effect at one instant; evictions, shutting down     *)
(* cleanly and starting again change nothing a client can see.             *)
ImplementsMap == Map!Spec

(* Calls that do not overlap: no two workers are inside one.  One worker   *)
(* alone never does otherwise.                                             *)
OneAtATime == \A v, w \in Workers : pc[v] # "idle" /\ pc[w] # "idle" => v = w

-----------------------------------------------------------------------------
Evicted == {loc[t].slot : t \in Threads} \ {Nil}

(* Whenever no thread is inside a critical section of theirs, every bucket *)
(* and every LRU queue is a proper list: it ends, its backward links       *)
(* mirror the forward ones, and its tail is its last node.                 *)
ListsProper ==
  /\ \A b \in Buckets : ProperList(ht, b, NodeCount)
  /\ \A q \in Queue : ProperList(lru, q, NodeCount)

(* While the server runs, every node of the pool is at exactly one place:  *)
(* linked in the bucket of its key and in the LRU queue it remembers, or   *)
(* free, or in the hands of one thread.  None is lost by an eviction and   *)
(* none is handed out twice.                                               *)
NodesAccounted ==
  LET linked == UNION {InBucket(b) : b \in Buckets}
      queued == UNION {InQueue(q) : q \in Queue}
      free   == Range(pool.free)
  IN phase = "serving" =>
     /\ linked = queued
     /\ linked \cap free = {}
     /\ \A t \in Threads : loc[t].slot \notin linked \cup free
     /\ \A s, t \in Threads : s # t /\ loc[s].slot # Nil => loc[s].slot # loc[t].slot
     /\ Cardinality(linked) + Len(pool.free) + Cardinality(Evicted) = pool.blocks * BlockSize
     /\ \A b \in Buckets : \A n \in InBucket(b) :
          BucketOf[entry[n].key] = b /\ n \in InQueue(entry[n].lruIdx)

(* No two nodes of a bucket hold the same key, deleted entries included:   *)
(* the search that stops at the first match sees all there is.             *)
OneNodePerKey ==
  \A b \in Buckets : \A m, n \in InBucket(b) :
     m # n => entry[m].key # entry[n].key

-----------------------------------------------------------------------------
(* A worker that asks cache_eviction for a node gets one: no null pointer  *)
(* is ever dereferenced.                                                   *)
NeverCrashes == phase # "crashed"

(* cache_clean writes what the cache holds: no step of it changes the      *)
(* value of a key, and what it leaves in the files is what was last put.   *)
CleaningKeepsValues ==
  [][phase = "cleaning" => \A k \in Keys : Visible(k)' = Visible(k)]_vars

(* However calls overlapped before, a step of cache_clean changes the      *)
(* value of a key only while the key has two nodes: it evicts in the order *)
(* of the LRU queues (KVCache.hpp:480-493), searches go by the bucket.     *)
CleaningKeepsSingles ==
  [][\A k \in Keys :
       phase = "cleaning"
         /\ Cardinality({n \in UNION {InBucket(b) : b \in Buckets} : entry[n].key = k}) <= 1
         => Visible(k)' = Visible(k)]_vars

-----------------------------------------------------------------------------
(* Every request a worker has taken is answered, through misses, evictions *)
(* and writes to the file.                                                 *)
EveryRequestAnswered == \A w \in Workers : pc[w] # "idle" ~> pc[w] = "idle"

(* cache_clean empties the cache in the end, and the process stops. *)
CleaningEnds == phase = "cleaning" ~> phase = "stopped"
=============================================================================
