----------------------------- MODULE KVCacheLRU -----------------------------
(***************************************************************************)
(* The order of use an LRU cache has to keep.  `recency` is a history      *)
(* variable: the pairs of keys of which the first was used after the       *)
(* second, as the answers of a server with one call at a time show them.   *)
(***************************************************************************)
EXTENDS KVCacheViews

VARIABLE recency

(* A DELETE that answers "not found" is the one answer that uses no entry. *)
UsesEntry(t) == ~(req[t].op = "DELETE" /\ ~ret'[t].ok)

(* The keys that this step's answers use. *)
UsedKeys == {req[w].key : w \in {w \in Workers : Answering(w) /\ UsesEntry(w)}}

(* The keys of U are used now, after all others. *)
After(U, r) == {p \in r : p[2] \notin U} \cup (U \X (Keys \ U))

RecencyNext == recency' = IF phase = "stopped" THEN {} ELSE After(UsedKeys, recency)

LRUSpec == /\ Init /\ recency = {}
           /\ [][Next /\ RecencyNext]_<<vars, recency>>
           /\ Fairness

-----------------------------------------------------------------------------
(* Every LRU queue lists its keys in the order in which the clients last   *)
(* used them, also in the middle of a call: what cache_eviction takes from *)
(* the tail is the least recently used key of the queue.                   *)
InOrderOfUse ==
  \A q \in Queue :
    LET walk == Walk(lru, q, NodeCount)
    IN \A i, j \in 0..NodeCount :
         i < j /\ walk[j] # Nil => <<entry[walk[i]].key, entry[walk[j]].key>> \in recency
=============================================================================
