---------------------------- MODULE MCCacheSeq ----------------------------
(* One worker, more keys than nodes: every call may have to evict. *)
EXTENDS KVCacheLRU

CONSTANTS w1, k1, k2, k3, v1, v2

MCBucketOf == [k \in Keys \cup {NoKey} |-> IF k = k2 THEN 2 ELSE 1]

(* Only k1 is ever given two different values. *)
MCRequestsOf ==
  [w \in Workers |-> {r \in Requests : r.op = "PUT" /\ r.value = v2 => r.key = k1}]

MCInitialDbs == {[k \in Keys |-> NoValue]}
=============================================================================
