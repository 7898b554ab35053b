---------------------------- MODULE MCCacheEvict ----------------------------
(* Two workers with keys of their own, and a cache that is always full or  *)
(* about to be.  The second one also looks for k3, which nobody ever puts, *)
(* in the bucket of the first one's key.                                   *)
EXTENDS KVCacheLocks

CONSTANTS w1, w2, k1, k2, k3, v1

MCBucketOf == [k \in Keys \cup {NoKey} |-> IF k = k2 THEN 2 ELSE 1]
MCRequestsOf ==
  [w \in Workers |-> {r \in Requests : \/ w = w1 /\ r.key = k1
                                       \/ w = w2 /\ r.key = k2
                                       \/ w = w2 /\ r.key = k3 /\ r.op = "GET"}]
MCInitialDbs == {[k \in Keys |-> NoValue]}
=============================================================================
