-------------------------- MODULE MCCacheDisjoint --------------------------
(* Two workers whose clients have keys of their own, and a cache smaller   *)
(* than what they use together.                                            *)
EXTENDS KVCacheLin

CONSTANTS w1, w2, k1, k2, k3, v1, v2

MCBucketOf == [k \in Keys \cup {NoKey} |-> IF k = k2 THEN 2 ELSE 1]
MCRequestsOf ==
  [w \in Workers |-> {r \in Requests : /\ (r.key = k1) = (w = w1)
                                       /\ r.op # "DELETE" /\ r.value # v2}]
MCInitialDbs == {[k \in Keys |-> NoValue]}
=============================================================================
