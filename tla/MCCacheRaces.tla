---------------------------- MODULE MCCacheRaces ----------------------------
(* Two workers that put one key, and a cache without room for both. *)
EXTENDS KVCacheViews

CONSTANTS w1, w2, k1, v1, v2

MCBucketOf == [k \in Keys \cup {NoKey} |-> 1]
MCRequestsOf == [w \in Workers |-> {r \in Requests : r.op = "PUT"}]
MCInitialDbs == {[k \in Keys |-> NoValue]}
=============================================================================
