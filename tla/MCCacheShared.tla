--------------------------- MODULE MCCacheShared ---------------------------
(* Two workers on one key, which the file may hold, and room for every     *)
(* node they can ask for.                                                  *)
EXTENDS KVCacheLin

CONSTANTS w1, w2, k1, v1, v2

MCBucketOf == [k \in Keys \cup {NoKey} |-> 1]

(* Each worker puts a value of its own; the file holds that of w1. *)
MCRequestsOf ==
  [w \in Workers |->
     {r \in Requests : r.op = "PUT" => r.value = (IF w = w1 THEN v1 ELSE v2)}]
MCInitialDbs == [Keys -> {NoValue, v1}]
=============================================================================
