----------------------------- MODULE MCStoreBits -----------------------------
(* Two files whose bits are in one word, and a thread for each of them. *)
EXTENDS KVStoreViews

CONSTANTS w1, w2, k1, k2, v1

MCFileOf == [k \in Keys |-> IF k = k1 THEN 1 ELSE 2]
MCSlotOf == [k \in Keys |-> 1]
MCRequestsOf ==
  [w \in Workers |-> {r \in Requests : r.key = IF w = w1 THEN k1 ELSE k2}]
=============================================================================
