------------------------------- MODULE MCStore -------------------------------
(* One file with three keys in one slot: rings of every shape. *)
EXTENDS KVStoreViews

CONSTANTS w1, w2, k1, k2, k3, v1, v2

MCFileOf == [k \in Keys |-> 1]
MCSlotOf == [k \in Keys |-> 1]

(* Only k1 is ever given two different values; w2 only reads it. *)
MCRequestsOf ==
  [w \in Workers |->
     {r \in Requests : IF w = w1 THEN r.op = "PUT" /\ r.value = v2 => r.key = k1
                                 ELSE r.op = "GET" /\ r.key = k1}]
=============================================================================
