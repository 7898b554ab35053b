----------------------------- MODULE MCService -----------------------------
(***************************************************************************)
(* Up to three clients of one server.  k1x is k1 with a byte behind its    *)
(* first zero, blank the key of 256 zeros.                                  *)
(***************************************************************************)
EXTENDS KVService

CONSTANTS c1, c2, c3, k1, k2, k1x, blank, v1, v2

Get(k)    == [op |-> "GET", key |-> k, value |-> NoValue]
Put(k, v) == [op |-> "PUT", key |-> k, value |-> v]
Delete(k) == [op |-> "DELETE", key |-> k, value |-> NoValue]

MCNulled == [k \in Keys |-> IF k = k1x THEN k1 ELSE k]

(* Keys of their own, as auto_testing needs them. *)
OwnKeys == [c \in Clients |-> IF c = c1 THEN {Put(k1, v1), Get(k1x), Delete(k1)}
                                        ELSE {Put(k2, v2), Get(k2)}]
OnlyGets == [c \in Clients |-> {Get(k1)}]

ASSUME ClientsAreTesters == KeysOfTheirOwn

TwoEach    == [c \in Clients |-> 2]
OneOrTwo   == [c \in Clients |-> IF c = c1 THEN 1 ELSE 2]
NeverAsked == [c \in Clients |-> 0]

MainAndWorker == {Main, 1}
=============================================================================
