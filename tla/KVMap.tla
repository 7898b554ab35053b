------------------------------- MODULE KVMap -------------------------------
(***************************************************************************)
(* What the server promises its clients: one map from keys to values, and  *)
(* GET, PUT and DELETE that take effect on it at one instant between the   *)
(* request and its answer.  cache_GET, cache_PUT and cache_DELETE in       *)
(* KVCache.hpp are meant to implement this module.                         *)
(***************************************************************************)
EXTENDS KVRequests

CONSTANTS Clients,       \* who sends requests, one at a time each
          RequestsOf     \* RequestsOf[c]: the requests c may send

VARIABLES dict,          \* the map
          call           \* call[c]: the pending request, or the last answer

vars == <<dict, call>>

Init == /\ dict \in [Keys -> MaybeValue]
        /\ call = [c \in Clients |-> Answer(FALSE, NoValue)]

Send(c, r) == /\ call[c] \in Answers
              /\ call' = [call EXCEPT ![c] = r]
              /\ UNCHANGED dict

Serve(c) == /\ call[c] \in Requests
            /\ dict' = Effect(dict, call[c])
            /\ call' = [call EXCEPT ![c] = Outcome(dict, call[c])]

Next == \E c \in Clients : Serve(c) \/ \E r \in RequestsOf[c] : Send(c, r)

Spec == Init /\ [][Next]_vars
=============================================================================
