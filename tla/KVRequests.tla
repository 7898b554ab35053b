----------------------------- MODULE KVRequests -----------------------------
(***************************************************************************)
(* The requests clients send, the answers they get, and what a request     *)
(* means on a map from keys to values.  A request is the KVMessage of a    *)
(* client: an operation code, a key and, for PUT, a value.                 *)
(***************************************************************************)
CONSTANTS Keys, Values,
          NoValue        \* the "value" of a key that is absent

ASSUME ValueAssumption == NoValue \notin Values

MaybeValue == Values \cup {NoValue}

(* GET and DELETE carry no value. *)
Requests == [op : {"GET", "DELETE"}, key : Keys, value : {NoValue}]
              \cup [op : {"PUT"}, key : Keys, value : Values]

Answers == [ok : BOOLEAN, value : MaybeValue]

Answer(ok, v) == [ok |-> ok, value |-> v]

(* The map after request r, and what r answers, on map d. *)
Effect(d, r) ==
  [d EXCEPT ![r.key] = CASE r.op = "GET"    -> @
                         [] r.op = "PUT"    -> r.value
                         [] r.op = "DELETE" -> NoValue]

Outcome(d, r) ==
  CASE r.op = "GET"    -> Answer(d[r.key] # NoValue, d[r.key])
    [] r.op = "PUT"    -> Answer(TRUE, NoValue)
    [] r.op = "DELETE" -> Answer(d[r.key] # NoValue, NoValue)
=============================================================================
