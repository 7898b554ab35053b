----------------------------- MODULE KVCacheLin -----------------------------
(***************************************************************************)
(* Whether the answers of concurrent calls can be explained by KVMap.      *)
(* `worlds` is a history variable that follows requests and answers alone. *)
(* A world is a map, the workers whose request still waits to take effect  *)
(* on it, and the answers given to the others; worlds holds every one that *)
(* agrees with all the answers so far.  When none is left, no order of the *)
(* requests explains them.  `outdated` remembers that a GET has filled the *)
(* cache late.                                                             *)
(***************************************************************************)
EXTENDS KVCacheViews

VARIABLES worlds, outdated

(* A GET puts what it read from the file into the cache although another   *)
(* call has come in between: the key has a node already, or the file holds *)
(* another value by now.                                                   *)
LateFill(t) ==
  /\ pc[t] = "insert" /\ pc'[t] # "insert" /\ req[t].op = "GET"
  /\ \/ \E n \in InBucket(loc[t].bucket) : entry[n].key = req[t].key
     \/ db[req[t].key] # req[t].value

(* In world v, the waiting request of w takes effect. *)
TakesEffect(v, w) ==
  [dict  |-> Effect(v.dict, CallOf(w)),
   waits |-> v.waits \ {w},
   given |-> [v.given EXCEPT ![w] = Outcome(v.dict, CallOf(w))]]

OneMore(vs) == vs \cup UNION {{TakesEffect(v, w) : w \in v.waits} : v \in vs}

(* The worlds after any of the waiting requests took effect in any order. *)
Unfolded(vs) ==
  LET upto[n \in 0..Cardinality(Workers)] ==
        IF n = 0 THEN vs ELSE OneMore(upto[n - 1])
  IN upto[Cardinality(Workers)]

Entering(w) == pc[w] = "idle" /\ pc'[w] # "idle"

(* Before the first request nothing but what the files hold is known. *)
WorldsOf(d) == {[dict |-> d, waits |-> {}, given |-> [w \in Workers |-> NoAnswer]]}

(* The worlds change when a worker takes a request and when it answers.    *)
(* Every process is judged on its own, by what it finds in the files.      *)
WorldsNext ==
  worlds' =
    CASE Restart -> WorldsOf(db)
      [] \E w \in Workers : Entering(w) ->
           LET w == CHOOSE w \in Workers : Entering(w)
           IN {[v EXCEPT !.waits = @ \cup {w}] : v \in worlds}
      [] \E w \in Workers : Answering(w) ->
           LET w == CHOOSE w \in Workers : Answering(w)
               agreeing == {v \in Unfolded(worlds) :
                              w \notin v.waits /\ v.given[w] = ret'[w]}
           IN {[v EXCEPT !.given[w] = NoAnswer] : v \in agreeing}
      [] OTHER -> worlds

OutdatedNext ==
  outdated' = (~Restart /\ (outdated \/ \E w \in Workers : LateFill(w)))

(* The cache with the history of its answers. *)
LinSpec ==
  /\ Init /\ worlds = WorldsOf(db) /\ outdated = FALSE
  /\ [][Next /\ WorldsNext /\ OutdatedNext]_<<vars, worlds, outdated>>

-----------------------------------------------------------------------------
(* The answers of all clients are those of one map on which every request  *)
(* took effect at some instant between its arrival and its answer: a true  *)
(* GET found the key "present in Cache or Persistent Storage", a false one *)
(* did not (KVCache.hpp:160-162).                                          *)
Linearizable == worlds # {}

(* While nothing is evicted, one thing alone can make them otherwise: a    *)
(* GET that has read the file and given its bucket back (KVCache.hpp:204,  *)
(* 206) inserts what it read behind another call's back (239).  Two nodes  *)
(* of one key, as two PUTs or a PUT and a GET leave them, do not.          *)
LinearizableUntilLate == outdated \/ Linearizable
=============================================================================
