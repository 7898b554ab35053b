---------------------------- MODULE AtomicCounter ----------------------------
(* A counter that hands out the numbers below NumQueues in turn, each at   *)
(* one instant: the "4 lines" with a mutex that KVCache.hpp (539-543) says *)
(* its round-robin counters work just like.                                *)
EXTENDS Naturals

CONSTANTS Callers, NumQueues

VARIABLES next,    \* the number to be handed out next
          taken    \* taken[t]: the last number t was handed

Init == next \in 0..NumQueues - 1 /\ taken \in [Callers -> 0..NumQueues - 1]

Take(t) == /\ taken' = [taken EXCEPT ![t] = next]
           /\ next' = (next + 1) % NumQueues

Next == \E t \in Callers : Take(t)

Spec == Init /\ [][Next]_<<next, taken>>
=============================================================================
