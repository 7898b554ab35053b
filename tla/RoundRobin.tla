------------------------------ MODULE RoundRobin ------------------------------
(***************************************************************************)
(* One of the two round-robin counters of the cache, lruEvictionIdx and    *)
(* lruTableInsertIdx (KVCache.hpp, 534-595): an atomic number, without a   *)
(* lock, that any number of threads increment and then try to bring back   *)
(* below the number of queues by compare-and-swap.                         *)
(***************************************************************************)
EXTENDS Naturals, FiniteSets

CONSTANTS Callers,     \* the threads that take an index
          NumQueues,   \* lruEvictionTable.size()
          Wrap         \* 2^64: the counter counts modulo Wrap

(* There is a queue, and queues and threads together are less than 2^64. *)
CounterAssumption ==
  /\ NumQueues \in Nat \ {0} /\ Wrap \in Nat
  /\ IsFiniteSet(Callers) /\ NumQueues + Cardinality(Callers) <= Wrap

VARIABLES counter,     \* the atomic number
          pc,          \* place of each caller
          id,          \* the index it returns, or has returned last
          oldValue     \* what it expects to find when it exchanges

vars == <<counter, pc, id, oldValue>>

Init == /\ counter = 0
        /\ pc = [t \in Callers |-> "idle"]
        /\ id = [t \in Callers |-> 0]
        /\ oldValue = [t \in Callers |-> 0]

(* counter++: the index is what was there before. *)
Increment(t) ==
  /\ pc[t] = "idle"
  /\ counter' = (counter + 1) % Wrap
  /\ id' = [id EXCEPT ![t] = counter % NumQueues]
  /\ pc' = [pc EXCEPT ![t] = "load"]
  /\ UNCHANGED oldValue

Load(t) ==
  /\ pc[t] = "load"
  /\ oldValue' = [oldValue EXCEPT ![t] = counter]
  /\ pc' = [pc EXCEPT ![t] = "exchange"]
  /\ UNCHANGED <<counter, id>>

(* The counter is what it was at the last look, perhaps again: it is taken *)
(* modulo the number of queues, and the function returns.                  *)
Exchange(t) ==
  /\ pc[t] = "exchange"
  /\ counter = oldValue[t]
  /\ counter' = oldValue[t] % NumQueues
  /\ pc' = [pc EXCEPT ![t] = "idle"]
  /\ UNCHANGED <<id, oldValue>>

(* It is not, or the weak exchange fails without a reason: look again. *)
ExchangeFails(t) ==
  /\ pc[t] = "exchange"
  /\ oldValue' = [oldValue EXCEPT ![t] = counter]
  /\ UNCHANGED <<counter, pc, id>>

Next == \E t \in Callers : Increment(t) \/ Load(t) \/ Exchange(t) \/ ExchangeFails(t)

Spec == Init /\ [][Next]_vars

-----------------------------------------------------------------------------
(* Between its increment and its exchange a caller may have raised the     *)
(* counter by one, and by no more.                                         *)
Active == {t \in Callers : pc[t] # "idle"}

(* "If size could wrap" (KVCache.hpp, 558): it cannot.  The counter stays  *)
(* below the number of queues and threads, whatever exchanges fail, so     *)
(* that counting modulo 2^64 never breaks the turn.                        *)
NeverWraps == counter < NumQueues + Cardinality(Callers)

(* Callers are handed the indices in turn, as under a mutex. *)
Atomic == INSTANCE AtomicCounter WITH next <- counter % NumQueues, taken <- id
HandsOutInTurn == Atomic!Spec
=============================================================================
