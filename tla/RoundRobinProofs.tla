--------------------------- MODULE RoundRobinProofs ---------------------------
(***************************************************************************)
(* For any number of threads and queues: the counter of RoundRobin stays   *)
(* small, because every caller raises it once and the last exchange of any *)
(* group of callers brings it down; and so it is, modulo the number of     *)
(* queues, the counter under a mutex of AtomicCounter.                     *)
(***************************************************************************)
EXTENDS RoundRobin, FiniteSetTheorems, TLAPS

LEMMA ModInRange == ASSUME NEW n \in Nat \ {0}, NEW c \in Nat PROVE c % n \in 0..n - 1
OBVIOUS

LEMMA ModOfSmall == ASSUME NEW n \in Nat, NEW c \in Nat, c < n PROVE c % n = c
OBVIOUS

LEMMA ModTwice == ASSUME NEW n \in Nat \ {0}, NEW c \in Nat PROVE (c % n) % n = c % n
<1>1. c % n \in Nat /\ c % n < n
      BY ModInRange
<1> QED BY <1>1, ModOfSmall

(* Counting on modulo n only needs what was counted modulo n. *)
LEMMA ModOfNext ==
  ASSUME NEW n \in Nat \ {0}, NEW c \in Nat
  PROVE  (c + 1) % n = ((c % n) + 1) % n
<1> DEFINE q == c \div n
           r == c % n
<1>1. q \in Nat /\ r \in 0..n - 1 /\ c = n * q + r
      OBVIOUS
<1> HIDE DEF q, r
<1>2. \A k \in Nat, i \in 0..n - 1 : (n * k + i) % n = i
      OBVIOUS
<1>3. CASE r + 1 < n
      <2>1. c + 1 = n * q + (r + 1) /\ r + 1 \in 0..n - 1
            BY <1>1, <1>3
      <2>2. (c + 1) % n = r + 1
            BY <1>1, <1>2, <2>1
      <2>3. (r + 1) % n = r + 1
            BY <1>1, <1>3, ModOfSmall
      <2> QED BY <2>2, <2>3 DEF r
<1>4. CASE r + 1 = n
      <2>1. c + 1 = n * (q + 1) + 0
            BY <1>1, <1>4
      <2>2. (c + 1) % n = 0
            BY <1>1, <1>2, <2>1
      <2>3. (r + 1) % n = 0
            BY <1>4
      <2> QED BY <2>2, <2>3 DEF r
<1> QED BY <1>1, <1>3, <1>4

-----------------------------------------------------------------------------
(* The counter is below the number of queues, but for the callers that     *)
(* have incremented it and not returned.                                   *)
Low == /\ counter \in Nat
       /\ counter < NumQueues + Cardinality(Active)
       /\ pc \in [Callers -> {"idle", "load", "exchange"}]
       /\ id \in [Callers -> 0..NumQueues - 1]
       /\ oldValue \in [Callers -> Nat]

LEMMA ActiveFinite ==
  CounterAssumption => /\ IsFiniteSet(Active) /\ Cardinality(Active) \in Nat
                       /\ Cardinality(Callers) \in Nat
                       /\ Cardinality(Active) <= Cardinality(Callers)
BY FS_Subset, FS_CardinalityType DEF CounterAssumption, Active

LEMMA LowInit == CounterAssumption /\ Init => Low
<1> SUFFICES ASSUME CounterAssumption, Init PROVE Low
    OBVIOUS
<1>1. Cardinality(Active) = 0
      BY FS_EmptySet DEF Init, Active
<1> QED BY <1>1 DEF Init, Low, CounterAssumption

LEMMA LowIncrement ==
  ASSUME CounterAssumption, Low, NEW t \in Callers, Increment(t)
  PROVE  Low' /\ counter' = counter + 1
<1>1. Active' = Active \cup {t} /\ t \notin Active
      BY DEF Increment, Active, Low
<1>2. Cardinality(Active') = Cardinality(Active) + 1
      BY <1>1, ActiveFinite, FS_AddElement
<1>3. Cardinality(Active') <= Cardinality(Callers)
      <2>1. Active' \subseteq Callers
            BY DEF Active
      <2> QED BY <2>1, FS_Subset DEF CounterAssumption
<1>4. counter + 1 < Wrap
      BY <1>2, <1>3, ActiveFinite DEF Low, CounterAssumption
<1>5. counter' = counter + 1
      BY <1>4, ModOfSmall DEF Increment, Low, CounterAssumption
<1>6. id' \in [Callers -> 0..NumQueues - 1]
      BY ModInRange DEF Increment, Low, CounterAssumption
<1>7. pc' \in [Callers -> {"idle", "load", "exchange"}] /\ oldValue' = oldValue
      BY DEF Increment, Low
<1> QED BY <1>2, <1>5, <1>6, <1>7, ActiveFinite DEF Low, CounterAssumption

LEMMA LowLook ==
  ASSUME CounterAssumption, Low, NEW t \in Callers, Load(t) \/ ExchangeFails(t)
  PROVE  Low'
<1>1. Active' = Active
      BY DEF Load, ExchangeFails, Active, Low
<1>2. counter' = counter /\ id' = id /\ oldValue' = [oldValue EXCEPT ![t] = counter]
      BY DEF Load, ExchangeFails
<1>3. pc' \in [Callers -> {"idle", "load", "exchange"}]
      BY DEF Load, ExchangeFails, Low
<1> QED BY <1>1, <1>2, <1>3 DEF Low

LEMMA LowExchange ==
  ASSUME CounterAssumption, Low, NEW t \in Callers, Exchange(t)
  PROVE  Low' /\ counter' = counter % NumQueues
<1>1. counter' = counter % NumQueues /\ counter' \in 0..NumQueues - 1
      BY ModInRange DEF Exchange, Low, CounterAssumption
<1>2. Cardinality(Active') \in Nat
      <2>1. Active' \subseteq Callers
            BY DEF Active
      <2> QED BY <2>1, FS_Subset, FS_CardinalityType DEF CounterAssumption
<1>3. pc' \in [Callers -> {"idle", "load", "exchange"}] /\ UNCHANGED <<id, oldValue>>
      BY DEF Exchange, Low
<1> QED BY <1>1, <1>2, <1>3 DEF Low, CounterAssumption

LEMMA LowNext == CounterAssumption /\ Low /\ [Next]_vars => Low'
<1> SUFFICES ASSUME CounterAssumption, Low, [Next]_vars PROVE Low'
    OBVIOUS
<1>1. CASE UNCHANGED vars
      BY <1>1 DEF Low, Active, vars
<1> QED BY <1>1, LowIncrement, LowLook, LowExchange DEF Next

(* The counter never comes near 2^64, so its increment never wraps,        *)
(* whatever exchanges fail and in whatever order the threads run.          *)
THEOREM CounterNeverWraps == ASSUME CounterAssumption PROVE Spec => []NeverWraps
<1>1. Low => NeverWraps
      BY ActiveFinite DEF Low, NeverWraps, CounterAssumption
<1>2. Init => Low
      BY LowInit
<1>3. Low /\ [Next]_vars => Low'
      BY LowNext
<1> QED BY <1>1, <1>2, <1>3, PTL DEF Spec

-----------------------------------------------------------------------------
LEMMA StartsInTurn == CounterAssumption /\ Init => Atomic!Init
<1> SUFFICES ASSUME CounterAssumption, Init PROVE Atomic!Init
    OBVIOUS
<1>1. counter % NumQueues \in 0..NumQueues - 1 /\ 0 \in 0..NumQueues - 1
      BY ModInRange DEF Init, CounterAssumption
<1> QED BY <1>1 DEF Init, Atomic!Init

LEMMA StepsInTurn ==
  CounterAssumption /\ Low /\ [Next]_vars => [Atomic!Next]_<<counter % NumQueues, id>>
<1> SUFFICES ASSUME CounterAssumption, Low, [Next]_vars
             PROVE  Atomic!Next \/ UNCHANGED <<counter % NumQueues, id>>
    OBVIOUS
<1>1. ASSUME NEW t \in Callers, Increment(t) PROVE Atomic!Next
      <2>1. counter' % NumQueues = ((counter % NumQueues) + 1) % NumQueues
            BY <1>1, LowIncrement, ModOfNext DEF Low, CounterAssumption
      <2>2. Atomic!Take(t)
            BY <1>1, <2>1 DEF Increment, Atomic!Take
      <2> QED BY <2>2 DEF Atomic!Next
<1>2. ASSUME NEW t \in Callers, Exchange(t) PROVE UNCHANGED <<counter % NumQueues, id>>
      BY <1>2, LowExchange, ModTwice DEF Exchange, Low, CounterAssumption
<1>3. ASSUME NEW t \in Callers, Load(t) \/ ExchangeFails(t)
      PROVE  UNCHANGED <<counter % NumQueues, id>>
      BY <1>3 DEF Load, ExchangeFails
<1>4. CASE UNCHANGED vars
      BY <1>4 DEF vars
<1> QED BY <1>1, <1>2, <1>3, <1>4 DEF Next

(* The counter without a lock works just like the four lines with a mutex  *)
(* of its comment: it implements AtomicCounter, the increment being the    *)
(* instant at which the index is handed out.                               *)
THEOREM WorksLikeTheMutex == ASSUME CounterAssumption PROVE Spec => HandsOutInTurn
<1>1. Init => Low /\ Atomic!Init
      BY LowInit, StartsInTurn
<1>2. Low /\ [Next]_vars => Low' /\ [Atomic!Next]_<<counter % NumQueues, id>>
      BY LowNext, StepsInTurn
<1> QED BY <1>1, <1>2, PTL DEF Spec, HandsOutInTurn, Atomic!Spec
=============================================================================
