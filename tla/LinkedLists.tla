---------------------------- MODULE LinkedLists ----------------------------
(***************************************************************************)
(* The doubly linked, non circular lists of KVCache.hpp, pointer by        *)
(* pointer.  The cache threads every node onto two families of lists: the  *)
(* bucket lists of the hash table (l1_left, l1_right) and the LRU queues   *)
(* (l2_prev, l2_next).  Both families are handled by the same code, so one *)
(* record stands for a family:                                             *)
(*                                                                         *)
(*    head, tail : one pointer per queue    (CacheNodeQueuePtr)            *)
(*    prev, next : one pointer per node     (CacheNode)                    *)
(*                                                                         *)
(* The link fields belong to the node and not to a queue: the operations   *)
(* below follow them wherever they lead, also when the caller names a      *)
(* queue the node is not on.                                               *)
(***************************************************************************)
EXTENDS Naturals

CONSTANT Nil            \* the null pointer

(* A family of empty lists with queues Q over nodes N. *)
EmptyLists(Q, N) == [head |-> [q \in Q |-> Nil], tail |-> [q \in Q |-> Nil],
                     prev |-> [n \in N |-> Nil], next |-> [n \in N |-> Nil]]

(* Every family of queues Q over nodes N, well formed or not. *)
ListFamily(Q, N) == [head : [Q -> N \cup {Nil}], tail : [Q -> N \cup {Nil}],
                     prev : [N -> N \cup {Nil}], next : [N -> N \cup {Nil}]]

(* Take n out: its neighbours are linked to each other, and q's head or   *)
(* tail moves when n has no neighbour on that side.                       *)
Unlink(L, q, n) ==
  LET p == L.prev[n]
      s == L.next[n]
  IN [head |-> IF p = Nil THEN [L.head EXCEPT ![q] = s] ELSE L.head,
      tail |-> IF s = Nil THEN [L.tail EXCEPT ![q] = p] ELSE L.tail,
      prev |-> IF s = Nil THEN L.prev ELSE [L.prev EXCEPT ![s] = p],
      next |-> IF p = Nil THEN L.next ELSE [L.next EXCEPT ![p] = s]]

(* Put n in front of the first node of q. *)
PushFront(L, q, n) ==
  LET h == L.head[q]
  IN [head |-> [L.head EXCEPT ![q] = n],
      tail |-> IF h = Nil THEN [L.tail EXCEPT ![q] = n] ELSE L.tail,
      prev |-> IF h = Nil THEN [L.prev EXCEPT ![n] = Nil]
                          ELSE [L.prev EXCEPT ![n] = Nil, ![h] = n],
      next |-> [L.next EXCEPT ![n] = h]]

(* Take n out of q and put it in front, unless it is there already. *)
MoveToFront(L, q, n) ==
  IF L.head[q] = n THEN L ELSE PushFront(Unlink(L, q, n), q, n)

(* The link fields of n are set to the null pointer, the lists untouched. *)
ForgetLinks(L, n) == [L EXCEPT !.prev[n] = Nil, !.next[n] = Nil]

-----------------------------------------------------------------------------
(* What the operations are meant to keep up.                              *)

(* The nodes met when q is walked from its head, at most limit of them:   *)
(* walk[i] is the i-th, and Nil once the end is reached.                  *)
Walk(L, q, limit) ==
  LET walk[i \in 0..limit] == IF i = 0 THEN L.head[q]
                              ELSE IF walk[i - 1] = Nil THEN Nil
                              ELSE L.next[walk[i - 1]]
  IN walk

Members(L, q, limit) == {Walk(L, q, limit)[i] : i \in 0..limit} \ {Nil}

(* q is a proper list of at most limit nodes: the walk ends, the backward *)
(* links mirror the forward ones, and head and tail are its two ends.     *)
ProperList(L, q, limit) ==
  /\ Walk(L, q, limit)[limit] = Nil
  /\ (L.head[q] = Nil) = (L.tail[q] = Nil)
  /\ L.head[q] # Nil => L.prev[L.head[q]] = Nil
  /\ L.tail[q] # Nil => L.next[L.tail[q]] = Nil /\ L.tail[q] \in Members(L, q, limit)
  /\ \A n \in Members(L, q, limit) : L.next[n] # Nil => L.prev[L.next[n]] = n
=============================================================================
