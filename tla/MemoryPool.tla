----------------------------- MODULE MemoryPool -----------------------------
(***************************************************************************)
(* MemoryPool<CacheNode> of MyMemoryPool.hpp: blocks of BlockSize objects, *)
(* and a vector of the objects nobody uses, taken from and given back at   *)
(* its end.  An object is named by its block and its place in it.  Every   *)
(* operation runs under the pool's mutex, so each is one value to the next.*)
(***************************************************************************)
EXTENDS Naturals, Sequences

CONSTANTS BlockSize,     \* init's block_size: the cache's nMax
          MaxBlocks      \* how many blocks fit in memory

ASSUME BlockAssumption == BlockSize \in Nat \ {0} /\ MaxBlocks \in Nat \ {0}

Node == (1..MaxBlocks) \X (1..BlockSize)

Pools == [free : Seq(Node), blocks : 0..MaxBlocks]

PoolEmpty(p) == p.free = <<>>

(* new T[blockSize] still succeeds. *)
HasRoom(p) == p.blocks < MaxBlocks

(* allocate_one_block pushes the objects of a new block in order. *)
AllocateOneBlock(p) ==
  [free   |-> p.free \o [i \in 1..BlockSize |-> <<p.blocks + 1, i>>],
   blocks |-> p.blocks + 1]

(* init allocates the first block. *)
InitialPool == AllocateOneBlock([free |-> <<>>, blocks |-> 0])

(* acquire_instance: a new block when the pool is empty, then the last     *)
(* object.  Stocked is the pool it pops from.                              *)
Stocked(p) == IF PoolEmpty(p) THEN AllocateOneBlock(p) ELSE p

Acquired(p) == LET s == Stocked(p) IN s.free[Len(s.free)]

(* A mistake NodesAccounted must find: the first object is popped. *)
AfterAcquire_front(p) == LET s == Stocked(p) IN [s EXCEPT !.free = Tail(s.free)]

AfterAcquire(p) ==
  LET s == Stocked(p) IN [s EXCEPT !.free = SubSeq(s.free, 1, Len(s.free) - 1)]
=============================================================================
