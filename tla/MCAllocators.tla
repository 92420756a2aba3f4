---------------------------- MODULE MCAllocators ----------------------------
(***************************************************************************)
(* Model checking the allocators.  They share nothing, so a behaviour      *)
(* follows one of them: a heap, an object pool, a region or a double-ended *)
(* stack.                                                                  *)
(***************************************************************************)
EXTENDS ObjPool, Mempool, Arenas

VARIABLE follows
allocators == <<vars, heap_vars, avars, follows>>

AllocatorsInit ==
  /\ Init /\ HeapInit /\ ArenasInit
  /\ follows \in {"heap", "objects", "region", "bistack"}

Heap    == follows = "heap" /\ HeapNext /\ UNCHANGED <<vars, avars, follows>>
Pools   == follows = "objects" /\ Next /\ UNCHANGED <<heap_vars, avars, follows>>
Region  == follows = "region" /\ RegionNext /\ UNCHANGED <<vars, heap_vars, follows>>
Bistack == follows = "bistack" /\ BistackNext /\ UNCHANGED <<vars, heap_vars, follows>>

\* Clients of a double-ended stack that have overwritten memory are gone.
Gone == follows = "bistack" /\ wild # 0 /\ UNCHANGED allocators

AllocatorsNext == Heap \/ Pools \/ Region \/ Bistack \/ Gone

AllocatorsSpec ==
  AllocatorsInit /\ [][AllocatorsNext]_allocators /\ WF_allocators(follows = "heap" /\ Step /\ UNCHANGED <<vars, avars, follows>>)
=============================================================================
