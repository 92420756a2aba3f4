------------------------------- MODULE Arenas -------------------------------
(***************************************************************************)
(* The allocators that give memory back all at once: the region (and the   *)
(* cache, the same code under another name), which hands out downwards,    *)
(* and the double-ended stack, which hands out from both ends.             *)
(*                                                                         *)
(* Addresses wrap around at AddrMax; no memory lies so low or so high that *)
(* as much again would not fit below and above it.  When calloc fails an   *)
(* arena stays as it is; the addresses calloc and realloc return are open. *)
(***************************************************************************)
EXTENDS Layout

CONSTANTS
  AddrMax,  \* how many values a uintptr_t and a size_t have
  Places,   \* addresses of memory that an arena may get
  Spans,    \* its sizes
  Asks      \* sizes, in bytes, that clients ask for

ASSUME ArenasAssumption ==
  /\ AddrMax \in Nat /\ AddrMax % PtrBytes = 0
  /\ Places \subseteq Nat \ {0}
  /\ Spans \subseteq Nat /\ Asks \subseteq 0 .. AddrMax - 1
  /\ \A a \in Places, n \in Spans : n + PtrBytes <= a /\ a + 2 * n + PtrBytes < AddrMax

VARIABLES
  region,       \* struct HarbolRegion
  bistack,      \* struct HarbolBiStack
  region_held,  \* history: blocks that the region has handed out
  front_held,   \* history: the same of the front of the double-ended stack
  back_held,    \* history: and of its back
  region_wild,  \* history: the region has granted a request with a block that is too small or
                \* not in its memory
  wild          \* history: 0, or the size of such a request that the stack has granted

avars == <<region, bistack, region_held, front_held, back_held, region_wild, wild>>

NoRegion  == [mem |-> 0, size |-> 0, offs |-> 0]
NoBistack == [mem |-> 0, size |-> 0, front |-> 0, back |-> 0]

Wrapped(a)  == a % AddrMax
Rounded(n)  == Wrapped(Align(n, PtrBytes))
BlockAt(a, n)  == [at |-> a, size |-> n]
\* A block at a for n bytes, which the arena writes to, is too small or not in the arena.
Wrong(a, n, arena) ==
  Rounded(n) < n \/ (n > 0 /\ (a < arena.mem \/ a + Rounded(n) > arena.mem + arena.size))

ArenasInit ==
  /\ region = NoRegion /\ bistack = NoBistack
  /\ region_held = {} /\ front_held = {} /\ back_held = {}
  /\ region_wild = FALSE /\ wild = 0
----------------------------------------------------------------------------
(* The region.                                                             *)

\* harbol_region_make and _make_from_buffer
RegionMake ==
  /\ region.mem = 0
  /\ \E a \in Places, n \in Spans :
       n # 0 /\ region' = [mem |-> a, size |-> n, offs |-> a + n]
  /\ UNCHANGED <<bistack, region_held, front_held, back_held, region_wild, wild>>

RegionClear ==
  /\ region.mem # 0
  /\ region' = NoRegion /\ region_held' = {}
  /\ UNCHANGED <<bistack, front_held, back_held, region_wild, wild>>

\* Faulty: a request is not compared with the size of the region.
FitsBelow(n) ==
  /\ region.mem # 0 /\ n # 0
  /\ Wrapped(region.offs - Rounded(n)) >= region.mem

RegionFits(n) ==
  /\ region.mem # 0 /\ n # 0 /\ n <= region.size
  /\ Wrapped(region.offs - Rounded(n)) >= region.mem

\* harbol_region_alloc; where it does not fit it returns NULL.
RegionAlloc ==
  /\ \E n \in Asks :
       LET at == Wrapped(region.offs - Rounded(n))
       IN  /\ RegionFits(n)
           /\ region' = [region EXCEPT !.offs = at]
           /\ region_held' = region_held \cup {BlockAt(at, Rounded(n))}
           /\ region_wild' = (region_wild \/ Wrong(at, n, region))
  /\ UNCHANGED <<bistack, front_held, back_held, wild>>
----------------------------------------------------------------------------
(* The double-ended stack.                                                 *)

Empty(a, n) == [mem |-> a, size |-> n, front |-> a, back |-> a + n]

\* harbol_bistack_init; _make_from_buffer takes a size of 0 as well.
BistackMake ==
  /\ bistack.mem = 0
  /\ \E a \in Places, n \in Spans : bistack' = Empty(a, n)
  /\ UNCHANGED <<region, region_held, front_held, back_held, region_wild, wild>>

BistackClear ==
  /\ bistack.mem # 0
  /\ bistack' = NoBistack /\ front_held' = {} /\ back_held' = {}
  /\ UNCHANGED <<region, region_held, region_wild, wild>>

AllocFront ==
  /\ bistack.mem # 0
  /\ \E n \in Asks :
       LET end == Wrapped(bistack.front + Rounded(n))
       IN  /\ end < bistack.back
           /\ bistack' = [bistack EXCEPT !.front = end]
           /\ front_held' = front_held \cup {BlockAt(bistack.front, Rounded(n))}
           /\ wild' = IF Wrong(bistack.front, n, bistack) THEN n ELSE 0
  /\ UNCHANGED <<region, region_held, back_held, region_wild>>

AllocBack ==
  /\ bistack.mem # 0
  /\ \E n \in Asks :
       LET at == Wrapped(bistack.back - Rounded(n))
       IN  /\ at > bistack.front
           /\ bistack' = [bistack EXCEPT !.back = at]
           /\ back_held' = back_held \cup {BlockAt(at, Rounded(n))}
           /\ wild' = IF Wrong(at, n, bistack) THEN n ELSE 0
  /\ UNCHANGED <<region, region_held, front_held, region_wild>>

\* harbol_bistack_reset_front, _back and _all
Reset(front, back) ==
  /\ bistack.mem # 0
  /\ bistack' = [bistack EXCEPT !.front = IF front THEN bistack.mem ELSE @,
                                !.back  = IF back THEN bistack.mem + bistack.size ELSE @]
  /\ front_held' = IF front THEN {} ELSE front_held
  /\ back_held'  = IF back THEN {} ELSE back_held
  /\ UNCHANGED <<region, region_held, region_wild, wild>>

ResetFront == Reset(TRUE, FALSE)
ResetBack  == Reset(FALSE, TRUE)
ResetAll   == Reset(TRUE, TRUE)

\* Faulty: what was handed out at the front stays there.
ResizeKeepsFront ==
  /\ \E a \in Places, n \in Spans \ {0} :
       bistack' = [mem |-> a, size |-> n, back |-> a + n,
                   front |-> IF bistack.mem = 0 THEN a ELSE a + bistack.front - bistack.mem]
  /\ front_held' = {} /\ back_held' = {}
  /\ UNCHANGED <<region, region_held, region_wild, wild>>

\* harbol_bistack_resize to a size that is not 0: all that was handed out is forgotten.
Resize ==
  /\ \E a \in Places, n \in Spans \ {0} : bistack' = Empty(a, n)
  /\ front_held' = {} /\ back_held' = {}
  /\ UNCHANGED <<region, region_held, region_wild, wild>>

RegionNext  == RegionMake \/ RegionClear \/ RegionAlloc
\* A client that has overwritten memory does nothing more that could be told.
BistackNext == wild = 0 /\ (\/ BistackMake \/ BistackClear \/ AllocFront \/ AllocBack
                        \/ ResetFront \/ ResetBack \/ ResetAll \/ Resize)
ArenasNext  == RegionNext \/ BistackNext

ArenasSpec == ArenasInit /\ [][ArenasNext]_avars
----------------------------------------------------------------------------
(* Properties.                                                             *)

Bytes(b) == b.at .. b.at + b.size - 1
Apart(bs) == \A b, c \in bs : b # c => Bytes(b) \cap Bytes(c) = {}
Inside(bs, arena) == \A b \in bs : b.size > 0 => Bytes(b) \subseteq arena.mem .. arena.mem + arena.size - 1
\* The blocks bs are all of the memory from lo to hi.
Filled(bs, lo, hi) == UNION {Bytes(b) : b \in bs} = lo .. hi - 1

\* A region grants no request with a block that is too small or not in its memory, and a
\* double-ended stack none but one that is larger than all of it, whose size wraps around.
\* Blocks that an arena has handed out, from either end and in any order of resets, lie in
\* its memory and apart from each other (region.c:46, 50, bistack.c:55, 70).
BlocksApart ==
  /\ ~region_wild
  /\ Apart(region_held) /\ Inside(region_held, region)
  /\ wild # 0 => wild > bistack.size
  /\ wild = 0 => Apart(front_held \cup back_held) /\ Inside(front_held \cup back_held, bistack)

\* What an arena says is left (harbol_region_remaining, _bistack_get_margins) is what it
\* has not handed out since it was made, cleared, reset or resized (region.c:59,
\* bistack.c:103): the blocks handed out are all of the memory on the far side of the
\* pointers, byte for byte, and the two ends have not passed each other.
Accounted ==
  /\ Filled(region_held, region.offs, region.mem + region.size)
  /\ region.mem <= region.offs
  /\ wild = 0 => /\ Filled(front_held, bistack.mem, bistack.front)
                 /\ Filled(back_held, bistack.back, bistack.mem + bistack.size)
                 /\ bistack.front <= bistack.back
=============================================================================
