------------------------------ MODULE Mempool ------------------------------
(***************************************************************************)
(* The heap of a module (struct HarbolMemPool), which the loader, the host *)
(* and natives allocate from: harbol_mempool_alloc, _realloc and _free.     *)
(*                                                                         *)
(* Memory is an array of 8-byte cells with addresses 1 .. Size, 0 is the   *)
(* null pointer.  A block is a header of three cells (its size with the    *)
(* header, the next and the previous node of its free list) followed by    *)
(* the memory handed out.  Memory at offs and above has been handed out at *)
(* some time; freed blocks are in the free list of their size, a list for  *)
(* every small size and one for all others.  The loops over a free list    *)
(* are modelled one iteration at a time.                                   *)
(*                                                                         *)
(* Left out: the tail and len of a list, which are never read, and what    *)
(* clients write, here nothing.                                            *)
(***************************************************************************)
EXTENDS Integers, FiniteSets

CONSTANTS
  Size,      \* cells of the pool
  Requests,  \* sizes, in cells, that clients ask for
  MaxFree,   \* bound: blocks in the free lists when a client frees another one
  MaxOps     \* bound: operations by clients

ASSUME PoolAssumption ==
  /\ Size \in Nat \ {0}
  /\ Requests \subseteq Nat
  /\ MaxFree \in Nat
  /\ MaxOps \in Nat

Header    == 3  \* sizeof(struct HarbolMemNode)
Threshold == 4  \* MEM_SPLIT_THRESHOLD
Large     == 8  \* HARBOL_BUCKET_SIZE: the list of the large blocks
List      == 0 .. Large
SlotOf(n) == IF n - 1 \in 0 .. Large - 1 THEN n - 1 ELSE Large

VARIABLES
  cells,   \* the cells
  offs,  \* mempool->stack.offs
  head,  \* head[l]: first node of free list l
  pc,    \* what the pool is doing: "idle", "find", "free", "insert"; "fault" when it
         \* has read through the null pointer
  iter,  \* node that a loop has reached
  node,  \* block that is being freed, or was by the last operation
  list,  \* free list of the loop
  want,  \* cells to allocate, with the header
  old,   \* block to free once its new one is allocated, by realloc
  live,  \* history: the blocks clients hold, [at, size]
  clash, \* history: has memory been handed out that a client held already?
  ops    \* operations made

heap_vars == <<cells, offs, head, pc, iter, node, list, want, old, live, clash, ops>>

Cell     == 1 .. Size
SizeAt(m, a) == m[a]
NextAt(m, a) == m[a + 1]
PrevAt(m, a) == m[a + 2]

Cells(b) == b.at .. b.at + b.size - 1

\* The nodes of list l.
Nodes(l) ==
  LET walk[i \in Nat] == IF i = 0 THEN head[l]
                         ELSE IF walk[i - 1] = 0 THEN 0 ELSE NextAt(cells, walk[i - 1])
  IN  {walk[i] : i \in 0 .. Size \div Header} \ {0}
FreeNodes == UNION {Nodes(l) : l \in List}

HeapInit ==
  /\ cells = [c \in Cell |-> 0]
  /\ offs = Size + 1
  /\ head = [l \in List |-> 0]
  /\ pc = "idle"
  /\ iter = 0 /\ node = 0 /\ list = 0 /\ want = 0 /\ old = 0
  /\ live = {} /\ clash = FALSE
  /\ ops = 0
----------------------------------------------------------------------------
(* Operations on a free list; s is a record of the cells and the heads.    *)

Pool == [cells |-> cells, head |-> head]

\* Faulty: a node at the head of a list stays there.
RemovedLate(s, l, a) ==
  [cells |-> [c \in Cell |-> IF PrevAt(s.cells, a) # 0 /\ c = PrevAt(s.cells, a) + 1
                           THEN NextAt(s.cells, a) ELSE s.cells[c]],
   head |-> s.head]

\* harbol_freelist_remove
Removed(s, l, a) ==
  LET nx == NextAt(s.cells, a)
      pv == PrevAt(s.cells, a)
  IN [cells  |-> [c \in Cell |-> IF nx # 0 /\ c = nx + 2 THEN pv
                               ELSE IF pv # 0 /\ c = pv + 1 THEN nx ELSE s.cells[c]],
      head |-> IF pv = 0 THEN [s.head EXCEPT ![l] = nx] ELSE s.head]

\* The entry of harbol_freelist_insert, node a into list l.
InsertInto(s, l, a) ==
  /\ cells' = s.cells
  /\ node' = a /\ list' = l
  /\ \/ /\ s.head[l] = 0
        /\ head' = [s.head EXCEPT ![l] = a]
        /\ pc' = "idle" /\ iter' = 0
     \/ /\ s.head[l] # 0
        /\ head' = s.head
        /\ pc' = "insert" /\ iter' = s.head[l]
----------------------------------------------------------------------------
(* Allocation.                                                             *)

\* The pool goes on with realloc, or returns to the client.
Allocated(m, a, n) ==
  LET zeroed == [c \in Cell |-> IF c \in a + 1 .. a + n - 1 THEN 0 ELSE m[c]]
      copied == (IF SizeAt(m, old) < n THEN SizeAt(m, old) ELSE n) - Header
  IN  /\ live' = live \cup {[at |-> a, size |-> n]}
      /\ clash' = (clash \/ \E b \in live : Cells(b) \cap (a .. a + n - 1) # {})
      /\ iter' = 0
      /\ \/ old = 0 /\ cells' = zeroed /\ pc' = "idle"
         \/ /\ old # 0
            /\ cells' = [c \in Cell |-> IF c - a - Header \in 0 .. copied - 1
                                      THEN zeroed[c - a + old] ELSE zeroed[c]]
            /\ pc' = "free"

\* Faulty: the region is not asked for room.
FromRegionUnchecked ==
  /\ offs' = offs - want
  /\ Allocated([cells EXCEPT ![offs'] = want], offs', want)

\* harbol_region_alloc when no free block is found.
FromRegion ==
  \/ /\ (want > Size \/ offs - want < 1)
     /\ pc' = "idle" /\ iter' = 0
     /\ UNCHANGED <<cells, offs, live, clash>>
  \/ /\ want <= Size /\ offs - want >= 1
     /\ offs' = offs - want
     /\ Allocated([cells EXCEPT ![offs'] = want], offs', want)

\* harbol_freelist_find takes a node of about the size off the list, or the upper end of
\* a larger one.
TakeNode ==
  /\ LET s == Removed(Pool, list, iter) IN
       /\ Allocated(s.cells, iter, SizeAt(cells, iter))
       /\ head' = s.head
  /\ UNCHANGED offs

\* Faulty: the node keeps its size.
SplitNodeWhole ==
  LET rest == SizeAt(cells, iter) - want IN
    /\ Allocated([cells EXCEPT ![iter + rest] = want], iter + rest, want)
    /\ UNCHANGED <<offs, head>>

SplitNode ==
  LET rest == SizeAt(cells, iter) - want IN
    /\ Allocated([cells EXCEPT ![iter] = rest, ![iter + rest] = want], iter + rest, want)
    /\ UNCHANGED <<offs, head>>

\* Faulty: the search stays at a node that is too small.
FindStepStuck ==
  /\ pc = "find"
  /\ \/ iter = 0 /\ FromRegion /\ UNCHANGED head
     \/ /\ iter # 0 /\ SizeAt(cells, iter) < want
        /\ iter' = head[list]
        /\ UNCHANGED <<cells, offs, head, live, clash, pc>>
     \/ iter # 0 /\ SizeAt(cells, iter) \in want .. want + Threshold /\ TakeNode
     \/ iter # 0 /\ SizeAt(cells, iter) > want + Threshold /\ SplitNode
  /\ UNCHANGED <<node, list, want, old, ops>>

FindStep ==
  /\ pc = "find"
  /\ \/ iter = 0 /\ FromRegion /\ UNCHANGED head
     \/ /\ iter # 0 /\ SizeAt(cells, iter) < want
        /\ iter' = NextAt(cells, iter)
        /\ UNCHANGED <<cells, offs, head, live, clash, pc>>
     \/ iter # 0 /\ SizeAt(cells, iter) \in want .. want + Threshold /\ TakeNode
     \/ iter # 0 /\ SizeAt(cells, iter) > want + Threshold /\ SplitNode
  /\ UNCHANGED <<node, list, want, old, ops>>
----------------------------------------------------------------------------
(* Freeing.                                                                *)

FreeStep ==
  /\ pc = "free"
  /\ live' = {b \in live : b.at # node}
  /\ LET n == SizeAt(cells, node) IN
       \/ /\ (node < offs \/ n = 0 \/ n > Size)
          /\ pc' = "idle"
          /\ UNCHANGED <<cells, offs, head, iter, node, list>>
       \/ /\ node = offs /\ n \in 1 .. Size
          /\ offs' = offs + n
          /\ pc' = "idle"
          /\ UNCHANGED <<cells, head, iter, node, list>>
       \/ /\ node > offs /\ n \in 1 .. Size
          /\ InsertInto(Pool, SlotOf(n), node)
          /\ UNCHANGED offs
  /\ old' = 0
  /\ UNCHANGED <<want, clash, ops>>

\* The rest of the loop of harbol_freelist_insert goes on at a, and returns at its end.
WalkTo(a) == iter' = a /\ pc' = IF a = 0 THEN "idle" ELSE "insert"
Return    == iter' = 0 /\ pc' = "idle"

\* A node at the bottom of the handed out memory is taken off the list.  The loop goes on
\* after the head of the list, which there may not be any more.
Reclaim ==
  LET s == Removed(Pool, list, iter) IN
    /\ offs' = offs + SizeAt(cells, iter)
    /\ cells' = s.cells /\ head' = s.head
    /\ IF s.head[list] = 0 THEN pc' = "fault" /\ iter' = 0
       ELSE WalkTo(NextAt(s.cells, s.head[list]))
    /\ UNCHANGED <<node, list>>

\* node goes after iter: merged with it, merged before, or further down.
Above ==
  LET end == iter + SizeAt(cells, iter) IN
    /\ \/ end > node /\ Return /\ UNCHANGED cells
       \/ end = node /\ Return /\ cells' = [cells EXCEPT ![iter] = @ + SizeAt(cells, node)]
       \/ end < node /\ WalkTo(NextAt(cells, iter)) /\ UNCHANGED cells
    /\ UNCHANGED <<offs, head, node, list>>

\* node goes before the head of the list and is merged with it if they touch; a merged
\* node is moved to the list of its size.
BeforeHead ==
  /\ \/ /\ node + SizeAt(cells, node) = iter
        /\ LET merged == [cells  |-> [cells EXCEPT ![node] = @ + SizeAt(cells, iter),
                                               ![node + 1] = NextAt(cells, iter),
                                               ![node + 2] = 0],
                          head |-> [head EXCEPT ![list] = node]]
           IN  IF list = Large
               THEN cells' = merged.cells /\ head' = merged.head /\ Return /\ UNCHANGED <<node, list>>
               ELSE InsertInto(Removed(merged, list, node), SlotOf(SizeAt(merged.cells, node)), node)
     \/ /\ node + SizeAt(cells, node) # iter
        /\ cells' = [cells EXCEPT ![node + 1] = iter, ![node + 2] = 0, ![iter + 2] = node]
        /\ head' = [head EXCEPT ![list] = node]
        /\ Return /\ UNCHANGED <<node, list>>
  /\ UNCHANGED offs

\* harbol_freelist_insert_before
Before ==
  LET pv == PrevAt(cells, iter) IN
    /\ \/ /\ pv = 0
          /\ head' = [head EXCEPT ![list] = node]
          /\ cells' = [cells EXCEPT ![node + 1] = iter, ![iter + 2] = node]
       \/ /\ pv # 0
          /\ cells' = [cells EXCEPT ![node + 1] = iter, ![node + 2] = pv,
                                ![pv + 1] = node, ![iter + 2] = node]
          /\ UNCHANGED head
    /\ Return /\ UNCHANGED <<offs, node, list>>

\* One iteration of harbol_freelist_insert.
InsertStep ==
  /\ pc = "insert"
  /\ \/ iter = offs /\ Reclaim
     \/ iter # offs /\ iter = node /\ Return /\ UNCHANGED <<cells, offs, head, node, list>>
     \/ iter # offs /\ iter < node /\ Above
     \/ iter # offs /\ iter > node /\ iter = head[list] /\ BeforeHead
     \/ iter # offs /\ iter > node /\ iter # head[list] /\ Before
  /\ UNCHANGED <<want, old, live, clash, ops>>
----------------------------------------------------------------------------
(* Clients.                                                                *)

Client == pc = "idle" /\ ops < MaxOps /\ ops' = ops + 1
MayFree == Cardinality(FreeNodes) <= MaxFree

StartAlloc(n) ==
  /\ want' = n + Header
  /\ list' = SlotOf(n + Header)
  /\ iter' = head[SlotOf(n + Header)]
  /\ pc' = "find"

HeapAlloc ==
  /\ Client
  /\ \E n \in Requests : n \in 1 .. Size /\ StartAlloc(n)
  /\ old' = 0 /\ node' = 0
  /\ UNCHANGED <<cells, offs, head, live, clash>>

HeapFree ==
  /\ Client /\ MayFree
  /\ \E b \in live : node' = b.at
  /\ pc' = "free"
  /\ UNCHANGED <<cells, offs, head, iter, list, want, old, live, clash>>

\* A client frees the block it has just freed once more.
FreeAgain ==
  /\ Client /\ MayFree /\ node # 0
  /\ pc' = "free"
  /\ UNCHANGED <<cells, offs, head, iter, node, list, want, old, live, clash>>

Realloc ==
  /\ Client /\ MayFree
  /\ \E b \in live, n \in Requests :
       /\ n \in 1 .. Size
       /\ node' = b.at /\ old' = b.at
       /\ StartAlloc(n)
  /\ UNCHANGED <<cells, offs, head, live, clash>>

\* A state of the model: the bound on operations is reached, or the program is gone.
Finished == (pc = "fault" \/ (pc = "idle" /\ ops = MaxOps)) /\ UNCHANGED heap_vars

Step == FindStep \/ FreeStep \/ InsertStep
HeapNext == HeapAlloc \/ HeapFree \/ FreeAgain \/ Realloc \/ Step \/ Finished

HeapSpec     == HeapInit /\ [][HeapNext]_heap_vars
HeapFairSpec == HeapSpec /\ WF_heap_vars(Step)
----------------------------------------------------------------------------
(* Properties.                                                             *)

HeapTypeOK ==
  /\ cells \in [Cell -> 0 .. Size]
  /\ offs \in 1 .. Size + 1
  /\ head \in [List -> 0 .. Size]
  /\ pc \in {"idle", "find", "free", "insert", "fault"}
  /\ iter \in 0 .. Size /\ node \in 0 .. Size /\ old \in 0 .. Size
  /\ list \in List /\ want \in Nat
  /\ live \subseteq [at : Cell, size : Cell] /\ clash \in BOOLEAN
  /\ ops \in 0 .. MaxOps

\* Memory is handed out to one client at a time, above the memory that never was handed
\* out, however it has been merged and split since it was freed.
Disjoint ==
  /\ ~clash
  /\ \A b \in live : Cells(b) \subseteq offs .. Size

FreeCells == UNION {Cells([at |-> a, size |-> SizeAt(cells, a)]) : a \in FreeNodes}
HeldCells == UNION {Cells(b) : b \in live}

\* No free list gives access to memory that a client holds.
FreeNotHeld == pc = "idle" => FreeCells \cap HeldCells = {}

\* Memory that clients have given back can be allocated again.
FreeReturnsMemory == pc = "idle" => offs .. Size \subseteq FreeCells \cup HeldCells

\* Freeing a block that was allocated never reads through the null pointer.
NoFault == pc # "fault"

\* Every operation ends: no loop goes round a free list for ever.
Completes == (pc # "idle") ~> (pc \in {"idle", "fault"})
=============================================================================
