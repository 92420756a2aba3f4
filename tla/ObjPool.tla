------------------------------ MODULE ObjPool ------------------------------
(***************************************************************************)
(* The object pool (struct HarbolObjPool): objects of one size, the free   *)
(* ones chained through their own first word, which holds the index of the *)
(* next free object.  The pool keeps the address of the first one.         *)
(*                                                                         *)
(* Of an object only the first word is kept: it belongs to the pool while  *)
(* the object is free and to the client while it is held.  Clients pass to  *)
(* free pointers they hold, and pointers to anything outside of the pool.  *)
(***************************************************************************)
EXTENDS Integers, Functions

CONSTANTS
  Base,      \* addresses that calloc, or the owner of a buffer, may give
  ObjSizes,  \* sizes asked for, in bytes
  Lens,      \* numbers of objects asked for
  Word,      \* sizeof(size_t)
  Value,     \* what clients keep in the first word of an object
  Pointer    \* pointers to elsewhere that clients may pass to free; 0 is NULL

ASSUME ObjPoolAssumption ==
  /\ Base \subseteq Nat \ {0}
  /\ ObjSizes \subseteq Nat
  /\ Lens \subseteq Nat
  /\ Word \in Nat \ {0}
  /\ Value \subseteq Nat
  /\ Pointer \subseteq Nat

VARIABLES
  mem,          \* start of the pool, 0 if there is none
  next,         \* address of the first free object
  size,         \* number of objects
  objsize,      \* size of an object, aligned
  free_blocks,  \* number of free objects
  word,         \* word[p]: first word of the object at p
  held,         \* history: the objects that clients hold
  got           \* the result of the last allocation, 0 is NULL

vars == <<mem, next, size, objsize, free_blocks, word, held, got>>

Aligned(n)     == ((n + Word - 1) \div Word) * Word
At(m, n, i)    == m + i * n
Objects(m, n, l) == {At(m, n, i) : i \in 0 .. l - 1}
Block(i)       == At(mem, objsize, i)
Index(p)       == (p - mem) \div objsize
Blocks         == Objects(mem, objsize, size)
End            == Block(size)

Init ==
  /\ mem = 0 /\ next = 0 /\ size = 0 /\ objsize = 0 /\ free_blocks = 0
  /\ word = [p \in {} |-> 0] /\ held = {} /\ got = 0

\* The part that harbol_objpool_init and _init_from_buffer share.
Setup(m, n, l) ==
  /\ mem' = m
  /\ next' = m
  /\ size' = l
  /\ free_blocks' = l
  /\ objsize' = n
  /\ word' = [p \in Objects(m, n, l) |-> (p - m) \div n + 1]
  /\ UNCHANGED <<held, got>>

\* harbol_objpool_init; when calloc fails the pool stays as it is, without memory.
Make ==
  /\ mem = 0
  /\ \E m \in Base, n \in ObjSizes, l \in Lens :
       n # 0 /\ l # 0 /\ Setup(m, Aligned(n), l)

\* harbol_objpool_init_from_buffer, which takes objects of aligned sizes only.
MakeFromBuffer ==
  /\ mem = 0
  /\ \E m \in Base, n \in ObjSizes, l \in Lens :
       n >= Word /\ n * l >= Aligned(n) * l /\ Setup(m, Aligned(n), l)

\* harbol_objpool_clear; what clients hold is gone with it.
Clear ==
  /\ mem # 0
  /\ mem' = 0 /\ next' = 0 /\ size' = 0 /\ objsize' = 0 /\ free_blocks' = 0
  /\ word' = [p \in {} |-> 0]
  /\ held' = {}
  /\ UNCHANGED got

\* Faulty: the object is zeroed before its index is read.
AllocZeroedFirst ==
  /\ free_blocks > 0
  /\ free_blocks' = free_blocks - 1
  /\ next' = IF free_blocks' # 0 THEN Block(0) ELSE 0
  /\ word' = [word EXCEPT ![next] = 0]
  /\ held' = held \cup {next}
  /\ got' = next
  /\ UNCHANGED <<mem, size, objsize>>

\* Faulty: the last index is followed.
AllocToEnd ==
  /\ free_blocks > 0
  /\ free_blocks' = free_blocks - 1
  /\ next' = Block(word[next])
  /\ word' = [word EXCEPT ![next] = 0]
  /\ held' = held \cup {next}
  /\ got' = next
  /\ UNCHANGED <<mem, size, objsize>>

Alloc ==
  /\ free_blocks > 0
  /\ free_blocks' = free_blocks - 1
  /\ next' = IF free_blocks' # 0 THEN Block(word[next]) ELSE 0
  /\ word' = [word EXCEPT ![next] = 0]
  /\ held' = held \cup {next}
  /\ got' = next
  /\ UNCHANGED <<mem, size, objsize>>

AllocFails ==
  /\ free_blocks = 0
  /\ got' = 0
  /\ UNCHANGED <<mem, next, size, objsize, free_blocks, word, held>>

\* Faulty: the head is not linked to, as if the pool were full.
PushEnd(p) ==
  /\ word' = [word EXCEPT ![p] = size]
  /\ next' = p
  /\ free_blocks' = free_blocks + 1
  /\ held' = held \ {p}
  /\ UNCHANGED <<mem, size, objsize, got>>

Push(p) ==
  /\ word' = [word EXCEPT ![p] = IF next # 0 THEN Index(next) ELSE size]
  /\ next' = p
  /\ free_blocks' = free_blocks + 1
  /\ held' = held \ {p}
  /\ UNCHANGED <<mem, size, objsize, got>>

Ignored(p) == p = 0 \/ p < mem \/ p > End

\* harbol_objpool_free and _cleanup, whose caller gives up its reference.
\* A pointer just past the last object is not ignored; clients pass none.
Free ==
  \E p \in held \cup {q \in Pointer : Ignored(q)} :
    \/ Ignored(p) /\ UNCHANGED vars
    \/ ~Ignored(p) /\ Push(p)

\* A client writes to an object it holds.
Write ==
  /\ \E p \in held, v \in Value : word' = [word EXCEPT ![p] = v]
  /\ UNCHANGED <<mem, next, size, objsize, free_blocks, held, got>>

Next == Make \/ MakeFromBuffer \/ Clear \/ Alloc \/ AllocFails \/ Free \/ Write

Spec == Init /\ [][Next]_vars
----------------------------------------------------------------------------
\* The fields of the pool and the words of its objects have their types, the head is one
\* of the objects or NULL, never the place after the last of them (objpool.c:80).
TypeOK ==
  /\ mem \in Nat /\ next \in Nat /\ size \in Nat /\ objsize \in Nat
  /\ free_blocks \in Nat
  /\ size # 0 => mem # 0 /\ objsize # 0 /\ next \in Blocks \cup {0}
  /\ word \in [Blocks -> Nat]
  /\ held \subseteq Blocks
  /\ got \in Nat

Chained(c) ==
  /\ free_blocks # 0 => c[1] = next
  /\ \A i \in 1 .. free_blocks - 1 : Block(word[c[i]]) = c[i + 1]

\* The chain from the head runs through the objects that nobody holds, through each of
\* them once, and free_blocks counts them, whatever clients have left in the objects they
\* gave back (objpool.c:80, 99).
FreeChain == \E c \in Bijection(1 .. free_blocks, Blocks \ held) : Chained(c)

SP == INSTANCE SlotPool
        WITH Slot <- Nat \ {0}, slots <- Blocks, content <- [p \in held |-> word[p]],
             answer <- got

\* The pool implements SlotPool: no object is handed out twice or spoilt by the chain, and
\* a request fails only when all objects are held (objpool.c:69-103).
ImplementsSlots == SP!SPSpec
=============================================================================
