--------------------------- MODULE AllocatorProofs ---------------------------
(***************************************************************************)
(* Theorems about the allocators.  The object pool's free chain is         *)
(* complete and the pool implements SlotPool, for all sizes of objects and *)
(* pools and any use.  Arenas of any size at any place hand out their      *)
(* memory once and account for all of it, whatever the requests and the    *)
(* order of the operations.  The heap of a module hands out no memory that *)
(* is held, for clients that free only while at most one block is free.    *)
(***************************************************************************)
EXTENDS ObjPool, Arenas, Mempool, FiniteSetTheorems, WellFoundedInduction, TLAPS

\* What the pool's arithmetic on addresses relies on: an object's address gives its index back.
LEMMA IndexOfAddress ==
  ASSUME NEW m \in Nat, NEW n \in Nat \ {0}, NEW i \in Nat
  PROVE  At(m, n, i) \in Nat /\ (At(m, n, i) - m) \div n = i
<1>1. i * n \in Nat /\ (i * n) \div n = i
  BY SMT
<1>2. (m + i * n) - m = i * n
  BY <1>1
<1>3. QED
  BY <1>1, <1>2 DEF At

\* Rounding up to a multiple of the word size leaves no size zero.
LEMMA AlignedPositive ==
  ASSUME NEW n \in Nat \ {0}
  PROVE  Aligned(n) \in Nat \ {0}
<1>1. (n + Word - 1) \div Word \in Nat \ {0}
  BY ObjPoolAssumption, SMT
<1>2. QED
  BY <1>1, ObjPoolAssumption, SMT DEF Aligned

\* Every object has an address that is a natural number, not NULL, and an index that leads to it.
LEMMA BlockAddress ==
  ASSUME TypeOK, NEW p \in Blocks
  PROVE  /\ p \in Nat \ {0}
         /\ Index(p) \in 0 .. size - 1
         /\ Block(Index(p)) = p
<1>1. PICK i \in 0 .. size - 1 : p = At(mem, objsize, i)
  BY DEF Blocks, Objects
<1>2. /\ size # 0 /\ mem \in Nat \ {0} /\ objsize \in Nat \ {0}
      /\ size \in Nat /\ i \in Nat
  BY <1>1 DEF TypeOK
<1>3. At(mem, objsize, i) \in Nat /\ (At(mem, objsize, i) - mem) \div objsize = i
  BY <1>2, IndexOfAddress
<1>4. At(mem, objsize, i) # 0
  <2>1. i * objsize \in Nat
    BY <1>2, SMT
  <2>2. QED
    BY <2>1, <1>2 DEF At
<1>5. QED
  BY <1>1, <1>3, <1>4 DEF Index, Block
----------------------------------------------------------------------------
\* The invariant of the object pool.
PoolInv == TypeOK /\ FreeChain

\* The two ways to make a pool chain its objects in their order.
LEMMA SetupKeepsPool ==
  ASSUME PoolInv, mem = 0, NEW m \in Base, NEW n \in Nat \ {0}, NEW l \in Lens, Setup(m, n, l)
  PROVE  PoolInv'
<1>1. m \in Nat \ {0} /\ l \in Nat /\ size = 0
  BY ObjPoolAssumption DEF PoolInv, TypeOK
<1>2. held' = {} /\ got' \in Nat
  BY <1>1 DEF Setup, PoolInv, TypeOK, Blocks, Objects
<1>3. Blocks' = Objects(m, n, l)
  BY DEF Setup, Blocks, Objects
<1>4. ASSUME NEW i \in 0 .. l - 1
      PROVE  /\ At(m, n, i) \in Objects(m, n, l) /\ At(m, n, i) \in Nat
             /\ word'[At(m, n, i)] = i + 1
  BY <1>1, IndexOfAddress DEF Setup, Objects
<1>5. TypeOK'
  <2>1. word' \in [Objects(m, n, l) -> Nat]
    <3>1. \A p \in Objects(m, n, l) : (p - m) \div n + 1 \in Nat
      <4>1. \A i \in Nat : (At(m, n, i) - m) \div n = i
        BY <1>1, IndexOfAddress
      <4>2. QED
        BY <1>1, <4>1 DEF Objects
    <3>2. QED
      BY <3>1 DEF Setup
  <2>2. l # 0 => m \in Objects(m, n, l)
    <3>1. At(m, n, 0) = m
      BY <1>1, SMT DEF At
    <3>2. QED
      BY <1>1, <1>4, <3>1
  <2>3. QED
    BY <1>1, <1>2, <1>3, <2>1, <2>2 DEF TypeOK, Setup
<1>6. FreeChain'
  <2> DEFINE c == [i \in 1 .. l |-> At(m, n, i - 1)]
  <2>1. c \in [1 .. l -> Objects(m, n, l)]
    BY <1>1, <1>4
  <2>2. \A i, j \in 1 .. l : c[i] = c[j] => i = j
    <3>1. SUFFICES ASSUME NEW i \in 1 .. l, NEW j \in 1 .. l,
                          At(m, n, i - 1) = At(m, n, j - 1)
                   PROVE  i = j
      OBVIOUS
    <3>2. i - 1 \in Nat /\ j - 1 \in Nat
      BY <1>1
    <3>3. i - 1 = j - 1
      <4>1. \A k \in Nat : (At(m, n, k) - m) \div n = k
        BY <1>1, IndexOfAddress
      <4>2. QED
        BY <3>1, <3>2, <4>1
    <3>4. QED
      BY <1>1, <3>3
  <2>3. \A p \in Objects(m, n, l) : \E i \in 1 .. l : c[i] = p
    <3>1. SUFFICES ASSUME NEW k \in 0 .. l - 1
                   PROVE  \E i \in 1 .. l : c[i] = At(m, n, k)
      BY DEF Objects
    <3>2. k + 1 \in 1 .. l /\ c[k + 1] = At(m, n, k)
      BY <1>1
    <3>3. QED
      BY <3>2
  <2>4. c \in Bijection(1 .. l, Objects(m, n, l))
    BY <2>1, <2>2, <2>3 DEF Bijection, Injection, Surjection, IsInjective
  <2>5. l # 0 => c[1] = m
    BY <1>1, SMT DEF At
  <2>6. \A i \in 1 .. l - 1 : At(m, n, word'[c[i]]) = c[i + 1]
    BY <1>1, <1>4
  <2>7. /\ free_blocks' = l /\ next' = m
        /\ \A k : Block(k)' = At(m, n, k)
    BY DEF Setup, Block, At
  <2>8. Chained(c)'
    BY <2>5, <2>6, <2>7 DEF Chained
  <2>9. QED
    BY <1>2, <1>3, <2>4, <2>7, <2>8 DEF FreeChain
<1>7. QED
  BY <1>5, <1>6 DEF PoolInv

\* An object that is handed out leaves the chain at its head.
LEMMA AllocKeepsPool ==
  ASSUME PoolInv, Alloc
  PROVE  PoolInv' /\ next \in Blocks \ held
<1> USE DEF PoolInv
<1>0. PICK n \in Nat : n = free_blocks
  BY DEF TypeOK
<1>1. PICK c \in Bijection(1 .. n, Blocks \ held) : Chained(c)
  BY <1>0 DEF FreeChain
<1>2. /\ c \in [1 .. n -> Blocks \ held]
      /\ \A i, j \in 1 .. n : c[i] = c[j] => i = j
      /\ \A p \in Blocks \ held : \E i \in 1 .. n : c[i] = p
  BY <1>1 DEF Bijection, Injection, Surjection, IsInjective
<1>3. n \in Nat \ {0} /\ free_blocks = n /\ free_blocks' = n - 1
  BY <1>0 DEF Alloc, TypeOK
<1>4. c[1] = next /\ next \in Blocks \ held
  BY <1>1, <1>2, <1>3 DEF Chained
<1>10. size # 0
  BY <1>4 DEF Blocks, Objects, TypeOK
<1>5. Blocks' = Blocks /\ \A k : Block(k)' = Block(k)
  BY DEF Alloc, Blocks, Block
<1>6. free_blocks' # 0 => next' = c[2]
  BY <1>1, <1>3, <1>4 DEF Alloc, Chained
<1>7. TypeOK'
  <2>1. next' \in Blocks \cup {0} /\ next' \in Nat
    <3>1. CASE free_blocks' = 0
      BY <3>1 DEF Alloc
    <3>2. CASE free_blocks' # 0
      <4>1. c[2] \in Blocks
        BY <1>2, <1>3, <3>2
      <4>2. QED
        BY <1>6, <3>2, <4>1, BlockAddress
    <3>3. QED
      BY <3>1, <3>2
  <2>2. next \in Nat
    BY DEF TypeOK
  <2>3. word' \in [Blocks -> Nat]
    BY DEF Alloc, TypeOK
  <2>4. QED
    BY <1>3, <1>4, <1>5, <1>10, <2>1, <2>2, <2>3 DEF Alloc, TypeOK
<1>8. FreeChain'
  <2>0. PICK d : d = [i \in 1 .. n - 1 |-> c[i + 1]]
    OBVIOUS
  <2>1. \A i \in 1 .. n - 1 : i + 1 \in 1 .. n /\ i + 1 # 1
    BY <1>3
  <2>2. \A i \in 1 .. n - 1 : c[i + 1] \in Blocks \ (held \cup {next})
    BY <1>2, <1>3, <1>4, <2>1
  <2>3. \A i, j \in 1 .. n - 1 : d[i] = d[j] => i = j
    <3>1. SUFFICES ASSUME NEW i \in 1 .. n - 1, NEW j \in 1 .. n - 1,
                          c[i + 1] = c[j + 1]
                   PROVE  i = j
      BY <2>0
    <3>2. i + 1 = j + 1
      BY <1>2, <2>1, <3>1
    <3>3. QED
      BY <1>3, <3>2
  <2>4. ASSUME NEW p \in Blocks \ (held \cup {next})
        PROVE  \E i \in 1 .. n - 1 : d[i] = p
    <3>1. PICK k \in 1 .. n : c[k] = p
      BY <1>2
    <3>2. k # 1
      BY <1>4, <3>1
    <3>3. k - 1 \in 1 .. n - 1 /\ (k - 1) + 1 = k
      BY <1>3, <3>1, <3>2
    <3>4. d[k - 1] = p
      BY <2>0, <3>1, <3>3
    <3>5. QED
      BY <3>3, <3>4
  <2>5. d \in Bijection(1 .. n - 1, Blocks \ (held \cup {next}))
    BY <2>0, <2>2, <2>3, <2>4 DEF Bijection, Injection, Surjection, IsInjective
  <2>6. n - 1 # 0 => d[1] = next'
    BY <1>3, <1>6, <2>0
  <2>7. ASSUME NEW i \in 1 .. (n - 1) - 1
        PROVE  Block(word'[d[i]]) = d[i + 1]
    <3>1. /\ i \in 1 .. n - 1 /\ i + 1 \in 1 .. n - 1
          /\ (i + 1) + 1 \in 1 .. n
      BY <1>3
    <3>2. d[i] = c[i + 1] /\ d[i + 1] = c[(i + 1) + 1]
      BY <2>0, <3>1
    <3>3. word'[c[i + 1]] = word[c[i + 1]]
      BY <2>2, <3>1 DEF Alloc, TypeOK
    <3>4. QED
      BY <1>1, <1>3, <3>1, <3>2, <3>3 DEF Chained
  <2>8. Chained(d)'
    BY <1>3, <1>5, <2>6, <2>7 DEF Chained
  <2>9. QED
    BY <1>3, <1>5, <2>5, <2>8 DEF FreeChain, Alloc
<1>9. QED
  BY <1>4, <1>7, <1>8

\* An object that is given back becomes the head of the chain.
LEMMA PushKeepsPool ==
  ASSUME PoolInv, NEW p \in held, Push(p)
  PROVE  PoolInv'
<1> USE DEF PoolInv
<1>0. PICK n \in Nat : n = free_blocks
  BY DEF TypeOK
<1>1. PICK c \in Bijection(1 .. n, Blocks \ held) : Chained(c)
  BY <1>0 DEF FreeChain
<1>2. /\ c \in [1 .. n -> Blocks \ held]
      /\ \A i, j \in 1 .. n : c[i] = c[j] => i = j
      /\ \A q \in Blocks \ held : \E i \in 1 .. n : c[i] = q
  BY <1>1 DEF Bijection, Injection, Surjection, IsInjective
<1>3. p \in Blocks /\ p \in Nat \ {0}
  BY BlockAddress DEF TypeOK
<1>4. size # 0
  BY <1>3 DEF Blocks, Objects, TypeOK
<1>5. Blocks' = Blocks /\ \A k : Block(k)' = Block(k)
  BY DEF Push, Blocks, Block
<1>6. next # 0 => next \in Blocks /\ Index(next) \in Nat /\ Block(Index(next)) = next
  <2>1. next # 0 => next \in Blocks
    BY <1>4 DEF TypeOK
  <2>2. QED
    BY <2>1, BlockAddress
<1>7. TypeOK'
  <2>1. word' \in [Blocks -> Nat]
    BY <1>3, <1>6 DEF Push, TypeOK
  <2>2. QED
    BY <1>3, <1>4, <1>5, <2>1 DEF Push, TypeOK
<1>8. FreeChain'
  <2>0. PICK d : d = [i \in 1 .. n + 1 |-> IF i = 1 THEN p ELSE c[i - 1]]
    OBVIOUS
  <2>1. d[1] = p /\ \A i \in 1 .. n : i + 1 \in 1 .. n + 1 /\ d[i + 1] = c[i]
    BY <2>0
  <2>2. ASSUME NEW i \in 1 .. n + 1, i # 1
        PROVE  i - 1 \in 1 .. n /\ d[i] = c[i - 1]
    <3>1. i - 1 \in 1 .. n
      BY <2>2
    <3>2. QED
      BY <2>0, <2>2, <3>1
  <2>3. d \in [1 .. n + 1 -> Blocks \ (held \ {p})]
    <3>1. \A i \in 1 .. n + 1 : d[i] \in Blocks \ (held \ {p})
      BY <1>2, <1>3, <2>1, <2>2
    <3>2. QED
      BY <2>0, <3>1
  <2>4. ASSUME NEW i \in 1 .. n + 1, NEW j \in 1 .. n + 1, d[i] = d[j]
        PROVE  i = j
    <3>1. \A k \in 1 .. n : c[k] # p
      BY <1>2
    <3>2. CASE i = 1
      BY <2>1, <2>2, <2>4, <3>1, <3>2
    <3>3. CASE j = 1
      BY <2>1, <2>2, <2>4, <3>1, <3>3
    <3>4. CASE i # 1 /\ j # 1
      <4>1. i - 1 = j - 1
        BY <1>2, <2>2, <2>4, <3>4
      <4>2. QED
        BY <4>1
    <3>5. QED
      BY <3>2, <3>3, <3>4
  <2>5. ASSUME NEW q \in Blocks \ (held \ {p})
        PROVE  \E i \in 1 .. n + 1 : d[i] = q
    <3>1. CASE q = p
      BY <2>1, <3>1
    <3>2. CASE q # p
      <4>1. PICK k \in 1 .. n : c[k] = q
        BY <1>2, <3>2
      <4>2. k + 1 \in 1 .. n + 1 /\ d[k + 1] = q
        BY <2>1, <4>1
      <4>3. QED
        BY <4>2
    <3>3. QED
      BY <3>1, <3>2
  <2>6. d \in Bijection(1 .. n + 1, Blocks \ (held \ {p}))
    BY <2>3, <2>4, <2>5 DEF Bijection, Injection, Surjection, IsInjective
  <2>7. ASSUME NEW i \in 1 .. n
        PROVE  Block(word'[d[i]]) = d[i + 1]
    <3>1. CASE i = 1
      <4>1. next = c[1] /\ c[1] \in Blocks
        BY <1>0, <1>1, <1>2, <3>1 DEF Chained
      <4>2. next # 0
        BY <4>1, BlockAddress
      <4>3. word'[p] = Index(next)
        BY <1>3, <4>2 DEF Push, TypeOK
      <4>4. d[2] = c[1]
        BY <2>1, <3>1
      <4>5. QED
        BY <1>6, <2>1, <3>1, <4>1, <4>2, <4>3, <4>4
    <3>2. CASE i # 1
      <4>1. i - 1 \in 1 .. n /\ i - 1 \in 1 .. n - 1 /\ (i - 1) + 1 = i
        BY <3>2
      <4>2. d[i] = c[i - 1] /\ d[i + 1] = c[i]
        BY <2>1, <4>1
      <4>3. word'[c[i - 1]] = word[c[i - 1]]
        BY <1>2, <4>1 DEF Push, TypeOK
      <4>4. Block(word[c[i - 1]]) = c[i]
        BY <1>0, <1>1, <4>1 DEF Chained
      <4>5. QED
        BY <4>2, <4>3, <4>4
    <3>3. QED
      BY <3>1, <3>2
  <2>8. Chained(d)'
    BY <1>0, <1>5, <2>1, <2>7 DEF Chained, Push
  <2>9. QED
    BY <1>0, <1>5, <2>6, <2>8 DEF FreeChain, Push
<1>9. QED
  BY <1>7, <1>8

\* What a client writes to its objects is not in the chain.
LEMMA WriteKeepsPool ==
  ASSUME PoolInv, Write
  PROVE  PoolInv'
<1> USE DEF PoolInv
<1>1. PICK p \in held : \E v \in Value : word' = [word EXCEPT ![p] = v]
  BY DEF Write
<1>2. PICK v \in Value : word' = [word EXCEPT ![p] = v]
  BY <1>1
<1>3. Blocks' = Blocks /\ \A k : Block(k)' = Block(k)
  BY DEF Write, Blocks, Block
<1>4. TypeOK'
  BY <1>2, <1>3, ObjPoolAssumption DEF Write, TypeOK
<1>5. PICK c \in Bijection(1 .. free_blocks, Blocks \ held) : Chained(c)
  BY DEF FreeChain
<1>6. \A i \in 1 .. free_blocks : c[i] \in Blocks \ held
  BY <1>5 DEF Bijection, Injection
<1>7. \A i \in 1 .. free_blocks - 1 : i \in 1 .. free_blocks
  BY DEF TypeOK
<1>8. \A i \in 1 .. free_blocks - 1 : word'[c[i]] = word[c[i]]
  BY <1>2, <1>6, <1>7 DEF TypeOK
<1>9. Chained(c)'
  BY <1>3, <1>5, <1>8 DEF Chained, Write
<1>10. QED
  BY <1>3, <1>4, <1>5, <1>9 DEF FreeChain, Write

\* A pool that was cleared, or for which no memory was found.
NoObjects ==
  /\ mem = 0 /\ next = 0 /\ size = 0 /\ objsize = 0 /\ free_blocks = 0
  /\ word = [p \in {} |-> 0] /\ held = {} /\ got \in Nat

\* A pool without memory has no objects, and the invariant holds of it.
LEMMA EmptyPool == NoObjects => PoolInv
<1> SUFFICES ASSUME NoObjects
             PROVE  PoolInv
  OBVIOUS
<1> USE DEF NoObjects
<1>1. Blocks = {} /\ 1 .. free_blocks = {}
  BY DEF Blocks, Objects
<1>2. TypeOK
  BY <1>1 DEF TypeOK
<1>3. PICK c : c = [i \in {} |-> 0]
  OBVIOUS
<1>4. c \in Bijection(1 .. free_blocks, Blocks \ held)
  BY <1>1, <1>3 DEF Bijection, Injection, Surjection, IsInjective
<1>5. Chained(c)
  BY DEF Chained
<1>6. QED
  BY <1>2, <1>4, <1>5 DEF PoolInv, FreeChain
----------------------------------------------------------------------------
\* The type invariant and the free chain hold together: neither is inductive alone.
THEOREM PoolInvariance == Spec => []PoolInv
<1>1. Init => PoolInv
  BY EmptyPool DEF Init, NoObjects
<1>2. PoolInv /\ [Next]_vars => PoolInv'
  <2> SUFFICES ASSUME PoolInv, [Next]_vars
               PROVE  PoolInv'
    OBVIOUS
  <2>1. CASE Make
    <3>1. PICK m \in Base, n \in ObjSizes, l \in Lens :
            n # 0 /\ l # 0 /\ Setup(m, Aligned(n), l)
      BY <2>1 DEF Make
    <3>2. Aligned(n) \in Nat \ {0}
      BY <3>1, ObjPoolAssumption, AlignedPositive
    <3>3. QED
      BY <2>1, <3>1, <3>2, SetupKeepsPool DEF Make
  <2>2. CASE MakeFromBuffer
    <3>1. PICK m \in Base, n \in ObjSizes, l \in Lens :
            n >= Word /\ Setup(m, Aligned(n), l)
      BY <2>2 DEF MakeFromBuffer
    <3>2. n \in Nat \ {0}
      BY <3>1, ObjPoolAssumption
    <3>3. Aligned(n) \in Nat \ {0}
      BY <3>2, AlignedPositive
    <3>4. QED
      BY <2>2, <3>1, <3>3, SetupKeepsPool DEF MakeFromBuffer
  <2>3. CASE Clear
    <3>1. NoObjects'
      BY <2>3 DEF Clear, NoObjects, PoolInv, TypeOK
    <3>2. QED
      BY <3>1, EmptyPool, PTL
  <2>4. CASE Alloc
    BY <2>4, AllocKeepsPool
  <2>5. CASE AllocFails
    BY <2>5 DEF AllocFails, PoolInv, TypeOK, FreeChain, Chained, Blocks, Block
  <2>6. CASE Free
    <3>1. CASE UNCHANGED vars
      BY <3>1 DEF vars, PoolInv, TypeOK, FreeChain, Chained, Blocks, Block
    <3>2. CASE \E p \in held : Push(p)
      BY <3>2, PushKeepsPool
    <3>3. QED
      BY <2>6, <3>1, <3>2 DEF Free
  <2>7. CASE Write
    BY <2>7, WriteKeepsPool
  <2>8. CASE UNCHANGED vars
    BY <2>8 DEF vars, PoolInv, TypeOK, FreeChain, Chained, Blocks, Block
  <2>9. QED
    BY <2>1, <2>2, <2>3, <2>4, <2>5, <2>6, <2>7, <2>8 DEF Next
<1>3. QED
  BY <1>1, <1>2, PTL DEF Spec

\* Every reachable state of a pool is type correct (objpool.c).
THEOREM PoolTypeCorrect == Spec => []TypeOK
BY PoolInvariance, PTL DEF PoolInv

\* No object is lost from the chain or twice on it, however objects are allocated, written
\* and given back (objpool.c:80, 99).
THEOREM ChainComplete == Spec => []FreeChain
BY PoolInvariance, PTL DEF PoolInv

\* The pool implements SlotPool, whatever its size and whatever clients write.
THEOREM Refinement == Spec => ImplementsSlots
<1> DEFINE content == [p \in held |-> word[p]]
<1>1. Init => SP!SPInit
  <2> SUFFICES ASSUME Init
               PROVE  SP!SPInit
    OBVIOUS
  <2>1. Blocks = {} /\ held = {} /\ got = 0
    BY DEF Init, Blocks, Objects
  <2>2. QED
    BY <2>1 DEF SP!SPInit, SP!Nothing
<1>2. PoolInv /\ [Next]_vars => [SP!SPNext]_(SP!spVars)
  <2> SUFFICES ASSUME PoolInv, [Next]_vars
               PROVE  [SP!SPNext]_(SP!spVars)
    OBVIOUS
  <2> USE DEF SP!SPNext, SP!spVars
  <2>1. ASSUME NEW m \in Base, NEW n \in Nat \ {0}, NEW l \in Lens, mem = 0, Setup(m, n, l)
        PROVE  SP!Create
    <3>1. Blocks = {} /\ held = {}
      BY <2>1 DEF PoolInv, TypeOK, Blocks, Objects
    <3>2. content' = content /\ got' = got
      BY <2>1, <3>1 DEF Setup
    <3>3. TypeOK'
      BY <2>1, SetupKeepsPool DEF PoolInv
    <3>4. \A i \in Nat : At(m, n, i) \in Nat \ {0}
      <4> SUFFICES ASSUME NEW i \in Nat
                   PROVE  At(m, n, i) \in Nat \ {0}
        OBVIOUS
      <4>1. i * n \in Nat
        BY SMT
      <4>2. QED
        BY <4>1, ObjPoolAssumption DEF At
    <3>5. Blocks' \in SUBSET (Nat \ {0})
      BY <2>1, <3>4, ObjPoolAssumption DEF Blocks, Objects, Setup
    <3>6. QED
      BY <3>1, <3>2, <3>5 DEF SP!Create
  <2>2. CASE Make
    <3>1. PICK m \in Base, n \in ObjSizes, l \in Lens : n # 0 /\ Setup(m, Aligned(n), l)
      BY <2>2 DEF Make
    <3>2. Aligned(n) \in Nat \ {0}
      BY <3>1, ObjPoolAssumption, AlignedPositive
    <3>3. QED
      BY <2>1, <2>2, <3>1, <3>2 DEF Make
  <2>3. CASE MakeFromBuffer
    <3>1. PICK m \in Base, n \in ObjSizes, l \in Lens : n >= Word /\ Setup(m, Aligned(n), l)
      BY <2>3 DEF MakeFromBuffer
    <3>2. n \in Nat \ {0}
      BY <3>1, ObjPoolAssumption
    <3>3. Aligned(n) \in Nat \ {0}
      BY <3>2, AlignedPositive
    <3>4. QED
      BY <2>1, <2>3, <3>1, <3>3 DEF MakeFromBuffer
  <2>4. CASE Clear
    <3>1. Blocks' = {} /\ held' = {} /\ got' = got
      BY <2>4 DEF Clear, Blocks, Objects
    <3>2. QED
      BY <3>1 DEF SP!Destroy, SP!Nothing
  <2>5. CASE Alloc
    <3>1. next \in Blocks \ held
      BY <2>5, AllocKeepsPool
    <3>2. Blocks' = Blocks /\ got' = next /\ held' = held \cup {next}
      BY <2>5 DEF Alloc, Blocks
    <3>3. \A p \in held' : word'[p] = IF p = next THEN 0 ELSE word[p]
      BY <2>5, <3>1, <3>2 DEF Alloc, PoolInv, TypeOK
    <3>4. content' = [p \in DOMAIN content \cup {next} |-> IF p = next THEN 0 ELSE content[p]]
      BY <3>1, <3>2, <3>3
    <3>5. QED
      BY <3>1, <3>2, <3>4 DEF SP!Request
  <2>6. CASE AllocFails
    <3>1. Blocks \ held = {}
      <4>1. PICK c \in Bijection(1 .. free_blocks, Blocks \ held) : TRUE
        BY DEF PoolInv, FreeChain
      <4>2. 1 .. free_blocks = {}
        BY <2>6 DEF AllocFails
      <4>3. QED
        BY <4>1, <4>2 DEF Bijection, Surjection
    <3>2. held = Blocks
      BY <3>1 DEF PoolInv, TypeOK
    <3>3. Blocks' = Blocks /\ content' = content /\ got' = 0
      BY <2>6 DEF AllocFails, Blocks
    <3>4. QED
      BY <3>2, <3>3 DEF SP!Request
  <2>7. CASE Free
    <3>1. CASE UNCHANGED vars
      BY <3>1 DEF vars, Blocks
    <3>2. ASSUME NEW p \in held, Push(p)
          PROVE  SP!Return
      <4>1. Blocks' = Blocks /\ got' = got /\ held' = held \ {p}
        BY <3>2 DEF Push, Blocks
      <4>2. \A q \in held' : word'[q] = word[q]
        BY <3>2, <4>1 DEF Push, PoolInv, TypeOK
      <4>3. content' = [q \in DOMAIN content \ {p} |-> content[q]]
        BY <4>1, <4>2
      <4>4. QED
        BY <4>1, <4>3 DEF SP!Return
    <3>3. QED
      BY <2>7, <3>1, <3>2 DEF Free
  <2>8. CASE Write
    <3>1. PICK p \in held : \E v \in Value : word' = [word EXCEPT ![p] = v]
      BY <2>8 DEF Write
    <3>2. PICK v \in Value : word' = [word EXCEPT ![p] = v]
      BY <3>1
    <3>3. Blocks' = Blocks /\ got' = got /\ held' = held
      BY <2>8 DEF Write, Blocks
    <3>4. content' = [content EXCEPT ![p] = v]
      BY <3>2, <3>3 DEF PoolInv, TypeOK
    <3>5. QED
      BY <3>2, <3>3, <3>4 DEF SP!Update
  <2>9. CASE UNCHANGED vars
    BY <2>9 DEF vars, Blocks
  <2>10. QED
    BY <2>2, <2>3, <2>4, <2>5, <2>6, <2>7, <2>8, <2>9 DEF Next
<1>3. QED
  BY <1>1, <1>2, PoolInvariance, PTL DEF Spec, ImplementsSlots, SP!SPSpec
----------------------------------------------------------------------------
(* Region and double-ended stack.                                          *)

\* The blocks of bs lie between lo and hi.
Within(bs, lo, hi) ==
  \A b \in bs : b.at \in Nat /\ b.size \in Nat /\ lo <= b.at /\ b.at + b.size <= hi

\* What a region hands out lies above its offset and is all the memory there.
RegionInv ==
  /\ region_wild = FALSE
  /\ \/ region = NoRegion /\ region_held = {}
     \/ /\ region \in [mem : Places, size : Spans, offs : Nat]
        /\ region.mem <= region.offs /\ region.offs <= region.mem + region.size
        /\ Within(region_held, region.offs, region.mem + region.size) /\ Apart(region_held)
        /\ Filled(region_held, region.offs, region.mem + region.size)

\* The same of both ends of a double-ended stack, whose offsets have not passed each other.
BistackInv ==
  \/ bistack = NoBistack /\ front_held = {} /\ back_held = {}
  \/ /\ bistack \in [mem : Places, size : Spans, front : Nat, back : Nat]
     /\ bistack.mem <= bistack.front /\ bistack.front <= bistack.back
     /\ bistack.back <= bistack.mem + bistack.size
     /\ Within(front_held, bistack.mem, bistack.front) /\ Apart(front_held)
     /\ Within(back_held, bistack.back, bistack.mem + bistack.size) /\ Apart(back_held)
     /\ Filled(front_held, bistack.mem, bistack.front)
     /\ Filled(back_held, bistack.back, bistack.mem + bistack.size)

\* The inductive invariant: what is held lies on the far side of the pointers, and is all
\* there is.
ArenasInv ==
  /\ RegionInv
  /\ \/ wild = 0 /\ BistackInv
     \/ wild # 0 /\ wild > bistack.size

\* What the remainder of a number is that has wrapped around at most once.
LEMMA ModWrap ==
  ASSUME NEW M \in Nat \ {0}, NEW x \in Int
  PROVE  /\ x \in 0 .. M - 1 => x % M = x
         /\ x \in M .. 2 * M - 1 => x % M = x - M
         /\ x \in -M .. -1 => x % M = x + M
  OBVIOUS

\* An address that has left the address space at one side comes in at the other.
LEMMA Wraps ==
  ASSUME AddrMax \in Nat \ {0}, NEW x \in Int
  PROVE  /\ x \in 0 .. AddrMax - 1 => Wrapped(x) = x
         /\ x \in AddrMax .. 2 * AddrMax - 1 => Wrapped(x) = x - AddrMax
         /\ x \in -AddrMax .. -1 => Wrapped(x) = x + AddrMax
  BY ModWrap DEF Wrapped

\* Rounding up to a multiple of a pointer's size adds less than one pointer.
LEMMA AlignedUp ==
  ASSUME NEW n \in Nat
  PROVE  /\ Align(n, PtrBytes) \in Nat
         /\ n <= Align(n, PtrBytes) /\ Align(n, PtrBytes) <= n + 7
         /\ Align(n, PtrBytes) % PtrBytes = 0
  BY DEF Align, PtrBytes

\* A request is rounded up, or so large that it is rounded to nothing.
LEMMA RoundedUp ==
  ASSUME NEW n \in Asks, AddrMax # 0
  PROVE  /\ n \in Nat /\ Rounded(n) \in Nat /\ Rounded(n) < AddrMax
         /\ \/ n <= Rounded(n) /\ Rounded(n) <= n + 7
            \/ Rounded(n) = 0 /\ n > AddrMax - 8
<1>1. n \in Nat /\ n < AddrMax /\ AddrMax \in Nat /\ AddrMax % 8 = 0
  BY ArenasAssumption DEF PtrBytes
<1> DEFINE a == Align(n, PtrBytes)
<1>2. a \in Nat /\ n <= a /\ a <= n + 7 /\ a % 8 = 0
  BY <1>1, AlignedUp DEF PtrBytes
<1> HIDE DEF a
<1>3. a <= AddrMax
  BY <1>1, <1>2
<1>4. CASE a = AddrMax
  <2>1. Rounded(n) = 0
    <3>1. Wrapped(a) = 0
      BY <1>1, <1>2, <1>4, Wraps
    <3> QED BY <3>1 DEF Rounded, a
  <2> QED BY <1>1, <1>2, <1>4, <2>1
<1>5. CASE a < AddrMax
  <2>1. Rounded(n) = a
    <3>1. Wrapped(a) = a
      BY <1>1, <1>2, <1>5, Wraps
    <3> QED BY <3>1 DEF Rounded, a
  <2> QED BY <1>1, <1>2, <1>5, <2>1
<1> QED BY <1>1, <1>2, <1>3, <1>4, <1>5

\* An arena has room around it.
LEMMA Room ==
  ASSUME NEW a \in Places, NEW n \in Spans
  PROVE  /\ a \in Nat /\ n \in Nat /\ a # 0 /\ AddrMax \in Nat /\ AddrMax # 0
         /\ n + 8 <= a /\ a + 2 * n + 8 < AddrMax
  BY ArenasAssumption DEF PtrBytes

\* Blocks between two places and a block beside them.
LEMMA AddBlock ==
  ASSUME NEW bs, NEW lo \in Nat, NEW hi \in Nat, Within(bs, lo, hi), Apart(bs),
         NEW at \in Nat, NEW n \in Nat, at + n <= lo \/ hi <= at
  PROVE  Apart(bs \cup {BlockAt(at, n)})
<1> DEFINE new == BlockAt(at, n)
<1>1. new.at = at /\ new.size = n
  BY DEF BlockAt
<1>2. ASSUME NEW b \in bs PROVE Bytes(b) \cap Bytes(new) = {}
  <2>1. b.at \in Nat /\ b.size \in Nat /\ lo <= b.at /\ b.at + b.size <= hi
    BY <1>2 DEF Within
  <2> HIDE DEF new
  <2> QED BY <1>1, <2>1 DEF Bytes
<1> HIDE DEF new
<1>3. SUFFICES ASSUME NEW b \in bs \cup {new}, NEW c \in bs \cup {new}, b # c
               PROVE  Bytes(b) \cap Bytes(c) = {}
  BY DEF Apart, new
<1>4. CASE b \in bs /\ c \in bs
  BY <1>3, <1>4 DEF Apart
<1> QED BY <1>2, <1>3, <1>4

\* Memory handed out grows by a block below or above it.
LEMMA FilledNone == ASSUME NEW a \in Int PROVE Filled({}, a, a)
<1>1. a .. a - 1 = {}
  OBVIOUS
<1> QED BY <1>1 DEF Filled

\* A block cut off below the blocks of an arena leaves no gap.
LEMMA FilledBelow ==
  ASSUME NEW bs, NEW a \in Int, NEW n \in Nat, NEW c \in Int, a + n <= c, Filled(bs, a + n, c)
  PROVE  Filled(bs \cup {BlockAt(a, n)}, a, c)
<1>1. Bytes(BlockAt(a, n)) = a .. a + n - 1
  BY DEF Bytes, BlockAt
<1>2. (a + n .. c - 1) \cup (a .. a + n - 1) = a .. c - 1
  OBVIOUS
<1>3. UNION {Bytes(b) : b \in bs \cup {BlockAt(a, n)}} 
          = (UNION {Bytes(b) : b \in bs}) \cup Bytes(BlockAt(a, n))
  OBVIOUS
<1> QED BY <1>1, <1>2, <1>3 DEF Filled

\* A block cut off above the blocks of an arena leaves no gap.
LEMMA FilledAbove ==
  ASSUME NEW bs, NEW a \in Int, NEW b \in Int, NEW n \in Nat, a <= b, Filled(bs, a, b)
  PROVE  Filled(bs \cup {BlockAt(b, n)}, a, b + n)
<1>1. Bytes(BlockAt(b, n)) = b .. b + n - 1
  BY DEF Bytes, BlockAt
<1>2. (a .. b - 1) \cup (b .. b + n - 1) = a .. b + n - 1
  OBVIOUS
<1>3. UNION {Bytes(x) : x \in bs \cup {BlockAt(b, n)}} 
          = (UNION {Bytes(x) : x \in bs}) \cup Bytes(BlockAt(b, n))
  OBVIOUS
<1> QED BY <1>1, <1>2, <1>3 DEF Filled

\* harbol_region_* keep the invariant and leave the double-ended stack alone.
LEMMA RegionStep == ASSUME ArenasInv, RegionNext PROVE ArenasInv'
<1>0. RegionInv
  BY DEF ArenasInv
<1>1. RegionInv' => ArenasInv'
  BY DEF RegionNext, RegionMake, RegionClear, RegionAlloc, BistackInv, ArenasInv
<1>2. CASE RegionMake
  <2>1. PICK a \in Places, n \in Spans : region' = [mem |-> a, size |-> n, offs |-> a + n]
    BY <1>2 DEF RegionMake
  <2>2. region_held' = {} /\ region_wild' = FALSE
    BY <1>0, <1>2, ArenasAssumption DEF RegionMake, RegionInv
  <2>3. region'.offs = region'.mem + region'.size /\ region'.mem + region'.size \in Nat
    BY <2>1, Room
  <2>4. Filled(region_held', region'.offs, region'.mem + region'.size)
    <3>1. a + n \in Int
      BY Room
    <3>2. Filled(region_held', a + n, a + n)
      BY <2>2, <3>1, FilledNone
    <3>3. region'.offs = a + n /\ region'.mem = a /\ region'.size = n
      BY <2>1
    <3> QED BY <3>2, <3>3
  <2>5. /\ region' \in [mem : Places, size : Spans, offs : Nat]
        /\ region'.mem <= region'.offs /\ region'.offs <= region'.mem + region'.size
    BY <2>1, Room
  <2> QED BY <1>1, <2>2, <2>4, <2>5 DEF RegionInv, Within, Apart
<1>3. CASE RegionClear
  BY <1>0, <1>1, <1>3 DEF RegionClear, RegionInv
<1>4. CASE RegionAlloc
  <2>1. PICK n \in Asks :
          LET at == Wrapped(region.offs - Rounded(n))
          IN  /\ RegionFits(n)
              /\ region' = [region EXCEPT !.offs = at]
              /\ region_held' = region_held \cup {BlockAt(at, Rounded(n))}
              /\ region_wild' = (region_wild \/ Wrong(at, n, region))
    BY <1>4 DEF RegionAlloc
  <2>2. /\ region \in [mem : Places, size : Spans, offs : Nat]
        /\ region.mem <= region.offs /\ region.offs <= region.mem + region.size
        /\ Within(region_held, region.offs, region.mem + region.size) /\ Apart(region_held)
    BY <1>0, <2>1 DEF RegionFits, RegionInv, NoRegion
  <2>15. Filled(region_held, region.offs, region.mem + region.size)
    BY <1>0, <2>1 DEF RegionFits, RegionInv, NoRegion
  <2> DEFINE R == Rounded(n)
             at == Wrapped(region.offs - R)
  <2>3. /\ region.mem \in Nat /\ region.size \in Nat /\ region.offs \in Nat /\ AddrMax \in Nat \ {0}
        /\ region.size + 8 <= region.mem /\ region.mem + 2 * region.size + 8 < AddrMax
    BY <2>2, Room
  <2>4. n \in Nat /\ n # 0 /\ n <= region.size
    BY <2>1, RoundedUp, <2>3 DEF RegionFits
  <2>5. R \in Nat /\ n <= R /\ R <= n + 7
    BY <2>3, <2>4, RoundedUp
  <2>13. Wrong(at, n, region)
          <=> R < n \/ (n > 0 /\ (at < region.mem \/ at + R > region.mem + region.size))
    BY DEF Wrong
  <2> HIDE DEF R
  <2>6. at = region.offs - R /\ at \in Nat
    <3>1. region.offs - R \in 0 .. AddrMax - 1
      BY <2>2, <2>3, <2>4, <2>5
    <3> QED BY <2>3, <2>5, <3>1, Wraps
  <2>7. region.mem <= at
    BY <2>1 DEF RegionFits, R
  <2> HIDE DEF at
  <2>8. region' = [region EXCEPT !.offs = at] /\ region_held' = region_held \cup {BlockAt(at, R)}
        /\ region_wild' = (region_wild \/ Wrong(at, n, region))
    BY <2>1 DEF at, R
  <2>16. ~Wrong(at, n, region)
    BY <2>2, <2>3, <2>4, <2>5, <2>6, <2>7, <2>13
  <2>9. region_wild' = FALSE
    BY <1>0, <2>8, <2>16 DEF RegionInv
  <2>10. Apart(region_held')
    BY <2>2, <2>3, <2>5, <2>6, <2>8, AddBlock
  <2>11. Within(region_held', at, region.mem + region.size)
    BY <2>2, <2>3, <2>5, <2>6, <2>8 DEF Within, BlockAt
  <2>12. /\ region' \in [mem : Places, size : Spans, offs : Nat]
         /\ region'.mem = region.mem /\ region'.size = region.size /\ region'.offs = at
    BY <2>2, <2>6, <2>8
  <2>14. Filled(region_held', at, region.mem + region.size)
    <3>1. at + R = region.offs /\ region.mem + region.size \in Int /\ at + R <= region.mem + region.size
      BY <2>2, <2>3, <2>5, <2>6
    <3>2. Filled(region_held, at + R, region.mem + region.size)
      BY <2>15, <3>1
    <3> QED BY <2>5, <2>6, <2>8, <3>1, <3>2, FilledBelow
  <2> QED BY <1>1, <2>2, <2>3, <2>5, <2>6, <2>7, <2>9, <2>10, <2>11, <2>12, <2>14
          DEF RegionInv
<1> QED BY <1>2, <1>3, <1>4 DEF RegionNext

\* A stack that has handed nothing out.
LEMMA EmptyStack ==
  ASSUME NEW a \in Places, NEW n \in Spans,
         bistack' = Empty(a, n), front_held' = {}, back_held' = {}
  PROVE  BistackInv'
<1>1. /\ bistack' \in [mem : Places, size : Spans, front : Nat, back : Nat]
      /\ bistack'.mem = a /\ bistack'.size = n /\ bistack'.front = a /\ bistack'.back = a + n
      /\ a \in Nat /\ n \in Nat
  BY Room DEF Empty
<1>2. Filled(front_held', a, a) /\ Filled(back_held', a + n, a + n)
  BY <1>1, FilledNone
<1>3. Filled(front_held', bistack'.mem, bistack'.front)
      /\ Filled(back_held', bistack'.back, bistack'.mem + bistack'.size)
  BY <1>1, <1>2
<1> QED BY <1>1, <1>3 DEF BistackInv, Within, Apart

\* Steps of a double-ended stack that hand nothing out.
LEMMA Rebuilt ==
  ASSUME wild = 0, RegionInv, BistackInv,
         BistackMake \/ BistackClear \/ ResetFront \/ ResetBack \/ ResetAll \/ Resize
  PROVE  ArenasInv'
<1>1. RegionInv' /\ wild' = 0
  BY DEF BistackMake, BistackClear, ResetFront, ResetBack, ResetAll, Reset, Resize, RegionInv
<1>2. CASE BistackMake
  <2>1. PICK a \in Places, n \in Spans : bistack' = Empty(a, n)
    BY <1>2 DEF BistackMake
  <2>2. front_held' = {} /\ back_held' = {}
    BY <1>2, ArenasAssumption DEF BistackMake, BistackInv
  <2> QED BY <1>1, <2>1, <2>2, EmptyStack DEF ArenasInv
<1>3. CASE Resize
  <2>1. PICK a \in Places, n \in Spans \ {0} : bistack' = Empty(a, n)
    BY <1>3 DEF Resize
  <2>2. front_held' = {} /\ back_held' = {}
    BY <1>3 DEF Resize
  <2> QED BY <1>1, <2>1, <2>2, EmptyStack DEF ArenasInv
<1>4. CASE BistackClear
  BY <1>1, <1>4 DEF BistackClear, ArenasInv, BistackInv
<1>5. CASE ResetFront \/ ResetBack \/ ResetAll
  <2>1. PICK f \in BOOLEAN, b \in BOOLEAN : Reset(f, b)
    BY <1>5 DEF ResetFront, ResetBack, ResetAll
  <2>2. /\ bistack \in [mem : Places, size : Spans, front : Nat, back : Nat]
        /\ bistack.mem <= bistack.front /\ bistack.front <= bistack.back
        /\ bistack.back <= bistack.mem + bistack.size
        /\ Within(front_held, bistack.mem, bistack.front) /\ Apart(front_held)
        /\ Within(back_held, bistack.back, bistack.mem + bistack.size) /\ Apart(back_held)
        /\ Filled(front_held, bistack.mem, bistack.front)
        /\ Filled(back_held, bistack.back, bistack.mem + bistack.size)
    BY <2>1 DEF Reset, BistackInv, NoBistack
  <2>3. bistack.mem \in Nat /\ bistack.size \in Nat
    BY <2>2, Room
  <2>4. /\ bistack' \in [mem : Places, size : Spans, front : Nat, back : Nat]
        /\ bistack'.mem = bistack.mem /\ bistack'.size = bistack.size
        /\ bistack'.front = IF f THEN bistack.mem ELSE bistack.front
        /\ bistack'.back = IF b THEN bistack.mem + bistack.size ELSE bistack.back
    <3> DEFINE front == IF f THEN bistack.mem ELSE bistack.front
               back  == IF b THEN bistack.mem + bistack.size ELSE bistack.back
    <3>1. bistack' = [bistack EXCEPT !.front = front, !.back = back]
      BY <2>1 DEF Reset
    <3>2. front \in Nat /\ back \in Nat
      BY <2>2, <2>3
    <3> HIDE DEF front, back
    <3>3. /\ bistack' \in [mem : Places, size : Spans, front : Nat, back : Nat]
          /\ bistack'.mem = bistack.mem /\ bistack'.size = bistack.size
          /\ bistack'.front = front /\ bistack'.back = back
      BY <2>2, <3>1, <3>2
    <3> QED BY <3>3 DEF front, back
  <2>5. Within(front_held', bistack'.mem, bistack'.front) /\ Apart(front_held')
    BY <2>1, <2>2, <2>4 DEF Reset, Within, Apart
  <2>6. Within(back_held', bistack'.back, bistack'.mem + bistack'.size) /\ Apart(back_held')
    BY <2>1, <2>2, <2>4 DEF Reset, Within, Apart
  <2>7. /\ bistack'.mem <= bistack'.front /\ bistack'.front <= bistack'.back
        /\ bistack'.back <= bistack'.mem + bistack'.size
    BY <2>2, <2>3, <2>4
  <2>8. Filled(front_held', bistack'.mem, bistack'.front)
    <3>1. CASE f
      <4>1. front_held' = {}
        BY <2>1, <3>1 DEF Reset
      <4>2. Filled({}, bistack.mem, bistack.mem)
        BY <2>3, FilledNone
      <4> QED BY <2>4, <3>1, <4>1, <4>2
    <3>2. CASE ~f
      <4>1. front_held' = front_held
        BY <2>1, <3>2 DEF Reset
      <4> QED BY <2>2, <2>4, <3>2, <4>1
    <3> QED BY <3>1, <3>2
  <2>9. Filled(back_held', bistack'.back, bistack'.mem + bistack'.size)
    <3>1. CASE b
      <4>1. back_held' = {} /\ bistack.mem + bistack.size \in Int
        BY <2>1, <2>3, <3>1 DEF Reset
      <4>2. Filled({}, bistack.mem + bistack.size, bistack.mem + bistack.size)
        BY <4>1, FilledNone
      <4> QED BY <2>4, <3>1, <4>1, <4>2
    <3>2. CASE ~b
      <4>1. back_held' = back_held
        BY <2>1, <3>2 DEF Reset
      <4> QED BY <2>2, <2>4, <3>2, <4>1
    <3> QED BY <3>1, <3>2
  <2> QED BY <1>1, <2>4, <2>5, <2>6, <2>7, <2>8, <2>9 DEF ArenasInv, BistackInv
<1> QED BY <1>2, <1>3, <1>4, <1>5

\* What is known when a double-ended stack is asked for n bytes.
Asked(n, R) ==
  /\ bistack \in [mem : Places, size : Spans, front : Nat, back : Nat]
  /\ bistack.mem \in Nat /\ bistack.size \in Nat /\ AddrMax \in Nat \ {0}
  /\ bistack.mem <= bistack.front /\ bistack.front <= bistack.back
  /\ bistack.back <= bistack.mem + bistack.size
  /\ bistack.size + 8 <= bistack.mem /\ bistack.mem + 2 * bistack.size + 8 < AddrMax
  /\ Within(front_held, bistack.mem, bistack.front) /\ Apart(front_held)
  /\ Within(back_held, bistack.back, bistack.mem + bistack.size) /\ Apart(back_held)
  /\ n \in Nat /\ R \in Nat /\ R < AddrMax
  /\ \/ n <= R /\ R <= n + 7
     \/ R = 0 /\ n > AddrMax - 8

\* harbol_bistack_alloc_* compare with a sum that has wrapped around only if the request is too large.
LEMMA AskedFor ==
  ASSUME BistackInv, bistack.mem # 0, NEW n \in Asks
  PROVE  Asked(n, Rounded(n))
<1>1. bistack \in [mem : Places, size : Spans, front : Nat, back : Nat]
  BY DEF BistackInv, NoBistack
<1>2. AddrMax \in Nat \ {0} /\ bistack.mem \in Nat /\ bistack.size \in Nat
      /\ bistack.size + 8 <= bistack.mem /\ bistack.mem + 2 * bistack.size + 8 < AddrMax
  BY <1>1, Room
<1>3. bistack # NoBistack
  BY DEF NoBistack
<1>4. n \in Nat /\ Rounded(n) \in Nat /\ Rounded(n) < AddrMax
      /\ \/ n <= Rounded(n) /\ Rounded(n) <= n + 7
         \/ Rounded(n) = 0 /\ n > AddrMax - 8
  BY <1>2, RoundedUp
<1>5. /\ bistack.mem <= bistack.front /\ bistack.front <= bistack.back
      /\ bistack.back <= bistack.mem + bistack.size
      /\ Within(front_held, bistack.mem, bistack.front) /\ Apart(front_held)
      /\ Within(back_held, bistack.back, bistack.mem + bistack.size) /\ Apart(back_held)
  BY <1>3 DEF BistackInv
<1> QED BY <1>1, <1>2, <1>4, <1>5 DEF Asked

\* harbol_bistack_alloc_front keeps the invariant.
LEMMA FrontStep == ASSUME wild = 0, RegionInv, BistackInv, AllocFront PROVE ArenasInv'
<1>1. PICK n \in Asks :
        LET end == Wrapped(bistack.front + Rounded(n))
        IN  /\ end < bistack.back
            /\ bistack' = [bistack EXCEPT !.front = end]
            /\ front_held' = front_held \cup {BlockAt(bistack.front, Rounded(n))}
            /\ wild' = IF Wrong(bistack.front, n, bistack) THEN n ELSE 0
  BY DEF AllocFront
<1> DEFINE R == Rounded(n)
           end == Wrapped(bistack.front + R)
<1>2. Asked(n, R)
  BY AskedFor DEF AllocFront
<1>3. RegionInv' /\ back_held' = back_held
  BY DEF AllocFront, RegionInv
<1>9. bistack # NoBistack
  BY DEF AllocFront, NoBistack
<1>4. Wrong(bistack.front, n, bistack)
        <=> R < n \/ (n > 0 /\ (bistack.front < bistack.mem
                                \/ bistack.front + R > bistack.mem + bistack.size))
  BY DEF Wrong
<1> HIDE DEF R
<1>5. /\ bistack.front \in Nat /\ bistack.back \in Nat
      /\ bistack.front + R < AddrMax => end = bistack.front + R
      /\ bistack.front + R >= AddrMax => end = bistack.front + R - AddrMax
  BY <1>2, Wraps DEF Asked
<1> HIDE DEF end
<1>6. /\ end < bistack.back
      /\ bistack' = [bistack EXCEPT !.front = end]
      /\ front_held' = front_held \cup {BlockAt(bistack.front, R)}
      /\ wild' = IF Wrong(bistack.front, n, bistack) THEN n ELSE 0
  BY <1>1 DEF end, R
<1>7. CASE R < n \/ bistack.front + R >= AddrMax
  <2>1. n > bistack.size /\ n > 0 /\ bistack'.size = bistack.size
    BY <1>2, <1>5, <1>6, <1>7 DEF Asked
  <2>2. Wrong(bistack.front, n, bistack)
    BY <1>2, <1>4, <1>5, <1>7, <2>1 DEF Asked
  <2> QED BY <1>2, <1>3, <1>6, <2>1, <2>2 DEF ArenasInv, Asked
<1>8. CASE ~(R < n \/ bistack.front + R >= AddrMax)
  <2>1. end = bistack.front + R /\ end \in Nat
    BY <1>2, <1>5, <1>8 DEF Asked
  <2>2. ~Wrong(bistack.front, n, bistack)
    BY <1>2, <1>4, <1>5, <1>6, <1>8, <2>1 DEF Asked
  <2>3. Apart(front_held')
    BY <1>2, <1>5, <1>6, AddBlock DEF Asked
  <2>4. Within(front_held', bistack.mem, end)
    BY <1>2, <1>5, <1>6, <2>1 DEF Asked, Within, BlockAt
  <2>5. /\ bistack' \in [mem : Places, size : Spans, front : Nat, back : Nat]
        /\ bistack'.mem = bistack.mem /\ bistack'.size = bistack.size
        /\ bistack'.front = end /\ bistack'.back = bistack.back
    BY <1>2, <1>6, <2>1 DEF Asked
  <2>6. bistack.mem <= end /\ end <= bistack.back
    BY <1>2, <1>5, <1>6, <2>1 DEF Asked
  <2>7. Filled(front_held', bistack.mem, end)
    <3>1. R \in Nat /\ bistack.mem \in Nat /\ bistack.mem <= bistack.front
      BY <1>2 DEF Asked
    <3>3. Filled(front_held, bistack.mem, bistack.front)
      BY <1>9 DEF BistackInv
    <3> QED BY <1>5, <1>6, <2>1, <3>1, <3>3, FilledAbove
  <2> QED BY <1>2, <1>3, <1>6, <1>9, <2>2, <2>3, <2>4, <2>5, <2>6, <2>7 DEF ArenasInv, BistackInv, Asked
<1> QED BY <1>7, <1>8

\* harbol_bistack_alloc_back keeps the invariant.
LEMMA BackStep == ASSUME wild = 0, RegionInv, BistackInv, AllocBack PROVE ArenasInv'
<1>1. PICK n \in Asks :
        LET at == Wrapped(bistack.back - Rounded(n))
        IN  /\ at > bistack.front
            /\ bistack' = [bistack EXCEPT !.back = at]
            /\ back_held' = back_held \cup {BlockAt(at, Rounded(n))}
            /\ wild' = IF Wrong(at, n, bistack) THEN n ELSE 0
  BY DEF AllocBack
<1> DEFINE R == Rounded(n)
           at == Wrapped(bistack.back - R)
<1>2. Asked(n, R)
  BY AskedFor DEF AllocBack
<1>3. RegionInv' /\ front_held' = front_held
  BY DEF AllocBack, RegionInv
<1>9. bistack # NoBistack
  BY DEF AllocBack, NoBistack
<1>4. Wrong(at, n, bistack)
        <=> R < n \/ (n > 0 /\ (at < bistack.mem \/ at + R > bistack.mem + bistack.size))
  BY DEF Wrong
<1> HIDE DEF R
<1>5. /\ bistack.front \in Nat /\ bistack.back \in Nat
      /\ R <= bistack.back => at = bistack.back - R
      /\ R > bistack.back => at = bistack.back - R + AddrMax
  BY <1>2, Wraps DEF Asked
<1> HIDE DEF at
<1>6. /\ at > bistack.front
      /\ bistack' = [bistack EXCEPT !.back = at]
      /\ back_held' = back_held \cup {BlockAt(at, R)}
      /\ wild' = IF Wrong(at, n, bistack) THEN n ELSE 0
  BY <1>1 DEF at, R
<1>7. CASE R < n \/ R > bistack.back
  <2>1. n > bistack.size /\ n > 0 /\ bistack'.size = bistack.size
    BY <1>2, <1>5, <1>6, <1>7 DEF Asked
  <2>2. Wrong(at, n, bistack)
    BY <1>2, <1>4, <1>5, <1>7, <2>1 DEF Asked
  <2> QED BY <1>2, <1>3, <1>6, <2>1, <2>2 DEF ArenasInv, Asked
<1>8. CASE ~(R < n \/ R > bistack.back)
  <2>1. at = bistack.back - R /\ at \in Nat /\ at + R = bistack.back
    BY <1>2, <1>5, <1>8 DEF Asked
  <2>2. ~Wrong(at, n, bistack)
    BY <1>2, <1>4, <1>5, <1>6, <1>8, <2>1 DEF Asked
  <2>3. Apart(back_held')
    BY <1>2, <1>5, <1>6, <2>1, AddBlock DEF Asked
  <2>4. Within(back_held', at, bistack.mem + bistack.size)
    BY <1>2, <1>5, <1>6, <2>1 DEF Asked, Within, BlockAt
  <2>5. /\ bistack' \in [mem : Places, size : Spans, front : Nat, back : Nat]
        /\ bistack'.mem = bistack.mem /\ bistack'.size = bistack.size
        /\ bistack'.front = bistack.front /\ bistack'.back = at
    BY <1>2, <1>6, <2>1 DEF Asked
  <2>6. bistack.front <= at /\ at <= bistack.mem + bistack.size
    BY <1>2, <1>5, <1>6, <2>1 DEF Asked
  <2>7. Filled(back_held', at, bistack.mem + bistack.size)
    <3>1. /\ R \in Nat /\ bistack.mem + bistack.size \in Nat
          /\ bistack.back <= bistack.mem + bistack.size
      BY <1>2 DEF Asked
    <3>3. Filled(back_held, bistack.back, bistack.mem + bistack.size)
      BY <1>9 DEF BistackInv
    <3>4. at \in Int /\ bistack.back \in Int /\ at <= bistack.back
      BY <1>5, <2>1, <3>1
    <3>5. Filled(back_held, at + R, bistack.mem + bistack.size)
      BY <2>1, <3>3
    <3> QED BY <1>6, <2>1, <3>1, <3>4, <3>5, FilledBelow
  <2> QED BY <1>2, <1>3, <1>6, <1>9, <2>2, <2>3, <2>4, <2>5, <2>6, <2>7 DEF ArenasInv, BistackInv, Asked
<1> QED BY <1>7, <1>8

\* What the two offsets of a stack say of the blocks handed out is kept by every operation
\* (region.c:44-55, bistack.c:48-117), sums that wrap around included.
THEOREM ArenasInvariance == ArenasSpec => []ArenasInv
<1>1. ArenasInit => ArenasInv
  BY DEF ArenasInit, ArenasInv, RegionInv, BistackInv
<1>2. ArenasInv /\ [ArenasNext]_avars => ArenasInv'
  <2> SUFFICES ASSUME ArenasInv, [ArenasNext]_avars PROVE ArenasInv'
    OBVIOUS
  <2>1. CASE UNCHANGED avars
    BY <2>1 DEF avars, ArenasInv, RegionInv, BistackInv
  <2>2. CASE RegionNext
    BY <2>2, RegionStep
  <2>3. CASE BistackNext
    BY <2>3, Rebuilt, FrontStep, BackStep DEF ArenasInv, BistackNext
  <2> QED BY <2>1, <2>2, <2>3 DEF ArenasNext
<1> QED BY <1>1, <1>2, PTL DEF ArenasSpec

\* Blocks between lo and hi are in an arena that holds them.
LEMMA WithinInside ==
  ASSUME NEW bs, NEW arena, arena.mem \in Nat, arena.size \in Nat,
         NEW lo \in Nat, NEW hi \in Nat, arena.mem <= lo, hi <= arena.mem + arena.size,
         Within(bs, lo, hi)
  PROVE  Inside(bs, arena)
  BY DEF Within, Inside, Bytes

\* Arenas of any size never hand out memory twice or memory that is not theirs, until a
\* double-ended stack grants a request that is larger than all of it; a region never does.
THEOREM ArenasSafe == ArenasSpec => []BlocksApart
<1>1. ASSUME ArenasInv PROVE BlocksApart
  <2>0. RegionInv
    BY <1>1 DEF ArenasInv
  <2>3. ~region_wild /\ Apart(region_held) /\ Inside(region_held, region)
    <3>1. CASE region = NoRegion /\ region_held = {}
      BY <2>0, <3>1 DEF Apart, Inside, RegionInv
    <3>2. CASE ~(region = NoRegion /\ region_held = {})
      BY <2>0, <3>2, Room, WithinInside DEF RegionInv
    <3> QED BY <3>1, <3>2
  <2>1. CASE wild # 0 /\ wild > bistack.size
    BY <2>1, <2>3 DEF BlocksApart
  <2>2. CASE wild = 0
    <3>1. BistackInv
      BY <1>1, <2>2 DEF ArenasInv
    <3>3. Apart(front_held \cup back_held) /\ Inside(front_held \cup back_held, bistack)
      <4>1. CASE front_held = {} /\ back_held = {}
        BY <4>1 DEF Apart, Inside
      <4>2. CASE ~(front_held = {} /\ back_held = {})
        <5>1. /\ bistack \in [mem : Places, size : Spans, front : Nat, back : Nat]
              /\ bistack.mem <= bistack.front /\ bistack.front <= bistack.back
              /\ bistack.back <= bistack.mem + bistack.size
              /\ Within(front_held, bistack.mem, bistack.front) /\ Apart(front_held)
              /\ Within(back_held, bistack.back, bistack.mem + bistack.size) /\ Apart(back_held)
          BY <3>1, <4>2 DEF BistackInv
        <5>2. bistack.mem \in Nat /\ bistack.size \in Nat
          BY <5>1, Room
        <5>3. Inside(front_held, bistack) /\ Inside(back_held, bistack)
          BY <5>1, <5>2, WithinInside
        <5>4. ASSUME NEW b \in front_held, NEW c \in back_held
              PROVE  Bytes(b) \cap Bytes(c) = {} /\ Bytes(c) \cap Bytes(b) = {}
          BY <5>1, <5>2, <5>4 DEF Within, Bytes
        <5>5. Apart(front_held \cup back_held)
          BY <5>1, <5>4 DEF Apart
        <5> QED BY <5>3, <5>5 DEF Inside
      <4> QED BY <4>1, <4>2
    <3> QED BY <2>2, <2>3, <3>3 DEF BlocksApart
  <2> QED BY <1>1, <2>1, <2>2 DEF ArenasInv
<1> QED BY <1>1, ArenasInvariance, PTL

\* The blocks handed out are all of the memory on the far side of the pointers, and the
\* ends of a double-ended stack do not pass each other, for arenas of any size (region.c:59,
\* bistack.c:103).
THEOREM ArenasAccount == ArenasSpec => []Accounted
<1>1. ASSUME ArenasInv PROVE Accounted
  <2>1. RegionInv /\ (wild = 0 => BistackInv)
    BY <1>1 DEF ArenasInv
  <2>2. /\ Filled(region_held, region.offs, region.mem + region.size)
        /\ region.mem <= region.offs
    <3>1. CASE region = NoRegion /\ region_held = {}
      <4>1. region.offs = 0 /\ region.mem + region.size = 0 /\ region.mem = 0
        BY <3>1 DEF NoRegion
      <4> QED BY <3>1, <4>1, FilledNone
    <3>2. CASE ~(region = NoRegion /\ region_held = {})
      BY <2>1, <3>2 DEF RegionInv
    <3> QED BY <3>1, <3>2
  <2>3. ASSUME wild = 0
        PROVE  /\ Filled(front_held, bistack.mem, bistack.front)
               /\ Filled(back_held, bistack.back, bistack.mem + bistack.size)
               /\ bistack.front <= bistack.back
    <3>1. CASE bistack = NoBistack /\ front_held = {} /\ back_held = {}
      <4>1. /\ bistack.mem = 0 /\ bistack.front = 0 /\ bistack.back = 0
            /\ bistack.mem + bistack.size = 0
        BY <3>1 DEF NoBistack
      <4> QED BY <3>1, <4>1, FilledNone
    <3>2. CASE ~(bistack = NoBistack /\ front_held = {} /\ back_held = {})
      BY <2>1, <2>3, <3>2 DEF BistackInv
    <3> QED BY <3>1, <3>2
  <2> QED BY <2>2, <2>3 DEF Accounted
<1> QED BY <1>1, ArenasInvariance, PTL
----------------------------------------------------------------------------
(* The heap, for clients that free a block only while at most one is free. *)

\* A block of n cells at a lies in the memory that has been handed out.
Span(a, n) == a \in offs .. Size /\ n \in Header .. Size /\ a + n <= Size + 1
\* Two blocks do not overlap.
Beside(a, n, b, k) == a + n <= b \/ b + k <= a

\* The header of a block that is in no free list and never was behind or before another.
Fresh(a)   == NextAt(cells, a) = 0 /\ PrevAt(cells, a) = 0
\* No list but those of ls has any block; list l has one block, or two in the right order.
Others(ls) == \A m \in List \ ls : head[m] = 0
Sole(l)    == head[l] # 0 /\ Fresh(head[l])
Couple(l)  == /\ head[l] # 0 /\ PrevAt(cells, head[l]) = 0
              /\ NextAt(cells, head[l]) \notin {0, head[l]}
              /\ PrevAt(cells, NextAt(cells, head[l])) = head[l]
              /\ NextAt(cells, NextAt(cells, head[l])) = 0

\* The free lists hold the blocks F, of which there are no more than two.
Linked(F) ==
  \/ F = {} /\ Others({})
  \/ \E l \in List : F = {head[l]} /\ Sole(l) /\ Others({l})
  \/ \E l, m \in List : /\ l # m /\ F = {head[l], head[m]} /\ head[l] # head[m]
                        /\ Sole(l) /\ Sole(m) /\ Others({l, m})
  \/ \E l \in List : F = {head[l], NextAt(cells, head[l])} /\ Couple(l) /\ Others({l})
\* There is at most one.
Few(F) == \A a, b \in F : a = b

\* A client's block has its size in its header, which is in no list.
Held(b) == Span(b.at, b.size) /\ SizeAt(cells, b.at) = b.size /\ Fresh(b.at)
\* The blocks held and the blocks that are free lie apart, each with its size in its header.
Placed(F) ==
  /\ \A b \in live : Held(b)
  /\ \A b, c \in live : b = c \/ Beside(b.at, b.size, c.at, c.size)
  /\ \A a \in F : Span(a, SizeAt(cells, a))
  /\ \A a, c \in F : a = c \/ Beside(a, SizeAt(cells, a), c, SizeAt(cells, c))
  /\ \A a \in F, b \in live : Beside(a, SizeAt(cells, a), b.at, b.size)

\* The block to free is held by a client or by nobody, and not free.
Loose(F) ==
  /\ Span(node, SizeAt(cells, node)) /\ Fresh(node)
  /\ \A b \in live : \/ b.at = node /\ b.size = SizeAt(cells, node)
                     \/ Beside(b.at, b.size, node, SizeAt(cells, node))
  /\ \A a \in F : Beside(a, SizeAt(cells, a), node, SizeAt(cells, node))
\* It lies in the first block of the list for its size.
Taken ==
  /\ node > offs /\ SizeAt(cells, node) \in 1 .. Size
  /\ LET h == head[SlotOf(SizeAt(cells, node))] IN h # 0 /\ h <= node /\ node < h + SizeAt(cells, h)
\* What may be freed: the pool refuses it, or takes it, or notices that it is free already.
Freeable(F) == node # 0 /\ (node < offs \/ Loose(F) \/ Taken)

\* A search stands at one of the two nodes its list may have; for realloc, the old block is
\* still held.
Finding(F) ==
  /\ want > Header
  /\ iter # 0 => head[list] # 0 /\ iter \in {head[list], NextAt(cells, head[list])}
  /\ \/ old = 0 /\ node = 0
     \/ old # 0 /\ old = node /\ Few(F) /\ \E b \in live : b.at = old
\* An insertion stands at the only free block, which is in the list for the size of the block
\* to free; nobody holds that block any more.
Inserting(F) ==
  /\ Few(F) /\ iter # 0 /\ iter = head[list] /\ list = SlotOf(SizeAt(cells, node))
  /\ node > offs /\ (Loose(F) \/ Taken) /\ \A b \in live : b.at # node

\* What holds at each point of an operation; the last block freed may be freed again.
Busy(F) ==
  /\ pc = "idle" /\ node # 0 /\ Few(F) => Freeable(F)
  /\ pc = "free" => Few(F) /\ Freeable(F)
  /\ pc = "insert" => Inserting(F)
  /\ pc = "find" => Finding(F)

\* The heap is in order, with the blocks F free.  After a fault nothing is said of the lists.
Core(F) ==
  /\ HeapTypeOK /\ ~clash
  /\ \A b \in live : Span(b.at, b.size)
  /\ pc # "fault" => Linked(F) /\ Placed(F) /\ Busy(F)
HeapInv == \E F : Core(F)

\* A set of numbers has a least one: a walk and its description differ at a first place or nowhere.
LEMMA LeastNumber == ASSUME NEW S \in SUBSET Nat, S # {} PROVE \E k \in S : \A l \in S : k <= l
<1>1. PICK k \in S : \A l \in S : ~(<<l, k>> \in OpToRel(<, Nat))
  BY NatLessThanWellFounded, WFMin
<1>2. \A l \in S : ~(l < k)
  BY <1>1, Zenon DEF OpToRel
<1> QED BY <1>2

\* A walk through a list of at most two nodes finds them.
LEMMA WalkFinds ==
  ASSUME NEW l \in List, NEW h, h = head[l], NEW x, x = IF h = 0 THEN 0 ELSE NextAt(cells, h),
         x # 0 => NextAt(cells, x) = 0, NEW k, k = Size \div Header, k \in Nat, x # 0 => k >= 1
  PROVE  Nodes(l) = {h, x} \ {0}
<1> DEFINE E(w, i) == IF i = 0 THEN head[l] ELSE IF w[i - 1] = 0 THEN 0 ELSE NextAt(cells, w[i - 1])
           Is(w) == w = [i \in Nat |-> E(w, i)]
           v == [i \in Nat |-> IF i = 0 THEN h ELSE IF i = 1 THEN x ELSE 0]
           W == CHOOSE w : Is(w)
<1>1. Is(v)
  <2>1. ASSUME NEW i \in Nat PROVE v[i] = E(v, i)
    <3>1. CASE i = 0
      BY <3>1
    <3>2. CASE i = 1
      <4>1. v[0] = h /\ v[1] = x /\ i - 1 = 0
        BY <3>2
      <4> QED BY <3>2, <4>1
    <3>3. CASE i > 1
      <4>1. v[i] = 0 /\ i - 1 \in Nat \ {0} /\ i # 0
        BY <3>3
      <4>2. v[i - 1] = x \/ v[i - 1] = 0
        BY <4>1
      <4> HIDE DEF v
      <4> QED BY <4>1, <4>2
    <3> QED BY <3>1, <3>2, <3>3
  <2> HIDE DEF E
  <2> QED BY <2>1
<1>2. Is(W)
  BY <1>1
<1>3. \A i \in Nat : W[i] = v[i]
  <2> DEFINE Bad == {i \in Nat : W[i] # v[i]}
  <2> SUFFICES ASSUME Bad # {} PROVE FALSE
    OBVIOUS
  <2>1. PICK i \in Bad : \A j \in Bad : i <= j
    <3>1. Bad \in SUBSET Nat
      OBVIOUS
    <3> QED BY <3>1, LeastNumber
  <2>2. \A j \in Nat : W[j] = E(W, j) /\ v[j] = E(v, j)
    <3> HIDE DEF E, W, v
    <3> QED BY <1>1, <1>2
  <2> HIDE DEF W, v
  <2>3. i # 0
    BY <2>1, <2>2
  <2>4. i - 1 \in Nat /\ W[i - 1] = v[i - 1]
    BY <2>1, <2>3
  <2> QED BY <2>1, <2>2, <2>3, <2>4
<1>4. Nodes(l) = {W[i] : i \in 0 .. k} \ {0}
  BY DEF Nodes
<1> HIDE DEF W
<1>5. {W[i] : i \in 0 .. k} = {v[i] : i \in 0 .. k}
  BY <1>3
<1>6. {v[i] : i \in 0 .. k} \ {0} = {h, x} \ {0}
  <2>1. ASSUME NEW i \in 0 .. k PROVE v[i] \in {h, x, 0}
    OBVIOUS
  <2>2. v[0] = h /\ 0 \in 0 .. k
    OBVIOUS
  <2>3. x # 0 => v[1] = x /\ 1 \in 0 .. k
    OBVIOUS
  <2> HIDE DEF v
  <2> QED BY <2>1, <2>2, <2>3
<1> QED BY <1>4, <1>5, <1>6

\* The blocks in the free lists are those that they are linked to.
LEMMA FreeAre ==
  ASSUME HeapTypeOK, NEW F, Linked(F), Placed(F)
  PROVE  FreeNodes = F
<1> DEFINE k == Size \div Header
           x(l) == IF head[l] = 0 THEN 0 ELSE NextAt(cells, head[l])
<1>1. k \in Nat /\ Size \in Nat
  BY PoolAssumption DEF Header
<1>2. ASSUME NEW a \in F PROVE k >= 1 /\ a # 0
  <2>1. Size >= 3 /\ a # 0
    BY <1>1, <1>2 DEF Placed, Span, Header, HeapTypeOK
  <2> QED BY <1>1, <2>1 DEF Header
<1>3. \A l \in List : head[l] # 0 => head[l] \in F
  BY DEF Linked, Others
<1>4. ASSUME NEW l \in List PROVE (x(l) # 0 => NextAt(cells, x(l)) = 0 /\ k >= 1)
  <2>1. head[l] # 0 => k >= 1
    BY <1>2, <1>3
  <2>2. head[l] # 0 => Sole(l) \/ Couple(l)
    BY DEF Linked, Others
  <2> HIDE DEF k
  <2> QED BY <2>1, <2>2 DEF Sole, Couple, Fresh
<1>5. \A l \in List : Nodes(l) = {head[l], x(l)} \ {0}
  <2> HIDE DEF k
  <2>1. ASSUME NEW l \in List PROVE Nodes(l) = {head[l], x(l)} \ {0}
    <3>1. k = Size \div Header
      BY DEF k
    <3> HIDE DEF x
    <3>2. x(l) = IF head[l] = 0 THEN 0 ELSE NextAt(cells, head[l])
      BY DEF x
    <3> QED BY <1>1, <1>4, <3>1, <3>2, WalkFinds
  <2> QED BY <2>1
<1>6. 0 \notin F
  BY <1>2
<1> HIDE DEF k
<1>7. FreeNodes = UNION {{head[l], x(l)} \ {0} : l \in List}
  <2> HIDE DEF x
  <2> QED BY <1>5 DEF FreeNodes
<1>8. \A l \in List : Others({}) => head[l] = 0
  BY DEF Others
<1>9. \A l, m \in List : Others({m}) /\ l # m => head[l] = 0
  BY DEF Others
<1>10. \A l, m, n \in List : Others({m, n}) /\ l # m /\ l # n => head[l] = 0
  BY DEF Others
<1>11. ASSUME NEW a \in F PROVE \E l \in List : a \in {head[l], x(l)} \ {0}
  BY <1>6, <1>11 DEF Linked, Couple
<1>12. ASSUME NEW l \in List, NEW a \in {head[l], x(l)} \ {0} PROVE a \in F
  <2>1. head[l] # 0
    OBVIOUS
  <2> QED BY <1>8, <1>9, <1>10, <2>1 DEF Linked, Couple, Sole, Fresh
<1> HIDE DEF x
<1> QED BY <1>7, <1>11, <1>12

\* A pool just made has no free blocks.
LEMMA HeapInitInv == HeapInit => Core({})
<1> SUFFICES ASSUME HeapInit PROVE Core({})
  OBVIOUS
<1>1. HeapTypeOK
  <2>1. Size \in Nat /\ MaxOps \in Nat
    BY PoolAssumption
  <2>2. 0 \in 0 .. Size /\ 0 \in List /\ 0 \in 0 .. MaxOps /\ Size + 1 \in 1 .. Size + 1
    BY <2>1 DEF List, Large
  <2> QED BY <2>2 DEF HeapInit, HeapTypeOK
<1>2. Linked({})
  BY DEF HeapInit, Linked, Others
<1>3. Placed({}) /\ Busy({})
  BY DEF HeapInit, Placed, Busy
<1> QED BY <1>1, <1>2, <1>3 DEF HeapInit, Core

\* The headers of blocks lie in the memory.
LEMMA InMemory ==
  ASSUME HeapTypeOK, NEW a, NEW n, Span(a, n)
  PROVE  a \in Cell /\ a + 1 \in Cell /\ a + 2 \in Cell /\ n \in Cell /\ a \in Nat /\ n \in Nat
BY PoolAssumption DEF HeapTypeOK, Span, Header, Cell

\* The block of n cells at a has been handed out of the memory m.
Outcome(m, a, n) ==
  /\ cells' \in [Cell -> 0 .. Size]
  /\ \A c \in Cell : c \notin a + 1 .. a + n - 1 => cells'[c] = m[c]
  /\ cells'[a] = n /\ cells'[a + 1] = 0 /\ cells'[a + 2] = 0
  /\ live' = live \cup {[at |-> a, size |-> n]} /\ iter' = 0
  /\ (old = 0 /\ pc' = "idle") \/ (old # 0 /\ pc' = "free")
  /\ clash' = (clash \/ \E b \in live : Cells(b) \cap (a .. a + n - 1) # {})

\* Zeroing and copying leave the header of the new block, and nothing else changes but the block.
LEMMA AllocatedCells ==
  ASSUME HeapTypeOK, NEW m \in [Cell -> 0 .. Size], NEW a \in Cell, NEW n \in Header .. Size,
         a + n <= Size + 1, m[a] = n,
         old # 0 => m[old] \in Header .. Size /\ old + m[old] <= Size + 1,
         Allocated(m, a, n)
  PROVE  Outcome(m, a, n)
<1> DEFINE zeroed == [c \in Cell |-> IF c \in a + 1 .. a + n - 1 THEN 0 ELSE m[c]]
           copied == (IF SizeAt(m, old) < n THEN SizeAt(m, old) ELSE n) - Header
<1>0. /\ Size \in Nat /\ a \in Nat /\ n \in Nat /\ old \in Nat /\ Header = 3 /\ Cell = 1 .. Size
      /\ a + 1 \in Cell /\ a + 2 \in Cell
  BY PoolAssumption DEF HeapTypeOK, Cell, Header
<1>1. /\ zeroed \in [Cell -> 0 .. Size]
      /\ \A c \in Cell : c \notin a + 1 .. a + n - 1 => zeroed[c] = m[c]
      /\ zeroed[a] = n /\ zeroed[a + 1] = 0 /\ zeroed[a + 2] = 0
  BY <1>0
<1>2. live' = live \cup {[at |-> a, size |-> n]} /\ iter' = 0
      /\ ((old = 0 /\ pc' = "idle") \/ (old # 0 /\ pc' = "free"))
      /\ clash' = (clash \/ \E b \in live : Cells(b) \cap (a .. a + n - 1) # {})
  BY DEF Allocated
<1> SUFFICES /\ cells' \in [Cell -> 0 .. Size]
             /\ \A c \in Cell : c \notin a + 1 .. a + n - 1 => cells'[c] = m[c]
             /\ cells'[a] = n /\ cells'[a + 1] = 0 /\ cells'[a + 2] = 0
  BY <1>2 DEF Outcome
<1>3. CASE old = 0
  <2>1. cells' = zeroed
    BY <1>3 DEF Allocated
  <2> HIDE DEF zeroed
  <2> QED BY <1>1, <2>1
<1>4. CASE old # 0
  <2>1. cells' = [c \in Cell |-> IF c - a - Header \in 0 .. copied - 1
                                 THEN zeroed[c - a + old] ELSE zeroed[c]]
    BY <1>4 DEF Allocated
  <2>2. copied \in Int /\ copied <= n - 3 /\ old + copied + 2 <= Size
    BY <1>0, <1>4 DEF SizeAt
  <2> HIDE DEF copied, zeroed
  <2>3. ASSUME NEW c \in Cell, c - a - Header \in 0 .. copied - 1
        PROVE  c \in a + 3 .. a + n - 1 /\ c - a + old \in Cell
    BY <1>0, <1>4, <2>2, <2>3
  <2>4. \A c \in Cell : c \notin a + 3 .. a + n - 1 => cells'[c] = zeroed[c]
    BY <2>1, <2>3
  <2>5. cells' \in [Cell -> 0 .. Size]
    BY <1>1, <2>1, <2>3
  <2>6. \A c \in Cell : c \notin a + 1 .. a + n - 1 => c \notin a + 3 .. a + n - 1
    BY <1>0
  <2>7. /\ a \notin a + 3 .. a + n - 1 /\ a + 1 \notin a + 3 .. a + n - 1
        /\ a + 2 \notin a + 3 .. a + n - 1
    BY <1>0
  <2> QED BY <1>0, <1>1, <2>4, <2>5, <2>6, <2>7
<1> QED BY <1>3, <1>4

\* The block that realloc is to free is one that a client holds.
LEMMA HeldLoose ==
  ASSUME NEW F, Placed(F), NEW b \in live, node = b.at
  PROVE  Loose(F)
<1>1. Held(b) /\ b.size = SizeAt(cells, node)
  BY DEF Placed, Held
<1>2. \A c \in live : b = c \/ Beside(c.at, c.size, b.at, b.size)
  BY DEF Placed
<1>3. \A a \in F : Beside(a, SizeAt(cells, a), b.at, b.size)
  BY DEF Placed
<1> QED BY <1>1, <1>2, <1>3 DEF Loose, Held

\* An allocation from memory that nobody holds leaves G free.
LEMMA HandedOut ==
  ASSUME HeapTypeOK, ~clash, NEW F, Placed(F), Finding(F),
         NEW G, Few(F) => Few(G),
         UNCHANGED <<node, list, want, old, ops>>, head' \in [List -> 0 .. Size],
         offs' \in 1 .. offs, NEW a, NEW n, a \in offs' .. Size, n \in Header .. Size, a + n <= Size + 1,
         \A b \in live : /\ Beside(b.at, b.size, a, n)
                         /\ cells'[b.at] = cells[b.at] /\ cells'[b.at + 1] = cells[b.at + 1]
                         /\ cells'[b.at + 2] = cells[b.at + 2],
         NEW m, Outcome(m, a, n),
         \A g \in G : /\ g \in offs' .. Size /\ cells'[g] \in Header .. Size /\ g + cells'[g] <= Size + 1
                      /\ Beside(g, cells'[g], a, n)
                      /\ \A b \in live : Beside(g, cells'[g], b.at, b.size),
         \A g, h \in G : g = h \/ Beside(g, cells'[g], h, cells'[h])
  PROVE  HeapTypeOK' /\ ~clash' /\ Placed(G)' /\ Busy(G)'
<1> DEFINE r == [at |-> a, size |-> n]
<1>0. /\ Size \in Nat /\ Header = 3 /\ Cell = 1 .. Size /\ offs \in 1 .. Size + 1 /\ offs' \in Nat
      /\ a \in Nat /\ n \in Nat /\ a \in Cell /\ n \in Cell
  BY PoolAssumption DEF HeapTypeOK, Header, Cell
<1>20. /\ cells' \in [Cell -> 0 .. Size]
       /\ cells'[a] = n /\ cells'[a + 1] = 0 /\ cells'[a + 2] = 0
       /\ live' = live \cup {[at |-> a, size |-> n]} /\ iter' = 0
       /\ (old = 0 /\ pc' = "idle") \/ (old # 0 /\ pc' = "free")
       /\ clash' = (clash \/ \E b \in live : Cells(b) \cap (a .. a + n - 1) # {})
  BY DEF Outcome
<1>1. \A b \in live : b.at \in offs .. Size /\ b.size \in 3 .. Size /\ b.at + b.size <= Size + 1
  BY <1>0 DEF Placed, Held, Span
<1>2. ~clash'
  <2>1. ASSUME NEW b \in live PROVE Cells(b) \cap (a .. a + n - 1) = {}
    <3>1. b.at \in Nat /\ b.size \in Nat /\ (b.at + b.size <= a \/ a + n <= b.at)
      BY <1>0, <1>1 DEF Beside
    <3>2. \A x \in b.at .. b.at + b.size - 1 : x \notin a .. a + n - 1
      BY <1>0, <3>1
    <3> QED BY <3>2 DEF Cells
  <2> QED BY <1>20, <2>1
<1>3. r \in [at : Cell, size : Cell] /\ r.at = a /\ r.size = n
  BY <1>0
<1> HIDE DEF r
<1>4. live' = live \cup {r}
  BY <1>20 DEF r
<1>5. HeapTypeOK'
  <2>1. live' \subseteq [at : Cell, size : Cell]
    BY <1>3, <1>4 DEF HeapTypeOK
  <2>2. offs' \in 1 .. Size + 1 /\ 0 \in 0 .. Size /\ clash' \in BOOLEAN
    BY <1>0, <1>2, <1>20
  <2> QED BY <1>20, <2>1, <2>2 DEF HeapTypeOK
<1>6. \A b \in live' : Held(b)'
  <2>1. ASSUME NEW b \in live PROVE Held(b)'
    <3>1. cells[b.at] = b.size /\ cells[b.at + 1] = 0 /\ cells[b.at + 2] = 0
      BY DEF Placed, Held, Fresh, SizeAt, NextAt, PrevAt
    <3>2. b.at \in offs' .. Size
      BY <1>0, <1>1
    <3> QED BY <1>0, <1>1, <3>1, <3>2 DEF Held, Span, Fresh, SizeAt, NextAt, PrevAt
  <2>2. Held(r)'
    BY <1>0, <1>3, <1>20 DEF Held, Span, Fresh, SizeAt, NextAt, PrevAt
  <2> QED BY <1>4, <2>1, <2>2
<1>7. \A b, c \in live' : b = c \/ Beside(b.at, b.size, c.at, c.size)
  <2>1. \A b, c \in live : b = c \/ Beside(b.at, b.size, c.at, c.size)
    BY DEF Placed
  <2>2. \A b \in live : Beside(b.at, b.size, r.at, r.size) /\ Beside(r.at, r.size, b.at, b.size)
    BY <1>3 DEF Beside
  <2> QED BY <1>4, <2>1, <2>2
<1>8. \A g \in G, b \in live' : Beside(g, cells'[g], b.at, b.size)
  BY <1>3, <1>4
<1>9. \A g \in G : Span(g, SizeAt(cells, g))'
  BY DEF Span, SizeAt
<1>10. Placed(G)'
  BY <1>6, <1>7, <1>8, <1>9 DEF Placed, SizeAt
<1>11. Busy(G)'
  <2>1. CASE old = 0
    <3>1. node' = 0 /\ pc' = "idle"
      BY <1>20, <2>1 DEF Finding
    <3> QED BY <3>1 DEF Busy
  <2>2. CASE old # 0
    <3>1. pc' = "free" /\ old = node /\ Few(F) /\ \E b \in live : b.at = old
      BY <1>20, <2>2 DEF Finding
    <3>2. PICK b \in live : b.at = node
      BY <3>1
    <3>3. b \in live' /\ node' = b.at
      BY <1>4, <3>2
    <3>4. Loose(G)'
      <4>1. Held(b)' /\ b.size = SizeAt(cells, node)'
        BY <1>6, <3>3 DEF Held
      <4>2. \A c \in live' : b = c \/ Beside(c.at, c.size, b.at, b.size)
        BY <1>7, <3>3
      <4>3. \A g \in G : Beside(g, cells'[g], b.at, b.size)
        BY <1>8, <3>3
      <4> QED BY <3>3, <4>1, <4>2, <4>3 DEF Loose, Held, SizeAt
    <3>5. node' # 0 /\ Few(G)
      BY <2>2, <3>1
    <3> QED BY <3>1, <3>4, <3>5 DEF Busy, Freeable, Few
  <2> QED BY <2>1, <2>2
<1> QED BY <1>2, <1>5, <1>10, <1>11

\* The lists stay linked when heads and links stay the same.
LEMMA StayLinked ==
  ASSUME NEW F, Linked(F), head' = head,
         \A g \in F : cells'[g + 1] = cells[g + 1] /\ cells'[g + 2] = cells[g + 2]
  PROVE  Linked(F)'
<1>1. \A ls : Others(ls) => Others(ls)'
  BY DEF Others
<1>2. \A l \in List : head[l] \in F /\ Sole(l) => Sole(l)'
  BY DEF Sole, Fresh, NextAt, PrevAt
<1>3. \A l \in List : head[l] \in F /\ NextAt(cells, head[l]) \in F /\ Couple(l)
                      => Couple(l)' /\ NextAt(cells, head[l])' = NextAt(cells, head[l])
  BY DEF Couple, NextAt, PrevAt
<1>4. CASE F = {} /\ Others({})
  BY <1>1, <1>4 DEF Linked
<1>5. CASE \E l \in List : F = {head[l]} /\ Sole(l) /\ Others({l})
  BY <1>1, <1>2, <1>5 DEF Linked
<1>6. CASE \E l, m \in List : /\ l # m /\ F = {head[l], head[m]} /\ head[l] # head[m]
                              /\ Sole(l) /\ Sole(m) /\ Others({l, m})
  <2>1. PICK l, m \in List : /\ l # m /\ F = {head[l], head[m]} /\ head[l] # head[m]
                              /\ Sole(l) /\ Sole(m) /\ Others({l, m})
    BY <1>6
  <2>2. Sole(l)' /\ Sole(m)' /\ Others({l, m})'
    BY <1>1, <1>2, <2>1
  <2>3. (l # m /\ F = {head[l], head[m]} /\ head[l] # head[m])'
    BY <2>1
  <2> QED BY <2>2, <2>3 DEF Linked
<1>7. CASE \E l \in List : F = {head[l], NextAt(cells, head[l])} /\ Couple(l) /\ Others({l})
  <2>1. PICK l \in List : F = {head[l], NextAt(cells, head[l])} /\ Couple(l) /\ Others({l})
    BY <1>7
  <2>2. Couple(l)' /\ Others({l})' /\ NextAt(cells, head[l])' = NextAt(cells, head[l])
    BY <1>1, <1>3, <2>1
  <2>3. (F = {head[l], NextAt(cells, head[l])})'
    BY <2>1, <2>2
  <2> QED BY <2>2, <2>3 DEF Linked
<1> QED BY <1>4, <1>5, <1>6, <1>7 DEF Linked

\* What an allocation starts from.
LEMMA FindFacts ==
  ASSUME NEW F, Core(F), pc = "find"
  PROVE  /\ HeapTypeOK /\ ~clash /\ Linked(F) /\ Placed(F) /\ Finding(F)
         /\ Size \in Nat /\ Header = 3 /\ Cell = 1 .. Size /\ offs \in 1 .. Size + 1
         /\ \A b \in live : /\ b.at \in offs .. Size /\ b.size \in 3 .. Size /\ b.at + b.size <= Size + 1
                            /\ cells[b.at] = b.size
         /\ \A g \in F : g \in offs .. Size /\ cells[g] \in 3 .. Size /\ g + cells[g] <= Size + 1
         /\ old # 0 => \E b \in live : b.at = old
         /\ want > 3 /\ want \in Nat
<1>1. /\ HeapTypeOK /\ ~clash /\ Linked(F) /\ Placed(F) /\ Finding(F)
  BY DEF Core, Busy
<1>2. Size \in Nat /\ Header = 3 /\ Cell = 1 .. Size
  BY PoolAssumption DEF Header, Cell
<1> QED BY <1>1, <1>2 DEF HeapTypeOK, Placed, Held, Span, SizeAt, Finding

\* No memory is left, or the region hands out more of it.
LEMMA RegionHands ==
  ASSUME NEW F, Core(F), pc = "find", FromRegion, UNCHANGED <<head, node, list, want, old, ops>>
  PROVE  Core(F)'
<1>1. /\ HeapTypeOK /\ ~clash /\ Linked(F) /\ Placed(F) /\ Finding(F)
      /\ Size \in Nat /\ Header = 3 /\ Cell = 1 .. Size /\ offs \in 1 .. Size + 1
      /\ \A b \in live : /\ b.at \in offs .. Size /\ b.size \in 3 .. Size /\ b.at + b.size <= Size + 1
                         /\ cells[b.at] = b.size
      /\ \A g \in F : g \in offs .. Size /\ cells[g] \in 3 .. Size /\ g + cells[g] <= Size + 1
      /\ old # 0 => \E b \in live : b.at = old
      /\ want > 3 /\ want \in Nat
  BY FindFacts
<1>2. CASE pc' = "idle" /\ iter' = 0 /\ UNCHANGED <<cells, offs, live, clash>>
  <2>1. HeapTypeOK' /\ ~clash'
    BY <1>1, <1>2 DEF HeapTypeOK
  <2>2. Linked(F)'
    BY <1>1, <1>2, StayLinked
  <2>3. Placed(F)'
    BY <1>1, <1>2 DEF Placed, Held, Span, Fresh
  <2>4. Busy(F)'
    <3>1. CASE node = 0
      BY <1>2, <3>1 DEF Busy
    <3>2. CASE node # 0
      <4>1. Loose(F)
        BY <1>1, <3>2, HeldLoose DEF Finding
      <4>2. Loose(F)'
        BY <1>2, <4>1 DEF Loose, Span, Fresh
      <4> QED BY <1>2, <3>2, <4>2 DEF Busy, Freeable
    <3> QED BY <3>1, <3>2
  <2> QED BY <2>1, <2>2, <2>3, <2>4 DEF Core, Placed, Held
<1>3. CASE /\ want <= Size /\ offs - want >= 1 /\ offs' = offs - want
           /\ Allocated([cells EXCEPT ![offs'] = want], offs', want)
  <2>0. PICK o \in Nat, p \in Nat, w \in Nat, z \in Nat :
          /\ o = offs /\ p = offs' /\ w = want /\ z = Size /\ w > 3 /\ p + w = o /\ p >= 1 /\ o <= z + 1
    <3>1. offs \in Nat /\ offs - want \in Nat /\ offs - want + want = offs
      BY <1>1, <1>3
    <3> QED BY <1>1, <1>3, <3>1
  <2>14. w > 3 /\ p + w = o /\ p >= 1 /\ o <= z + 1
    BY <2>0
  <2> DEFINE m == [cells EXCEPT ![p] = w]
  <2>1. p \in 1 .. o /\ p \in Cell /\ p \in p .. z /\ w \in Header .. z /\ p + w <= z + 1 /\ w \in 0 .. z /\ Cell = 1 .. z
    <3>1. Cell = 1 .. z /\ Header = 3
      BY <1>1, <2>0
    <3>2. w <= z
      BY <1>3, <2>0
    <3> QED BY <2>14, <3>1, <3>2
  <2>2. m \in [Cell -> 0 .. Size] /\ m[p] = w /\ \A c \in Cell : c # p => m[c] = cells[c]
    BY <1>1, <2>0, <2>1 DEF HeapTypeOK
  <2>3. ASSUME NEW b, b \in live \/ (b.at \in F /\ b.size = cells[b.at])
        PROVE  /\ b.at \in o .. z /\ b.size \in 3 .. z /\ b.at + b.size <= z + 1 /\ cells[b.at] = b.size
               /\ b.at # p /\ p + w <= b.at /\ \A i \in 0 .. 2 : b.at + i \in Cell /\ b.at + i \notin p .. p + w - 1
    <3>1. b.at \in o .. z /\ b.size \in 3 .. z /\ b.at + b.size <= z + 1 /\ cells[b.at] = b.size
      BY <1>1, <2>0, <2>3
    <3>2. PICK x \in Nat, y \in Nat : x = b.at /\ y = b.size
      BY <3>1
    <3>3. /\ x # p /\ p + w <= x /\ \A i \in 0 .. 2 : x + i \in 1 .. z /\ x + i \notin p .. p + w - 1
      <4>1. x \in o .. z /\ y \in 3 .. z /\ x + y <= z + 1
        BY <3>1, <3>2
      <4> QED BY <2>14, <4>1
    <3> QED BY <2>1, <3>1, <3>2, <3>3
  <2>4. Allocated(m, p, w)
    BY <1>3, <2>0
  <2>5. Outcome(m, p, w)
    <3>1. old # 0 => m[old] \in Header .. Size /\ old + m[old] <= Size + 1
      <4> SUFFICES ASSUME old # 0 PROVE m[old] \in Header .. Size /\ old + m[old] <= Size + 1
        OBVIOUS
      <4>1. PICK b \in live : b.at = old
        BY <1>1
      <4>2. b.at + 0 \in Cell /\ b.at # p /\ b.at + 0 = b.at /\ b.at \in Nat
        BY <2>3, <2>1
      <4> HIDE DEF m
      <4> QED BY <1>1, <2>2, <4>1, <4>2
    <3> HIDE DEF m
    <3> QED BY <1>1, <2>0, <2>1, <2>2, <2>4, <3>1, AllocatedCells
  <2> HIDE DEF m
  <2>6. \A c \in Cell : c \notin p .. p + w - 1 => cells'[c] = cells[c]
    <3>1. \A c \in Cell : c \notin p .. p + w - 1 => c \notin p + 1 .. p + w - 1 /\ c # p
      <4>1. \A c \in 1 .. z : c \notin p .. p + w - 1 => c \notin p + 1 .. p + w - 1 /\ c # p
        BY <2>14
      <4> QED BY <2>1, <4>1
    <3> QED BY <2>2, <2>5, <3>1 DEF Outcome
  <2>12. ASSUME NEW b, b \in live \/ (b.at \in F /\ b.size = cells[b.at])
         PROVE  /\ Beside(b.at, b.size, p, w)
                /\ cells'[b.at] = cells[b.at] /\ cells'[b.at + 1] = cells[b.at + 1]
                /\ cells'[b.at + 2] = cells[b.at + 2]
    <3>1. /\ p + w <= b.at /\ \A i \in 0 .. 2 : cells'[b.at + i] = cells[b.at + i]
      BY <2>3, <2>6, <2>12
    <3>2. b.at \in Nat
      BY <2>0, <2>3, <2>12
    <3>3. b.at + 0 = b.at /\ 0 \in 0 .. 2 /\ 1 \in 0 .. 2 /\ 2 \in 0 .. 2
      BY <3>2
    <3>4. cells'[b.at + 0] = cells[b.at + 0] /\ cells'[b.at + 1] = cells[b.at + 1] /\ cells'[b.at + 2] = cells[b.at + 2]
      BY <3>1, <3>3
    <3> QED BY <3>1, <3>3, <3>4 DEF Beside
  <2>7. \A b \in live : /\ Beside(b.at, b.size, p, w)
                        /\ cells'[b.at] = cells[b.at] /\ cells'[b.at + 1] = cells[b.at + 1]
                        /\ cells'[b.at + 2] = cells[b.at + 2]
    BY <2>12
  <2>13. ASSUME NEW g \in F
         PROVE  /\ cells'[g] = cells[g] /\ cells'[g + 1] = cells[g + 1]
                /\ cells'[g + 2] = cells[g + 2] /\ Beside(g, cells'[g], p, w)
                /\ g \in p .. z
    <3> DEFINE b == [at |-> g, size |-> cells[g]]
    <3>1. b.at = g /\ b.size = cells[g]
      OBVIOUS
    <3> HIDE DEF b
    <3>2. g \in o .. z
      BY <2>3, <3>1
    <3>3. g \in p .. z
      BY <2>14, <3>2
    <3>4. /\ Beside(b.at, b.size, p, w)
          /\ cells'[b.at] = cells[b.at] /\ cells'[b.at + 1] = cells[b.at + 1]
          /\ cells'[b.at + 2] = cells[b.at + 2]
      BY <2>12, <3>1
    <3> QED BY <3>1, <3>3, <3>4
  <2>9. /\ \A g \in F : /\ g \in p .. Size /\ cells'[g] \in Header .. Size /\ g + cells'[g] <= Size + 1
                        /\ Beside(g, cells'[g], p, w)
                        /\ \A b \in live : Beside(g, cells'[g], b.at, b.size)
        /\ \A g, h \in F : g = h \/ Beside(g, cells'[g], h, cells'[h])
    BY <1>1, <2>0, <2>13 DEF Placed, SizeAt
  <2>10. HeapTypeOK' /\ ~clash' /\ Placed(F)' /\ Busy(F)'
    <3>1. offs' \in 1 .. offs /\ head' \in [List -> 0 .. Size] /\ p \in offs' .. Size /\ w \in Header .. Size
          /\ p + w <= Size + 1
      BY <1>1, <2>0, <2>1 DEF HeapTypeOK
    <3>2. \A g \in F : g \in offs' .. Size
      BY <2>0, <2>9
    <3> QED BY <1>1, <2>5, <2>7, <2>9, <3>1, <3>2, HandedOut
  <2>11. Linked(F)'
    BY <2>13, StayLinked, <1>1
  <2> QED BY <2>10, <2>11 DEF Core, Placed, Held
<1> QED BY <1>2, <1>3 DEF FromRegion

\* A search stands at a free block.
LEMMA FindsFree ==
  ASSUME NEW F, Core(F), pc = "find", iter # 0
  PROVE  iter \in F
<1>1. Linked(F) /\ head[list] # 0 /\ iter \in {head[list], NextAt(cells, head[list])} /\ list \in List
  BY DEF Core, Busy, Finding, HeapTypeOK
<1>2. \A l \in List : Others({}) => head[l] = 0
  BY DEF Others
<1>3. \A l, m \in List : Others({m}) /\ l # m => head[l] = 0
  BY DEF Others
<1>4. \A l, m, n \in List : Others({m, n}) /\ l # m /\ l # n => head[l] = 0
  BY DEF Others
<1> QED BY <1>1, <1>2, <1>3, <1>4 DEF Linked, Sole, Fresh

\* The upper end of a larger free block is handed out.
LEMMA SplitHands ==
  ASSUME NEW F, Core(F), pc = "find", iter # 0, SizeAt(cells, iter) > want + Threshold, SplitNode,
         UNCHANGED <<node, list, want, old, ops>>
  PROVE  Core(F)'
<1>1. /\ HeapTypeOK /\ ~clash /\ Linked(F) /\ Placed(F) /\ Finding(F)
      /\ Size \in Nat /\ Header = 3 /\ Cell = 1 .. Size /\ offs \in 1 .. Size + 1
      /\ \A b \in live : /\ b.at \in offs .. Size /\ b.size \in 3 .. Size /\ b.at + b.size <= Size + 1
                         /\ cells[b.at] = b.size
      /\ \A g \in F : g \in offs .. Size /\ cells[g] \in 3 .. Size /\ g + cells[g] <= Size + 1
      /\ old # 0 => \E b \in live : b.at = old
      /\ want > 3 /\ want \in Nat
  BY FindFacts
<1>2. iter \in F
  BY FindsFree
<1>3. PICK o \in Nat, i \in Nat, n \in Nat, w \in Nat, z \in Nat :
        o = offs /\ i = iter /\ n = cells[iter] /\ w = want /\ z = Size
  BY <1>1, <1>2
<1>4. o >= 1 /\ i >= o /\ n > w + 4 /\ w > 3 /\ i + n <= z + 1
  BY <1>1, <1>2, <1>3 DEF SizeAt, Threshold
<1>5. PICK r \in Nat : r = n - w
  BY <1>4
<1>6. r > 4 /\ r + w = n
  BY <1>4, <1>5
<1>7. PICK a \in Nat : a = i + r
  OBVIOUS
<1>8. /\ a >= i + 5 /\ a + w = i + n /\ a <= z /\ w <= z /\ r <= z /\ i <= z /\ a # i
  BY <1>4, <1>6, <1>7
<1>9. Cell = 1 .. z /\ Header = 3 /\ offs' = o /\ head' = head
  BY <1>1, <1>3 DEF SplitNode
<1> DEFINE m == [cells EXCEPT ![i] = r, ![a] = w]
<1>10. Allocated(m, a, w)
  BY <1>3, <1>5, <1>7 DEF SplitNode, SizeAt
<1>11. a \in Cell /\ i \in Cell /\ w \in 0 .. z /\ r \in 0 .. z /\ w \in Header .. z /\ a + w <= z + 1 /\ a \in o .. z
  BY <1>4, <1>6, <1>8, <1>9
<1>12. m \in [Cell -> 0 .. Size] /\ m[a] = w /\ m[i] = r /\ \A c \in Cell : c # i /\ c # a => m[c] = cells[c]
  BY <1>1, <1>3, <1>8, <1>11 DEF HeapTypeOK
<1> HIDE DEF m
\* Blocks other than the one that is split.
<1>13. ASSUME NEW b, b \in live \/ (b.at \in F /\ b.at # i /\ b.size = cells[b.at])
       PROVE  /\ b.at \in o .. z /\ b.size \in 3 .. z /\ b.at + b.size <= z + 1 /\ cells[b.at] = b.size
              /\ Beside(b.at, b.size, i, r) /\ Beside(i, r, b.at, b.size) /\ Beside(b.at, b.size, a, w)
              /\ \A k \in 0 .. 2 : b.at + k \in Cell /\ b.at + k \notin i .. i + n - 1
  <2>1. b.at \in o .. z /\ b.size \in 3 .. z /\ b.at + b.size <= z + 1 /\ cells[b.at] = b.size
    BY <1>1, <1>3, <1>13
  <2>2. b.at + b.size <= i \/ i + n <= b.at
    <3>1. CASE b \in live
      <4>1. Beside(i, n, b.at, b.size)
        BY <1>1, <1>2, <1>3, <3>1 DEF Placed, SizeAt
      <4> QED BY <4>1 DEF Beside
    <3>2. CASE b.at \in F /\ b.at # i /\ b.size = cells[b.at]
      <4>1. Beside(i, n, b.at, b.size)
        BY <1>1, <1>2, <1>3, <3>2 DEF Placed, SizeAt
      <4> QED BY <4>1 DEF Beside
    <3> QED BY <1>13, <3>1, <3>2
  <2>3. PICK x \in Nat, y \in Nat : x = b.at /\ y = b.size
    BY <2>1
  <2>4. x \in o .. z /\ y \in 3 .. z /\ x + y <= z + 1 /\ (x + y <= i \/ i + n <= x)
    BY <2>1, <2>2, <2>3
  <2>5. /\ x + y <= i \/ i + r <= x
        /\ x + y <= a \/ a + w <= x
        /\ \A k \in 0 .. 2 : x + k \in 1 .. z /\ x + k \notin i .. i + n - 1
    BY <1>4, <1>6, <1>8, <2>4
  <2> QED BY <1>9, <2>1, <2>3, <2>5 DEF Beside
<1>14. Outcome(m, a, w)
  <2>1. old # 0 => m[old] \in Header .. Size /\ old + m[old] <= Size + 1
    <3> SUFFICES ASSUME old # 0 PROVE m[old] \in Header .. Size /\ old + m[old] <= Size + 1
      OBVIOUS
    <3>1. PICK b \in live : b.at = old
      BY <1>1
    <3>2. \A k \in 0 .. 2 : b.at + k \in Cell /\ b.at + k \notin i .. i + n - 1
      BY <1>13, <3>1
    <3>3. b.at + 0 = b.at /\ 0 \in 0 .. 2
      BY <1>1, <3>1
    <3>4. b.at \in Cell /\ b.at \notin i .. i + n - 1
      BY <3>2, <3>3
    <3>5. i \in i .. i + n - 1 /\ a \in i .. i + n - 1
      BY <1>4, <1>7, <1>6
    <3>6. b.at # i /\ b.at # a
      BY <3>4, <3>5
    <3> QED BY <1>1, <1>12, <3>1, <3>4, <3>6
  <2> QED BY <1>1, <1>3, <1>10, <1>11, <1>12, <2>1, AllocatedCells
<1>15. \A c \in Cell : c \notin a .. a + w - 1 /\ c # i => cells'[c] = cells[c]
  <2>1. \A c \in Cell : c \notin a .. a + w - 1 => c \notin a + 1 .. a + w - 1 /\ c # a
    <3>1. \A c \in 1 .. z : c \notin a .. a + w - 1 => c \notin a + 1 .. a + w - 1 /\ c # a
      BY <1>4
    <3> QED BY <1>9, <3>1
  <2> QED BY <1>12, <1>14, <2>1 DEF Outcome
<1>16. \A c \in i .. i + 2 : c \in Cell /\ c \notin a .. a + w - 1
  <2>1. \A c \in i .. i + 2 : c \in 1 .. z /\ c \notin a .. a + w - 1
    BY <1>4, <1>8
  <2> QED BY <1>9, <2>1
<1>17. cells'[i] = r /\ cells'[i + 1] = cells[i + 1] /\ cells'[i + 2] = cells[i + 2]
  <2>1. i \in i .. i + 2 /\ i + 1 \in i .. i + 2 /\ i + 2 \in i .. i + 2 /\ i + 1 # i /\ i + 2 # i /\ i \notin a + 1 .. a + w - 1
    BY <1>8
  <2>2. cells'[i] = m[i]
    BY <1>11, <1>14, <2>1 DEF Outcome
  <2> QED BY <1>12, <1>15, <1>16, <2>1, <2>2
<1>18. ASSUME NEW b, b \in live \/ (b.at \in F /\ b.at # i /\ b.size = cells[b.at])
       PROVE  /\ cells'[b.at] = cells[b.at] /\ cells'[b.at + 1] = cells[b.at + 1]
              /\ cells'[b.at + 2] = cells[b.at + 2]
  <2>1. \A k \in 0 .. 2 : b.at + k \in Cell /\ b.at + k \notin i .. i + n - 1
    BY <1>13, <1>18
  <2>2. i \in i .. i + n - 1 /\ \A c \in a .. a + w - 1 : c \in i .. i + n - 1
    BY <1>4, <1>6, <1>7
  <2>3. \A k \in 0 .. 2 : cells'[b.at + k] = cells[b.at + k]
    BY <1>15, <2>1, <2>2
  <2>4. b.at + 0 = b.at /\ 0 \in 0 .. 2 /\ 1 \in 0 .. 2 /\ 2 \in 0 .. 2
    BY <1>13, <1>18
  <2> QED BY <2>3, <2>4
<1>19. ASSUME NEW g \in F, g # i
       PROVE  /\ cells'[g] = cells[g] /\ cells'[g + 1] = cells[g + 1] /\ cells'[g + 2] = cells[g + 2]
              /\ Beside(g, cells'[g], a, w) /\ Beside(g, cells'[g], i, r) /\ Beside(i, r, g, cells'[g])
  <2> DEFINE b == [at |-> g, size |-> cells[g]]
  <2>1. b.at = g /\ b.size = cells[g]
    OBVIOUS
  <2> HIDE DEF b
  <2> QED BY <1>13, <1>18, <1>19, <2>1
<1>20. /\ \A g \in F : /\ g \in o .. z /\ cells'[g] \in Header .. z /\ g + cells'[g] <= z + 1
                       /\ Beside(g, cells'[g], a, w)
                       /\ \A b \in live : Beside(g, cells'[g], b.at, b.size)
       /\ \A g, h \in F : g = h \/ Beside(g, cells'[g], h, cells'[h])
  <2>1. Beside(i, r, a, w) /\ r \in 3 .. z /\ i + r <= z + 1 /\ i \in o .. z
    BY <1>4, <1>6, <1>7, <1>8 DEF Beside
  <2>2. \A g \in F : /\ g \in o .. z /\ cells'[g] \in Header .. z /\ g + cells'[g] <= z + 1
                     /\ Beside(g, cells'[g], a, w)
    BY <1>1, <1>3, <1>17, <1>19, <2>1
  <2>3. \A g \in F : \A b \in live : Beside(g, cells'[g], b.at, b.size)
    BY <1>1, <1>13, <1>17, <1>19 DEF Placed, SizeAt
  <2>4. \A g, h \in F : g = h \/ Beside(g, cells'[g], h, cells'[h])
    BY <1>1, <1>17, <1>19 DEF Placed, SizeAt
  <2> QED BY <2>2, <2>3, <2>4
<1>21. HeapTypeOK' /\ ~clash' /\ Placed(F)' /\ Busy(F)'
  <2>1. offs' \in 1 .. offs /\ head' \in [List -> 0 .. Size] /\ a \in offs' .. Size /\ w \in Header .. Size
        /\ a + w <= Size + 1
    BY <1>1, <1>3, <1>9, <1>11 DEF HeapTypeOK
  <2>2. \A b \in live : /\ Beside(b.at, b.size, a, w)
                        /\ cells'[b.at] = cells[b.at] /\ cells'[b.at + 1] = cells[b.at + 1]
                        /\ cells'[b.at + 2] = cells[b.at + 2]
    BY <1>13, <1>18
  <2>3. \A g \in F : /\ g \in offs' .. Size /\ cells'[g] \in Header .. Size /\ g + cells'[g] <= Size + 1
                     /\ Beside(g, cells'[g], a, w)
                     /\ \A b \in live : Beside(g, cells'[g], b.at, b.size)
    BY <1>3, <1>9, <1>20
  <2>4. \A g, h \in F : g = h \/ Beside(g, cells'[g], h, cells'[h])
    BY <1>20
  <2> QED BY <1>1, <1>14, <2>1, <2>2, <2>3, <2>4, HandedOut
<1>22. Linked(F)'
  BY <1>1, <1>9, <1>17, <1>19, StayLinked
<1> QED BY <1>21, <1>22 DEF Core, Placed, Held

\* Which lists hold the free blocks when one of them is not empty.
LEMMA Shapes ==
  ASSUME HeapTypeOK, NEW F, Linked(F), head[list] # 0
  PROVE  \/ F = {head[list]} /\ Sole(list) /\ Others({list})
         \/ \E m \in List : /\ m # list /\ F = {head[list], head[m]} /\ head[list] # head[m]
                           /\ Sole(list) /\ Sole(m) /\ Others({list, m})
         \/ F = {head[list], NextAt(cells, head[list])} /\ Couple(list) /\ Others({list})
<1>0. list \in List
  BY DEF HeapTypeOK
<1>1. CASE F = {} /\ Others({})
  BY <1>0, <1>1 DEF Others
<1>2. ASSUME NEW l \in List, Others({l}) PROVE l = list
  BY <1>0, <1>2 DEF Others
<1>3. ASSUME NEW l \in List, NEW m \in List, Others({l, m}) PROVE l = list \/ m = list
  BY <1>0, <1>3 DEF Others
<1>4. \A l, m \in List : {head[l], head[m]} = {head[m], head[l]} /\ {l, m} = {m, l}
  OBVIOUS
<1>5. CASE \E l, m \in List : /\ l # m /\ F = {head[l], head[m]} /\ head[l] # head[m]
                              /\ Sole(l) /\ Sole(m) /\ Others({l, m})
  <2>1. PICK l, m \in List : /\ l # m /\ F = {head[l], head[m]} /\ head[l] # head[m]
                             /\ Sole(l) /\ Sole(m) /\ Others({l, m})
    BY <1>5
  <2>2. CASE l = list
    BY <2>1, <2>2
  <2>3. CASE m = list
    BY <1>4, <2>1, <2>3
  <2> QED BY <1>3, <2>1, <2>2, <2>3
<1> QED BY <1>1, <1>2, <1>5 DEF Linked

\* Taking a node off changes the links of the others only.
LEMMA TakenCells ==
  ASSUME HeapTypeOK, NEW F, Linked(F), Placed(F), NEW x, x # 0, head[list] # 0,
         x \in {head[list], NextAt(cells, head[list])}, NEW s, s = Removed(Pool, list, x)
  PROVE  /\ s.head \in [List -> 0 .. Size] /\ s.cells \in [Cell -> 0 .. Size]
         /\ \A c \in Cell : (\A g \in F \ {x} : c # g + 1 /\ c # g + 2) => s.cells[c] = cells[c]
<1> DEFINE nx == NextAt(cells, x)
           pv == PrevAt(cells, x)
<1>1. /\ s.cells = [c \in Cell |-> IF nx # 0 /\ c = nx + 2 THEN pv
                                   ELSE IF pv # 0 /\ c = pv + 1 THEN nx ELSE cells[c]]
      /\ s.head = IF pv = 0 THEN [head EXCEPT ![list] = nx] ELSE head
  BY DEF Removed, Pool
<1>2. x \in F /\ (nx # 0 => nx \in F \ {x}) /\ (pv # 0 => pv \in F \ {x})
  BY Shapes DEF Sole, Couple, Fresh
<1>3. x + 1 \in Cell /\ x + 2 \in Cell
  BY <1>2, InMemory DEF Placed
<1>4. nx \in 0 .. Size /\ pv \in 0 .. Size
  BY <1>3 DEF HeapTypeOK, NextAt, PrevAt
<1> HIDE DEF nx, pv
<1> QED BY <1>1, <1>2, <1>4 DEF HeapTypeOK

\* What is left of the lists when a node has been taken off.
LEMMA TakenOff ==
  ASSUME HeapTypeOK, NEW F, Linked(F), Placed(F), NEW x, x # 0, head[list] # 0,
         x \in {head[list], NextAt(cells, head[list])},
         NEW s, s = Removed(Pool, list, x), head' = s.head, list' = list,
         \A g \in F \ {x} : cells'[g + 1] = s.cells[g + 1] /\ cells'[g + 2] = s.cells[g + 2]
  PROVE  Linked(F \ {x})'
<1> DEFINE G == F \ {x}
           h == head[list]
           nx == NextAt(cells, x)
           pv == PrevAt(cells, x)
<1>0. /\ list \in List /\ cells \in [Cell -> 0 .. Size] /\ head \in [List -> 0 .. Size]
      /\ \A g \in F : g \in Nat \ {0} /\ g + 1 \in Cell /\ g + 2 \in Cell
  <2>1. \A g \in F : g \in Cell /\ g + 1 \in Cell /\ g + 2 \in Cell
    BY InMemory DEF Placed
  <2>2. \A c \in Cell : c \in Nat \ {0}
    BY PoolAssumption DEF Cell
  <2> QED BY <2>1, <2>2 DEF HeapTypeOK
<1>1. /\ s.cells = [c \in Cell |-> IF nx # 0 /\ c = nx + 2 THEN pv
                                   ELSE IF pv # 0 /\ c = pv + 1 THEN nx ELSE cells[c]]
      /\ s.head = IF pv = 0 THEN [head EXCEPT ![list] = nx] ELSE head
  BY DEF Removed, Pool
<1>2. \A ls : Others(ls)' <=> \A m \in List \ ls : s.head[m] = 0
  BY DEF Others
<1>3. CASE F = {h} /\ Sole(list) /\ Others({list})
  <2>1. x = h /\ nx = 0 /\ pv = 0 /\ G = {}
    BY <1>3 DEF Sole, Fresh
  <2>2. s.cells = cells /\ s.head = [head EXCEPT ![list] = 0]
    BY <1>0, <1>1, <2>1
  <2>3. Others({})'
    BY <1>0, <1>2, <1>3, <2>2 DEF Others
  <2>4. Linked(G)'
    BY <2>1, <2>3 DEF Linked
  <2> QED BY <2>4
<1>4. ASSUME NEW m \in List, m # list, F = {h, head[m]}, h # head[m], Sole(list), Sole(m), Others({list, m})
      PROVE  Linked(G)'
  <2>1. x = h /\ nx = 0 /\ pv = 0 /\ G = {head[m]}
    BY <1>4 DEF Sole, Fresh
  <2>2. s.cells = cells /\ s.head = [head EXCEPT ![list] = 0]
    BY <1>0, <1>1, <2>1
  <2>3. Others({m})'
    BY <1>0, <1>2, <1>4, <2>2 DEF Others
  <2>4. head'[m] = head[m] /\ head[m] \in G
    BY <1>0, <1>4, <2>1, <2>2
  <2>5. Sole(m)'
    BY <1>4, <2>2, <2>4 DEF Sole, Fresh, NextAt, PrevAt
  <2>6. Linked(G)'
    BY <2>1, <2>3, <2>4, <2>5 DEF Linked
  <2> QED BY <2>6
<1>5. CASE F = {h, NextAt(cells, h)} /\ Couple(list) /\ Others({list})
  <2> DEFINE b == NextAt(cells, h)
  <2>0. /\ h \in F /\ b \in F /\ b # h /\ PrevAt(cells, h) = 0 /\ PrevAt(cells, b) = h /\ NextAt(cells, b) = 0
        /\ h \in 0 .. Size /\ h \in Nat \ {0} /\ b \in Nat \ {0}
    BY <1>0, <1>5 DEF Couple
  <2>8. b \in 0 .. Size
    BY <1>0, <2>0 DEF NextAt
  <2>1. CASE x = h
    <3>1. nx = b /\ pv = 0 /\ G = {b}
      BY <1>5, <2>0, <2>1
    <3> HIDE DEF b, h, nx, pv
    <3>2. s.cells = [c \in Cell |-> IF c = b + 2 THEN 0 ELSE cells[c]] /\ s.head = [head EXCEPT ![list] = b]
      BY <1>1, <2>0, <3>1
    <3>3. Others({list})'
      <4>1. \A m \in List \ {list} : s.head[m] = head[m] /\ head[m] = 0
        BY <1>0, <1>5, <3>2 DEF Others
      <4> QED BY <1>2, <4>1
    <3>4. head'[list] = b
      BY <1>0, <3>2
    <3>5. s.cells[b + 1] = cells[b + 1] /\ s.cells[b + 2] = 0
      BY <1>0, <2>0, <3>2
    <3>10. NextAt(cells, b) = 0 /\ b # 0
      BY <2>0
    <3>11. cells'[b + 1] = s.cells[b + 1] /\ cells'[b + 2] = s.cells[b + 2]
      BY <3>1
    <3>12. NextAt(cells', b) = 0 /\ PrevAt(cells', b) = 0
      BY <3>5, <3>10, <3>11 DEF NextAt, PrevAt
    <3>6. Sole(list)'
      BY <3>4, <3>10, <3>12 DEF Sole, Fresh
    <3>13. G = {head'[list]}
      BY <3>1, <3>4
    <3>7. Linked(G)'
      BY <1>0, <3>1, <3>3, <3>6, <3>13 DEF Linked
    <3> QED BY <3>7
  <2>2. CASE x # h
    <3>1. x = b /\ nx = 0 /\ pv = h /\ G = {h}
      BY <1>5, <2>0, <2>2
    <3>10. PrevAt(cells, h) = 0
      BY <2>0
    <3> HIDE DEF b, h, nx, pv
    <3>2. s.cells = [c \in Cell |-> IF c = h + 1 THEN 0 ELSE cells[c]] /\ s.head = head
      BY <1>1, <2>0, <3>1
    <3>3. Others({list})'
      <4>1. \A m \in List \ {list} : s.head[m] = head[m] /\ head[m] = 0
        BY <1>0, <1>5, <3>2 DEF Others
      <4> QED BY <1>2, <4>1
    <3>4. head'[list] = h
      BY <1>0, <3>2 DEF h
    <3>5. s.cells[h + 1] = 0 /\ s.cells[h + 2] = cells[h + 2]
      BY <1>0, <2>0, <3>2
    <3>11. cells'[h + 1] = s.cells[h + 1] /\ cells'[h + 2] = s.cells[h + 2]
      BY <3>1
    <3>12. NextAt(cells', h) = 0 /\ PrevAt(cells', h) = 0
      BY <3>5, <3>10, <3>11 DEF NextAt, PrevAt
    <3>6. Sole(list)'
      BY <2>0, <3>4, <3>12 DEF Sole, Fresh
    <3>13. G = {head'[list]}
      BY <3>1, <3>4
    <3>7. Linked(G)'
      BY <1>0, <3>1, <3>3, <3>6, <3>13 DEF Linked
    <3> QED BY <3>7
  <2> QED BY <2>1, <2>2
<1> QED BY <1>3, <1>4, <1>5, Shapes

\* A free block is handed out as it is.
LEMMA TakeHands ==
  ASSUME NEW F, Core(F), pc = "find", iter # 0, TakeNode, UNCHANGED <<node, list, want, old, ops>>,
         NEW f, f = iter
  PROVE  Core(F \ {f})'
<1>1. /\ HeapTypeOK /\ ~clash /\ Linked(F) /\ Placed(F) /\ Finding(F)
      /\ Size \in Nat /\ Header = 3 /\ Cell = 1 .. Size /\ offs \in 1 .. Size + 1
      /\ \A b \in live : /\ b.at \in offs .. Size /\ b.size \in 3 .. Size /\ b.at + b.size <= Size + 1
                         /\ cells[b.at] = b.size
      /\ \A g \in F : g \in offs .. Size /\ cells[g] \in 3 .. Size /\ g + cells[g] <= Size + 1
      /\ old # 0 => \E b \in live : b.at = old
  BY FindFacts
<1>2. iter \in F /\ head[list] # 0 /\ iter \in {head[list], NextAt(cells, head[list])}
  BY <1>1, FindsFree DEF Finding
<1>3. PICK o \in Nat, i \in Nat, n \in Nat, z \in Nat :
        o = offs /\ i = iter /\ n = cells[iter] /\ z = Size
  <2>1. offs \in Nat /\ iter \in Nat /\ cells[iter] \in Nat
    BY <1>1, <1>2
  <2> QED BY <1>1, <2>1
<1>4. o >= 1 /\ i >= o /\ n >= 3 /\ i + n <= z + 1 /\ i <= z
  BY <1>1, <1>2, <1>3
<1> DEFINE s == Removed(Pool, list, iter)
           G == F \ {f}
<1>5. Allocated(s.cells, i, n) /\ head' = s.head /\ offs' = o
  BY <1>3 DEF TakeNode, SizeAt
<1>6. /\ s.head \in [List -> 0 .. Size] /\ s.cells \in [Cell -> 0 .. Size]
      /\ \A c \in Cell : (\A g \in G : c # g + 1 /\ c # g + 2) => s.cells[c] = cells[c]
  <2>1. f # 0 /\ f \in {head[list], NextAt(cells, head[list])} /\ s = Removed(Pool, list, f)
    BY <1>2
  <2> HIDE DEF s
  <2> QED BY <1>1, <1>2, <2>1, TakenCells
<1>7. Cell = 1 .. z /\ Header = 3 /\ i \in o .. z /\ i \in Cell /\ n \in Header .. z /\ i + n <= z + 1
  <2>1. i \in o .. z /\ i \in 1 .. z /\ n \in 3 .. z
    BY <1>4
  <2> QED BY <1>1, <1>3, <1>4, <2>1
\* Blocks other than the one that is handed out.
<1>8. ASSUME NEW b, b \in live \/ (b.at \in G /\ b.size = cells[b.at])
       PROVE  /\ b.at \in o .. z /\ b.size \in 3 .. z /\ b.at + b.size <= z + 1 /\ cells[b.at] = b.size
              /\ Beside(b.at, b.size, i, n)
              /\ \A k \in 0 .. 2 : b.at + k \in Cell /\ b.at + k \notin i .. i + n - 1
  <2>1. b.at \in o .. z /\ b.size \in 3 .. z /\ b.at + b.size <= z + 1 /\ cells[b.at] = b.size
    BY <1>1, <1>3, <1>8
  <2>2. b.at + b.size <= i \/ i + n <= b.at
    <3>1. CASE b \in live
      <4>1. Beside(i, n, b.at, b.size)
        BY <1>1, <1>2, <1>3, <3>1 DEF Placed, SizeAt
      <4> QED BY <4>1 DEF Beside
    <3>2. CASE b.at \in G /\ b.size = cells[b.at]
      <4>1. Beside(i, n, b.at, b.size)
        BY <1>1, <1>2, <1>3, <3>2 DEF Placed, SizeAt
      <4> QED BY <4>1 DEF Beside
    <3> QED BY <1>8, <3>1, <3>2
  <2>3. PICK x \in Nat, y \in Nat : x = b.at /\ y = b.size
    BY <2>1
  <2>4. x \in o .. z /\ y \in 3 .. z /\ x + y <= z + 1 /\ (x + y <= i \/ i + n <= x)
    BY <2>1, <2>2, <2>3
  <2>5. \A k \in 0 .. 2 : x + k \in 1 .. z /\ x + k \notin i .. i + n - 1
    BY <1>4, <2>4
  <2> QED BY <1>7, <2>1, <2>2, <2>3, <2>5 DEF Beside
\* Where the sizes and the headers of held blocks are, no link of a free block is.
<1>9. ASSUME NEW g \in G, NEW x \in Nat, NEW y \in Nat, Beside(g, cells[g], x, y), NEW c \in x .. x + y - 1
      PROVE  c # g + 1 /\ c # g + 2
  <2>1. PICK p \in Nat, q \in Nat : p = g /\ q = cells[g]
    BY <1>1
  <2>2. q >= 3 /\ (p + q <= x \/ x + y <= p)
    BY <1>1, <1>9, <2>1 DEF Beside
  <2>3. c # p + 1 /\ c # p + 2
    BY <1>9, <2>2
  <2> QED BY <2>1, <2>3
<1>10. s.cells[i] = n
  <2>1. ASSUME NEW g \in G PROVE i # g + 1 /\ i # g + 2
    <3>1. Beside(g, cells[g], i, n)
      BY <1>1, <1>2, <1>3 DEF Placed, SizeAt
    <3>2. i \in i .. i + n - 1
      BY <1>4
    <3> QED BY <1>9, <3>1, <3>2
  <2> QED BY <1>3, <1>6, <1>7, <2>1
<1>11. ASSUME NEW b \in live, NEW k \in 0 .. 2 PROVE s.cells[b.at + k] = cells[b.at + k]
  <2>1. b.at \in Nat /\ b.size \in Nat /\ b.at + k \in b.at .. b.at + b.size - 1
    BY <1>1
  <2>2. \A g \in G : Beside(g, cells[g], b.at, b.size)
    BY <1>1 DEF Placed, SizeAt
  <2>3. \A g \in G : b.at + k # g + 1 /\ b.at + k # g + 2
    BY <1>9, <2>1, <2>2
  <2>4. b.at + k \in Cell
    BY <1>8
  <2> HIDE DEF s, G
  <2> QED BY <1>6, <2>3, <2>4
<1>12. ASSUME NEW g \in G PROVE s.cells[g] = cells[g]
  <2>1. g \in Nat /\ cells[g] \in Nat /\ cells[g] >= 3 /\ g \in Cell /\ g \in g .. g + cells[g] - 1
    BY <1>1
  <2>2. \A k \in G : k # g => Beside(k, cells[k], g, cells[g])
    BY <1>1 DEF Placed, SizeAt
  <2>3. ASSUME NEW k \in G PROVE g # k + 1 /\ g # k + 2
    <3>1. CASE k = g
      BY <2>1, <3>1
    <3>2. CASE k # g
      BY <1>9, <2>1, <2>2, <3>2
    <3> QED BY <3>1, <3>2
  <2> HIDE DEF s
  <2> QED BY <1>6, <2>1, <2>3
<1>13. Outcome(s.cells, i, n)
  <2>1. old # 0 => s.cells[old] \in Header .. Size /\ old + s.cells[old] <= Size + 1
    <3> SUFFICES ASSUME old # 0 PROVE s.cells[old] \in Header .. Size /\ old + s.cells[old] <= Size + 1
      OBVIOUS
    <3>1. PICK b \in live : b.at = old
      BY <1>1
    <3>2. b.at + 0 = b.at /\ 0 \in 0 .. 2
      BY <1>1, <3>1
    <3>3. s.cells[b.at] = b.size
      BY <1>1, <1>11, <3>2
    <3> HIDE DEF s
    <3> QED BY <1>1, <3>1, <3>3
  <2>2. i \in Cell /\ n \in Header .. Size /\ i + n <= Size + 1
    BY <1>3, <1>7
  <2> DEFINE m == s.cells
  <2>3. m \in [Cell -> 0 .. Size] /\ m[i] = n /\ Allocated(m, i, n)
    BY <1>5, <1>6, <1>10
  <2>4. old # 0 => m[old] \in Header .. Size /\ old + m[old] <= Size + 1
    BY <2>1
  <2> HIDE DEF m
  <2>5. Outcome(m, i, n)
    BY <1>1, <2>2, <2>3, <2>4, AllocatedCells
  <2> QED BY <2>5 DEF m
<1> HIDE DEF s
<1>14. \A c \in Cell : c \notin i .. i + n - 1 => cells'[c] = s.cells[c]
  <2>1. \A c \in Cell : c \notin i .. i + n - 1 => c \notin i + 1 .. i + n - 1
    <3>1. \A c \in 1 .. z : c \notin i .. i + n - 1 => c \notin i + 1 .. i + n - 1
      BY <1>4
    <3> QED BY <1>7, <3>1
  <2> QED BY <1>13, <2>1 DEF Outcome
<1>15. ASSUME NEW b, b \in live \/ (b.at \in G /\ b.size = cells[b.at])
       PROVE  /\ cells'[b.at] = s.cells[b.at] /\ cells'[b.at + 1] = s.cells[b.at + 1]
              /\ cells'[b.at + 2] = s.cells[b.at + 2]
  <2>1. \A k \in 0 .. 2 : cells'[b.at + k] = s.cells[b.at + k]
    BY <1>8, <1>14, <1>15
  <2>2. b.at + 0 = b.at /\ 0 \in 0 .. 2 /\ 1 \in 0 .. 2 /\ 2 \in 0 .. 2
    BY <1>8, <1>15
  <2> QED BY <2>1, <2>2
<1>16. \A b \in live : /\ Beside(b.at, b.size, i, n)
                       /\ cells'[b.at] = cells[b.at] /\ cells'[b.at + 1] = cells[b.at + 1]
                       /\ cells'[b.at + 2] = cells[b.at + 2]
  <2>1. ASSUME NEW b \in live PROVE /\ s.cells[b.at] = cells[b.at] /\ s.cells[b.at + 1] = cells[b.at + 1]
                                    /\ s.cells[b.at + 2] = cells[b.at + 2]
    <3>1. b.at + 0 = b.at /\ 0 \in 0 .. 2 /\ 1 \in 0 .. 2 /\ 2 \in 0 .. 2
      BY <1>1
    <3> QED BY <1>11, <3>1
  <2> QED BY <1>8, <1>15, <2>1
<1>17. ASSUME NEW g \in G
       PROVE  /\ cells'[g] = cells[g] /\ cells'[g + 1] = s.cells[g + 1] /\ cells'[g + 2] = s.cells[g + 2]
              /\ Beside(g, cells'[g], i, n) /\ g \in o .. z
  <2> DEFINE b == [at |-> g, size |-> cells[g]]
  <2>1. b.at = g /\ b.size = cells[g]
    OBVIOUS
  <2> HIDE DEF b
  <2> QED BY <1>8, <1>12, <1>15, <2>1
<1>18. Linked(G)'
  <2>1. /\ HeapTypeOK /\ Linked(F) /\ Placed(F) /\ iter # 0 /\ s = Removed(Pool, list, iter)
        /\ head' = s.head /\ list' = list
    BY <1>1, <1>5 DEF s
  <2>2. \A g \in F \ {f} : cells'[g + 1] = s.cells[g + 1] /\ cells'[g + 2] = s.cells[g + 2]
    BY <1>17
  <2>3. f # 0 /\ head[list] # 0 /\ f \in {head[list], NextAt(cells, head[list])} /\ s = Removed(Pool, list, f)
    BY <1>2, <2>1
  <2> HIDE DEF G
  <2>4. Linked(F \ {f})'
    BY <2>1, <2>2, <2>3, TakenOff
  <2> QED BY <2>4 DEF G
<1>19. HeapTypeOK' /\ ~clash' /\ Placed(G)' /\ Busy(G)'
  <2>1. /\ offs' \in 1 .. offs /\ head' \in [List -> 0 .. Size] /\ i \in offs' .. Size /\ n \in Header .. Size
        /\ i + n <= Size + 1 /\ (Few(F) => Few(G))
    BY <1>1, <1>3, <1>5, <1>6, <1>7 DEF Few
  <2>2. \A g \in G : /\ g \in offs' .. Size /\ cells'[g] \in Header .. Size /\ g + cells'[g] <= Size + 1
                     /\ Beside(g, cells'[g], i, n)
                     /\ \A b \in live : Beside(g, cells'[g], b.at, b.size)
    BY <1>1, <1>3, <1>5, <1>17 DEF Placed, SizeAt
  <2>3. \A g, h \in G : g = h \/ Beside(g, cells'[g], h, cells'[h])
    BY <1>1, <1>17 DEF Placed, SizeAt
  <2> HIDE DEF G
  <2> QED BY <1>1, <1>13, <1>16, <2>1, <2>2, <2>3, HandedOut
<1> QED BY <1>18, <1>19 DEF Core, Placed, Held

\* A step of a search keeps the heap in order.
LEMMA FindKeeps == ASSUME NEW F, Core(F), FindStep PROVE \E G : Core(G)'
<1>0. pc = "find" /\ UNCHANGED <<node, list, want, old, ops>>
  BY DEF FindStep
<1>1. CASE iter = 0 /\ FromRegion /\ UNCHANGED head
  BY <1>0, <1>1, RegionHands
<1>2. CASE iter # 0 /\ TakeNode
  <2>1. PICK f : f = iter
    OBVIOUS
  <2> QED BY <1>0, <1>2, <2>1, TakeHands
<1>3. CASE iter # 0 /\ SizeAt(cells, iter) > want + Threshold /\ SplitNode
  BY <1>0, <1>3, SplitHands
<1>4. CASE iter # 0 /\ iter' = NextAt(cells, iter) /\ UNCHANGED <<cells, offs, head, live, clash, pc>>
  <2>1. /\ HeapTypeOK /\ ~clash /\ Linked(F) /\ Placed(F) /\ Finding(F)
    BY <1>0, FindFacts
  <2>2. iter \in F
    BY <1>0, <1>4, FindsFree
  <2>3. iter + 1 \in Cell
    BY <2>1, <2>2, InMemory DEF Placed
  <2>4. HeapTypeOK'
    BY <1>0, <1>4, <2>1, <2>3 DEF HeapTypeOK, NextAt
  <2>5. Linked(F)'
    BY <1>4, <2>1, StayLinked
  <2>6. Placed(F)'
    BY <1>4, <2>1 DEF Placed, Held, Span, Fresh
  <2>7. head[list] # 0 /\ iter \in {head[list], NextAt(cells, head[list])}
    BY <1>4, <2>1 DEF Finding
  <2>8. iter' = NextAt(cells, head[list]) \/ iter' = 0
    BY <1>4, <2>1, <2>7, Shapes DEF Sole, Couple, Fresh
  <2>9. Finding(F)'
    BY <1>0, <1>4, <2>1, <2>7, <2>8 DEF Finding, Few
  <2>10. Busy(F)'
    BY <1>0, <1>4, <2>9 DEF Busy
  <2>11. Core(F)'
    BY <1>4, <2>1, <2>4, <2>5, <2>6, <2>10 DEF Core, Placed, Held
  <2> QED BY <2>11
<1> QED BY <1>1, <1>2, <1>3, <1>4 DEF FindStep

\* An operation of a client starts.
LEMMA StartKeeps ==
  ASSUME MaxFree <= 1, NEW F, Core(F), HeapAlloc \/ HeapFree \/ FreeAgain \/ Realloc
  PROVE  Core(F)'
<1>1. /\ HeapTypeOK /\ ~clash /\ Linked(F) /\ Placed(F) /\ Busy(F) /\ pc = "idle"
      /\ UNCHANGED <<cells, offs, head, live, clash>> /\ ops' = ops + 1 /\ ops < MaxOps
  BY DEF Core, HeapAlloc, HeapFree, FreeAgain, Realloc, Client
<1>2. Linked(F)'
  BY <1>1, StayLinked
<1>3. Placed(F)'
  BY <1>1 DEF Placed, Held, Span, Fresh
<1>4. ASSUME MayFree PROVE Few(F)
  <2>1. FreeNodes = F
    BY <1>1, FreeAre
  <2>2. ASSUME NEW a \in F, NEW b \in F, a # b PROVE FALSE
    <3>1. F = {a, b}
      <4>1. PICK p, q : F \subseteq {p, q}
        <5>1. \E p, q : F \subseteq {p, q}
          <6>1. F = {} \/ (\E l \in List : F = {head[l]}) \/ (\E l, m \in List : F = {head[l], head[m]})
                \/ \E l \in List : F = {head[l], NextAt(cells, head[l])}
            BY <1>1, Zenon DEF Linked
          <6>2. ASSUME NEW p, NEW q, F = {p, q} PROVE \E x, y : F \subseteq {x, y}
            BY <6>2
          <6>3. ASSUME NEW p, F = {p} PROVE \E x, y : F \subseteq {x, y}
            <7>1. F \subseteq {p, p}
              BY <6>3
            <7> QED BY <7>1
          <6> QED BY <6>1, <6>2, <6>3
        <5> QED BY <5>1
      <4> QED BY <2>2, <4>1
    <3>2. Cardinality({a}) = 1 /\ IsFiniteSet({a})
      BY FS_Singleton
    <3>3. Cardinality({a} \cup {b}) = 2
      BY <2>2, <3>2, FS_AddElement
    <3>4. {a} \cup {b} = F
      BY <3>1
    <3> QED BY <1>4, <2>1, <3>3, <3>4, PoolAssumption DEF MayFree
  <2> QED BY <2>2 DEF Few
<1>5. ops' \in 0 .. MaxOps
  BY <1>1, PoolAssumption DEF HeapTypeOK
<1>6. CASE HeapAlloc
  <2>1. PICK n \in Requests : n \in 1 .. Size /\ StartAlloc(n) /\ old' = 0 /\ node' = 0
    BY <1>6 DEF HeapAlloc
  <2>2. n \in Nat /\ n > 0 /\ want' = n + 3 /\ want' \in Nat /\ want' > 3
    BY <2>1, PoolAssumption DEF StartAlloc, Header
  <2>3. list' \in List /\ iter' = head[list'] /\ pc' = "find"
    <3>1. SlotOf(n + Header) \in List
      BY <2>2 DEF SlotOf, List, Large, Header
    <3> QED BY <2>1, <3>1 DEF StartAlloc
  <2>4. HeapTypeOK'
    <3>1. iter' \in 0 .. Size /\ 0 \in 0 .. Size
      BY <1>1, <2>3, PoolAssumption DEF HeapTypeOK
    <3> QED BY <1>1, <1>5, <2>1, <2>2, <2>3, <3>1 DEF HeapTypeOK
  <2>5. Busy(F)'
    BY <1>1, <2>1, <2>2, <2>3 DEF Busy, Finding, Header
  <2> QED BY <1>1, <1>2, <1>3, <2>4, <2>5 DEF Core, Placed, Held
<1>7. CASE Realloc
  <2>1. PICK b \in live, n \in Requests : n \in 1 .. Size /\ StartAlloc(n) /\ old' = b.at /\ node' = b.at
    BY <1>7 DEF Realloc
  <2>2. n \in Nat /\ n > 0 /\ want' = n + 3 /\ want' \in Nat /\ want' > 3
    BY <2>1, PoolAssumption DEF StartAlloc, Header
  <2>3. list' \in List /\ iter' = head[list'] /\ pc' = "find"
    <3>1. SlotOf(n + Header) \in List
      BY <2>2 DEF SlotOf, List, Large, Header
    <3> QED BY <2>1, <3>1 DEF StartAlloc
  <2>6. b.at \in Cell /\ b.at # 0 /\ b.at \in 0 .. Size
    BY <1>1, PoolAssumption DEF HeapTypeOK, Cell
  <2>4. HeapTypeOK'
    <3>1. iter' \in 0 .. Size
      BY <1>1, <2>3 DEF HeapTypeOK
    <3> QED BY <1>1, <1>5, <2>1, <2>2, <2>3, <2>6, <3>1 DEF HeapTypeOK
  <2>5. Busy(F)'
    <3>1. Few(F)
      BY <1>4, <1>7 DEF Realloc
    <3> QED BY <1>1, <2>1, <2>2, <2>3, <2>6, <3>1 DEF Busy, Finding, Header, Few
  <2> QED BY <1>1, <1>2, <1>3, <2>4, <2>5 DEF Core, Placed, Held
<1>8. CASE HeapFree
  <2>1. PICK b \in live : node' = b.at /\ pc' = "free" /\ UNCHANGED <<iter, list, want, old>>
    BY <1>8 DEF HeapFree
  <2>2. b.at # 0 /\ b.at \in 0 .. Size
    BY <1>1, PoolAssumption DEF HeapTypeOK, Cell
  <2>3. HeapTypeOK'
    BY <1>1, <1>5, <2>1, <2>2 DEF HeapTypeOK
  <2>4. Loose(F)'
    <3>1. Held(b)' /\ b.size = SizeAt(cells, node)'
      BY <1>1, <1>3, <2>1 DEF Placed, Held
    <3>2. \A c \in live : b = c \/ Beside(c.at, c.size, b.at, b.size)
      BY <1>1 DEF Placed
    <3>3. \A a \in F : Beside(a, SizeAt(cells, a), b.at, b.size)
      BY <1>1 DEF Placed
    <3> QED BY <1>1, <2>1, <3>1, <3>2, <3>3 DEF Loose, Held
  <2>5. Few(F)
    BY <1>4, <1>8 DEF HeapFree
  <2>6. Busy(F)'
    BY <2>1, <2>2, <2>4, <2>5 DEF Busy, Freeable, Few
  <2> QED BY <1>1, <1>2, <1>3, <2>3, <2>6 DEF Core, Placed, Held
<1>9. CASE FreeAgain
  <2>1. node # 0 /\ pc' = "free" /\ UNCHANGED <<iter, node, list, want, old>>
    BY <1>9 DEF FreeAgain
  <2>2. HeapTypeOK'
    BY <1>1, <1>5, <2>1 DEF HeapTypeOK
  <2>3. Few(F) /\ Freeable(F)
    BY <1>1, <1>4, <1>9, <2>1 DEF FreeAgain, Busy
  <2>4. Freeable(F)'
    BY <1>1, <2>1, <2>3 DEF Freeable, Loose, Taken, Span, Fresh
  <2>5. Busy(F)'
    BY <2>1, <2>3, <2>4 DEF Busy, Few
  <2> QED BY <1>1, <1>2, <1>3, <2>2, <2>5 DEF Core, Placed, Held
<1> QED BY <1>6, <1>7, <1>8, <1>9

\* Giving up blocks leaves the others where they are.
LEMMA FewerHeld ==
  ASSUME NEW F, Placed(F), live' \subseteq live, UNCHANGED <<cells, offs, node>>
  PROVE  Placed(F)' /\ (Loose(F) => Loose(F)')
<1>1. Placed(F)'
  BY DEF Placed, Held, Span, Fresh
<1>2. Loose(F) => Loose(F)'
  BY DEF Loose, Span, Fresh
<1> QED BY <1>1, <1>2

\* At most one block is free: what the lists look like then.
LEMMA FewShapes ==
  ASSUME NEW F, Linked(F), Few(F)
  PROVE  \/ F = {} /\ Others({})
         \/ \E l \in List : F = {head[l]} /\ Sole(l) /\ Others({l})
<1>1. ASSUME NEW l \in List, NEW m \in List, F = {head[l], head[m]}, head[l] # head[m] PROVE FALSE
  BY <1>1 DEF Few
<1>2. ASSUME NEW l \in List, F = {head[l], NextAt(cells, head[l])}, Couple(l) PROVE FALSE
  BY <1>2 DEF Few, Couple
<1> QED BY <1>1, <1>2 DEF Linked

\* A block of a size a free list holds has such a list.
LEMMA SlotIsList == ASSUME NEW n \in Nat PROVE SlotOf(n) \in List
BY DEF SlotOf, List, Large

\* Freeing begins: the block goes back to the region, into an empty list, or on to a walk
\* through the list for its size.
LEMMA FreeKeeps == ASSUME NEW F, Core(F), FreeStep PROVE \E G : Core(G)'
<1> DEFINE n == SizeAt(cells, node)
<1>1. /\ HeapTypeOK /\ ~clash /\ Linked(F) /\ Placed(F) /\ Few(F) /\ Freeable(F) /\ node # 0
      /\ old' = 0 /\ UNCHANGED <<want, clash, ops>> /\ live' = {b \in live : b.at # node}
      /\ Size \in Nat /\ Cell = 1 .. Size /\ Header = 3 /\ offs \in 1 .. Size + 1
  BY PoolAssumption DEF Core, Busy, Freeable, FreeStep, Header, Cell, HeapTypeOK
<1>2. live' \subseteq live /\ \A b \in live' : b.at # node
  BY <1>1
<1>3. node \in Cell /\ n \in 0 .. Size /\ n \in Nat
  BY <1>1 DEF HeapTypeOK, SizeAt
<1>4. \A b \in live : Span(b.at, b.size)
  BY <1>1 DEF Placed, Held
<1> HIDE DEF n
<1>5. CASE (node < offs \/ n = 0 \/ n > Size) /\ pc' = "idle" /\ UNCHANGED <<cells, offs, head, iter, node, list>>
  <2>1. HeapTypeOK'
    BY <1>1, <1>2, <1>5 DEF HeapTypeOK
  <2>2. Linked(F)'
    BY <1>1, <1>5, StayLinked
  <2>3. Placed(F)' /\ (Loose(F) => Loose(F)')
    BY <1>1, <1>2, <1>5, FewerHeld
  <2>4. Taken => Taken'
    BY <1>5 DEF Taken
  <2>5. Busy(F)'
    BY <1>1, <1>5, <2>3, <2>4 DEF Busy, Freeable
  <2> QED BY <1>1, <2>1, <2>2, <2>3, <2>5 DEF Core, Placed, Held
<1>6. CASE node = offs /\ n \in 1 .. Size /\ offs' = offs + n /\ pc' = "idle" /\ UNCHANGED <<cells, head, iter, node, list>>
  <2>1. Loose(F)
    BY <1>1, <1>3, <1>6, PoolAssumption DEF Freeable, Taken, HeapTypeOK, Cell
  <2>2. PICK o \in Nat, k \in Nat, z \in Nat : o = offs /\ k = n /\ z = Size
    BY <1>1, <1>3
  <2>3. k >= 3 /\ o + k <= z + 1 /\ o >= 1
    BY <1>1, <1>6, <2>1, <2>2 DEF Loose, Span, n
  <2>4. ASSUME NEW x \in offs .. Size, NEW y \in Header .. Size, x + y <= Size + 1, Beside(x, y, node, n)
        PROVE  Span(x, y)'
    <3>1. PICK a \in Nat, b \in Nat : a = x /\ b = y
      BY <1>1, <2>4
    <3>2. a >= o /\ a <= z /\ b >= 3 /\ (a + b <= o \/ o + k <= a)
      BY <1>1, <1>6, <2>2, <2>4, <3>1 DEF Beside
    <3>3. a \in o + k .. z
      BY <3>2
    <3> QED BY <1>6, <2>2, <2>4, <3>1, <3>3 DEF Span
  <2>5. \A b \in live' : Span(b.at, b.size)'
    BY <1>2, <1>4, <2>1, <2>4 DEF Loose, Span, n
  <2>6. \A a \in F : Span(a, SizeAt(cells, a))'
    BY <1>1, <1>6, <2>1, <2>4 DEF Loose, Placed, Span, n
  <2>7. offs' \in 1 .. Size + 1
    <3>1. o + k \in 1 .. z + 1
      BY <2>3
    <3> QED BY <1>6, <2>2, <3>1
  <2>8. HeapTypeOK'
    BY <1>1, <1>2, <1>6, <2>7 DEF HeapTypeOK
  <2>9. Linked(F)'
    BY <1>1, <1>6, StayLinked
  <2>10. Placed(F)'
    BY <1>1, <1>2, <1>6, <2>5, <2>6 DEF Placed, Held, Fresh
  <2>11. node' < offs'
    <3>1. o < o + k
      BY <2>3
    <3> QED BY <1>6, <2>2, <3>1
  <2>12. Busy(F)'
    BY <1>1, <1>6, <2>11 DEF Busy, Freeable
  <2> QED BY <1>1, <2>5, <2>8, <2>9, <2>10, <2>12 DEF Core
<1>7. CASE /\ node > offs /\ n \in 1 .. Size /\ UNCHANGED <<offs, cells>> /\ node' = node /\ list' = SlotOf(n)
           /\ head[SlotOf(n)] = 0 /\ head' = [head EXCEPT ![SlotOf(n)] = node] /\ pc' = "idle" /\ iter' = 0
  <2>0. PICK l, G : l = SlotOf(n) /\ G = F \cup {node}
    OBVIOUS
  <2>1. l \in List
    BY <1>3, <2>0, SlotIsList
  <2>2. Loose(F) /\ Fresh(node)
    BY <1>1, <1>3, <1>7, PoolAssumption DEF Freeable, Taken, Loose, HeapTypeOK, Cell, n
  <2>3. head'[l] = node /\ \A m \in List \ {l} : head'[m] = head[m]
    BY <1>1, <1>7, <2>0, <2>1 DEF HeapTypeOK
  <2>4. Sole(l)'
    BY <1>1, <1>7, <2>2, <2>3 DEF Sole, Fresh
  <2>5. Linked(G)'
    <3>1. CASE F = {} /\ Others({})
      <4>1. Others({l})' /\ G = {head'[l]}
        BY <2>0, <2>3, <3>1 DEF Others
      <4> QED BY <2>1, <2>4, <4>1 DEF Linked
    <3>2. ASSUME NEW m \in List, F = {head[m]}, Sole(m), Others({m}) PROVE Linked(G)'
      <4>1. m # l
        BY <1>7, <2>0, <3>2 DEF Sole
      <4>2. head'[m] = head[m] /\ head[m] # node
        <5>1. Beside(head[m], SizeAt(cells, head[m]), node, SizeAt(cells, node))
          BY <2>2, <3>2 DEF Loose
        <5>2. Span(head[m], SizeAt(cells, head[m])) /\ Span(node, SizeAt(cells, node))
          BY <1>1, <2>2, <3>2 DEF Placed, Loose
        <5> QED BY <1>1, <2>3, <4>1, <5>1, <5>2 DEF Span, Beside
      <4>3. Sole(m)'
        BY <1>7, <3>2, <4>2 DEF Sole, Fresh
      <4>4. Others({m, l})'
        BY <2>3, <3>2 DEF Others
      <4>5. G = {head'[m], head'[l]} /\ head'[m] # head'[l]
        BY <2>0, <2>3, <3>2, <4>2
      <4> QED BY <2>1, <2>4, <4>1, <4>3, <4>4, <4>5 DEF Linked
    <3> QED BY <1>1, <3>1, <3>2, FewShapes
  <2>6. Placed(F)' /\ Loose(F)'
    BY <1>1, <1>2, <1>7, <2>2, FewerHeld
  <2>7. Placed(G)'
    <3>1. \A b \in live' : Beside(b.at, b.size, node, SizeAt(cells, node))
      BY <1>2, <2>2 DEF Loose
    <3>2. \A a \in G : Span(a, SizeAt(cells, a))'
      BY <1>7, <2>0, <2>6 DEF Placed, Loose
    <3>3. \A a \in F : Beside(a, SizeAt(cells, a), node, SizeAt(cells, node))
      BY <2>2 DEF Loose
    <3>4. \A a, b, c, d : Beside(a, b, c, d) => Beside(c, d, a, b)
      BY DEF Beside
    <3>5. \A a, c \in G : a = c \/ Beside(a, SizeAt(cells, a), c, SizeAt(cells, c))
      BY <1>1, <2>0, <3>3, <3>4 DEF Placed
    <3>6. \A a \in G, b \in live' : Beside(a, SizeAt(cells, a), b.at, b.size)
      BY <1>1, <1>2, <2>0, <3>1, <3>4 DEF Placed
    <3> QED BY <1>7, <2>6, <3>2, <3>5, <3>6 DEF Placed
  <2>8. Taken'
    <3>1. PICK a \in Nat, k \in Nat : a = node /\ k = n
      BY <1>1, <1>3
    <3>2. a <= a /\ a < a + k
      BY <1>7, <3>1
    <3> QED BY <1>1, <1>7, <2>0, <2>3, <3>1, <3>2 DEF Taken, n
  <2>9. HeapTypeOK'
    <3>1. head' \in [List -> 0 .. Size] /\ 0 \in 0 .. Size /\ list' \in List
      BY <1>1, <1>7, <2>0, <2>1 DEF HeapTypeOK
    <3> QED BY <1>1, <1>2, <1>7, <3>1 DEF HeapTypeOK
  <2>10. Busy(G)'
    BY <1>1, <1>7, <2>8 DEF Busy, Freeable
  <2>11. \A b \in live' : Span(b.at, b.size)'
    BY <1>2, <1>4, <1>7 DEF Span
  <2>12. Core(G)'
    BY <1>1, <2>5, <2>7, <2>9, <2>10, <2>11 DEF Core
  <2> QED BY <2>12
<1>8. CASE /\ node > offs /\ n \in 1 .. Size /\ UNCHANGED <<offs, cells>> /\ node' = node /\ list' = SlotOf(n)
           /\ head[SlotOf(n)] # 0 /\ head' = head /\ pc' = "insert" /\ iter' = head[SlotOf(n)]
  <2>1. SlotOf(n) \in List
    BY <1>3, SlotIsList
  <2>2. HeapTypeOK'
    <3>1. iter' \in 0 .. Size
      BY <1>1, <1>8, <2>1 DEF HeapTypeOK
    <3> QED BY <1>1, <1>2, <1>8, <2>1, <3>1 DEF HeapTypeOK
  <2>3. Linked(F)'
    BY <1>1, <1>8, StayLinked
  <2>4. Placed(F)' /\ (Loose(F) => Loose(F)')
    BY <1>1, <1>2, <1>8, FewerHeld
  <2>5. Taken => Taken'
    BY <1>8 DEF Taken
  <2>6. Loose(F) \/ Taken
    BY <1>1, <1>3, <1>8 DEF Freeable
  <2>7. Inserting(F)'
    BY <1>1, <1>2, <1>8, <2>4, <2>5, <2>6 DEF Inserting, n, Few
  <2>8. Busy(F)'
    BY <1>8, <2>7 DEF Busy
  <2> QED BY <1>1, <2>2, <2>3, <2>4, <2>8 DEF Core, Placed, Held
<1>9. pc = "free"
  BY DEF FreeStep
<1> QED BY <1>5, <1>6, <1>7, <1>8 DEF FreeStep, InsertInto, Pool, n

\* What the walk of an insertion starts from: the list has one block, and no other list has any.
LEMMA InsertFacts ==
  ASSUME NEW F, Core(F), pc = "insert"
  PROVE  /\ HeapTypeOK /\ ~clash /\ Placed(F) /\ Few(F) /\ Inserting(F)
         /\ F = {iter} /\ Sole(list) /\ Others({list}) /\ head[list] = iter /\ iter # 0
         /\ Size \in Nat /\ Cell = 1 .. Size /\ Header = 3 /\ offs \in 1 .. Size + 1 /\ list \in List
         /\ iter \in offs .. Size /\ cells[iter] \in 3 .. Size /\ iter + cells[iter] <= Size + 1
         /\ node \in Cell /\ cells[node] \in 0 .. Size /\ node > offs
         /\ cells[iter + 1] = 0 /\ cells[iter + 2] = 0
         /\ iter + 1 \in Cell /\ iter + 2 \in Cell
         /\ \A b \in live : b.at # node
<1>1. /\ HeapTypeOK /\ ~clash /\ Linked(F) /\ Placed(F) /\ Few(F) /\ Inserting(F)
      /\ iter # 0 /\ head[list] = iter /\ node > offs /\ \A b \in live : b.at # node
  BY DEF Core, Busy, Inserting
<1>2. Size \in Nat /\ Cell = 1 .. Size /\ Header = 3 /\ offs \in 1 .. Size + 1 /\ list \in List
  BY <1>1, PoolAssumption DEF HeapTypeOK, Cell, Header
<1>3. F = {iter} /\ Sole(list) /\ Others({list})
  BY <1>1, <1>2, FewShapes DEF Others
<1>4. iter \in offs .. Size /\ cells[iter] \in 3 .. Size /\ iter + cells[iter] <= Size + 1
  BY <1>1, <1>2, <1>3 DEF Placed, Span, SizeAt
<1>5. node \in Cell /\ cells[node] \in 0 .. Size
  BY <1>1, <1>2 DEF HeapTypeOK
<1>6. cells[iter + 1] = 0 /\ cells[iter + 2] = 0
  BY <1>1, <1>3 DEF Sole, Fresh, NextAt, PrevAt
<1>7. iter + 1 \in Cell /\ iter + 2 \in Cell
  BY <1>1, <1>3, InMemory DEF Placed
<1> QED BY <1>1, <1>2, <1>3, <1>4, <1>5, <1>6, <1>7

\* The walk ends without a change, when the block is free already or is given up.
LEMMA GivenUp ==
  ASSUME NEW F, Core(F), pc = "insert", pc' = "idle", iter' = 0,
         UNCHANGED <<cells, offs, head, node, list, want, old, live, clash, ops>>
  PROVE  Core(F)'
<1>1. HeapTypeOK /\ ~clash /\ Linked(F) /\ Placed(F) /\ Inserting(F) /\ 0 \in 0 .. Size
  BY PoolAssumption DEF Core, Busy
<1>2. HeapTypeOK'
  BY <1>1 DEF HeapTypeOK
<1>3. Linked(F)'
  BY <1>1, StayLinked
<1>4. Placed(F)' /\ (Loose(F) => Loose(F)')
  BY <1>1, FewerHeld
<1>5. Taken => Taken'
  BY DEF Taken
<1>6. Busy(F)'
  BY <1>1, <1>4, <1>5 DEF Busy, Freeable, Inserting
<1> QED BY <1>1, <1>2, <1>3, <1>4, <1>6 DEF Core, Placed, Held

\* Two blocks that touch become one at lo, whose header alone is written.
LEMMA JoinPlaced ==
  ASSUME HeapTypeOK, NEW F, Placed(F), NEW x, F = {x}, Loose(F), \A b \in live : b.at # node,
         NEW lo, NEW k, k = SizeAt(cells, x) + SizeAt(cells, node),
         (lo = x /\ x + SizeAt(cells, x) = node) \/ (lo = node /\ node + SizeAt(cells, node) = x),
         cells'[lo] = k, \A c \in Cell : c \notin lo .. lo + 2 => cells'[c] = cells[c],
         UNCHANGED <<live, offs>>
  PROVE  Placed({lo})' /\ k \in Header .. Size /\ (\A b \in live : Span(b.at, b.size)')
<1>0. Size \in Nat /\ Header = 3 /\ Cell = 1 .. Size /\ offs \in 1 .. Size + 1
  BY PoolAssumption DEF Header, Cell, HeapTypeOK
<1>1. Span(x, SizeAt(cells, x)) /\ Span(node, SizeAt(cells, node))
  BY DEF Placed, Loose
<1>2. PICK o \in Nat, a \in Nat, m \in Nat, b \in Nat, n \in Nat, z \in Nat :
        o = offs /\ a = x /\ m = SizeAt(cells, x) /\ b = node /\ n = SizeAt(cells, node) /\ z = Size
  <2>1. x \in Nat /\ SizeAt(cells, x) \in Nat /\ node \in Nat /\ SizeAt(cells, node) \in Nat /\ offs \in Nat
    BY <1>0, <1>1 DEF Span
  <2> QED BY <1>0, <2>1
<1>3. /\ a >= o /\ b >= o /\ m >= 3 /\ n >= 3 /\ a + m <= z + 1 /\ b + n <= z + 1 /\ k = m + n /\ o >= 1
      /\ (lo = a /\ a + m = b) \/ (lo = b /\ b + n = a)
  BY <1>0, <1>1, <1>2 DEF Span
<1>4. lo \in o .. z /\ k \in 3 .. z /\ lo + k <= z + 1 /\ lo \in Nat /\ k \in Nat
  BY <1>3
<1>5. Span(lo, k)' /\ cells'[lo] = k
  BY <1>0, <1>2, <1>4 DEF Span
<1>6. ASSUME NEW c \in live
      PROVE  /\ Held(c)' /\ Beside(lo, k, c.at, c.size)
  <2>1. Span(c.at, c.size) /\ cells[c.at] = c.size /\ cells[c.at + 1] = 0 /\ cells[c.at + 2] = 0
    BY DEF Placed, Held, Fresh, SizeAt, NextAt, PrevAt
  <2>2. Beside(x, m, c.at, c.size) /\ Beside(c.at, c.size, node, n)
    BY <1>2 DEF Placed, Loose
  <2>3. PICK p \in Nat, q \in Nat : p = c.at /\ q = c.size
    BY <1>0, <2>1 DEF Span
  <2>4. p >= o /\ q >= 3 /\ p + q <= z + 1 /\ (a + m <= p \/ p + q <= a) /\ (p + q <= b \/ b + n <= p)
    BY <1>0, <1>2, <2>1, <2>2, <2>3 DEF Span, Beside
  <2>5. lo + k <= p \/ p + q <= lo
    BY <1>3, <1>4, <2>4
  <2>6. \A i \in 0 .. 2 : p + i \in 1 .. z /\ p + i \notin lo .. lo + 2
    BY <1>3, <1>4, <2>4, <2>5
  <2>7. \A i \in 0 .. 2 : cells'[p + i] = cells[p + i]
    BY <1>0, <1>2, <2>6
  <2>8. p + 0 = p /\ 0 \in 0 .. 2 /\ 1 \in 0 .. 2 /\ 2 \in 0 .. 2
    OBVIOUS
  <2>9. cells'[p] = cells[p] /\ cells'[p + 1] = cells[p + 1] /\ cells'[p + 2] = cells[p + 2]
    BY <2>7, <2>8
  <2>10. Held(c)'
    BY <2>1, <2>3, <2>9 DEF Held, Span, Fresh, SizeAt, NextAt, PrevAt
  <2> QED BY <2>3, <2>5, <2>10 DEF Beside
<1>7. Placed({lo})'
  BY <1>5, <1>6 DEF Placed, SizeAt
<1>8. k \in Header .. Size
  BY <1>0, <1>2, <1>4
<1> QED BY <1>6, <1>7, <1>8 DEF Held

\* Two blocks become one, at the head of list q for its size or of the list it was merged in.
LEMMA JoinKeeps ==
  ASSUME NEW F, Core(F), pc = "insert", Loose(F),
         NEW lo, NEW k, k = SizeAt(cells, iter) + SizeAt(cells, node),
         (lo = iter /\ iter + SizeAt(cells, iter) = node) \/ (lo = node /\ node + SizeAt(cells, node) = iter),
         cells' \in [Cell -> 0 .. Size], cells'[lo] = k, cells'[lo + 1] = 0, cells'[lo + 2] = 0,
         \A c \in Cell : c \notin lo .. lo + 2 => cells'[c] = cells[c],
         NEW q \in List, head'[q] = lo, \A l \in List \ {q} : head'[l] = 0, head' \in [List -> 0 .. Size],
         q = SlotOf(cells'[node]), list' = q, pc' = "idle", iter' = 0,
         UNCHANGED <<offs, node, want, old, live, clash, ops>>
  PROVE  Core({lo})'
<1>1. /\ HeapTypeOK /\ ~clash /\ Placed(F) /\ F = {iter} /\ iter # 0 /\ node > offs
      /\ Size \in Nat /\ Cell = 1 .. Size /\ Header = 3 /\ offs \in 1 .. Size + 1
      /\ iter \in offs .. Size /\ cells[iter] \in 3 .. Size /\ node \in Cell
      /\ \A b \in live : b.at # node
  BY InsertFacts
<1>2. Placed({lo})' /\ k \in Header .. Size /\ \A b \in live : Span(b.at, b.size)'
  <2>1. PICK x : x = iter
    OBVIOUS
  <2>2. /\ F = {x} /\ k = SizeAt(cells, x) + SizeAt(cells, node)
        /\ (lo = x /\ x + SizeAt(cells, x) = node) \/ (lo = node /\ node + SizeAt(cells, node) = x)
    BY <1>1, <2>1
  <2>3. UNCHANGED <<live, offs>>
    OBVIOUS
  <2>4. HeapTypeOK /\ Placed(F) /\ \A b \in live : b.at # node
    BY <1>1
  <2> QED BY <2>2, <2>3, <2>4, JoinPlaced
<1>3. HeapTypeOK'
  <2>1. 0 \in 0 .. Size
    BY <1>1
  <2> QED BY <1>1, <2>1 DEF HeapTypeOK
<1>4. lo # 0 /\ lo \in Nat
  BY <1>1
<1>5. Linked({lo})'
  <2>1. Sole(q)'
    BY <1>4 DEF Sole, Fresh, NextAt, PrevAt
  <2>2. Others({q})'
    BY DEF Others
  <2> QED BY <2>1, <2>2 DEF Linked
<1>6. Taken'
  <2>1. PICK a \in Nat, m \in Nat, b \in Nat, n \in Nat :
          a = iter /\ m = SizeAt(cells, iter) /\ b = node /\ n = SizeAt(cells, node)
    <3>1. iter \in Nat /\ SizeAt(cells, iter) \in Nat /\ node \in Nat
      BY <1>1 DEF SizeAt
    <3>2. SizeAt(cells, node) \in Nat
      BY <1>1 DEF Loose, Span
    <3> QED BY <3>1, <3>2
  <2>2. m >= 3 /\ n >= 3 /\ k = m + n /\ ((lo = a /\ a + m = b) \/ (lo = b /\ b + n = a))
    BY <1>1, <2>1 DEF Loose, Span, SizeAt
  <2>3. lo <= b /\ b < lo + k
    BY <2>2
  <2>4. cells'[node] \in 1 .. Size
    <3>1. CASE lo = node
      BY <1>1, <1>2, <3>1
    <3>2. CASE lo # node
      <4>1. lo = a /\ a + m = b
        BY <2>1, <2>2, <3>2
      <4>2. b \notin lo .. lo + 2
        BY <2>2, <4>1
      <4>3. cells'[node] = cells[node]
        BY <1>1, <2>1, <4>2
      <4> QED BY <1>1, <4>3 DEF Loose, Span, SizeAt
    <3> QED BY <3>1, <3>2
  <2> QED BY <1>1, <1>4, <2>1, <2>3, <2>4 DEF Taken, SizeAt
<1>7. Busy({lo})'
  <2>1. node # 0
    BY <1>1
  <2> QED BY <1>6, <2>1 DEF Busy, Freeable
<1> QED BY <1>1, <1>2, <1>3, <1>5, <1>7 DEF Core

\* One iteration of an insertion keeps the heap in order.
LEMMA InsertKeeps == ASSUME NEW F, Core(F), InsertStep PROVE \E G : Core(G)'
<1>0. pc = "insert" /\ UNCHANGED <<want, old, live, clash, ops>>
  BY DEF InsertStep
<1>1. /\ HeapTypeOK /\ ~clash /\ Placed(F) /\ Few(F) /\ Inserting(F)
      /\ F = {iter} /\ Sole(list) /\ Others({list}) /\ head[list] = iter /\ iter # 0
      /\ Size \in Nat /\ Cell = 1 .. Size /\ Header = 3 /\ offs \in 1 .. Size + 1 /\ list \in List
      /\ iter \in offs .. Size /\ cells[iter] \in 3 .. Size /\ iter + cells[iter] <= Size + 1
      /\ node \in Cell /\ cells[node] \in 0 .. Size /\ node > offs
      /\ cells[iter + 1] = 0 /\ cells[iter + 2] = 0
      /\ iter + 1 \in Cell /\ iter + 2 \in Cell
      /\ \A b \in live : b.at # node
  BY <1>0, InsertFacts
<1>2. /\ cells \in [Cell -> 0 .. Size] /\ head \in [List -> 0 .. Size] /\ \A l \in List \ {list} : head[l] = 0
      /\ NextAt(cells, iter) = 0 /\ PrevAt(cells, iter) = 0 /\ iter \in Cell
  BY <1>1 DEF HeapTypeOK, Others, NextAt, PrevAt
<1>3. Loose(F) \/ Taken
  BY <1>1 DEF Inserting
\* The block is in the one of the list already, or apart from it.
<1>4. Taken => iter <= node /\ node < iter + cells[iter]
  BY <1>1 DEF Taken, Inserting, SizeAt
<1>5. CASE iter = offs /\ Reclaim
  <2> DEFINE s == Removed(Pool, list, iter)
  <2>1. s.cells = cells /\ s.head = [head EXCEPT ![list] = 0]
    BY <1>2 DEF Removed, Pool
  <2>2. s.head[list] = 0
    BY <1>1, <1>2, <2>1
  <2> HIDE DEF s
  <2>3. /\ offs' = offs + SizeAt(cells, iter) /\ cells' = cells /\ head' = s.head /\ pc' = "fault" /\ iter' = 0
        /\ UNCHANGED <<node, list>>
    BY <1>5, <2>1, <2>2 DEF Reclaim, s
  <2>5. PICK o \in Nat, n \in Nat, z \in Nat : o = offs /\ n = SizeAt(cells, iter) /\ z = Size
    <3>1. offs \in Nat /\ SizeAt(cells, iter) \in Nat
      BY <1>1 DEF SizeAt
    <3> QED BY <1>1, <3>1
  <2> SUFFICES Core({})'
    OBVIOUS
  <2>6. n >= 3 /\ o + n <= z + 1 /\ o >= 1
    BY <1>1, <1>5, <2>5 DEF SizeAt
  <2>7. offs' \in 1 .. Size + 1 /\ s.head \in [List -> 0 .. Size]
    <3>1. o + n \in 1 .. z + 1
      BY <2>6
    <3>2. 0 \in 0 .. Size
      BY <1>1
    <3> QED BY <1>2, <2>1, <2>3, <2>5, <3>1, <3>2
  <2>8. HeapTypeOK'
    <3>1. 0 \in 0 .. Size
      BY <1>1
    <3> QED BY <1>0, <1>1, <2>3, <2>7, <3>1 DEF HeapTypeOK
  <2>9. ASSUME NEW b \in live PROVE Span(b.at, b.size)'
    <3>1. Span(b.at, b.size) /\ Beside(iter, SizeAt(cells, iter), b.at, b.size)
      BY <1>1 DEF Placed, Held
    <3>2. PICK p \in Nat, q \in Nat : p = b.at /\ q = b.size
      BY <1>1, <3>1 DEF Span
    <3>3. p >= o /\ p <= z /\ q >= 3 /\ (o + n <= p \/ p + q <= o)
      BY <1>1, <1>5, <2>5, <3>1, <3>2 DEF Span, Beside
    <3>4. p \in o + n .. z
      BY <3>3
    <3> QED BY <2>3, <2>5, <3>1, <3>2, <3>4 DEF Span
  <2> QED BY <1>0, <1>1, <2>3, <2>8, <2>9 DEF Core
<1>6. ASSUME iter = node \/ (iter < node /\ iter + cells[iter] # node), InsertStep, iter # offs
      PROVE  Core(F)'
  <2>1. pc' = "idle" /\ iter' = 0 /\ UNCHANGED <<cells, offs, head, node, list>>
    BY <1>1, <1>2, <1>6 DEF InsertStep, Above, Return, WalkTo, SizeAt
  <2> QED BY <1>0, <2>1, GivenUp
<1>7. ASSUME Loose(F), iter + cells[iter] = node \/ node + cells[node] = iter
      PROVE  /\ cells[iter] + cells[node] \in 0 .. Size /\ cells[node] \in 3 .. Size /\ cells[iter] \in Nat
             /\ node + 1 \in Cell /\ node + 2 \in Cell /\ node \in Nat /\ iter \in Nat
  <2>1. Span(node, cells[node])
    BY <1>7 DEF Loose, SizeAt
  <2>2. PICK o \in Nat, i \in Nat, m \in Nat, b \in Nat, n \in Nat, z \in Nat :
          o = offs /\ i = iter /\ m = cells[iter] /\ b = node /\ n = cells[node] /\ z = Size
    <3>1. offs \in Nat /\ iter \in Nat /\ cells[iter] \in Nat /\ node \in Nat /\ cells[node] \in Nat
      BY <1>1
    <3> QED BY <1>1, <3>1
  <2>3. /\ i >= o /\ o >= 1 /\ m >= 3 /\ n >= 3 /\ i + m <= z + 1 /\ b + n <= z + 1 /\ b >= o
        /\ i + m = b \/ b + n = i
    BY <1>1, <1>7, <2>1, <2>2 DEF Span
  <2>4. m + n \in 0 .. z /\ n \in 3 .. z
    BY <2>3
  <2> QED BY <1>1, <2>1, <2>2, <2>4, InMemory
\* The block is added to the end of the free one.
<1>8. ASSUME NEW lo, lo = iter, iter < node, iter + cells[iter] = node, iter # offs PROVE Core({lo})'
  <2>1. Loose(F)
    BY <1>1, <1>3, <1>4, <1>8
  <2>2. /\ cells' = [cells EXCEPT ![iter] = @ + SizeAt(cells, node)] /\ pc' = "idle" /\ iter' = 0
        /\ UNCHANGED <<offs, head, node, list>>
    <3>1. Above
      BY <1>1, <1>8 DEF InsertStep
    <3>2. ~(iter + SizeAt(cells, iter) > node) /\ ~(iter + SizeAt(cells, iter) < node)
      BY <1>1, <1>8 DEF SizeAt
    <3> QED BY <3>1, <3>2 DEF Above, Return
  <2>3. PICK k : k = cells[iter] + cells[node]
    OBVIOUS
  <2>4. k \in 0 .. Size /\ cells[node] \in 3 .. Size /\ iter \in Nat
    BY <1>7, <1>8, <2>1, <2>3
  <2>5. cells' \in [Cell -> 0 .. Size] /\ cells'[lo] = k /\ \A c \in Cell : c # lo => cells'[c] = cells[c]
    BY <1>2, <1>8, <2>2, <2>3, <2>4 DEF SizeAt
  <2>6. /\ lo + 1 # lo /\ lo + 2 # lo /\ lo \in lo .. lo + 2 /\ node # lo
    BY <1>1, <1>8, <2>4
  <2>7. cells'[lo + 1] = 0 /\ cells'[lo + 2] = 0 /\ cells'[node] = cells[node]
    BY <1>1, <1>8, <2>5, <2>6
  <2>8. \A c \in Cell : c \notin lo .. lo + 2 => cells'[c] = cells[c]
    BY <2>5, <2>6
  <2>9. /\ k = SizeAt(cells, iter) + SizeAt(cells, node)
        /\ (lo = iter /\ iter + SizeAt(cells, iter) = node) \/ (lo = node /\ node + SizeAt(cells, node) = iter)
    BY <1>8, <2>3 DEF SizeAt
  <2>10. list = SlotOf(cells'[node])
    BY <1>1, <2>7 DEF Inserting, SizeAt
  <2>11. /\ head'[list] = lo /\ (\A l \in List \ {list} : head'[l] = 0) /\ head' \in [List -> 0 .. Size]
         /\ list' = list /\ list \in List
    BY <1>1, <1>2, <1>8, <2>2
  <2>12. UNCHANGED <<offs, node, want, old, live, clash, ops>>
    BY <1>0, <2>2
  <2>13. PICK q : q = list
    OBVIOUS
  <2>14. /\ q = SlotOf(cells'[node]) /\ list' = q /\ q \in List
         /\ head'[q] = lo /\ (\A l \in List \ {q} : head'[l] = 0)
    BY <2>10, <2>11, <2>13
  <2> QED BY <1>0, <2>1, <2>2, <2>5, <2>7, <2>8, <2>9, <2>11, <2>12, <2>14, JoinKeeps
\* The free one is added to the end of the block, which goes to the list of its new size.
<1>9. ASSUME NEW lo, lo = node, iter > node, node + cells[node] = iter, iter # offs PROVE Core({lo})'
  <2>1. Loose(F)
    BY <1>1, <1>3, <1>4, <1>9
  <2>2. BeforeHead /\ node + SizeAt(cells, node) = iter
    BY <1>1, <1>9 DEF InsertStep, SizeAt
  <2>3. PICK k : k = cells[iter] + cells[node]
    OBVIOUS
  <2>4. /\ k \in 0 .. Size /\ cells[node] \in 3 .. Size /\ cells[iter] \in Nat /\ node \in Nat
        /\ node + 1 \in Cell /\ node + 2 \in Cell
    BY <1>7, <1>9, <2>1, <2>3
  <2> DEFINE c1 == [cells EXCEPT ![node] = @ + SizeAt(cells, iter), ![node + 1] = NextAt(cells, iter), ![node + 2] = 0]
             h1 == [head EXCEPT ![list] = node]
             h0 == [head EXCEPT ![list] = 0]
  <2>5. node # node + 1 /\ node # node + 2 /\ node + 1 # node + 2 /\ 0 \in 0 .. Size
    BY <1>1, <2>4
  <2>6. /\ c1 \in [Cell -> 0 .. Size] /\ c1[node] = k /\ c1[node + 1] = 0 /\ c1[node + 2] = 0
        /\ \A c \in Cell : c # node /\ c # node + 1 /\ c # node + 2 => c1[c] = cells[c]
    <3>1. cells[node] + cells[iter] = k
      BY <2>3, <2>4
    <3> QED BY <1>1, <1>2, <2>4, <2>5, <3>1 DEF SizeAt
  <2>7. \A c \in Cell : c \notin lo .. lo + 2 => c1[c] = cells[c]
    <3>1. node \in lo .. lo + 2 /\ node + 1 \in lo .. lo + 2 /\ node + 2 \in lo .. lo + 2
      BY <1>9, <2>4
    <3> QED BY <2>6, <3>1
  <2>8. h0 \in [List -> 0 .. Size] /\ \A l \in List : h0[l] = 0
    BY <1>1, <1>2, <2>5
  <2> DEFINE M == [cells |-> c1, head |-> h1]
             s == Removed(M, list, node)
  <2>9. s.cells = c1 /\ s.head = h0
    <3>1. M.cells = c1 /\ M.head = h1
      OBVIOUS
    <3> HIDE DEF c1, M
    <3>2. NextAt(M.cells, node) = 0 /\ PrevAt(M.cells, node) = 0
      BY <2>6, <3>1 DEF NextAt, PrevAt
    <3>3. s.cells = [c \in Cell |-> c1[c]] /\ s.head = [h1 EXCEPT ![list] = 0]
      BY <3>1, <3>2 DEF Removed
    <3>4. s.cells = c1
      BY <2>6, <3>3
    <3> HIDE DEF s
    <3> QED BY <1>1, <1>2, <3>3, <3>4
  <2>10. SizeAt(M.cells, node) = k
    BY <2>6 DEF SizeAt
  <2>11. \/ list = Large /\ cells' = c1 /\ head' = h1 /\ Return /\ UNCHANGED <<node, list>>
         \/ list # Large /\ InsertInto(s, SlotOf(k), node)
    BY <2>2, <2>10 DEF BeforeHead
  <2>12. offs' = offs
    BY <2>2 DEF BeforeHead
  <2> HIDE DEF M, s, c1, h0
  <2>13. k \in Nat /\ SlotOf(k) \in List
    BY <2>4, <1>1, SlotIsList
  <2>14. list = Large => SlotOf(k) = Large
    <3>1. PICK a \in Nat, b \in Nat : a = cells[iter] /\ b = cells[node]
      BY <1>1, <2>4
    <3>2. k >= b /\ k = a + b
      BY <2>3, <3>1
    <3>3. list = SlotOf(b)
      BY <1>1, <3>1 DEF Inserting, SizeAt
    <3>4. b >= 3
      BY <1>1, <2>4, <3>1
    <3> QED BY <3>2, <3>3, <3>4 DEF SlotOf, Large
  <2>15. /\ cells' = c1 /\ head'[SlotOf(k)] = node /\ head' \in [List -> 0 .. Size]
         /\ \A l \in List \ {SlotOf(k)} : head'[l] = 0
         /\ list' = SlotOf(k) /\ node' = node /\ pc' = "idle" /\ iter' = 0
    <3>1. node \in 0 .. Size
      BY <1>1
    <3>2. CASE list = Large /\ cells' = c1 /\ head' = h1 /\ Return /\ UNCHANGED <<node, list>>
      BY <1>1, <1>2, <2>14, <3>1, <3>2 DEF Return
    <3>3. CASE list # Large /\ InsertInto(s, SlotOf(k), node)
      <4>1. s.head[SlotOf(k)] = 0
        BY <2>8, <2>9, <2>13
      <4>2. head' = [h0 EXCEPT ![SlotOf(k)] = node] /\ pc' = "idle" /\ iter' = 0 /\ cells' = c1 /\ node' = node
            /\ list' = SlotOf(k)
        BY <2>9, <3>3, <4>1 DEF InsertInto
      <4> QED BY <2>8, <2>13, <3>1, <4>2
    <3> QED BY <2>11, <3>2, <3>3
  <2>16. /\ k = SizeAt(cells, iter) + SizeAt(cells, node)
         /\ (lo = iter /\ iter + SizeAt(cells, iter) = node) \/ (lo = node /\ node + SizeAt(cells, node) = iter)
    BY <1>9, <2>3 DEF SizeAt
  <2>17. PICK q : q = SlotOf(k)
    OBVIOUS
  <2>18. /\ cells' \in [Cell -> 0 .. Size] /\ cells'[lo] = k /\ cells'[lo + 1] = 0 /\ cells'[lo + 2] = 0
         /\ (\A c \in Cell : c \notin lo .. lo + 2 => cells'[c] = cells[c])
         /\ q = SlotOf(cells'[node])
    BY <1>9, <2>6, <2>7, <2>15, <2>17
  <2>19. /\ q \in List /\ head'[q] = lo /\ (\A l \in List \ {q} : head'[l] = 0)
         /\ head' \in [List -> 0 .. Size] /\ list' = q
    BY <1>9, <2>13, <2>15, <2>17
  <2>20. UNCHANGED <<offs, node, want, old, live, clash, ops>> /\ pc' = "idle" /\ iter' = 0
    BY <1>0, <2>12, <2>15
  <2> QED BY <1>0, <2>1, <2>16, <2>18, <2>19, <2>20, JoinKeeps
\* The block goes before the free one in the list.
<1>10. ASSUME iter > node, node + cells[node] # iter, iter # offs PROVE \E G : Core(G)'
  <2>1. Loose(F)
    BY <1>1, <1>3, <1>4, <1>10
  <2>2. /\ cells' = [cells EXCEPT ![node + 1] = iter, ![node + 2] = 0, ![iter + 2] = node]
        /\ head' = [head EXCEPT ![list] = node] /\ pc' = "idle" /\ iter' = 0
        /\ UNCHANGED <<offs, node, list>>
    <3>1. BeforeHead
      BY <1>1, <1>10 DEF InsertStep
    <3> QED BY <1>10, <3>1 DEF BeforeHead, Return, SizeAt
  <2>3. /\ Span(node, cells[node]) /\ Span(iter, cells[iter])
        /\ Beside(iter, cells[iter], node, cells[node])
    BY <1>1, <2>1 DEF Loose, Placed, SizeAt
  <2>4. PICK o \in Nat, x \in Nat, m \in Nat, a \in Nat, n \in Nat, z \in Nat, q \in List :
          o = offs /\ x = iter /\ m = cells[iter] /\ a = node /\ n = cells[node] /\ z = Size /\ q = list
    <3>1. offs \in Nat /\ iter \in Nat /\ cells[iter] \in Nat /\ node \in Nat /\ cells[node] \in Nat
      BY <1>1
    <3> QED BY <1>1, <3>1
  <2>5. /\ a >= o /\ o >= 1 /\ m >= 3 /\ n >= 3 /\ x > a /\ x + m <= z + 1 /\ a + n <= z + 1 /\ a + n <= x
        /\ m <= z /\ n <= z
    <3>1. a >= o /\ o >= 1 /\ m >= 3 /\ n >= 3 /\ x > a /\ x + m <= z + 1 /\ a + n <= z + 1 /\ m <= z /\ n <= z
      BY <1>1, <1>10, <2>3, <2>4 DEF Span
    <3>2. x + m <= a \/ a + n <= x
      BY <2>3, <2>4 DEF Beside
    <3> QED BY <3>1, <3>2
  <2>6. /\ \A i \in {a, a + 1, a + 2, x, x + 1, x + 2} : i \in 1 .. z
        /\ a + 1 # a + 2 /\ a + 1 # x + 2 /\ a + 2 # x + 2
        /\ \A i \in {a, x, x + 1} : i # a + 1 /\ i # a + 2 /\ i # x + 2
        /\ a # x /\ x # 0 /\ a # 0 /\ x \in 0 .. z /\ a \in 0 .. z /\ 0 \in 0 .. z
    BY <2>5
  <2>7. /\ cells' \in [Cell -> 0 .. z] /\ cells'[a + 1] = x /\ cells'[a + 2] = 0 /\ cells'[x + 2] = a
        /\ \A c \in Cell : c # a + 1 /\ c # a + 2 /\ c # x + 2 => cells'[c] = cells[c]
    <3>1. cells' = [cells EXCEPT ![a + 1] = x, ![a + 2] = 0, ![x + 2] = a] /\ cells \in [Cell -> 0 .. z]
          /\ Cell = 1 .. z
      BY <1>1, <1>2, <2>2, <2>4
    <3> QED BY <2>6, <3>1
  <2>8. cells'[a] = n /\ cells'[x] = m /\ cells'[x + 1] = 0
    BY <1>1, <2>4, <2>6, <2>7
  <2>9. head' \in [List -> 0 .. Size] /\ head'[q] = a /\ \A l \in List \ {q} : head'[l] = 0
    BY <1>1, <1>2, <2>2, <2>4, <2>6
  <2>10. HeapTypeOK'
    BY <1>0, <1>1, <2>2, <2>4, <2>6, <2>7, <2>9 DEF HeapTypeOK
  <2>11. Linked({a, x})'
    <3>1. Couple(q)' /\ NextAt(cells, head[q])' = x /\ (head[q])' = a
      BY <2>6, <2>7, <2>8, <2>9 DEF Couple, NextAt, PrevAt
    <3>2. Others({q})'
      BY <2>9 DEF Others
    <3> QED BY <3>1, <3>2 DEF Linked
  <2>12. Span(a, n)' /\ Span(x, m)' /\ Beside(x, m, a, n) /\ Beside(a, n, x, m)
    BY <1>1, <2>2, <2>3, <2>4, <2>5 DEF Span, Beside
  <2>13. ASSUME NEW b \in live
         PROVE  Held(b)' /\ Beside(a, n, b.at, b.size) /\ Beside(x, m, b.at, b.size)
    <3>1. Span(b.at, b.size) /\ cells[b.at] = b.size /\ cells[b.at + 1] = 0 /\ cells[b.at + 2] = 0
      BY <1>1 DEF Placed, Held, Fresh, SizeAt, NextAt, PrevAt
    <3>2. Beside(x, m, b.at, b.size) /\ Beside(b.at, b.size, a, n)
      BY <1>1, <2>1, <2>4 DEF Placed, Loose, SizeAt
    <3>3. PICK p \in Nat, k \in Nat : p = b.at /\ k = b.size
      BY <1>1, <3>1 DEF Span
    <3>4. p >= o /\ k >= 3 /\ p + k <= z + 1 /\ (x + m <= p \/ p + k <= x) /\ (p + k <= a \/ a + n <= p)
      BY <1>1, <2>4, <3>1, <3>2, <3>3 DEF Span, Beside
    <3>5. \A i \in {p, p + 1, p + 2} : i \in 1 .. z /\ i # a + 1 /\ i # a + 2 /\ i # x + 2
      BY <2>5, <3>4
    <3>6. cells'[p] = k /\ cells'[p + 1] = 0 /\ cells'[p + 2] = 0
      BY <1>1, <2>4, <2>7, <3>1, <3>3, <3>5
    <3>7. Span(b.at, b.size)'
      BY <2>2, <3>1 DEF Span
    <3>8. Held(b)'
      BY <3>3, <3>6, <3>7 DEF Held, Fresh, SizeAt, NextAt, PrevAt
    <3> QED BY <3>2, <3>3, <3>4, <3>8 DEF Beside
  <2>14. Placed({a, x})'
    <3>1. \A b \in live' : Held(b)'
      BY <1>0, <2>13
    <3>2. \A b, c \in live' : b = c \/ Beside(b.at, b.size, c.at, c.size)
      BY <1>0, <1>1 DEF Placed
    <3>3. \A c \in {a, x} : Span(c, SizeAt(cells, c))'
      BY <2>8, <2>12 DEF SizeAt
    <3>4. \A c, d \in {a, x} : c = d \/ Beside(c, cells'[c], d, cells'[d])
      BY <2>8, <2>12
    <3>5. \A c \in {a, x}, b \in live' : Beside(c, cells'[c], b.at, b.size)
      BY <1>0, <2>8, <2>13
    <3> QED BY <3>1, <3>2, <3>3, <3>4, <3>5 DEF Placed, SizeAt, Beside
  <2>15. Busy({a, x})'
    BY <2>2, <2>6 DEF Busy, Few
  <2> QED BY <1>0, <1>1, <2>10, <2>11, <2>14, <2>15 DEF Core, Held, Placed
<1> QED
  <2>1. CASE iter = offs
    <3>1. Reclaim
      BY <1>1, <2>1 DEF InsertStep
    <3> QED BY <1>5, <2>1, <3>1
  <2>2. CASE iter # offs
    <3>1. CASE iter = node \/ (iter < node /\ iter + cells[iter] # node)
      BY <1>6, <2>2, <3>1
    <3>2. CASE iter < node /\ iter + cells[iter] = node
      <4>1. PICK lo : lo = iter
        OBVIOUS
      <4> QED BY <1>8, <2>2, <3>2, <4>1
    <3>3. CASE iter > node /\ node + cells[node] = iter
      <4>1. PICK lo : lo = node
        OBVIOUS
      <4> QED BY <1>9, <2>2, <3>3, <4>1
    <3>4. CASE iter > node /\ node + cells[node] # iter
      BY <1>10, <2>2, <3>4
    <3>5. iter \in Nat /\ node \in Nat
      BY <1>1
    <3>6. iter = node \/ iter < node \/ iter > node
      BY <3>5
    <3> QED BY <3>1, <3>2, <3>3, <3>4, <3>6
  <2> QED BY <2>1, <2>2

\* Between operations and after a fault nothing changes.
LEMMA RestKeeps == ASSUME NEW F, Core(F), UNCHANGED heap_vars PROVE Core(F)'
<1>1. UNCHANGED <<cells, offs, head, pc, iter, node, list, want, old, live, clash, ops>>
  BY DEF heap_vars
<1>2. HeapTypeOK'
  BY <1>1 DEF Core, HeapTypeOK
<1>3. (\A b \in live : Span(b.at, b.size))'
  BY <1>1 DEF Core, Span
<1>4. ASSUME pc # "fault" PROVE Linked(F)' /\ Placed(F)' /\ Busy(F)'
  <2>1. Linked(F)'
    BY <1>1, <1>4, StayLinked DEF Core
  <2>2. Placed(F)' /\ (Loose(F) => Loose(F)')
    BY <1>1, <1>4, FewerHeld DEF Core
  <2>3. Taken => Taken'
    BY <1>1 DEF Taken
  <2>4. Busy(F)'
    BY <1>1, <1>4, <2>2, <2>3 DEF Core, Busy, Freeable, Finding, Inserting
  <2> QED BY <2>1, <2>2, <2>4
<1> QED BY <1>1, <1>2, <1>3, <1>4 DEF Core

\* Every step of the pool and of its clients keeps the heap in order.
LEMMA StepHeap == ASSUME MaxFree <= 1, HeapInv, [HeapNext]_heap_vars PROVE HeapInv'
<1>1. PICK F : Core(F)
  BY DEF HeapInv
<1> SUFFICES \E G : Core(G)'
  BY DEF HeapInv
<1>2. CASE HeapAlloc \/ HeapFree \/ FreeAgain \/ Realloc
  BY <1>1, <1>2, StartKeeps
<1>3. CASE FindStep
  BY <1>1, <1>3, FindKeeps
<1>4. CASE FreeStep
  BY <1>1, <1>4, FreeKeeps
<1>5. CASE InsertStep
  BY <1>1, <1>5, InsertKeeps
<1>6. CASE UNCHANGED heap_vars
  BY <1>1, <1>6, RestKeeps
<1> QED BY <1>2, <1>3, <1>4, <1>5, <1>6 DEF HeapNext, Step, Finished

\* What the invariant says of the memory handed out.
LEMMA HeapInvMeans == ASSUME HeapInv PROVE HeapTypeOK /\ Disjoint /\ FreeNotHeld
<1>1. PICK F : Core(F)
  BY DEF HeapInv
<1>2. HeapTypeOK /\ ~clash /\ \A b \in live : Span(b.at, b.size)
  BY <1>1 DEF Core
<1>3. Size \in Nat /\ offs \in Nat /\ Header = 3
  BY <1>2, PoolAssumption DEF HeapTypeOK, Header
<1>4. ASSUME NEW b \in live PROVE Cells(b) \subseteq offs .. Size
  <2>1. Span(b.at, b.size)
    BY <1>2
  <2> QED BY <1>3, <2>1 DEF Cells, Span
<1>5. ASSUME pc = "idle" PROVE FreeCells \cap HeldCells = {}
  <2>1. Linked(F) /\ Placed(F)
    BY <1>1, <1>5 DEF Core
  <2>2. FreeNodes = F
    BY <1>2, <2>1, FreeAre
  <2>3. ASSUME NEW a \in F, NEW b \in live, NEW c \in Cells([at |-> a, size |-> SizeAt(cells, a)]), c \in Cells(b)
        PROVE  FALSE
    <3>1. Span(a, SizeAt(cells, a)) /\ Span(b.at, b.size) /\ Beside(a, SizeAt(cells, a), b.at, b.size)
      BY <2>1 DEF Placed, Held
    <3>2. PICK p \in Nat, m \in Nat, q \in Nat, n \in Nat :
            p = a /\ m = SizeAt(cells, a) /\ q = b.at /\ n = b.size
      BY <1>3, <3>1 DEF Span
    <3>3. c \in p .. p + m - 1 /\ c \in q .. q + n - 1
      BY <2>3, <3>2 DEF Cells
    <3> QED BY <3>1, <3>2, <3>3 DEF Beside
  <2>4. FreeCells = UNION {Cells([at |-> a, size |-> SizeAt(cells, a)]) : a \in F}
    BY <2>2 DEF FreeCells
  <2> SUFFICES ASSUME NEW c \in FreeCells, c \in HeldCells PROVE FALSE
    OBVIOUS
  <2>5. PICK a \in F : c \in Cells([at |-> a, size |-> SizeAt(cells, a)])
    BY <2>4
  <2>6. PICK b \in live : c \in Cells(b)
    BY DEF HeldCells
  <2> QED BY <2>3, <2>5, <2>6
<1> QED BY <1>2, <1>4, <1>5 DEF Disjoint, FreeNotHeld

\* The heap is in order at all times, for clients that free a block, or reallocate one,
\* only while at most one block is free.
THEOREM HeapInvariance == MaxFree <= 1 => (HeapSpec => []HeapInv)
<1> SUFFICES ASSUME MaxFree <= 1 PROVE HeapSpec => []HeapInv
  OBVIOUS
<1>1. HeapInit => HeapInv
  BY HeapInitInv DEF HeapInv
<1>2. HeapInv /\ [HeapNext]_heap_vars => HeapInv'
  BY StepHeap
<1> QED BY <1>1, <1>2, PTL DEF HeapSpec

\* Addresses, sizes and free lists stay within the pool: no operation of such clients reads
\* or writes a header outside of it.
THEOREM HeapTypeCorrect == MaxFree <= 1 => (HeapSpec => []HeapTypeOK)
<1> SUFFICES ASSUME MaxFree <= 1 PROVE HeapSpec => []HeapTypeOK
  OBVIOUS
<1>1. HeapSpec => []HeapInv
  BY HeapInvariance
<1>2. HeapInv => HeapTypeOK
  BY HeapInvMeans
<1> QED BY <1>1, <1>2, PTL

\* harbol_mempool_alloc and _realloc hand out to such clients no memory that one of them
\* holds, and blocks held lie above the memory that never was handed out.
THEOREM HeapDisjoint == MaxFree <= 1 => (HeapSpec => []Disjoint)
<1> SUFFICES ASSUME MaxFree <= 1 PROVE HeapSpec => []Disjoint
  OBVIOUS
<1>1. HeapSpec => []HeapInv
  BY HeapInvariance
<1>2. HeapInv => Disjoint
  BY HeapInvMeans
<1> QED BY <1>1, <1>2, PTL

\* Between the operations of such clients no free list gives access to memory that one of
\* them holds, blocks freed twice included.
THEOREM HeapFreeNotHeld == MaxFree <= 1 => (HeapSpec => []FreeNotHeld)
<1> SUFFICES ASSUME MaxFree <= 1 PROVE HeapSpec => []FreeNotHeld
  OBVIOUS
<1>1. HeapSpec => []HeapInv
  BY HeapInvariance
<1>2. HeapInv => FreeNotHeld
  BY HeapInvMeans
<1> QED BY <1>1, <1>2, PTL
=============================================================================
