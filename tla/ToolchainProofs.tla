-------------------------- MODULE ToolchainProofs ---------------------------
(***************************************************************************)
(* Proofs about ModuleFile, for scripts with any sizes, any number of      *)
(* functions and of variables, and for any width of the integers; and      *)
(* about Toolchain, which puts it behind Assembler.                        *)
(***************************************************************************)
EXTENDS Toolchain, AssemblerProofs

nf == Len(script.funcs)
nv == Len(script.vars)

\* The bytes that the two stacks, and that a table of n, take of the memory region.
StackBytes  == Sized(script.opstack) + NodeBytes + Sized(script.callstack) + NodeBytes
TableBytes(n) == SymBytes + NodeBytes + IF n = 0 THEN 0 ELSE 56 * n + 5 * NodeBytes

Enough == NoWrap /\ Sized(script.heap) >= Shortfall(nf, nv)

\* What the generator has written of the sizes when nothing wraps around.
Headed ==
  /\ hdr.opstack = Sized(script.opstack) /\ hdr.callstack = Sized(script.callstack)
  /\ hdr.heap = U32(Sized(script.heap) + HeapAdded(nf, nv))
  /\ NoWrap => /\ hdr.stack = hdr.opstack + hdr.callstack
               /\ hdr.heap = Sized(script.heap) + 328 + 64 * (nf + nv)
               /\ hdr.mem = hdr.stack + hdr.heap

HeadersDone ==
  /\ hdr.func_count = nf /\ hdr.var_count = nv
  /\ hdr.funcs_offset <= hdr.mem_offset /\ hdr.vars_offset <= hdr.mem_offset

\* The stacks are at the end of the file.
Stacked ==
  NoWrap =>
    /\ module.opstack = FileEnd - hdr.opstack
    /\ module.high > FileEnd
    /\ module.callstack = module.opstack - NodeBytes - hdr.callstack
    /\ module.low <= hdr.mem_offset
    /\ module.size = hdr.mem
    /\ module.left \in Nat /\ module.left <= hdr.mem - StackBytes

Taken(n) == Enough => module.res /\ module.left >= hdr.mem - StackBytes - n

Writing == {"header", "items"}
Loading == {"funcs", "read funcs", "read vars"}
Listing == {"ready", "names", "list", "unlisted", "listed"}

Header == [opstack : Nat, callstack : Nat, stack : Nat, heap : Nat, mem : Nat, funcs_offset : Nat,
           func_count : Nat, vars_offset : Nat, var_count : Nat, mem_offset : Nat]

\* The inductive invariant: the sizes in the header, and in each stage what is left.
FileInv ==
  /\ IsScript(script)
  /\ stage \in Writing \cup {"setup"} \cup Loading \cup Listing \cup {"fault", "rejected"}
  /\ hdr \in Header /\ funcs.count \in Nat /\ globals.count \in Nat
  /\ DOMAIN module = DOMAIN NoModule
  /\ stage = "header" => hdr = NoHeader /\ module = NoModule
  /\ stage # "header" => Headed
  /\ stage = "items" => hdr.func_count <= nf /\ hdr.var_count <= nv
  /\ stage \in {"items", "setup"} => module = NoModule
  /\ stage \notin Writing => HeadersDone
  /\ stage = "funcs" => Taken(0)
  /\ stage = "read funcs" => Taken(TableBytes(nf))
  /\ stage = "read vars" => Taken(TableBytes(nf) + TableBytes(nv))
  /\ stage \in Loading \cup Listing => Stacked
  /\ stage \in {"fault", "rejected"} => ~Enough

LEMMA ScriptType ==
  ASSUME IsScript(script)
  PROVE  /\ nf \in Nat /\ nv \in Nat
         /\ Sized(script.opstack) \in Nat /\ Sized(script.opstack) > 0 /\ Sized(script.opstack) % 8 = 0
         /\ Sized(script.callstack) \in Nat /\ Sized(script.callstack) > 0
         /\ Sized(script.callstack) % 8 = 0
         /\ Sized(script.heap) \in Nat
  BY LayoutAssumption DEF IsScript, IsItems, nf, nv, Sized, DefaultMemsize, PtrBytes

\* A size that is a multiple of 8 costs itself and a header.
LEMMA CostOf ==
  ASSUME NEW n \in Nat, n % 8 = 0
  PROVE  Cost(n) = n + 24
  BY DEF Cost, Align, PtrBytes, NodeBytes

LEMMA AlignedSelf ==
  ASSUME NEW n \in Nat, n % 8 = 0
  PROVE  Align(n, PtrBytes) = n
  BY DEF Align, PtrBytes

LEMMA Book ==
  ASSUME IsScript(script)
  PROVE  /\ BookKeeping(nf, nv) = 328 + 64 * (nf + nv) /\ BookKeeping(nf, nv) \in Nat
         /\ Align(BookKeeping(nf, nv), PtrBytes) = BookKeeping(nf, nv)
<1>1. nf \in Nat /\ nv \in Nat
  BY ScriptType
<1>2. \A n \in Nat : TablesSize(n) = 64 * n + 144
  BY DEF TablesSize, NodeBytes, PtrBytes, ItemBytes
<1>3. BookKeeping(nf, nv) = 24 + 8 * 2 + TablesSize(nf) + TablesSize(nv)
  BY DEF BookKeeping, NodeBytes, PtrBytes, nf, nv
<1>4. BookKeeping(nf, nv) = 328 + 64 * (nf + nv) /\ BookKeeping(nf, nv) \in Nat
  BY <1>1, <1>2, <1>3
<1>5. BookKeeping(nf, nv) % 8 = 0
  BY <1>1, <1>4
<1> QED BY <1>4, <1>5, AlignedSelf

LEMMA U32Small == ASSUME NEW n \in Nat, n < UintMax PROVE U32(n) = n
  BY LayoutAssumption DEF U32

LEMMA U32Type == ASSUME NEW n \in Nat PROVE U32(n) \in Nat
  BY LayoutAssumption DEF U32

\* Two allocations of what is left.
LEMMA LeftOf ==
  ASSUME NEW size, NEW l \in Nat, NEW n \in Nat, n % 8 = 0
  PROVE  /\ LeftAfter(size, l, n) \in Nat /\ LeftAfter(size, l, n) <= l
         /\ LeftAfter(size, l, n) >= l - n - 24
         /\ n > 0 /\ n <= size /\ n + 24 <= l => Allocates(size, l, n)
  BY CostOf DEF LeftAfter, Allocates

LEMMA NothingLeft ==
  ASSUME NEW size, NEW l \in Nat PROVE LeftAfter(size, l, 0) = l
  BY DEF LeftAfter, Allocates

\* The allocations for a table of n succeed when there is room for them.
LEMMA Table ==
  ASSUME NEW size \in Nat, NEW l \in Nat, l <= size, NEW n \in Nat
  PROVE  /\ Lefts(size, l, n)[7] \in Nat /\ Lefts(size, l, n)[7] <= l
         /\ l >= TableBytes(n) =>
              /\ Lefts(size, l, n)[7] >= l - TableBytes(n)
              /\ n > 0 => \A k \in 2 .. 6 : Allocates(size, Lefts(size, l, n)[k], Blocks(n)[k])
              /\ Allocates(size, l, SymBytes)
<1> DEFINE a == LeftAfter(size, l, SymBytes)
           b == LeftAfter(size, a, ItemBytes * n)
           c == LeftAfter(size, b, PtrBytes * n)
           d == LeftAfter(size, c, PtrBytes * n)
           e == LeftAfter(size, d, PtrBytes * n)
           f == LeftAfter(size, e, PtrBytes * n)
<1>1. Lefts(size, l, n) = <<l, a, b, c, d, e, f>>
  BY DEF Lefts
<1>2. /\ SymBytes = 296 /\ SymBytes % 8 = 0 /\ ItemBytes * n = 24 * n /\ (24 * n) % 8 = 0
      /\ PtrBytes * n = 8 * n /\ (8 * n) % 8 = 0
  BY DEF SymBytes, ItemBytes, PtrBytes
<1>3. a \in Nat /\ a <= l /\ a >= l - 320 /\ (296 <= size /\ 320 <= l => Allocates(size, l, SymBytes))
  BY <1>2, LeftOf
<1> HIDE DEF a
<1>4. /\ b \in Nat /\ b <= a /\ b >= a - 24 * n - 24 /\ (n = 0 => b = a)
      /\ n > 0 /\ 24 * n <= size /\ 24 * n + 24 <= a => Allocates(size, a, ItemBytes * n)
  <2>1. 24 * n \in Nat
    OBVIOUS
  <2>2. n = 0 => b = a
    BY <1>2, <1>3, NothingLeft
  <2> QED BY <1>2, <1>3, <2>1, <2>2, LeftOf
<1> HIDE DEF b
<1>5. ASSUME NEW x \in Nat
      PROVE  /\ LeftAfter(size, x, PtrBytes * n) \in Nat /\ LeftAfter(size, x, PtrBytes * n) <= x
             /\ LeftAfter(size, x, PtrBytes * n) >= x - 8 * n - 24
             /\ n = 0 => LeftAfter(size, x, PtrBytes * n) = x
             /\ n > 0 /\ 8 * n <= size /\ 8 * n + 24 <= x => Allocates(size, x, PtrBytes * n)
  <2>1. 8 * n \in Nat
    OBVIOUS
  <2>2. n = 0 => LeftAfter(size, x, PtrBytes * n) = x
    BY <1>2, NothingLeft
  <2> QED BY <1>2, <2>1, <2>2, LeftOf
<1>6. /\ c \in Nat /\ c <= b /\ c >= b - 8 * n - 24 /\ (n = 0 => c = b)
      /\ n > 0 /\ 8 * n <= size /\ 8 * n + 24 <= b => Allocates(size, b, PtrBytes * n)
  BY <1>4, <1>5
<1> HIDE DEF c
<1>7. /\ d \in Nat /\ d <= c /\ d >= c - 8 * n - 24 /\ (n = 0 => d = c)
      /\ n > 0 /\ 8 * n <= size /\ 8 * n + 24 <= c => Allocates(size, c, PtrBytes * n)
  BY <1>6, <1>5
<1> HIDE DEF d
<1>8. /\ e \in Nat /\ e <= d /\ e >= d - 8 * n - 24 /\ (n = 0 => e = d)
      /\ n > 0 /\ 8 * n <= size /\ 8 * n + 24 <= d => Allocates(size, d, PtrBytes * n)
  BY <1>7, <1>5
<1> HIDE DEF e
<1>9. /\ f \in Nat /\ f <= e /\ f >= e - 8 * n - 24 /\ (n = 0 => f = e)
      /\ n > 0 /\ 8 * n <= size /\ 8 * n + 24 <= e => Allocates(size, e, PtrBytes * n)
  BY <1>8, <1>5
<1> HIDE DEF f
<1>10. f \in Nat /\ f <= l
  BY <1>3, <1>4, <1>6, <1>7, <1>8, <1>9
<1>11. ASSUME l >= TableBytes(n)
       PROVE  /\ f >= l - TableBytes(n) /\ Allocates(size, l, SymBytes)
              /\ n > 0 => /\ Allocates(size, a, ItemBytes * n) /\ Allocates(size, b, PtrBytes * n)
                          /\ Allocates(size, c, PtrBytes * n) /\ Allocates(size, d, PtrBytes * n)
                          /\ Allocates(size, e, PtrBytes * n)
  <2>1. TableBytes(n) = 320 + IF n = 0 THEN 0 ELSE 56 * n + 120
    BY DEF TableBytes, SymBytes, NodeBytes
  <2>2. l >= 320 /\ (n > 0 => l >= 440 + 56 * n)
    BY <1>11, <2>1
  <2>3. f >= l - TableBytes(n)
    BY <2>1, <1>3, <1>4, <1>6, <1>7, <1>8, <1>9
  <2>4. Allocates(size, l, SymBytes)
    BY <2>2, <1>3
  <2>5. n > 0 => /\ Allocates(size, a, ItemBytes * n) /\ Allocates(size, b, PtrBytes * n)
                 /\ Allocates(size, c, PtrBytes * n)
    BY <2>2, <1>3, <1>4, <1>6, <1>7
  <2>6. n > 0 => Allocates(size, d, PtrBytes * n) /\ Allocates(size, e, PtrBytes * n)
    BY <2>2, <1>3, <1>4, <1>6, <1>7, <1>8, <1>9
  <2> QED BY <2>3, <2>4, <2>5, <2>6
<1>12. Lefts(size, l, n)[7] = f
  BY <1>1
<1>13. ASSUME l >= TableBytes(n), n > 0, NEW k \in 2 .. 6
       PROVE  Allocates(size, Lefts(size, l, n)[k], Blocks(n)[k])
  <2>1. k = 2 \/ k = 3 \/ k = 4 \/ k = 5 \/ k = 6
    BY <1>13
  <2>2. CASE k = 2
    BY <1>1, <1>11, <1>13, <2>2 DEF Blocks
  <2>3. CASE k = 3
    BY <1>1, <1>11, <1>13, <2>3 DEF Blocks
  <2>4. CASE k = 4
    BY <1>1, <1>11, <1>13, <2>4 DEF Blocks
  <2>5. CASE k = 5
    BY <1>1, <1>11, <1>13, <2>5 DEF Blocks
  <2>6. CASE k = 6
    BY <1>1, <1>11, <1>13, <2>6 DEF Blocks
  <2> QED BY <2>1, <2>2, <2>3, <2>4, <2>5, <2>6
<1> QED BY <1>10, <1>11, <1>12, <1>13
----------------------------------------------------------------------------
(* The generator.                                                          *)

LEMMA HeaderFileInv == ASSUME FileInv, WriteHeader PROVE FileInv'
<1> DEFINE op   == Sized(script.opstack)
           call == Sized(script.callstack)
           heap == U32(Sized(script.heap) + HeapAdded(nf, nv))
<1>1. hdr' = [hdr EXCEPT !.opstack = op, !.callstack = call, !.stack = U32(op + call),
                         !.heap = heap, !.mem = U32(op + call + heap)]
      /\ hdr = NoHeader /\ stage = "header"
  BY DEF WriteHeader, FileInv, nf, nv
<1>2. op \in Nat /\ call \in Nat /\ Sized(script.heap) \in Nat /\ nf \in Nat /\ nv \in Nat
  BY ScriptType DEF FileInv
<1>3. MemRegionSize(nf, nv) \in Nat /\ HeapAdded(nf, nv) \in Nat
  <2>1. MemRegionSize(nf, nv) \in Nat
    BY Book, U32Type DEF MemRegionSize, FileInv
  <2> QED BY <2>1 DEF HeapAdded, Align, PtrBytes
<1>4. heap \in Nat
  BY <1>2, <1>3, U32Type
<1> HIDE DEF op, call
<1>5. ASSUME NoWrap
      PROVE  /\ U32(op + call) = op + call
             /\ heap = Sized(script.heap) + 328 + 64 * (nf + nv)
             /\ U32(op + call + heap) = op + call + heap
  <2>1. op + call + Sized(script.heap) + BookKeeping(nf, nv) < UintMax
        /\ BookKeeping(nf, nv) = 328 + 64 * (nf + nv) /\ BookKeeping(nf, nv) \in Nat
        /\ Align(BookKeeping(nf, nv), PtrBytes) = BookKeeping(nf, nv)
    BY <1>5, Book DEF NoWrap, op, call, FileInv, nf, nv
  <2>2. UintMax \in Nat
    BY LayoutAssumption
  <2>3. MemRegionSize(nf, nv) = BookKeeping(nf, nv)
    BY <1>2, <2>1, <2>2, U32Small DEF MemRegionSize
  <2>4. heap = Sized(script.heap) + BookKeeping(nf, nv)
    BY <1>2, <2>1, <2>2, <2>3, U32Small DEF HeapAdded
  <2> HIDE DEF heap
  <2>5. U32(op + call) = op + call
    BY <1>2, <2>1, <2>2, U32Small
  <2>6. U32(op + call + heap) = op + call + heap
    BY <1>2, <2>1, <2>2, <2>4, U32Small
  <2> QED BY <1>2, <2>1, <2>4, <2>5, <2>6
<1>6. U32(op + call) \in Nat /\ U32(op + call + heap) \in Nat
  BY <1>2, <1>4, U32Type
<1> HIDE DEF heap
<1>7. /\ hdr' \in Header /\ hdr'.func_count = 0 /\ hdr'.var_count = 0
      /\ hdr'.opstack = op /\ hdr'.callstack = call /\ hdr'.stack = U32(op + call)
      /\ hdr'.heap = heap /\ hdr'.mem = U32(op + call + heap)
  BY <1>1, <1>2, <1>4, <1>6 DEF NoHeader, Header
<1>8. script' = script /\ module' = module /\ stage' = "items"
      /\ funcs' = funcs /\ globals' = globals
  BY DEF WriteHeader
<1>9. Headed'
  BY <1>2, <1>5, <1>7, <1>8 DEF Headed, op, call, heap, NoWrap, BookKeeping, nf, nv
<1> QED BY <1>1, <1>2, <1>7, <1>8, <1>9 DEF FileInv, Writing, Loading, Listing, nf, nv

\* What an item adds to the file.
LEMMA InsertCount ==
  ASSUME NEW b, b.count \in Nat, NEW i, IsItem(i)
  PROVE  Insert(b, i).count \in Nat
<1>1. Padded(i.chars) \in Nat /\ Padded(i.bytes) \in Nat
  BY DEF Padded, Align, IsItem
<1> QED BY <1>1 DEF Insert, EntryOf, EndOf, EntryBytes

\* The invariant without the steps that only write it.
LEMMA SameScript ==
  ASSUME IsScript(script), script' = script
  PROVE  /\ IsScript(script)' /\ nf' = nf /\ nv' = nv /\ NoWrap' = NoWrap /\ Enough' = Enough
         /\ StackBytes' = StackBytes
  BY DEF nf, nv, NoWrap, Enough, StackBytes, BookKeeping

LEMMA ItemFileInv == ASSUME FileInv, WriteFunc \/ WriteVar PROVE FileInv'
<1>1. nf \in Nat /\ nv \in Nat /\ script' = script /\ stage = "items" /\ stage' = "items"
      /\ module' = module
  BY ScriptType DEF FileInv, WriteFunc, WriteVar
<1>2. CASE WriteFunc
  <2>1. /\ hdr.func_count < nf /\ funcs' = Insert(funcs, script.funcs[hdr.func_count + 1])
        /\ hdr' = [hdr EXCEPT !.func_count = @ + 1] /\ globals' = globals
    BY <1>2 DEF WriteFunc, nf
  <2>2. hdr \in Header /\ hdr.func_count \in Nat
    BY DEF FileInv, Header
  <2>3. IsItem(script.funcs[hdr.func_count + 1])
    BY <1>1, <2>1, <2>2 DEF FileInv, IsScript, IsItems, nf
  <2>4. funcs'.count \in Nat
    BY <2>1, <2>3, InsertCount DEF FileInv
  <2>5. /\ hdr' \in Header /\ hdr'.func_count = hdr.func_count + 1 /\ hdr'.var_count = hdr.var_count
        /\ hdr'.opstack = hdr.opstack /\ hdr'.callstack = hdr.callstack /\ hdr'.stack = hdr.stack
        /\ hdr'.heap = hdr.heap /\ hdr'.mem = hdr.mem
    BY <2>1, <2>2 DEF Header
  <2>6. Headed'
    BY <1>1, <2>5, SameScript DEF FileInv, Headed
  <2> QED BY <1>1, <2>1, <2>2, <2>4, <2>5, <2>6, SameScript DEF FileInv, Writing, Loading, Listing
<1>3. CASE WriteVar
  <2>1. /\ hdr.var_count < nv /\ globals' = Insert(globals, script.vars[hdr.var_count + 1])
        /\ hdr' = [hdr EXCEPT !.var_count = @ + 1] /\ funcs' = funcs
    BY <1>3 DEF WriteVar, nv
  <2>2. hdr \in Header /\ hdr.var_count \in Nat
    BY DEF FileInv, Header
  <2>3. IsItem(script.vars[hdr.var_count + 1])
    BY <1>1, <2>1, <2>2 DEF FileInv, IsScript, IsItems, nv
  <2>4. globals'.count \in Nat
    BY <2>1, <2>3, InsertCount DEF FileInv
  <2>5. /\ hdr' \in Header /\ hdr'.func_count = hdr.func_count /\ hdr'.var_count = hdr.var_count + 1
        /\ hdr'.opstack = hdr.opstack /\ hdr'.callstack = hdr.callstack /\ hdr'.stack = hdr.stack
        /\ hdr'.heap = hdr.heap /\ hdr'.mem = hdr.mem
    BY <2>1, <2>2 DEF Header
  <2>6. Headed'
    BY <1>1, <2>5, SameScript DEF FileInv, Headed
  <2> QED BY <1>1, <2>1, <2>2, <2>4, <2>5, <2>6, SameScript DEF FileInv, Writing, Loading, Listing
<1> QED BY <1>2, <1>3

LEMMA FinalizeFileInv == ASSUME FileInv, Finalize PROVE FileInv'
<1>1. /\ nf \in Nat /\ nv \in Nat /\ script' = script /\ stage = "items" /\ stage' = "setup"
      /\ module' = module /\ hdr.func_count = nf /\ hdr.var_count = nv
      /\ funcs' = NoBuffer /\ globals' = NoBuffer
  BY ScriptType DEF FileInv, Finalize, nf, nv
<1> DEFINE vo == HeaderBytes + funcs.count
<1>2. hdr' = [hdr EXCEPT !.funcs_offset = HeaderBytes, !.vars_offset = vo,
                         !.mem_offset = vo + globals.count]
  BY DEF Finalize
<1>3. vo \in Nat /\ globals.count \in Nat /\ HeaderBytes \in Nat /\ hdr \in Header /\ HeaderBytes <= vo
  <2>1. funcs.count \in Nat /\ globals.count \in Nat /\ hdr \in Header
    BY DEF FileInv
  <2> QED BY <2>1 DEF HeaderBytes
<1> HIDE DEF vo
<1>4. /\ hdr' \in Header /\ hdr'.func_count = hdr.func_count /\ hdr'.var_count = hdr.var_count
      /\ hdr'.opstack = hdr.opstack /\ hdr'.callstack = hdr.callstack /\ hdr'.stack = hdr.stack
      /\ hdr'.heap = hdr.heap /\ hdr'.mem = hdr.mem
      /\ hdr'.vars_offset = vo /\ hdr'.mem_offset = vo + globals.count
      /\ hdr'.funcs_offset <= vo
  <2> DEFINE h == [hdr EXCEPT !.funcs_offset = HeaderBytes]
             k == [h EXCEPT !.vars_offset = vo]
             l == [k EXCEPT !.mem_offset = vo + globals.count]
  <2>1. hdr' = l
    BY <1>2
  <2>2. /\ h \in Header /\ h.func_count = hdr.func_count /\ h.var_count = hdr.var_count
        /\ h.opstack = hdr.opstack /\ h.callstack = hdr.callstack /\ h.stack = hdr.stack
        /\ h.heap = hdr.heap /\ h.mem = hdr.mem /\ h.funcs_offset = HeaderBytes
    BY <1>3 DEF Header
  <2> HIDE DEF h
  <2>3. /\ k \in Header /\ k.func_count = h.func_count /\ k.var_count = h.var_count
        /\ k.opstack = h.opstack /\ k.callstack = h.callstack /\ k.stack = h.stack
        /\ k.heap = h.heap /\ k.mem = h.mem /\ k.vars_offset = vo
        /\ k.funcs_offset = HeaderBytes
    BY <1>3, <2>2 DEF Header
  <2> HIDE DEF k
  <2>4. /\ l \in Header /\ l.func_count = k.func_count /\ l.var_count = k.var_count
        /\ l.opstack = k.opstack /\ l.callstack = k.callstack /\ l.stack = k.stack
        /\ l.heap = k.heap /\ l.mem = k.mem /\ l.vars_offset = k.vars_offset
        /\ l.mem_offset = vo + globals.count /\ l.funcs_offset = HeaderBytes
    BY <1>3, <2>3 DEF Header
  <2> HIDE DEF l
  <2> QED BY <1>3, <2>1, <2>2, <2>3, <2>4
<1>5. IsScript(script) /\ Headed
  BY <1>1 DEF FileInv
<1>6. Headed'
  BY <1>1, <1>4, <1>5, SameScript DEF Headed
<1>7. HeadersDone'
  BY <1>1, <1>3, <1>4, <1>5, SameScript DEF HeadersDone, Header
<1> QED BY <1>1, <1>4, <1>6, <1>7, SameScript DEF FileInv, Writing, Loading, Listing, NoBuffer
----------------------------------------------------------------------------
(* The loader.                                                             *)

\* What there is when nothing wraps around: the region is the stacks, the heap and the
\* bytes the assembler has added.
LEMMA Room ==
  ASSUME FileInv, stage # "header", NoWrap
  PROVE  /\ hdr.opstack \in Nat /\ hdr.opstack > 0 /\ hdr.opstack % 8 = 0
         /\ hdr.callstack \in Nat /\ hdr.callstack > 0 /\ hdr.callstack % 8 = 0
         /\ nf \in Nat /\ nv \in Nat /\ Sized(script.heap) \in Nat
         /\ hdr.stack = hdr.opstack + hdr.callstack
         /\ hdr.heap = Sized(script.heap) + 328 + 64 * (nf + nv)
         /\ hdr.mem = hdr.stack + hdr.heap /\ hdr.mem < UintMax /\ UintMax \in Nat
         /\ StackBytes = hdr.opstack + 24 + hdr.callstack + 24
<1>1. Headed
  BY DEF FileInv
<1>2. IsScript(script)
  BY DEF FileInv
<1>3. hdr.mem < UintMax
  <2>1. Sized(script.opstack) + Sized(script.callstack) + Sized(script.heap) + BookKeeping(nf, nv) < UintMax
    BY <1>2, Book DEF NoWrap, nf, nv
  <2>2. /\ hdr.mem = Sized(script.opstack) + Sized(script.callstack)
                     + (Sized(script.heap) + 328 + 64 * (nf + nv))
        /\ BookKeeping(nf, nv) = 328 + 64 * (nf + nv)
    BY <1>1, <1>2, Book DEF Headed
  <2>3. /\ Sized(script.opstack) \in Nat /\ Sized(script.callstack) \in Nat /\ Sized(script.heap) \in Nat
        /\ nf \in Nat /\ nv \in Nat /\ UintMax \in Nat
    BY <1>2, ScriptType, LayoutAssumption
  <2> QED BY <2>1, <2>2, <2>3
<1> QED BY <1>1, <1>2, <1>3, ScriptType, LayoutAssumption DEF Headed, StackBytes, NodeBytes

LEMMA SetupFileInv == ASSUME FileInv, SetupMemory PROVE FileInv'
<1> DEFINE made   == hdr.mem > NodeBytes
           agrees == U32(hdr.stack + hdr.heap) = hdr.mem
                     /\ U32(hdr.callstack + hdr.opstack + hdr.heap) = hdr.mem
           size   == IF made THEN hdr.mem ELSE 0
           op     == BlockAfter(size, size, hdr.opstack)
           left   == LeftAfter(size, size, hdr.opstack)
           call   == BlockAfter(size, left, hdr.callstack)
           rest   == LeftAfter(size, left, hdr.callstack)
<1>1. /\ module = NoModule /\ stage = "setup" /\ stage' = "funcs" /\ script' = script /\ hdr' = hdr
      /\ funcs' = funcs /\ globals' = globals
      /\ module' = IF made /\ agrees
                   THEN [NoModule EXCEPT !.size = size, !.left = rest,
                                         !.opstack = op, !.high = op + hdr.opstack + 1,
                                         !.callstack = call]
                   ELSE [NoModule EXCEPT !.size = size, !.left = size, !.res = FALSE]
  BY DEF FileInv, SetupMemory
<1>2. hdr.mem \in Nat /\ hdr.mem_offset \in Nat /\ hdr.opstack \in Nat /\ hdr.opstack % 8 = 0
      /\ hdr.callstack \in Nat /\ hdr.callstack % 8 = 0
  BY <1>1, ScriptType DEF FileInv, Header, Headed
<1>3. size \in Nat
  BY <1>2
<1> HIDE DEF size
<1>4. left \in Nat
  BY <1>2, <1>3, LeftOf
<1> HIDE DEF left
<1>5. rest \in Nat
  BY <1>2, <1>4, LeftOf
<1> HIDE DEF made, agrees, op, call, rest
<1>6. DOMAIN module' = DOMAIN NoModule
  BY <1>1 DEF NoModule
<1>7. ASSUME NoWrap PROVE Stacked' /\ Taken(0)'
  <2>1. /\ hdr.opstack \in Nat /\ hdr.opstack > 0 /\ hdr.opstack % 8 = 0
        /\ hdr.callstack \in Nat /\ hdr.callstack > 0 /\ hdr.callstack % 8 = 0
        /\ nf \in Nat /\ nv \in Nat /\ Sized(script.heap) \in Nat
        /\ hdr.stack = hdr.opstack + hdr.callstack
        /\ hdr.heap = Sized(script.heap) + 328 + 64 * (nf + nv)
        /\ hdr.mem = hdr.stack + hdr.heap /\ hdr.mem < UintMax /\ UintMax \in Nat
        /\ StackBytes = hdr.opstack + 24 + hdr.callstack + 24
    BY <1>1, <1>7, Room
  <2>2. size = hdr.mem /\ made /\ hdr.mem >= StackBytes
    BY <1>2, <2>1 DEF made, size, NodeBytes
  <2>3. agrees
    <3>1. hdr.stack + hdr.heap = hdr.mem /\ hdr.callstack + hdr.opstack + hdr.heap = hdr.mem
      BY <1>2, <2>1
    <3> QED BY <1>2, <2>1, <3>1, U32Small DEF agrees
  <2>4. Cost(hdr.opstack) = hdr.opstack + 24 /\ Cost(hdr.callstack) = hdr.callstack + 24
    BY <1>2, CostOf
  <2>5. Allocates(size, size, hdr.opstack)
    BY <1>2, <2>1, <2>2, <2>4 DEF Allocates
  <2>6. left = hdr.mem - hdr.opstack - 24
        /\ op = hdr.mem_offset + hdr.mem - hdr.opstack
    BY <1>2, <2>1, <2>2, <2>4, <2>5 DEF left, op, LeftAfter, BlockAfter, NodeBytes
  <2>7. Allocates(size, left, hdr.callstack)
    BY <1>2, <2>1, <2>2, <2>4, <2>6 DEF Allocates
  <2>8. rest = hdr.mem - StackBytes
        /\ call = hdr.mem_offset + hdr.mem - hdr.opstack - 24 - hdr.callstack
    BY <1>2, <2>1, <2>4, <2>6, <2>7 DEF rest, call, LeftAfter, BlockAfter, NodeBytes
  <2>9. /\ module'.size = hdr.mem /\ module'.left = rest /\ module'.opstack = op
        /\ module'.high = op + hdr.opstack + 1 /\ module'.callstack = call
        /\ module'.res = TRUE /\ module'.low = 0
    BY <1>1, <2>2, <2>3 DEF NoModule, NULL
  <2>10. Stacked'
    BY <1>1, <1>2, <1>5, <2>1, <2>2, <2>6, <2>8, <2>9, SameScript DEF Stacked, FileEnd, NodeBytes, FileInv
  <2>11. Taken(0)'
    BY <1>1, <1>2, <2>1, <2>8, <2>9, SameScript DEF Taken, FileInv
  <2> QED BY <2>10, <2>11
<1>8. Stacked' /\ Taken(0)'
  <2>1. NoWrap' = NoWrap /\ (Enough' => NoWrap')
    BY <1>1, SameScript DEF FileInv, Enough
  <2>2. CASE ~NoWrap
    BY <2>1, <2>2 DEF Stacked, Taken
  <2> QED BY <1>7, <2>2
<1>9. Headed' /\ HeadersDone'
  BY <1>1, SameScript DEF FileInv, Headed, HeadersDone, Writing
<1> QED BY <1>1, <1>6, <1>8, <1>9, SameScript DEF FileInv, Writing, Loading, Listing

\* The heap that a script must ask for holds the tables.
LEMMA EnoughRoom ==
  ASSUME FileInv, stage # "header", Enough
  PROVE  /\ TableBytes(nf) \in Nat /\ TableBytes(nv) \in Nat
         /\ hdr.mem - StackBytes >= TableBytes(nf) + TableBytes(nv)
<1>1. /\ nf \in Nat /\ nv \in Nat /\ Sized(script.heap) \in Nat
      /\ hdr.opstack \in Nat /\ hdr.callstack \in Nat
      /\ hdr.mem = hdr.opstack + hdr.callstack + (Sized(script.heap) + 328 + 64 * (nf + nv))
      /\ StackBytes = hdr.opstack + 24 + hdr.callstack + 24
  BY Room DEF Enough
<1>2. Sized(script.heap) >= 600 - 8 * (nf + nv)
  BY DEF Enough, Shortfall
<1>3. \A n \in Nat : TableBytes(n) \in Nat /\ TableBytes(n) <= 440 + 56 * n
  BY DEF TableBytes, SymBytes, NodeBytes
<1> QED BY <1>1, <1>2, <1>3

\* A table of n is set up, and t bytes were taken before.
LEMMA TableStep ==
  ASSUME FileInv, stage \in Loading, NEW n \in Nat, NEW start \in Nat, NEW then \in Loading,
         start <= hdr.mem_offset,
         SetupTable(n, start, then), NEW t \in Nat, Taken(t),
         Enough => hdr.mem - StackBytes >= t + TableBytes(n)
  PROVE  /\ Stacked' /\ Taken(t + TableBytes(n))' /\ DOMAIN module' = DOMAIN NoModule
         /\ stage' \in {"fault", then} /\ (Enough => stage' = then)
<1> DEFINE left   == Lefts(module.size, module.left, n)
           has(k) == Allocates(module.size, left[k], Blocks(n)[k])
<1>1. /\ module' = [module EXCEPT !.left = IF has(1) THEN left[7] ELSE @,
                                  !.res = @ /\ has(1),
                                  !.low = IF then = "read vars" /\ has(1) THEN start ELSE @]
      /\ stage' = IF has(1) /\ n > 0 /\ \E k \in 2 .. 6 : ~has(k) THEN "fault" ELSE then
      /\ script' = script /\ hdr' = hdr
  BY DEF SetupTable
<1>2. left[1] = module.left /\ Blocks(n)[1] = SymBytes
  BY DEF Lefts, Blocks
<1> DEFINE first == has(1)
           last  == left[7]
<1>3. first = Allocates(module.size, module.left, SymBytes)
  BY <1>2
<1> HIDE DEF first, last
<1>4. DOMAIN module = DOMAIN NoModule
  BY DEF FileInv
<1>5. /\ DOMAIN module' = DOMAIN NoModule
      /\ module'.size = module.size /\ module'.opstack = module.opstack
      /\ module'.callstack = module.callstack /\ module'.high = module.high
      /\ module'.left = (IF first THEN last ELSE module.left)
      /\ module'.res = (module.res /\ first)
      /\ module'.low = (IF then = "read vars" /\ first THEN start ELSE module.low)
  BY <1>1, <1>4 DEF NoModule, first, last
<1>6. stage # "header" /\ Stacked /\ IsScript(script)
  BY DEF FileInv, Loading
<1>7. ASSUME NoWrap
      PROVE  /\ module.size \in Nat /\ module.left \in Nat /\ module.left <= module.size
             /\ last \in Nat /\ last <= module.left /\ hdr.mem \in Nat /\ StackBytes \in Nat
             /\ module.left >= TableBytes(n) =>
                  /\ last >= module.left - TableBytes(n)
                  /\ n > 0 => \A k \in 2 .. 6 : has(k)
                  /\ first
  <2>1. /\ module.size = hdr.mem /\ hdr.mem \in Nat /\ StackBytes \in Nat
        /\ module.left \in Nat /\ module.left <= hdr.mem - StackBytes
    BY <1>6, <1>7, Room DEF Stacked
  <2>2. module.size \in Nat /\ module.left \in Nat /\ module.left <= module.size
    BY <2>1
  <2> QED BY <1>3, <2>1, <2>2, Table DEF last
<1>8. Stacked'
  <2>1. NoWrap' = NoWrap /\ StackBytes' = StackBytes
    BY <1>1, <1>6, SameScript
  <2>2. CASE ~NoWrap
    BY <2>1, <2>2 DEF Stacked
  <2>3. CASE NoWrap
    <3>1. module'.left \in Nat /\ module'.left <= hdr.mem - StackBytes
      <4>1. module.left <= hdr.mem - StackBytes
        BY <1>6, <2>3 DEF Stacked
      <4>2. /\ module.left \in Nat /\ last \in Nat /\ last <= module.left
            /\ hdr.mem \in Nat /\ StackBytes \in Nat
        BY <1>7, <2>3
      <4>3. module'.left = last \/ module'.left = module.left
        BY <1>5
      <4> QED BY <4>1, <4>2, <4>3
    <3>2. module'.low <= hdr.mem_offset
      BY <1>5, <1>6, <2>3 DEF Stacked
    <3>3. /\ module.opstack = FileEnd - hdr.opstack /\ module.high > FileEnd
          /\ module.callstack = module.opstack - NodeBytes - hdr.callstack
          /\ module.size = hdr.mem
      BY <1>6, <2>3 DEF Stacked
    <3>4. FileEnd' = FileEnd
      BY <1>1 DEF FileEnd
    <3> QED BY <1>1, <1>5, <2>1, <3>1, <3>2, <3>3, <3>4 DEF Stacked
  <2> QED BY <2>2, <2>3
<1>9. ASSUME Enough
      PROVE  /\ first /\ (n > 0 => \A k \in 2 .. 6 : has(k))
             /\ last >= hdr.mem - StackBytes - (t + TableBytes(n)) /\ module.res
  <2>1. NoWrap
    BY <1>9 DEF Enough
  <2>2. TableBytes(n) \in Nat
    BY DEF TableBytes, SymBytes, NodeBytes
  <2>3. module.res /\ module.left >= hdr.mem - StackBytes - t
        /\ hdr.mem - StackBytes >= t + TableBytes(n)
    BY <1>9 DEF Taken
  <2>4. module.left >= TableBytes(n)
    BY <1>7, <2>1, <2>2, <2>3
  <2> QED BY <1>7, <2>1, <2>2, <2>3, <2>4
<1>10. Taken(t + TableBytes(n))'
  <2>1. Enough' = Enough /\ StackBytes' = StackBytes
    BY <1>1, <1>6, SameScript
  <2> QED BY <1>1, <1>5, <1>9, <2>1 DEF Taken, TableBytes
<1>11. stage' \in {"fault", then} /\ (Enough => stage' = then)
  BY <1>1, <1>9
<1> QED BY <1>5, <1>8, <1>10, <1>11

LEMMA TablesFileInv == ASSUME FileInv, SetupFuncTable \/ SetupVarTable PROVE FileInv'
<1>1. /\ script' = script /\ hdr' = hdr /\ funcs' = funcs /\ globals' = globals
      /\ stage \in Loading /\ stage # "header"
  BY DEF SetupFuncTable, SetupVarTable, SetupTable, Loading
<1>2. IsScript(script) /\ hdr \in Header /\ Headed /\ HeadersDone
  BY <1>1 DEF FileInv, Loading, Writing
<1>3. /\ hdr.funcs_offset \in Nat /\ hdr.vars_offset \in Nat /\ nf \in Nat /\ nv \in Nat
      /\ hdr.func_count = nf /\ hdr.var_count = nv
      /\ hdr.funcs_offset <= hdr.mem_offset /\ hdr.vars_offset <= hdr.mem_offset
  BY <1>2, ScriptType DEF Header, HeadersDone
<1>4. Headed' /\ HeadersDone'
  BY <1>1, <1>2, SameScript DEF Headed, HeadersDone
<1>5. IsScript(script)' /\ Enough' = Enough /\ funcs'.count \in Nat /\ globals'.count \in Nat
  <2>1. funcs.count \in Nat /\ globals.count \in Nat
    BY DEF FileInv
  <2> QED BY <1>1, <1>2, <2>1, SameScript
<1>6. CASE SetupFuncTable
  <2>1. PICK n \in Nat, start \in Nat : n = nf /\ start = hdr.funcs_offset
    BY <1>3
  <2>2. SetupTable(n, start, "read funcs") /\ Taken(0)
    BY <1>3, <1>6, <2>1 DEF SetupFuncTable, FileInv
  <2>3. Enough => hdr.mem - StackBytes >= 0 + TableBytes(n)
    <3> SUFFICES ASSUME Enough PROVE hdr.mem - StackBytes >= 0 + TableBytes(nf)
      BY <2>1
    <3>1. hdr.mem \in Nat /\ StackBytes \in Nat
      BY <1>1, Room DEF Enough
    <3> QED BY <1>1, <3>1, EnoughRoom
  <2>4. /\ Stacked' /\ Taken(0 + TableBytes(n))' /\ DOMAIN module' = DOMAIN NoModule
        /\ stage' \in {"fault", "read funcs"} /\ (Enough => stage' = "read funcs")
    <3>1. start <= hdr.mem_offset /\ "read funcs" \in Loading
      BY <1>3, <2>1 DEF Loading
    <3> QED BY <1>1, <2>2, <2>3, <3>1, TableStep
  <2>5. nf' = nf /\ 0 + TableBytes(n) = TableBytes(n)
    BY <1>1, <1>2, SameScript DEF TableBytes, SymBytes, NodeBytes
  <2>6. Taken(TableBytes(nf))'
    BY <2>4, <2>1, <2>5 DEF Taken
  <2>7. CASE stage' = "read funcs"
    BY <1>1, <1>2, <1>4, <1>5, <2>4, <2>6, <2>7 DEF FileInv, Writing, Loading, Listing
  <2>8. CASE stage' = "fault"
    BY <1>1, <1>2, <1>4, <1>5, <2>4, <2>8 DEF FileInv, Writing, Loading, Listing
  <2> QED BY <2>4, <2>7, <2>8
<1>7. CASE SetupVarTable
  <2>1. TableBytes(nf) \in Nat
    BY <1>3 DEF TableBytes, SymBytes, NodeBytes
  <2>2. PICK n \in Nat, start \in Nat, t \in Nat :
          n = nv /\ start = hdr.vars_offset /\ t = TableBytes(nf)
    BY <1>3, <2>1
  <2>3. SetupTable(n, start, "read vars") /\ Taken(t)
    BY <1>3, <1>7, <2>2 DEF SetupVarTable, FileInv
  <2>4. Enough => hdr.mem - StackBytes >= t + TableBytes(n)
    BY <1>1, <2>2, EnoughRoom
  <2>5. /\ Stacked' /\ Taken(t + TableBytes(n))' /\ DOMAIN module' = DOMAIN NoModule
        /\ stage' \in {"fault", "read vars"} /\ (Enough => stage' = "read vars")
    <3>1. start <= hdr.mem_offset /\ "read vars" \in Loading
      BY <1>3, <2>2 DEF Loading
    <3> QED BY <1>1, <2>3, <2>4, <3>1, TableStep
  <2>6. nf' = nf /\ nv' = nv /\ TableBytes(nf)' = TableBytes(nf)
    BY <1>1, <1>2, SameScript DEF TableBytes
  <2>7. Taken(TableBytes(nf) + TableBytes(nv))'
    BY <2>2, <2>5, <2>6 DEF Taken
  <2>8. CASE stage' = "read vars"
    BY <1>1, <1>2, <1>4, <1>5, <2>5, <2>7, <2>8 DEF FileInv, Writing, Loading, Listing
  <2>9. CASE stage' = "fault"
    BY <1>1, <1>2, <1>4, <1>5, <2>5, <2>9 DEF FileInv, Writing, Loading, Listing
  <2> QED BY <2>5, <2>8, <2>9
<1> QED BY <1>6, <1>7

\* The tables are filled, and steps after the module is there.
LEMMA ReadFileInv == ASSUME FileInv, ReadFunc \/ ReadVar PROVE FileInv'
<1>1. /\ script' = script /\ hdr' = hdr /\ funcs' = funcs /\ globals' = globals
      /\ stage' = stage /\ stage \in Loading
      /\ \E q : module' = [module EXCEPT !.funcs = q] \/ module' = [module EXCEPT !.vars = q]
  BY DEF ReadFunc, ReadVar, Loading
<1>2. DOMAIN module = DOMAIN NoModule /\ IsScript(script) /\ Stacked
  BY <1>1 DEF FileInv, Loading
<1>3. /\ DOMAIN module' = DOMAIN NoModule
      /\ module'.size = module.size /\ module'.left = module.left
      /\ module'.opstack = module.opstack /\ module'.callstack = module.callstack
      /\ module'.low = module.low /\ module'.high = module.high /\ module'.res = module.res
  BY <1>1, <1>2 DEF NoModule
<1>4. FileEnd' = FileEnd /\ nf' = nf /\ nv' = nv
  BY <1>1 DEF FileEnd, nf, nv
<1>5. Stacked'
  BY <1>1, <1>2, <1>3, <1>4, SameScript DEF Stacked
<1>6. /\ Headed' /\ HeadersDone' /\ IsScript(script)' /\ hdr' \in Header
      /\ funcs'.count \in Nat /\ globals'.count \in Nat
  <2>1. Headed /\ HeadersDone /\ hdr \in Header /\ funcs.count \in Nat /\ globals.count \in Nat
    BY <1>1 DEF FileInv, Loading, Writing
  <2> QED BY <1>1, <1>2, <1>4, <2>1, SameScript DEF Headed, HeadersDone
<1>7. CASE stage = "funcs"
  <2>1. Taken(0)
    BY <1>7 DEF FileInv
  <2>2. Taken(0)'
    BY <1>1, <1>2, <1>3, <2>1, SameScript DEF Taken
  <2> QED BY <1>1, <1>3, <1>5, <1>6, <1>7, <2>2 DEF FileInv, Loading, Listing, Writing
<1>8. CASE stage = "read funcs"
  <2>1. Taken(TableBytes(nf)) /\ TableBytes(nf)' = TableBytes(nf)
    BY <1>4, <1>8 DEF FileInv, TableBytes
  <2>2. Taken(TableBytes(nf))'
    BY <1>1, <1>2, <1>3, <2>1, SameScript DEF Taken
  <2> QED BY <1>1, <1>3, <1>5, <1>6, <1>8, <2>2 DEF FileInv, Loading, Listing, Writing
<1>9. CASE stage = "read vars"
  <2>1. /\ Taken(TableBytes(nf) + TableBytes(nv))
        /\ TableBytes(nf)' = TableBytes(nf) /\ TableBytes(nv)' = TableBytes(nv)
    BY <1>4, <1>9 DEF FileInv, TableBytes
  <2>2. Taken(TableBytes(nf) + TableBytes(nv))'
    BY <1>1, <1>2, <1>3, <2>1, SameScript DEF Taken
  <2> QED BY <1>1, <1>3, <1>5, <1>6, <1>9, <2>2 DEF FileInv, Loading, Listing, Writing
<1> QED BY <1>1, <1>7, <1>8, <1>9 DEF Loading

\* Steps that change the stage and what is read of a finished module only.
LEMMA KeptFileInv ==
  ASSUME FileInv, EndLoad \/ Disassemble \/ UNCHANGED mvars
  PROVE  FileInv'
<1>1. UNCHANGED <<script, hdr, funcs, globals, module>>
  BY DEF EndLoad, Disassemble, StartNames, ReadName, StartListing, ListFunc, ListFault, ListVar,
         EndListing, mvars
<1>2. IsScript(script)
  BY DEF FileInv
<1>3. /\ Stacked' = Stacked /\ Headed' = Headed /\ HeadersDone' = HeadersDone /\ nf' = nf /\ nv' = nv
      /\ Taken(0)' = Taken(0) /\ Taken(TableBytes(nf))' = Taken(TableBytes(nf))
      /\ Taken(TableBytes(nf) + TableBytes(nv))' = Taken(TableBytes(nf) + TableBytes(nv))
      /\ Enough' = Enough /\ IsScript(script)'
  BY <1>1, <1>2, SameScript DEF Stacked, Headed, HeadersDone, Taken, FileEnd, TableBytes
<1>4. CASE stage' = stage
  BY <1>1, <1>3, <1>4 DEF FileInv
<1>5. CASE stage \in Listing /\ stage' \in Listing
  BY <1>1, <1>3, <1>5 DEF FileInv, Listing, Loading, Writing
<1>6. CASE EndLoad
  <2>1. Enough => module.res
    BY <1>6 DEF EndLoad, FileInv, Taken
  <2>2. stage = "read vars" /\ stage' = IF module.res THEN "ready" ELSE "rejected"
    BY <1>6 DEF EndLoad
  <2> QED BY <1>1, <1>3, <2>1, <2>2 DEF FileInv, Listing, Loading, Writing
<1>7. stage' = stage \/ (stage \in Listing /\ stage' \in Listing) \/ EndLoad
  BY DEF Disassemble, StartNames, ReadName, StartListing, ListFunc, ListFault, ListVar,
         EndListing, mvars, Listing
<1> QED BY <1>4, <1>5, <1>6, <1>7
----------------------------------------------------------------------------
\* One step of a tool or of the loader.
LEMMA FileStep == ASSUME FileInv, FileNext \/ UNCHANGED mvars PROVE FileInv'
BY HeaderFileInv, ItemFileInv, FinalizeFileInv, SetupFileInv, TablesFileInv, ReadFileInv, KeptFileInv
   DEF FileNext, Generate, LoadFile

\* The inductive invariant of writing and loading a module file.
THEOREM FileInvariance == FileSpec => []FileInv
<1>1. FileInit => FileInv
  BY DEF FileInit, Blank, FileInv, NoHeader, NoBuffer, Header, Writing, Loading, Listing
<1>2. FileInv /\ [FileNext \/ FileDone]_mvars => FileInv'
  BY FileStep DEF FileDone
<1> QED BY <1>1, <1>2, PTL DEF FileSpec

\* The memory that the assembler adds to a module for its tables is enough for the loader, for
\* modules of any size that ask for a heap of as many bytes as the assembler forgets.
LEMMA MemoryEnough == ASSUME FileInv PROVE EnoughMemory
<1>1. SUFFICES ASSUME Enough
               PROVE  /\ stage \notin {"fault", "rejected"}
                      /\ stage = "ready" => module.opstack # NULL /\ module.callstack # NULL
  BY DEF EnoughMemory, Enough, nf, nv
<1>2. stage \notin {"fault", "rejected"}
  BY <1>1 DEF FileInv
<1>3. ASSUME stage = "ready" PROVE module.opstack # NULL /\ module.callstack # NULL
  <2>1. NoWrap /\ Stacked /\ hdr.mem_offset \in Nat
    BY <1>1, <1>3 DEF FileInv, Enough, Listing, Header
  <2>2. /\ hdr.opstack \in Nat /\ hdr.callstack \in Nat /\ hdr.opstack > 0
        /\ hdr.mem > hdr.opstack + 24 + hdr.callstack /\ hdr.mem \in Nat
    BY <1>3, <2>1, Room
  <2> QED BY <2>1, <2>2 DEF Stacked, FileEnd, NULL, NodeBytes
<1> QED BY <1>2, <1>3

\* The memory that the assembler adds to a module for its tables is enough for the loader, for
\* modules of any size that ask for a heap of as many bytes as the assembler forgets.
THEOREM Loads == FileSpec => []EnoughMemory
BY MemoryEnough, FileInvariance, PTL

\* The blocks of a module, of any size, do not overlap, and the segment for loads and stores
\* holds the operand stack.
LEMMA BlocksLieApart == ASSUME FileInv PROVE SegmentsApart
<1>1. SUFFICES ASSUME stage = "ready", NoWrap
               PROVE  /\ module.opstack + hdr.opstack = FileEnd
                      /\ module.callstack + hdr.callstack <= module.opstack - NodeBytes
                      /\ hdr.mem_offset + module.left <= module.callstack - NodeBytes
                      /\ module.left >= 0
                      /\ module.low <= hdr.mem_offset /\ module.high > FileEnd
  BY DEF SegmentsApart
<1>2. Stacked /\ hdr.mem_offset \in Nat
  BY <1>1 DEF FileInv, Listing, Header
<1>3. /\ hdr.opstack \in Nat /\ hdr.callstack \in Nat /\ hdr.mem \in Nat
      /\ StackBytes = hdr.opstack + 24 + hdr.callstack + 24
  BY <1>1, Room
<1> QED BY <1>1, <1>2, <1>3 DEF Stacked, FileEnd, NodeBytes

\* The blocks of a module, of any size, do not overlap, and the segment for loads and stores
\* holds the operand stack.
THEOREM Segments == FileSpec => []SegmentsApart
BY BlocksLieApart, FileInvariance, PTL
----------------------------------------------------------------------------
(* Where the entries of the file are, and what is read of them.            *)

\* f is a sequence of m elements; h is f with x behind it, and f with g behind it.
IsSeq(f, m) == m \in Nat /\ f = [i \in 1 .. m |-> f[i]]
Extended(f, m, x, h) == IsSeq(h, m + 1) /\ h[m + 1] = x /\ \A i \in 1 .. m : h[i] = f[i]
Joined(f, m, g, n, h) ==
  IsSeq(h, m + n) /\ (\A i \in 1 .. m : h[i] = f[i]) /\ \A i \in 1 .. n : h[m + i] = g[i]

\* h is the first m of items, which are at es, moved by n.
Shifted(h, es, m, items, n) ==
  /\ IsSeq(h, m)
  /\ \A i \in 1 .. m : /\ h[i] = EntryOf(items[i], h[i].at) /\ h[i].at = es[i].at + n
                       /\ EndOf(h[i]) = EndOf(es[i]) + n /\ EndOf(es[i]) \in Nat

\* Entries that were written one after another for the first m of items, from 0 to end.
Chained(es, m, items, end) ==
  /\ IsSeq(es, m)
  /\ \A i \in 1 .. m : /\ es[i] = EntryOf(items[i], es[i].at) /\ es[i].at \in Nat
                       /\ EndOf(es[i]) <= end
                       /\ EndOf(es[i]) = IF i = m THEN end ELSE es[i + 1].at
  /\ \A i, j \in 1 .. m : i < j => EndOf(es[i]) <= es[j].at
  /\ m > 0 => es[1].at = 0
  /\ m = 0 => end = 0

ItemAt(i) == IF i <= nf THEN script.funcs[i] ELSE script.vars[i - nf]

\* h is a file of those entries one after another: functions from fo, variables from vo to mo.
StartIn(h, mo, i) == IF i = nf + nv + 1 THEN mo ELSE h[i].at
FiledAs(h, fo, vo, mo) ==
  /\ IsSeq(h, nf + nv)
  /\ \A i \in 1 .. nf + nv :
       /\ h[i] = EntryOf(ItemAt(i), h[i].at) /\ h[i].at \in Nat
       /\ EndOf(h[i]) = StartIn(h, mo, i + 1)
       /\ i <= nf => HeaderBytes <= h[i].at /\ EndOf(h[i]) <= vo
       /\ i > nf => vo <= h[i].at /\ EndOf(h[i]) <= mo
  /\ \A i, j \in 1 .. nf + nv : i < j => EndOf(h[i]) <= h[j].at
  /\ StartIn(h, mo, 1) = fo /\ StartIn(h, mo, nf + 1) = vo

Start(i) == StartIn(image, hdr.mem_offset, i)
Filed    == FiledAs(image, hdr.funcs_offset, hdr.vars_offset, hdr.mem_offset)

DataOf(e)  == e.at + EntryBytes + e.name_len
FuncRow(e) == Row(e, IF e.flags = 0 THEN DataOf(e) ELSE NULL)
VarRow(e)  == Row(e, DataOf(e))

\* The first m entries of the table of functions, and of variables, are those of the file.
FuncRows(m) == IsSeq(module.funcs, m) /\ \A i \in 1 .. m : module.funcs[i] = FuncRow(image[i])
VarRows(m)  == IsSeq(module.vars, m) /\ \A i \in 1 .. m : module.vars[i] = VarRow(image[nf + i])

Filling ==
  /\ stage \in Writing =>
       /\ Chained(funcs.entries, hdr.func_count, script.funcs, funcs.count)
       /\ Chained(globals.entries, hdr.var_count, script.vars, globals.count)
  /\ stage \notin Writing => Filed
  /\ stage \in {"setup", "funcs"} => FuncRows(0) /\ VarRows(0)
  /\ stage = "read funcs" /\ module.res =>
       /\ todo \in Nat /\ todo <= nf /\ cur = Start(nf - todo + 1)
       /\ FuncRows(nf - todo) /\ VarRows(0)
  /\ stage = "read vars" /\ module.res =>
       /\ todo \in Nat /\ todo <= nv /\ cur = Start(nf + nv - todo + 1)
       /\ FuncRows(nf) /\ VarRows(nv - todo) /\ module.low = hdr.vars_offset
  /\ stage = "ready" => FuncRows(nf) /\ VarRows(nv) /\ module.low = hdr.vars_offset

LEMMA SeqMembers ==
  ASSUME NEW f, NEW m, IsSeq(f, m), NEW S, \A i \in 1 .. m : f[i] \in S
  PROVE  f \in Seq(S) /\ Len(f) = m /\ DOMAIN f = 1 .. m
<1>1. f \in [1 .. m -> S] /\ m \in Nat
  BY DEF IsSeq
<1> QED BY <1>1

LEMMA AppendAny ==
  ASSUME NEW f, NEW m, IsSeq(f, m), NEW x, NEW h, h = Append(f, x)
  PROVE  Extended(f, m, x, h)
<1> DEFINE S == {f[i] : i \in 1 .. m} \cup {x}
<1>1. f \in Seq(S) /\ Len(f) = m /\ x \in S /\ m \in Nat
  <2>1. \A i \in 1 .. m : f[i] \in S
    OBVIOUS
  <2>2. x \in S /\ m \in Nat
    BY DEF IsSeq
  <2> HIDE DEF S
  <2> QED BY <2>1, <2>2, SeqMembers
<1> HIDE DEF S
<1> QED BY <1>1 DEF IsSeq, Extended

LEMMA ConcatAny ==
  ASSUME NEW f, NEW m, IsSeq(f, m), NEW g, NEW n, IsSeq(g, n), NEW h, h = f \o g
  PROVE  Joined(f, m, g, n, h)
<1> DEFINE S == {f[i] : i \in 1 .. m} \cup {g[i] : i \in 1 .. n}
<1>1. f \in Seq(S) /\ Len(f) = m /\ g \in Seq(S) /\ Len(g) = n /\ m \in Nat /\ n \in Nat
  <2>1. (\A i \in 1 .. m : f[i] \in S) /\ (\A i \in 1 .. n : g[i] \in S)
    OBVIOUS
  <2>2. m \in Nat /\ n \in Nat
    BY DEF IsSeq
  <2> HIDE DEF S
  <2> QED BY <2>1, <2>2, SeqMembers
<1> HIDE DEF S
<1> QED BY <1>1 DEF IsSeq, Joined

\* Entries end behind their data, wherever they are.
LEMMA EntryEnd ==
  ASSUME NEW i, IsItem(i), NEW at \in Nat, NEW n \in Nat
  PROVE  /\ EntryOf(i, at).at = at /\ EndOf(EntryOf(i, at)) \in Nat /\ at < EndOf(EntryOf(i, at))
         /\ EndOf(EntryOf(i, at + n)) = EndOf(EntryOf(i, at)) + n
         /\ [EntryOf(i, at) EXCEPT !.at = @ + n] = EntryOf(i, at + n)
<1>1. Padded(i.chars) \in Nat /\ Padded(i.bytes) \in Nat
  BY DEF Padded, Align, IsItem
<1> QED BY <1>1 DEF EntryOf, EndOf, EntryBytes

LEMMA Items ==
  ASSUME IsScript(script), NEW k \in 1 .. nf + nv
  PROVE  IsItem(ItemAt(k))
<1>1. /\ nf \in Nat /\ nv \in Nat
      /\ DOMAIN script.funcs = 1 .. nf /\ DOMAIN script.vars = 1 .. nv
  BY ScriptType DEF IsScript, IsItems, nf, nv
<1>2. (\A i \in 1 .. nf : IsItem(script.funcs[i])) /\ \A i \in 1 .. nv : IsItem(script.vars[i])
  BY <1>1 DEF IsScript, IsItems
<1>3. CASE k <= nf
  BY <1>1, <1>2, <1>3 DEF ItemAt
<1>4. CASE k > nf
  <2>1. k - nf \in 1 .. nv
    BY <1>1, <1>4
  <2> QED BY <1>1, <1>2, <1>4, <2>1 DEF ItemAt
<1> QED BY <1>1, <1>3, <1>4

\* An entry is found at its offset.
LEMMA Found ==
  ASSUME Filed, IsScript(script), NEW i \in 1 .. nf + nv
  PROVE  EntryAt(image[i].at) = image[i]
<1>1. DOMAIN image = 1 .. nf + nv
  BY DEF Filed, FiledAs, IsSeq
<1>2. nf \in Nat /\ nv \in Nat
  BY ScriptType
<1>3. \A k \in 1 .. nf + nv : image[k].at \in Nat /\ EndOf(image[k]) \in Nat
                              /\ image[k].at < EndOf(image[k])
  <2> SUFFICES ASSUME NEW k \in 1 .. nf + nv
               PROVE  image[k].at \in Nat /\ EndOf(image[k]) \in Nat /\ image[k].at < EndOf(image[k])
    OBVIOUS
  <2>1. IsItem(ItemAt(k))
    BY <1>2, Items
  <2>2. image[k] = EntryOf(ItemAt(k), image[k].at) /\ image[k].at \in Nat
    BY DEF Filed, FiledAs
  <2> QED BY <2>1, <2>2, EntryEnd
<1>4. \A j \in 1 .. nf + nv : image[j].at = image[i].at => j = i
  <2> SUFFICES ASSUME NEW j \in 1 .. nf + nv, image[j].at = image[i].at, j # i PROVE FALSE
    OBVIOUS
  <2>1. CASE i < j
    BY <1>3, <2>1 DEF Filed, FiledAs
  <2>2. CASE j < i
    BY <1>3, <2>2 DEF Filed, FiledAs
  <2> QED BY <1>2, <2>1, <2>2
<1> QED BY <1>1, <1>4 DEF EntryAt

\* One more entry.
LEMMA Chain ==
  ASSUME NEW b, NEW m, NEW items, Chained(b.entries, m, items, b.count), b.count \in Nat,
         \A i \in 1 .. m + 1 : IsItem(items[i])
  PROVE  Chained(Insert(b, items[m + 1]).entries, m + 1, items, Insert(b, items[m + 1]).count)
<1> DEFINE e == EntryOf(items[m + 1], b.count)
           es == b.entries
           q == Append(es, e)
<1>1. Insert(b, items[m + 1]) = [count |-> EndOf(e), entries |-> q]
  BY DEF Insert
<1>2. m \in Nat /\ IsSeq(es, m)
  BY DEF Chained, IsSeq
<1>3. IsSeq(q, m + 1) /\ q[m + 1] = e /\ \A i \in 1 .. m : q[i] = es[i]
  <2>1. q = Append(es, e)
    OBVIOUS
  <2> HIDE DEF e, es, q
  <2>2. IsSeq(es, m)
    BY <1>2
  <2>3. Extended(es, m, e, q)
    BY <2>1, <2>2, AppendAny
  <2> QED BY <2>3 DEF Extended
<1>4. e.at = b.count /\ EndOf(e) \in Nat /\ b.count < EndOf(e)
  <2>1. IsItem(items[m + 1])
    BY <1>2
  <2> QED BY <2>1, EntryEnd
<1>5. \A i \in 1 .. m : /\ es[i] = EntryOf(items[i], es[i].at) /\ es[i].at \in Nat
                        /\ EndOf(es[i]) <= b.count /\ EndOf(es[i]) \in Nat
                        /\ EndOf(es[i]) = IF i = m THEN b.count ELSE es[i + 1].at
  BY <1>2, EntryEnd DEF Chained
<1>6. (\A i, j \in 1 .. m : i < j => EndOf(es[i]) <= es[j].at)
      /\ (m > 0 => es[1].at = 0) /\ (m = 0 => b.count = 0)
  BY DEF Chained
<1> HIDE DEF e, es, q
<1>7. ASSUME NEW i \in 1 .. m + 1
      PROVE  /\ q[i] = EntryOf(items[i], q[i].at) /\ q[i].at \in Nat /\ EndOf(q[i]) <= EndOf(e)
             /\ EndOf(q[i]) = IF i = m + 1 THEN EndOf(e) ELSE q[i + 1].at
  <2>1. CASE i = m + 1
    <3>1. e = EntryOf(items[m + 1], e.at)
      BY <1>4 DEF e
    <3> QED BY <1>2, <1>3, <1>4, <2>1, <3>1
  <2>2. CASE i \in 1 .. m
    <3>1. q[i] = es[i] /\ q[i + 1] = IF i = m THEN e ELSE es[i + 1]
      BY <1>2, <1>3, <2>2
    <3> QED BY <1>2, <1>4, <1>5, <2>2, <3>1
  <2> QED BY <1>2, <2>1, <2>2
<1>8. ASSUME NEW i \in 1 .. m + 1, NEW j \in 1 .. m + 1, i < j
      PROVE  EndOf(q[i]) <= q[j].at
  <2>1. i \in 1 .. m /\ q[i] = es[i]
    BY <1>2, <1>3, <1>8
  <2>2. CASE j = m + 1
    BY <1>3, <1>4, <1>5, <2>1, <2>2
  <2>3. CASE j \in 1 .. m
    BY <1>3, <1>6, <1>8, <2>1, <2>3
  <2> QED BY <1>2, <2>2, <2>3
<1>9. q[1].at = 0
  BY <1>2, <1>3, <1>4, <1>6
<1>10. Chained(q, m + 1, items, EndOf(e))
  BY <1>2, <1>3, <1>7, <1>8, <1>9 DEF Chained
<1> QED BY <1>1, <1>10 DEF es, q

LEMMA Moved ==
  ASSUME NEW es, NEW m, NEW items, NEW end \in Nat, Chained(es, m, items, end),
         \A i \in 1 .. m : IsItem(items[i]), NEW n \in Nat, NEW h, h = MovedBy(es, n)
  PROVE  Shifted(h, es, m, items, n)
<1>1. m \in Nat /\ es = [i \in 1 .. m |-> es[i]]
  BY DEF Chained, IsSeq
<1>2. h = [i \in 1 .. m |-> [es[i] EXCEPT !.at = @ + n]]
  <2>1. DOMAIN es = 1 .. m
    BY <1>1
  <2> QED BY <2>1 DEF MovedBy
<1>3. h = [i \in 1 .. m |-> h[i]]
  BY <1>2
<1>4. ASSUME NEW i \in 1 .. m
      PROVE  /\ h[i] = EntryOf(items[i], h[i].at) /\ h[i].at = es[i].at + n
             /\ EndOf(h[i]) = EndOf(es[i]) + n /\ EndOf(es[i]) \in Nat
  <2>1. IsItem(items[i]) /\ es[i].at \in Nat /\ es[i] = EntryOf(items[i], es[i].at)
    BY DEF Chained
  <2> DEFINE k == es[i].at
  <2>2. es[i] = EntryOf(items[i], k) /\ k \in Nat
    BY <2>1
  <2>3. h[i] = [es[i] EXCEPT !.at = @ + n]
    BY <1>2
  <2> HIDE DEF k
  <2>4. /\ EntryOf(items[i], k + n).at = k + n /\ EndOf(EntryOf(items[i], k)) \in Nat
        /\ EndOf(EntryOf(items[i], k + n)) = EndOf(EntryOf(items[i], k)) + n
        /\ [EntryOf(items[i], k) EXCEPT !.at = @ + n] = EntryOf(items[i], k + n)
    BY <2>1, <2>2, EntryEnd
  <2>5. h[i] = EntryOf(items[i], k + n)
    BY <2>2, <2>3, <2>4
  <2> QED BY <2>2, <2>4, <2>5 DEF k
<1> QED BY <1>1, <1>3, <1>4 DEF IsSeq, Shifted

\* The entries of functions and of variables, behind the header and one behind the other.
LEMMA LaidChain ==
  ASSUME IsScript(script), NEW fe, NEW fend \in Nat, Chained(fe, nf, script.funcs, fend),
         NEW ge, NEW gend \in Nat, Chained(ge, nv, script.vars, gend),
         NEW f, NEW g, NEW h, NEW vo, NEW mo, vo = 48 + fend, mo = vo + gend,
         Shifted(f, fe, nf, script.funcs, 48), Shifted(g, ge, nv, script.vars, vo),
         Joined(f, nf, g, nv, h)
  PROVE  FiledAs(h, 48, vo, mo)
<1>1. nf \in Nat /\ nv \in Nat
  BY ScriptType
<1>2. vo \in Nat /\ mo \in Nat /\ vo >= 48 /\ mo >= vo
  OBVIOUS
<1>3. \A i \in 1 .. nf : /\ f[i] = EntryOf(script.funcs[i], f[i].at) /\ f[i].at = fe[i].at + 48
                          /\ EndOf(f[i]) = EndOf(fe[i]) + 48 /\ EndOf(fe[i]) \in Nat
  BY DEF Shifted
<1>4. \A i \in 1 .. nv : /\ g[i] = EntryOf(script.vars[i], g[i].at) /\ g[i].at = ge[i].at + vo
                          /\ EndOf(g[i]) = EndOf(ge[i]) + vo /\ EndOf(ge[i]) \in Nat
  BY DEF Shifted
<1>5. IsSeq(h, nf + nv) /\ (\A i \in 1 .. nf : h[i] = f[i]) /\ \A i \in 1 .. nv : h[nf + i] = g[i]
  BY DEF Joined
<1>6. /\ \A i \in 1 .. nf : /\ fe[i].at \in Nat /\ EndOf(fe[i]) <= fend
                            /\ EndOf(fe[i]) = IF i = nf THEN fend ELSE fe[i + 1].at
      /\ \A i, j \in 1 .. nf : i < j => EndOf(fe[i]) <= fe[j].at
      /\ nf > 0 => fe[1].at = 0
      /\ nf = 0 => fend = 0
  BY DEF Chained
<1>7. /\ \A i \in 1 .. nv : /\ ge[i].at \in Nat /\ EndOf(ge[i]) <= gend
                            /\ EndOf(ge[i]) = IF i = nv THEN gend ELSE ge[i + 1].at
      /\ \A i, j \in 1 .. nv : i < j => EndOf(ge[i]) <= ge[j].at
      /\ nv > 0 => ge[1].at = 0
      /\ nv = 0 => gend = 0
  BY DEF Chained
<1>8. StartIn(h, mo, nf + 1) = vo
  <2>1. CASE nv = 0
    BY <1>1, <1>2, <1>7, <2>1 DEF StartIn
  <2>2. CASE nv > 0
    <3>1. 1 \in 1 .. nv /\ h[nf + 1] = g[1] /\ g[1].at = ge[1].at + vo /\ ge[1].at = 0
      BY <1>1, <1>4, <1>5, <1>7, <2>2
    <3> QED BY <1>1, <1>2, <2>2, <3>1 DEF StartIn
  <2> QED BY <1>1, <2>1, <2>2
<1>9. StartIn(h, mo, 1) = 48
  <2>1. CASE nf = 0
    BY <1>1, <1>2, <1>6, <1>8, <2>1
  <2>2. CASE nf > 0
    <3>1. 1 \in 1 .. nf /\ h[1] = f[1] /\ f[1].at = fe[1].at + 48 /\ fe[1].at = 0
      BY <1>1, <1>3, <1>5, <1>6, <2>2
    <3> QED BY <1>1, <2>2, <3>1 DEF StartIn
  <2> QED BY <1>1, <2>1, <2>2
<1>10. ASSUME NEW i \in 1 .. nf
       PROVE  /\ h[i] = EntryOf(ItemAt(i), h[i].at) /\ h[i].at \in Nat /\ 48 <= h[i].at
              /\ EndOf(h[i]) \in Nat /\ EndOf(h[i]) <= vo /\ EndOf(h[i]) = StartIn(h, mo, i + 1)
  <2>1. /\ h[i] = f[i] /\ f[i] = EntryOf(script.funcs[i], f[i].at) /\ f[i].at = fe[i].at + 48
        /\ EndOf(f[i]) = EndOf(fe[i]) + 48 /\ EndOf(fe[i]) \in Nat
    BY <1>3, <1>5
  <2>2. fe[i].at \in Nat /\ EndOf(fe[i]) <= fend
        /\ EndOf(fe[i]) = IF i = nf THEN fend ELSE fe[i + 1].at
    BY <1>6
  <2>3. ItemAt(i) = script.funcs[i]
    BY <1>1 DEF ItemAt
  <2>4. EndOf(h[i]) = StartIn(h, mo, i + 1)
    <3>1. CASE i = nf
      BY <1>2, <1>8, <2>1, <2>2, <3>1
    <3>2. CASE i < nf
      <4>1. i + 1 \in 1 .. nf /\ i + 1 # nf + nv + 1
        BY <1>1, <3>2
      <4>2. h[i + 1] = f[i + 1] /\ f[i + 1].at = fe[i + 1].at + 48
        BY <1>3, <1>5, <4>1
      <4> QED BY <1>1, <2>1, <2>2, <3>2, <4>1, <4>2 DEF StartIn
    <3> QED BY <1>1, <3>1, <3>2
  <2> QED BY <1>1, <1>2, <2>1, <2>2, <2>3, <2>4
<1>11. ASSUME NEW k \in 1 .. nv
       PROVE  /\ h[nf + k] = EntryOf(ItemAt(nf + k), h[nf + k].at) /\ h[nf + k].at \in Nat
              /\ vo <= h[nf + k].at /\ EndOf(h[nf + k]) \in Nat /\ EndOf(h[nf + k]) <= mo
              /\ EndOf(h[nf + k]) = StartIn(h, mo, nf + k + 1)
  <2>1. /\ h[nf + k] = g[k] /\ g[k] = EntryOf(script.vars[k], g[k].at) /\ g[k].at = ge[k].at + vo
        /\ EndOf(g[k]) = EndOf(ge[k]) + vo /\ EndOf(ge[k]) \in Nat
    BY <1>4, <1>5
  <2>2. ge[k].at \in Nat /\ EndOf(ge[k]) <= gend
        /\ EndOf(ge[k]) = IF k = nv THEN gend ELSE ge[k + 1].at
    BY <1>7
  <2>3. ItemAt(nf + k) = script.vars[k]
    <3>1. ~(nf + k <= nf) /\ nf + k - nf = k
      BY <1>1
    <3> DEFINE x == nf + k
    <3>2. ~(x <= nf) /\ x - nf = k
      BY <1>1, <3>1
    <3> HIDE DEF x
    <3>3. ItemAt(x) = script.vars[k]
      BY <3>2 DEF ItemAt
    <3> QED BY <3>3 DEF x
  <2>4. EndOf(h[nf + k]) = StartIn(h, mo, nf + k + 1)
    <3>1. CASE k = nv
      BY <1>1, <1>2, <2>1, <2>2, <3>1 DEF StartIn
    <3>2. CASE k < nv
      <4>1. k + 1 \in 1 .. nv /\ nf + k + 1 # nf + nv + 1 /\ nf + k + 1 = nf + (k + 1)
        BY <1>1, <3>2
      <4>2. h[nf + (k + 1)] = g[k + 1] /\ g[k + 1].at = ge[k + 1].at + vo
        BY <1>4, <1>5, <4>1
      <4> QED BY <1>1, <2>1, <2>2, <3>2, <4>1, <4>2 DEF StartIn
    <3> QED BY <1>1, <3>1, <3>2
  <2> QED BY <1>1, <1>2, <2>1, <2>2, <2>3, <2>4
<1>12. ASSUME NEW i \in 1 .. nf + nv
       PROVE  /\ h[i] = EntryOf(ItemAt(i), h[i].at) /\ h[i].at \in Nat
              /\ EndOf(h[i]) = StartIn(h, mo, i + 1) /\ EndOf(h[i]) \in Nat
              /\ i <= nf => 48 <= h[i].at /\ EndOf(h[i]) <= vo
              /\ i > nf => vo <= h[i].at /\ EndOf(h[i]) <= mo
  <2>1. CASE i <= nf
    <3>1. i \in 1 .. nf /\ ~(i > nf)
      BY <1>1, <2>1
    <3> QED BY <1>10, <3>1
  <2>2. CASE i > nf
    <3> DEFINE k == i - nf
    <3>1. k \in 1 .. nv /\ i = nf + k
      BY <1>1, <2>2
    <3> HIDE DEF k
    <3> QED BY <1>1, <1>11, <2>2, <3>1
  <2> QED BY <1>1, <2>1, <2>2
<1>13. ASSUME NEW i \in 1 .. nf + nv, NEW j \in 1 .. nf + nv, i < j
       PROVE  EndOf(h[i]) <= h[j].at
  <2>1. CASE j <= nf
    <3>1. i \in 1 .. nf /\ j \in 1 .. nf
      BY <1>1, <1>13, <2>1
    <3>2. EndOf(fe[i]) <= fe[j].at /\ EndOf(h[i]) = EndOf(fe[i]) + 48 /\ h[j].at = fe[j].at + 48
          /\ EndOf(fe[i]) \in Nat /\ fe[j].at \in Nat
      BY <1>3, <1>5, <1>6, <1>13, <3>1
    <3> QED BY <3>2
  <2>2. CASE i <= nf /\ j > nf
    BY <1>1, <1>2, <1>12, <2>2
  <2>3. CASE i > nf
    <3> DEFINE a == i - nf
               b == j - nf
    <3>1. a \in 1 .. nv /\ b \in 1 .. nv /\ a < b /\ i = nf + a /\ j = nf + b
      BY <1>1, <1>13, <2>3
    <3> HIDE DEF a, b
    <3>2. EndOf(ge[a]) <= ge[b].at /\ EndOf(h[i]) = EndOf(ge[a]) + vo /\ h[j].at = ge[b].at + vo
          /\ EndOf(ge[a]) \in Nat /\ ge[b].at \in Nat
      BY <1>4, <1>5, <1>7, <3>1
    <3> QED BY <1>2, <3>2
  <2> QED BY <1>1, <2>1, <2>2, <2>3
<1>14. FiledAs(h, 48, vo, mo)
  BY <1>5, <1>8, <1>9, <1>12, <1>13 DEF FiledAs, HeaderBytes
<1> QED BY <1>14

LEMMA LaidOut ==
  ASSUME IsScript(script), NEW fe, NEW fend \in Nat, Chained(fe, nf, script.funcs, fend),
         NEW ge, NEW gend \in Nat, Chained(ge, nv, script.vars, gend),
         NEW h, h = MovedBy(fe, HeaderBytes) \o MovedBy(ge, HeaderBytes + fend)
  PROVE  FiledAs(h, HeaderBytes, HeaderBytes + fend, HeaderBytes + fend + gend)
<1> DEFINE f  == MovedBy(fe, 48)
           vo == 48 + fend
           g  == MovedBy(ge, vo)
           mo == vo + gend
<1>1. (\A i \in 1 .. nf : IsItem(script.funcs[i])) /\ \A i \in 1 .. nv : IsItem(script.vars[i])
  <2>1. DOMAIN script.funcs = 1 .. nf /\ DOMAIN script.vars = 1 .. nv
    BY DEF IsScript, IsItems, nf, nv
  <2> QED BY <2>1 DEF IsScript, IsItems
<1>2. Shifted(f, fe, nf, script.funcs, 48)
  <2> HIDE DEF f
  <2>1. 48 \in Nat /\ f = MovedBy(fe, 48)
    BY DEF f
  <2> QED BY <1>1, <2>1, Moved
<1>3. Shifted(g, ge, nv, script.vars, vo)
  <2>1. g = MovedBy(ge, vo) /\ vo \in Nat
    OBVIOUS
  <2> HIDE DEF g, vo
  <2> QED BY <1>1, <2>1, Moved
<1>4. Joined(f, nf, g, nv, h)
  <2>1. h = f \o g
    BY DEF HeaderBytes
  <2> HIDE DEF f, g, vo
  <2> QED BY <1>2, <1>3, <2>1, ConcatAny DEF Shifted
<1>5. vo = 48 + fend /\ mo = vo + gend
  OBVIOUS
<1> HIDE DEF f, g, vo, mo
<1>6. FiledAs(h, 48, vo, mo)
  BY <1>2, <1>3, <1>4, <1>5, LaidChain
<1> QED BY <1>5, <1>6 DEF HeaderBytes
----------------------------------------------------------------------------
(* Every step keeps Filling.                                               *)

\* The generator writes the header and the entries.
LEMMA GenerateFilling == ASSUME FileInv, Filling, WriteHeader \/ WriteFunc \/ WriteVar PROVE Filling'
<1>1. /\ script' = script /\ stage \in Writing /\ stage' = "items" /\ stage' \in Writing
      /\ Chained(funcs.entries, hdr.func_count, script.funcs, funcs.count)
      /\ Chained(globals.entries, hdr.var_count, script.vars, globals.count)
  BY DEF WriteHeader, WriteFunc, WriteVar, Filling, Writing
<1>2. /\ nf \in Nat /\ nv \in Nat /\ funcs.count \in Nat /\ globals.count \in Nat
      /\ hdr \in Header /\ hdr.func_count \in Nat /\ hdr.var_count \in Nat
      /\ DOMAIN hdr = DOMAIN NoHeader
  BY ScriptType DEF FileInv, Header, NoHeader
<1>3. IsScript(script)
  BY DEF FileInv
<1>4. (\A i \in 1 .. nf : IsItem(script.funcs[i])) /\ \A i \in 1 .. nv : IsItem(script.vars[i])
  <2>1. DOMAIN script.funcs = 1 .. nf /\ DOMAIN script.vars = 1 .. nv
    BY <1>3 DEF IsScript, IsItems, nf, nv
  <2> QED BY <1>3, <2>1 DEF IsScript, IsItems
<1>5. /\ Chained(funcs'.entries, hdr'.func_count, script.funcs, funcs'.count)
      /\ Chained(globals'.entries, hdr'.var_count, script.vars, globals'.count)
  <2>1. CASE WriteHeader
    <3>1. stage = "header"
      BY <2>1 DEF WriteHeader
    <3>2. hdr = NoHeader
      BY <3>1 DEF FileInv
    <3>3. hdr'.func_count = 0 /\ hdr'.var_count = 0 /\ funcs' = funcs /\ globals' = globals
      BY <2>1 DEF WriteHeader, NoHeader
    <3>4. hdr.func_count = 0 /\ hdr.var_count = 0
      BY <3>2 DEF NoHeader
    <3> QED BY <1>1, <3>3, <3>4
  <2>2. CASE WriteFunc
    <3> DEFINE m == hdr.func_count
    <3>1. /\ m < nf /\ funcs' = Insert(funcs, script.funcs[m + 1]) /\ globals' = globals
          /\ hdr' = [hdr EXCEPT !.func_count = m + 1]
      BY <2>2 DEF WriteFunc, nf
    <3>2. hdr'.func_count = m + 1 /\ hdr'.var_count = hdr.var_count
      BY <1>2, <3>1 DEF Header
    <3>3. m \in Nat /\ \A i \in 1 .. m + 1 : IsItem(script.funcs[i])
      BY <1>2, <1>4, <3>1
    <3>4. Chained(funcs.entries, m, script.funcs, funcs.count)
      BY <1>1
    <3> HIDE DEF m
    <3>5. Chained(Insert(funcs, script.funcs[m + 1]).entries, m + 1, script.funcs,
                  Insert(funcs, script.funcs[m + 1]).count)
      BY <1>2, <3>3, <3>4, Chain
    <3> QED BY <1>1, <3>1, <3>2, <3>5
  <2>3. CASE WriteVar
    <3> DEFINE m == hdr.var_count
    <3>1. /\ m < nv /\ globals' = Insert(globals, script.vars[m + 1]) /\ funcs' = funcs
          /\ hdr' = [hdr EXCEPT !.var_count = m + 1]
      BY <2>3 DEF WriteVar, nv
    <3>2. hdr'.var_count = m + 1 /\ hdr'.func_count = hdr.func_count
      BY <1>2, <3>1 DEF Header
    <3>3. m \in Nat /\ \A i \in 1 .. m + 1 : IsItem(script.vars[i])
      BY <1>2, <1>4, <3>1
    <3>4. Chained(globals.entries, m, script.vars, globals.count)
      BY <1>1
    <3> HIDE DEF m
    <3>5. Chained(Insert(globals, script.vars[m + 1]).entries, m + 1, script.vars,
                  Insert(globals, script.vars[m + 1]).count)
      BY <1>2, <3>3, <3>4, Chain
    <3> QED BY <1>1, <3>1, <3>2, <3>5
  <2> QED BY <2>1, <2>2, <2>3
<1> QED BY <1>1, <1>5 DEF Filling, Writing

LEMMA FinalizeFilling == ASSUME FileInv, Filling, Finalize PROVE Filling'
<1>1. /\ script' = script /\ stage = "items" /\ stage' = "setup" /\ module' = module
      /\ hdr.func_count = nf /\ hdr.var_count = nv
      /\ image' = MovedBy(funcs.entries, HeaderBytes)
                  \o MovedBy(globals.entries, HeaderBytes + funcs.count)
  BY DEF Finalize, nf, nv
<1>2. /\ Chained(funcs.entries, nf, script.funcs, funcs.count)
      /\ Chained(globals.entries, nv, script.vars, globals.count)
      /\ module = NoModule
  BY <1>1 DEF Filling, Writing, FileInv
<1>3. IsScript(script) /\ funcs.count \in Nat /\ globals.count \in Nat /\ hdr \in Header
  BY DEF FileInv
<1>4. FiledAs(image', HeaderBytes, HeaderBytes + funcs.count, HeaderBytes + funcs.count + globals.count)
  BY <1>1, <1>2, <1>3, LaidOut
<1>5. /\ hdr'.funcs_offset = HeaderBytes /\ hdr'.vars_offset = HeaderBytes + funcs.count
      /\ hdr'.mem_offset = HeaderBytes + funcs.count + globals.count
  BY <1>3 DEF Finalize, Header
<1>6. FiledAs(image', hdr'.funcs_offset, hdr'.vars_offset, hdr'.mem_offset)
  BY <1>4, <1>5
<1>7. Filed'
  BY <1>1, <1>6 DEF Filed, FiledAs, StartIn, ItemAt, nf, nv
<1>8. FuncRows(0)' /\ VarRows(0)'
  BY <1>1, <1>2 DEF FuncRows, VarRows, IsSeq, NoModule
<1> QED BY <1>1, <1>7, <1>8 DEF Filling, Writing

\* What the tables hold, where nothing is added to them.
LEMMA Kept ==
  ASSUME Filed, UNCHANGED <<script, hdr, image>>
  PROVE  /\ Filed' /\ nf' = nf /\ nv' = nv
         /\ module'.funcs = module.funcs =>
              FuncRows(nf)' = FuncRows(nf) /\ FuncRows(0)' = FuncRows(0)
         /\ module'.vars = module.vars =>
              VarRows(nv)' = VarRows(nv) /\ VarRows(0)' = VarRows(0)
  BY DEF Filed, FiledAs, StartIn, ItemAt, nf, nv, FuncRows, VarRows, FuncRow, VarRow

LEMMA SetupFilling == ASSUME FileInv, Filling, SetupMemory PROVE Filling'
<1>1. UNCHANGED <<script, hdr, image>> /\ stage = "setup" /\ stage' = "funcs"
      /\ module'.funcs = << >> /\ module'.vars = << >>
  BY DEF SetupMemory, NoModule
<1>2. Filed
  BY <1>1 DEF Filling, Writing
<1>3. Filed'
  BY <1>1, <1>2, Kept
<1>4. FuncRows(0)' /\ VarRows(0)'
  BY <1>1 DEF FuncRows, VarRows, IsSeq
<1> QED BY <1>1, <1>3, <1>4 DEF Filling, Writing

\* A table is allocated, for functions or for variables.
LEMMA TablesFilling == ASSUME FileInv, Filling, SetupFuncTable \/ SetupVarTable PROVE Filling'
<1>1. /\ UNCHANGED <<script, hdr, image>>
      /\ module'.funcs = module.funcs /\ module'.vars = module.vars
      /\ stage \in {"funcs", "read funcs"} /\ stage' \in {"fault", "read funcs", "read vars"}
  <2>1. DOMAIN module = DOMAIN NoModule
    BY DEF FileInv
  <2> QED BY <2>1 DEF SetupFuncTable, SetupVarTable, SetupTable, NoModule
<1>2. Filed
  BY <1>1 DEF Filling, Writing
<1>3. Filed' /\ nf' = nf /\ nv' = nv
  BY <1>1, <1>2, Kept
<1>4. nf \in Nat /\ nv \in Nat
  BY ScriptType DEF FileInv
<1>5. hdr.func_count = nf /\ hdr.var_count = nv
  BY <1>1 DEF FileInv, Writing, HeadersDone
<1>6. Start(1)' = Start(1) /\ Start(nf + 1)' = Start(nf + 1)
  BY <1>1, <1>3 DEF Start, StartIn
<1>7. Start(1) = hdr.funcs_offset /\ Start(nf + 1) = hdr.vars_offset
  BY <1>2 DEF Filed, FiledAs, Start
<1>8. CASE SetupFuncTable
  <2>1. stage = "funcs" /\ stage' \in {"fault", "read funcs"}
        /\ (stage' = "read funcs" /\ module'.res => todo' = nf /\ cur' = hdr.funcs_offset)
    <3>1. DOMAIN module = DOMAIN NoModule
      BY DEF FileInv
    <3> QED BY <1>5, <1>8, <3>1 DEF SetupFuncTable, SetupTable, NoModule
  <2>2. FuncRows(0) /\ VarRows(0)
    BY <2>1 DEF Filling
  <2>3. FuncRows(0)' /\ VarRows(0)'
    BY <1>1, <1>2, <2>2, Kept
  <2>4. nf' - nf + 1 = 1 /\ nf' - nf = 0
    BY <1>3, <1>4
  <2>5. stage' = "read funcs" /\ module'.res =>
          /\ todo' \in Nat /\ todo' <= nf' /\ nf' - todo' + 1 = 1 /\ nf' - todo' = 0
          /\ cur' = Start(1)'
    <3>1. SUFFICES ASSUME stage' = "read funcs", module'.res
                   PROVE  /\ todo' \in Nat /\ todo' <= nf' /\ nf' - todo' + 1 = 1 /\ nf' - todo' = 0
                          /\ cur' = Start(1)'
      OBVIOUS
    <3>2. todo' = nf /\ cur' = hdr.funcs_offset
      BY <2>1, <3>1
    <3> QED BY <1>3, <1>4, <1>6, <1>7, <2>4, <3>2
  <2>6. stage' = "read funcs" /\ module'.res =>
          cur' = Start(nf - todo + 1)' /\ FuncRows(nf - todo)'
    BY <2>3, <2>5
  <2> QED BY <1>3, <2>1, <2>3, <2>5, <2>6 DEF Filling, Writing
<1>9. CASE SetupVarTable
  <2>1. stage = "read funcs" /\ stage' \in {"fault", "read vars"} /\ todo = 0
        /\ (stage' = "read vars" /\ module'.res =>
              module.res /\ todo' = nv /\ cur' = hdr.vars_offset /\ module'.low = hdr.vars_offset)
    <3>1. DOMAIN module = DOMAIN NoModule
      BY DEF FileInv
    <3> QED BY <1>5, <1>9, <3>1 DEF SetupVarTable, SetupTable, NoModule
  <2>2. stage' = "read vars" /\ module'.res => FuncRows(nf) /\ VarRows(0)
    <3>1. SUFFICES ASSUME stage' = "read vars", module'.res PROVE FuncRows(nf) /\ VarRows(0)
      OBVIOUS
    <3>2. FuncRows(nf - todo) /\ VarRows(0)
      BY <2>1, <3>1 DEF Filling
    <3>3. todo = 0
      BY <2>1
    <3>4. nf - todo = nf
      BY <1>4, <3>3
    <3> QED BY <3>2, <3>4
  <2>3. stage' = "read vars" /\ module'.res => FuncRows(nf)' /\ VarRows(0)'
    BY <1>1, <1>2, <2>2, Kept
  <2>4. nf' + nv' - nv + 1 = nf + 1 /\ nv' - nv = 0
    BY <1>3, <1>4
  <2>5. stage' = "read vars" /\ module'.res =>
          /\ todo' \in Nat /\ todo' <= nv' /\ nf' + nv' - todo' + 1 = nf' + 1 /\ nv' - todo' = 0
          /\ cur' = Start(nf + 1)' /\ module'.low = hdr'.vars_offset
    <3>1. SUFFICES ASSUME stage' = "read vars", module'.res
                   PROVE  /\ todo' \in Nat /\ todo' <= nv'
                          /\ nf' + nv' - todo' + 1 = nf' + 1 /\ nv' - todo' = 0
                          /\ cur' = Start(nf + 1)' /\ module'.low = hdr'.vars_offset
      OBVIOUS
    <3>2. todo' = nv /\ cur' = hdr.vars_offset /\ module'.low = hdr.vars_offset /\ hdr' = hdr
      BY <1>1, <2>1, <3>1
    <3> QED BY <1>3, <1>4, <1>6, <1>7, <2>4, <3>2
  <2>6. stage' = "read vars" /\ module'.res =>
          cur' = Start(nf + nv - todo + 1)' /\ VarRows(nv - todo)'
    BY <2>3, <2>5
  <2> QED BY <1>3, <2>1, <2>3, <2>5, <2>6 DEF Filling, Writing
<1> QED BY <1>8, <1>9

\* The i-th entry of the file, where a reader comes to it.
LEMMA AtEntry ==
  ASSUME Filed, IsScript(script), NEW i \in 1 .. nf + nv
  PROVE  /\ Start(i) = image[i].at /\ EntryAt(Start(i)) = image[i] /\ EndOf(image[i]) = Start(i + 1)
         /\ i > nf => image[i].flags = 0
<1>1. nf \in Nat /\ nv \in Nat
  BY ScriptType
<1>2. Start(i) = image[i].at
  BY <1>1 DEF Start, StartIn
<1>3. EndOf(image[i]) = Start(i + 1) /\ image[i] = EntryOf(ItemAt(i), image[i].at)
  BY DEF Filed, FiledAs, Start
<1>4. ASSUME i > nf PROVE image[i].flags = 0
  <2>1. ItemAt(i) = script.vars[i - nf] /\ i - nf \in 1 .. nv
    BY <1>1, <1>4 DEF ItemAt
  <2>2. DOMAIN script.vars = 1 .. nv
    BY DEF IsScript, IsItems, nv
  <2>3. ItemAt(i).flags = 0
    BY <2>1, <2>2 DEF IsScript
  <2>4. EntryOf(ItemAt(i), image[i].at).flags = ItemAt(i).flags
    BY DEF EntryOf
  <2> QED BY <1>3, <2>3, <2>4
<1> QED BY <1>2, <1>3, <1>4, Found

LEMMA ReadFuncFilling == ASSUME FileInv, Filling, ReadFunc PROVE Filling'
<1>1. UNCHANGED <<script, hdr, image, stage>> /\ stage = "read funcs" /\ todo > 0 /\ todo' = todo - 1
      /\ module'.vars = module.vars /\ module'.res = module.res
  <2>1. DOMAIN module = DOMAIN NoModule
    BY DEF FileInv
  <2> QED BY <2>1 DEF ReadFunc, NoModule
<1>2. Filed /\ IsScript(script) /\ nf \in Nat /\ nv \in Nat
  BY <1>1, ScriptType DEF Filling, Writing, FileInv
<1>3. Filed' /\ nf' = nf /\ nv' = nv
  BY <1>1, <1>2, Kept
<1>4. ASSUME module.res
      PROVE  /\ todo' \in Nat /\ todo' <= nf' /\ cur' = Start(nf - todo + 1)'
             /\ FuncRows(nf - todo)' /\ VarRows(0)'
  <2>1. /\ todo \in Nat /\ todo <= nf /\ cur = Start(nf - todo + 1)
        /\ FuncRows(nf - todo) /\ VarRows(0)
    BY <1>1, <1>4 DEF Filling
  <2>2. PICK m \in Nat : m = nf - todo
    BY <1>2, <2>1
  <2>3. /\ m + 1 \in 1 .. nf + nv /\ nf - todo' = m + 1 /\ nf - todo + 1 = m + 1
        /\ nf - todo' + 1 = m + 2 /\ todo' \in Nat /\ todo' <= nf
    <3>1. todo' = todo - 1 /\ todo > 0 /\ todo \in Nat /\ todo <= nf
      BY <1>1, <2>1
    <3> QED BY <1>2, <2>2, <3>1
  <2>4. PICK e : e = image[m + 1]
    OBVIOUS
  <2>5. cur = e.at /\ EntryAt(cur) = e /\ EndOf(e) = Start(m + 2)
    <3>1. m + 1 + 1 = m + 2
      BY <2>2
    <3> QED BY <1>2, <2>1, <2>3, <2>4, <3>1, AtEntry
  <2>6. cur' = EndOf(e)
    BY <2>5 DEF ReadFunc, EndOf
  <2>7. module'.funcs = Append(module.funcs, FuncRow(e))
    <3>1. DOMAIN module = DOMAIN NoModule
      BY DEF FileInv
    <3>2. module'.funcs = Append(module.funcs, Row(e, IF e.flags = 0 THEN cur + EntryBytes + e.name_len
                                                      ELSE NULL))
      BY <2>5, <3>1 DEF ReadFunc, NoModule
    <3> QED BY <2>5, <3>2 DEF FuncRow, DataOf
  <2>8. IsSeq(module.funcs, m) /\ \A i \in 1 .. m : module.funcs[i] = FuncRow(image[i])
    BY <2>1, <2>2 DEF FuncRows
  <2>9. Extended(module.funcs, m, FuncRow(e), module'.funcs)
    BY <2>7, <2>8, AppendAny
  <2>10. IsSeq(module'.funcs, m + 1) /\ \A i \in 1 .. m + 1 : module'.funcs[i] = FuncRow(image[i])
    <3>1. /\ IsSeq(module'.funcs, m + 1) /\ module'.funcs[m + 1] = FuncRow(e)
          /\ \A i \in 1 .. m : module'.funcs[i] = module.funcs[i]
      BY <2>9 DEF Extended
    <3>2. ASSUME NEW i \in 1 .. m + 1 PROVE module'.funcs[i] = FuncRow(image[i])
      <4>1. CASE i = m + 1
        BY <2>4, <3>1, <4>1
      <4>2. CASE i \in 1 .. m
        BY <2>8, <3>1, <4>2
      <4> QED BY <2>2, <4>1, <4>2
    <3> QED BY <3>1, <3>2
  <2>11. FuncRows(nf - todo)'
    <3>1. nf' - todo' = m + 1 /\ image' = image
      BY <1>1, <1>3, <2>3
    <3> QED BY <2>10, <3>1 DEF FuncRows, FuncRow, DataOf
  <2>12. VarRows(0)'
    BY <1>1, <1>2, <2>1, Kept
  <2>13. cur' = Start(nf - todo + 1)'
    <3>1. nf' - todo' + 1 = m + 2
      BY <1>3, <2>3
    <3>2. StartIn(image, hdr.mem_offset, m + 2)' = Start(m + 2)
      BY <1>1, <1>3 DEF Start, StartIn
    <3> QED BY <2>5, <2>6, <3>1, <3>2 DEF Start, StartIn
  <2> QED BY <1>3, <2>3, <2>11, <2>12, <2>13
<1> QED BY <1>1, <1>3, <1>4 DEF Filling, Writing

LEMMA ReadVarFilling == ASSUME FileInv, Filling, ReadVar PROVE Filling'
<1>1. UNCHANGED <<script, hdr, image, stage>> /\ stage = "read vars" /\ todo > 0 /\ todo' = todo - 1
      /\ module'.funcs = module.funcs /\ module'.res = module.res /\ module'.low = module.low
  <2>1. DOMAIN module = DOMAIN NoModule
    BY DEF FileInv
  <2> QED BY <2>1 DEF ReadVar, NoModule
<1>2. Filed /\ IsScript(script) /\ nf \in Nat /\ nv \in Nat
  BY <1>1, ScriptType DEF Filling, Writing, FileInv
<1>3. Filed' /\ nf' = nf /\ nv' = nv
  BY <1>1, <1>2, Kept
<1>4. ASSUME module.res
      PROVE  /\ todo' \in Nat /\ todo' <= nv' /\ cur' = Start(nf + nv - todo + 1)'
             /\ FuncRows(nf)' /\ VarRows(nv - todo)' /\ module'.low = hdr'.vars_offset
  <2>1. /\ todo \in Nat /\ todo <= nv /\ cur = Start(nf + nv - todo + 1)
        /\ FuncRows(nf) /\ VarRows(nv - todo) /\ module.low = hdr.vars_offset
    BY <1>1, <1>4 DEF Filling
  <2>2. PICK m \in Nat : m = nv - todo
    BY <1>2, <2>1
  <2>3. /\ nf + m + 1 \in 1 .. nf + nv /\ nf + m + 1 > nf /\ nv - todo' = m + 1
        /\ nf + nv - todo + 1 = nf + m + 1 /\ nf + nv - todo' + 1 = nf + m + 2
        /\ todo' \in Nat /\ todo' <= nv
    <3>1. todo' = todo - 1 /\ todo > 0 /\ todo \in Nat /\ todo <= nv
      BY <1>1, <2>1
    <3> QED BY <1>2, <2>2, <3>1
  <2>4. PICK e : e = image[nf + m + 1]
    OBVIOUS
  <2>5. cur = e.at /\ EntryAt(cur) = e /\ EndOf(e) = Start(nf + m + 2) /\ e.flags = 0
    <3>1. nf + m + 1 + 1 = nf + m + 2
      BY <1>2, <2>2
    <3> QED BY <1>2, <2>1, <2>3, <2>4, <3>1, AtEntry
  <2>6. cur' = EndOf(e)
    BY <2>5 DEF ReadVar, EndOf
  <2>7. module'.vars = Append(module.vars, VarRow(e))
    <3>1. DOMAIN module = DOMAIN NoModule
      BY DEF FileInv
    <3>2. module'.vars = Append(module.vars, Row(e, cur + EntryBytes + e.name_len))
      BY <2>5, <3>1 DEF ReadVar, NoModule
    <3> QED BY <2>5, <3>2 DEF VarRow, DataOf
  <2>8. IsSeq(module.vars, m) /\ \A i \in 1 .. m : module.vars[i] = VarRow(image[nf + i])
    BY <2>1, <2>2 DEF VarRows
  <2>9. Extended(module.vars, m, VarRow(e), module'.vars)
    BY <2>7, <2>8, AppendAny
  <2>10. IsSeq(module'.vars, m + 1) /\ \A i \in 1 .. m + 1 : module'.vars[i] = VarRow(image[nf + i])
    <3>1. /\ IsSeq(module'.vars, m + 1) /\ module'.vars[m + 1] = VarRow(e)
          /\ \A i \in 1 .. m : module'.vars[i] = module.vars[i]
      BY <2>9 DEF Extended
    <3>2. ASSUME NEW i \in 1 .. m + 1 PROVE module'.vars[i] = VarRow(image[nf + i])
      <4>1. CASE i = m + 1
        <5>1. nf + i = nf + m + 1
          BY <1>2, <2>2, <4>1
        <5> QED BY <2>4, <3>1, <4>1, <5>1
      <4>2. CASE i \in 1 .. m
        BY <2>8, <3>1, <4>2
      <4> QED BY <2>2, <4>1, <4>2
    <3> QED BY <3>1, <3>2
  <2>11. VarRows(nv - todo)'
    <3>1. nv' - todo' = m + 1 /\ image' = image /\ nf' = nf
      BY <1>1, <1>3, <2>3
    <3> QED BY <2>10, <3>1 DEF VarRows, VarRow, DataOf
  <2>12. FuncRows(nf)'
    BY <1>1, <1>2, <2>1, Kept
  <2>13. cur' = Start(nf + nv - todo + 1)'
    <3>1. nf' + nv' - todo' + 1 = nf + m + 2
      BY <1>3, <2>3
    <3>2. StartIn(image, hdr.mem_offset, nf + m + 2)' = Start(nf + m + 2)
      BY <1>1, <1>3 DEF Start, StartIn
    <3> QED BY <1>3, <2>5, <2>6, <3>1, <3>2 DEF Start, StartIn
  <2> QED BY <1>1, <1>3, <2>1, <2>3, <2>11, <2>12, <2>13
<1> QED BY <1>1, <1>3, <1>4 DEF Filling, Writing

\* The module is there, and what is done with it leaves it as it is.
LEMMA KeptFilling ==
  ASSUME FileInv, Filling, EndLoad \/ Disassemble \/ UNCHANGED mvars
  PROVE  Filling'
<1>1. UNCHANGED <<script, hdr, funcs, globals, image, module>>
  BY DEF EndLoad, Disassemble, StartNames, ReadName, StartListing, ListFunc, ListFault, ListVar,
         EndListing, mvars
<1>2. CASE EndLoad
  <2>1. Filed /\ nf \in Nat /\ nv \in Nat /\ stage' \in {"ready", "rejected"} /\ stage = "read vars"
        /\ todo = 0 /\ (stage' = "ready" => module.res)
    BY <1>2, ScriptType DEF EndLoad, Filling, Writing, FileInv
  <2>2. ASSUME stage' = "ready" PROVE FuncRows(nf) /\ VarRows(nv) /\ module.low = hdr.vars_offset
    <3>1. FuncRows(nf) /\ VarRows(nv - todo) /\ module.low = hdr.vars_offset
      BY <2>1, <2>2 DEF Filling
    <3>2. todo = 0 /\ nv \in Nat
      BY <2>1
    <3>3. nv - todo = nv
      BY <3>2
    <3> QED BY <3>1, <3>3
  <2>3. Filed' /\ (FuncRows(nf) => FuncRows(nf)') /\ (VarRows(nv) => VarRows(nv)')
    BY <1>1, <2>1, Kept
  <2> QED BY <1>1, <2>1, <2>2, <2>3 DEF Filling, Writing
<1>3. CASE Disassemble
  <2>1. stage \in Listing /\ stage' \in Listing \ {"ready"}
    BY <1>3 DEF Disassemble, StartNames, ReadName, StartListing, ListFunc, ListFault, ListVar,
                EndListing, Listing
  <2>2. Filed
    BY <2>1 DEF Filling, Writing, Listing
  <2>3. Filed'
    BY <1>1, <2>2, Kept
  <2> QED BY <2>1, <2>3 DEF Filling, Writing, Listing
<1>4. CASE UNCHANGED mvars
  <2>1. UNCHANGED <<script, hdr, funcs, globals, image, module, cur, todo, stage>>
    BY <1>4 DEF mvars
  <2>2. nf' = nf /\ nv' = nv /\ Filed' = Filed
    BY <2>1 DEF nf, nv, Filed, FiledAs, StartIn, ItemAt
  <2>3. /\ FuncRows(0)' = FuncRows(0) /\ FuncRows(nf)' = FuncRows(nf)
        /\ FuncRows(nf - todo)' = FuncRows(nf - todo)
    BY <2>1 DEF FuncRows, nf
  <2>4. /\ VarRows(0)' = VarRows(0) /\ VarRows(nv)' = VarRows(nv)
        /\ VarRows(nv - todo)' = VarRows(nv - todo)
    BY <2>1 DEF VarRows, nf, nv
  <2>5. /\ Start(nf - todo + 1)' = Start(nf - todo + 1)
        /\ Start(nf + nv - todo + 1)' = Start(nf + nv - todo + 1)
    BY <2>1 DEF Start, StartIn, nf, nv
  <2>6. /\ Chained(funcs.entries, hdr.func_count, script.funcs, funcs.count)'
            = Chained(funcs.entries, hdr.func_count, script.funcs, funcs.count)
        /\ Chained(globals.entries, hdr.var_count, script.vars, globals.count)'
            = Chained(globals.entries, hdr.var_count, script.vars, globals.count)
    BY <2>1
  <2> QED BY <2>1, <2>2, <2>3, <2>4, <2>5, <2>6 DEF Filling
<1> QED BY <1>2, <1>3, <1>4
----------------------------------------------------------------------------
\* One step of a tool or of the loader.
LEMMA FillingStep == ASSUME FileInv, Filling, FileNext \/ UNCHANGED mvars PROVE Filling'
BY GenerateFilling, FinalizeFilling, SetupFilling, TablesFilling, ReadFuncFilling, ReadVarFilling,
   KeptFilling DEF FileNext, Generate, LoadFile

\* What has been written so far is where the reader will look for it.
THEOREM Fills == FileSpec => []Filling
<1>1. FileInit => Filling
  BY DEF FileInit, Blank, Filling, NoHeader, NoBuffer, Writing, Chained, IsSeq
<1>2. FileInv /\ Filling /\ [FileNext \/ FileDone]_mvars => Filling'
  BY FillingStep DEF FileDone
<1> QED BY <1>1, <1>2, FileInvariance, PTL DEF FileSpec

\* A module of any number of functions and variables, of any sizes, is in memory what the
\* script was.
LEMMA TablesRead == ASSUME FileInv, Filling PROVE LoadedAsWritten
<1>1. SUFFICES ASSUME stage = "ready" PROVE LoadedAsWritten
  BY DEF LoadedAsWritten
<1>2. IsScript(script) /\ nf \in Nat /\ nv \in Nat
  BY ScriptType DEF FileInv
<1>3. Filed /\ FuncRows(nf) /\ VarRows(nv) /\ module.low = hdr.vars_offset
  BY <1>1 DEF Filling, Writing
<1>4. hdr.vars_offset \in Nat /\ hdr.mem_offset \in Nat
  BY DEF FileInv, Header
<1>5. DOMAIN script.funcs = 1 .. nf /\ DOMAIN script.vars = 1 .. nv
  BY <1>2 DEF IsScript, IsItems, nf, nv
<1>6. Len(module.funcs) = nf /\ Len(module.vars) = nv
  <2>1. \A i \in 1 .. nf : module.funcs[i] \in {module.funcs[k] : k \in 1 .. nf}
    OBVIOUS
  <2>2. \A i \in 1 .. nv : module.vars[i] \in {module.vars[k] : k \in 1 .. nv}
    OBVIOUS
  <2> QED BY <1>3, <2>1, <2>2, SeqMembers DEF FuncRows, VarRows
<1>7. ASSUME NEW i \in 1 .. nf + nv
      PROVE  /\ image[i] = EntryOf(ItemAt(i), image[i].at) /\ image[i].at \in Nat
             /\ IsItem(ItemAt(i)) /\ image[i].name_len \in Nat
             /\ image[i].data_len \in Nat /\ image[i].name = ItemAt(i).name
             /\ image[i].body = ItemAt(i).body /\ image[i].flags = ItemAt(i).flags
             /\ (ItemAt(i).flags = 0 => image[i].data_len >= ItemAt(i).bytes)
             /\ ItemAt(i).bytes \in Nat
  <2>1. image[i] = EntryOf(ItemAt(i), image[i].at) /\ image[i].at \in Nat
    BY <1>3 DEF Filed, FiledAs
  <2>2. IsItem(ItemAt(i))
    BY <1>2, Items
  <2>3. /\ Padded(ItemAt(i).chars) \in Nat /\ Padded(ItemAt(i).bytes) \in Nat
        /\ Padded(ItemAt(i).bytes) >= ItemAt(i).bytes /\ ItemAt(i).bytes \in Nat
    BY <2>2 DEF IsItem, Padded, Align
  <2>4. PICK k : k = image[i].at
    OBVIOUS
  <2>5. image[i] = EntryOf(ItemAt(i), k)
    BY <2>1, <2>4
  <2> QED BY <2>1, <2>2, <2>3, <2>5 DEF EntryOf
<1>8. ASSUME NEW i \in 1 .. nf
      PROVE  LET r == module.funcs[i]
                 f == script.funcs[i]
             IN  /\ r.key = f.name /\ r.body = f.body /\ r.flags = f.flags /\ r.own = (f.flags # EXTERN)
                 /\ IF f.flags # 0 THEN r.item = NULL
                    ELSE r.bytes >= f.bytes /\ r.item \in HeaderBytes .. hdr.vars_offset - r.bytes
  <2>1. i \in 1 .. nf + nv /\ ItemAt(i) = script.funcs[i]
    BY <1>2 DEF ItemAt
  <2>2. module.funcs[i] = FuncRow(image[i])
    BY <1>3 DEF FuncRows
  <2>3. HeaderBytes <= image[i].at /\ EndOf(image[i]) <= hdr.vars_offset
    BY <1>2, <1>3, <2>1 DEF Filed, FiledAs
  <2>4. PICK e : e = image[i]
    OBVIOUS
  <2>5. /\ e.at \in Nat /\ e.name_len \in Nat /\ e.data_len \in Nat /\ e.name = script.funcs[i].name
        /\ e.body = script.funcs[i].body /\ e.flags = script.funcs[i].flags
        /\ (script.funcs[i].flags = 0 => e.data_len >= script.funcs[i].bytes)
    BY <1>7, <2>1, <2>4
  <2>6. ASSUME e.flags = 0 PROVE DataOf(e) \in HeaderBytes .. hdr.vars_offset - e.data_len
    <3>1. e.at + 16 + e.name_len + e.data_len <= hdr.vars_offset /\ 48 <= e.at
      BY <2>3, <2>4, <2>6 DEF EndOf, EntryBytes, HeaderBytes
    <3> QED BY <1>4, <2>5, <3>1 DEF DataOf, EntryBytes, HeaderBytes
  <2> QED BY <2>2, <2>4, <2>5, <2>6 DEF FuncRow, Row
<1>9. ASSUME NEW i \in 1 .. nv
      PROVE  /\ module.vars[i].key = script.vars[i].name /\ module.vars[i].own
             /\ module.vars[i].bytes >= script.vars[i].bytes
             /\ module.vars[i].item \in module.low .. hdr.mem_offset - module.vars[i].bytes
             /\ module.vars[i].item + module.vars[i].bytes = EndOf(image[nf + i])
             /\ image[nf + i].at <= module.vars[i].item - EntryBytes
             /\ image[nf + i].at \in Nat /\ module.vars[i].item \in Nat
             /\ module.vars[i].bytes \in Nat
  <2>1. nf + i \in 1 .. nf + nv /\ nf + i > nf /\ ItemAt(nf + i) = script.vars[i]
    <3> DEFINE x == nf + i
    <3>1. x \in 1 .. nf + nv /\ x > nf /\ ~(x <= nf) /\ x - nf = i
      BY <1>2
    <3> HIDE DEF x
    <3>2. ItemAt(x) = script.vars[i]
      BY <3>1 DEF ItemAt
    <3> QED BY <3>1, <3>2 DEF x
  <2>2. module.vars[i] = VarRow(image[nf + i])
    BY <1>3 DEF VarRows
  <2>3. hdr.vars_offset <= image[nf + i].at /\ EndOf(image[nf + i]) <= hdr.mem_offset
    BY <1>3, <2>1 DEF Filed, FiledAs
  <2>4. PICK e : e = image[nf + i]
    OBVIOUS
  <2>5. script.vars[i].flags = 0
    BY <1>2, <1>5 DEF IsScript
  <2>6. /\ e.at \in Nat /\ e.name_len \in Nat /\ e.data_len \in Nat /\ e.name = script.vars[i].name
        /\ e.flags = 0 /\ e.data_len >= script.vars[i].bytes
    BY <1>7, <2>1, <2>4, <2>5
  <2>7. EndOf(e) = DataOf(e) + e.data_len /\ DataOf(e) = e.at + 16 + e.name_len
    BY <2>6 DEF EndOf, DataOf, EntryBytes
  <2>8. /\ module.vars[i].key = e.name /\ module.vars[i].own /\ module.vars[i].bytes = e.data_len
        /\ module.vars[i].item = DataOf(e)
    <3>1. /\ module.vars[i].key = e.name /\ module.vars[i].own = (e.flags # EXTERN)
          /\ module.vars[i].bytes = e.data_len /\ module.vars[i].item = DataOf(e)
      BY <2>2, <2>4 DEF VarRow, Row
    <3>2. (e.flags # EXTERN) = TRUE
      BY <2>6 DEF EXTERN
    <3> QED BY <3>1, <3>2
  <2>9. DataOf(e) \in module.low .. hdr.mem_offset - e.data_len /\ e.at <= DataOf(e) - EntryBytes
    BY <1>3, <1>4, <2>3, <2>4, <2>6, <2>7 DEF EntryBytes
  <2> QED BY <1>4, <2>4, <2>6, <2>7, <2>8, <2>9
<1>10. ASSUME NEW i \in 1 .. nv, NEW j \in 1 .. nv, i < j
       PROVE  module.vars[i].item + module.vars[i].bytes <= module.vars[j].item - EntryBytes
  <2>1. nf + i \in 1 .. nf + nv /\ nf + j \in 1 .. nf + nv /\ nf + i < nf + j
    BY <1>2, <1>10
  <2>2. EndOf(image[nf + i]) <= image[nf + j].at
    BY <1>3, <2>1 DEF Filed, FiledAs
  <2>3. /\ module.vars[i].item + module.vars[i].bytes = EndOf(image[nf + i])
        /\ image[nf + j].at <= module.vars[j].item - EntryBytes
        /\ image[nf + j].at \in Nat /\ module.vars[j].item \in Nat
        /\ module.vars[i].item \in Nat /\ module.vars[i].bytes \in Nat
    BY <1>9
  <2> QED BY <2>2, <2>3 DEF EntryBytes
<1> QED BY <1>5, <1>6, <1>8, <1>9, <1>10 DEF LoadedAsWritten, nf, nv

\* A module of any number of functions and variables, of any sizes, is in memory what the
\* script was.
THEOREM ReadBack == FileSpec => []LoadedAsWritten
BY TablesRead, FileInvariance, Fills, PTL
----------------------------------------------------------------------------
(* What the disassembler collects and prints.                              *)

\* q has the lines of the members of S in their order, each once.
InOrder(q, S, line) ==
  \E n \in Nat : /\ IsSeq(q, n)
                 /\ \E p \in [1 .. n -> S] :
                      /\ \A k \in 1 .. n : q[k] = line[p[k]]
                      /\ \A j, k \in 1 .. n : j < k => p[j] < p[k]
                      /\ \A i \in S : \E k \in 1 .. n : p[k] = i

VarLineOf(r)      == [name |-> r.key, bytes |-> r.bytes, data |-> Printed(r.bytes)]
BytecodeLineOf(r) == [name |-> r.key, body |-> Listed(r.body)]
NativeLineOf(r)   == [name |-> r.key, flags |-> r.flags]

\* The names that calls are printed with are those of the module's tables, functions first, and
\* a listing that is finished has every variable and function of them once, in their order: the two
\* walks of the disassembler skip what the generator wrote (disassembler.c:48-260).
ListedAsLoaded ==
  /\ stage \in {"list", "unlisted", "listed"} => names = Keys(module.funcs) \o Keys(module.vars)
  /\ stage = "listed" =>
       LET fs == module.funcs
       IN  /\ listing.vars = [i \in DOMAIN module.vars |-> VarLineOf(module.vars[i])]
           /\ InOrder(listing.bc, {i \in DOMAIN fs : fs[i].flags = 0},
                      [i \in DOMAIN fs |-> BytecodeLineOf(fs[i])])
           /\ InOrder(listing.nbc, {i \in DOMAIN fs : fs[i].flags # 0},
                      [i \in DOMAIN fs |-> NativeLineOf(fs[i])])

\* The names of the first m entries are collected; the first m functions, m variables are printed.
NamesTo(m) == IsSeq(names, m) /\ \A i \in 1 .. m : names[i] = image[i].name
VarsTo(m)  == IsSeq(listing.vars, m) /\ \A i \in 1 .. m : listing.vars[i] = VarLineOf(VarRow(image[nf + i]))
Bytecode(m)   == {i \in 1 .. m : image[i].flags = 0}
Bodyless(m)   == {i \in 1 .. m : image[i].flags # 0}
BytecodeLines == [i \in 1 .. nf |-> BytecodeLineOf(FuncRow(image[i]))]
NativeLines   == [i \in 1 .. nf |-> NativeLineOf(FuncRow(image[i]))]
FuncsTo(m)    == /\ InOrder(listing.bc, Bytecode(m), BytecodeLines)
                 /\ InOrder(listing.nbc, Bodyless(m), NativeLines)

\* The inductive invariant of the two walks, which have todo entries left.
Walking ==
  /\ stage \in Listing => FuncRows(nf) /\ VarRows(nv)
  /\ stage \in {"names", "list"} =>
       todo \in Nat /\ todo <= nf + nv /\ cur = Start(nf + nv - todo + 1)
  /\ stage = "names" => NamesTo(nf + nv - todo) /\ listing = NoListing
  /\ stage \in {"list", "unlisted", "listed"} => NamesTo(nf + nv)
  /\ stage = "list" => /\ DOMAIN listing = DOMAIN NoListing
                       /\ IF todo > nv THEN FuncsTo(nf + nv - todo) /\ VarsTo(0)
                          ELSE FuncsTo(nf) /\ VarsTo(nv - todo)
  /\ stage = "listed" => FuncsTo(nf) /\ VarsTo(nv)

\* One more line, of an entry behind those that have one.
LEMMA OrderNext ==
  ASSUME NEW q, NEW S \in SUBSET Nat, NEW line, InOrder(q, S, line),
         NEW x \in Nat, \A i \in S : i < x, NEW h, h = Append(q, line[x])
  PROVE  InOrder(h, S \cup {x}, line)
<1>1. PICK n \in Nat : /\ IsSeq(q, n)
                       /\ \E p \in [1 .. n -> S] :
                            /\ \A k \in 1 .. n : q[k] = line[p[k]]
                            /\ \A j, k \in 1 .. n : j < k => p[j] < p[k]
                            /\ \A i \in S : \E k \in 1 .. n : p[k] = i
  BY DEF InOrder
<1>2. PICK p \in [1 .. n -> S] : /\ \A k \in 1 .. n : q[k] = line[p[k]]
                                 /\ \A j, k \in 1 .. n : j < k => p[j] < p[k]
                                 /\ \A i \in S : \E k \in 1 .. n : p[k] = i
  BY <1>1
<1>3. PICK y : y = line[x]
  OBVIOUS
<1>4. IsSeq(h, n + 1) /\ h[n + 1] = y /\ \A i \in 1 .. n : h[i] = q[i]
  <2>1. IsSeq(q, n) /\ h = Append(q, y)
    BY <1>1, <1>3
  <2>2. Extended(q, n, y, h)
    BY <2>1, AppendAny
  <2> QED BY <2>2 DEF Extended
<1>5. PICK r : r = [k \in 1 .. n + 1 |-> IF k = n + 1 THEN x ELSE p[k]]
  OBVIOUS
<1>6. r[n + 1] = x /\ \A k \in 1 .. n : r[k] = p[k] /\ p[k] \in S
  BY <1>1, <1>2, <1>5
<1>7. r \in [1 .. n + 1 -> S \cup {x}]
  BY <1>1, <1>2, <1>5
<1>8. ASSUME NEW k \in 1 .. n + 1 PROVE h[k] = line[r[k]]
  <2>1. k = n + 1 \/ k \in 1 .. n
    BY <1>1
  <2> QED BY <1>2, <1>3, <1>4, <1>6, <2>1
<1>9. ASSUME NEW j \in 1 .. n + 1, NEW k \in 1 .. n + 1, j < k PROVE r[j] < r[k]
  <2>1. j \in 1 .. n /\ (k = n + 1 \/ k \in 1 .. n)
    BY <1>1, <1>9
  <2> QED BY <1>2, <1>6, <1>9, <2>1
<1>10. ASSUME NEW i \in S \cup {x} PROVE \E k \in 1 .. n + 1 : r[k] = i
  <2>1. CASE i = x
    BY <1>1, <1>6, <2>1
  <2>2. CASE i \in S
    <3>1. PICK k \in 1 .. n : p[k] = i
      BY <1>2, <2>2
    <3> QED BY <1>1, <1>6, <3>1
  <2> QED BY <2>1, <2>2
<1>11. PICK l \in Nat : l = n + 1
  BY <1>1
<1>12. \E f \in [1 .. l -> S \cup {x}] :
         /\ \A k \in 1 .. l : h[k] = line[f[k]]
         /\ \A j, k \in 1 .. l : j < k => f[j] < f[k]
         /\ \A i \in S \cup {x} : \E k \in 1 .. l : f[k] = i
  BY <1>7, <1>8, <1>9, <1>10, <1>11
<1>13. IsSeq(h, l)
  BY <1>4, <1>11
<1> QED BY <1>12, <1>13 DEF InOrder

\* Where a walk is: at the entry with the next number.
LEMMA WalkAt ==
  ASSUME FileInv, Filling, Walking, stage \in {"names", "list"}, todo > 0
  PROVE  \E m \in Nat :
           LET e == image[m + 1]
           IN  /\ m + 1 \in 1 .. nf + nv /\ m = nf + nv - todo /\ todo - 1 \in Nat
               /\ todo - 1 <= nf + nv /\ nf + nv - (todo - 1) = m + 1
               /\ EntryAt(cur) = e /\ cur = e.at /\ EndOf(e) = Start(m + 1 + 1)
               /\ AtFunc = (m + 1 <= nf) /\ (~AtFunc => e.flags = 0)
<1>1. IsScript(script) /\ Filed /\ nf \in Nat /\ nv \in Nat /\ hdr.var_count = nv
  BY ScriptType DEF FileInv, Filling, Writing, HeadersDone
<1>2. todo \in Nat /\ todo <= nf + nv /\ cur = Start(nf + nv - todo + 1)
  BY DEF Walking
<1>3. PICK m \in Nat : m = nf + nv - todo
  BY <1>1, <1>2
<1>4. /\ m + 1 \in 1 .. nf + nv /\ todo - 1 \in Nat /\ todo - 1 <= nf + nv
      /\ nf + nv - (todo - 1) = m + 1 /\ nf + nv - todo + 1 = m + 1
  BY <1>1, <1>2, <1>3
<1>5. PICK e : e = image[m + 1]
  OBVIOUS
<1>6. EntryAt(cur) = e /\ cur = e.at /\ EndOf(e) = Start(m + 1 + 1) /\ (m + 1 > nf => e.flags = 0)
  BY <1>1, <1>2, <1>4, <1>5, AtEntry
<1>7. AtFunc = (m + 1 <= nf)
  <2>1. todo > nv <=> m + 1 <= nf
    BY <1>1, <1>2, <1>3
  <2> QED BY <1>1, <2>1 DEF AtFunc
<1>8. ~AtFunc => e.flags = 0
  <2>1. ~(m + 1 <= nf) => m + 1 > nf
    BY <1>1
  <2> QED BY <1>6, <1>7, <2>1
<1> QED BY <1>3, <1>4, <1>5, <1>6, <1>7, <1>8

\* What a step of a walk leaves as it is.
LEMMA WalkKept ==
  ASSUME UNCHANGED <<script, hdr, image, module>>
  PROVE  /\ nf' = nf /\ nv' = nv /\ FuncRows(nf)' = FuncRows(nf) /\ VarRows(nv)' = VarRows(nv)
         /\ BytecodeLines' = BytecodeLines /\ NativeLines' = NativeLines
         /\ \A i : StartIn(image, hdr.mem_offset, i)' = Start(i)
         /\ \A m : Bytecode(m)' = Bytecode(m) /\ Bodyless(m)' = Bodyless(m)
<1>1. nf' = nf /\ nv' = nv /\ FuncRows(nf)' = FuncRows(nf) /\ VarRows(nv)' = VarRows(nv)
  BY DEF nf, nv, FuncRows, VarRows
<1>2. BytecodeLines' = BytecodeLines /\ NativeLines' = NativeLines
  BY <1>1 DEF BytecodeLines, NativeLines
<1>3. ASSUME NEW i PROVE StartIn(image, hdr.mem_offset, i)' = Start(i)
  BY <1>1 DEF Start, StartIn
<1>4. ASSUME NEW m PROVE Bytecode(m)' = Bytecode(m) /\ Bodyless(m)' = Bodyless(m)
  BY DEF Bytecode, Bodyless
<1> QED BY <1>1, <1>2, <1>3, <1>4

LEMMA OrderNone == ASSUME NEW line PROVE InOrder(<< >>, {}, line)
<1>1. IsSeq(<< >>, 0)
  BY DEF IsSeq
<1>2. PICK p : p = [k \in 1 .. 0 |-> 0]
  OBVIOUS
<1>3. p \in [1 .. 0 -> {}]
  BY <1>2
<1> QED BY <1>1, <1>3 DEF InOrder

\* The first walk.
LEMMA ReadNameWalking ==
  ASSUME FileInv, Filling, Walking, ReadName
  PROVE  Walking'
<1>1. /\ UNCHANGED <<script, hdr, image, module, stage, listing>> /\ stage = "names" /\ todo > 0
      /\ todo' = todo - 1 /\ names' = Append(names, EntryAt(cur).name)
  BY DEF ReadName
<1>2. PICK m \in Nat :
        /\ m + 1 \in 1 .. nf + nv /\ m = nf + nv - todo /\ todo - 1 \in Nat
        /\ todo - 1 <= nf + nv /\ nf + nv - (todo - 1) = m + 1
        /\ EntryAt(cur) = image[m + 1] /\ cur = image[m + 1].at /\ EndOf(image[m + 1]) = Start(m + 1 + 1)
        /\ AtFunc = (m + 1 <= nf) /\ (~AtFunc => image[m + 1].flags = 0)
  BY <1>1, WalkAt
<1>3. PICK e : e = image[m + 1]
  OBVIOUS
<1>4. cur' = EndOf(e)
  <2>1. cur' = e.at + EntryBytes + e.name_len + IF AtFunc /\ e.flags # 0 THEN 0 ELSE e.data_len
    BY <1>2, <1>3 DEF ReadName
  <2>2. (AtFunc /\ e.flags # 0) = (e.flags # 0)
    BY <1>2, <1>3
  <2> QED BY <2>1, <2>2 DEF EndOf
<1>5. IsSeq(names, m) /\ (\A i \in 1 .. m : names[i] = image[i].name) /\ listing = NoListing
  BY <1>1, <1>2 DEF Walking, NamesTo
<1>6. Extended(names, m, e.name, names')
  BY <1>1, <1>2, <1>3, <1>5, AppendAny
<1>7. IsSeq(names', m + 1) /\ \A i \in 1 .. m + 1 : names'[i] = image[i].name
  <2>1. ASSUME NEW i \in 1 .. m + 1 PROVE names'[i] = image[i].name
    <3>1. i = m + 1 \/ i \in 1 .. m
      BY <1>2
    <3> QED BY <1>3, <1>5, <1>6, <3>1 DEF Extended
  <2> QED BY <1>6, <2>1 DEF Extended
<1>8. nf' = nf /\ nv' = nv /\ (\A i : StartIn(image, hdr.mem_offset, i)' = Start(i))
      /\ FuncRows(nf)' = FuncRows(nf) /\ VarRows(nv)' = VarRows(nv)
  BY <1>1, WalkKept
<1>9. nf' + nv' - todo' = m + 1
  BY <1>1, <1>2, <1>8
<1>10. NamesTo(nf + nv - todo)' /\ cur' = Start(nf + nv - todo + 1)'
  <2>1. NamesTo(nf + nv - todo)'
    BY <1>1, <1>7, <1>9 DEF NamesTo
  <2>2. StartIn(image, hdr.mem_offset, m + 1 + 1)' = cur'
    BY <1>2, <1>3, <1>4, <1>8
  <2> QED BY <1>9, <2>1, <2>2 DEF Start
<1>11. FuncRows(nf) /\ VarRows(nv)
  BY <1>1 DEF Walking, Listing
<1>12. todo' \in Nat /\ todo' <= nf' + nv'
  BY <1>1, <1>2, <1>8
<1> QED BY <1>1, <1>5, <1>8, <1>10, <1>11, <1>12 DEF Walking

\* The second walk, in the functions: a line in one of the two parts of the listing.
LEMMA ListFuncWalking ==
  ASSUME FileInv, Filling, Walking, ListFunc
  PROVE  Walking'
<1>1. /\ UNCHANGED <<script, hdr, image, module, stage, names>> /\ stage = "list" /\ AtFunc
      /\ todo' = todo - 1
  BY DEF ListFunc
<1>2. todo > 0 /\ hdr.var_count = nv /\ nf \in Nat /\ nv \in Nat /\ todo \in Nat /\ todo > nv
  <2>1. hdr.var_count = nv /\ nf \in Nat /\ nv \in Nat /\ todo \in Nat
    BY <1>1, ScriptType DEF FileInv, HeadersDone, Writing, Walking
  <2> QED BY <1>1, <2>1 DEF AtFunc
<1>3. PICK m \in Nat :
        /\ m + 1 \in 1 .. nf + nv /\ m = nf + nv - todo /\ todo - 1 \in Nat
        /\ todo - 1 <= nf + nv /\ nf + nv - (todo - 1) = m + 1
        /\ EntryAt(cur) = image[m + 1] /\ cur = image[m + 1].at /\ EndOf(image[m + 1]) = Start(m + 1 + 1)
        /\ AtFunc = (m + 1 <= nf) /\ (~AtFunc => image[m + 1].flags = 0)
  BY <1>1, <1>2, WalkAt
<1>4. PICK e : e = image[m + 1]
  OBVIOUS
<1>5. m + 1 \in 1 .. nf
  BY <1>1, <1>2, <1>3
<1>6. cur' = EndOf(e)
  BY <1>3, <1>4 DEF ListFunc, EndOf
<1>7. DOMAIN listing = DOMAIN NoListing /\ FuncsTo(m) /\ VarsTo(0)
  BY <1>1, <1>2, <1>3 DEF Walking
<1>8. /\ BytecodeLines[m + 1] = [name |-> e.name, body |-> Listed(e.body)]
      /\ NativeLines[m + 1] = [name |-> e.name, flags |-> e.flags]
  BY <1>4, <1>5 DEF BytecodeLines, NativeLines, BytecodeLineOf, NativeLineOf, FuncRow, Row
<1>9. /\ listing'.vars = listing.vars /\ DOMAIN listing' = DOMAIN NoListing
      /\ e.flags = 0 => /\ listing'.bc = Append(listing.bc, BytecodeLines[m + 1])
                        /\ listing'.nbc = listing.nbc
      /\ e.flags # 0 => /\ listing'.nbc = Append(listing.nbc, NativeLines[m + 1])
                        /\ listing'.bc = listing.bc
  <2>1. listing' = IF e.flags = 0 THEN [listing EXCEPT !.bc = Append(@, BytecodeLines[m + 1])]
                   ELSE [listing EXCEPT !.nbc = Append(@, NativeLines[m + 1])]
    BY <1>3, <1>4, <1>8 DEF ListFunc
  <2> QED BY <1>7, <2>1 DEF NoListing
<1>10. /\ e.flags = 0 => Bytecode(m + 1) = Bytecode(m) \cup {m + 1} /\ Bodyless(m + 1) = Bodyless(m)
       /\ e.flags # 0 => Bytecode(m + 1) = Bytecode(m) /\ Bodyless(m + 1) = Bodyless(m) \cup {m + 1}
  <2>1. 1 .. m + 1 = 1 .. m \cup {m + 1} /\ m + 1 \notin 1 .. m
    BY <1>3
  <2> QED BY <1>4, <2>1 DEF Bytecode, Bodyless
<1>11. /\ Bytecode(m) \in SUBSET Nat /\ \A i \in Bytecode(m) : i < m + 1
       /\ Bodyless(m) \in SUBSET Nat /\ \A i \in Bodyless(m) : i < m + 1
  BY <1>3 DEF Bytecode, Bodyless
<1>12. InOrder(listing'.bc, Bytecode(m + 1), BytecodeLines)
  <2>1. InOrder(listing.bc, Bytecode(m), BytecodeLines)
    BY <1>7 DEF FuncsTo
  <2>2. CASE e.flags = 0
    <3>1. InOrder(listing'.bc, Bytecode(m) \cup {m + 1}, BytecodeLines)
      <4>1. PICK x \in Nat : x = m + 1
        BY <1>3
      <4>2. PICK h : h = listing'.bc
        OBVIOUS
      <4>3. h = Append(listing.bc, BytecodeLines[x])
        BY <1>9, <2>2, <4>1, <4>2
      <4>4. \A i \in Bytecode(m) : i < x
        BY <1>11, <4>1
      <4>5. InOrder(h, Bytecode(m) \cup {x}, BytecodeLines)
        BY <1>11, <2>1, <4>3, <4>4, OrderNext
      <4> QED BY <4>1, <4>2, <4>5
    <3> QED BY <1>10, <2>2, <3>1
  <2>3. CASE e.flags # 0
    BY <1>9, <1>10, <2>1, <2>3
  <2> QED BY <2>2, <2>3
<1>13. InOrder(listing'.nbc, Bodyless(m + 1), NativeLines)
  <2>1. InOrder(listing.nbc, Bodyless(m), NativeLines)
    BY <1>7 DEF FuncsTo
  <2>2. CASE e.flags # 0
    <3>1. InOrder(listing'.nbc, Bodyless(m) \cup {m + 1}, NativeLines)
      <4>1. PICK x \in Nat : x = m + 1
        BY <1>3
      <4>2. PICK h : h = listing'.nbc
        OBVIOUS
      <4>3. h = Append(listing.nbc, NativeLines[x])
        BY <1>9, <2>2, <4>1, <4>2
      <4>4. \A i \in Bodyless(m) : i < x
        BY <1>11, <4>1
      <4>5. InOrder(h, Bodyless(m) \cup {x}, NativeLines)
        BY <1>11, <2>1, <4>3, <4>4, OrderNext
      <4> QED BY <4>1, <4>2, <4>5
    <3> QED BY <1>10, <2>2, <3>1
  <2>3. CASE e.flags = 0
    BY <1>9, <1>10, <2>1, <2>3
  <2> QED BY <2>2, <2>3
<1>14. /\ nf' = nf /\ nv' = nv /\ (\A i : StartIn(image, hdr.mem_offset, i)' = Start(i))
       /\ FuncRows(nf)' = FuncRows(nf) /\ VarRows(nv)' = VarRows(nv)
       /\ BytecodeLines' = BytecodeLines /\ NativeLines' = NativeLines
       /\ \A k : Bytecode(k)' = Bytecode(k) /\ Bodyless(k)' = Bodyless(k)
  BY <1>1, WalkKept
<1>15. nf' + nv' - todo' = m + 1 /\ todo' \in Nat /\ todo' <= nf' + nv'
  BY <1>1, <1>3, <1>14
<1>16. IF todo' > nv' THEN FuncsTo(nf + nv - todo)' /\ VarsTo(0)' ELSE FuncsTo(nf)' /\ VarsTo(nv - todo)'
  <2>1. ASSUME NEW k, k = m + 1 PROVE FuncsTo(k)'
    BY <1>12, <1>13, <1>14, <2>1 DEF FuncsTo
  <2>2. VarsTo(0)'
    <3>1. IsSeq(listing.vars, 0)
      BY <1>7 DEF VarsTo
    <3>2. IsSeq(listing'.vars, 0)
      BY <1>9, <3>1
    <3> QED BY <3>2 DEF VarsTo
  <2>3. CASE todo' > nv'
    <3>1. FuncsTo(nf + nv - todo)'
      BY <1>12, <1>13, <1>14, <1>15 DEF FuncsTo
    <3> QED BY <2>2, <2>3, <3>1
  <2>4. CASE ~(todo' > nv')
    <3>1. nf' = m + 1 /\ nv' - todo' = 0
      <4>1. ~(todo' > nv) /\ todo' = todo - 1 /\ todo > nv /\ todo \in Nat /\ nv \in Nat /\ nf \in Nat
        BY <1>1, <1>2, <1>14, <2>4
      <4>2. todo' = nv /\ nf + nv - todo' = m + 1
        BY <1>1, <1>3, <4>1
      <4> QED BY <1>14, <4>1, <4>2
    <3>2. FuncsTo(nf)'
      BY <1>12, <1>13, <1>14, <3>1 DEF FuncsTo
    <3>3. VarsTo(nv - todo)'
      BY <2>2, <3>1 DEF VarsTo
    <3> QED BY <2>4, <3>2, <3>3
  <2> QED BY <2>3, <2>4
<1>17. cur' = Start(nf + nv - todo + 1)'
  <2>1. StartIn(image, hdr.mem_offset, m + 1 + 1)' = cur'
    BY <1>3, <1>4, <1>6, <1>14
  <2> QED BY <1>15, <2>1 DEF Start
<1>18. NamesTo(nf + nv)'
  <2>1. NamesTo(nf + nv)
    BY <1>1 DEF Walking
  <2> QED BY <1>1, <1>14, <2>1 DEF NamesTo
<1>19. FuncRows(nf) /\ VarRows(nv)
  BY <1>1 DEF Walking, Listing
<1> QED BY <1>1, <1>9, <1>14, <1>15, <1>16, <1>17, <1>18, <1>19 DEF Walking

\* The second walk, in the variables.
LEMMA ListVarWalking ==
  ASSUME FileInv, Filling, Walking, ListVar
  PROVE  Walking'
<1>1. /\ UNCHANGED <<script, hdr, image, module, stage, names>> /\ stage = "list" /\ ~AtFunc
      /\ todo > 0 /\ todo' = todo - 1
  BY DEF ListVar
<1>2. hdr.var_count = nv /\ nf \in Nat /\ nv \in Nat /\ todo \in Nat /\ ~(todo > nv)
  <2>1. hdr.var_count = nv /\ nf \in Nat /\ nv \in Nat /\ todo \in Nat
    BY <1>1, ScriptType DEF FileInv, HeadersDone, Writing, Walking
  <2> QED BY <1>1, <2>1 DEF AtFunc
<1>3. PICK m \in Nat :
        /\ m + 1 \in 1 .. nf + nv /\ m = nf + nv - todo /\ todo - 1 \in Nat
        /\ todo - 1 <= nf + nv /\ nf + nv - (todo - 1) = m + 1
        /\ EntryAt(cur) = image[m + 1] /\ cur = image[m + 1].at /\ EndOf(image[m + 1]) = Start(m + 1 + 1)
        /\ AtFunc = (m + 1 <= nf) /\ (~AtFunc => image[m + 1].flags = 0)
  BY <1>1, <1>2, WalkAt
<1>4. PICK e : e = image[m + 1]
  OBVIOUS
<1>5. PICK k \in Nat : k = nv - todo
  BY <1>2
<1>6. cur' = EndOf(e)
  <2>1. cur' = e.at + EntryBytes + e.name_len + e.data_len /\ e.flags = 0
    BY <1>1, <1>3, <1>4 DEF ListVar
  <2> QED BY <2>1 DEF EndOf
<1>7. DOMAIN listing = DOMAIN NoListing /\ FuncsTo(nf) /\ VarsTo(k)
  BY <1>1, <1>2, <1>5 DEF Walking
<1>8. VarLineOf(VarRow(e)) = [name |-> e.name, bytes |-> e.data_len, data |-> Printed(e.data_len)]
  BY DEF VarLineOf, VarRow, Row
<1>9. /\ listing'.bc = listing.bc /\ listing'.nbc = listing.nbc /\ DOMAIN listing' = DOMAIN NoListing
      /\ listing'.vars = Append(listing.vars, VarLineOf(VarRow(e)))
  <2>1. listing' = [listing EXCEPT !.vars = Append(@, VarLineOf(VarRow(e)))]
    BY <1>3, <1>4, <1>8 DEF ListVar
  <2> QED BY <1>7, <2>1 DEF NoListing
<1>10. IsSeq(listing.vars, k) /\ \A i \in 1 .. k : listing.vars[i] = VarLineOf(VarRow(image[nf + i]))
  BY <1>7 DEF VarsTo
<1>11. Extended(listing.vars, k, VarLineOf(VarRow(e)), listing'.vars)
  BY <1>9, <1>10, AppendAny
<1>12. /\ IsSeq(listing'.vars, k + 1)
       /\ \A i \in 1 .. k + 1 : listing'.vars[i] = VarLineOf(VarRow(image[nf + i]))
  <2>1. ASSUME NEW i \in 1 .. k + 1 PROVE listing'.vars[i] = VarLineOf(VarRow(image[nf + i]))
    <3>1. CASE i = k + 1
      <4>1. nf + i = m + 1
        BY <1>2, <1>3, <1>5, <3>1
      <4> QED BY <1>4, <1>11, <3>1, <4>1 DEF Extended
    <3>2. CASE i \in 1 .. k
      BY <1>10, <1>11, <3>2 DEF Extended
    <3> QED BY <1>5, <3>1, <3>2
  <2> QED BY <1>11, <2>1 DEF Extended
<1>13. /\ nf' = nf /\ nv' = nv /\ (\A i : StartIn(image, hdr.mem_offset, i)' = Start(i))
       /\ FuncRows(nf)' = FuncRows(nf) /\ VarRows(nv)' = VarRows(nv)
       /\ BytecodeLines' = BytecodeLines /\ NativeLines' = NativeLines
       /\ \A j : Bytecode(j)' = Bytecode(j) /\ Bodyless(j)' = Bodyless(j)
  BY <1>1, WalkKept
<1>14. nf' + nv' - todo' = m + 1 /\ todo' \in Nat /\ todo' <= nf' + nv' /\ nv' - todo' = k + 1
       /\ ~(todo' > nv')
  BY <1>1, <1>2, <1>3, <1>5, <1>13
<1>15. FuncsTo(nf)' /\ VarsTo(nv - todo)'
  <2>1. FuncsTo(nf)'
    BY <1>7, <1>9, <1>13 DEF FuncsTo
  <2>2. VarsTo(nv - todo)'
    BY <1>1, <1>12, <1>13, <1>14 DEF VarsTo, VarRow, DataOf
  <2> QED BY <2>1, <2>2
<1>16. cur' = Start(nf + nv - todo + 1)'
  <2>1. StartIn(image, hdr.mem_offset, m + 1 + 1)' = cur'
    BY <1>3, <1>4, <1>6, <1>13
  <2> QED BY <1>14, <2>1 DEF Start
<1>17. NamesTo(nf + nv)'
  <2>1. NamesTo(nf + nv)
    BY <1>1 DEF Walking
  <2> QED BY <1>1, <1>13, <2>1 DEF NamesTo
<1>18. FuncRows(nf) /\ VarRows(nv)
  BY <1>1 DEF Walking, Listing
<1> QED BY <1>1, <1>9, <1>13, <1>14, <1>15, <1>16, <1>17, <1>18 DEF Walking

\* Where the walks begin and end.
LEMMA TurnWalking ==
  ASSUME FileInv, Filling, Filling', Walking,
         EndLoad \/ StartNames \/ StartListing \/ ListFault \/ EndListing
  PROVE  Walking'
<1>1. /\ UNCHANGED <<script, hdr, image, module>> /\ stage' # stage
      /\ stage \in Listing \/ stage' \in {"ready", "rejected"}
  BY DEF EndLoad, StartNames, StartListing, ListFault, EndListing, Listing
<1>2. /\ nf' = nf /\ nv' = nv /\ (\A i : StartIn(image, hdr.mem_offset, i)' = Start(i))
      /\ FuncRows(nf)' = FuncRows(nf) /\ VarRows(nv)' = VarRows(nv)
      /\ BytecodeLines' = BytecodeLines /\ NativeLines' = NativeLines
      /\ \A i : Bytecode(i)' = Bytecode(i) /\ Bodyless(i)' = Bodyless(i)
  BY <1>1, WalkKept
<1>3. nf \in Nat /\ nv \in Nat /\ IsScript(script)
  BY ScriptType DEF FileInv
<1>4. stage \in Listing => /\ FuncRows(nf)' /\ VarRows(nv)' /\ hdr.func_count = nf /\ hdr.var_count = nv
                           /\ hdr.funcs_offset = Start(1)
  <2>1. stage \in Listing => FuncRows(nf)' /\ VarRows(nv)' /\ hdr.func_count = nf /\ hdr.var_count = nv
    BY <1>2 DEF Walking, FileInv, HeadersDone, Writing, Listing
  <2>2. stage \in Listing => hdr.funcs_offset = Start(1)
    BY DEF Filling, Writing, Listing, Filed, FiledAs, Start
  <2> QED BY <2>1, <2>2
<1>5. CASE EndLoad
  <2>1. stage' \in {"ready", "rejected"} /\ (stage' = "ready" => FuncRows(nf)' /\ VarRows(nv)')
    BY <1>5 DEF EndLoad, Filling
  <2> QED BY <2>1 DEF Walking, Listing
<1>6. CASE StartNames
  <2>1. /\ stage = "ready" /\ stage' = "names" /\ cur' = hdr.funcs_offset
        /\ todo' = hdr.func_count + hdr.var_count /\ names' = << >> /\ listing' = NoListing
    BY <1>6 DEF StartNames
  <2>2. todo' = nf' + nv' /\ nf' + nv' - todo' = 0 /\ todo' \in Nat /\ todo' <= nf' + nv'
    BY <1>2, <1>3, <1>4, <2>1 DEF Listing
  <2>3. cur' = Start(nf + nv - todo + 1)'
    <3>1. StartIn(image, hdr.mem_offset, 1)' = cur'
      BY <1>2, <1>4, <2>1 DEF Listing
    <3>2. nf' + nv' - todo' + 1 = 1
      BY <2>2
    <3> QED BY <3>1, <3>2 DEF Start
  <2>4. NamesTo(nf + nv - todo)'
    <3>1. IsSeq(names', 0)
      BY <2>1 DEF IsSeq
    <3> QED BY <2>2, <3>1 DEF NamesTo
  <2> QED BY <1>4, <2>1, <2>2, <2>3, <2>4 DEF Walking, Listing, NoListing
<1>7. CASE StartListing
  <2>1. /\ stage = "names" /\ todo = 0 /\ stage' = "list" /\ cur' = hdr.funcs_offset
        /\ todo' = hdr.func_count + hdr.var_count /\ UNCHANGED <<names, listing>>
    BY <1>7 DEF StartListing
  <2>2. /\ todo' = nf' + nv' /\ nf' + nv' - todo' = 0 /\ todo' \in Nat /\ todo' <= nf' + nv'
        /\ (~(todo' > nv') => nf' = 0 /\ nv' - todo' = 0)
    BY <1>2, <1>3, <1>4, <2>1 DEF Listing
  <2>3. cur' = Start(nf + nv - todo + 1)'
    <3>1. StartIn(image, hdr.mem_offset, 1)' = cur'
      BY <1>2, <1>4, <2>1 DEF Listing
    <3>2. nf' + nv' - todo' + 1 = 1
      BY <2>2
    <3> QED BY <3>1, <3>2 DEF Start
  <2>4. NamesTo(nf + nv)' /\ listing' = NoListing
    <3>1. NamesTo(nf + nv - todo) /\ listing = NoListing
      BY <2>1 DEF Walking
    <3>2. nf + nv - todo = nf + nv
      BY <1>3, <2>1
    <3>3. NamesTo(nf + nv)
      BY <3>1, <3>2
    <3> QED BY <1>1, <1>2, <2>1, <3>1, <3>3 DEF NamesTo
  <2>5. ASSUME NEW k, k = 0 PROVE FuncsTo(k)' /\ VarsTo(k)'
    <3>1. Bytecode(k)' = {} /\ Bodyless(k)' = {}
      BY <2>5 DEF Bytecode, Bodyless
    <3>2. InOrder(<< >>, {}, BytecodeLines') /\ InOrder(<< >>, {}, NativeLines')
      BY OrderNone
    <3>3. listing'.bc = << >> /\ listing'.nbc = << >> /\ listing'.vars = << >>
      BY <2>4 DEF NoListing
    <3>4. IsSeq(<< >>, 0)
      BY DEF IsSeq
    <3>5. FuncsTo(k)'
      BY <3>1, <3>2, <3>3 DEF FuncsTo
    <3>6. VarsTo(k)'
      BY <2>5, <3>3, <3>4 DEF VarsTo
    <3> QED BY <3>5, <3>6
  <2>6. IF todo' > nv' THEN FuncsTo(nf + nv - todo)' /\ VarsTo(0)' ELSE FuncsTo(nf)' /\ VarsTo(nv - todo)'
    <3>1. FuncsTo(0)' /\ VarsTo(0)'
      BY <2>5
    <3>2. CASE todo' > nv'
      <4>1. FuncsTo(nf + nv - todo)'
        BY <2>2, <3>1 DEF FuncsTo
      <4> QED BY <3>1, <3>2, <4>1
    <3>3. CASE ~(todo' > nv')
      <4>1. FuncsTo(nf)'
        BY <2>2, <3>1, <3>3 DEF FuncsTo
      <4>2. VarsTo(nv - todo)'
        BY <2>2, <3>1, <3>3 DEF VarsTo
      <4> QED BY <3>3, <4>1, <4>2
    <3> QED BY <3>2, <3>3
  <2>7. DOMAIN listing' = DOMAIN NoListing
    BY <2>4
  <2> QED BY <1>4, <2>1, <2>2, <2>3, <2>4, <2>6, <2>7 DEF Walking, Listing
<1>8. CASE ListFault \/ EndListing
  <2>1. /\ stage = "list" /\ stage' \in {"unlisted", "listed"} /\ UNCHANGED <<names, listing>>
        /\ stage' = "listed" => todo = 0
    BY <1>8 DEF ListFault, EndListing
  <2>2. NamesTo(nf + nv)'
    <3>1. NamesTo(nf + nv)
      BY <2>1 DEF Walking
    <3> QED BY <1>1, <1>2, <2>1, <3>1 DEF NamesTo
  <2>3. ASSUME todo = 0 PROVE FuncsTo(nf)' /\ VarsTo(nv)'
    <3>1. ~(todo > nv) /\ nv - todo = nv
      BY <1>3, <2>3
    <3>2. FuncsTo(nf) /\ VarsTo(nv)
      BY <2>1, <3>1 DEF Walking
    <3>3. FuncsTo(nf)'
      BY <1>2, <2>1, <3>2 DEF FuncsTo
    <3>4. VarsTo(nv)'
      BY <1>1, <1>2, <2>1, <3>2 DEF VarsTo, VarRow, DataOf
    <3> QED BY <3>3, <3>4
  <2> QED BY <1>4, <2>1, <2>2, <2>3 DEF Walking, Listing
<1> QED BY <1>5, <1>6, <1>7, <1>8

\* Before the module is ready no walk is on its way.
LEMMA EarlyWalking ==
  ASSUME Walking, Generate \/ SetupMemory \/ SetupFuncTable \/ ReadFunc \/ SetupVarTable \/ ReadVar
  PROVE  Walking'
<1>1. stage' \notin Listing
  BY DEF Generate, WriteHeader, WriteFunc, WriteVar, Finalize, SetupMemory, SetupFuncTable, ReadFunc,
         SetupVarTable, ReadVar, SetupTable, Listing
<1> QED BY <1>1 DEF Walking, Listing

LEMMA StillWalking == ASSUME Walking, UNCHANGED mvars PROVE Walking'
<1>1. UNCHANGED <<script, stage, hdr, funcs, globals, image, cur, todo, module, names, listing>>
  BY DEF mvars
<1>2. nf' = nf /\ nv' = nv /\ FuncRows(nf)' = FuncRows(nf) /\ VarRows(nv)' = VarRows(nv)
  BY <1>1, WalkKept
<1>3. /\ Start(nf + nv - todo + 1)' = Start(nf + nv - todo + 1)
      /\ NamesTo(nf + nv - todo)' = NamesTo(nf + nv - todo) /\ NamesTo(nf + nv)' = NamesTo(nf + nv)
  BY <1>1, <1>2 DEF Start, StartIn, NamesTo
<1>4. /\ FuncsTo(nf + nv - todo)' = FuncsTo(nf + nv - todo) /\ FuncsTo(nf)' = FuncsTo(nf)
  BY <1>1, <1>2 DEF FuncsTo, Bytecode, Bodyless, BytecodeLines, NativeLines
<1>5. VarsTo(0)' = VarsTo(0) /\ VarsTo(nv - todo)' = VarsTo(nv - todo) /\ VarsTo(nv)' = VarsTo(nv)
  BY <1>1, <1>2 DEF VarsTo
<1> QED BY <1>1, <1>2, <1>3, <1>4, <1>5 DEF Walking

\* One step of a tool or of the loader.
LEMMA WalkingStep ==
  ASSUME FileInv, Filling, Filling', Walking, FileNext \/ UNCHANGED mvars
  PROVE  Walking'
BY ReadNameWalking, ListFuncWalking, ListVarWalking, TurnWalking, EarlyWalking, StillWalking
   DEF FileNext, LoadFile, Disassemble

\* Both walks of the disassembler are where the generator wrote an entry.
THEOREM Walks == FileSpec => []Walking
<1>1. FileInit => Walking
  BY DEF FileInit, Walking, Listing
<1>2. FileInv /\ Filling /\ Filling' /\ Walking /\ [FileNext \/ FileDone]_mvars => Walking'
  BY WalkingStep DEF FileDone
<1> QED BY <1>1, <1>2, FileInvariance, Fills, PTL DEF FileSpec

\* The listing of every module that is loaded has its names, functions and variables, each once
\* and in their order.
LEMMA Listings == ASSUME FileInv, Filling, Walking PROVE ListedAsLoaded
<1>1. ASSUME stage \in {"list", "unlisted", "listed"} PROVE ListedAsLoaded
  <2>1. IsScript(script) /\ nf \in Nat /\ nv \in Nat
    BY <1>1, ScriptType DEF FileInv
  <2>2. FuncRows(nf) /\ VarRows(nv) /\ NamesTo(nf + nv)
    BY <1>1 DEF Walking, Listing
  <2>3. /\ IsSeq(module.funcs, nf) /\ \A i \in 1 .. nf : module.funcs[i] = FuncRow(image[i])
        /\ IsSeq(module.vars, nv) /\ \A i \in 1 .. nv : module.vars[i] = VarRow(image[nf + i])
    BY <2>2 DEF FuncRows, VarRows
  <2>4. DOMAIN module.funcs = 1 .. nf /\ DOMAIN module.vars = 1 .. nv
    BY <2>3 DEF IsSeq
  <2>5. ASSUME NEW e PROVE /\ FuncRow(e).key = e.name /\ VarRow(e).key = e.name
                           /\ FuncRow(e).flags = e.flags
    BY DEF FuncRow, VarRow, Row
  <2>6. PICK a, b : a = Keys(module.funcs) /\ b = Keys(module.vars)
    OBVIOUS
  <2>7. /\ IsSeq(a, nf) /\ \A i \in 1 .. nf : a[i] = image[i].name
        /\ IsSeq(b, nv) /\ \A i \in 1 .. nv : b[i] = image[nf + i].name
    <3>1. a = [i \in 1 .. nf |-> module.funcs[i].key] /\ b = [i \in 1 .. nv |-> module.vars[i].key]
      BY <2>4, <2>6 DEF Keys
    <3>2. IsSeq(a, nf) /\ IsSeq(b, nv)
      BY <2>1, <3>1 DEF IsSeq
    <3> QED BY <2>3, <2>5, <3>1, <3>2
  <2>8. names = a \o b
    <3>1. PICK h : h = a \o b
      OBVIOUS
    <3>2. IsSeq(h, nf + nv) /\ (\A i \in 1 .. nf : h[i] = a[i]) /\ \A i \in 1 .. nv : h[nf + i] = b[i]
      <4>1. Joined(a, nf, b, nv, h)
        BY <2>7, <3>1, ConcatAny
      <4> QED BY <4>1 DEF Joined
    <3>3. ASSUME NEW i \in 1 .. nf + nv PROVE h[i] = names[i]
      <4>1. names[i] = image[i].name
        BY <2>2 DEF NamesTo
      <4>2. CASE i \in 1 .. nf
        BY <2>7, <3>2, <4>1, <4>2
      <4>3. CASE i \notin 1 .. nf
        <5>1. PICK j \in 1 .. nv : j = i - nf
          BY <2>1, <4>3
        <5>2. i = nf + j
          BY <2>1, <5>1
        <5> QED BY <2>7, <3>2, <4>1, <5>2
      <4> QED BY <4>2, <4>3
    <3>4. IsSeq(names, nf + nv)
      BY <2>2 DEF NamesTo
    <3>5. h = names
      BY <3>2, <3>3, <3>4 DEF IsSeq
    <3> QED BY <3>1, <3>5
  <2>9. ASSUME stage = "listed"
        PROVE  LET fs == module.funcs
               IN  /\ listing.vars = [i \in DOMAIN module.vars |-> VarLineOf(module.vars[i])]
                   /\ InOrder(listing.bc, {i \in DOMAIN fs : fs[i].flags = 0},
                              [i \in DOMAIN fs |-> BytecodeLineOf(fs[i])])
                   /\ InOrder(listing.nbc, {i \in DOMAIN fs : fs[i].flags # 0},
                              [i \in DOMAIN fs |-> NativeLineOf(fs[i])])
    <3>1. FuncsTo(nf) /\ VarsTo(nv)
      BY <1>1, <2>9 DEF Walking
    <3>2. listing.vars = [i \in DOMAIN module.vars |-> VarLineOf(module.vars[i])]
      <4>1. listing.vars = [i \in 1 .. nv |-> listing.vars[i]]
        BY <3>1 DEF VarsTo, IsSeq
      <4>2. \A i \in 1 .. nv : listing.vars[i] = VarLineOf(module.vars[i])
        BY <2>3, <3>1 DEF VarsTo
      <4> QED BY <2>4, <4>1, <4>2
    <3>3. /\ {i \in DOMAIN module.funcs : module.funcs[i].flags = 0} = Bytecode(nf)
          /\ {i \in DOMAIN module.funcs : module.funcs[i].flags # 0} = Bodyless(nf)
      BY <2>3, <2>4, <2>5 DEF Bytecode, Bodyless
    <3>4. /\ [i \in DOMAIN module.funcs |-> BytecodeLineOf(module.funcs[i])] = BytecodeLines
          /\ [i \in DOMAIN module.funcs |-> NativeLineOf(module.funcs[i])] = NativeLines
      BY <2>3, <2>4 DEF BytecodeLines, NativeLines
    <3> QED BY <3>1, <3>2, <3>3, <3>4 DEF FuncsTo
  <2> QED BY <2>6, <2>8, <2>9 DEF ListedAsLoaded
<1>2. ASSUME stage \notin {"list", "unlisted", "listed"} PROVE ListedAsLoaded
  BY <1>2 DEF ListedAsLoaded
<1> QED BY <1>1, <1>2

\* The listing of every module that is loaded has its names, functions and variables, each once
\* and in their order.
THEOREM Lists == FileSpec => []ListedAsLoaded
BY Listings, FileInvariance, Fills, Walks, PTL
----------------------------------------------------------------------------
(* The assembler in front: what it hands over is a script.                 *)

\* strlen counts, and a size in words is one in bytes that wraps around to a word.
CharsCounted == \A n : Chars(n) \in Nat \ {0}
WholeWords   == UintMax % PtrBytes = 0

\* Places of instructions, distances and sizes are numbers, and stacks have whole words.
Amounts ==
  /\ \A f \in DOMAIN code : \A k \in DOMAIN code[f] :
       code[f][k].at \in Nat /\ (code[f][k].op = "jmp" => code[f][k].val \in Int)
  /\ \A v \in DOMAIN data.bytes : data.bytes[v] \in Nat
  /\ data.opstack % PtrBytes = 0 /\ data.callstack % PtrBytes = 0

\* Only functions with a body get instructions: the second pass enters no function that the
\* first one has not seen, whose name could be that of a native.
IsCode(f) == f \in DOMAIN kind /\ kind[f] = "code"
Bodies ==
  Live =>
    /\ \A i \in 1 .. Seen - 1 : src[i].t = "func" => Behind(i) \/ IsCode(src[i].name)
    /\ pass = "second" /\ active # NONE => IsCode(active)
    /\ \A f \in DOMAIN kind : kind[f] # "code" => code[f] = << >>

LEMMA WordsWrap ==
  ASSUME WholeWords, NEW n \in Nat, n % PtrBytes = 0
  PROVE  U32(n) % PtrBytes = 0
<1>1. UintMax \in Nat /\ UintMax > 0
  BY LayoutAssumption
<1>2. PICK k \in Int : UintMax = 8 * k
  <2>1. UintMax % 8 = 0
    BY DEF WholeWords, PtrBytes
  <2>2. UintMax \div 8 \in Int /\ UintMax = 8 * (UintMax \div 8)
    BY <1>1, <2>1
  <2> QED BY <2>2
<1>3. PICK m \in Nat : n = 8 * m
  BY DEF PtrBytes
<1>4. PICK q \in Int, r \in Int : n = UintMax * q + r /\ r = n % UintMax
  BY <1>1
<1>5. PICK z \in Int : z = k * q
  OBVIOUS
<1>6. UintMax * q = 8 * z
  BY <1>2, <1>4, <1>5
<1>7. r = 8 * (m - z)
  <2>1. n = 8 * z + r
    BY <1>4, <1>6
  <2> QED BY <1>3, <1>5, <2>1
<1>8. r % 8 = 0
  BY <1>5, <1>7
<1> QED BY <1>4, <1>8 DEF U32, PtrBytes

LEMMA AmountsStep ==
  ASSUME WholeWords, IInv, Laid, Amounts, [Pass]_vars
  PROVE  Amounts'
<1>1. Typed /\ IsSource(src) /\ IsMap(data) /\ IsMap(code) /\ IsMap(data.bytes)
  BY DEF IInv, Typed, Maps
<1>2. CASE SecondOp \/ SecondType \/ SecondJump \/ SecondCall \/ SecondVar
  <2>1. PICK op, val :
          op \in Op /\ Emit(op, val) /\ (op = "jmp" => /\ Key(Tok.arg) \in DOMAIN labels
                                                     /\ val = labels[Key(Tok.arg)] - (pc + Bytes["jmp"]))
    BY <1>1, <1>2, Emits
  <2>7. Emit(op, val) /\ (op = "jmp" => val \in Int)
    <3>1. pc \in Nat /\ Bytes["jmp"] \in Nat /\ \A k \in DOMAIN labels : labels[k] \in Nat
      BY <1>1, Sizes DEF Typed, TypeOK, Op
    <3> QED BY <2>1, <3>1
  <2>2. PICK r : r = [op |-> op, val |-> val, at |-> Size(active), pos |-> iter]
    OBVIOUS
  <2>3. code' = [code EXCEPT ![active] = Append(@, r)] /\ data' = data
    BY <2>2, <2>7 DEF Emit
  <2> SUFFICES ASSUME NEW f \in DOMAIN code', NEW k \in DOMAIN code'[f]
               PROVE  code'[f][k].at \in Nat /\ (code'[f][k].op = "jmp" => code'[f][k].val \in Int)
    BY <2>3 DEF Amounts
  <2>4. f \in DOMAIN code /\ (code'[f] = code[f] \/ (f = active /\ code'[f] = Append(code[f], r)))
    BY <1>1, <2>3 DEF IsMap
  <2>5. CASE f = active /\ code'[f] = Append(code[f], r)
    <3>1. IsList(code[f]) /\ \A j \in DOMAIN code[f] : code[f][j].op \in Op
      BY <2>4 DEF Laid, Follows
    <3>2. /\ DOMAIN code'[f] = 1 .. Len(code[f]) + 1 /\ code'[f][Len(code[f]) + 1] = r
          /\ \A j \in DOMAIN code[f] : code'[f][j] = code[f][j]
          /\ Len(code[f]) \in Nat /\ DOMAIN code[f] = 1 .. Len(code[f])
      BY <2>5, <3>1, AppendList DEF IsList
    <3>3. r.at \in Nat
      <4>1. CASE code[f] = << >>
        BY <2>2, <2>5, <4>1 DEF Size
      <4>2. CASE code[f] # << >>
        <5>1. Len(code[f]) \in DOMAIN code[f]
          BY <3>1, <3>2, <4>2 DEF IsList, IsMap
        <5>2. PICK l : l = code[f][Len(code[f])]
          OBVIOUS
        <5>3. l.at \in Nat /\ l.op \in Op
          BY <2>4, <3>1, <5>1, <5>2 DEF Amounts
        <5>4. Length(l.op) \in Nat
          BY <5>3, Lengths
        <5>5. r.at = l.at + Length(l.op)
          BY <2>2, <2>5, <4>2, <5>2 DEF Size
        <5> QED BY <5>3, <5>4, <5>5
      <4> QED BY <4>1, <4>2
    <3>4. k \in DOMAIN code[f] \/ k = Len(code[f]) + 1
      BY <3>2
    <3>5. r.op = "jmp" => r.val \in Int
      BY <2>2, <2>7
    <3> QED BY <2>4, <3>2, <3>3, <3>4, <3>5 DEF Amounts
  <2> QED BY <2>4, <2>5 DEF Amounts
<1>3. CASE Directive \/ FirstFunc
  <2>1. PICK g : code' = With(code, g, << >>) /\ data' = data
    BY <1>3 DEF Directive, FirstFunc, AddFunc
  <2>2. DOMAIN << >> = {}
    OBVIOUS
  <2>3. \A f \in DOMAIN code' : (f \in DOMAIN code /\ code'[f] = code[f]) \/ code'[f] = << >>
    BY <2>1 DEF With
  <2> QED BY <2>1, <2>2, <2>3 DEF Amounts
<1>4. CASE SizeDirective
  <2>1. iter \in DOMAIN src /\ Tok.t = "size" /\ Tok.num \in Nat /\ code' = code
    BY <1>1, <1>4 DEF SizeDirective, At, AtEnd, Tok, Typed, TypeOK, IsSource
  <2>2. Tok.which \in DOMAIN Unit
    BY <1>1, <2>1 DEF Tok, IsSource
  <2>3. data' = [data EXCEPT ![Tok.which] = U32(Tok.num * Unit[Tok.which])]
    BY <1>4 DEF SizeDirective
  <2>4. Tok.which # "heap" => U32(Tok.num * Unit[Tok.which]) % PtrBytes = 0
    <3>1. Tok.which # "heap" => Unit[Tok.which] = 8
      BY <2>2 DEF Unit, PtrBytes
    <3>2. (Tok.num * 8) \in Nat /\ (Tok.num * 8) % PtrBytes = 0
      BY <2>1 DEF PtrBytes
    <3> QED BY <3>1, <3>2, WordsWrap
  <2>5. /\ data'.bytes = data.bytes
        /\ data'.opstack = data.opstack \/ (Tok.which = "opstack" /\ data'.opstack = U32(Tok.num * Unit[Tok.which]))
        /\ data'.callstack = data.callstack
             \/ (Tok.which = "callstack" /\ data'.callstack = U32(Tok.num * Unit[Tok.which]))
    BY <1>1, <2>2, <2>3, Units DEF IsMap
  <2> QED BY <2>1, <2>4, <2>5 DEF Amounts
<1>5. CASE Global
  <2>1. /\ data'.bytes = With(data.bytes, Tok.name, Tok.bytes) /\ code' = code
        /\ data'.opstack = data.opstack /\ data'.callstack = data.callstack
    BY <1>1, <1>5 DEF Global, Typed, Maps, IsMap
  <2>2. Tok.bytes \in Nat
    BY <1>1, <1>5 DEF Global, At, AtEnd, Tok, Typed, TypeOK, IsSource
  <2>3. \A v \in DOMAIN data'.bytes : data'.bytes[v] \in Nat
    BY <2>1, <2>2 DEF With, Amounts
  <2> QED BY <2>1, <2>3 DEF Amounts
<1>6. CASE \/ FirstOp \/ FirstLabel \/ End \/ EndFirst \/ SkipDirective \/ SkipLabel \/ SecondFunc
           \/ Stops \/ SecondText \/ Write \/ UNCHANGED vars
  <2>1. code' = code /\ data' = data
    BY <1>6 DEF FirstOp, FirstLabel, End, EndFirst, SkipDirective, SkipLabel, SecondFunc, Stops,
                DirectiveError, GlobalOverfills, FirstError, NoFunction, SecondError, EndSecond,
                Stop, SecondText, Write, vars
  <2> QED BY <2>1 DEF Amounts
<1> QED BY <1>2, <1>3, <1>4, <1>5, <1>6 DEF Pass, Stops

LEMMA BodiesStep ==
  ASSUME IInv, IInv', JInv, Bodies, [Pass]_vars
  PROVE  Bodies'
<1>1. Typed /\ iter \in 1 .. Len(src) + 1 /\ Len(src) \in Nat /\ DOMAIN src = 1 .. Len(src)
  BY SourceLength DEF IInv, Typed
<1>2. src' = src /\ DOMAIN kind' = DOMAIN code' /\ DOMAIN kind = DOMAIN code /\ (\A i : Behind(i)' = Behind(i))
  BY SourceStays DEF IInv, Typed, TypeOK, Behind, StandsBehind
<1>3. CASE \/ Directive \/ SizeDirective \/ Global \/ FirstFunc \/ FirstOp \/ FirstLabel
           \/ End /\ pass = "first"
  <2>1. pass = "first" /\ pass' = "first" /\ ~AtEnd /\ (iter' = iter + 1 \/ (Tok.t = "op" /\ iter' = NextLine))
    BY <1>3 DEF Directive, SizeDirective, Global, FirstFunc, FirstOp, FirstLabel, End, At, Advance
  <2>2. \A f \in DOMAIN kind' : code'[f] = << >>
    BY <1>2, <2>1 DEF IInv, Live, Generated
  <2>3. ASSUME NEW f, IsCode(f) PROVE f \in DOMAIN kind' /\ kind'[f] = "code"
    BY <1>3, <2>3 DEF Directive, SizeDirective, Global, FirstFunc, FirstOp, FirstLabel, End, AddFunc,
                      With, IsCode
  <2>4. Tok.t = "func" => Tok.name \in DOMAIN kind' /\ kind'[Tok.name] = "code"
    <3>1. Tok.t = "func" => FirstFunc
      BY <1>3 DEF Directive, SizeDirective, Global, FirstOp, FirstLabel, End, At
    <3>2. FirstFunc => kind' = With(kind, Tok.name, "code") /\ Tok.name \notin DOMAIN kind
      BY DEF FirstFunc, AddFunc
    <3>3. ASSUME NEW g, kind' = With(kind, g, "code"), g \notin DOMAIN kind
          PROVE  g \in DOMAIN kind' /\ kind'[g] = "code"
      BY <3>3 DEF With
    <3> QED BY <3>1, <3>2, <3>3
  <2>5. ASSUME NEW i \in 1 .. iter' - 1, src[i].t = "func"
        PROVE  Behind(i) \/ (src[i].name \in DOMAIN kind' /\ kind'[src[i].name] = "code")
    <3>1. CASE i < iter
      <4>1. i \in 1 .. Seen - 1 /\ Live
        BY <1>1, <2>1, <3>1 DEF Seen, Live
      <4>2. Behind(i) \/ IsCode(src[i].name)
        BY <2>5, <4>1 DEF Bodies
      <4> QED BY <2>3, <4>2
    <3>2. CASE i = iter
      BY <2>4, <2>5, <3>2 DEF Tok
    <3>3. CASE i > iter
      <4>1. Tok.t \in {"op"} /\ i \in iter + 1 .. NextLine - 1
        BY <1>1, <2>1, <2>5, <3>3
      <4> QED BY <1>1, <2>1, <4>1, LeftOut DEF Behind
    <3> QED BY <1>1, <3>1, <3>2, <3>3
  <2> QED BY <1>2, <2>1, <2>2, <2>5 DEF Bodies, Seen, IsCode
<1>4. CASE EndFirst
  <2>1. /\ pass = "first" /\ pass' = "second" /\ iter = Len(src) + 1 /\ active' = NONE
        /\ UNCHANGED <<kind, code>>
    BY <1>1, <1>4 DEF EndFirst, AtEnd
  <2>2. Seen = Len(src) + 1 /\ Seen' = Len(src) + 1
    BY <1>2, <2>1 DEF Seen
  <2> QED BY <1>2, <2>1, <2>2 DEF Bodies, Live, IsCode
<1>5. ASSUME pass # "first", pass' # "first", Live, kind' = kind,
             pass' = "second" /\ active' # NONE => IsCode(active'),
             \A f \in DOMAIN kind : kind[f] # "code" => code'[f] = code[f]
      PROVE  Bodies'
  <2>1. Seen = Len(src) + 1 /\ Seen' = Len(src) + 1
    BY <1>2, <1>5 DEF Seen
  <2> QED BY <1>2, <1>5, <2>1 DEF Bodies, IsCode
<1>6. CASE SecondOp \/ SecondType \/ SecondJump \/ SecondCall \/ SecondVar
  <2>1. \E op \in Op : \E val : Emit(op, val)
    BY <1>1, <1>6, Emits
  <2>2. /\ pass = "second" /\ pass' = "second" /\ active # NONE /\ active' = active /\ kind' = kind
        /\ \A f \in DOMAIN code : f # active => code'[f] = code[f]
    BY <1>1, <1>6, <2>1, Emits DEF Emit, Typed, Maps, IsMap
  <2>3. Live /\ IsCode(active)
    BY <2>2 DEF Bodies, Live
  <2> QED BY <1>2, <1>5, <2>2, <2>3 DEF IsCode
<1>7. CASE SecondFunc
  <2>1. /\ pass = "second" /\ pass' = "second" /\ iter \in 1 .. Len(src) /\ src[iter].t = "func"
        /\ active = NONE /\ active' = src[iter].name /\ UNCHANGED <<kind, code>>
    BY <1>1, <1>7 DEF SecondFunc, At, AtEnd, Tok
  <2>2. ~Behind(iter)
    BY <1>1, <2>1 DEF JInv, Live, Orderly, Behind
  <2>3. iter \in 1 .. Seen - 1
    BY <1>1, <2>1 DEF Seen
  <2>4. Live /\ IsCode(active')
    BY <2>1, <2>2, <2>3 DEF Bodies, Live
  <2> QED BY <1>5, <2>1, <2>4
<1>8. CASE SkipDirective \/ SkipLabel \/ (End /\ pass = "second") \/ EndSecond \/ Write
  <2>1. /\ pass \in {"second", "write"} /\ pass' \in {"second", "write", "done"} /\ UNCHANGED <<kind, code>>
        /\ pass' = "second" => pass = "second" /\ active' \in {active, NONE}
    BY <1>8 DEF SkipDirective, SkipLabel, End, EndSecond, Stop, Write
  <2>2. Live /\ (pass' = "second" /\ active' # NONE => IsCode(active'))
    BY <2>1 DEF Bodies, Live
  <2> QED BY <1>5, <2>1, <2>2
<1>9. CASE End /\ pass \notin {"first", "second"}
  <2>1. pass' = pass /\ UNCHANGED <<kind, code>>
    BY <1>9 DEF End
  <2>2. Seen' = Seen
    BY <1>2, <1>9, <2>1 DEF Seen
  <2> QED BY <1>2, <1>9, <2>1, <2>2 DEF Bodies, Live, IsCode
<1>10. CASE DirectiveError \/ GlobalOverfills \/ FirstError \/ NoFunction \/ SecondError
  BY <1>10 DEF DirectiveError, GlobalOverfills, FirstError, NoFunction, SecondError, Stop, Live, Bodies
<1>11. CASE SecondText \/ UNCHANGED vars
  <2>1. UNCHANGED vars
    BY <1>11 DEF SecondText
  <2> QED BY <1>2, <2>1 DEF vars, Bodies, Live, Seen, IsCode
<1> QED BY <1>3, <1>4, <1>6, <1>7, <1>8, <1>9, <1>10, <1>11 DEF Pass

\* A list has at least as many places as elements.
LEMMA CountList ==
  ASSUME NEW q, IsList(q) PROVE Cardinality(ToSet(q)) \in Nat /\ Cardinality(ToSet(q)) <= Len(q)
<1>1. Len(q) \in Nat /\ 1 \in Int /\ Len(q) \in Int
  BY DEF IsList
<1>2. IsFiniteSet(1 .. Len(q)) /\ Cardinality(1 .. Len(q)) = IF 1 > Len(q) THEN 0 ELSE Len(q) - 1 + 1
  BY <1>1, FS_Interval, Zenon
<1> DEFINE b == [i \in 1 .. Len(q) |-> q[i]]
<1>3. b \in Surjection(1 .. Len(q), ToSet(q))
  BY DEF IsList, ToSet, Surjection
<1> HIDE DEF b
<1>4. IsFiniteSet(ToSet(q)) /\ Cardinality(ToSet(q)) <= Cardinality(1 .. Len(q))
  BY <1>2, <1>3, FS_Surjection, Zenon
<1>5. Cardinality(ToSet(q)) \in Nat
  BY <1>4, FS_CardinalityType
<1> QED BY <1>1, <1>2, <1>4, <1>5

\* What the entry for a function or variable is made of.
LEMMA HandedItems ==
  ASSUME CharsCounted, IInv, Laid, Amounts, Bodies, Handover
  PROVE  /\ IsItems(script'.funcs) /\ IsItems(script'.vars)
         /\ \A i \in DOMAIN script'.vars : script'.vars[i].flags = 0
<1>1. Typed /\ pass = "done" /\ Live /\ Written /\ IsList(vec) /\ IsList(data.vars)
  BY VecList DEF IInv, Typed, Maps, Handover, Live
<1>2. PICK n \in Nat, m \in Nat : n = Cardinality(DOMAIN kind) /\ m = Cardinality(DOMAIN data.bytes)
  BY <1>1, CountList DEF Typed, TypeOK
<1>3. /\ file.funcs = [i \in 1 .. n |-> [name |-> vec[i], kind |-> kind[vec[i]], code |-> code[vec[i]]]]
      /\ file.vars = [i \in 1 .. m |-> [name |-> data.vars[i], bytes |-> data.bytes[data.vars[i]]]]
  BY <1>1, <1>2 DEF Written
<1>4. ASSUME NEW i \in 1 .. n PROVE vec[i] \in DOMAIN kind
  <2>1. n <= Len(vec) /\ DOMAIN kind = ToSet(vec)
    BY <1>1, <1>2, CountList DEF Typed, TypeOK
  <2>2. i \in DOMAIN vec
    BY <1>1, <1>2, <2>1 DEF IsList
  <2> QED BY <2>1, <2>2 DEF ToSet
<1>5. ASSUME NEW i \in 1 .. m PROVE data.vars[i] \in DOMAIN data.bytes
  <2>1. m <= Len(data.vars) /\ DOMAIN data.bytes = ToSet(data.vars)
    BY <1>1, <1>2, CountList DEF Typed, TypeOK
  <2>2. i \in DOMAIN data.vars
    BY <1>1, <1>2, <2>1 DEF IsList
  <2> QED BY <2>1, <2>2 DEF ToSet
<1>6. ASSUME NEW f \in DOMAIN kind
      PROVE  /\ Size(f) \in Nat /\ FlagOf[kind[f]] \in {0, NATIVE, EXTERN}
             /\ FlagOf[kind[f]] # 0 => Size(f) = 0
  <2>1. kind[f] \in {"code", "native", "extern"} /\ f \in DOMAIN code
    BY <1>1 DEF Typed, TypeOK
  <2>2. FlagOf[kind[f]] \in {0, NATIVE, EXTERN} /\ (FlagOf[kind[f]] # 0 => kind[f] # "code")
    BY <2>1 DEF FlagOf, NATIVE, EXTERN
  <2>3. kind[f] # "code" => Size(f) = 0
    BY <1>1 DEF Bodies, Size
  <2>4. Size(f) \in Nat
    <3>1. CASE code[f] = << >>
      BY <3>1 DEF Size
    <3>2. CASE code[f] # << >>
      <4>1. IsList(code[f]) /\ \A j \in DOMAIN code[f] : code[f][j].op \in Op
        BY <2>1 DEF Laid, Follows
      <4>2. Len(code[f]) \in DOMAIN code[f]
        BY <3>2, <4>1 DEF IsList, IsMap
      <4>3. PICK l : l = code[f][Len(code[f])]
        OBVIOUS
      <4>4. l.at \in Nat /\ l.op \in Op
        BY <2>1, <4>1, <4>2, <4>3 DEF Amounts
      <4>5. Length(l.op) \in Nat
        BY <4>4, Lengths
      <4>6. Size(f) = l.at + Length(l.op)
        BY <3>2, <4>3 DEF Size
      <4> QED BY <4>4, <4>5, <4>6
    <3> QED BY <3>1, <3>2
  <2> QED BY <2>2, <2>3, <2>4
<1>7. /\ DOMAIN script'.funcs = 1 .. n /\ script'.funcs = [i \in 1 .. n |-> script'.funcs[i]]
      /\ DOMAIN script'.vars = 1 .. m /\ script'.vars = [i \in 1 .. m |-> script'.vars[i]]
  <2>1. DOMAIN file.funcs = 1 .. n /\ DOMAIN file.vars = 1 .. m
    BY <1>3
  <2> QED BY <2>1 DEF Handover, Assembled
<1>8. ASSUME NEW i \in 1 .. n
      PROVE  /\ script'.funcs[i].chars = Chars(vec[i]) /\ script'.funcs[i].bytes = Size(vec[i])
             /\ script'.funcs[i].flags = FlagOf[kind[vec[i]]]
  <2>1. i \in DOMAIN file.funcs /\ file.funcs[i].name = vec[i] /\ file.funcs[i].kind = kind[vec[i]]
    BY <1>3
  <2> QED BY <2>1 DEF Handover, Assembled
<1>9. ASSUME NEW i \in 1 .. m
      PROVE  /\ script'.vars[i].chars = Chars(data.vars[i]) /\ script'.vars[i].flags = 0
             /\ script'.vars[i].bytes = data.bytes[data.vars[i]]
  <2>1. /\ i \in DOMAIN file.vars /\ file.vars[i].name = data.vars[i]
        /\ file.vars[i].bytes = data.bytes[data.vars[i]]
    BY <1>3
  <2> QED BY <2>1 DEF Handover, Assembled
<1>10. ASSUME NEW i \in 1 .. n PROVE IsItem(script'.funcs[i])
  <2>1. PICK f \in DOMAIN kind : f = vec[i]
    BY <1>4
  <2>2. Chars(f) \in Nat \ {0}
    BY DEF CharsCounted
  <2> QED BY <1>6, <1>8, <2>1, <2>2 DEF IsItem
<1>11. ASSUME NEW i \in 1 .. m PROVE IsItem(script'.vars[i])
  <2>1. Chars(data.vars[i]) \in Nat \ {0} /\ data.bytes[data.vars[i]] \in Nat
    BY <1>5 DEF CharsCounted, Amounts
  <2> QED BY <1>9, <2>1 DEF IsItem
<1>12. ASSUME NEW q, NEW l \in Nat, DOMAIN q = 1 .. l, q = [i \in 1 .. l |-> q[i]]
       PROVE  q \in Seq({q[i] : i \in DOMAIN q})
  <2> DEFINE S == {q[i] : i \in DOMAIN q}
  <2>1. \A i \in 1 .. l : q[i] \in S
    BY <1>12
  <2> HIDE DEF S
  <2>2. q \in [1 .. l -> S]
    BY <1>12, <2>1
  <2>3. q \in Seq(S)
    BY <1>12, <2>2
  <2> QED BY <2>3 DEF S
<1> QED BY <1>2, <1>7, <1>9, <1>10, <1>11, <1>12, SMTT(30) DEF IsItems

\* What a generator begins with.
Fresh == hdr = NoHeader /\ funcs = NoBuffer /\ globals = NoBuffer /\ module = NoModule

\* What the assembler hands over is a script, from which the generator can begin.
LEMMA Handed ==
  ASSUME CharsCounted, IInv, Laid, Amounts, Bodies, Fresh, Handover
  PROVE  FileInv' /\ Filling' /\ Walking'
<1>1. /\ script'.opstack = data.opstack /\ script'.callstack = data.callstack
      /\ script'.heap = data.heap /\ stage' = "header"
      /\ UNCHANGED <<hdr, funcs, globals, image, cur, todo, module, names, listing>>
  BY DEF Handover, Assembled
<1>2. Fresh'
  BY <1>1 DEF Fresh
<1>3. /\ data.opstack \in 0 .. UintMax - 1 /\ data.callstack \in 0 .. UintMax - 1
      /\ data.heap \in 0 .. UintMax - 1
  BY Units DEF IInv, Typed, TypeOK
<1>4. IsScript(script')
  BY <1>1, <1>3, HandedItems DEF IsScript, Amounts
<1>5. FileInv'
  BY <1>1, <1>2, <1>4
     DEF Fresh, FileInv, NoHeader, NoBuffer, Header, Writing, Loading, Listing
<1>6. Filling'
  BY <1>1, <1>2 DEF Fresh, Filling, NoHeader, NoBuffer, Writing, Chained, IsSeq
<1>7. Walking'
  BY <1>1 DEF Walking, Listing
<1> QED BY <1>5, <1>6, <1>7

\* The inductive invariant of a round of the tools.
RoundInv ==
  /\ IInv /\ JInv /\ Laid /\ Recorded /\ Amounts /\ Bodies
  /\ KeysFit => VInv
  /\ pass \in {"write", "done"} => AtEnd
  /\ stage = "waiting" => Fresh
  /\ stage # "waiting" => FileInv /\ Filling /\ Walking /\ pass = "done" /\ script = Assembled
  /\ stage \notin Writing => funcs = NoBuffer /\ globals = NoBuffer

\* The assembler's part of it.
LEMMA AssembleRound ==
  ASSUME WholeWords, RoundInv, [Pass]_vars
  PROVE  (/\ IInv /\ JInv /\ Laid /\ Recorded /\ Amounts /\ Bodies /\ (KeysFit => VInv)
          /\ pass \in {"write", "done"} => AtEnd)'
<1>1. /\ IInv /\ JInv /\ Laid /\ Recorded /\ Amounts /\ Bodies /\ (KeysFit => VInv) /\ Typed
      /\ pass \in {"write", "done"} => AtEnd
  BY DEF RoundInv, IInv
<1>2. IInv' /\ JInv' /\ Laid' /\ Recorded'
  BY <1>1, StepIInv, StepJInv, LaidStep, StepRecorded
<1>3. Amounts' /\ Bodies'
  BY <1>1, <1>2, AmountsStep, BodiesStep
<1>4. KeysFit' = KeysFit
  BY SourceStays DEF KeysFit, KeysApart
<1>5. KeysFit => VInv'
  BY <1>1, StepVInv
<1>6. (pass \in {"write", "done"} => AtEnd)'
  <2>1. /\ iter \in 1 .. Len(src) + 1 /\ Len(src) \in Nat
        /\ End \/ UNCHANGED vars \/ pass' \notin {"write", "done"} \/ EndSecond \/ Write
    BY <1>1, SourceLength
       DEF Pass, Directive, SizeDirective, Global, DirectiveError, GlobalOverfills, FirstFunc,
           FirstOp, FirstLabel, FirstError, NoFunction, EndFirst, SkipDirective, SkipLabel, SecondFunc,
           SecondOp, SecondType, SecondJump, SecondCall, SecondVar, Emit, SecondError, SecondText, Stop
  <2> QED BY <1>1, <2>1 DEF End, vars, EndSecond, Write, Stop, AtEnd, At
<1> QED BY <1>2, <1>3, <1>4, <1>5, <1>6

\* An assembler that is done does no more.
LEMMA NoPass == ASSUME pass = "done", AtEnd PROVE ~Pass
BY DEF Pass, Directive, SizeDirective, Global, DirectiveError, GlobalOverfills, FirstFunc, FirstOp,
       FirstLabel, FirstError, NoFunction, EndFirst, SkipDirective, SkipLabel, SecondFunc, SecondOp, SecondType,
       SecondJump, SecondCall, SecondVar, SecondError, SecondText, EndSecond, End, Write, At

\* The script stays, and the generator leaves its buffers empty.
LEMMA FileKeeps ==
  ASSUME FileNext
  PROVE  /\ script' = script
         /\ \/ stage \in Writing /\ stage' \in Writing
            \/ stage' \notin Writing /\ funcs' = NoBuffer /\ globals' = NoBuffer
            \/ stage \notin Writing /\ stage' \notin Writing /\ UNCHANGED <<funcs, globals>>
<1>1. CASE Generate
  BY <1>1 DEF Generate, WriteHeader, WriteFunc, WriteVar, Finalize, Writing
<1>2. CASE LoadFile
  BY <1>2 DEF LoadFile, SetupMemory, SetupFuncTable, ReadFunc, SetupVarTable, ReadVar, EndLoad, SetupTable, Writing
<1>3. CASE Disassemble
  BY <1>3 DEF Disassemble, StartNames, ReadName, StartListing, ListFunc, ListFault, ListVar, EndListing, Writing
<1> QED BY <1>1, <1>2, <1>3 DEF FileNext

\* Every step but that from the listing to the next source.
LEMMA RoundStep ==
  ASSUME CharsCounted, WholeWords, RoundInv, Assemble \/ Handover \/ UseFile \/ ToolsEnd \/ UNCHANGED tvars
  PROVE  RoundInv'
<1>1. ASSUME [Pass]_vars,
             stage' = "waiting" => Fresh',
             stage' # "waiting" => FileInv' /\ Filling' /\ Walking' /\ pass' = "done" /\ script' = Assembled',
             stage' \notin Writing => funcs' = NoBuffer /\ globals' = NoBuffer
      PROVE  RoundInv'
  <2>1. (/\ IInv /\ JInv /\ Laid /\ Recorded /\ Amounts /\ Bodies /\ (KeysFit => VInv)
         /\ pass \in {"write", "done"} => AtEnd)'
    BY <1>1, AssembleRound
  <2> QED BY <1>1, <2>1 DEF RoundInv
<1>2. CASE Assemble
  <2>1. stage = "waiting"
    BY <1>2, NoPass DEF Assemble, RoundInv
  <2>2. [Pass]_vars /\ stage' = stage /\ UNCHANGED <<hdr, funcs, globals, module>>
    BY <1>2 DEF Assemble, mvars
  <2>3. Fresh' /\ funcs' = NoBuffer /\ globals' = NoBuffer
    BY <2>1, <2>2 DEF RoundInv, Fresh
  <2> QED BY <1>1, <2>1, <2>2, <2>3
<1>3. CASE Handover
  <2>1. UNCHANGED vars /\ stage = "waiting" /\ stage' = "header" /\ pass = "done" /\ script' = Assembled
    BY <1>3 DEF Handover, vars
  <2>2. FileInv' /\ Filling' /\ Walking'
    BY <1>3, <2>1, Handed DEF RoundInv
  <2>3. Assembled' = Assembled /\ pass' = pass
    BY <2>1 DEF vars, Assembled, Size
  <2> QED BY <1>1, <2>1, <2>2, <2>3 DEF Writing
<1>4. CASE UseFile
  <2>1. UNCHANGED vars /\ stage # "waiting" /\ FileNext
    BY <1>4 DEF UseFile, vars
  <2>2. FileInv' /\ Filling' /\ Walking'
    BY <2>1, FileStep, FillingStep, WalkingStep DEF RoundInv
  <2>3. stage' # "waiting"
    BY <2>2 DEF FileInv, Writing, Loading, Listing
  <2>4. Assembled' = Assembled /\ pass' = pass
    BY <2>1 DEF vars, Assembled, Size
  <2>5. script' = script /\ (stage' \notin Writing => funcs' = NoBuffer /\ globals' = NoBuffer)
    BY <2>1, FileKeeps DEF RoundInv
  <2> QED BY <1>1, <2>1, <2>2, <2>3, <2>4, <2>5 DEF RoundInv
<1>5. CASE ToolsEnd \/ UNCHANGED tvars
  <2>1. UNCHANGED vars /\ UNCHANGED mvars
    BY <1>5 DEF ToolsEnd, tvars, mvars, vars
  <2>2. UNCHANGED <<stage, script, hdr, funcs, globals, module>>
    BY <2>1 DEF mvars
  <2>3. stage # "waiting" => FileInv' /\ Filling' /\ Walking'
    BY <2>1, FileStep, FillingStep, WalkingStep DEF RoundInv
  <2>4. Assembled' = Assembled /\ pass' = pass
    BY <2>1 DEF vars, Assembled, Size
  <2>5. stage = "waiting" => Fresh'
    BY <2>2 DEF RoundInv, Fresh
  <2> QED BY <1>1, <2>1, <2>2, <2>3, <2>4, <2>5 DEF RoundInv
<1> QED BY <1>2, <1>3, <1>4, <1>5

----------------------------------------------------------------------------
(* The listing as a source.                                                *)

\* g[i] is the sequences q[1] to q[i] one after another, for i up to n.
Appended(q, n, g) == g = [i \in 1 .. n |-> IF i = 1 THEN q[i] ELSE g[i - 1] \o q[i]]

LEMMA AppendedExists == ASSUME NEW q, NEW n \in Nat PROVE \E g : Appended(q, n, g)
<1> DEFINE Bad == {m \in Nat : ~\E g : Appended(q, m, g)}
<1> SUFFICES ASSUME Bad # {} PROVE FALSE
  OBVIOUS
<1>1. PICK m \in Bad : \A l \in Bad : m <= l
  BY Least
<1>2. m # 0
  <2>1. Appended(q, 0, [i \in 1 .. 0 |-> 0])
    BY DEF Appended
  <2> QED BY <1>1, <2>1
<1>3. m - 1 \in Nat /\ m - 1 \notin Bad /\ m \in Nat /\ m >= 1
  BY <1>1, <1>2
<1>4. PICK g : Appended(q, m - 1, g)
  BY <1>3
<1> DEFINE h == [i \in 1 .. m |-> IF i = m THEN IF m = 1 THEN q[m] ELSE g[m - 1] \o q[m] ELSE g[i]]
<1>5. ASSUME NEW i \in 1 .. m PROVE h[i] = IF i = 1 THEN q[i] ELSE h[i - 1] \o q[i]
  <2>1. CASE i = m
    BY <1>3, <2>1
  <2>2. CASE i # m
    <3>1. i \in 1 .. m - 1 /\ h[i] = g[i] /\ (i # 1 => i - 1 \in 1 .. m /\ i - 1 # m /\ h[i - 1] = g[i - 1])
      BY <1>3, <2>2
    <3> QED BY <1>4, <3>1 DEF Appended
  <2> QED BY <2>1, <2>2
<1>6. h = [i \in 1 .. m |-> h[i]]
  OBVIOUS
<1> HIDE DEF h
<1>7. Appended(q, m, h)
  BY <1>5, <1>6 DEF Appended
<1> QED BY <1>1, <1>7

LEMMA FlattenLast ==
  ASSUME NEW q, NEW n \in Nat, Len(q) = n
  PROVE  \E g : /\ Appended(q, n, g)
                /\ n = 0 => FlattenSeq(q) = q
                /\ n # 0 => FlattenSeq(q) = g[n]
<1> DEFINE c == CHOOSE g : g = [i \in 1 .. Len(q) |-> IF i = 1 THEN q[i] ELSE g[i - 1] \o q[i]]
<1>1. c = [i \in 1 .. Len(q) |-> IF i = 1 THEN q[i] ELSE c[i - 1] \o q[i]]
  BY AppendedExists, Zenon DEF Appended
<1>2. n # 0 => FlattenSeq(q) = c[Len(q)]
  BY Zenon DEF FlattenSeq
<1>3. n = 0 => FlattenSeq(q) = q
  BY DEF FlattenSeq
<1> HIDE DEF c
<1> QED BY <1>1, <1>2, <1>3, Zenon DEF Appended

\* h consists of the first n sequences of q, of lengths l, of which number i begins behind o[i].
Pieces(h, q, n, l, m, o) ==
  /\ IsSeq(h, m) /\ o \in [1 .. n -> Nat]
  /\ \A i \in 1 .. n : o[i] + l[i] <= m /\ \A k \in 1 .. l[i] : h[o[i] + k] = q[i][k]
  /\ \A p \in 1 .. m : \E i \in 1 .. n : p - o[i] \in 1 .. l[i]

LEMMA Flattened ==
  ASSUME NEW q, NEW n \in Nat, IsSeq(q, n), NEW l \in [1 .. n -> Nat],
         \A i \in 1 .. n : IsSeq(q[i], l[i])
  PROVE  \E m, o : Pieces(FlattenSeq(q), q, n, l, m, o)
<1>1. Len(q) = n
  BY DEF IsSeq
<1>2. PICK g : /\ Appended(q, n, g)
               /\ n = 0 => FlattenSeq(q) = q
               /\ n # 0 => FlattenSeq(q) = g[n]
  BY <1>1, FlattenLast
<1>3. CASE n = 0
  <2>1. Pieces(q, q, 0, l, 0, [i \in 1 .. 0 |-> 0])
    BY <1>3 DEF Pieces, IsSeq
  <2> QED BY <1>2, <1>3, <2>1
<1>4. CASE n # 0
  <2> DEFINE Bad == {i \in 1 .. n : ~\E m, o : Pieces(g[i], q, i, l, m, o)}
  <2>1. Bad = {}
    <3> SUFFICES ASSUME Bad # {} PROVE FALSE
      OBVIOUS
    <3>1. PICK i \in Bad : \A j \in Bad : i <= j
      <4>1. Bad \in SUBSET Nat
        OBVIOUS
      <4> HIDE DEF Bad
      <4> QED BY <4>1, Least
    <3>2. i \in 1 .. n /\ IsSeq(q[i], l[i]) /\ l[i] \in Nat
      BY <3>1
    <3>3. CASE i = 1
      <4>1. g[1] = q[1]
        BY <1>2, <3>2, <3>3 DEF Appended
      <4>2. Pieces(g[1], q, 1, l, l[1], [j \in 1 .. 1 |-> 0])
        BY <3>2, <3>3, <4>1 DEF Pieces
      <4> QED BY <3>1, <3>3, <4>2
    <3>4. CASE i # 1
      <4>1. i - 1 \in 1 .. n /\ i - 1 \notin Bad /\ i - 1 \in Nat /\ i \in Nat
        BY <3>1, <3>2, <3>4
      <4>2. PICK m, o : Pieces(g[i - 1], q, i - 1, l, m, o)
        BY <4>1
      <4>3. IsSeq(g[i - 1], m) /\ m \in Nat
        BY <4>2 DEF Pieces, IsSeq
      <4>4. g[i] = g[i - 1] \o q[i]
        BY <1>2, <3>2, <3>4 DEF Appended
      <4>5. Joined(g[i - 1], m, q[i], l[i], g[i])
        BY <3>2, <4>3, <4>4, ConcatAny
      <4> DEFINE r == [j \in 1 .. i |-> IF j = i THEN m ELSE o[j]]
      <4>6. r \in [1 .. i -> Nat] /\ r[i] = m /\ \A j \in 1 .. i - 1 : r[j] = o[j] /\ o[j] \in Nat
        BY <4>1, <4>2, <4>3, SMTT(30) DEF Pieces
      <4> HIDE DEF r
      <4>7. ASSUME NEW j \in 1 .. i
            PROVE  r[j] + l[j] <= m + l[i] /\ \A k \in 1 .. l[j] : g[i][r[j] + k] = q[j][k]
        <5>1. CASE j = i
          BY <3>2, <4>3, <4>5, <4>6, <5>1 DEF Joined
        <5>2. CASE j # i
          <6>1. j \in 1 .. i - 1 /\ j \in 1 .. n /\ r[j] = o[j] /\ o[j] \in Nat /\ l[j] \in Nat
            BY <3>2, <4>1, <4>6, <5>2
          <6>2. o[j] + l[j] <= m /\ \A k \in 1 .. l[j] : g[i - 1][o[j] + k] = q[j][k]
            BY <4>2, <6>1 DEF Pieces
          <6>3. \A k \in 1 .. l[j] : o[j] + k \in 1 .. m
            BY <4>3, <6>1, <6>2
          <6>4. \A k \in 1 .. l[j] : g[i][o[j] + k] = q[j][k]
            BY <4>5, <6>2, <6>3 DEF Joined
          <6> QED BY <3>2, <4>3, <6>1, <6>2, <6>4
        <5> QED BY <5>1, <5>2
      <4>8. ASSUME NEW p \in 1 .. m + l[i] PROVE \E j \in 1 .. i : p - r[j] \in 1 .. l[j]
        <5>1. CASE p \in 1 .. m
          <6>1. PICK j \in 1 .. i - 1 : p - o[j] \in 1 .. l[j]
            BY <4>2, <5>1 DEF Pieces
          <6> QED BY <4>1, <4>6, <6>1
        <5>2. CASE p \notin 1 .. m
          <6>1. p - m \in 1 .. l[i] /\ i \in 1 .. i
            BY <3>2, <4>1, <4>3, <5>2
          <6> QED BY <4>6, <6>1
        <5> QED BY <5>1, <5>2
      <4>9. Pieces(g[i], q, i, l, m + l[i], r)
        BY <4>5, <4>6, <4>7, <4>8 DEF Pieces, Joined
      <4> QED BY <3>1, <4>9
    <3> QED BY <3>3, <3>4
  <2>2. n \in 1 .. n
    BY <1>4
  <2> QED BY <1>2, <1>4, <2>1, <2>2
<1> QED BY <1>3, <1>4

\* The row of function f in the module that is made of the source.
RowOf(r, f) ==
  /\ f \in DOMAIN kind /\ r.key = f /\ r.flags = FlagOf[kind[f]]
  /\ r.bytes = IF r.flags # 0 THEN 8 ELSE Padded(Size(f))
  /\ IsSeq(r.body, Len(code[f]))
  /\ \A k \in 1 .. Len(code[f]) : r.body[k] = [op |-> code[f][k].op, val |-> code[f][k].val]
VarRowOf(r, v) == v \in DOMAIN data.bytes /\ r.key = v /\ r.bytes = Padded(data.bytes[v])

\* What is in memory is what the assembler has collected.
LEMMA Rows ==
  ASSUME RoundInv, stage \in Listing
  PROVE  /\ nf = Cardinality(DOMAIN kind) /\ nf \in Nat /\ nf <= Len(vec)
         /\ nv = Cardinality(DOMAIN data.bytes) /\ nv \in Nat /\ nv <= Len(data.vars)
         /\ IsSeq(module.funcs, nf) /\ \A i \in 1 .. nf : RowOf(module.funcs[i], vec[i])
         /\ IsSeq(module.vars, nv) /\ \A i \in 1 .. nv : VarRowOf(module.vars[i], data.vars[i])
         /\ hdr.opstack = Sized(data.opstack) /\ hdr.callstack = Sized(data.callstack)
         /\ hdr.heap = U32(Sized(data.heap) + HeapAdded(nf, nv))
<1>1. /\ IInv /\ Typed /\ pass = "done" /\ Live /\ Written /\ IsList(vec) /\ IsList(data.vars)
      /\ script = Assembled /\ FileInv /\ Filling /\ Walking /\ stage \notin Writing /\ stage # "waiting" /\ Laid
  BY VecList DEF RoundInv, IInv, Typed, Maps, Listing, Writing, Live
<1>2. PICK n \in Nat, m \in Nat : n = Cardinality(DOMAIN kind) /\ m = Cardinality(DOMAIN data.bytes)
  BY <1>1, CountList DEF Typed, TypeOK
<1>3. /\ file.funcs = [i \in 1 .. n |-> [name |-> vec[i], kind |-> kind[vec[i]], code |-> code[vec[i]]]]
      /\ file.vars = [i \in 1 .. m |-> [name |-> data.vars[i], bytes |-> data.bytes[data.vars[i]]]]
  BY <1>1, <1>2 DEF Written
<1>4. /\ n <= Len(vec) /\ DOMAIN kind = ToSet(vec) /\ DOMAIN code = DOMAIN kind
      /\ m <= Len(data.vars) /\ DOMAIN data.bytes = ToSet(data.vars)
  BY <1>1, <1>2, CountList DEF Typed, TypeOK
<1>5. /\ \A i \in 1 .. n : vec[i] \in DOMAIN kind
      /\ \A i \in 1 .. m : data.vars[i] \in DOMAIN data.bytes
  <2>1. (\A i \in 1 .. n : i \in DOMAIN vec) /\ (\A i \in 1 .. m : i \in DOMAIN data.vars)
    BY <1>1, <1>2, <1>4 DEF IsList
  <2> QED BY <1>4, <2>1 DEF ToSet
<1>6. /\ DOMAIN script.funcs = 1 .. n /\ script.funcs = [i \in 1 .. n |-> script.funcs[i]]
      /\ DOMAIN script.vars = 1 .. m /\ script.vars = [i \in 1 .. m |-> script.vars[i]]
  <2>1. DOMAIN file.funcs = 1 .. n /\ DOMAIN file.vars = 1 .. m
    BY <1>3
  <2> QED BY <1>1, <2>1 DEF Assembled
<1>7. nf = n /\ nv = m /\ IsScript(script)
  <2>1. IsSeq(script.funcs, n) /\ IsSeq(script.vars, m)
    BY <1>2, <1>6 DEF IsSeq
  <2>2. \A q : IsSeq(q, n) => Len(q) = n
    BY <1>2 DEF IsSeq
  <2>3. \A q : IsSeq(q, m) => Len(q) = m
    BY <1>2 DEF IsSeq
  <2> QED BY <1>1, <2>1, <2>2, <2>3 DEF nf, nv, FileInv
<1>8. /\ FuncRows(nf) /\ VarRows(nv) /\ Filed
  BY <1>1 DEF Walking, Filling
<1>9. /\ IsSeq(module.funcs, n) /\ \A i \in 1 .. n : module.funcs[i] = FuncRow(image[i])
      /\ IsSeq(module.vars, m) /\ \A i \in 1 .. m : module.vars[i] = VarRow(image[n + i])
  BY <1>7, <1>8 DEF FuncRows, VarRows
<1>10. /\ \A i \in 1 .. n : image[i] = EntryOf(script.funcs[i], image[i].at)
       /\ \A i \in 1 .. m : image[n + i] = EntryOf(script.vars[i], image[n + i].at)
  <2>1. \A i \in 1 .. n + m : image[i] = EntryOf(ItemAt(i), image[i].at)
    BY <1>7, <1>8 DEF Filed, FiledAs
  <2>2. \A i \in 1 .. n : i \in 1 .. n + m /\ ItemAt(i) = script.funcs[i]
    BY <1>2, <1>7 DEF ItemAt
  <2>3. \A i \in 1 .. m : n + i \in 1 .. n + m /\ ItemAt(n + i) = script.vars[i]
    BY <1>2, <1>7 DEF ItemAt
  <2> QED BY <2>1, <2>2, <2>3
<1>11. ASSUME NEW i \in 1 .. n PROVE RowOf(module.funcs[i], vec[i])
  <2>1. PICK f \in DOMAIN kind : f = vec[i]
    BY <1>5
  <2>2. i \in DOMAIN file.funcs /\ file.funcs[i] = [name |-> f, kind |-> kind[f], code |-> code[f]]
    BY <1>3, <2>1
  <2>3. PICK t : t = script.funcs[i]
    OBVIOUS
  <2>4. /\ t.name = f /\ t.flags = FlagOf[kind[f]] /\ t.bytes = Size(f)
        /\ t.body = [k \in DOMAIN code[f] |-> [op |-> code[f][k].op, val |-> code[f][k].val]]
    <3>1. t = [name |-> f, chars |-> Chars(f), flags |-> FlagOf[kind[f]], bytes |-> Size(f),
               body |-> [k \in DOMAIN code[f] |-> [op |-> code[f][k].op, val |-> code[f][k].val]]]
      <4>1. PICK g : g = file.funcs[i]
        OBVIOUS
      <4>2. t = [name |-> g.name, chars |-> Chars(g.name), flags |-> FlagOf[g.kind], bytes |-> Size(g.name),
                 body |-> [k \in DOMAIN g.code |-> [op |-> g.code[k].op, val |-> g.code[k].val]]]
        BY <1>1, <2>2, <2>3, <4>1 DEF Assembled
      <4>3. g.name = f /\ g.kind = kind[f] /\ g.code = code[f]
        BY <2>2, <4>1
      <4> QED BY <4>2, <4>3
    <3> QED BY <3>1
  <2>5. IsList(code[f]) /\ Len(code[f]) \in Nat /\ DOMAIN code[f] = 1 .. Len(code[f])
    BY <1>1, <1>4 DEF Laid, Follows, IsList
  <2>6. /\ IsSeq(t.body, Len(code[f]))
        /\ \A k \in 1 .. Len(code[f]) : t.body[k] = [op |-> code[f][k].op, val |-> code[f][k].val]
    BY <2>4, <2>5 DEF IsSeq
  <2>7. PICK r : r = module.funcs[i]
    OBVIOUS
  <2>8. /\ r.key = t.name /\ r.flags = t.flags /\ r.body = t.body
        /\ r.bytes = IF t.flags # 0 THEN 8 ELSE Padded(t.bytes)
    <3>1. PICK e, a : e = image[i] /\ a = e.at
      OBVIOUS
    <3>2. e = EntryOf(t, a) /\ r = FuncRow(e)
      BY <1>9, <1>10, <2>3, <2>7, <3>1
    <3>3. /\ e.name = t.name /\ e.flags = t.flags /\ e.body = t.body
          /\ e.data_len = IF t.flags # 0 THEN 8 ELSE Padded(t.bytes)
      BY <3>2 DEF EntryOf
    <3> QED BY <3>2, <3>3 DEF FuncRow, Row
  <2> QED BY <2>1, <2>4, <2>6, <2>7, <2>8 DEF RowOf
<1>12. ASSUME NEW i \in 1 .. m PROVE VarRowOf(module.vars[i], data.vars[i])
  <2>1. PICK v \in DOMAIN data.bytes : v = data.vars[i]
    BY <1>5
  <2>2. i \in DOMAIN file.vars /\ file.vars[i] = [name |-> v, bytes |-> data.bytes[v]]
    BY <1>3, <2>1
  <2>3. PICK t : t = script.vars[i]
    OBVIOUS
  <2>4. t.name = v /\ t.flags = 0 /\ t.bytes = data.bytes[v]
    BY <1>1, <2>2, <2>3 DEF Assembled
  <2>5. PICK r : r = module.vars[i]
    OBVIOUS
  <2>6. r.key = t.name /\ r.bytes = IF t.flags # 0 THEN 8 ELSE Padded(t.bytes)
    <3>1. PICK e, a : e = image[n + i] /\ a = e.at
      OBVIOUS
    <3>2. e = EntryOf(t, a) /\ r = VarRow(e)
      BY <1>9, <1>10, <2>3, <2>5, <3>1
    <3>3. e.name = t.name /\ e.data_len = IF t.flags # 0 THEN 8 ELSE Padded(t.bytes)
      BY <3>2 DEF EntryOf
    <3> QED BY <3>2, <3>3 DEF VarRow, Row
  <2> QED BY <2>1, <2>4, <2>5, <2>6 DEF VarRowOf
<1>13. /\ hdr.opstack = Sized(data.opstack) /\ hdr.callstack = Sized(data.callstack)
       /\ hdr.heap = U32(Sized(data.heap) + HeapAdded(nf, nv))
  <2>1. script.opstack = data.opstack /\ script.callstack = data.callstack /\ script.heap = data.heap
    BY <1>1 DEF Assembled
  <2>2. Headed
    BY <1>1 DEF FileInv, Writing
  <2> QED BY <2>1, <2>2 DEF Headed
<1> QED BY <1>2, <1>4, <1>7, <1>9, <1>11, <1>12, <1>13

\* A token for instruction i of a module with these functions and variables.
Prints(t, i, fs, vs) ==
  /\ t.nl /\ t.t = "op" /\ t.op = i.op
  /\ i.op \in (Number \ {"movi"}) \cup {"jmp"} => t.arg = i.val
  /\ i.op = "movi" => t.arg = <<i.val[1], i.val[2] % (2 * Int64Half)>>
  /\ i.op = "setelen" => t.arg = "other"
  /\ t.spaced
  /\ i.op = "call" /\ i.val \in DOMAIN fs => t.arg = fs[i.val].key
  /\ i.op = "ldvar" /\ i.val \in 0 .. Len(vs) - 1 => t.arg = vs[i.val + 1].key

\* How many tokens there are of a function, and that they are those from a on.
Height(f) == IF f.flags = 0 THEN Len(Listed(f.body)) + 2 ELSE 1
BlockAt(s, a, f, fs, vs) ==
  IF f.flags # 0 THEN s[a] = IntroLine(NativeLineOf(f))
  ELSE /\ s[a] = HeadLine(f.key) /\ s[a + Height(f) - 1] = EndLine
       /\ \A k \in 1 .. Height(f) - 2 : Prints(s[a + k], Listed(f.body)[k], fs, vs)

\* s is a source that describes the functions and variables with the sizes in header h;
\* w[j] is where function j begins.
Describes(s, h, fs, vs, w) ==
  /\ IsSeq(s, Len(s)) /\ 3 + Len(vs) <= Len(s)
  /\ s[1] = SizeToken("opstack", h.opstack \div PtrBytes)
  /\ s[2] = SizeToken("callstack", h.callstack \div PtrBytes)
  /\ s[3] = SizeToken("heap", h.heap)
  /\ \A k \in 1 .. Len(vs) : s[3 + k] = VarLine(VarLineOf(vs[k]))
  /\ w \in [1 .. Len(fs) -> Nat]
  /\ \A j \in 1 .. Len(fs) : /\ 3 + Len(vs) < w[j] /\ w[j] + Height(fs[j]) <= Len(s) + 1
                             /\ BlockAt(s, w[j], fs[j], fs, vs)
  /\ \A i \in 1 .. Len(s) : i <= 3 + Len(vs) \/ \E j \in 1 .. Len(fs) : i - w[j] \in 0 .. Height(fs[j]) - 1

LEMMA ListedPart ==
  ASSUME NEW b, NEW n, IsSeq(b, n)
  PROVE  /\ \E l \in 0 .. n : IsSeq(Listed(b), l) /\ \A k \in 1 .. l : Listed(b)[k] = b[k]
         /\ (\A k \in 1 .. n : b[k].op # "halt") => Listed(b) = b
<1>1. n \in Nat /\ DOMAIN b = 1 .. n
  BY DEF IsSeq
<1>2. CASE ~\E k \in DOMAIN b : b[k].op = "halt"
  <2>1. Listed(b) = b
    BY <1>2 DEF Listed
  <2> QED BY <1>1, <2>1
<1>3. CASE \E k \in DOMAIN b : b[k].op = "halt"
  <2> DEFINE H == {k \in DOMAIN b : b[k].op = "halt"}
             c == CHOOSE k \in DOMAIN b : b[k].op = "halt" /\ \A j \in 1 .. k - 1 : b[j].op # "halt"
  <2>1. \E k \in DOMAIN b : b[k].op = "halt" /\ \A j \in 1 .. k - 1 : b[j].op # "halt"
    <3>1. H \in SUBSET Nat /\ H # {}
      BY <1>1, <1>3
    <3>2. PICK k \in H : \A j \in H : k <= j
      <4> HIDE DEF H
      <4> QED BY <3>1, Least
    <3> QED BY <1>1, <3>2
  <2>2. c \in 1 .. n
    BY <1>1, <2>1
  <2>3. Listed(b) = SubSeq(b, 1, c - 1)
    BY <1>3 DEF Listed
  <2> HIDE DEF c
  <2>4. PICK l \in 0 .. n : l = c - 1
    BY <1>1, <2>2
  <2>5. PICK S : b \in Seq(S) /\ Len(b) = n
    <3> DEFINE T == {b[i] : i \in 1 .. n}
    <3>1. \A i \in 1 .. n : b[i] \in T
      OBVIOUS
    <3> HIDE DEF T
    <3> QED BY <3>1, SeqMembers
  <2>6. IsSeq(SubSeq(b, 1, l), l) /\ \A k \in 1 .. l : SubSeq(b, 1, l)[k] = b[k]
    BY <1>1, <2>4, <2>5 DEF IsSeq
  <2> QED BY <1>1, <1>3, <2>3, <2>4, <2>6
<1> QED BY <1>2, <1>3

\* Each element of the set is at one place of the sequence.
AtPlaces(q, S, line, n, r) ==
  /\ IsSeq(q, n) /\ r \in [S -> Nat]
  /\ \A i \in S : r[i] \in 1 .. n /\ q[r[i]] = line[i]
  /\ \A k \in 1 .. n : \E i \in S : r[i] = k

LEMMA InPlace ==
  ASSUME NEW q, NEW S \in SUBSET Nat, NEW line, InOrder(q, S, line)
  PROVE  \E n, r : AtPlaces(q, S, line, n, r)
<1>1. PICK n \in Nat : /\ IsSeq(q, n)
                       /\ \E p \in [1 .. n -> S] :
                            /\ \A k \in 1 .. n : q[k] = line[p[k]]
                            /\ \A j, k \in 1 .. n : j < k => p[j] < p[k]
                            /\ \A i \in S : \E k \in 1 .. n : p[k] = i
  BY DEF InOrder
<1>2. PICK p \in [1 .. n -> S] : /\ \A k \in 1 .. n : q[k] = line[p[k]]
                                 /\ \A j, k \in 1 .. n : j < k => p[j] < p[k]
                                 /\ \A i \in S : \E k \in 1 .. n : p[k] = i
  BY <1>1
<1>3. \A j, k \in 1 .. n : p[j] = p[k] => j = k
  <2>1. \A k \in 1 .. n : p[k] \in Nat /\ k \in Nat
    <3>1. \A k \in 1 .. n : p[k] \in S
      BY <1>2
    <3>2. \A i \in S : i \in Nat
      OBVIOUS
    <3>3. \A k \in 1 .. n : k \in Nat
      BY <1>1
    <3> QED BY <3>1, <3>2, <3>3
  <2> QED BY <1>2, <2>1
<1> DEFINE r == [i \in S |-> CHOOSE k \in 1 .. n : p[k] = i]
<1>4. \A i \in S : r[i] \in 1 .. n /\ p[r[i]] = i
  BY <1>2
<1>5. \A k \in 1 .. n : r[p[k]] = k
  BY <1>3, <1>4
<1>6. r \in [S -> Nat]
  BY <1>4
<1> HIDE DEF r
<1>7. \A i \in S : r[i] \in 1 .. n /\ q[r[i]] = line[i]
  BY <1>2, <1>4
<1>8. \A k \in 1 .. n : \E i \in S : r[i] = k
  <2>1. \A k \in 1 .. n : p[k] \in S
    BY <1>2
  <2> QED BY <1>5, <2>1
<1>9. AtPlaces(q, S, line, n, r)
  BY <1>1, <1>6, <1>7, <1>8 DEF AtPlaces
<1> QED BY <1>9

\* What is printed of a function.
LEMMA BlockLines ==
  ASSUME NEW f, NEW n, IsSeq(f.body, n), f.flags = 0, NEW fs, NEW vs,
         \A k \in 1 .. n : Prints(Instr(f.body[k]), f.body[k], fs, vs)
  PROVE  /\ Height(f) \in Nat /\ Height(f) >= 2
         /\ IsSeq(FuncLines(BytecodeLineOf(f)), Height(f))
         /\ BlockAt(FuncLines(BytecodeLineOf(f)), 1, f, fs, vs)
<1>1. PICK l \in 0 .. n : IsSeq(Listed(f.body), l) /\ \A k \in 1 .. l : Listed(f.body)[k] = f.body[k]
  BY ListedPart
<1>2. PICK b : b = Listed(f.body)
  OBVIOUS
<1>3. n \in Nat /\ l \in Nat /\ IsSeq(b, l) /\ DOMAIN b = 1 .. l /\ Len(b) = l /\ Height(f) = l + 2
  BY <1>1, <1>2 DEF IsSeq, Height
<1> DEFINE is == [k \in DOMAIN b |-> Instr(b[k])]
<1>4. IsSeq(is, l) /\ \A k \in 1 .. l : is[k] = Instr(b[k])
  BY <1>3 DEF IsSeq
<1>5. PICK x : x = FuncLines(BytecodeLineOf(f))
  OBVIOUS
<1>6. x = <<HeadLine(f.key)>> \o is \o <<EndLine>>
  BY <1>2, <1>5 DEF FuncLines, BytecodeLineOf
<1> HIDE DEF is
<1>7. PICK y : y = <<HeadLine(f.key)>> \o is
  OBVIOUS
<1>8. \A e : IsSeq(<<e>>, 1) /\ <<e>>[1] = e
  BY DEF IsSeq
<1>9. Joined(<<HeadLine(f.key)>>, 1, is, l, y)
  BY <1>4, <1>7, <1>8, ConcatAny
<1>10. IsSeq(y, 1 + l)
  BY <1>9 DEF Joined
<1>11. Joined(y, 1 + l, <<EndLine>>, 1, x)
  BY <1>6, <1>7, <1>8, <1>10, ConcatAny
<1>12. /\ IsSeq(x, l + 2) /\ x[1] = HeadLine(f.key) /\ x[l + 2] = EndLine
       /\ \A k \in 1 .. l : x[1 + k] = Instr(b[k])
  <2>1. x[1 + l + 1] = EndLine /\ 1 + l + 1 = l + 2 /\ IsSeq(x, 1 + l + 1)
    BY <1>3, <1>8, <1>11 DEF Joined
  <2>2. \A k \in 1 .. 1 + l : x[k] = y[k]
    BY <1>11 DEF Joined
  <2>3. y[1] = HeadLine(f.key) /\ \A k \in 1 .. l : y[1 + k] = is[k]
    BY <1>8, <1>9 DEF Joined
  <2>4. 1 \in 1 .. 1 + l /\ \A k \in 1 .. l : 1 + k \in 1 .. 1 + l
    BY <1>3
  <2> QED BY <1>4, <2>1, <2>2, <2>3, <2>4
<1>13. \A k \in 1 .. l : Prints(x[1 + k], b[k], fs, vs)
  <2>1. \A k \in 1 .. l : k \in 1 .. n /\ b[k] = f.body[k]
    BY <1>1, <1>2, <1>3
  <2> QED BY <1>12, <2>1
<1>14. BlockAt(x, 1, f, fs, vs)
  <2>1. 1 + Height(f) - 1 = l + 2 /\ Height(f) - 2 = l
    BY <1>3
  <2> QED BY <1>2, <1>12, <1>13, <2>1 DEF BlockAt
<1> QED BY <1>3, <1>5, <1>12, <1>14

\* The same further on.
LEMMA BlockMoved ==
  ASSUME NEW x, NEW f, f.flags = 0, NEW fs, NEW vs, Height(f) \in Nat, Height(f) >= 2, BlockAt(x, 1, f, fs, vs),
         NEW s, NEW a \in Nat, \A k \in 1 .. Height(f) : s[a + k] = x[k]
  PROVE  BlockAt(s, a + 1, f, fs, vs)
<1>1. PICK n \in Nat : n = Height(f)
  OBVIOUS
<1>2. /\ 1 \in 1 .. n /\ n \in 1 .. n /\ a + 1 + n - 1 = a + n /\ 1 + n - 1 = n
      /\ \A k \in 1 .. n - 2 : 1 + k \in 1 .. n /\ a + 1 + k = a + (1 + k)
  BY <1>1
<1> QED BY <1>1, <1>2 DEF BlockAt

LEMMA Inside ==
  ASSUME NEW x \in Int, NEW y \in Int, NEW t \in Nat, NEW g \in Nat, x - y - t \in 1 .. g
  PROVE  x - (y + t + 1) \in 0 .. g - 1
OBVIOUS

LEMMA ListingDescribes ==
  ASSUME RoundInv, stage = "listed", NEW s,
         s = SizeLines \o Each(listing.vars, VarLine) \o Each(listing.nbc, IntroLine)
             \o FlattenSeq(Each(listing.bc, FuncLines))
  PROVE  \E w : Describes(s, hdr, module.funcs, module.vars, w)
<1>1. /\ nf \in Nat /\ nv \in Nat /\ FuncsTo(nf) /\ VarsTo(nv) /\ NamesTo(nf + nv) /\ FuncRows(nf) /\ VarRows(nv)
      /\ hdr.func_count = nf
      /\ \A j \in 1 .. nf : RowOf(module.funcs[j], vec[j])
  <2>1. stage \in Listing /\ stage # "waiting" /\ stage \notin Writing
    BY DEF Listing, Writing
  <2>2. Walking /\ FileInv
    BY <2>1 DEF RoundInv
  <2> QED BY <2>1, <2>2, Rows DEF Walking, FileInv, HeadersDone
<1>2. PICK fs, vs : fs = module.funcs /\ vs = module.vars
  OBVIOUS
<1>3. /\ IsSeq(fs, nf) /\ \A j \in 1 .. nf : fs[j] = FuncRow(image[j])
      /\ IsSeq(vs, nv) /\ \A j \in 1 .. nv : vs[j] = VarRow(image[nf + j])
  BY <1>1, <1>2 DEF FuncRows, VarRows
<1>4. Len(fs) = nf /\ DOMAIN fs = 1 .. nf /\ Len(vs) = nv /\ DOMAIN vs = 1 .. nv
  BY <1>1, <1>3 DEF IsSeq
<1>5. /\ \A j \in 1 .. nf : names[j] = fs[j].key
      /\ \A j \in 1 .. nv : names[nf + j] = vs[j].key
  <2>1. \A j \in 1 .. nf + nv : names[j] = image[j].name
    BY <1>1 DEF NamesTo
  <2>2. \A j \in 1 .. nf : j \in 1 .. nf + nv
    BY <1>1
  <2>3. \A j \in 1 .. nv : nf + j \in 1 .. nf + nv
    BY <1>1
  <2>4. \A e : FuncRow(e).key = e.name /\ VarRow(e).key = e.name
    BY DEF FuncRow, VarRow, Row
  <2> QED BY <1>3, <2>1, <2>2, <2>3, <2>4
<1>6. ASSUME NEW i PROVE Prints(Instr(i), i, fs, vs)
  <2>1. i.op = "call" /\ i.val \in DOMAIN fs => names[i.val] = fs[i.val].key
    BY <1>4, <1>5
  <2>2. ASSUME i.val \in 0 .. Len(vs) - 1 PROVE names[hdr.func_count + i.val + 1] = vs[i.val + 1].key
    <3>1. PICK v \in Int : v = i.val
      BY <1>1, <1>4, <2>2
    <3>2. v + 1 \in 1 .. nv /\ hdr.func_count + v + 1 = nf + (v + 1)
      BY <1>1, <1>4, <2>2, <3>1
    <3> QED BY <1>5, <3>1, <3>2
  <2> DEFINE t == Instr(i)
  <2>3. t.nl /\ t.t = "op" /\ t.op = i.op /\ t.spaced
    BY DEF Instr
  <2>4. t.arg = CASE i.op \in {"call", "ldfn"} -> names[i.val]
                  [] i.op = "ldvar"   -> names[hdr.func_count + i.val + 1]
                  [] i.op = "setelen" -> "other"
                  [] i.op = "movi"    -> <<i.val[1], i.val[2] % (2 * Int64Half)>>
                  [] OTHER            -> i.val
    BY DEF Instr
  <2> HIDE DEF t
  <2>5. PICK op : op = i.op
    OBVIOUS
  <2>6. op \in (Number \ {"movi"}) \cup {"jmp"} => t.arg = i.val
    BY <2>4, <2>5 DEF Number
  <2>7. op = "movi" => t.arg = <<i.val[1], i.val[2] % (2 * Int64Half)>>
    BY <2>4, <2>5
  <2>8. op = "setelen" => t.arg = "other"
    BY <2>4, <2>5
  <2>9. /\ op = "call" => t.arg = names[i.val]
        /\ op = "ldvar" => t.arg = names[hdr.func_count + i.val + 1]
    BY <2>4, <2>5
  <2>10. Prints(t, i, fs, vs)
    BY <2>1, <2>2, <2>3, <2>5, <2>6, <2>7, <2>8, <2>9 DEF Prints
  <2> QED BY <2>10 DEF t
<1>7. ASSUME NEW j \in 1 .. nf, fs[j].flags = 0
      PROVE  /\ Height(fs[j]) \in Nat /\ Height(fs[j]) >= 2
             /\ IsSeq(FuncLines(BytecodeLineOf(fs[j])), Height(fs[j]))
             /\ BlockAt(FuncLines(BytecodeLineOf(fs[j])), 1, fs[j], fs, vs)
  <2>1. PICK f : f = fs[j]
    OBVIOUS
  <2>2. PICK n : IsSeq(f.body, n)
    BY <1>1, <1>2, <2>1 DEF RowOf
  <2>3. f.flags = 0
    BY <1>7, <2>1
  <2> QED BY <1>6, <2>1, <2>2, <2>3, BlockLines
\* The variables.
<1>8. PICK V : V = Each(listing.vars, VarLine)
  OBVIOUS
<1>9. IsSeq(V, nv) /\ \A k \in 1 .. nv : V[k] = VarLine(VarLineOf(vs[k]))
  <2>1. IsSeq(listing.vars, nv) /\ \A k \in 1 .. nv : listing.vars[k] = VarLineOf(vs[k])
    BY <1>1, <1>3 DEF VarsTo
  <2>2. DOMAIN listing.vars = 1 .. nv
    BY <2>1 DEF IsSeq
  <2>3. V = [k \in 1 .. nv |-> VarLine(listing.vars[k])]
    BY <1>8, <2>2 DEF Each
  <2> QED BY <1>1, <2>1, <2>3 DEF IsSeq
\* The functions without a body.
<1>10. PICK N : N = Each(listing.nbc, IntroLine)
  OBVIOUS
<1>11. PICK n1 \in Nat, r1 \in [Bodyless(nf) -> Nat] :
         /\ IsSeq(N, n1) /\ \A j \in Bodyless(nf) : r1[j] \in 1 .. n1 /\ N[r1[j]] = IntroLine(NativeLineOf(fs[j]))
         /\ \A k \in 1 .. n1 : \E j \in Bodyless(nf) : r1[j] = k
  <2>1. Bodyless(nf) \in SUBSET Nat /\ InOrder(listing.nbc, Bodyless(nf), NativeLines)
    BY <1>1 DEF Bodyless, FuncsTo
  <2>2. PICK n1, r1 : AtPlaces(listing.nbc, Bodyless(nf), NativeLines, n1, r1)
    BY <2>1, InPlace
  <2>7. /\ n1 \in Nat /\ IsSeq(listing.nbc, n1) /\ r1 \in [Bodyless(nf) -> Nat]
        /\ \A j \in Bodyless(nf) : r1[j] \in 1 .. n1 /\ listing.nbc[r1[j]] = NativeLines[j]
        /\ \A k \in 1 .. n1 : \E j \in Bodyless(nf) : r1[j] = k
    BY <2>2 DEF AtPlaces, IsSeq
  <2>3. DOMAIN listing.nbc = 1 .. n1
    BY <2>7 DEF IsSeq
  <2>4. N = [k \in 1 .. n1 |-> IntroLine(listing.nbc[k])]
    BY <1>10, <2>3 DEF Each
  <2>5. \A j \in Bodyless(nf) : NativeLines[j] = NativeLineOf(fs[j])
    BY <1>3 DEF Bodyless, NativeLines
  <2>6. IsSeq(N, n1) /\ \A j \in Bodyless(nf) : N[r1[j]] = IntroLine(NativeLineOf(fs[j]))
    BY <2>4, <2>5, <2>7 DEF IsSeq
  <2> QED BY <2>6, <2>7
\* The others.
<1>12. PICK B : B = Each(listing.bc, FuncLines)
  OBVIOUS
<1>13. PICK n2 \in Nat, r2 \in [Bytecode(nf) -> Nat] :
         /\ IsSeq(B, n2) /\ \A j \in Bytecode(nf) : r2[j] \in 1 .. n2 /\ B[r2[j]] = FuncLines(BytecodeLineOf(fs[j]))
         /\ \A k \in 1 .. n2 : \E j \in Bytecode(nf) : r2[j] = k
  <2>1. Bytecode(nf) \in SUBSET Nat /\ InOrder(listing.bc, Bytecode(nf), BytecodeLines)
    BY <1>1 DEF Bytecode, FuncsTo
  <2>2. PICK n2, r2 : AtPlaces(listing.bc, Bytecode(nf), BytecodeLines, n2, r2)
    BY <2>1, InPlace
  <2>7. /\ n2 \in Nat /\ IsSeq(listing.bc, n2) /\ r2 \in [Bytecode(nf) -> Nat]
        /\ \A j \in Bytecode(nf) : r2[j] \in 1 .. n2 /\ listing.bc[r2[j]] = BytecodeLines[j]
        /\ \A k \in 1 .. n2 : \E j \in Bytecode(nf) : r2[j] = k
    BY <2>2 DEF AtPlaces, IsSeq
  <2>3. DOMAIN listing.bc = 1 .. n2
    BY <2>7 DEF IsSeq
  <2>4. B = [k \in 1 .. n2 |-> FuncLines(listing.bc[k])]
    BY <1>12, <2>3 DEF Each
  <2>5. \A j \in Bytecode(nf) : BytecodeLines[j] = BytecodeLineOf(fs[j])
    BY <1>3 DEF Bytecode, BytecodeLines
  <2>6. IsSeq(B, n2) /\ \A j \in Bytecode(nf) : B[r2[j]] = FuncLines(BytecodeLineOf(fs[j]))
    BY <2>4, <2>5, <2>7 DEF IsSeq
  <2> QED BY <2>6, <2>7
<1>14. /\ Bytecode(nf) = {j \in 1 .. nf : fs[j].flags = 0}
       /\ Bodyless(nf) = {j \in 1 .. nf : fs[j].flags # 0}
  <2>1. \A e : FuncRow(e).flags = e.flags
    BY DEF FuncRow, Row
  <2>2. \A j \in 1 .. nf : fs[j].flags = image[j].flags
    BY <1>3, <2>1
  <2> QED BY <2>2 DEF Bytecode, Bodyless
<1> DEFINE l == [k \in 1 .. n2 |-> Len(B[k])]
<1>15. \A k \in 1 .. n2 : IsSeq(B[k], l[k]) /\ l[k] \in Nat
  <2> SUFFICES ASSUME NEW k \in 1 .. n2 PROVE IsSeq(B[k], l[k]) /\ l[k] \in Nat
    OBVIOUS
  <2>1. PICK j \in Bytecode(nf) : r2[j] = k /\ B[k] = FuncLines(BytecodeLineOf(fs[j]))
    BY <1>13
  <2>2. j \in 1 .. nf /\ fs[j].flags = 0
    BY <1>14, <2>1
  <2>3. IsSeq(B[k], Height(fs[j]))
    BY <1>7, <2>1, <2>2
  <2> QED BY <2>3 DEF IsSeq
<1>16. /\ l \in [1 .. n2 -> Nat]
       /\ \A j \in Bytecode(nf) : l[r2[j]] = Height(fs[j])
  <2>1. ASSUME NEW j \in Bytecode(nf) PROVE l[r2[j]] = Height(fs[j])
    <3>1. j \in 1 .. nf /\ fs[j].flags = 0 /\ r2[j] \in 1 .. n2 /\ B[r2[j]] = FuncLines(BytecodeLineOf(fs[j]))
      BY <1>13, <1>14
    <3>2. IsSeq(B[r2[j]], Height(fs[j]))
      BY <1>7, <3>1
    <3>3. Len(B[r2[j]]) = Height(fs[j])
      BY <3>2 DEF IsSeq
    <3> QED BY <3>1, <3>3
  <2> QED BY <1>15, <2>1
<1> HIDE DEF l
<1>17. PICK m, o : Pieces(FlattenSeq(B), B, n2, l, m, o)
  BY <1>13, <1>15, <1>16, Flattened
<1>18. PICK F : F = FlattenSeq(B)
  OBVIOUS
<1>19. /\ m \in Nat /\ IsSeq(F, m) /\ o \in [1 .. n2 -> Nat]
       /\ \A k \in 1 .. n2 : o[k] + l[k] <= m /\ \A i \in 1 .. l[k] : F[o[k] + i] = B[k][i]
       /\ \A i \in 1 .. m : \E k \in 1 .. n2 : i - o[k] \in 1 .. l[k]
  BY <1>17, <1>18 DEF Pieces, IsSeq
\* All of them.
<1>20. PICK A : A = SizeLines
  OBVIOUS
<1>21. IsSeq(A, 3)
  BY <1>20 DEF IsSeq, SizeLines
<1>22. PICK C : C = A \o V
  OBVIOUS
<1>23. Joined(A, 3, V, nv, C)
  BY <1>9, <1>21, <1>22, ConcatAny
<1>24. PICK D : D = C \o N
  OBVIOUS
<1>25. Joined(C, 3 + nv, N, n1, D)
  <2>1. IsSeq(C, 3 + nv)
    BY <1>23 DEF Joined
  <2> QED BY <1>11, <1>24, <2>1, ConcatAny
<1>26. s = D \o F
  BY <1>8, <1>10, <1>12, <1>18, <1>20, <1>22, <1>24
<1>27. Joined(D, 3 + nv + n1, F, m, s)
  <2>1. IsSeq(D, 3 + nv + n1)
    BY <1>25 DEF Joined
  <2> QED BY <1>19, <1>26, <2>1, ConcatAny
<1>28. /\ IsSeq(s, 3 + nv + n1 + m) /\ Len(s) = 3 + nv + n1 + m
       /\ \A i \in 1 .. 3 : s[i] = A[i]
       /\ \A i \in 1 .. nv : s[3 + i] = V[i]
       /\ \A i \in 1 .. n1 : s[3 + nv + i] = N[i]
       /\ \A i \in 1 .. m : s[3 + nv + n1 + i] = F[i]
  <2>1. /\ \A i \in 1 .. 3 : C[i] = A[i]
        /\ \A i \in 1 .. nv : C[3 + i] = V[i]
        /\ \A i \in 1 .. 3 + nv : D[i] = C[i]
        /\ \A i \in 1 .. n1 : D[3 + nv + i] = N[i]
        /\ \A i \in 1 .. 3 + nv + n1 : s[i] = D[i]
        /\ \A i \in 1 .. m : s[3 + nv + n1 + i] = F[i]
        /\ IsSeq(s, 3 + nv + n1 + m)
    BY <1>23, <1>25, <1>27 DEF Joined
  <2>2. /\ \A i \in 1 .. 3 : i \in 1 .. 3 + nv /\ i \in 1 .. 3 + nv + n1
        /\ \A i \in 1 .. nv : 3 + i \in 1 .. 3 + nv /\ 3 + i \in 1 .. 3 + nv + n1
        /\ \A i \in 1 .. n1 : 3 + nv + i \in 1 .. 3 + nv + n1
    BY <1>1, <1>11
  <2>3. Len(s) = 3 + nv + n1 + m
    BY <2>1 DEF IsSeq
  <2> QED BY <2>1, <2>2, <2>3
<1> DEFINE w == [j \in 1 .. nf |-> IF fs[j].flags = 0 THEN 3 + nv + n1 + o[r2[j]] + 1 ELSE 3 + nv + r1[j]]
<1>29. ASSUME NEW j \in 1 .. nf, fs[j].flags = 0
       PROVE  /\ w[j] = 3 + nv + n1 + o[r2[j]] + 1 /\ r2[j] \in 1 .. n2 /\ o[r2[j]] \in Nat
              /\ Height(fs[j]) \in Nat /\ w[j] \in Nat /\ l[r2[j]] = Height(fs[j])
              /\ o[r2[j]] + Height(fs[j]) <= m /\ BlockAt(s, w[j], fs[j], fs, vs)
  <2>1. j \in Bytecode(nf) /\ w[j] = 3 + nv + n1 + o[r2[j]] + 1
    BY <1>14, <1>29
  <2>2. PICK k, f : k = r2[j] /\ f = fs[j]
    OBVIOUS
  <2>3. k \in 1 .. n2 /\ l[k] = Height(f) /\ o[k] \in Nat /\ Height(f) \in Nat /\ Height(f) >= 2
    BY <1>7, <1>13, <1>16, <1>19, <1>29, <2>1, <2>2
  <2>4. /\ o[k] + Height(f) <= m /\ B[k] = FuncLines(BytecodeLineOf(f))
        /\ \A i \in 1 .. Height(f) : F[o[k] + i] = B[k][i]
    BY <1>13, <1>19, <2>1, <2>2, <2>3, ZenonT(60)
  <2>5. PICK a \in Nat : a = 3 + nv + n1 + o[k]
    BY <1>1, <1>11, <2>3
  <2>6. \A i \in 1 .. Height(f) : s[a + i] = B[k][i]
    <3>1. \A i \in 1 .. Height(f) : o[k] + i \in 1 .. m /\ a + i = 3 + nv + n1 + (o[k] + i)
      <4>1. PICK t \in Nat, g \in Nat, b \in Nat : t = o[k] /\ g = Height(f) /\ b = n1
        BY <1>11, <2>3
      <4>2. t + g <= m /\ m \in Nat /\ nv \in Nat /\ a = 3 + nv + b + t
        BY <1>1, <1>19, <2>4, <2>5, <4>1
      <4>3. \A i \in 1 .. g : t + i \in 1 .. m /\ a + i = 3 + nv + b + (t + i)
        BY <4>2
      <4> QED BY <4>1, <4>3
    <3> QED BY <1>28, <2>4, <3>1
  <2>7. BlockAt(B[k], 1, f, fs, vs) /\ f.flags = 0
    BY <1>7, <1>29, <2>2, <2>4
  <2>8. BlockAt(s, a + 1, f, fs, vs)
    BY <2>3, <2>6, <2>7, BlockMoved
  <2> QED BY <2>1, <2>2, <2>3, <2>4, <2>5, <2>8
<1>30. ASSUME NEW j \in 1 .. nf, fs[j].flags # 0
       PROVE  /\ w[j] = 3 + nv + r1[j] /\ r1[j] \in 1 .. n1 /\ w[j] \in Nat /\ Height(fs[j]) = 1
              /\ BlockAt(s, w[j], fs[j], fs, vs)
  <2>1. j \in Bodyless(nf) /\ w[j] = 3 + nv + r1[j]
    BY <1>14, <1>30
  <2>2. r1[j] \in 1 .. n1 /\ N[r1[j]] = IntroLine(NativeLineOf(fs[j]))
    BY <1>11, <2>1
  <2>3. s[w[j]] = IntroLine(NativeLineOf(fs[j]))
    <3>1. s[3 + nv + r1[j]] = N[r1[j]]
      BY <1>28, <2>2, Zenon
    <3> QED BY <2>1, <2>2, <3>1, Zenon
  <2>4. w[j] \in Nat
    BY <1>1, <1>11, <2>1, <2>2
  <2> QED BY <1>30, <2>1, <2>2, <2>3, <2>4 DEF Height, BlockAt
<1>31. w \in [1 .. nf -> Nat] /\ DOMAIN w = 1 .. nf
  <2>1. \A j \in 1 .. nf : w[j] \in Nat
    BY <1>29, <1>30
  <2> QED BY <2>1
<1> HIDE DEF w
<1>39. n1 \in Nat /\ m \in Nat /\ nv \in Nat
  BY <1>1, <1>11, <1>19
<1>32. PICK e \in Nat : e = Len(s) /\ e = 3 + nv + n1 + m
  <2>1. 3 + nv + n1 + m \in Nat
    BY <1>39
  <2> QED BY <1>28, <2>1
<1>33. ASSUME NEW j \in 1 .. nf
       PROVE  3 + nv < w[j] /\ w[j] + Height(fs[j]) <= e + 1 /\ BlockAt(s, w[j], fs[j], fs, vs)
  <2>1. CASE fs[j].flags = 0
    <3>1. PICK t \in Nat, g \in Nat, b \in Nat : t = o[r2[j]] /\ g = Height(fs[j]) /\ b = n1
      BY <1>11, <1>29, <2>1
    <3>2. w[j] = 3 + nv + b + t + 1 /\ t + g <= m /\ e = 3 + nv + b + m /\ nv \in Nat /\ m \in Nat
      BY <1>1, <1>19, <1>29, <1>32, <2>1, <3>1
    <3> QED BY <1>29, <2>1, <3>1, <3>2, SMTT(30)
  <2>2. CASE fs[j].flags # 0
    <3>1. PICK t \in Nat, b \in Nat : t = r1[j] /\ b = n1 /\ t \in 1 .. b
      BY <1>11, <1>30, <2>2
    <3>2. w[j] = 3 + nv + t /\ Height(fs[j]) = 1 /\ e = 3 + nv + b + m /\ nv \in Nat /\ m \in Nat
      BY <1>1, <1>19, <1>30, <1>32, <2>2, <3>1
    <3>3. 3 + nv < 3 + nv + t /\ 3 + nv + t + 1 <= e + 1
      BY <3>1, <3>2
    <3> QED BY <1>30, <2>2, <3>2, <3>3
  <2> QED BY <2>1, <2>2
<1>34. ASSUME NEW i \in 1 .. e, ~(i <= 3 + nv)
       PROVE  \E j \in 1 .. nf : i - w[j] \in 0 .. Height(fs[j]) - 1
  <2>1. PICK b \in Nat : b = n1
    BY <1>11
  <2>2. CASE i <= 3 + nv + b
    <3>1. i - (3 + nv) \in 1 .. n1
      BY <1>1, <1>34, <2>1, <2>2
    <3>2. PICK j \in Bodyless(nf) : r1[j] = i - (3 + nv)
      BY <1>11, <3>1
    <3>3. j \in 1 .. nf /\ fs[j].flags # 0
      BY <1>14, <3>2
    <3>4. w[j] = i /\ Height(fs[j]) = 1
      BY <1>1, <1>30, <1>34, <3>2, <3>3
    <3>5. i \in Int /\ i - i \in 0 .. 1 - 1
      BY <1>32, <1>34
    <3> QED BY <3>3, <3>4, <3>5
  <2>3. CASE ~(i <= 3 + nv + b)
    <3>1. i - (3 + nv + b) \in 1 .. m
      BY <1>32, <1>34, <1>39, <2>1, <2>3
    <3>2. PICK k \in 1 .. n2 : i - (3 + nv + b) - o[k] \in 1 .. l[k]
      BY <1>19, <3>1
    <3>3. PICK j \in Bytecode(nf) : r2[j] = k
      BY <1>13, <3>2
    <3>4. j \in 1 .. nf /\ fs[j].flags = 0
      BY <1>14, <3>3
    <3>5. PICK t \in Nat, g \in Nat : t = o[k] /\ g = Height(fs[j]) /\ g = l[k]
      BY <1>29, <3>3, <3>4
    <3>6. w[j] = 3 + nv + b + t + 1 /\ i - (3 + nv + b) - t \in 1 .. g
      BY <1>29, <2>1, <3>2, <3>3, <3>4, <3>5
    <3>7. i - w[j] \in 0 .. g - 1
      <4>1. PICK x \in Int : x = i
        BY <1>32
      <4>2. PICK y \in Int : y = 3 + nv + b
        BY <1>39, <2>1
      <4>3. x - y - t \in 1 .. g /\ w[j] = y + t + 1
        BY <3>6, <4>1, <4>2
      <4>4. x - (y + t + 1) \in 0 .. g - 1
        BY <4>3, Inside
      <4> QED BY <4>1, <4>3, <4>4
    <3> QED BY <3>4, <3>5, <3>7
  <2> QED BY <2>2, <2>3
<1>35. /\ s[1] = SizeToken("opstack", hdr.opstack \div PtrBytes)
       /\ s[2] = SizeToken("callstack", hdr.callstack \div PtrBytes)
       /\ s[3] = SizeToken("heap", hdr.heap)
  BY <1>20, <1>28 DEF SizeLines
<1>36. \A k \in 1 .. nv : s[3 + k] = VarLine(VarLineOf(vs[k]))
  BY <1>9, <1>28
<1>37. IsSeq(s, e) /\ 3 + nv <= e
  BY <1>1, <1>11, <1>19, <1>28, <1>32
<1>38. Describes(s, hdr, fs, vs, w)
  BY <1>4, <1>31, <1>32, <1>33, <1>34, <1>35, <1>36, <1>37 DEF Describes
<1> QED BY <1>2, <1>38

----------------------------------------------------------------------------
(* What the assembler makes.                                               *)

\* An operand of the width that the instruction has for it, which the assembler would accept
\* in a source but for an immediate below 0.
Fits(op, val) ==
  /\ Operand(op, val) /\ InRange(op, val)
  /\ (op = "movi" => val[2] >= 0) => Accepted(op, val)

\* A function with the instructions that the generator has laid out as q.
MadeFrom(f, q) ==
  /\ Follows(q) /\ IsSeq(f.body, Len(q)) /\ f.bytes = Padded(Total(q))
  /\ q # << >> => q[1].at = 0
  /\ \A k \in 1 .. Len(q) :
       /\ f.body[k] = [op |-> q[k].op, val |-> q[k].val]
       /\ q[k].op \in Number => Fits(q[k].op, q[k].val)
       /\ q[k].op = "jmp" => q[k].val \in Int
       /\ q[k].op \in {"halt", "nop"} => q[k].val = 0
WellMade(fs, vs) ==
  /\ \A j \in 1 .. Len(fs) : /\ fs[j].key \in Name /\ fs[j].flags \in {0, NATIVE, EXTERN}
                             /\ fs[j].flags # 0 => fs[j].bytes = 8 /\ fs[j].body = << >>
                             /\ \E q : IsSeq(fs[j].body, Len(q)) /\ (fs[j].flags = 0 => MadeFrom(fs[j], q))
  /\ \A k \in 1 .. Len(vs) : vs[k].bytes \in Nat /\ vs[k].bytes % 4 = 0

\* What is left of a number that was accepted would be accepted again.
LEMMA EncodedFits ==
  ASSUME NEW op \in Number, NEW n, Operand(op, n), Accepted(op, n), NEW v \in Encoded(op, n)
  PROVE  Fits(op, v)
<1>1. CASE op \in {"alloc", "neg", "mov"}
  <2>1. n \in Nat /\ n < 256
    BY <1>1 DEF Accepted, Operand
  <2>2. v = n
    BY <1>1, <2>1, Residue DEF Encoded
  <2> QED BY <1>1, <2>1, <2>2 DEF InRange, Fits
<1>2. CASE op = "movi"
  <2>1. n \in Int \X Int /\ n[1] \in Int /\ Int64Half \in Nat \ {0} /\ n[2] \in Nat
    BY <1>2, AssemblerAssumption DEF Operand, Accepted
  <2>2. PICK a, c : v = <<a, c>> /\ a = n[1] % 256 /\ c \in Immediate(n[2])
    BY <1>2 DEF Encoded
  <2>3. a \in 0 .. 255
    BY <2>1, <2>2
  <2>4. c \in Int /\ -Int64Half <= c /\ c < Int64Half
    BY <2>1, <2>2 DEF Immediate
  <2>5. v[1] = a /\ v[2] = c /\ v \in Int \X Int
    BY <2>2, <2>3, <2>4
  <2> QED BY <1>2, <2>3, <2>4, <2>5 DEF InRange, Accepted, Operand, Fits
<1>3. CASE op \in {"setvlen", "lra"}
  <2>1. n \in Nat /\ n < 65536
    BY <1>3 DEF Accepted, Operand
  <2>2. v = n
    BY <1>3, <2>1, Residue DEF Encoded
  <2> QED BY <1>3, <2>1, <2>2 DEF InRange, Fits
<1>4. CASE op \in {"ld", "st"}
  <2>1. v = ((n + 32768) % 65536) - 32768 /\ n \in Int
    BY <1>4 DEF Encoded, Signed16, Operand
  <2>2. v \in Int /\ -32768 <= v /\ v < 32768
    BY <2>1
  <2> QED BY <1>4, <2>2 DEF InRange, Accepted, Operand, Fits
<1> QED BY <1>1, <1>2, <1>3, <1>4 DEF Number

LEMMA ModuleMade ==
  ASSUME RoundInv, stage \in Listing
  PROVE  WellMade(module.funcs, module.vars)
<1>1. /\ Typed /\ Generated /\ Live /\ Laid /\ Recorded /\ Amounts /\ Bodies /\ IsSource(src)
      /\ nf \in Nat /\ nv \in Nat /\ IsSeq(module.funcs, nf) /\ IsSeq(module.vars, nv)
      /\ \A i \in 1 .. nf : RowOf(module.funcs[i], vec[i])
      /\ \A i \in 1 .. nv : VarRowOf(module.vars[i], data.vars[i])
  BY Rows DEF RoundInv, IInv, Typed, Listing, Live
<1>2. Len(module.funcs) = nf /\ Len(module.vars) = nv
  BY <1>1 DEF IsSeq
<1>3. ASSUME NEW j \in 1 .. nf, NEW r, r = module.funcs[j]
      PROVE  /\ r.key \in Name /\ r.flags \in {0, NATIVE, EXTERN}
             /\ r.flags # 0 => r.bytes = 8 /\ r.body = << >>
             /\ \E q : IsSeq(r.body, Len(q)) /\ (r.flags = 0 => MadeFrom(r, q))
  <2>1. PICK f : f = vec[j] /\ RowOf(r, f)
    BY <1>1, <1>3
  <2>2. /\ f \in DOMAIN kind /\ f \in DOMAIN code /\ r.key = f /\ f \in Name
        /\ kind[f] \in {"code", "native", "extern"} /\ r.flags = FlagOf[kind[f]]
    <3>1. f \in ToSet(vec) /\ vec \in Seq(Name) /\ IsList(vec)
      BY <1>1, <2>1, VecList DEF RowOf, Typed, TypeOK
    <3>2. f \in Name
      BY <3>1 DEF ToSet, IsList
    <3> QED BY <1>1, <2>1, <3>2 DEF RowOf, Typed, TypeOK
  <2>3. r.flags \in {0, NATIVE, EXTERN} /\ (r.flags # 0 => kind[f] # "code")
    BY <2>2 DEF FlagOf, NATIVE, EXTERN
  <2>4. PICK q : q = code[f]
    OBVIOUS
  <2>5. Follows(q) /\ IsSeq(r.body, Len(q)) /\ IsList(q)
    BY <1>1, <2>1, <2>2, <2>4 DEF RowOf, Laid, Follows
  <2>6. r.flags # 0 => r.bytes = 8 /\ r.body = << >>
    <3> SUFFICES ASSUME r.flags # 0 PROVE r.bytes = 8 /\ r.body = << >>
      OBVIOUS
    <3>1. q = << >>
      BY <1>1, <2>2, <2>3, <2>4 DEF Bodies
    <3>2. IsSeq(r.body, 0)
      BY <2>5, <3>1
    <3>3. r.body = << >>
      BY <3>2 DEF IsSeq
    <3> QED BY <2>1, <3>3 DEF RowOf
  <2>7. r.flags = 0 => MadeFrom(r, q)
    <3> SUFFICES ASSUME r.flags = 0 PROVE MadeFrom(r, q)
      OBVIOUS
    <3>1. r.bytes = Padded(Total(q))
      BY <2>1, <2>4 DEF RowOf, Size, Total
    <3>2. q # << >> => q[1].at = 0
      BY <1>1, <2>2, <2>4 DEF Recorded
    <3>3. ASSUME NEW k \in 1 .. Len(q)
          PROVE  /\ r.body[k] = [op |-> q[k].op, val |-> q[k].val]
                 /\ q[k].op \in Number => Fits(q[k].op, q[k].val)
                 /\ q[k].op = "jmp" => q[k].val \in Int
                 /\ q[k].op \in {"halt", "nop"} => q[k].val = 0
      <4>1. k \in DOMAIN q /\ Means(q[k])
        BY <1>1, <2>2, <2>4, <2>5 DEF Generated, IsList
      <4>2. ASSUME q[k].op \in Number
            PROVE  Fits(q[k].op, q[k].val)
        <5>1. PICK x, op, n : x = q[k] /\ op = x.op /\ n = src[x.pos].arg
          OBVIOUS
        <5>2. /\ src[x.pos].t = "op" /\ src[x.pos].op = op /\ Accepted(op, n) /\ x.val \in Encoded(op, n)
              /\ x.pos \in DOMAIN src /\ op \in Number
          BY <4>1, <4>2, <5>1 DEF Means
        <5>3. Operand(op, n)
          BY <1>1, <5>1, <5>2 DEF IsSource
        <5>4. Fits(op, x.val)
          BY <5>2, <5>3, EncodedFits
        <5> QED BY <5>1, <5>4
      <4>3. q[k].op \in {"halt", "nop"} => q[k].val = 0
        BY <1>1, <2>2, <2>4, <4>1 DEF Recorded
      <4>4. q[k].op = "jmp" => q[k].val \in Int
        BY <1>1, <2>2, <2>4, <4>1 DEF Amounts
      <4>5. r.body[k] = [op |-> q[k].op, val |-> q[k].val]
        BY <2>1, <2>4 DEF RowOf
      <4> QED BY <4>2, <4>3, <4>4, <4>5
    <3> QED BY <2>5, <3>1, <3>2, <3>3 DEF MadeFrom
  <2> QED BY <2>2, <2>3, <2>5, <2>6, <2>7
<1>4. ASSUME NEW k \in 1 .. nv PROVE module.vars[k].bytes \in Nat /\ module.vars[k].bytes % 4 = 0
  <2>1. PICK v : VarRowOf(module.vars[k], v)
    BY <1>1
  <2>2. PICK n \in Nat : n = data.bytes[v]
    BY <1>1, <2>1 DEF VarRowOf, Amounts
  <2>3. Padded(n) \in Nat /\ Padded(n) % 4 = 0
    BY DEF Padded, Align
  <2> QED BY <2>1, <2>2, <2>3 DEF VarRowOf
<1> QED BY <1>2, <1>3, <1>4 DEF WellMade

----------------------------------------------------------------------------
(* The tokens of a listing.                                                *)

SizeAt(s, i, h) ==
  \/ i = 1 /\ s[i] = SizeToken("opstack", h.opstack \div PtrBytes)
  \/ i = 2 /\ s[i] = SizeToken("callstack", h.callstack \div PtrBytes)
  \/ i = 3 /\ s[i] = SizeToken("heap", h.heap)
VarAt(s, i, vs, k)     == k \in 1 .. Len(vs) /\ i = 3 + k /\ s[i] = VarLine(VarLineOf(vs[k]))
IntroAt(s, i, fs, w, j) == fs[j].flags # 0 /\ i = w[j] /\ s[i] = IntroLine(NativeLineOf(fs[j]))
HeadAt(s, i, fs, w, j)  == fs[j].flags = 0 /\ i = w[j] /\ s[i] = HeadLine(fs[j].key)
EndAt(s, i, fs, w, j)   == fs[j].flags = 0 /\ i = w[j] + Height(fs[j]) - 1 /\ s[i] = EndLine
OpAt(s, i, fs, vs, w, j, k) ==
  /\ fs[j].flags = 0 /\ i = w[j] + k /\ k \in 1 .. Height(fs[j]) - 2
  /\ Prints(s[i], fs[j].body[k], fs, vs)
PartAt(s, i, fs, vs, w, j) ==
  IntroAt(s, i, fs, w, j) \/ HeadAt(s, i, fs, w, j) \/ EndAt(s, i, fs, w, j) \/ \E k : OpAt(s, i, fs, vs, w, j, k)

\* What the instructions of a function are.
LEMMA BodyMade ==
  ASSUME NEW fs, NEW vs, WellMade(fs, vs), NEW j \in 1 .. Len(fs), fs[j].flags = 0
  PROVE  \E q, n, l :
           /\ MadeFrom(fs[j], q) /\ n = Len(q) /\ n \in Nat /\ IsSeq(fs[j].body, n)
           /\ Height(fs[j]) = l + 2 /\ l \in 0 .. n
           /\ \A k \in 1 .. l : Listed(fs[j].body)[k] = fs[j].body[k]
           /\ (\A k \in 1 .. n : fs[j].body[k].op # "halt") => l = n
<1>1. PICK q : MadeFrom(fs[j], q)
  BY DEF WellMade
<1>2. PICK n : n = Len(q)
  OBVIOUS
<1>3. IsSeq(fs[j].body, n) /\ n \in Nat
  BY <1>1, <1>2 DEF MadeFrom, Follows, IsList
<1>4. PICK l \in 0 .. n : IsSeq(Listed(fs[j].body), l) /\ \A k \in 1 .. l : Listed(fs[j].body)[k] = fs[j].body[k]
  BY <1>3, ListedPart
<1>5. Len(Listed(fs[j].body)) = l
  BY <1>3, <1>4 DEF IsSeq
<1>6. Height(fs[j]) = l + 2
  BY <1>5 DEF Height
<1>7. ASSUME \A k \in 1 .. n : fs[j].body[k].op # "halt" PROVE l = n
  <2>1. Listed(fs[j].body) = fs[j].body
    BY <1>3, <1>7, ListedPart
  <2>2. Len(fs[j].body) = n
    BY <1>3 DEF IsSeq
  <2> QED BY <1>5, <2>1, <2>2
<1> QED BY <1>1, <1>2, <1>3, <1>4, <1>6, <1>7

LEMMA Parts ==
  ASSUME NEW s, NEW h, NEW fs, NEW vs, NEW w, Describes(s, h, fs, vs, w), WellMade(fs, vs),
         NEW j \in 1 .. Len(fs), NEW i \in 1 .. Len(s), i - w[j] \in 0 .. Height(fs[j]) - 1
  PROVE  PartAt(s, i, fs, vs, w, j)
<1>1. w[j] \in Nat /\ BlockAt(s, w[j], fs[j], fs, vs) /\ i \in Int
  <2>1. Len(s) \in Nat
    BY DEF Describes, IsSeq
  <2>2. w[j] \in Nat /\ BlockAt(s, w[j], fs[j], fs, vs)
    BY DEF Describes
  <2> QED BY <2>1, <2>2
<1>2. CASE fs[j].flags # 0
  <2>1. Height(fs[j]) = 1
    BY <1>2 DEF Height
  <2>2. i = w[j]
    BY <1>1, <2>1
  <2> QED BY <1>1, <1>2, <2>2 DEF BlockAt, PartAt, IntroAt
<1>3. CASE fs[j].flags = 0
  <2>1. PICK l \in Nat : /\ Height(fs[j]) = l + 2
                         /\ \A k \in 1 .. l : Listed(fs[j].body)[k] = fs[j].body[k]
    <3>1. PICK q, n, l : /\ n \in Nat /\ l \in 0 .. n /\ Height(fs[j]) = l + 2
                         /\ \A k \in 1 .. l : Listed(fs[j].body)[k] = fs[j].body[k]
      BY <1>3, BodyMade
    <3>2. l \in Nat
      BY <3>1
    <3> QED BY <3>1, <3>2
  <2>2. PICK a \in Nat : a = w[j]
    BY <1>1
  <2>3. PICK k \in 0 .. l + 1 : k = i - a
    BY <1>1, <2>1, <2>2
  <2>4. i = a + k
    BY <1>1, <2>2, <2>3
  <2>5. CASE k = 0
    <3>1. i = a
      BY <2>2, <2>4, <2>5
    <3> QED BY <1>1, <1>3, <2>2, <3>1 DEF BlockAt, PartAt, HeadAt
  <2>6. CASE k = l + 1
    <3>1. i = a + Height(fs[j]) - 1
      BY <2>1, <2>2, <2>4, <2>6
    <3> QED BY <1>1, <1>3, <2>2, <3>1 DEF BlockAt, PartAt, EndAt
  <2>7. CASE k \in 1 .. l
    <3>1. Prints(s[i], fs[j].body[k], fs, vs)
      BY <1>1, <1>3, <2>1, <2>2, <2>4, <2>7 DEF BlockAt
    <3>2. k \in 1 .. Height(fs[j]) - 2
      BY <2>1, <2>7
    <3>3. OpAt(s, i, fs, vs, w, j, k)
      BY <1>3, <2>2, <2>4, <3>1, <3>2 DEF OpAt
    <3> QED BY <3>3 DEF PartAt
  <2> QED BY <2>1, <2>3, <2>5, <2>6, <2>7
<1> QED BY <1>2, <1>3

LEMMA Tokens ==
  ASSUME NEW s, NEW h, NEW fs, NEW vs, NEW w, Describes(s, h, fs, vs, w), WellMade(fs, vs), Len(vs) \in Nat,
         NEW i \in 1 .. Len(s)
  PROVE  SizeAt(s, i, h) \/ (\E k : VarAt(s, i, vs, k)) \/ \E j \in 1 .. Len(fs) : PartAt(s, i, fs, vs, w, j)
<1>1. CASE i <= 3
  BY <1>1 DEF Describes, SizeAt
<1>2. CASE i > 3 /\ i <= 3 + Len(vs)
  <2>1. PICK k \in 1 .. Len(vs) : i = 3 + k
    <3>1. i - 3 \in 1 .. Len(vs) /\ i = 3 + (i - 3)
      BY <1>2 DEF Describes, IsSeq
    <3> QED BY <3>1
  <2> QED BY <2>1 DEF Describes, VarAt
<1>3. CASE ~(i <= 3 + Len(vs))
  BY <1>3, Parts DEF Describes
<1> QED BY <1>1, <1>2, <1>3 DEF Describes, IsSeq

\* An operation in a listing.
LEMMA OpMade ==
  ASSUME NEW s, NEW fs, NEW vs, WellMade(fs, vs), NEW w, NEW i, NEW j \in 1 .. Len(fs), NEW k,
         OpAt(s, i, fs, vs, w, j, k)
  PROVE  /\ s[i].nl /\ s[i].t = "op" /\ s[i].op \in Op /\ s[i].op = fs[j].body[k].op
         /\ s[i].op \in Number => Operand(s[i].op, s[i].arg)
         /\ s[i].op \in Number /\ Readable(fs[j].body[k]) =>
              InRange(s[i].op, s[i].arg) /\ Accepted(s[i].op, s[i].arg) /\ s[i].arg = fs[j].body[k].val
         /\ s[i].spaced /\ (s[i].op = "setelen" => s[i].arg = "other")
         /\ s[i].op = "jmp" => s[i].arg \in Int
<1>1. PICK q, n, l : /\ MadeFrom(fs[j], q) /\ n = Len(q) /\ n \in Nat /\ Height(fs[j]) = l + 2 /\ l \in 0 .. n
  BY BodyMade DEF OpAt
<1>2. k \in 1 .. l
  BY <1>1 DEF OpAt
<1>3. k \in 1 .. Len(q) /\ k \in DOMAIN q
  BY <1>1, <1>2 DEF MadeFrom, Follows, IsList
<1>4. q[k].op \in Op /\ fs[j].body[k] = [op |-> q[k].op, val |-> q[k].val]
  BY <1>1, <1>3 DEF MadeFrom, Follows
<1>5. PICK op : op = q[k].op
  OBVIOUS
<1>6. Prints(s[i], fs[j].body[k], fs, vs)
  BY DEF OpAt
<1>7. s[i].nl /\ s[i].t = "op" /\ s[i].op = op /\ s[i].spaced /\ (op = "setelen" => s[i].arg = "other")
  BY <1>4, <1>5, <1>6 DEF Prints
<1>8. ASSUME op = "jmp" PROVE s[i].arg \in Int
  <2>1. q[k].val \in Int
    BY <1>1, <1>3, <1>5, <1>8 DEF MadeFrom
  <2>2. fs[j].body[k].op = "jmp" /\ fs[j].body[k].val = q[k].val
    BY <1>4, <1>5, <1>8
  <2>3. s[i].arg = fs[j].body[k].val
    BY <1>6, <2>2 DEF Prints
  <2> QED BY <2>1, <2>2, <2>3
<1>9. ASSUME op \in Number
      PROVE  /\ Operand(op, s[i].arg)
             /\ Readable(fs[j].body[k]) => InRange(op, s[i].arg) /\ Accepted(op, s[i].arg) /\ s[i].arg = q[k].val
  <2>1. Fits(op, q[k].val)
    BY <1>1, <1>3, <1>5, <1>9 DEF MadeFrom
  <2>2. CASE op # "movi"
    <3>1. s[i].arg = q[k].val
      BY <1>4, <1>5, <1>6, <1>9, <2>2 DEF Prints
    <3> QED BY <2>1, <2>2, <3>1 DEF Fits
  <2>3. CASE op = "movi"
    <3>1. PICK a, c : q[k].val = <<a, c>> /\ a \in Int /\ c \in Int /\ c < Int64Half /\ Int64Half \in Nat \ {0}
      BY <2>1, <2>3, AssemblerAssumption DEF Fits, Operand, InRange
    <3>2. s[i].arg = <<a, c % (2 * Int64Half)>>
      BY <1>4, <1>5, <1>6, <2>3, <3>1 DEF Prints
    <3>3. c % (2 * Int64Half) \in Int
      <4>1. 2 * Int64Half \in Nat \ {0}
        BY <3>1
      <4> QED BY <3>1, <4>1
    <3>4. Operand(op, s[i].arg)
      BY <2>3, <3>1, <3>2, <3>3 DEF Operand
    <3>5. c >= 0 => c % (2 * Int64Half) = c
      BY <3>1, Residue
    <3>6. Readable(fs[j].body[k]) => c >= 0
      BY <1>4, <1>5, <2>3, <3>1 DEF Readable
    <3> QED BY <2>1, <2>3, <3>1, <3>2, <3>4, <3>5, <3>6 DEF Fits
  <2> QED BY <2>2, <2>3
<1> QED BY <1>4, <1>5, <1>7, <1>8, <1>9

LEMMA PrintedData == ASSUME NEW n \in Nat PROVE Printed(n) \in Seq(Nat)
<1>1. n \div 8 \in Nat /\ n % 8 \in Nat
  OBVIOUS
<1>2. [i \in 1 .. n \div 8 |-> 8] \in Seq(Nat)
  BY <1>1
<1>3. << n % 8 >> \in Seq(Nat) /\ << >> \in Seq(Nat)
  BY <1>1
<1> HIDE DEF Printed
<1>4. \A a, b \in Seq(Nat) : a \o b \in Seq(Nat)
  OBVIOUS
<1> QED BY <1>2, <1>3, <1>4 DEF Printed

\* A listing is a source.
LEMMA IsListing ==
  ASSUME NEW s, NEW h \in Header, NEW fs, NEW vs, NEW w, Describes(s, h, fs, vs, w), WellMade(fs, vs),
         Len(vs) \in Nat
  PROVE  IsSource(s) /\ \A i \in 1 .. Len(s) : s[i].nl
<1>1. DOMAIN s = 1 .. Len(s) /\ Len(s) \in Nat
  BY DEF Describes, IsSeq
<1>2. ASSUME NEW i \in 1 .. Len(s)
      PROVE  /\ s[i].nl
             /\ s[i].t \in {"native", "extern", "func"} => s[i].name \in Name
             /\ s[i].t # "label"
             /\ s[i].t = "op" => /\ s[i].op \in Op
                                 /\ s[i].op \in Number => Operand(s[i].op, s[i].arg)
                                 /\ s[i].spaced /\ (s[i].op = "setelen" => s[i].arg = "other")
                                 /\ s[i].op = "jmp" => s[i].arg \in Int
             /\ s[i].t = "size" => s[i].which \in DOMAIN Unit /\ s[i].num \in Int
             /\ s[i].t = "global" => s[i].bytes \in Nat /\ s[i].data \in Seq(Nat)
  <2>1. CASE SizeAt(s, i, h)
    <3>1. PICK which, n : s[i] = SizeToken(which, n) /\ which \in DOMAIN Unit /\ n \in Nat
      <4>1. h.opstack \div PtrBytes \in Nat /\ h.callstack \div PtrBytes \in Nat /\ h.heap \in Nat
        BY SMTT(30) DEF Header, PtrBytes
      <4> QED BY <2>1, <4>1, Units DEF SizeAt
    <3>2. Signed(n) \in Int
      BY <3>1, LayoutAssumption DEF Signed
    <3>3. s[i].nl /\ s[i].t = "size" /\ s[i].which = which /\ s[i].num = Signed(n)
      BY <3>1 DEF SizeToken
    <3> QED BY <3>1, <3>2, <3>3
  <2>2. ASSUME NEW k, VarAt(s, i, vs, k)
        PROVE  s[i].nl /\ s[i].t = "global" /\ s[i].bytes \in Nat /\ s[i].data \in Seq(Nat)
    <3>1. vs[k].bytes \in Nat
      BY <2>2 DEF VarAt, WellMade
    <3>2. Printed(vs[k].bytes) \in Seq(Nat)
      BY <3>1, PrintedData
    <3>3. s[i] = [nl |-> TRUE, t |-> "global", name |-> vs[k].key, bytes |-> vs[k].bytes, data |-> Printed(vs[k].bytes)]
      BY <2>2 DEF VarAt, VarLine, VarLineOf
    <3> QED BY <3>1, <3>2, <3>3
  <2>3. ASSUME NEW j \in 1 .. Len(fs), PartAt(s, i, fs, vs, w, j)
        PROVE  /\ s[i].nl /\ s[i].t \in {"native", "extern", "func", "end", "op"}
               /\ s[i].t \in {"native", "extern", "func"} => s[i].name \in Name
               /\ s[i].t = "op" => /\ s[i].op \in Op
                                   /\ s[i].op \in Number => Operand(s[i].op, s[i].arg)
                                   /\ s[i].spaced /\ (s[i].op = "setelen" => s[i].arg = "other")
                                   /\ s[i].op = "jmp" => s[i].arg \in Int
    <3>1. fs[j].key \in Name
      BY DEF WellMade
    <3>2. CASE IntroAt(s, i, fs, w, j)
      <4>1. s[i].nl /\ s[i].t \in {"native", "extern"} /\ s[i].name = fs[j].key
        BY <3>2 DEF IntroAt, IntroLine, NativeLineOf
      <4> QED BY <3>1, <4>1
    <3>3. CASE HeadAt(s, i, fs, w, j)
      BY <3>1, <3>3 DEF HeadAt, HeadLine
    <3>4. CASE EndAt(s, i, fs, w, j)
      BY <3>4 DEF EndAt, EndLine
    <3>5. CASE \E k : OpAt(s, i, fs, vs, w, j, k)
      <4>1. PICK k : OpAt(s, i, fs, vs, w, j, k)
        BY <3>5
      <4> QED BY <4>1, OpMade
    <3> QED BY <2>3, <3>2, <3>3, <3>4, <3>5 DEF PartAt
  <2> QED BY <2>1, <2>2, <2>3, Tokens
<1>3. \A i \in 1 .. Len(s) : s[i].t = "func" => ~StandsBehind(s, i, Directives)
  BY <1>2, LineStart
<1> QED BY <1>1, <1>2, <1>3 DEF IsSource

----------------------------------------------------------------------------
(* The tools in a row.                                                     *)

\* A source that nothing has been read of yet.
Begins == IsSource(src) /\ Unread /\ stage = "waiting" /\ Fresh

LEMMA Begun == Begins => RoundInv
<1> SUFFICES ASSUME Begins PROVE RoundInv
  OBVIOUS
<1>1. IsSource(src) /\ Unread /\ stage = "waiting" /\ Fresh
  BY DEF Begins
<1>2. IInv /\ JInv /\ VInv /\ Recorded
  BY <1>1, InitIInv, InitJInv, InitVInv, InitRecorded
<1>3. Laid /\ Amounts /\ Bodies
  BY <1>1 DEF Unread, NoData, Laid, Amounts, Bodies, Seen, PtrBytes
<1>4. pass \notin {"write", "done"} /\ funcs = NoBuffer /\ globals = NoBuffer
  BY <1>1 DEF Unread, Fresh
<1> QED BY <1>1, <1>2, <1>3, <1>4 DEF RoundInv

LEMMA BegunNext == Begins' => RoundInv'
  BY Begun, PTL

LEMMA ReadAgain == ASSUME RoundInv, Reassemble PROVE RoundInv'
<1>1. PICK s : s = SizeLines \o Each(listing.vars, VarLine) \o Each(listing.nbc, IntroLine)
                   \o FlattenSeq(Each(listing.bc, FuncLines))
  OBVIOUS
<1>2. src' = s /\ stage = "listed" /\ UNCHANGED <<funcs, globals>>
  BY <1>1 DEF Reassemble
<1>3. PICK w : Describes(s, hdr, module.funcs, module.vars, w)
  BY <1>1, <1>2, ListingDescribes
<1>4. stage \in Listing /\ stage \notin Writing
  BY <1>2 DEF Listing, Writing
<1>5. WellMade(module.funcs, module.vars)
  BY <1>4, ModuleMade
<1>6. hdr \in Header /\ Len(module.vars) \in Nat
  <2>1. nv \in Nat /\ IsSeq(module.vars, nv)
    BY <1>4, Rows
  <2>2. Len(module.vars) = nv
    BY <2>1 DEF IsSeq
  <2> QED BY <1>2, <2>1, <2>2 DEF RoundInv, FileInv
<1>7. IsSource(s)
  BY <1>3, <1>5, <1>6, IsListing
<1>8. Unread' /\ stage' = "waiting"
  BY DEF Reassemble, Unread
<1>9. Fresh'
  BY <1>2, <1>4 DEF Reassemble, Fresh, RoundInv
<1>10. Begins'
  BY <1>2, <1>7, <1>8, <1>9 DEF Begins
<1> QED BY <1>10, BegunNext

\* The inductive invariant of the tools in a row.
ToolInv == round \in Nat /\ RoundInv

LEMMA ToolStep ==
  ASSUME CharsCounted, WholeWords, ToolInv, [ToolNext]_tvars
  PROVE  ToolInv'
<1>1. RoundInv /\ round \in Nat
  BY DEF ToolInv
<1>2. CASE Reassemble
  <2>1. round' \in Nat
    BY <1>1, <1>2 DEF Reassemble
  <2> QED BY <1>1, <1>2, <2>1, ReadAgain DEF ToolInv
<1>3. CASE Assemble \/ Handover \/ UseFile \/ ToolsEnd \/ UNCHANGED tvars
  <2>1. round' = round
    BY <1>3 DEF Assemble, Handover, UseFile, ToolsEnd, tvars
  <2> QED BY <1>1, <1>3, <2>1, RoundStep DEF ToolInv
<1> QED BY <1>2, <1>3 DEF ToolNext

\* What holds of every source that is assembled, written, loaded and listed.
Toolchained ==
  /\ TypeOK /\ OperandsKept /\ Decodes
  /\ KeysApart => AcceptsValid /\ JumpsLand
  /\ stage # "waiting" => IsScript(script)
  /\ EnoughMemory /\ SegmentsApart /\ LoadedAsWritten /\ ListedAsLoaded

\* The assembler only hands over what the generator and the loader take for granted, and the
\* disassembler only prints what the assembler reads as a source, so that what has been shown of
\* each tool holds of all of them in a row: for every source, and for the listings that are
\* assembled again, however often (assembler.c:962-1030, module_gen.h, tagha.c:56-209,
\* disassembler.c).
THEOREM ToolsInARow == CharsCounted /\ WholeWords => (ToolSpec => []Toolchained)
<1> SUFFICES ASSUME CharsCounted, WholeWords PROVE ToolSpec => []Toolchained
  OBVIOUS
<1>1. ToolInit => ToolInv
  <2> SUFFICES ASSUME ToolInit PROVE ToolInv
    OBVIOUS
  <2>1. Init /\ Blank /\ stage = "waiting" /\ round = 0
    BY DEF ToolInit
  <2>2. Begins
    BY <2>1, InitSource DEF Begins, Blank, Fresh
  <2> QED BY <2>1, <2>2, Begun DEF ToolInv
<1>2. ToolInv /\ [ToolNext]_tvars => ToolInv'
  BY ToolStep
<1>3. ToolInv => Toolchained
  <2> SUFFICES ASSUME RoundInv PROVE Toolchained
    BY DEF ToolInv
  <2>1. TypeOK /\ OperandsKept /\ Decodes
    BY DoneKept, LaidDecodes DEF RoundInv, IInv, Typed, OperandsKept
  <2>2. KeysApart => AcceptsValid /\ JumpsLand
    BY Verdict, JumpsReach DEF RoundInv, KeysFit
  <2>3. CASE stage = "waiting"
    BY <2>1, <2>2, <2>3 DEF Toolchained, EnoughMemory, SegmentsApart, LoadedAsWritten, ListedAsLoaded
  <2>4. CASE stage # "waiting"
    <3>1. FileInv /\ Filling /\ Walking
      BY <2>4 DEF RoundInv
    <3>2. IsScript(script)
      BY <3>1 DEF FileInv
    <3> QED BY <2>1, <2>2, <3>1, <3>2, MemoryEnough, BlocksLieApart, TablesRead, Listings DEF Toolchained
  <2> QED BY <2>3, <2>4
<1> QED BY <1>1, <1>2, <1>3, PTL DEF ToolSpec
----------------------------------------------------------------------------
(* A listing is a valid source.                                            *)

\* A header and tables whose listing is a source of the same module.
Tame(h, fs, vs) ==
  /\ h \in Header /\ IsSeq(fs, Len(fs)) /\ IsSeq(vs, Len(vs)) /\ WellMade(fs, vs)
  /\ \A z \in {h.opstack, h.callstack} : z \in 1 .. UintMax - 1 /\ z % PtrBytes = 0
  /\ Sized(h.heap) < UintMax \div 2
  /\ Distinct(Keys(fs)) /\ Distinct(Keys(vs))
  /\ \A j \in 1 .. Len(fs) :
       /\ \A k \in DOMAIN fs[j].body : Readable(fs[j].body[k])
       /\ Named(fs[j].body, Len(fs), Len(vs))
Told(s, h, fs, vs, w) == Describes(s, h, fs, vs, w) /\ Tame(h, fs, vs)

\* What is told is a source in which every token begins a line.
LEMMA ToldSource ==
  ASSUME NEW s, NEW h, NEW fs, NEW vs, NEW w, Told(s, h, fs, vs, w)
  PROVE  /\ IsSource(s) /\ Len(s) \in Nat /\ DOMAIN s = 1 .. Len(s)
         /\ \A i \in 1 .. Len(s) : s[i].nl /\ \A kinds : ~StandsBehind(s, i, kinds)
         /\ Len(fs) \in Nat /\ DOMAIN fs = 1 .. Len(fs) /\ Len(vs) \in Nat /\ DOMAIN vs = 1 .. Len(vs)
         /\ h \in Header /\ WellMade(fs, vs) /\ Describes(s, h, fs, vs, w)
<1>1. /\ Describes(s, h, fs, vs, w) /\ h \in Header /\ WellMade(fs, vs)
      /\ IsSeq(s, Len(s)) /\ IsSeq(fs, Len(fs)) /\ IsSeq(vs, Len(vs))
  BY DEF Told, Tame, Describes
<1>2. /\ Len(s) \in Nat /\ DOMAIN s = 1 .. Len(s)
      /\ Len(fs) \in Nat /\ DOMAIN fs = 1 .. Len(fs) /\ Len(vs) \in Nat /\ DOMAIN vs = 1 .. Len(vs)
  BY <1>1 DEF IsSeq
<1>3. IsSource(s) /\ \A i \in 1 .. Len(s) : s[i].nl
  BY <1>1, <1>2, IsListing
<1>4. \A i \in 1 .. Len(s) : \A kinds : ~StandsBehind(s, i, kinds)
  BY <1>2, <1>3, LineStart
<1> QED BY <1>1, <1>2, <1>3, <1>4

\* All operations of a function are listed.
LEMMA ToldBody ==
  ASSUME NEW s, NEW h, NEW fs, NEW vs, NEW w, Told(s, h, fs, vs, w), NEW j \in 1 .. Len(fs), fs[j].flags = 0
  PROVE  \E q, n : /\ MadeFrom(fs[j], q) /\ n = Len(q) /\ n \in Nat /\ IsSeq(fs[j].body, n)
                   /\ DOMAIN fs[j].body = 1 .. n /\ Height(fs[j]) = n + 2
<1>1. WellMade(fs, vs)
  BY ToldSource
<1>2. PICK q, n, l : /\ MadeFrom(fs[j], q) /\ n = Len(q) /\ n \in Nat /\ IsSeq(fs[j].body, n)
                     /\ Height(fs[j]) = l + 2
                     /\ (\A k \in 1 .. n : fs[j].body[k].op # "halt") => l = n
  BY <1>1, BodyMade
<1>3. DOMAIN fs[j].body = 1 .. n
  BY <1>2 DEF IsSeq
<1>4. \A k \in 1 .. n : fs[j].body[k].op # "halt"
  BY <1>3 DEF Told, Tame, Readable
<1> QED BY <1>2, <1>3, <1>4

\* In a block of tokens of a function the scanner is in that function.
LEMMA WithinBlock ==
  ASSUME NEW s, NEW h, NEW fs, NEW vs, NEW w, Told(s, h, fs, vs, w), NEW j \in 1 .. Len(fs), fs[j].flags = 0
  PROVE  \A k \in 1 .. Height(fs[j]) - 1 : Around(s, w[j] + k) = fs[j].key
<1>1. IsSource(s) /\ Len(s) \in Nat /\ Describes(s, h, fs, vs, w) /\ WellMade(fs, vs)
  BY ToldSource
<1>2. PICK n \in Nat : Height(fs[j]) = n + 2
  BY ToldBody
<1>3. PICK a \in Nat : /\ a = w[j] /\ a > 0 /\ a + (n + 2) <= Len(s) + 1
                       /\ BlockAt(s, a, fs[j], fs, vs)
  <2>1. w[j] \in Nat /\ 3 + Len(vs) < w[j] /\ w[j] + Height(fs[j]) <= Len(s) + 1 /\ BlockAt(s, w[j], fs[j], fs, vs)
    BY <1>1 DEF Describes
  <2>2. Len(vs) \in Nat
    BY ToldSource
  <2> QED BY <1>2, <2>1, <2>2
<1>4. s[a] = HeadLine(fs[j].key) /\ \A k \in 1 .. n : s[a + k].t = "op"
  <2>1. \A k \in 1 .. Height(fs[j]) - 2 : s[a + k].t = "op"
    BY <1>3 DEF BlockAt, Prints
  <2> QED BY <1>2, <1>3, <2>1 DEF BlockAt
<1>5. s[a].t = "func" /\ s[a].name = fs[j].key /\ a \in 1 .. Len(s)
  BY <1>3, <1>4 DEF HeadLine
<1>6. Around(s, a + 1) = fs[j].key
  BY <1>1, <1>5, AroundNext
<1> DEFINE bad == {k \in 1 .. n + 1 : Around(s, a + k) # fs[j].key}
<1>7. bad = {}
  <2> SUFFICES ASSUME bad # {} PROVE FALSE
    OBVIOUS
  <2>1. bad \in SUBSET Nat
    OBVIOUS
  <2>2. PICK k \in bad : \A l \in bad : k <= l
    <3> HIDE DEF bad
    <3> QED BY <2>1, Least
  <2>3. k \in 1 .. n + 1 /\ Around(s, a + k) # fs[j].key
    OBVIOUS
  <2>4. k # 1
    BY <1>6, <2>3
  <2>5. PICK m \in 1 .. n : k = m + 1
    <3>1. k - 1 \in 1 .. n /\ k = (k - 1) + 1
      BY <2>3, <2>4
    <3> QED BY <3>1
  <2>6. Around(s, a + m) = fs[j].key
    <3>1. m \notin bad
      BY <2>2, <2>5
    <3>2. m \in 1 .. n + 1
      OBVIOUS
    <3> QED BY <3>1, <3>2
  <2>7. a + m \in 1 .. Len(s) /\ s[a + m].t = "op" /\ a + k = (a + m) + 1
    <3>1. PICK e \in Nat : e = Len(s) /\ a + (n + 2) <= e + 1
      BY <1>1, <1>3
    <3>2. a + m \in 1 .. e
      BY <3>1
    <3>3. a + k = (a + m) + 1
      BY <2>5
    <3> QED BY <1>4, <2>5, <3>1, <3>2, <3>3
  <2>8. Around(s, (a + m) + 1) = Around(s, a + m)
    BY <1>1, <2>7, AroundNext
  <2> QED BY <2>3, <2>6, <2>7, <2>8
<1>8. \A k \in 1 .. n + 1 : Around(s, a + k) = fs[j].key
  BY <1>7
<1> QED BY <1>2, <1>3, <1>8

\* Elsewhere it is in none.
LEMMA OutsideBlocks ==
  ASSUME NEW s, NEW h, NEW fs, NEW vs, NEW w, Told(s, h, fs, vs, w), NEW i \in 1 .. Len(s),
         s[i].t \notin {"op", "end"}
  PROVE  Around(s, i) = NONE
<1>1. IsSource(s) /\ Len(s) \in Nat /\ Describes(s, h, fs, vs, w) /\ WellMade(fs, vs) /\ Len(vs) \in Nat
  BY ToldSource
<1> DEFINE Within(x, j) == fs[j].flags = 0 /\ \E k \in 1 .. Height(fs[j]) - 1 : x = w[j] + k
           bad == {x \in 1 .. i : Around(s, x) # NONE /\ \A j \in 1 .. Len(fs) : ~Within(x, j)}
<1>2. ASSUME NEW x \in 1 .. Len(s), NEW j \in 1 .. Len(fs), Within(x, j)
      PROVE  /\ s[x].t \in {"op", "end"}
             /\ s[x].t = "op" => Within(x + 1, j)
  <2>1. PICK n \in Nat : Height(fs[j]) = n + 2
    BY <1>2, ToldBody
  <2>2. PICK k \in 1 .. n + 1 : x = w[j] + k
    BY <1>2, <2>1
  <2>3. w[j] \in Nat /\ BlockAt(s, w[j], fs[j], fs, vs)
    BY <1>1 DEF Describes
  <2>4. CASE k = n + 1
    <3>1. w[j] + Height(fs[j]) - 1 = x
      BY <2>1, <2>2, <2>3, <2>4
    <3>2. s[x] = EndLine
      BY <1>2, <2>3, <3>1 DEF BlockAt
    <3>3. s[x].t = "end"
      BY <3>2 DEF EndLine
    <3> QED BY <3>3
  <2>5. CASE k # n + 1
    <3>1. k \in 1 .. Height(fs[j]) - 2 /\ k + 1 \in 1 .. Height(fs[j]) - 1
      BY <2>1, <2>2, <2>5
    <3>2. s[x].t = "op"
      BY <1>2, <2>2, <2>3, <3>1 DEF BlockAt, Prints
    <3>3. x + 1 = w[j] + (k + 1)
      <4>1. PICK a \in Nat : a = w[j]
        BY <2>3
      <4>2. x = a + k /\ k \in Int
        BY <2>1, <2>2, <4>1
      <4>3. x + 1 = a + (k + 1)
        BY <4>2
      <4> QED BY <4>1, <4>3, Zenon
    <3>4. Within(x + 1, j)
      BY <1>2, <3>1, <3>3
    <3> QED BY <3>2, <3>4
  <2> QED BY <2>4, <2>5
<1>3. ASSUME NEW x \in 1 .. Len(s), s[x].t = "func"
      PROVE  \E j \in 1 .. Len(fs) : Within(x + 1, j)
  <2>1. PICK j \in 1 .. Len(fs) : HeadAt(s, x, fs, w, j)
    <3>1. ~SizeAt(s, x, h)
      BY <1>3 DEF SizeAt, SizeToken
    <3>2. ASSUME NEW k PROVE ~VarAt(s, x, vs, k)
      BY <1>3 DEF VarAt, VarLine
    <3>3. PICK j \in 1 .. Len(fs) : PartAt(s, x, fs, vs, w, j)
      BY <1>1, <3>1, <3>2, Tokens
    <3>4. ~IntroAt(s, x, fs, w, j)
      BY <1>3 DEF IntroAt, IntroLine
    <3>5. ~EndAt(s, x, fs, w, j)
      BY <1>3 DEF EndAt, EndLine
    <3>6. ASSUME NEW k PROVE ~OpAt(s, x, fs, vs, w, j, k)
      BY <1>3 DEF OpAt, Prints
    <3> QED BY <3>3, <3>4, <3>5, <3>6 DEF PartAt
  <2>2. fs[j].flags = 0 /\ x = w[j]
    BY <2>1 DEF HeadAt
  <2>3. PICK n \in Nat : Height(fs[j]) = n + 2
    BY <2>2, ToldBody
  <2>4. 1 \in 1 .. Height(fs[j]) - 1 /\ x + 1 = w[j] + 1
    BY <2>2, <2>3
  <2> QED BY <2>2, <2>4
<1>4. bad = {}
  <2> SUFFICES ASSUME bad # {} PROVE FALSE
    OBVIOUS
  <2>1. bad \in SUBSET Nat
    OBVIOUS
  <2>2. PICK x \in bad : \A y \in bad : x <= y
    <3> HIDE DEF bad
    <3> QED BY <2>1, Least
  <2>3. x \in 1 .. i /\ Around(s, x) # NONE /\ \A j \in 1 .. Len(fs) : ~Within(x, j)
    OBVIOUS
  <2>4. x # 1
    BY <1>1, <2>3, AroundNext
  <2>5. PICK y \in 1 .. i : x = y + 1 /\ y \in 1 .. Len(s) /\ y < x
    <3>1. x - 1 \in 1 .. i /\ x = (x - 1) + 1 /\ x - 1 \in 1 .. Len(s) /\ x - 1 < x
      BY <1>1, <2>3, <2>4
    <3> QED BY <3>1
  <2>6. Around(s, y + 1) = IF s[y].t = "func" THEN s[y].name
                           ELSE IF s[y].t = "end" THEN NONE ELSE Around(s, y)
    BY <1>1, <2>5, AroundNext
  <2>7. s[y].t # "func" /\ s[y].t # "end" /\ Around(s, y) # NONE
    BY <1>3, <2>3, <2>5, <2>6
  <2>8. y \notin bad
    BY <2>2, <2>5
  <2>9. PICK j \in 1 .. Len(fs) : Within(y, j)
    BY <2>7, <2>8
  <2>10. Within(x, j)
    BY <1>2, <2>5, <2>7, <2>9
  <2> QED BY <2>3, <2>10
<1> SUFFICES ASSUME Around(s, i) # NONE PROVE FALSE
  OBVIOUS
<1>5. PICK j \in 1 .. Len(fs) : Within(i, j)
  BY <1>1, <1>4
<1> QED BY <1>2, <1>5

\* What a token is tells which line of the listing it is.
LEMMA Kinds ==
  ASSUME NEW s, NEW h, NEW fs, NEW vs, NEW w, Told(s, h, fs, vs, w), NEW i \in 1 .. Len(s)
  PROVE  /\ s[i].t \in {"size", "global", "native", "extern", "func", "op", "end"}
         /\ s[i].t = "size" => SizeAt(s, i, h)
         /\ s[i].t = "global" => \E k : VarAt(s, i, vs, k)
         /\ s[i].t \in {"func", "native", "extern"} =>
              \E j \in 1 .. Len(fs) : i = w[j] /\ s[i].name = fs[j].key
         /\ s[i].t = "op" => \E j \in 1 .. Len(fs) : \E k : OpAt(s, i, fs, vs, w, j, k)
         /\ s[i].t = "end" => \E j \in 1 .. Len(fs) : EndAt(s, i, fs, w, j)
<1>1. Describes(s, h, fs, vs, w) /\ WellMade(fs, vs) /\ Len(vs) \in Nat
  BY ToldSource
<1>2. ASSUME SizeAt(s, i, h) PROVE s[i].t = "size"
  BY <1>2 DEF SizeAt, SizeToken
<1>3. ASSUME NEW k, VarAt(s, i, vs, k) PROVE s[i].t = "global"
  BY <1>3 DEF VarAt, VarLine
<1>4. ASSUME NEW j, IntroAt(s, i, fs, w, j)
      PROVE  s[i].t \in {"native", "extern"} /\ i = w[j] /\ s[i].name = fs[j].key
  BY <1>4 DEF IntroAt, IntroLine, NativeLineOf
<1>5. ASSUME NEW j, HeadAt(s, i, fs, w, j) PROVE s[i].t = "func" /\ i = w[j] /\ s[i].name = fs[j].key
  BY <1>5 DEF HeadAt, HeadLine
<1>6. ASSUME NEW j, EndAt(s, i, fs, w, j) PROVE s[i].t = "end"
  BY <1>6 DEF EndAt, EndLine
<1>7. ASSUME NEW j, NEW k, OpAt(s, i, fs, vs, w, j, k) PROVE s[i].t = "op"
  BY <1>7 DEF OpAt, Prints
<1>8. CASE SizeAt(s, i, h)
  BY <1>2, <1>8
<1>9. CASE \E k : VarAt(s, i, vs, k)
  BY <1>3, <1>9
<1>10. CASE \E j \in 1 .. Len(fs) : PartAt(s, i, fs, vs, w, j)
  <2>1. PICK j \in 1 .. Len(fs) : PartAt(s, i, fs, vs, w, j)
    BY <1>10
  <2>2. CASE IntroAt(s, i, fs, w, j)
    BY <1>4, <2>2
  <2>3. CASE HeadAt(s, i, fs, w, j)
    BY <1>5, <2>3
  <2>4. CASE EndAt(s, i, fs, w, j)
    BY <1>6, <2>4
  <2>5. CASE \E k : OpAt(s, i, fs, vs, w, j, k)
    BY <1>7, <2>5
  <2> QED BY <2>1, <2>2, <2>3, <2>4, <2>5 DEF PartAt
<1> QED BY <1>1, <1>8, <1>9, <1>10, Tokens

\* Where a function is declared.
LEMMA Opens ==
  ASSUME NEW s, NEW h, NEW fs, NEW vs, NEW w, Told(s, h, fs, vs, w), NEW j \in 1 .. Len(fs)
  PROVE  /\ w[j] \in 1 .. Len(s) /\ s[w[j]].name = fs[j].key
         /\ fs[j].flags \in {0, NATIVE, EXTERN}
         /\ s[w[j]].t = IF fs[j].flags = 0 THEN "func" ELSE IF fs[j].flags = EXTERN THEN "extern" ELSE "native"
<1>1. Describes(s, h, fs, vs, w) /\ WellMade(fs, vs) /\ Len(vs) \in Nat /\ Len(s) \in Nat
  BY ToldSource
<1>2. PICK a \in Nat : a = w[j] /\ 3 + Len(vs) < a /\ a + Height(fs[j]) <= Len(s) + 1
                       /\ BlockAt(s, a, fs[j], fs, vs)
  BY <1>1 DEF Describes
<1>3. Height(fs[j]) \in Nat /\ Height(fs[j]) > 0
  <2>1. CASE fs[j].flags = 0
    <3>1. PICK n \in Nat : Height(fs[j]) = n + 2
      BY <2>1, ToldBody
    <3> QED BY <3>1
  <2>2. CASE fs[j].flags # 0
    BY <2>2 DEF Height
  <2> QED BY <2>1, <2>2
<1>4. a \in 1 .. Len(s)
  <2>1. PICK e \in Nat, v \in Nat, g \in Nat : e = Len(s) /\ v = Len(vs) /\ g = Height(fs[j])
    BY <1>1, <1>3
  <2>2. 3 + v < a /\ a + g <= e + 1 /\ g > 0
    BY <1>2, <1>3, <2>1
  <2>3. a \in 1 .. e
    BY <2>2
  <2> QED BY <2>1, <2>3
<1>5. fs[j].flags \in {0, NATIVE, EXTERN}
  BY <1>1 DEF WellMade
<1>6. CASE fs[j].flags = 0
  <2>1. s[a] = HeadLine(fs[j].key)
    BY <1>2, <1>6 DEF BlockAt
  <2> QED BY <1>2, <1>4, <1>5, <1>6, <2>1 DEF HeadLine
<1>7. CASE fs[j].flags # 0
  <2>1. s[a] = IntroLine(NativeLineOf(fs[j]))
    BY <1>2, <1>7 DEF BlockAt
  <2>2. /\ s[a].name = fs[j].key
        /\ s[a].t = IF fs[j].flags = EXTERN THEN "extern" ELSE "native"
    BY <2>1 DEF IntroLine, NativeLineOf
  <2> QED BY <1>2, <1>4, <1>5, <1>7, <2>2
<1> QED BY <1>6, <1>7

\* An operation in a listing, and the function it is of.
LEMMA Ops ==
  ASSUME NEW s, NEW h, NEW fs, NEW vs, NEW w, Told(s, h, fs, vs, w), NEW i \in 1 .. Len(s), s[i].t = "op"
  PROVE  \E j \in 1 .. Len(fs) : \E k \in DOMAIN fs[j].body :
           fs[j].flags = 0 /\ i = w[j] + k /\ OpAt(s, i, fs, vs, w, j, k) /\ Around(s, i) = fs[j].key
<1>1. PICK j \in 1 .. Len(fs) : \E k : OpAt(s, i, fs, vs, w, j, k)
  BY Kinds
<1>2. PICK k : OpAt(s, i, fs, vs, w, j, k)
  BY <1>1
<1>3. fs[j].flags = 0 /\ i = w[j] + k /\ k \in 1 .. Height(fs[j]) - 2
  BY <1>2 DEF OpAt
<1>4. PICK n \in Nat : DOMAIN fs[j].body = 1 .. n /\ Height(fs[j]) = n + 2
  BY <1>3, ToldBody
<1>5. k \in DOMAIN fs[j].body /\ k \in 1 .. Height(fs[j]) - 1
  BY <1>3, <1>4
<1>6. Around(s, w[j] + k) = fs[j].key
  BY <1>3, <1>5, WithinBlock
<1> QED BY <1>2, <1>3, <1>5, <1>6

\* Keys are different, so a name belongs to one function or one variable.
LEMMA SameKey ==
  ASSUME NEW s, NEW h, NEW fs, NEW vs, NEW w, Told(s, h, fs, vs, w)
  PROVE  /\ \A i, j \in 1 .. Len(fs) : fs[i].key = fs[j].key => i = j
         /\ \A i, j \in 1 .. Len(vs) : vs[i].key = vs[j].key => i = j
  BY ToldSource DEF Told, Tame, Distinct, Keys

\* The sizes that are printed are read as what they were.
LEMMA StackPrinted ==
  ASSUME NEW z \in 1 .. UintMax - 1, z % PtrBytes = 0
  PROVE  /\ Signed(z \div PtrBytes) \in Nat /\ Signed(z \div PtrBytes) * PtrBytes = z
         /\ z \in Nat /\ z < UintMax
<1>1. UintMax \in Nat /\ UintMax > 4096
  BY LayoutAssumption
<1>2. PICK a \in Nat : a = z \div 8 /\ z = 8 * a
  <2>1. z \in Nat /\ z % 8 = 0
    BY <1>1 DEF PtrBytes
  <2>2. z \div 8 \in Nat /\ z = 8 * (z \div 8)
    BY <2>1
  <2> QED BY <2>2
<1>3. a < UintMax \div 2
  <2>1. 8 * a < UintMax /\ a > 0
    BY <1>1, <1>2
  <2> QED BY <1>1, <2>1
<1>4. Signed(a) = a
  BY <1>3 DEF Signed
<1>5. a * 8 = z /\ z < UintMax /\ z \in Nat
  BY <1>1, <1>2
<1> QED BY <1>2, <1>4, <1>5 DEF PtrBytes

\* The first three tokens are the sizes of the header.
LEMMA SizesPrinted ==
  ASSUME NEW s, NEW h, NEW fs, NEW vs, NEW w, Told(s, h, fs, vs, w)
  PROVE  \A i \in 1 .. 3 :
           LET which == s[i].which IN
           /\ s[i].t = "size" /\ which = <<"opstack", "callstack", "heap">>[i] /\ s[i].num \in Nat
           /\ s[i].num * Unit[which] = h[which] /\ h[which] \in Nat /\ h[which] < UintMax
<1>1. /\ s[1] = SizeToken("opstack", h.opstack \div PtrBytes)
      /\ s[2] = SizeToken("callstack", h.callstack \div PtrBytes)
      /\ s[3] = SizeToken("heap", h.heap)
  BY DEF Told, Describes
<1>2. /\ h.opstack \in 1 .. UintMax - 1 /\ h.opstack % PtrBytes = 0
      /\ h.callstack \in 1 .. UintMax - 1 /\ h.callstack % PtrBytes = 0
      /\ h.heap \in Nat /\ Sized(h.heap) < UintMax \div 2
  BY DEF Told, Tame, Header
<1>3. Unit["opstack"] = PtrBytes /\ Unit["callstack"] = PtrBytes /\ Unit["heap"] = 1
  BY DEF Unit
<1>4. /\ s[1].t = "size" /\ s[1].which = "opstack" /\ s[1].num \in Nat
      /\ s[1].num * Unit["opstack"] = h["opstack"] /\ h["opstack"] \in Nat /\ h["opstack"] < UintMax
  BY <1>1, <1>2, <1>3, StackPrinted DEF SizeToken
<1>5. /\ s[2].t = "size" /\ s[2].which = "callstack" /\ s[2].num \in Nat
      /\ s[2].num * Unit["callstack"] = h["callstack"] /\ h["callstack"] \in Nat /\ h["callstack"] < UintMax
  BY <1>1, <1>2, <1>3, StackPrinted DEF SizeToken
<1>6. Signed(h.heap) = h.heap /\ h.heap < UintMax
  <2>1. UintMax \in Nat /\ UintMax > 4096
    BY LayoutAssumption
  <2>2. h.heap < UintMax \div 2
    BY <1>2, <2>1 DEF Sized, DefaultMemsize
  <2> QED BY <1>2, <2>1, <2>2 DEF Signed
<1>7. /\ s[3].t = "size" /\ s[3].which = "heap" /\ s[3].num \in Nat
      /\ s[3].num * Unit["heap"] = h["heap"] /\ h["heap"] \in Nat /\ h["heap"] < UintMax
  <2>1. s[3].t = "size" /\ s[3].which = "heap" /\ s[3].num = h.heap
    BY <1>1, <1>6 DEF SizeToken
  <2> QED BY <1>2, <1>3, <1>6, <2>1
<1> SUFFICES ASSUME NEW i \in 1 .. 3
             PROVE  /\ s[i].t = "size" /\ s[i].which = <<"opstack", "callstack", "heap">>[i] /\ s[i].num \in Nat
                    /\ s[i].num * Unit[s[i].which] = h[s[i].which]
                    /\ h[s[i].which] \in Nat /\ h[s[i].which] < UintMax
  OBVIOUS
<1>8. CASE i = 1
  BY <1>4, <1>8
<1>9. CASE i = 2
  BY <1>5, <1>9
<1>10. CASE i = 3
  BY <1>7, <1>10
<1> QED BY <1>8, <1>9, <1>10

\* The data that are printed are as many bytes as they were.
LEMMA ByEight ==
  ASSUME NEW n \in Nat, NEW a, a = n \div 8, NEW r, r = n % 8
  PROVE  a \in Nat /\ r \in 0 .. 7 /\ n = 8 * a + r
<1>1. a \in Nat /\ r \in 0 .. 7
  OBVIOUS
<1>2. n = 8 * a + r
  OBVIOUS
<1> QED BY <1>1, <1>2

\* Data of variables are of whole longs: a number of words, and a long or nothing.
LEMMA ByFour == \A n \in Nat : n % 4 = 0 => \E b \in Nat : n = 4 * b
<1> SUFFICES ASSUME NEW n \in Nat, n % 4 = 0 PROVE \E b \in Nat : n = 4 * b
  OBVIOUS
<1>1. n \div 4 \in Nat /\ n = 4 * (n \div 4)
  OBVIOUS
<1> QED BY <1>1

LEMMA Halves ==
  ASSUME NEW n \in Nat, n % 4 = 0, NEW a, a = n \div 8, NEW r, r = n % 8
  PROVE  a \in Nat /\ r \in {0, 4} /\ n = 8 * a + r
<1>1. a \in Nat /\ r \in 0 .. 7 /\ n = 8 * a + r
  BY ByEight
<1>2. PICK b \in Nat : n = 4 * b
  BY ByFour
<1>3. PICK c \in Nat, t \in 0 .. 7 : c = a /\ t = r
  BY <1>1
<1>4. 8 * c + t = 4 * b
  BY <1>1, <1>2, <1>3
<1>5. t = 0 \/ t = 4
  BY <1>4
<1>6. r \in {0, 4}
  BY <1>3, <1>5
<1> QED BY <1>1, <1>6, Zenon

LEMMA Eights ==
  ASSUME NEW m \in Nat, NEW a \in Nat, a <= m, NEW o \in [0 .. m -> Nat], o[0] = 0,
         \A k \in 1 .. a : o[k] = o[k - 1] + 8
  PROVE  o[a] = 8 * a
<1> DEFINE bad == {k \in 0 .. a : o[k] # 8 * k}
<1>1. bad = {}
  <2> SUFFICES ASSUME bad # {} PROVE FALSE
    OBVIOUS
  <2>1. bad \in SUBSET Nat
    OBVIOUS
  <2>2. PICK k \in bad : \A l \in bad : k <= l
    <3> HIDE DEF bad
    <3> QED BY <2>1, Least
  <2>3. k \in 0 .. a /\ o[k] # 8 * k
    OBVIOUS
  <2>4. k \in 1 .. a
    BY <2>3
  <2>5. PICK i \in 0 .. a : k = i + 1 /\ i = k - 1 /\ ~(k <= i)
    <3>1. k - 1 \in 0 .. a /\ k = (k - 1) + 1 /\ ~(k <= k - 1)
      BY <2>4
    <3> QED BY <3>1
  <2>6. o[i] = 8 * i
    BY <2>2, <2>5
  <2>7. o[k] = o[i] + 8
    BY <2>4, <2>5
  <2>8. 8 * k = 8 * i + 8
    BY <2>5
  <2> QED BY <2>3, <2>6, <2>7, <2>8
<1> QED BY <1>1

LEMMA DataPrinted ==
  ASSUME NEW n \in Nat, n % 4 = 0
  PROVE  /\ Printed(n) \in Seq(Nat) /\ FoldSeq(+, 0, Printed(n)) = n
         /\ \A j \in 1 .. Len(Printed(n)) : Printed(n)[j] # 0
<1> DEFINE q == Printed(n)
<1>1. q \in Seq(Nat)
  BY PrintedData
<1> DEFINE a == n \div 8
           r == n % 8
<1>2. a \in Nat /\ r \in {0, 4} /\ n = 8 * a + r
  <2>1. \A x, y : x = n \div 8 /\ y = n % 8 => x \in Nat /\ y \in {0, 4} /\ n = 8 * x + y
    BY Halves
  <2>2. a = n \div 8 /\ r = n % 8
    OBVIOUS
  <2> HIDE DEF a, r
  <2> QED BY <2>1, <2>2
<1> DEFINE e == [i \in 1 .. a |-> 8]
<1>3. e \in Seq(Nat) /\ Len(e) = a /\ \A j \in 1 .. a : e[j] = 8
  BY <1>2
<1>4. r = 0 => q = e \o << >>
  BY DEF Printed
<1>5. r = 4 => q = e \o <<4>>
  BY DEF Printed
<1> HIDE DEF q, e, a, r
<1>6. CASE r = 0
  <2>1. q = e
    BY <1>3, <1>4, <1>6
  <2>2. PICK o \in [0 .. a -> Nat] : /\ o[0] = 0 /\ \A k \in 1 .. a : o[k] = o[k - 1] + e[k]
                                     /\ FoldSeq(+, 0, e) = o[a]
    BY <1>3, FoldSums
  <2>3. \A k \in 1 .. a : o[k] = o[k - 1] + 8
    BY <1>3, <2>2
  <2>4. o[a] = 8 * a
    <3>1. a <= a
      BY <1>2
    <3>2. o[0] = 0 /\ \A k \in 1 .. a : o[k] = o[k - 1] + 8
      BY <2>2, <2>3
    <3>3. a \in Nat
      BY <1>2
    <3> QED BY <3>1, <3>2, <3>3, Eights
  <2>5. n = 8 * a
    BY <1>2, <1>6
  <2>6. FoldSeq(+, 0, q) = n
    BY <2>1, <2>2, <2>4, <2>5
  <2>7. \A j \in 1 .. Len(q) : q[j] # 0
    BY <1>3, <2>1
  <2> QED BY <1>1, <2>6, <2>7 DEF q
<1>7. CASE r = 4
  <2>1. q = e \o <<4>>
    BY <1>5, <1>7
  <2>2. Len(q) = a + 1 /\ (\A j \in 1 .. a : q[j] = 8) /\ q[a + 1] = 4
    BY <1>2, <1>3, <2>1
  <2>3. PICK o \in [0 .. a + 1 -> Nat] : /\ o[0] = 0 /\ \A k \in 1 .. a + 1 : o[k] = o[k - 1] + q[k]
                                     /\ FoldSeq(+, 0, q) = o[a + 1]
    BY <1>1, <2>2, FoldSums
  <2>4. \A k \in 1 .. a : o[k] = o[k - 1] + 8
    <3> TAKE k \in 1 .. a
    <3>1. k \in 1 .. a + 1
      BY <1>2
    <3> QED BY <2>2, <2>3, <3>1
  <2>5. o[a] = 8 * a
    <3>1. a + 1 \in Nat /\ a <= a + 1
      BY <1>2
    <3> QED BY <1>2, <2>3, <2>4, <3>1, Eights
  <2>6. o[a + 1] = o[(a + 1) - 1] + q[a + 1]
    <3>1. a + 1 \in 1 .. a + 1
      BY <1>2
    <3> QED BY <2>3, <3>1
  <2>7. (a + 1) - 1 = a
    BY <1>2
  <2>8. n = 8 * a + 4
    BY <1>2, <1>7
  <2>9. FoldSeq(+, 0, q) = n
    BY <2>2, <2>3, <2>5, <2>6, <2>7, <2>8
  <2>10. \A j \in 1 .. a + 1 : q[j] # 0
    <3> TAKE j \in 1 .. a + 1
    <3>1. CASE j = a + 1
      BY <2>2, <3>1
    <3>2. CASE j # a + 1
      <4>1. j \in 1 .. a
        BY <1>2, <3>2
      <4> QED BY <2>2, <4>1
    <3> QED BY <3>1, <3>2
  <2> QED BY <1>1, <2>2, <2>9, <2>10 DEF q
<1> QED BY <1>2, <1>6, <1>7

\* What a token declares, nothing else does.
LEMMA OneDeclares ==
  ASSUME NEW h, NEW fs, NEW vs, NEW w, Told(src, h, fs, vs, w), NEW i \in 1 .. Len(src), NEW j \in 1 .. i - 1
  PROVE  /\ src[i].t \in {"func", "native", "extern"} => ~Defines(j, src[i].name)
         /\ src[i].t = "global" /\ src[j].t = "global" => src[j].name # src[i].name
<1>1. Len(src) \in Nat
  BY ToldSource
<1>2. i \in Nat /\ j \in 1 .. Len(src) /\ j # i
  BY <1>1
<1>3. ASSUME src[i].t \in {"func", "native", "extern"}, Defines(j, src[i].name) PROVE FALSE
  <2>1. PICK a \in 1 .. Len(fs) : i = w[a] /\ src[i].name = fs[a].key
    BY <1>3, Kinds
  <2>2. src[j].t \in {"func", "native", "extern"} /\ src[j].name = src[i].name
    BY <1>3 DEF Defines
  <2>3. PICK b \in 1 .. Len(fs) : j = w[b] /\ src[j].name = fs[b].key
    BY <1>2, <2>2, Kinds
  <2>4. a = b
    BY <2>1, <2>2, <2>3, SameKey
  <2> QED BY <1>2, <2>1, <2>3, <2>4
<1>4. ASSUME src[i].t = "global", src[j].t = "global", src[j].name = src[i].name PROVE FALSE
  <2>1. PICK a : VarAt(src, i, vs, a)
    BY <1>4, Kinds
  <2>2. PICK b : VarAt(src, j, vs, b)
    BY <1>2, <1>4, Kinds
  <2>3. a \in 1 .. Len(vs) /\ i = 3 + a /\ src[i].name = vs[a].key
    BY <2>1 DEF VarAt, VarLine, VarLineOf
  <2>4. b \in 1 .. Len(vs) /\ j = 3 + b /\ src[j].name = vs[b].key
    BY <2>2 DEF VarAt, VarLine, VarLineOf
  <2>5. a = b
    BY <1>4, <2>3, <2>4, SameKey
  <2> QED BY <1>2, <2>3, <2>4, <2>5
<1> QED BY <1>3, <1>4

\* The sizes in a listing do not wrap around.
LEMMA SizesFit ==
  ASSUME NEW h, NEW fs, NEW vs, NEW w, Told(src, h, fs, vs, w), NEW i \in 1 .. Len(src), src[i].t = "size"
  PROVE  i \in 1 .. 3 /\ src[i].num \in Nat /\ src[i].num * Unit[src[i].which] < UintMax
<1>1. SizeAt(src, i, h)
  BY Kinds
<1>2. i \in 1 .. 3
  BY <1>1 DEF SizeAt
<1> QED BY <1>2, SizesPrinted

\* A listing is a source that the properties of the assembler are about.
LEMMA ListingRegular ==
  ASSUME NEW h, NEW fs, NEW vs, NEW w, Told(src, h, fs, vs, w)
  PROVE  Regular
<1> SUFFICES ASSUME NEW i \in 1 .. Len(src)
             PROVE  /\ src[i].t \in {"op"} \cup Directives => ~Behind(i)
                    /\ src[i].t = "op" => ~StandsBehind(src, i, Directives)
                    /\ src[i].t = "op" /\ src[i].op \in Number =>
                         (InRange(src[i].op, src[i].arg) <=> Accepted(src[i].op, src[i].arg))
                    /\ src[i].t \in {"native", "extern"} => \A j \in 1 .. i - 1 : ~Defines(j, src[i].name)
                    /\ src[i].t = "global" =>
                         \A j \in 1 .. i - 1 : src[j].t = "global" => src[j].name # src[i].name
                    /\ src[i].t = "size" => src[i].num * Unit[src[i].which] < UintMax
  BY DEF Regular
<1>1. \A kinds : ~StandsBehind(src, i, kinds)
  BY ToldSource
<1>2. src[i].t = "op" /\ src[i].op \in Number => (InRange(src[i].op, src[i].arg) <=> Accepted(src[i].op, src[i].arg))
  <2> SUFFICES ASSUME src[i].t = "op", src[i].op \in Number
               PROVE  InRange(src[i].op, src[i].arg) <=> Accepted(src[i].op, src[i].arg)
    OBVIOUS
  <2>1. PICK j \in 1 .. Len(fs) : \E k : OpAt(src, i, fs, vs, w, j, k)
    BY Kinds
  <2>2. PICK k : OpAt(src, i, fs, vs, w, j, k)
    BY <2>1
  <2>3. WellMade(fs, vs)
    BY ToldSource
  <2>4. Readable(fs[j].body[k])
    <3>1. k \in DOMAIN fs[j].body
      BY <2>2, ToldBody DEF OpAt
    <3> QED BY <3>1 DEF Told, Tame
  <2>5. InRange(src[i].op, src[i].arg) /\ Accepted(src[i].op, src[i].arg)
    BY <2>2, <2>3, <2>4, OpMade
  <2> QED BY <2>5
<1>3. src[i].t \in {"native", "extern"} => \A j \in 1 .. i - 1 : ~Defines(j, src[i].name)
  BY OneDeclares
<1>4. src[i].t = "global" => \A j \in 1 .. i - 1 : src[j].t = "global" => src[j].name # src[i].name
  BY OneDeclares
<1>5. src[i].t = "size" => src[i].num * Unit[src[i].which] < UintMax
  BY SizesFit
<1> QED BY <1>1, <1>2, <1>3, <1>4, <1>5 DEF Behind

\* The operands in a listing name functions and variables of the listing.
LEMMA ListedOps ==
  ASSUME NEW h, NEW fs, NEW vs, NEW w, Told(src, h, fs, vs, w), NEW i \in 1 .. Len(src), src[i].t = "op"
  PROVE  ValidOp(i) /\ Enclosing(i) # NONE /\ src[i].op \notin {"jmp", "ldfn", "halt"}
<1>1. PICK j \in 1 .. Len(fs) : \E k \in DOMAIN fs[j].body :
        fs[j].flags = 0 /\ i = w[j] + k /\ OpAt(src, i, fs, vs, w, j, k) /\ Around(src, i) = fs[j].key
  BY Ops
<1>1a. PICK k \in DOMAIN fs[j].body :
        fs[j].flags = 0 /\ i = w[j] + k /\ OpAt(src, i, fs, vs, w, j, k) /\ Around(src, i) = fs[j].key
  BY <1>1
<1>2. WellMade(fs, vs) /\ Len(vs) \in Nat /\ DOMAIN fs = 1 .. Len(fs) /\ Describes(src, h, fs, vs, w)
      /\ Len(src) \in Nat
  BY ToldSource
<1>3. /\ src[i].op = fs[j].body[k].op
      /\ src[i].op \in Number /\ Readable(fs[j].body[k]) => InRange(src[i].op, src[i].arg)
      /\ src[i].spaced
  BY <1>1a, <1>2, OpMade
<1>4. /\ Readable(fs[j].body[k]) /\ fs[j].body[k].op \notin {"jmp", "ldfn", "halt", "setelen"}
      /\ Named(fs[j].body, Len(fs), Len(vs))
  BY DEF Told, Tame, Readable
<1>5. Enclosing(i) # NONE
  <2>1. fs[j].key \in Name
    BY <1>2 DEF WellMade
  <2> QED BY <1>1a, <2>1, AssemblerAssumption DEF Enclosing
<1>6. Prints(src[i], fs[j].body[k], fs, vs)
  BY <1>1a DEF OpAt
<1>7. src[i].op = "call" => \E x \in 1 .. Len(src) : Defines(x, src[i].arg)
  <2> SUFFICES ASSUME src[i].op = "call" PROVE \E x \in 1 .. Len(src) : Defines(x, src[i].arg)
    OBVIOUS
  <2>1. fs[j].body[k].val \in 1 .. Len(fs)
    BY <1>3, <1>4 DEF Named
  <2>2. src[i].arg = fs[fs[j].body[k].val].key
    BY <1>2, <1>3, <1>6, <2>1 DEF Prints
  <2>3. PICK c \in 1 .. Len(fs) : src[i].arg = fs[c].key
    BY <2>1, <2>2
  <2>4. w[c] \in 1 .. Len(src) /\ src[w[c]].name = fs[c].key /\ src[w[c]].t \in {"func", "native", "extern"}
    BY Opens
  <2> QED BY <2>3, <2>4 DEF Defines
<1>8. src[i].op = "ldvar" => \E x \in 1 .. Len(src) : src[x].t = "global" /\ src[x].name = src[i].arg
  <2> SUFFICES ASSUME src[i].op = "ldvar"
               PROVE  \E x \in 1 .. Len(src) : src[x].t = "global" /\ src[x].name = src[i].arg
    OBVIOUS
  <2>1. fs[j].body[k].val \in 0 .. Len(vs) - 1
    BY <1>3, <1>4 DEF Named
  <2>2. src[i].arg = vs[fs[j].body[k].val + 1].key
    BY <1>3, <1>6, <2>1 DEF Prints
  <2>3. PICK c \in 1 .. Len(vs) : src[i].arg = vs[c].key
    <3>1. fs[j].body[k].val + 1 \in 1 .. Len(vs)
      BY <1>2, <2>1
    <3> QED BY <2>2, <3>1
  <2>4. src[3 + c] = VarLine(VarLineOf(vs[c]))
    BY <1>2 DEF Describes
  <2>5. src[3 + c].t = "global" /\ src[3 + c].name = vs[c].key
    BY <2>4 DEF VarLine, VarLineOf
  <2>6. 3 + c \in 1 .. Len(src)
    <3>1. 3 + Len(vs) <= Len(src)
      BY <1>2 DEF Describes
    <3> QED BY <1>2, <3>1
  <2> QED BY <2>3, <2>5, <2>6
<1> QED BY <1>3, <1>4, <1>5, <1>7, <1>8 DEF ValidOp

\* The variables in a listing have as many data as bytes.
LEMMA ListedGlobals ==
  ASSUME NEW h, NEW fs, NEW vs, NEW w, Told(src, h, fs, vs, w), NEW i \in 1 .. Len(src), src[i].t = "global"
  PROVE  ValidGlobal(i)
<1>1. PICK k : VarAt(src, i, vs, k)
  BY Kinds
<1>2. k \in 1 .. Len(vs) /\ src[i].bytes = vs[k].bytes /\ src[i].data = Printed(vs[k].bytes)
  BY <1>1 DEF VarAt, VarLine, VarLineOf
<1>3. PICK n \in Nat : n = vs[k].bytes /\ n % 4 = 0
  <2>1. WellMade(fs, vs)
    BY ToldSource
  <2> QED BY <1>2, <2>1 DEF WellMade
<1> DEFINE q == Printed(n)
<1>4. src[i].bytes = n /\ src[i].data = q
  BY <1>2, <1>3
<1>5. FoldSeq(+, 0, q) = n
  BY <1>3, DataPrinted
<1>6. q \in Seq(Nat)
  BY <1>3, DataPrinted
<1>7. \A j \in 1 .. Len(q) : q[j] # 0
  BY <1>3, DataPrinted
<1> HIDE DEF q
<1>8. PICK m \in Nat : m = Len(q)
  BY <1>6
<1>9. (\A j \in 1 .. Len(q) - 1 : q[j] # 0) /\ ~(Len(q) > 0 /\ q[Len(q)] = 0)
  BY <1>7, <1>8
<1> QED BY <1>4, <1>5, <1>9, Zenon DEF ValidGlobal

\* A listing is a valid source.
LEMMA ListingValid ==
  ASSUME NEW h, NEW fs, NEW vs, NEW w, Told(src, h, fs, vs, w)
  PROVE  Valid
<1> SUFFICES ASSUME NEW i \in 1 .. Len(src)
             PROVE  /\ src[i].t # "text"
                    /\ src[i].t = "size" => src[i].num \in Nat
                    /\ src[i].t = "global" => ValidGlobal(i)
                    /\ src[i].t \in {"op", "label", "end"} => Enclosing(i) # NONE
                    /\ src[i].t = "op" => ValidOp(i)
                    /\ src[i].t = "func" => /\ ~Behind(i) /\ Enclosing(i) = NONE
                                            /\ \A j \in 1 .. i - 1 : ~Defines(j, src[i].name)
  BY DEF Valid
<1>1. src[i].t # "text" /\ src[i].t # "label"
  BY Kinds
<1>2. src[i].t = "size" => src[i].num \in Nat
  BY SizesFit
<1>3. src[i].t = "global" => ValidGlobal(i)
  BY ListedGlobals
<1>4. src[i].t = "op" => Enclosing(i) # NONE /\ ValidOp(i)
  BY ListedOps
<1>5. src[i].t = "end" => Enclosing(i) # NONE
  <2> SUFFICES ASSUME src[i].t = "end" PROVE Enclosing(i) # NONE
    OBVIOUS
  <2>1. PICK j \in 1 .. Len(fs) : EndAt(src, i, fs, w, j)
    BY Kinds
  <2>2. fs[j].flags = 0 /\ i = w[j] + Height(fs[j]) - 1
    BY <2>1 DEF EndAt
  <2>3. PICK n \in Nat : Height(fs[j]) = n + 2
    BY <2>2, ToldBody
  <2>4. i = w[j] + (n + 1) /\ n + 1 \in 1 .. Height(fs[j]) - 1
    <3>1. w[j] \in Nat
      BY Opens, ToldSource
    <3> QED BY <2>2, <2>3, <3>1
  <2>5. Around(src, i) = fs[j].key
    BY <2>2, <2>4, WithinBlock
  <2>6. fs[j].key \in Name
    BY ToldSource DEF WellMade
  <2> QED BY <2>5, <2>6, AssemblerAssumption DEF Enclosing
<1>6. src[i].t = "func" => /\ ~Behind(i) /\ Enclosing(i) = NONE
                           /\ \A j \in 1 .. i - 1 : ~Defines(j, src[i].name)
  <2> SUFFICES ASSUME src[i].t = "func"
               PROVE  /\ ~Behind(i) /\ Enclosing(i) = NONE
                      /\ \A j \in 1 .. i - 1 : ~Defines(j, src[i].name)
    OBVIOUS
  <2>1. ~Behind(i)
    BY ToldSource DEF Behind
  <2>2. Enclosing(i) = NONE
    BY OutsideBlocks DEF Enclosing
  <2>3. \A j \in 1 .. i - 1 : ~Defines(j, src[i].name)
    BY OneDeclares
  <2> QED BY <2>1, <2>2, <2>3
<1> QED BY <1>1, <1>2, <1>3, <1>4, <1>5, <1>6

----------------------------------------------------------------------------
(* The module that is made of a listing.                                   *)

\* Numbers in their order that are those of an interval.
Enumerates(m, p, a, n) ==
  /\ m \in Nat /\ n \in Nat /\ a \in Nat /\ p \in [1 .. m -> Nat]
  /\ \A j, k \in 1 .. m : j < k => p[j] < p[k]
  /\ \A k \in 1 .. m : p[k] \in a + 1 .. a + n
  /\ \A i \in a + 1 .. a + n : \E k \in 1 .. m : p[k] = i
\* There is only one way to name all numbers of an interval in their order.
LEMMA Enumeration ==
  ASSUME NEW m, NEW n, NEW a, NEW p, Enumerates(m, p, a, n)
  PROVE  m = n /\ \A k \in 1 .. m : p[k] = a + k
<1> USE DEF Enumerates
<1> DEFINE bad == {k \in 1 .. m : p[k] # a + k}
<1>1. bad = {}
  <2> SUFFICES ASSUME bad # {} PROVE FALSE
    OBVIOUS
  <2>1. bad \in SUBSET Nat
    OBVIOUS
  <2>2. PICK k \in bad : \A l \in bad : k <= l
    <3> HIDE DEF bad
    <3> QED BY <2>1, Least
  <2>3. k \in 1 .. m /\ p[k] # a + k
    OBVIOUS
  <2>4. \A l \in 1 .. m : l < k => p[l] = a + l
    BY <2>2
  <2>5. p[k] >= a + k
    <3>1. CASE k = 1
      BY <2>3, <3>1
    <3>2. CASE k # 1
      <4>1. k - 1 \in 1 .. m /\ k - 1 < k
        BY <2>3, <3>2
      <4>2. p[k - 1] = a + (k - 1) /\ p[k - 1] < p[k]
        BY <2>3, <2>4, <4>1
      <4>3. p[k] \in Nat
        BY <2>3
      <4> QED BY <2>3, <4>2, <4>3
    <3> QED BY <3>1, <3>2
  <2>6. a + k \in a + 1 .. a + n
    <3>1. p[k] \in a + 1 .. a + n
      BY <2>3
    <3> QED BY <2>3, <2>5, <3>1
  <2>7. PICK l \in 1 .. m : p[l] = a + k
    BY <2>6
  <2>8. l # k
    BY <2>3, <2>7
  <2>9. CASE l < k
    BY <2>3, <2>4, <2>7, <2>9
  <2>10. CASE l > k
    <3>1. p[k] < p[l]
      BY <2>3, <2>10
    <3> QED BY <2>3, <2>5, <2>7, <3>1
  <2> QED BY <2>3, <2>8, <2>9, <2>10
<1>2. \A k \in 1 .. m : p[k] = a + k
  BY <1>1
<1>3. m <= n
  <2>1. CASE m = 0
    BY <2>1
  <2>2. CASE m # 0
    <3>1. m \in 1 .. m
      BY <2>2
    <3>2. a + m \in a + 1 .. a + n
      BY <1>2, <3>1
    <3> QED BY <3>2
  <2> QED BY <2>1, <2>2
<1>4. n <= m
  <2>1. CASE n = 0
    BY <2>1
  <2>2. CASE n # 0
    <3>1. a + n \in a + 1 .. a + n
      BY <2>2
    <3>2. PICK k \in 1 .. m : p[k] = a + n
      BY <3>1
    <3>3. a + k = a + n
      BY <1>2, <3>2
    <3> QED BY <3>3
  <2> QED BY <2>1, <2>2
<1> QED BY <1>2, <1>3, <1>4

\* Instructions with the same opcodes take as many bytes.
LEMMA SameTotal ==
  ASSUME NEW q, NEW r, Follows(q), Follows(r), Len(q) = Len(r),
         q # << >> => q[1].at = 0, r # << >> => r[1].at = 0,
         \A k \in 1 .. Len(q) : q[k].op = r[k].op
  PROVE  Total(q) = Total(r)
<1>1. PICK n \in Nat : n = Len(q) /\ DOMAIN q = 1 .. n /\ DOMAIN r = 1 .. n /\ Len(r) = n
  BY DEF Follows, IsList
<1>2. CASE n = 0
  <2>1. q = << >> /\ r = << >>
    BY <1>1, <1>2 DEF Follows, IsList, IsMap
  <2> QED BY <2>1
<1>3. CASE n # 0
  <2>1. q # << >> /\ r # << >>
    BY <1>1, <1>3
  <2> DEFINE bad == {k \in 1 .. n : q[k].at # r[k].at}
  <2>2. bad = {}
    <3> SUFFICES ASSUME bad # {} PROVE FALSE
      OBVIOUS
    <3>1. bad \in SUBSET Nat
      OBVIOUS
    <3>2. PICK k \in bad : \A l \in bad : k <= l
      <4> HIDE DEF bad
      <4> QED BY <3>1, Least
    <3>3. k \in 1 .. n /\ q[k].at # r[k].at
      OBVIOUS
    <3>4. k # 1
      BY <2>1, <3>3
    <3>5. PICK i \in 1 .. n - 1 : k = i + 1 /\ ~(k <= i) /\ i \in 1 .. n
      <4>1. k - 1 \in 1 .. n - 1 /\ k = (k - 1) + 1 /\ ~(k <= k - 1) /\ k - 1 \in 1 .. n
        BY <3>3, <3>4
      <4> QED BY <4>1
    <3>6. q[i].at = r[i].at
      BY <3>2, <3>5
    <3>7. q[k].at = q[i].at + Length(q[i].op) /\ r[k].at = r[i].at + Length(r[i].op)
      BY <1>1, <3>5 DEF Follows
    <3>8. q[i].op = r[i].op
      BY <1>1, <3>5
    <3> QED BY <3>3, <3>6, <3>7, <3>8, Zenon
  <2>3. n \in 1 .. n
    BY <1>3
  <2>4. q[n].at = r[n].at /\ q[n].op = r[n].op
    BY <1>1, <2>2, <2>3
  <2> QED BY <1>1, <2>1, <2>4, Zenon DEF Total
<1> QED BY <1>2, <1>3

\* The module that has been made of a listing.
Remade(h, fs, vs, w) == RoundInv /\ stage \in Listing /\ Told(src, h, fs, vs, w)

\* A listing has no jump, so the keys of labels do not matter.
LEMMA NoJumps ==
  ASSUME NEW h, NEW fs, NEW vs, NEW w, Told(src, h, fs, vs, w) PROVE KeysFit
BY ListedOps DEF KeysFit

\* What the assembler knows at the end of a listing.
LEMMA Heard ==
  ASSUME NEW h, NEW fs, NEW vs, NEW w, Remade(h, fs, vs, w)
  PROVE  /\ pass = "done" /\ Regular /\ Typed /\ Generated /\ Collected(Len(src) + 1)
         /\ IsList(vec) /\ Once(vec) /\ DOMAIN kind = ToSet(vec) /\ DOMAIN code = DOMAIN kind
         /\ IsList(data.vars) /\ Once(data.vars) /\ DOMAIN data.bytes = ToSet(data.vars)
         /\ nf = Len(vec) /\ nv = Len(data.vars)
         /\ \A f \in DOMAIN code : Translated(f)
         /\ \A i \in 1 .. Len(src) : Noted(i)
<1>1. RoundInv /\ Told(src, h, fs, vs, w) /\ stage \in Listing
  BY DEF Remade
<1>2. pass = "done" /\ IInv /\ JInv /\ Laid /\ Recorded /\ VInv /\ Live
  <2>1. KeysFit
    BY <1>1, NoJumps
  <2>2. stage # "waiting"
    BY <1>1 DEF Listing
  <2> QED BY <1>1, <2>1, <2>2 DEF RoundInv, Live
<1>3. Regular
  BY <1>1, ListingRegular
<1>4. Typed /\ Collected(Len(src) + 1) /\ Generated
  BY <1>2 DEF IInv, Seen
<1>5. /\ IsList(vec) /\ Once(vec) /\ DOMAIN kind = ToSet(vec) /\ DOMAIN code = DOMAIN kind
      /\ IsList(data.vars) /\ Once(data.vars) /\ DOMAIN data.bytes = ToSet(data.vars)
  BY <1>3, <1>4, VecList DEF Typed, TypeOK, Maps, Collected
<1>6. nf = Len(vec) /\ nv = Len(data.vars)
  BY <1>1, <1>5, CountOnce, Rows
<1>7. \A f \in DOMAIN code : Translated(f)
  BY <1>2, <1>3, DoneKept DEF OperandsKept
<1>8. \A i \in 1 .. Len(src) : Noted(i)
  <2>1. Len(src) \in Nat /\ \A i \in 1 .. Len(src) : ~Behind(i)
    BY <1>1, ToldSource DEF Behind
  <2>2. Clean(src, Len(src) + 1)
    BY <2>1 DEF Clean, Behind
  <2>3. Checked /\ Seen = Len(src) + 1
    BY <1>2, <1>3, <2>2 DEF VInv, Seen
  <2>4. \A i \in 1 .. Len(src) : i \in 1 .. Seen - 1
    BY <2>1, <2>3
  <2> QED BY <2>1, <2>3, <2>4 DEF Checked
<1> QED BY <1>2, <1>3, <1>4, <1>5, <1>6, <1>7, <1>8

\* It has the functions of the listing, with their flags.
LEMMA FunctionsHeard ==
  ASSUME NEW h, NEW fs, NEW vs, NEW w, Remade(h, fs, vs, w)
  PROVE  /\ nf = Len(fs) /\ \A f \in DOMAIN kind : \E j \in 1 .. Len(fs) : f = fs[j].key
         /\ \A j \in 1 .. Len(fs) : fs[j].key \in DOMAIN kind /\ FlagOf[kind[fs[j].key]] = fs[j].flags
<1>1. RoundInv /\ Told(src, h, fs, vs, w) /\ Recorded
  BY DEF Remade, RoundInv
<1>2. \A j \in 1 .. Len(fs) : fs[j].key \in DOMAIN kind
  <2> TAKE j \in 1 .. Len(fs)
  <2>1. w[j] \in 1 .. Len(src) /\ src[w[j]].name = fs[j].key /\ src[w[j]].t \in {"func", "native", "extern"}
    BY <1>1, Opens
  <2> QED BY <2>1, Heard DEF Noted
<1>3. ASSUME NEW f \in DOMAIN kind
      PROVE  \E j \in 1 .. Len(fs) : f = fs[j].key /\ FlagOf[kind[f]] = fs[j].flags
  <2>1. PICK i \in 1 .. Len(src) : IsKind(f, i)
    BY <1>1 DEF Recorded
  <2>2. src[i].t \in {"func", "native", "extern"} /\ src[i].name = f
        /\ kind[f] = IF src[i].t = "func" THEN "code" ELSE src[i].t
    BY <2>1 DEF IsKind, Defines
  <2>3. PICK j \in 1 .. Len(fs) : i = w[j] /\ src[i].name = fs[j].key
    BY <1>1, <2>2, Kinds
  <2>4. /\ fs[j].flags \in {0, NATIVE, EXTERN}
        /\ src[i].t = IF fs[j].flags = 0 THEN "func" ELSE IF fs[j].flags = EXTERN THEN "extern" ELSE "native"
    BY <1>1, <2>3, Opens
  <2>5. FlagOf["code"] = 0 /\ FlagOf["native"] = NATIVE /\ FlagOf["extern"] = EXTERN
    BY DEF FlagOf
  <2>6. FlagOf[kind[f]] = fs[j].flags
    BY <2>2, <2>4, <2>5 DEF NATIVE, EXTERN
  <2> QED BY <2>2, <2>3, <2>6
<1>4. DOMAIN kind = {fs[j].key : j \in 1 .. Len(fs)}
  BY <1>2, <1>3
<1>5. \A j \in 1 .. Len(fs) : FlagOf[kind[fs[j].key]] = fs[j].flags
  BY <1>1, <1>2, <1>3, SameKey
<1>6. nf = Len(fs)
  <2> DEFINE q == Keys(fs)
  <2>1. Len(fs) \in Nat /\ DOMAIN fs = 1 .. Len(fs)
    BY <1>1, ToldSource
  <2>2. q = [j \in 1 .. Len(fs) |-> fs[j].key]
    BY <2>1 DEF Keys
  <2>3. IsList(q) /\ Len(q) = Len(fs)
    BY <2>1, <2>2 DEF IsList, IsMap
  <2>4. Once(q)
    BY <1>1, <2>1, <2>2, SameKey DEF Once
  <2>5. ToSet(q) = DOMAIN kind
    BY <1>4, <2>1, <2>2 DEF ToSet
  <2> HIDE DEF q
  <2>6. Cardinality(DOMAIN kind) = Len(fs)
    BY <2>3, <2>4, <2>5, CountOnce
  <2>7. nf = Cardinality(DOMAIN kind)
    BY <1>1, Rows DEF Remade
  <2> QED BY <2>6, <2>7
<1> QED BY <1>2, <1>3, <1>5, <1>6

\* It has the variables of the listing in their order.
LEMMA VariablesHeard ==
  ASSUME NEW h, NEW fs, NEW vs, NEW w, Remade(h, fs, vs, w)
  PROVE  /\ nv = Len(vs) /\ Len(data.vars) = Len(vs)
         /\ \A k \in 1 .. Len(vs) : /\ data.vars[k] = vs[k].key /\ vs[k].key \in DOMAIN data.bytes
                                    /\ data.bytes[vs[k].key] = vs[k].bytes
<1>1. Told(src, h, fs, vs, w) /\ Recorded /\ Live
  BY Heard DEF Remade, RoundInv, Live
<1>2. /\ Len(src) \in Nat /\ Len(vs) \in Nat /\ Len(data.vars) \in Nat /\ DOMAIN data.vars = 1 .. Len(data.vars)
      /\ Regular /\ nv = Len(data.vars) /\ ToSet(data.vars) = DOMAIN data.bytes
      /\ Collected(Len(src) + 1) /\ \A i \in 1 .. Len(src) : Noted(i)
  BY <1>1, ToldSource, Heard DEF IsList
<1> DEFINE m == Len(data.vars)
           n == Len(vs)
           p == [k \in 1 .. m |-> CHOOSE a \in 1 .. Len(src) : Declares(a, data.vars[k])]
<1>3. \A k \in 1 .. m : data.vars[k] \in DOMAIN data.bytes
  BY <1>2 DEF ToSet
<1>4. \A k \in 1 .. m : p[k] \in 1 .. Len(src) /\ Declares(p[k], data.vars[k])
  <2> TAKE k \in 1 .. m
  <2>1. \E a \in 1 .. Len(src) + 1 - 1 : Declares(a, data.vars[k])
    BY <1>2, <1>3 DEF Collected
  <2>2. \E a \in 1 .. Len(src) : Declares(a, data.vars[k])
    BY <1>2, <2>1
  <2> QED BY <2>2, Zenon
<1>5. p \in [1 .. m -> Nat]
  <2>1. \A k \in 1 .. m : p[k] \in 1 .. Len(src)
    BY <1>4
  <2>2. \A x \in 1 .. Len(src) : x \in Nat
    BY <1>2
  <2>3. p = [k \in 1 .. m |-> p[k]]
    OBVIOUS
  <2> HIDE DEF m, p
  <2> QED BY <2>1, <2>2, <2>3
<1> HIDE DEF p
<1>6. ASSUME NEW i \in 1 .. Len(src), NEW v, Declares(i, v)
      PROVE  \E x \in 1 .. n : i = 3 + x /\ v = vs[x].key /\ src[i].bytes = vs[x].bytes
  <2>1. src[i].t = "global" /\ src[i].name = v
    BY <1>6 DEF Declares
  <2>2. PICK x : VarAt(src, i, vs, x)
    BY <1>1, <2>1, Kinds
  <2> QED BY <2>1, <2>2 DEF VarAt, VarLine, VarLineOf
<1>7. ASSUME NEW x \in 1 .. n
      PROVE  /\ 3 + x \in 1 .. Len(src) /\ Declares(3 + x, vs[x].key)
             /\ src[3 + x].name = vs[x].key /\ src[3 + x].t = "global"
  <2>1. Describes(src, h, fs, vs, w)
    BY <1>1 DEF Told
  <2>2. 3 + Len(vs) <= Len(src) /\ src[3 + x] = VarLine(VarLineOf(vs[x]))
    BY <2>1 DEF Describes
  <2>3. 3 + x \in 1 .. Len(src)
    BY <1>2, <2>2
  <2> QED BY <2>2, <2>3 DEF Declares, VarLine, VarLineOf
<1>8. \A j, k \in 1 .. m : j < k => p[j] < p[k]
  BY <1>1, <1>2, <1>4 DEF Recorded
<1>9. \A k \in 1 .. m : p[k] \in 3 + 1 .. 3 + n
  <2> TAKE k \in 1 .. m
  <2>1. PICK x \in 1 .. n : p[k] = 3 + x
    <3>1. p[k] \in 1 .. Len(src) /\ Declares(p[k], data.vars[k])
      BY <1>4
    <3>2. \E x \in 1 .. n : p[k] = 3 + x /\ data.vars[k] = vs[x].key /\ src[p[k]].bytes = vs[x].bytes
      BY <1>6, <3>1
    <3> QED BY <3>2
  <2> QED BY <1>2, <2>1
<1>10. \A i \in 3 + 1 .. 3 + n : \E k \in 1 .. m : p[k] = i
  <2> TAKE i \in 3 + 1 .. 3 + n
  <2>1. PICK x \in 1 .. n : i = 3 + x
    <3>1. i - 3 \in 1 .. n /\ i = 3 + (i - 3)
      BY <1>2
    <3> QED BY <3>1
  <2>2. vs[x].key \in DOMAIN data.bytes
    BY <1>2, <1>7 DEF Noted
  <2>3. PICK k \in 1 .. m : vs[x].key = data.vars[k]
    BY <1>2, <2>2 DEF ToSet
  <2>4. PICK y \in 1 .. n : p[k] = 3 + y /\ data.vars[k] = vs[y].key
    <3>1. p[k] \in 1 .. Len(src) /\ Declares(p[k], data.vars[k])
      BY <1>4
    <3>2. \E y \in 1 .. n : p[k] = 3 + y /\ data.vars[k] = vs[y].key /\ src[p[k]].bytes = vs[y].bytes
      BY <1>6, <3>1
    <3> QED BY <3>2
  <2>5. x = y
    BY <1>1, <2>3, <2>4, SameKey
  <2> QED BY <2>1, <2>4, <2>5
<1>11. m = n /\ \A k \in 1 .. m : p[k] = 3 + k
  <2>1. m \in Nat /\ n \in Nat
    BY <1>2
  <2> HIDE DEF m, n
  <2>2. Enumerates(m, p, 3, n)
    BY <1>5, <1>8, <1>9, <1>10, <2>1 DEF Enumerates
  <2> QED BY <2>2, Enumeration
<1>12. ASSUME NEW k \in 1 .. n
       PROVE  /\ data.vars[k] = vs[k].key /\ vs[k].key \in DOMAIN data.bytes
              /\ data.bytes[vs[k].key] = vs[k].bytes
  <2>1. p[k] = 3 + k /\ data.vars[k] \in DOMAIN data.bytes /\ k \in 1 .. m
    BY <1>3, <1>11
  <2>2. PICK x \in 1 .. n : p[k] = 3 + x /\ data.vars[k] = vs[x].key /\ src[p[k]].bytes = vs[x].bytes
    BY <1>4, <1>6, <2>1
  <2>3. x = k
    BY <2>1, <2>2
  <2>4. src[p[k]].t = "global" /\ src[p[k]].name = data.vars[k] /\ p[k] \in 1 .. Len(src) + 1 - 1
    BY <1>2, <1>4, <2>1 DEF Declares
  <2>5. data.bytes[data.vars[k]] = src[p[k]].bytes
    BY <1>2, <2>4 DEF Collected
  <2> QED BY <2>1, <2>2, <2>3, <2>5
<1> QED BY <1>2, <1>11, <1>12

\* The instructions of a function are made of the lines of its body.
LEMMA CodeHeard ==
  ASSUME NEW h, NEW fs, NEW vs, NEW w, Remade(h, fs, vs, w), NEW j \in 1 .. Len(fs), fs[j].flags = 0
  PROVE  LET q == code[fs[j].key] IN
         \E n \in Nat : /\ IsList(q) /\ Len(q) = n /\ DOMAIN fs[j].body = 1 .. n
                        /\ \A k \in 1 .. n : /\ q[k].pos = w[j] + k /\ q[k].op = src[q[k].pos].op
                                             /\ w[j] + k \in 1 .. Len(src) /\ OpAt(src, w[j] + k, fs, vs, w, j, k)
<1> DEFINE f == fs[j].key
           q == code[f]
<1>1. Told(src, h, fs, vs, w) /\ Laid
  BY DEF Remade, RoundInv
<1>2. f \in DOMAIN code /\ Translated(f)
  <2>1. f \in DOMAIN kind
    BY FunctionsHeard
  <2> QED BY <2>1, Heard
<1>3. IsList(q)
  BY <1>1, <1>2 DEF Laid, Follows
<1>4. PICK n \in Nat : DOMAIN fs[j].body = 1 .. n /\ Height(fs[j]) = n + 2
  BY <1>1, ToldBody
<1>5. PICK a \in Nat : /\ a = w[j] /\ a > 0 /\ a + (n + 2) <= Len(src) + 1
                       /\ BlockAt(src, a, fs[j], fs, vs)
  <2>1. Describes(src, h, fs, vs, w) /\ Len(vs) \in Nat
    BY <1>1, ToldSource
  <2>2. w[j] \in Nat /\ 3 + Len(vs) < w[j] /\ w[j] + Height(fs[j]) <= Len(src) + 1 /\ BlockAt(src, w[j], fs[j], fs, vs)
    BY <2>1 DEF Describes
  <2> QED BY <1>4, <2>1, <2>2
<1> DEFINE m == Len(q)
           p == [k \in 1 .. m |-> q[k].pos]
           places == {i \in 1 .. Len(src) : src[i].t = "op" /\ Enclosing(i) = f}
<1>6. m \in Nat /\ DOMAIN q = 1 .. m /\ Len(src) \in Nat
  BY <1>1, <1>3, ToldSource DEF IsList
<1>7. /\ \A x, y \in 1 .. m : x < y => q[x].pos < q[y].pos
      /\ \A x \in 1 .. m : q[x].pos \in places /\ q[x].op = src[q[x].pos].op
      /\ \A i \in places : \E x \in 1 .. m : q[x].pos = i
  <2>1. {r.pos : r \in ToSet(q)} = places
    BY <1>2 DEF Translated
  <2>2. \A x \in 1 .. m : q[x] \in ToSet(q)
    BY <1>6 DEF ToSet
  <2>3. \A r \in ToSet(q) : \E x \in 1 .. m : r = q[x]
    BY <1>6 DEF ToSet
  <2>4. \A x, y \in 1 .. m : x < y => q[x].pos < q[y].pos
    BY <1>2, <1>6 DEF Translated
  <2>5. \A x \in 1 .. m : q[x].op = src[q[x].pos].op
    BY <1>2, <2>2 DEF Translated
  <2> HIDE DEF places, m, q
  <2>6. \A x \in 1 .. m : q[x].pos \in places
    BY <2>1, <2>2
  <2>7. \A i \in places : \E x \in 1 .. m : q[x].pos = i
    BY <2>1, <2>3
  <2> QED BY <2>4, <2>5, <2>6, <2>7
<1>8. \A i \in places : i \in a + 1 .. a + n
  <2> TAKE i \in places
  <2>1. PICK x \in 1 .. Len(fs) : \E k \in DOMAIN fs[x].body : i = w[x] + k /\ Around(src, i) = fs[x].key
    BY <1>1, Ops
  <2>2. PICK k \in DOMAIN fs[x].body : i = w[x] + k /\ Around(src, i) = fs[x].key
    BY <2>1
  <2>3. x = j
    BY <1>1, <2>2, SameKey DEF Enclosing
  <2>4. k \in 1 .. n /\ i = a + k
    BY <1>4, <1>5, <2>2, <2>3
  <2> QED BY <2>4
<1>9. ASSUME NEW k \in 1 .. n
      PROVE  /\ a + k \in 1 .. Len(src) /\ src[a + k].t = "op" /\ Around(src, a + k) = f
             /\ OpAt(src, a + k, fs, vs, w, j, k)
  <2>1. k \in 1 .. Height(fs[j]) - 2 /\ k \in 1 .. Height(fs[j]) - 1 /\ a + k \in 1 .. Len(src)
    BY <1>4, <1>5, <1>6
  <2>2. Around(src, a + k) = f
    <3>1. Around(src, w[j] + k) = f
      BY <1>1, <2>1, WithinBlock
    <3> QED BY <1>5, <3>1
  <2>3. Prints(src[a + k], Listed(fs[j].body)[k], fs, vs)
    BY <1>5, <2>1 DEF BlockAt
  <2>4. Listed(fs[j].body) = fs[j].body
    <3>1. IsSeq(fs[j].body, n)
      BY <1>1, <1>4, ToldBody DEF IsSeq
    <3>2. \A l \in 1 .. n : fs[j].body[l].op # "halt"
      BY <1>1, <1>4 DEF Told, Tame, Readable
    <3> QED BY <3>1, <3>2, ListedPart
  <2> QED BY <1>5, <2>1, <2>2, <2>3, <2>4 DEF Prints, OpAt
<1>10. \A i \in a + 1 .. a + n : i \in places
  <2> TAKE i \in a + 1 .. a + n
  <2>1. PICK k \in 1 .. n : i = a + k
    <3>1. i - a \in 1 .. n /\ i = a + (i - a)
      BY <1>5
    <3> QED BY <3>1
  <2> QED BY <1>9, <2>1 DEF Enclosing
<1>11. p \in [1 .. m -> Nat] /\ \A k \in 1 .. m : p[k] = q[k].pos
  <2>1. \A k \in 1 .. m : q[k].pos \in Nat
    BY <1>6, <1>7
  <2> HIDE DEF m, q
  <2> QED BY <2>1
<1> HIDE DEF p, places, m, q
<1>12. m = n /\ \A k \in 1 .. m : p[k] = a + k
  <2>1. \A x, y \in 1 .. m : x < y => p[x] < p[y]
    BY <1>7, <1>11
  <2>2. \A x \in 1 .. m : p[x] \in a + 1 .. a + n
    BY <1>7, <1>8, <1>11
  <2>3. \A i \in a + 1 .. a + n : \E x \in 1 .. m : p[x] = i
    BY <1>7, <1>10, <1>11
  <2>4. m \in Nat /\ p \in [1 .. m -> Nat]
    BY <1>6, <1>11
  <2>5. a \in Nat /\ n \in Nat
    OBVIOUS
  <2>6. Enumerates(m, p, a, n)
    BY <2>1, <2>2, <2>3, <2>4, <2>5 DEF Enumerates
  <2> QED BY <2>6, Enumeration
<1>13. \A k \in 1 .. n : q[k].pos = w[j] + k /\ q[k].op = src[q[k].pos].op
  BY <1>5, <1>7, <1>11, <1>12
<1>14. Len(q) = n
  BY <1>12 DEF m
<1> QED BY <1>3, <1>4, <1>5, <1>9, <1>13, <1>14 DEF q

\* Of a name that a list has the first place is found.
LEMMA IndexFirst ==
  ASSUME NEW q, IsList(q), NEW i \in 1 .. Len(q)
  PROVE  \E c \in 1 .. i : IndexIn(q, q[i]) = c - 1 /\ q[c] = q[i] /\ IndexIn(q, q[i]) \in 0 .. i - 1
<1> DEFINE S == {k \in 1 .. Len(q) : q[k] = q[i]}
           P(k) == q[k] = q[i] /\ \A j \in 1 .. k - 1 : q[j] # q[i]
           c == CHOOSE k \in 1 .. Len(q) : P(k)
<1>0. Len(q) \in Nat
  BY DEF IsList
<1>1. S \in SUBSET Nat /\ S # {}
  BY <1>0
<1>2. PICK m \in S : \A l \in S : m <= l
  <2> HIDE DEF S
  <2> QED BY <1>1, Least
<1>3. m \in 1 .. Len(q) /\ P(m)
  <2>1. \A j \in 1 .. m - 1 : j \in 1 .. Len(q) /\ ~(m <= j)
    BY <1>0, <1>2
  <2> QED BY <1>2, <2>1
<1>4. c \in 1 .. Len(q) /\ P(c)
  <2> HIDE DEF P
  <2> QED BY <1>3
<1>5. IndexIn(q, q[i]) = c - 1
  BY DEF IndexIn
<1> HIDE DEF c
<1>6. c \in 1 .. i
  <2>1. i \in 1 .. c - 1 => FALSE
    BY <1>4
  <2> QED BY <1>0, <1>4, <2>1
<1>7. c - 1 \in 0 .. i - 1
  BY <1>0, <1>6
<1> QED BY <1>4, <1>5, <1>6, <1>7

\* An instruction of it says what the one that was listed says.
LEMMA InstrHeard ==
  ASSUME NEW h, NEW fs, NEW vs, NEW w, Remade(h, fs, vs, w), NEW j \in 1 .. Len(fs), fs[j].flags = 0,
         NEW k \in DOMAIN fs[j].body
  PROVE  LET r == code[fs[j].key][k] IN
         /\ WithName([op |-> r.op, val |-> r.val], module.funcs) = WithName(fs[j].body[k], fs)
         /\ r.op = fs[j].body[k].op
         /\ r.op = "call" => r.val \in 1 .. nf
         /\ r.op = "ldvar" => r.val \in 0 .. nv - 1
<1> DEFINE f == fs[j].key
           r == code[f][k]
           i == w[j] + k
           b == fs[j].body[k]
<1>1. Told(src, h, fs, vs, w) /\ RoundInv /\ stage \in Listing
  BY DEF Remade
<1>2. /\ f \in DOMAIN code /\ k \in DOMAIN code[f] /\ r.pos = i /\ r.op = src[i].op /\ i \in 1 .. Len(src)
      /\ OpAt(src, i, fs, vs, w, j, k)
  <2>1. f \in DOMAIN code
    BY FunctionsHeard, Heard
  <2>2. PICK n \in Nat : /\ IsList(code[f]) /\ Len(code[f]) = n /\ DOMAIN fs[j].body = 1 .. n
                         /\ \A l \in 1 .. n : /\ code[f][l].pos = w[j] + l /\ code[f][l].op = src[code[f][l].pos].op
                                              /\ w[j] + l \in 1 .. Len(src)
                                              /\ OpAt(src, w[j] + l, fs, vs, w, j, l)
    BY CodeHeard
  <2> QED BY <2>1, <2>2 DEF IsList
<1>3. Means(r)
  BY <1>2, Heard DEF Generated
<1>4. /\ src[i].op \in Op /\ src[i].op = b.op
      /\ src[i].op \in Number => Operand(src[i].op, src[i].arg)
      /\ src[i].op \in Number /\ Readable(b) => InRange(src[i].op, src[i].arg) /\ src[i].arg = b.val
  <2>1. WellMade(fs, vs)
    BY <1>1, ToldSource
  <2> QED BY <1>2, <2>1, OpMade
<1>5. PICK q, n : /\ MadeFrom(fs[j], q) /\ n = Len(q) /\ DOMAIN fs[j].body = 1 .. n
  BY <1>1, ToldBody
<1>6. /\ b = [op |-> q[k].op, val |-> q[k].val]
      /\ q[k].op \in {"halt", "nop"} => q[k].val = 0
  BY <1>5 DEF MadeFrom
<1>7. /\ Readable(b) /\ b.op \notin {"jmp", "ldfn", "halt", "setelen"}
      /\ Named(fs[j].body, Len(fs), Len(vs))
  BY <1>1 DEF Told, Tame, Readable
<1>8. Prints(src[i], b, fs, vs)
  BY <1>2 DEF OpAt
<1>9. /\ vec = vec /\ IsList(vec) /\ Once(vec) /\ DOMAIN kind = ToSet(vec) /\ nf = Len(vec) /\ DOMAIN vec = 1 .. nf
      /\ IsList(data.vars) /\ Once(data.vars) /\ DOMAIN data.bytes = ToSet(data.vars) /\ nv = Len(data.vars)
      /\ DOMAIN data.vars = 1 .. nv /\ nf \in Nat /\ nv \in Nat
  BY Heard DEF IsList
<1> HIDE DEF r, i, b, f
<1>10. CASE r.op \in Number
  <2>1. r.val \in Encoded(r.op, src[i].arg)
    BY <1>2, <1>3, <1>10 DEF Means
  <2>2. r.val = b.val
    BY <1>2, <1>4, <1>7, <1>10, <2>1, Unchanged
  <2>3. [op |-> r.op, val |-> r.val] = b /\ r.op \notin {"call", "ldvar"}
    BY <1>2, <1>4, <1>6, <1>10, <2>2 DEF Number
  <2> QED BY <1>2, <1>4, <1>6, <2>3 DEF WithName, r, b, f
<1>11. CASE r.op = "nop"
  <2>1. r.val = 0
    BY <1>1, <1>2, <1>11 DEF RoundInv, Recorded, r
  <2>2. b.val = 0
    BY <1>2, <1>4, <1>6, <1>11
  <2>3. [op |-> r.op, val |-> r.val] = b
    BY <1>2, <1>4, <1>6, <2>1, <2>2
  <2> QED BY <1>2, <1>4, <1>6, <1>11, <2>3 DEF WithName, r, b, f
<1>12. CASE r.op = "call"
  <2>1. src[i].arg \in ToSet(vec) /\ r.val = IndexIn(vec, src[i].arg) + 1
    BY <1>2, <1>3, <1>9, <1>12 DEF Means, Index
  <2>2. r.val \in 1 .. nf /\ vec[r.val] = src[i].arg
    BY <1>9, <2>1, IndexOnce
  <2>3. module.funcs[r.val].key = vec[r.val]
    BY <1>1, <2>2, Rows DEF RowOf
  <2>4. b.val \in 1 .. Len(fs) /\ b.op = "call"
    BY <1>2, <1>4, <1>7, <1>12 DEF Named, b
  <2>5. src[i].arg = fs[b.val].key
    BY <1>1, <1>8, <2>4, ToldSource DEF Prints
  <2>6. module.funcs[r.val].key = fs[b.val].key
    BY <2>2, <2>3, <2>5
  <2> QED BY <1>2, <1>4, <1>12, <2>2, <2>4, <2>6 DEF WithName, r, b, f
<1>13. CASE r.op = "ldvar"
  <2>1. src[i].arg \in ToSet(data.vars) /\ r.val = IndexIn(data.vars, src[i].arg)
    BY <1>2, <1>3, <1>9, <1>13 DEF Means
  <2>2. r.val + 1 \in 1 .. nv /\ data.vars[r.val + 1] = src[i].arg
    BY <1>9, <2>1, IndexOnce
  <2>3. b.val \in 0 .. Len(vs) - 1 /\ b.op = "ldvar"
    BY <1>2, <1>4, <1>7, <1>13 DEF Named, b
  <2>4. src[i].arg = vs[b.val + 1].key
    BY <1>1, <1>8, <2>3, ToldSource DEF Prints
  <2>5. b.val + 1 \in 1 .. Len(vs) /\ nv = Len(vs)
    BY <1>9, <2>3, VariablesHeard
  <2>6. data.vars[b.val + 1] = vs[b.val + 1].key
    BY <2>5, VariablesHeard
  <2>7. r.val + 1 = b.val + 1
    BY <1>9, <2>2, <2>4, <2>5, <2>6 DEF Once
  <2>8. r.val \in Int /\ b.val \in Int
    <3>1. PICK x \in 1 .. nv : src[i].arg = data.vars[x]
      BY <1>9, <2>1 DEF ToSet
    <3>2. IndexIn(data.vars, data.vars[x]) \in 0 .. x - 1
      BY <1>9, <3>1, IndexFirst
    <3>3. r.val \in Int
      BY <1>9, <2>1, <3>1, <3>2
    <3> QED BY <2>3, <3>3
  <2>9. r.val = b.val /\ r.val \in 0 .. nv - 1
    BY <1>9, <2>2, <2>7, <2>8
  <2>10. [op |-> r.op, val |-> r.val] = b
    BY <1>2, <1>4, <1>6, <2>9
  <2> QED BY <1>2, <1>4, <1>6, <1>13, <2>9, <2>10 DEF WithName, r, b, f
<1> QED BY <1>2, <1>4, <1>7, <1>10, <1>11, <1>12, <1>13 DEF Op

\* A function of it is the one that was listed.
LEMMA FunctionHeard ==
  ASSUME NEW h, NEW fs, NEW vs, NEW w, Remade(h, fs, vs, w), NEW j \in 1 .. Len(fs), NEW i \in 1 .. nf,
         vec[i] = fs[j].key
  PROVE  LET r == module.funcs[i] IN
         /\ Function(r, module.funcs) = Function(fs[j], fs)
         /\ \A k \in DOMAIN r.body : Readable(r.body[k])
         /\ Named(r.body, nf, nv)
<1> DEFINE f == fs[j].key
           r == module.funcs[i]
<1>1. Told(src, h, fs, vs, w) /\ RoundInv /\ stage \in Listing /\ Laid /\ Recorded /\ Bodies /\ Live
  BY Heard DEF Remade, RoundInv, Live
<1>2. RowOf(r, f)
  BY <1>1, Rows
<1>3. r.key = f /\ r.flags = fs[j].flags /\ f \in DOMAIN kind /\ f \in DOMAIN code
  <2>1. r.key = f /\ r.flags = FlagOf[kind[f]] /\ f \in DOMAIN kind
    BY <1>2 DEF RowOf
  <2>2. FlagOf[kind[f]] = fs[j].flags
    BY FunctionsHeard
  <2>3. DOMAIN code = DOMAIN kind
    BY Heard
  <2> QED BY <2>1, <2>2, <2>3
<1>4. WellMade(fs, vs)
  BY <1>1, ToldSource
<1>5. CASE fs[j].flags = 0
  <2>1. PICK n \in Nat : /\ IsList(code[f]) /\ Len(code[f]) = n /\ DOMAIN fs[j].body = 1 .. n
    BY <1>5, CodeHeard
  <2>2. /\ DOMAIN r.body = 1 .. n
        /\ \A k \in 1 .. n : r.body[k] = [op |-> code[f][k].op, val |-> code[f][k].val]
        /\ r.bytes = Padded(Size(f))
    BY <1>2, <1>3, <1>5, <2>1 DEF RowOf, IsSeq
  <2>3. \A k \in 1 .. n :
          /\ WithName(r.body[k], module.funcs) = WithName(fs[j].body[k], fs)
          /\ code[f][k].op = fs[j].body[k].op /\ r.body[k].op = code[f][k].op /\ r.body[k].val = code[f][k].val
          /\ r.body[k].op = "call" => r.body[k].val \in 1 .. nf
          /\ r.body[k].op = "ldvar" => r.body[k].val \in 0 .. nv - 1
    <3> TAKE k \in 1 .. n
    <3>1. r.body[k] = [op |-> code[f][k].op, val |-> code[f][k].val] /\ k \in DOMAIN fs[j].body
      BY <2>1, <2>2
    <3>2. /\ WithName([op |-> code[f][k].op, val |-> code[f][k].val], module.funcs) = WithName(fs[j].body[k], fs)
          /\ code[f][k].op = fs[j].body[k].op
          /\ code[f][k].op = "call" => code[f][k].val \in 1 .. nf
          /\ code[f][k].op = "ldvar" => code[f][k].val \in 0 .. nv - 1
      BY <1>5, <3>1, InstrHeard
    <3>3. r.body[k].op = code[f][k].op /\ r.body[k].val = code[f][k].val
      BY <3>1
    <3> QED BY <3>1, <3>2, <3>3
  <2>4. r.bytes = fs[j].bytes
    <3>1. PICK q, m : MadeFrom(fs[j], q) /\ m = Len(q) /\ DOMAIN fs[j].body = 1 .. m /\ m \in Nat
      BY <1>1, <1>5, ToldBody
    <3>2. m = n
      BY <2>1, <3>1
    <3>3. Follows(q) /\ Follows(code[f]) /\ fs[j].bytes = Padded(Total(q))
      BY <1>1, <1>3, <3>1 DEF MadeFrom, Laid
    <3>4. (q # << >> => q[1].at = 0) /\ (code[f] # << >> => code[f][1].at = 0)
      BY <1>1, <1>3, <3>1 DEF MadeFrom, Recorded
    <3>5. \A k \in 1 .. Len(q) : q[k].op = code[f][k].op
      <4> TAKE k \in 1 .. Len(q)
      <4>1. k \in 1 .. n /\ fs[j].body[k] = [op |-> q[k].op, val |-> q[k].val]
        BY <3>1, <3>2 DEF MadeFrom
      <4> QED BY <2>3, <4>1
    <3>6. Len(q) = Len(code[f])
      BY <2>1, <3>1, <3>2
    <3>7. Total(q) = Total(code[f])
      BY <3>3, <3>4, <3>5, <3>6, SameTotal
    <3>8. Size(f) = Total(code[f])
      BY DEF Size, Total
    <3> QED BY <2>2, <3>3, <3>7, <3>8
  <2>5. [k \in DOMAIN r.body |-> WithName(r.body[k], module.funcs)]
        = [k \in DOMAIN fs[j].body |-> WithName(fs[j].body[k], fs)]
    BY <2>1, <2>2, <2>3
  <2>6. Function(r, module.funcs) = Function(fs[j], fs)
    BY <1>3, <2>4, <2>5 DEF Function
  <2>7. \A k \in DOMAIN r.body : Readable(r.body[k])
    <3> TAKE k \in DOMAIN r.body
    <3>1. Readable(fs[j].body[k])
      BY <1>1, <2>1, <2>2 DEF Told, Tame
    <3>2. r.body[k].op = "call" \/ r.body[k] = fs[j].body[k]
      BY <2>2, <2>3 DEF WithName
    <3> QED BY <3>1, <3>2 DEF Readable
  <2>8. Named(r.body, nf, nv)
    BY <2>2, <2>3, <2>7 DEF Named, Readable
  <2> QED BY <2>6, <2>7, <2>8
<1>6. CASE fs[j].flags # 0
  <2>1. fs[j].bytes = 8 /\ fs[j].body = << >>
    BY <1>4, <1>6 DEF WellMade
  <2>2. kind[f] # "code"
    BY <1>2, <1>3, <1>6 DEF RowOf, FlagOf
  <2>3. code[f] = << >> /\ r.bytes = 8
    BY <1>1, <1>2, <1>3, <1>6, <2>2 DEF Bodies, RowOf
  <2>4. DOMAIN r.body = {} /\ DOMAIN fs[j].body = {}
    BY <1>2, <2>1, <2>3 DEF RowOf, IsSeq
  <2>5. [k \in DOMAIN r.body |-> WithName(r.body[k], module.funcs)]
        = [k \in DOMAIN fs[j].body |-> WithName(fs[j].body[k], fs)]
    BY <2>4
  <2>6. Function(r, module.funcs) = Function(fs[j], fs)
    BY <1>3, <2>1, <2>3, <2>5 DEF Function
  <2> QED BY <2>4, <2>6 DEF Named
<1> QED BY <1>5, <1>6

\* Functions and variables, stacks and heap of two modules are alike, but that to the heap of
\* the one something was added n times.
AlikeTables(h, fs, vs, o) ==
  /\ Functions(fs) = Functions(o.funcs) /\ Variables(vs) = Variables(o.vars)
  /\ Len(fs) = Len(o.funcs) /\ Len(vs) = Len(o.vars)
  /\ h.opstack = o.hdr.opstack /\ h.callstack = o.hdr.callstack
GrownHeap(h, o, n) == Sized(h.heap) = Sized(o.hdr.heap) + n * HeapAdded(Len(o.funcs), Len(o.vars))

\* It has the functions that were listed, and no others.
LEMMA SameFunctions ==
  ASSUME NEW h, NEW fs, NEW vs, NEW w, Remade(h, fs, vs, w)
  PROVE  /\ Functions(module.funcs) = Functions(fs)
         /\ \A i \in 1 .. nf : /\ \A k \in DOMAIN module.funcs[i].body :
                                    Readable(module.funcs[i].body[k])
                               /\ Named(module.funcs[i].body, nf, nv)
         /\ Distinct(Keys(module.funcs))
<1>1. /\ RoundInv /\ stage \in Listing /\ nf \in Nat /\ DOMAIN module.funcs = 1 .. nf
      /\ \A i \in 1 .. nf : module.funcs[i].key = vec[i] /\ vec[i] \in DOMAIN kind
      /\ DOMAIN fs = 1 .. Len(fs)
  <2>1. RoundInv /\ stage \in Listing /\ Told(src, h, fs, vs, w)
    BY DEF Remade
  <2>2. nf \in Nat /\ IsSeq(module.funcs, nf) /\ \A i \in 1 .. nf : RowOf(module.funcs[i], vec[i])
    BY <2>1, Rows
  <2>3. DOMAIN fs = 1 .. Len(fs)
    BY <2>1, ToldSource
  <2> QED BY <2>1, <2>2, <2>3 DEF RowOf, IsSeq
<1>2. ASSUME NEW i \in 1 .. nf PROVE \E j \in 1 .. Len(fs) : vec[i] = fs[j].key
  <2>1. \A f \in DOMAIN kind : \E j \in 1 .. Len(fs) : f = fs[j].key
    BY FunctionsHeard
  <2>2. vec[i] \in DOMAIN kind
    BY <1>1
  <2> QED BY <2>1, <2>2
<1>3. ASSUME NEW j \in 1 .. Len(fs) PROVE \E i \in 1 .. nf : vec[i] = fs[j].key
  <2>1. fs[j].key \in ToSet(vec) /\ nf = Len(vec) /\ IsList(vec)
    BY FunctionsHeard, Heard
  <2> QED BY <2>1 DEF ToSet, IsList
<1>4. \A i \in 1 .. nf : \A j \in 1 .. Len(fs) : vec[i] = fs[j].key =>
        Function(module.funcs[i], module.funcs) = Function(fs[j], fs)
  BY FunctionHeard
<1>5. Functions(module.funcs) = Functions(fs)
  <2>1. \A x \in Functions(module.funcs) : x \in Functions(fs)
    <3> TAKE x \in Functions(module.funcs)
    <3>1. PICK i \in 1 .. nf : x = Function(module.funcs[i], module.funcs)
      BY <1>1 DEF Functions
    <3>2. PICK j \in 1 .. Len(fs) : vec[i] = fs[j].key
      BY <1>2
    <3>3. x = Function(fs[j], fs)
      BY <1>4, <3>1, <3>2
    <3> QED BY <1>1, <3>3 DEF Functions
  <2>2. \A x \in Functions(fs) : x \in Functions(module.funcs)
    <3> TAKE x \in Functions(fs)
    <3>1. PICK j \in 1 .. Len(fs) : x = Function(fs[j], fs)
      BY <1>1 DEF Functions
    <3>2. PICK i \in 1 .. nf : vec[i] = fs[j].key
      BY <1>3
    <3>3. x = Function(module.funcs[i], module.funcs)
      BY <1>4, <3>1, <3>2
    <3> QED BY <1>1, <3>3 DEF Functions
  <2> QED BY <2>1, <2>2
<1>6. \A i \in 1 .. nf : /\ \A k \in DOMAIN module.funcs[i].body :
                              Readable(module.funcs[i].body[k])
                         /\ Named(module.funcs[i].body, nf, nv)
  <2> TAKE i \in 1 .. nf
  <2>1. PICK j \in 1 .. Len(fs) : vec[i] = fs[j].key
    BY <1>2
  <2> QED BY <2>1, FunctionHeard
<1>7. Distinct(Keys(module.funcs))
  <2>1. Once(vec) /\ DOMAIN vec = 1 .. nf
    BY Heard DEF IsList
  <2> QED BY <1>1, <2>1 DEF Distinct, Keys, Once
<1> QED BY <1>5, <1>6, <1>7

\* It has the variables that were listed.
LEMMA SameVariables ==
  ASSUME NEW h, NEW fs, NEW vs, NEW w, Remade(h, fs, vs, w)
  PROVE  /\ Variables(module.vars) = Variables(vs)
         /\ Distinct(Keys(module.vars))
<1>1. /\ Told(src, h, fs, vs, w) /\ RoundInv /\ stage \in Listing /\ nv \in Nat /\ DOMAIN module.vars = 1 .. nv
      /\ \A i \in 1 .. nv : VarRowOf(module.vars[i], data.vars[i])
      /\ nv = Len(vs) /\ DOMAIN vs = 1 .. nv
  <2>1. RoundInv /\ stage \in Listing /\ Told(src, h, fs, vs, w)
    BY DEF Remade
  <2>2. nv \in Nat /\ IsSeq(module.vars, nv) /\ \A i \in 1 .. nv : VarRowOf(module.vars[i], data.vars[i])
    BY <2>1, Rows
  <2>3. DOMAIN vs = 1 .. Len(vs)
    BY <2>1, ToldSource
  <2>4. nv = Len(vs)
    BY VariablesHeard
  <2> QED BY <2>1, <2>2, <2>3, <2>4 DEF IsSeq
<1>2. ASSUME NEW k \in 1 .. nv
      PROVE  module.vars[k].key = vs[k].key /\ module.vars[k].bytes = vs[k].bytes
  <2>1. data.vars[k] = vs[k].key /\ data.bytes[vs[k].key] = vs[k].bytes
    BY <1>1, VariablesHeard
  <2>2. module.vars[k].key = vs[k].key /\ module.vars[k].bytes = Padded(vs[k].bytes)
    BY <1>1, <2>1 DEF VarRowOf
  <2>3. PICK n \in Nat : n = vs[k].bytes /\ n % 4 = 0
    BY <1>1, ToldSource DEF WellMade
  <2>4. Padded(n) = n
    BY <2>3 DEF Padded, Align
  <2> QED BY <2>2, <2>3, <2>4
<1>3. Variables(module.vars) = Variables(vs)
  BY <1>1, <1>2 DEF Variables
<1>4. Distinct(Keys(module.vars))
  <2>1. \A i, j \in 1 .. nv : vs[i].key = vs[j].key => i = j
    BY <1>1, SameKey
  <2> QED BY <1>1, <1>2, <2>1 DEF Distinct, Keys
<1> QED BY <1>3, <1>4

\* The assembler has the sizes that were printed.
LEMMA SizesHeard ==
  ASSUME NEW h, NEW fs, NEW vs, NEW w, Remade(h, fs, vs, w)
  PROVE  data.opstack = h.opstack /\ data.callstack = h.callstack /\ data.heap = h.heap
<1>1. /\ Told(src, h, fs, vs, w) /\ Regular /\ Collected(Len(src) + 1) /\ Len(src) \in Nat
      /\ 3 <= Len(src) /\ DOMAIN Unit = {"opstack", "callstack", "heap"}
  <2>1. Told(src, h, fs, vs, w) /\ Describes(src, h, fs, vs, w)
    BY DEF Remade, Told
  <2>2. Len(src) \in Nat /\ Len(vs) \in Nat
    BY <2>1, ToldSource
  <2>3. 3 + Len(vs) <= Len(src)
    BY <2>1 DEF Describes
  <2> QED BY <2>1, <2>2, <2>3, Heard, Units
<1>2. ASSUME NEW which \in DOMAIN Unit, NEW p \in 1 .. 3, which = <<"opstack", "callstack", "heap">>[p]
      PROVE  data[which] = h[which]
  <2>1. Sets(p, which) /\ p \in 1 .. Len(src) + 1 - 1
    BY <1>1, <1>2, SizesPrinted DEF Sets
  <2>2. LastSize(which, Len(src) + 1)
    BY <1>1 DEF Collected
  <2>3. PICK i \in 1 .. Len(src) + 1 - 1 : Sets(i, which) /\ data[which] = src[i].num * Unit[which]
    BY <2>1, <2>2 DEF LastSize
  <2>4. i \in 1 .. Len(src)
    BY <1>1
  <2>5. i \in 1 .. 3
    BY <1>1, <2>3, <2>4, SizesFit DEF Sets
  <2>6. src[i].which = which /\ src[i].num * Unit[src[i].which] = h[src[i].which]
    BY <1>1, <2>3, <2>5, SizesPrinted DEF Sets
  <2> QED BY <2>3, <2>6
<1>3. data["opstack"] = h["opstack"]
  BY <1>1, <1>2
<1>4. data["callstack"] = h["callstack"]
  BY <1>1, <1>2
<1>5. data["heap"] = h["heap"]
  BY <1>1, <1>2
<1> QED BY <1>3, <1>4, <1>5

\* What is added to a heap.
LEMMA AddedType ==
  ASSUME IsScript(script) PROVE HeapAdded(nf, nv) \in Nat
<1>1. BookKeeping(nf, nv) \in Nat
  BY Book
<1>2. PICK n \in Nat : n = MemRegionSize(nf, nv)
  BY <1>1, U32Type DEF MemRegionSize
<1>3. Align(n, 8) \in Nat
  <2>1. (n + 8 - 1) \div 8 \in Nat
    OBVIOUS
  <2> QED BY <2>1 DEF Align
<1> QED BY <1>2, <1>3 DEF HeapAdded, PtrBytes

\* The heap of the module made of a listing.
LEMMA HeapHeard ==
  ASSUME NEW h, NEW fs, NEW vs, NEW w, Remade(h, fs, vs, w),
         Sized(h.heap) + HeapAdded(nf, nv) < UintMax
  PROVE  Sized(hdr.heap) = Sized(h.heap) + HeapAdded(nf, nv)
<1>1. RoundInv /\ stage \in Listing /\ stage # "waiting" /\ h \in Header
  BY ToldSource DEF Remade, Listing
<1>2. HeapAdded(nf, nv) \in Nat
  BY <1>1, AddedType DEF RoundInv, FileInv
<1>3. Sized(h.heap) \in Nat /\ Sized(h.heap) > 0
  BY <1>1 DEF Sized, DefaultMemsize, Header
<1>4. PICK n \in Nat : n = Sized(h.heap) + HeapAdded(nf, nv) /\ n > 0
  BY <1>2, <1>3
<1>5. hdr.heap = U32(n)
  BY <1>1, <1>4, Rows, SizesHeard
<1>6. hdr.heap = n
  BY <1>4, <1>5, U32Small
<1> QED BY <1>4, <1>6 DEF Sized

\* What the module that was listed has in common with another, the one made of it has too.
LEMMA SameTables ==
  ASSUME NEW h, NEW fs, NEW vs, NEW w, Remade(h, fs, vs, w), NEW o, AlikeTables(h, fs, vs, o)
  PROVE  AlikeTables(hdr, module.funcs, module.vars, o)
<1>1. RoundInv /\ stage \in Listing /\ Told(src, h, fs, vs, w)
  BY DEF Remade
<1>2. Functions(module.funcs) = Functions(fs) /\ Variables(module.vars) = Variables(vs)
  BY SameFunctions, SameVariables
<1>3. Len(module.funcs) = Len(fs) /\ Len(module.vars) = Len(vs)
  <2>1. IsSeq(module.funcs, nf) /\ IsSeq(module.vars, nv)
    BY <1>1, Rows
  <2>2. Len(module.funcs) = nf /\ Len(module.vars) = nv
    BY <2>1 DEF IsSeq
  <2> QED BY <2>2, FunctionsHeard, VariablesHeard
<1>4. hdr.opstack = h.opstack /\ hdr.callstack = h.callstack
  <2>1. h.opstack # 0 /\ h.callstack # 0
    <3>1. h.opstack \in 1 .. UintMax - 1 /\ h.callstack \in 1 .. UintMax - 1
      BY <1>1 DEF Told, Tame
    <3>2. UintMax \in Nat
      BY LayoutAssumption
    <3> QED BY <3>1, <3>2
  <2>2. hdr.opstack = Sized(h.opstack) /\ hdr.callstack = Sized(h.callstack)
    BY <1>1, Rows, SizesHeard
  <2> QED BY <2>1, <2>2 DEF Sized
<1> QED BY <1>2, <1>3, <1>4 DEF AlikeTables

\* It is as tame as the one that was listed, if its heap is not too large.
LEMMA StillTame ==
  ASSUME NEW h, NEW fs, NEW vs, NEW w, Remade(h, fs, vs, w), Sized(hdr.heap) < UintMax \div 2
  PROVE  Tame(hdr, module.funcs, module.vars)
<1>1. RoundInv /\ stage \in Listing /\ stage # "waiting" /\ Told(src, h, fs, vs, w)
  BY DEF Remade, Listing
<1>2. hdr \in Header
  BY <1>1 DEF RoundInv, FileInv
<1>3. IsSeq(module.funcs, Len(module.funcs)) /\ IsSeq(module.vars, Len(module.vars))
      /\ Len(module.funcs) = nf /\ Len(module.vars) = nv
  <2>1. IsSeq(module.funcs, nf) /\ IsSeq(module.vars, nv)
    BY <1>1, Rows
  <2>2. Len(module.funcs) = nf /\ Len(module.vars) = nv
    BY <2>1 DEF IsSeq
  <2> QED BY <2>1, <2>2
<1>4. WellMade(module.funcs, module.vars)
  BY <1>1, ModuleMade
<1>5. \A z \in {hdr.opstack, hdr.callstack} : z \in 1 .. UintMax - 1 /\ z % PtrBytes = 0
  <2> DEFINE o == [hdr |-> h, funcs |-> fs, vars |-> vs]
  <2>1. AlikeTables(h, fs, vs, o)
    BY DEF AlikeTables
  <2>2. AlikeTables(hdr, module.funcs, module.vars, o)
    <3> HIDE DEF o
    <3> QED BY <2>1, SameTables
  <2>3. hdr.opstack = h.opstack /\ hdr.callstack = h.callstack
    BY <2>2 DEF AlikeTables
  <2> QED BY <1>1, <2>3 DEF Told, Tame
<1>6. Distinct(Keys(module.funcs)) /\ Distinct(Keys(module.vars))
  BY SameFunctions, SameVariables
<1>7. \A j \in 1 .. Len(module.funcs) :
        /\ \A k \in DOMAIN module.funcs[j].body : Readable(module.funcs[j].body[k])
        /\ Named(module.funcs[j].body, Len(module.funcs), Len(module.vars))
  BY <1>3, SameFunctions
<1> QED BY <1>2, <1>3, <1>4, <1>5, <1>6, <1>7 DEF Tame

\* If the first places of a list, as many as it has elements, are all different, every element
\* has one of them.
LEMMA AllNamed ==
  ASSUME NEW q, IsList(q), NEW n \in Nat, n = Cardinality(ToSet(q)), n <= Len(q),
         \A i, j \in 1 .. n : i # j => q[i] # q[j], NEW e \in ToSet(q)
  PROVE  IndexIn(q, e) \in 0 .. n - 1
<1> DEFINE b == [i \in 1 .. n |-> q[i]]
<1>1. Len(q) \in Nat /\ DOMAIN q = 1 .. Len(q) /\ \A i \in 1 .. n : i \in 1 .. Len(q)
  BY DEF IsList
<1>2. Len(b) = n /\ DOMAIN b = 1 .. n /\ \A i \in 1 .. n : b[i] = q[i]
  OBVIOUS
<1>3. IsList(b) /\ Once(b)
  BY <1>2 DEF IsList, IsMap, Once
<1> HIDE DEF b
<1>4. Cardinality(ToSet(b)) = n
  BY <1>2, <1>3, CountOnce
<1>5. ToSet(b) \in SUBSET ToSet(q)
  BY <1>1, <1>2 DEF ToSet
<1>6. IsFiniteSet(ToSet(q))
  <2>1. Len(q) \in Int /\ 1 \in Int
    BY <1>1
  <2>2. IsFiniteSet(1 .. Len(q))
    BY <2>1, FS_Interval, Zenon
  <2> DEFINE c == [i \in 1 .. Len(q) |-> q[i]]
  <2>3. c \in Surjection(1 .. Len(q), ToSet(q))
    BY DEF IsList, ToSet, Surjection
  <2> HIDE DEF c
  <2> QED BY <2>2, <2>3, FS_Surjection, Zenon
<1>7. ToSet(q) = ToSet(b)
  BY <1>4, <1>5, <1>6, FS_Subset, Zenon
<1>8. PICK i \in 1 .. n : e = q[i]
  BY <1>2, <1>7 DEF ToSet
<1>9. PICK c \in 1 .. i : IndexIn(q, e) = c - 1
  BY <1>1, <1>8, IndexFirst
<1> QED BY <1>8, <1>9

\* The names in the instructions of a module with one function of each name are names of its
\* functions and variables.
LEMMA FirstNamed ==
  ASSUME RoundInv, stage \in Listing, Distinct(Keys(module.funcs)), Distinct(Keys(module.vars)),
         NEW j \in 1 .. nf, \A k \in DOMAIN module.funcs[j].body : module.funcs[j].body[k].op # "ldfn"
  PROVE  Named(module.funcs[j].body, nf, nv)
<1>1. /\ Typed /\ Generated /\ IsList(vec) /\ IsList(data.vars)
      /\ DOMAIN kind = ToSet(vec) /\ DOMAIN code = DOMAIN kind /\ DOMAIN data.bytes = ToSet(data.vars)
  BY VecList DEF RoundInv, IInv, Typed, TypeOK, Maps, Listing, Live
<1>2. /\ nf = Cardinality(DOMAIN kind) /\ nf \in Nat /\ nf <= Len(vec)
      /\ nv = Cardinality(DOMAIN data.bytes) /\ nv \in Nat /\ nv <= Len(data.vars)
      /\ DOMAIN module.funcs = 1 .. nf /\ \A i \in 1 .. nf : RowOf(module.funcs[i], vec[i])
      /\ DOMAIN module.vars = 1 .. nv /\ \A i \in 1 .. nv : VarRowOf(module.vars[i], data.vars[i])
  BY Rows DEF IsSeq
<1>3. \A i, k \in 1 .. nf : i # k => vec[i] # vec[k]
  BY <1>2 DEF Distinct, Keys, RowOf
<1>4. \A i, k \in 1 .. nv : i # k => data.vars[i] # data.vars[k]
  <2>1. \A i \in 1 .. nv : module.vars[i].key = data.vars[i]
    BY <1>2 DEF VarRowOf
  <2>2. \A i, k \in 1 .. nv : i # k => module.vars[i].key # module.vars[k].key
    BY <1>2 DEF Distinct, Keys
  <2> QED BY <2>1, <2>2
<1>5. \A f \in DOMAIN kind : IndexIn(vec, f) \in 0 .. nf - 1
  BY <1>1, <1>2, <1>3, AllNamed
<1>6. \A v \in DOMAIN data.bytes : IndexIn(data.vars, v) \in 0 .. nv - 1
  BY <1>1, <1>2, <1>4, AllNamed
<1>7. ASSUME NEW k \in DOMAIN module.funcs[j].body, NEW i, i = module.funcs[j].body[k]
      PROVE  /\ i.op = "call" => i.val \in 1 .. nf
             /\ i.op = "ldvar" => i.val \in 0 .. nv - 1
  <2>1. /\ vec[j] \in DOMAIN code /\ k \in 1 .. Len(code[vec[j]])
        /\ i = [op |-> code[vec[j]][k].op, val |-> code[vec[j]][k].val]
    <3>1. PICK f : f = vec[j] /\ RowOf(module.funcs[j], f)
      BY <1>2
    <3>2. DOMAIN module.funcs[j].body = 1 .. Len(code[f])
      BY <3>1 DEF RowOf, IsSeq
    <3> QED BY <1>1, <1>7, <3>1, <3>2 DEF RowOf
  <2>2. k \in DOMAIN code[vec[j]]
    BY <1>1, <2>1 DEF Generated, IsList
  <2>3. PICK r : r = code[vec[j]][k] /\ Means(r)
    BY <1>1, <2>1, <2>2 DEF Generated
  <2>4. i.op = r.op /\ i.val = r.val
    BY <2>1, <2>3
  <2>5. ASSUME r.op = "call" PROVE r.val \in 1 .. nf
    <3>1. PICK f \in DOMAIN kind : r.val = IndexIn(vec, f) + 1
      BY <2>3, <2>5 DEF Means, Index
    <3>2. PICK c \in 0 .. nf - 1 : c = IndexIn(vec, f)
      BY <1>5
    <3> QED BY <1>2, <3>1, <3>2
  <2>6. ASSUME r.op = "ldvar" PROVE r.val \in 0 .. nv - 1
    <3>1. PICK v \in DOMAIN data.bytes : r.val = IndexIn(data.vars, v)
      BY <2>3, <2>6 DEF Means
    <3> QED BY <1>6, <3>1
  <2> QED BY <2>4, <2>5, <2>6
<1> QED BY <1>7 DEF Named

\* A module that the properties are about, as it is first loaded.
First ==
  /\ stage \in Listing /\ Distinct(Keys(module.funcs)) /\ Distinct(Keys(module.vars))
  /\ Sized(hdr.heap) < UintMax \div 2
  /\ \A i \in DOMAIN module.funcs : \A k \in DOMAIN module.funcs[i].body :
       Readable(module.funcs[i].body[k])

\* Its listing is a source of the same module.
LEMMA FirstModule == ASSUME RoundInv, First PROVE Tame(hdr, module.funcs, module.vars)
<1>1. /\ stage \in Listing /\ stage # "waiting" /\ hdr \in Header
      /\ Distinct(Keys(module.funcs)) /\ Distinct(Keys(module.vars)) /\ Sized(hdr.heap) < UintMax \div 2
  BY DEF First, RoundInv, FileInv, Listing
<1>2. IsSeq(module.funcs, Len(module.funcs)) /\ IsSeq(module.vars, Len(module.vars))
      /\ Len(module.funcs) = nf /\ Len(module.vars) = nv /\ DOMAIN module.funcs = 1 .. nf
  <2>1. IsSeq(module.funcs, nf) /\ IsSeq(module.vars, nv)
    BY <1>1, Rows
  <2>2. Len(module.funcs) = nf /\ Len(module.vars) = nv /\ DOMAIN module.funcs = 1 .. nf
    BY <2>1 DEF IsSeq
  <2> QED BY <2>1, <2>2
<1>3. WellMade(module.funcs, module.vars)
  BY <1>1, ModuleMade
<1>4. ASSUME NEW n \in 0 .. UintMax - 1, n % PtrBytes = 0
      PROVE  Sized(n) \in 1 .. UintMax - 1 /\ Sized(n) % PtrBytes = 0
  <2>1. UintMax \in Nat /\ UintMax > 4096
    BY LayoutAssumption
  <2>2. CASE n = 0
    BY <2>1, <2>2 DEF Sized, DefaultMemsize, PtrBytes
  <2>3. CASE n # 0
    <3>1. n \in 1 .. UintMax - 1
      BY <1>4, <2>1, <2>3
    <3> QED BY <1>4, <2>3, <3>1 DEF Sized
  <2> QED BY <2>2, <2>3
<1>5. \A z \in {hdr.opstack, hdr.callstack} : z \in 1 .. UintMax - 1 /\ z % PtrBytes = 0
  <2>1. /\ data.opstack \in 0 .. UintMax - 1 /\ data.opstack % PtrBytes = 0
        /\ data.callstack \in 0 .. UintMax - 1 /\ data.callstack % PtrBytes = 0
    BY Units DEF RoundInv, IInv, Typed, TypeOK, Amounts
  <2>2. hdr.opstack = Sized(data.opstack) /\ hdr.callstack = Sized(data.callstack)
    BY <1>1, Rows
  <2> QED BY <1>4, <2>1, <2>2
<1>6. ASSUME NEW j \in 1 .. nf
      PROVE  /\ \A k \in DOMAIN module.funcs[j].body : Readable(module.funcs[j].body[k])
             /\ Named(module.funcs[j].body, nf, nv)
  <2>1. \A k \in DOMAIN module.funcs[j].body : Readable(module.funcs[j].body[k])
    BY <1>2 DEF First
  <2>2. \A k \in DOMAIN module.funcs[j].body : module.funcs[j].body[k].op # "ldfn"
    BY <2>1 DEF Readable
  <2> QED BY <1>1, <2>1, <2>2, FirstNamed
<1> QED BY <1>1, <1>2, <1>3, <1>5, <1>6 DEF Tame

----------------------------------------------------------------------------
(* A listing is a source of the same module.                               *)

\* The source is a listing of a module like the first one, assembled n times.
Tells(s, o, n) ==
  /\ Sized(o.hdr.heap) \in Nat
  /\ \E h, fs, vs, w : Told(s, h, fs, vs, w) /\ AlikeTables(h, fs, vs, o) /\ GrownHeap(h, o, n)

\* What is remembered is the module that was listed first; of one that the properties are about
\* every later source is a listing of a module like it.
Story ==
  /\ round <= Rounds
  /\ round = 0 /\ stage \in Listing \ {"ready"} =>
       origin = [hdr |-> hdr, funcs |-> module.funcs, vars |-> module.vars]
  /\ round > 0 /\ Relistable(origin) => Tells(src, origin, round - 1)

\* How a heap grows.
LEMMA Growth ==
  ASSUME NEW a \in Nat, NEW r \in Nat, r > 0, NEW n \in Nat, r < n
  PROVE  (r - 1) * a + a = r * a /\ r * a <= (n - 1) * a /\ (r - 1) * a \in Nat /\ r * a \in Nat
<1>1. PICK d \in Nat : n - 1 = r + d
  <2>1. n - 1 - r \in Nat /\ n - 1 = r + (n - 1 - r)
    OBVIOUS
  <2> QED BY <2>1
<1>2. (n - 1) * a = r * a + d * a
  BY <1>1
<1>3. d * a \in Nat /\ r * a \in Nat
  OBVIOUS
<1>4. PICK c \in Nat : r - 1 = c /\ r = c + 1
  OBVIOUS
<1>5. r * a = c * a + a /\ c * a \in Nat
  BY <1>4
<1> QED BY <1>2, <1>3, <1>4, <1>5

\* The listing of the first module,
LEMMA FirstTold ==
  ASSUME RoundInv, stage = "listed", round = 0, Story, round < Rounds, Relistable(origin),
         NEW s, NEW w, Describes(s, hdr, module.funcs, module.vars, w)
  PROVE  Tells(s, origin, 0)
<1>1. /\ origin.hdr = hdr /\ origin.funcs = module.funcs /\ origin.vars = module.vars
      /\ stage \in Listing /\ stage # "waiting"
  BY DEF Story, Listing
<1>2. /\ IsScript(script) /\ hdr \in Header /\ Len(module.funcs) = nf /\ Len(module.vars) = nv
  BY <1>1, Rows DEF RoundInv, FileInv, IsSeq
<1>3. PICK a \in Nat : a = HeapAdded(nf, nv)
  BY <1>2, AddedType
<1>4. PICK m \in Nat : m = Sized(hdr.heap)
  BY <1>2 DEF Sized, DefaultMemsize, Header
<1>5. PICK r \in Nat : r = Rounds - 1
  BY ToolchainAssumption
<1>6. Distinct(Keys(module.funcs)) /\ Distinct(Keys(module.vars)) /\ m + r * a < UintMax \div 2
      /\ \A i \in DOMAIN module.funcs : \A k \in DOMAIN module.funcs[i].body :
           Readable(module.funcs[i].body[k])
  BY <1>1, <1>2, <1>3, <1>4, <1>5 DEF Relistable
<1>7. m < UintMax \div 2
  <2>1. r * a \in Nat
    OBVIOUS
  <2>2. PICK u \in Nat : u = UintMax \div 2
    BY LayoutAssumption
  <2> QED BY <1>6, <2>1, <2>2
<1>8. First
  BY <1>1, <1>4, <1>6, <1>7 DEF First
<1>9. Told(s, hdr, module.funcs, module.vars, w)
  BY <1>8, FirstModule DEF Told
<1>10. AlikeTables(hdr, module.funcs, module.vars, origin)
  BY <1>1 DEF AlikeTables
<1>11. GrownHeap(hdr, origin, 0)
  <2>1. m = m + 0 * a
    OBVIOUS
  <2> QED BY <1>1, <1>2, <1>3, <1>4, <2>1 DEF GrownHeap
<1> QED BY <1>1, <1>4, <1>9, <1>10, <1>11 DEF Tells

\* and that of one that has been made of a listing.
LEMMA NextTold ==
  ASSUME RoundInv, stage = "listed", round \in Nat, round > 0, Story, round < Rounds, Relistable(origin),
         NEW s, NEW w, Describes(s, hdr, module.funcs, module.vars, w)
  PROVE  Tells(s, origin, round)
<1>1. Tells(src, origin, round - 1)
  BY DEF Story
<1>2. PICK h, fs, vs, v : Told(src, h, fs, vs, v) /\ AlikeTables(h, fs, vs, origin) /\ GrownHeap(h, origin, round - 1)
  BY <1>1 DEF Tells
<1>3. Remade(h, fs, vs, v)
  BY <1>2 DEF Remade, Listing
<1>4. AlikeTables(hdr, module.funcs, module.vars, origin)
  BY <1>2, <1>3, SameTables
<1>5. Len(origin.funcs) = nf /\ Len(origin.vars) = nv
  BY <1>2, <1>3, FunctionsHeard, VariablesHeard DEF AlikeTables
<1>6. PICK a \in Nat : a = HeapAdded(nf, nv)
  BY AddedType DEF RoundInv, FileInv
<1>7. PICK m \in Nat : m = Sized(origin.hdr.heap)
  BY <1>1 DEF Tells
<1>8. PICK x \in Nat, r \in Nat : r = round /\ r > 0 /\ x = Rounds /\ r < x
  BY ToolchainAssumption
<1>9. PICK u \in Nat : u = UintMax \div 2 /\ u < UintMax
  <2>1. UintMax \in Nat /\ UintMax > 4096
    BY LayoutAssumption
  <2> QED BY <2>1
<1>10. m + (x - 1) * a < u
  BY <1>5, <1>6, <1>7, <1>8, <1>9 DEF Relistable
<1>11. Sized(h.heap) = m + (r - 1) * a
  BY <1>2, <1>5, <1>6, <1>7, <1>8 DEF GrownHeap
<1>12. (r - 1) * a + a = r * a /\ r * a <= (x - 1) * a /\ (r - 1) * a \in Nat /\ r * a \in Nat
  BY <1>8, Growth
<1>13. m + r * a < u /\ Sized(h.heap) + a = m + r * a /\ m + r * a \in Nat
  <2>1. PICK y \in Int : y = (x - 1) * a
    BY <1>8
  <2>2. PICK z \in Nat : z = r * a
    BY <1>12
  <2>3. PICK q \in Nat : q = (r - 1) * a
    BY <1>12
  <2>4. q + a = z /\ z <= y /\ m + y < u
    BY <1>10, <1>12, <2>1, <2>2, <2>3
  <2>5. m + z < u /\ (m + q) + a = m + z
    BY <2>4
  <2> QED BY <1>11, <2>2, <2>3, <2>5
<1>14. Sized(h.heap) + HeapAdded(nf, nv) < UintMax
  <2>1. PICK z \in Nat : z = m + r * a
    BY <1>13
  <2>2. z < UintMax
    BY <1>9, <1>13, <2>1, LayoutAssumption
  <2> QED BY <1>6, <1>13, <2>1, <2>2
<1>15. Sized(hdr.heap) = m + r * a
  BY <1>3, <1>6, <1>13, <1>14, HeapHeard
<1>16. Tame(hdr, module.funcs, module.vars)
  BY <1>3, <1>9, <1>13, <1>15, StillTame
<1>17. Told(s, hdr, module.funcs, module.vars, w)
  BY <1>16 DEF Told
<1>18. GrownHeap(hdr, origin, round)
  BY <1>5, <1>6, <1>7, <1>8, <1>15 DEF GrownHeap
<1> QED BY <1>4, <1>7, <1>17, <1>18 DEF Tells

\* The listing is the next source.
LEMMA ToldAgain ==
  ASSUME ToolInv, Story, Reassemble
  PROVE  Story'
<1>1. PICK s : s = SizeLines \o Each(listing.vars, VarLine) \o Each(listing.nbc, IntroLine)
                   \o FlattenSeq(Each(listing.bc, FuncLines))
  OBVIOUS
<1>2. /\ src' = s /\ stage = "listed" /\ stage' = "waiting" /\ round < Rounds
      /\ round' = round + 1 /\ origin' = origin
  BY <1>1 DEF Reassemble
<1>3. RoundInv /\ round \in Nat
  BY DEF ToolInv
<1>4. PICK w : Describes(s, hdr, module.funcs, module.vars, w)
  BY <1>1, <1>2, <1>3, ListingDescribes
<1>5. ASSUME Relistable(origin) PROVE Tells(s, origin, round)
  BY <1>2, <1>3, <1>4, <1>5, FirstTold, NextTold
<1>6. round' <= Rounds /\ round' - 1 = round
  BY <1>2, <1>3, ToolchainAssumption
<1>7. stage' \notin Listing
  BY <1>2 DEF Listing
<1> QED BY <1>2, <1>5, <1>6, <1>7 DEF Story

\* In the stages of the disassembler the module and its header stay.
LEMMA ListedOn ==
  ASSUME FileNext, stage' \in Listing \ {"ready"}
  PROVE  stage \in Listing /\ UNCHANGED <<hdr, module>>
<1>1. CASE Generate
  BY <1>1 DEF Generate, WriteHeader, WriteFunc, WriteVar, Finalize, Listing
<1>2. CASE LoadFile
  BY <1>2 DEF LoadFile, SetupMemory, SetupFuncTable, ReadFunc, SetupVarTable, ReadVar, EndLoad, SetupTable, Listing
<1>3. CASE Disassemble
  BY <1>3 DEF Disassemble, StartNames, ReadName, StartListing, ListFunc, ListFault, ListVar, EndListing, Listing
<1> QED BY <1>1, <1>2, <1>3 DEF FileNext

\* Every step of the tools keeps the story.
LEMMA StoryStep ==
  ASSUME ToolInv, Story, [ToolNext]_tvars
  PROVE  Story'
<1>1. RoundInv /\ round \in Nat
  BY DEF ToolInv
<1>2. ASSUME src' = src, round' = round, round > 0 => origin' = origin,
             round = 0 /\ stage' \in Listing \ {"ready"} =>
               origin' = [hdr |-> hdr', funcs |-> module'.funcs, vars |-> module'.vars]
      PROVE  Story'
  BY <1>1, <1>2 DEF Story
<1>3. CASE Assemble
  <2>1. stage = "waiting"
    BY <1>1, <1>3, NoPass DEF Assemble, RoundInv
  <2>2. stage' \notin Listing
    BY <1>3, <2>1 DEF Assemble, mvars, Listing
  <2>3. src' = src
    BY <1>3, SourceStays DEF Assemble
  <2> QED BY <1>2, <1>3, <2>2, <2>3 DEF Assemble
<1>4. CASE Handover
  <2>1. stage' \notin Listing
    BY <1>4 DEF Handover, Listing
  <2> QED BY <1>2, <1>4, <2>1 DEF Handover, vars
<1>5. CASE UseFile
  <2>1. src' = src /\ round' = round /\ (round > 0 => origin' = origin) /\ FileNext
    BY <1>1, <1>5 DEF UseFile, vars
  <2>2. ASSUME round = 0, stage' \in Listing \ {"ready"}
        PROVE  origin' = [hdr |-> hdr', funcs |-> module'.funcs, vars |-> module'.vars]
    <3>1. stage \in Listing /\ hdr' = hdr /\ module' = module
      BY <2>1, <2>2, ListedOn
    <3>2. CASE stage = "ready"
      BY <1>5, <2>2, <3>1, <3>2 DEF UseFile
    <3>3. CASE stage # "ready"
      BY <1>5, <2>2, <3>1, <3>3 DEF UseFile, Story
    <3> QED BY <3>2, <3>3
  <2> QED BY <1>2, <2>1, <2>2
<1>6. CASE ToolsEnd \/ UNCHANGED tvars
  <2>1. UNCHANGED <<src, round, origin, stage, hdr, module>>
    BY <1>6 DEF ToolsEnd, tvars, mvars, vars
  <2> QED BY <1>2, <2>1 DEF Story
<1>7. CASE Reassemble
  BY <1>7, ToldAgain
<1> QED BY <1>3, <1>4, <1>5, <1>6, <1>7 DEF ToolNext

\* The story tells of the round trip.
LEMMA StoryTold == ASSUME ToolInv, Story PROVE RoundTrip
<1>1. RoundInv /\ round \in Nat
  BY DEF ToolInv
<1>2. stage # "waiting" => IsScript(script) /\ ListedAsLoaded
  BY <1>1, Listings DEF RoundInv, FileInv
<1>3. stage = "list" => names = Keys(module.funcs) \o Keys(module.vars)
  BY <1>2 DEF ListedAsLoaded, Keys
<1>4. ASSUME round > 0, Relistable(origin)
      PROVE  /\ pass \notin {"failed", "crashed"}
             /\ stage = "ready" =>
                  /\ Functions(module.funcs) = Functions(origin.funcs)
                  /\ Variables(module.vars) = Variables(origin.vars)
                  /\ hdr.opstack = origin.hdr.opstack /\ hdr.callstack = origin.hdr.callstack
  <2>1. PICK h, fs, vs, w : Told(src, h, fs, vs, w) /\ AlikeTables(h, fs, vs, origin)
    BY <1>4 DEF Story, Tells
  <2>2. KeysFit /\ Regular /\ Valid
    BY <2>1, NoJumps, ListingRegular, ListingValid
  <2>3. pass \notin {"failed", "crashed"}
    BY <1>1, <2>2 DEF RoundInv, VInv
  <2>4. ASSUME stage = "ready" PROVE AlikeTables(hdr, module.funcs, module.vars, origin)
    <3>1. Remade(h, fs, vs, w)
      BY <1>1, <2>1, <2>4 DEF Remade, Listing
    <3> QED BY <2>1, <3>1, SameTables
  <2> QED BY <2>3, <2>4 DEF AlikeTables
<1> QED BY <1>2, <1>3, <1>4 DEF RoundTrip

\* The disassembler finds the names that the loader finds, and of a module that none of its
\* limits concerns (Relistable) the assembler takes the listing and makes a module with the same
\* functions, whose calls have the same targets, with the same variables and the same stacks; and
\* so it does with the listing of that one, as long as the heap, to which something is added each
\* time, is below half of what a size can be (disassembler.c:37, 54, 238, assembler.c:211, 756).
THEOREM RoundTrips == CharsCounted /\ WholeWords => (ToolSpec => []RoundTrip)
<1> SUFFICES ASSUME CharsCounted, WholeWords PROVE ToolSpec => []RoundTrip
  OBVIOUS
<1>1. ToolInit => ToolInv /\ Story
  <2> SUFFICES ASSUME ToolInit PROVE ToolInv /\ Story
    OBVIOUS
  <2>1. Init /\ Blank /\ stage = "waiting" /\ round = 0
    BY DEF ToolInit
  <2>2. Begins
    BY <2>1, InitSource DEF Begins, Blank, Fresh
  <2>3. Story
    BY <2>1, ToolchainAssumption DEF Story, Listing
  <2> QED BY <2>1, <2>2, <2>3, Begun DEF ToolInv
<1>2. ToolInv /\ Story /\ [ToolNext]_tvars => ToolInv' /\ Story'
  BY ToolStep, StoryStep
<1>3. ToolInv /\ Story => RoundTrip
  BY StoryTold
<1> QED BY <1>1, <1>2, <1>3, PTL DEF ToolSpec
=============================================================================
