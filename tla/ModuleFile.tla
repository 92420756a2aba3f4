----------------------------- MODULE ModuleFile -----------------------------
(***************************************************************************)
(* The way of a module from the end of the assembler into memory and into  *)
(* a listing: the generator writes the file (module_gen.h), the loader     *)
(* takes its memory region over and reads its tables (tagha.c:56-209), the *)
(* disassembler lists it (disassembler.c).                                 *)
(*                                                                         *)
(* A script is what the assembler has collected: the sizes its directives  *)
(* ask for, its functions and its variables in their order.  The file is   *)
(* its header and its entries, each at its offset; places in memory are    *)
(* offsets in the file, which the loader works in, and 0 is NULL.          *)
(***************************************************************************)
EXTENDS Layout, Sequences, FiniteSets

CONSTANT Printable(_, _, _)  \* Printable(b, n, m): whether the disassembler can print b, the
                             \* instructions of a function, in a module of n functions and m variables

NATIVE == 1
EXTERN == 2
NULL   == 0

\* name, strlen(name) + 1, the flags (0 is bytecode), how many bytes were collected for it
\* and body, the instructions they are.
IsItem(f)   == /\ f.chars \in Nat \ {0} /\ f.flags \in {0, NATIVE, EXTERN} /\ f.bytes \in Nat
               /\ (f.flags # 0 => f.bytes = 0)
IsItems(q)  == q \in Seq({q[i] : i \in DOMAIN q}) /\ \A i \in DOMAIN q : IsItem(q[i])
IsScript(s) == /\ s.opstack \in 0 .. UintMax - 1 /\ s.opstack % PtrBytes = 0
               /\ s.callstack \in 0 .. UintMax - 1 /\ s.callstack % PtrBytes = 0
               /\ s.heap \in 0 .. UintMax - 1
               /\ IsItems(s.funcs) /\ IsItems(s.vars)
               /\ \A i \in DOMAIN s.vars : s.vars[i].flags = 0

VARIABLES
  script,     \* the script
  stage,      \* what is done with it
  hdr,        \* the header
  funcs,      \* entries of functions written so far, and their bytes
  globals,    \* the same of variables
  image,      \* the entries in the file
  cur,        \* iter: where a reader of the file is
  todo,       \* how many entries it has yet to read
  module,     \* the module that is loaded
  names,      \* names the disassembler has collected
  listing     \* what it has printed

mvars == <<script, stage, hdr, funcs, globals, image, cur, todo, module, names, listing>>

NoHeader  == [opstack |-> 0, callstack |-> 0, stack |-> 0, heap |-> 0, mem |-> 0, funcs_offset |-> 0,
              func_count |-> 0, vars_offset |-> 0, var_count |-> 0, mem_offset |-> 0]
NoBuffer  == [count |-> 0, entries |-> << >>]
NoModule  == [size |-> 0, left |-> 0, opstack |-> NULL, callstack |-> NULL, low |-> NULL, high |-> NULL,
              res |-> TRUE, funcs |-> << >>, vars |-> << >>]
NoListing == [vars |-> << >>, nbc |-> << >>, bc |-> << >>]

\* Nothing of a file is there yet.
Blank ==
  /\ hdr = NoHeader /\ funcs = NoBuffer /\ globals = NoBuffer /\ image = << >>
  /\ cur = 0 /\ todo = 0 /\ module = NoModule /\ names = << >> /\ listing = NoListing

FileInit == IsScript(script) /\ stage = "header" /\ Blank
----------------------------------------------------------------------------
(* The end of the assembler (assembler.c:962-1030) and the generator.      *)

DefaultMemsize == 4096
Sized(n) == IF n = 0 THEN DefaultMemsize ELSE n

\* Faulty: the headers of the arrays are forgotten.
TablesSizeBare(n) == (ItemBytes * n + NodeBytes) + PtrBytes * n * 5
\* What the assembler thinks the tables of n functions or variables take: an array of
\* items and five arrays of pointers.  The loader allocates four, and the table itself.
TablesSize(n) == (ItemBytes * n + NodeBytes) + (PtrBytes * n * 5 + NodeBytes * 5)

BookKeeping(n, m)   == NodeBytes + PtrBytes * 2 + TablesSize(n) + TablesSize(m)
MemRegionSize(n, m) == U32(BookKeeping(n, m))
\* What is added to a heap for n functions and m variables.
HeapAdded(n, m) == Align(MemRegionSize(n, m), PtrBytes)

\* tagha_mod_gen_write_header
WriteHeader ==
  /\ stage = "header"
  /\ LET op   == Sized(script.opstack)
         call == Sized(script.callstack)
         heap == U32(Sized(script.heap) + HeapAdded(Len(script.funcs), Len(script.vars)))
     IN  hdr' = [NoHeader EXCEPT !.opstack = op, !.callstack = call, !.stack = U32(op + call),
                                 !.heap = heap, !.mem = U32(op + call + heap)]
  /\ stage' = "items"
  /\ UNCHANGED <<script, funcs, globals, image, cur, todo, module, names, listing>>

Padded(n) == Align(n, 4)

\* An entry with flags says that 8 bytes follow its name.
EntryOf(f, at) == [at |-> at, name |-> f.name, chars |-> f.chars, flags |-> f.flags, body |-> f.body,
                   name_len |-> Padded(f.chars),
                   data_len |-> IF f.flags # 0 THEN 8 ELSE Padded(f.bytes)]

\* Faulty: they do.
EndOfAny(e) == e.at + EntryBytes + e.name_len + e.data_len
\* They do not: the data are there for entries without flags.
EndOf(e) == e.at + EntryBytes + e.name_len + IF e.flags # 0 THEN 0 ELSE e.data_len

Insert(buf, f) ==
  LET e == EntryOf(f, buf.count)
  IN  [count |-> EndOf(e), entries |-> Append(buf.entries, e)]

\* tagha_mod_gen_write_func
WriteFunc ==
  /\ stage = "items" /\ hdr.func_count < Len(script.funcs)
  /\ funcs' = Insert(funcs, script.funcs[hdr.func_count + 1])
  /\ hdr' = [hdr EXCEPT !.func_count = @ + 1]
  /\ UNCHANGED <<script, stage, globals, image, cur, todo, module, names, listing>>

\* tagha_mod_gen_write_var
WriteVar ==
  /\ stage = "items" /\ hdr.func_count = Len(script.funcs) /\ hdr.var_count < Len(script.vars)
  /\ globals' = Insert(globals, script.vars[hdr.var_count + 1])
  /\ hdr' = [hdr EXCEPT !.var_count = @ + 1]
  /\ UNCHANGED <<script, stage, funcs, image, cur, todo, module, names, listing>>

MovedBy(es, n) == [i \in DOMAIN es |-> [es[i] EXCEPT !.at = @ + n]]

\* __tagha_mod_gen_finalize: header, functions, variables, and the memory region.
Finalize ==
  /\ stage = "items" /\ hdr.func_count = Len(script.funcs) /\ hdr.var_count = Len(script.vars)
  /\ LET vars_offset == HeaderBytes + funcs.count
     IN  /\ hdr' = [hdr EXCEPT !.funcs_offset = HeaderBytes, !.vars_offset = vars_offset,
                               !.mem_offset = vars_offset + globals.count]
         /\ image' = MovedBy(funcs.entries, HeaderBytes) \o MovedBy(globals.entries, vars_offset)
  /\ funcs' = NoBuffer /\ globals' = NoBuffer
  /\ stage' = "setup"
  /\ UNCHANGED <<script, cur, todo, module, names, listing>>
----------------------------------------------------------------------------
(* The loader (tagha.c:56-209).  Nothing has been freed when it allocates, *)
(* so every block is taken from the end of what is left of the region.     *)

FileEnd == hdr.mem_offset + hdr.mem

\* What an entry looks like where none begins.
Garbage == [at |-> 0, name |-> "", chars |-> 1, flags |-> 0, body |-> << >>, name_len |-> 0, data_len |-> 0]
EntryAt(o) == IF \E i \in DOMAIN image : image[i].at = o
              THEN image[CHOOSE i \in DOMAIN image : image[i].at = o] ELSE Garbage

\* Faulty: the header of the block is forgotten.
CostWithoutNode(n) == Align(n, PtrBytes)
Cost(n) == Align(n + NodeBytes, PtrBytes)

\* harbol_mempool_alloc of n bytes when l bytes of a region of size bytes are left.
Allocates(size, l, n)  == n > 0 /\ n <= size /\ Cost(n) <= l
LeftAfter(size, l, n)  == IF Allocates(size, l, n) THEN l - Cost(n) ELSE l
BlockAfter(size, l, n) == IF Allocates(size, l, n) THEN hdr.mem_offset + l - Cost(n) + NodeBytes ELSE NULL

\* _setup_memory: the allocations of the stacks are not checked.
SetupMemory ==
  /\ stage = "setup"
  /\ LET made   == hdr.mem > NodeBytes
         agrees == U32(hdr.stack + hdr.heap) = hdr.mem
                   /\ U32(hdr.callstack + hdr.opstack + hdr.heap) = hdr.mem
         size   == IF made THEN hdr.mem ELSE 0
         op     == BlockAfter(size, size, hdr.opstack)
         left   == LeftAfter(size, size, hdr.opstack)
     IN  module' =
           IF made /\ agrees
           THEN [NoModule EXCEPT !.size = size, !.left = LeftAfter(size, left, hdr.callstack),
                                 !.opstack = op, !.high = op + hdr.opstack + 1,
                                 !.callstack = BlockAfter(size, left, hdr.callstack)]
           ELSE [NoModule EXCEPT !.size = size, !.left = size, !.res = FALSE]
  /\ stage' = "funcs"
  /\ UNCHANGED <<script, hdr, funcs, globals, image, cur, todo, names, listing>>

\* What is left before and after each allocation for a table of n: the table itself, its
\* items, bytes, keys, hashes and chain.
Blocks(n) == <<SymBytes, ItemBytes * n, PtrBytes * n, PtrBytes * n, PtrBytes * n, PtrBytes * n>>
Lefts(size, l, n) ==
  LET a == LeftAfter(size, l, SymBytes)
      b == LeftAfter(size, a, ItemBytes * n)
      c == LeftAfter(size, b, PtrBytes * n)
      d == LeftAfter(size, c, PtrBytes * n)
      e == LeftAfter(size, d, PtrBytes * n)
      f == LeftAfter(size, e, PtrBytes * n)
  IN  <<l, a, b, c, d, e, f>>

\* Allocates a table of n, whose entries begin at start; without it there is nothing to
\* read, and an array that could not be allocated is written to all the same.
SetupTable(n, start, then) ==
  LET left   == Lefts(module.size, module.left, n)
      has(k) == Allocates(module.size, left[k], Blocks(n)[k])
  IN  /\ module' = [module EXCEPT !.left = IF has(1) THEN left[7] ELSE @,
                                  !.res = @ /\ has(1),
                                  !.low = IF then = "read vars" /\ has(1) THEN start ELSE @]
      /\ cur' = start
      /\ todo' = IF has(1) THEN n ELSE 0
      /\ stage' = IF has(1) /\ n > 0 /\ \E k \in 2 .. 6 : ~has(k) THEN "fault" ELSE then
      /\ UNCHANGED <<script, hdr, funcs, globals, image, names, listing>>

SetupFuncTable == stage = "funcs" /\ SetupTable(hdr.func_count, hdr.funcs_offset, "read funcs")
SetupVarTable  == /\ stage = "read funcs" /\ todo = 0
                  /\ SetupTable(hdr.var_count, hdr.vars_offset, "read vars")

Row(e, item) == [key |-> e.name, item |-> item, flags |-> e.flags, bytes |-> e.data_len,
                 body |-> e.body, own |-> e.flags # EXTERN]

\* One turn of the loop of _setup_func_table; the item of a native or extern is linked later.
ReadFunc ==
  /\ stage = "read funcs" /\ todo > 0
  /\ LET e    == EntryAt(cur)
         data == cur + EntryBytes + e.name_len
     IN  /\ module' = [module EXCEPT !.funcs = Append(@, Row(e, IF e.flags = 0 THEN data ELSE NULL))]
         /\ cur' = data + IF e.flags = 0 THEN e.data_len ELSE 0
  /\ todo' = todo - 1
  /\ UNCHANGED <<script, stage, hdr, funcs, globals, image, names, listing>>

\* The same of _setup_var_table.
ReadVar ==
  /\ stage = "read vars" /\ todo > 0
  /\ LET e    == EntryAt(cur)
         data == cur + EntryBytes + e.name_len
     IN  /\ module' = [module EXCEPT !.vars = Append(@, Row(e, data))]
         /\ cur' = data + e.data_len
  /\ todo' = todo - 1
  /\ UNCHANGED <<script, stage, hdr, funcs, globals, image, names, listing>>

\* _read_module_data returns; the module is there, or is freed again.
EndLoad ==
  /\ stage = "read vars" /\ todo = 0
  /\ stage' = IF module.res THEN "ready" ELSE "rejected"
  /\ UNCHANGED <<script, hdr, funcs, globals, image, cur, todo, module, names, listing>>
----------------------------------------------------------------------------
(* The disassembler (disassembler.c): it walks over the file twice, for    *)
(* the names that calls are printed with and for the listing.  What is     *)
(* printed of an item is that it has so many bytes, and its data.          *)

StartNames ==
  /\ stage = "ready"
  /\ stage' = "names" /\ cur' = hdr.funcs_offset /\ todo' = hdr.func_count + hdr.var_count
  /\ names' = << >> /\ listing' = NoListing
  /\ UNCHANGED <<script, hdr, funcs, globals, image, module>>

\* The functions are the first func_count entries that a walk reads.
AtFunc == todo > hdr.var_count

ReadName ==
  /\ stage = "names" /\ todo > 0
  /\ LET e == EntryAt(cur)
     IN  /\ names' = Append(names, e.name)
         /\ cur' = cur + EntryBytes + e.name_len + IF AtFunc /\ e.flags # 0 THEN 0 ELSE e.data_len
  /\ todo' = todo - 1
  /\ UNCHANGED <<script, stage, hdr, funcs, globals, image, module, listing>>

StartListing ==
  /\ stage = "names" /\ todo = 0
  /\ stage' = "list" /\ cur' = hdr.funcs_offset /\ todo' = hdr.func_count + hdr.var_count
  /\ UNCHANGED <<script, hdr, funcs, globals, image, module, names, listing>>

\* Instructions are printed up to a byte that is zero where an opcode should be: that is
\* padding, or halt.
Listed(body) ==
  IF \E k \in DOMAIN body : body[k].op = "halt"
  THEN SubSeq(body, 1, (CHOOSE k \in DOMAIN body :
                          body[k].op = "halt" /\ \A j \in 1 .. k - 1 : body[j].op # "halt") - 1)
  ELSE body

\* Of a native or extern only the directive is printed.
ListFunc ==
  /\ stage = "list" /\ AtFunc
  /\ (EntryAt(cur).flags = 0 => Printable(Listed(EntryAt(cur).body), hdr.func_count, hdr.var_count))
  /\ LET e == EntryAt(cur)
     IN  /\ listing' =
              IF e.flags = 0 THEN [listing EXCEPT !.bc = Append(@, [name |-> e.name, body |-> Listed(e.body)])]
              ELSE [listing EXCEPT !.nbc = Append(@, [name |-> e.name, flags |-> e.flags])]
         /\ cur' = cur + EntryBytes + e.name_len + IF e.flags = 0 THEN e.data_len ELSE 0
  /\ todo' = todo - 1
  /\ UNCHANGED <<script, stage, hdr, funcs, globals, image, module, names>>

\* The name of a function that is not there is a NULL pointer.
ListFault ==
  /\ stage = "list" /\ AtFunc /\ EntryAt(cur).flags = 0
  /\ ~Printable(Listed(EntryAt(cur).body), hdr.func_count, hdr.var_count)
  /\ stage' = "unlisted"
  /\ UNCHANGED <<script, hdr, funcs, globals, image, cur, todo, module, names, listing>>

\* Faulty: all words.
PrintedWords(n) == [i \in 1 .. n \div 8 |-> 8]
\* The data of a variable are printed as words, and what is left as one long, half or byte.
Printed(n) == [i \in 1 .. n \div 8 |-> 8] \o IF n % 8 \in {1, 2, 4} THEN <<n % 8>> ELSE << >>

ListVar ==
  /\ stage = "list" /\ ~AtFunc /\ todo > 0
  /\ LET e == EntryAt(cur)
     IN  /\ listing' = [listing EXCEPT !.vars = Append(@, [name |-> e.name, bytes |-> e.data_len,
                                                           data |-> Printed(e.data_len)])]
         /\ cur' = cur + EntryBytes + e.name_len + e.data_len
  /\ todo' = todo - 1
  /\ UNCHANGED <<script, stage, hdr, funcs, globals, image, module, names>>

EndListing ==
  /\ stage = "list" /\ todo = 0
  /\ stage' = "listed"
  /\ UNCHANGED <<script, hdr, funcs, globals, image, cur, todo, module, names, listing>>

Generate  == WriteHeader \/ WriteFunc \/ WriteVar \/ Finalize
LoadFile  == SetupMemory \/ SetupFuncTable \/ ReadFunc \/ SetupVarTable \/ ReadVar \/ EndLoad
Disassemble == StartNames \/ ReadName \/ StartListing \/ ListFunc \/ ListFault \/ ListVar \/ EndListing

FileNext == Generate \/ LoadFile \/ Disassemble

\* A process died, the module was not accepted, or it is listed.
FileDone == stage \in {"fault", "rejected", "unlisted", "listed"} /\ UNCHANGED mvars

FileSpec == FileInit /\ [][FileNext \/ FileDone]_mvars
----------------------------------------------------------------------------
(* Properties.                                                             *)

\* The module in memory has the functions and variables of the script in their order, with
\* their names and flags, and their items point to where the generator has put their bytes:
\* the readers skip the bytes of an entry exactly when the generator wrote them
\* (module_gen.h:74, tagha.c:138).  A native or extern has no item yet.
LoadedAsWritten ==
  stage = "ready" =>
    /\ Len(module.funcs) = Len(script.funcs) /\ Len(module.vars) = Len(script.vars)
    /\ \A i \in DOMAIN script.funcs :
         LET r == module.funcs[i]
             f == script.funcs[i]
         IN  /\ r.key = f.name /\ r.body = f.body /\ r.flags = f.flags /\ r.own = (f.flags # EXTERN)
             /\ IF f.flags # 0 THEN r.item = NULL
                ELSE r.bytes >= f.bytes /\ r.item \in HeaderBytes .. hdr.vars_offset - r.bytes
    /\ \A i \in DOMAIN script.vars :
         LET r == module.vars[i]
         IN  /\ r.key = script.vars[i].name /\ r.own /\ r.bytes >= script.vars[i].bytes
             /\ r.item \in module.low .. hdr.mem_offset - r.bytes
    /\ \A i, j \in DOMAIN script.vars :
         i < j => module.vars[i].item + module.vars[i].bytes <= module.vars[j].item - EntryBytes

\* The bytes the loader allocates for a module of nf functions and nv variables beyond
\* those the assembler adds for it.
Shortfall(nf, nv) == 600 - 8 * (nf + nv)
NoWrap == Sized(script.opstack) + Sized(script.callstack) + Sized(script.heap)
          + Align(BookKeeping(Len(script.funcs), Len(script.vars)), PtrBytes) < UintMax

\* A script whose sizes do not wrap around is loaded, with its stacks and all its tables, if
\* the heap it asks for has the 600 bytes that the assembler forgets, the table and the
\* headers of the two stacks among them (assembler.c:975, tagha.c:80).
EnoughMemory ==
  NoWrap /\ Sized(script.heap) >= Shortfall(Len(script.funcs), Len(script.vars)) =>
    /\ stage \notin {"fault", "rejected"}
    /\ stage = "ready" => module.opstack # NULL /\ module.callstack # NULL

\* In a module whose sizes did not wrap around, the blocks do not overlap: the operand stack
\* ends with the file, the call stack lies below, the tables below it, above the variables;
\* the segment that loads and stores may touch begins with the variables and holds the
\* operand stack (tagha.c:56-66, 486).
SegmentsApart ==
  stage = "ready" /\ NoWrap /\ module.opstack # NULL /\ module.callstack # NULL =>
    /\ module.opstack + hdr.opstack = FileEnd
    /\ module.callstack + hdr.callstack <= module.opstack - NodeBytes
    /\ hdr.mem_offset + module.left <= module.callstack - NodeBytes
    /\ module.left >= 0
    /\ module.low <= hdr.mem_offset /\ module.high > FileEnd

\* tagha.h:221 says of the call stack that it is not accessible from bytecode: no byte of
\* it passes the check of loads and stores (tagha.c:485).
CallStackUnaccessible ==
  stage = "ready" /\ module.opstack # NULL /\ module.callstack # NULL =>
    \A p \in module.callstack .. module.callstack + hdr.callstack - 1 :
      p - module.low > module.high - module.low
=============================================================================
