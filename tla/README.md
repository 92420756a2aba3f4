# Tagha in TLA+

Formal models of [Tagha](../src), a small register-based virtual machine that is embedded in C
programs, with the checks that TLC makes on small instances and the theorems that TLAPS proves
about all instances.  References of the form `file:lines` are to the repository's sources.

## 1. The system

| part | state | operations | depends on |
|---|---|---|---|
| interpreter (`tagha/tagha.c`, `tagha.h`) | per module: operand stack and its pointer `osp`, call stack and `csp`, link register `lr`, flag `cond`, vector and element length, current tables `funcs`/`vars`, error `err`; per running loop: its instruction pointer and the copies of `osp` and the tables that it keeps in registers | `tagha_module_call`, `_invoke`, `_run`, one handler per instruction, calls into natives and other modules | tables, heap (for its stacks) |
| symbol tables (`tagha.c:14-187`) | buckets, chains, hashes, names | build while loading; look a name up | heap |
| loader (`tagha.c:56-209`) | the file in memory; the region behind its entries, from which stacks and tables are taken | `tagha_module_new_from_file`, `_new_from_buffer` | heap, tables |
| linking and freeing (`tagha.c:211-366`) | items (code or C function, owner, flags) | `link_natives`, `link_ptr`, `link_module`, `free` | tables |
| heap (`allocators/mempool`) | header words in the module's own memory, nine free lists, boundary of the region | alloc, realloc, free | region |
| object pool (`allocators/objpool`) | free chain inside the objects, its head, counters | init, alloc, free, clear | not used by the machine |
| region, cache, double-ended stack (`allocators/region`, `cache`, `bistack`) | a few offsets | make, alloc, reset, resize, clear | the region is used by the heap |
| assembler (`tagha_toolchain/assembler`, `instr_gen.h`) | labels, function and variable maps, sizes | two passes over the text | libharbol containers |
| module generator (`module_gen.h`) | header, two buffers of entries | write header, function, variable; finalize | |
| disassembler | position in the file, names, pieces of the listing | two walks over the file | libharbol containers |
| libc bindings, test driver | none | natives, a sample host | API of the machine |

Everything runs in one thread.  What makes the behaviour hard is nesting: the host calls a
script, the script calls a native, the native calls the script back, the script calls a function
of another module, which runs in a nested interpreter loop *on the same stacks, link register and
struct*, and an error may be raised at any depth.  Every level keeps copies of some of that state
in its own locals, and must have them agree with the struct when it goes on.  The second hard part
is the heap, whose free lists live inside the memory they manage.  The third is that four programs
(assembler, generator, loader with interpreter, disassembler) must agree on every offset of a file,
and on sizes that one of them computes for another, in 32 bits.

What makes each component correct:

* interpreter: a return goes to the place after the call that opened the function; both stacks
  stay in their memory; after a call from C all cells are given back; indices in bytecode are
  resolved with the tables of the module the bytecode belongs to; an error stops the script; every
  host call comes back; a vector instruction does to each element what it promises and touches
  nothing else, in whatever order the compiler does the lanes;
* tables: no entry is lost when buckets collide; a search finds the first entry of the name;
* linking: a linked function runs a definition of its name with its owner's tables; an unlinked
  one is reported with the right error code; links do not change once made; freeing a module
  concerns only modules that were linked to it;
* heap: memory has one owner at a time; memory given back can be allocated again; operations end;
* object pool: the same, for objects whose own words hold the free chain;
* region and double-ended stack: blocks lie apart and in the arena although sums of addresses wrap
  around; what is reported as left is what is left;
* assembler: jumps go to their labels, numbers of functions and variables mean those named,
  operands and sizes arrive as written; valid sources and no others give a module; it ends;
* file: the loader finds every function and variable where the generator has put it, its region is
  large enough for stacks and tables, which lie apart; generator, interpreter and disassembler agree
  on the length of every instruction; a listing assembles to the module it was made from.

## 2. Modules

| module | models | role |
|---|---|---|
| `TaghaVM`, `TaghaVMProofs` | interpreter | one action per instruction (or per group of instructions that differ in data only), one per call from C |
| `CallDiscipline` | | abstract: control is a stack of places; implemented by `TaghaVM` |
| `Convention`, `ConventionProofs` | what the instruction set leaves to programs | `EXTENDS TaghaVM`; programs annotated with frame heights and saved link registers, what they must not do while they run, and the refinement mapping to `CallDiscipline` |
| `MCTaghaVM` | | programs; used by the runs that find violations |
| `Vector`, `VectorProofs` | vector instructions | one action per group of lanes, on the bytes of the registers |
| `MCMachine` | | `MCTaghaVM` and `Vector` in one run |
| `SymTable`, `MCSymTable`, `SymTableProofs` | symbol tables | one action per iteration of each loop |
| `TaghaLink`, `MCTaghaLink`, `TaghaLinkProofs` | load, link, free | one action per API function |
| `Mempool` | heap | one action per iteration of each loop; memory is an array of words |
| `SlotPool` | | abstract: a set of slots, some held, with what their holders keep in them |
| `ObjPool` | object pool | one action per function; implements `SlotPool` |
| `Arenas` | region (and cache), double-ended stack | one action per function, addresses wrap around |
| `AllocatorProofs` | | proofs about `Mempool`, `ObjPool` and `Arenas` |
| `MCAllocators` | | `Mempool`, `ObjPool` and `Arenas` in one run |
| `Layout` | | sizes of the structures in a file and in memory, 32-bit sums |
| `Assembler`, `AssemblerProofs` | assembler, instruction generator, lengths in the interpreter and the disassembler | one action per kind of token and pass |
| `ModuleFile` | module generator, loader, disassembler | one action per iteration of the loops over entries |
| `Toolchain`, `MCToolchain`, `ToolchainProofs` | all tools in a row | composes `Assembler` and `ModuleFile`; `MCToolchain` gives the sources, `ToolchainProofs` has the proofs about `ModuleFile` and about both |

How they fit together.  `Toolchain` hands the result of `Assembler` to `ModuleFile` and the listing
that comes out back to `Assembler`.  `SymTable` shows that a lookup finds the first entry that matches,
which is how `TaghaLink` defines lookup (`Found`); `ModuleFile` shows that the entries read are those
written.  `TaghaLink` shows which items a function table may contain at any time
(`UnlinkedReported`, `TypeOK`); `Item` in `TaghaVM` is that set, and `Table` is such a table when the
machine starts.  `ModuleFile` computes what each allocation of the loader takes from the region and
where it lies (`SegmentsApart`), which is the memory map of `TaghaVM`: call stack below operand stack,
one block header between them.  `Assembler` shows that jumps stay in their function and that `call`
numbers functions from 1 and `ldfn`, `ldvar` from 0, as the interpreter reads them.
`MCMachine` and `MCAllocators` put modules that share no state in one specification, of which a
behaviour follows one: the parts keep their own next-state relations and properties.

### Correspondence, `TaghaVM`

* `cstack` is the C stack: a `start` frame is `_tagha_module_start` (`tagha.c:407`) waiting for the
  loop or native it called, an `exec` frame an activation of `_tagha_module_exec` with its locals
  (`ip`, `vreg_osp`, `table_funcs`), a `native` frame a C function.  A frame waits (`wait`) while
  what it called is running.  `osp`, `csp`, `lr`, `cond`, `tabs`, `err` are the fields of the struct.
* `mem` holds whole cells; a value is null, data, a function pointer, a pointer to a cell, a pointer
  to a variable or a code address.  A variable holds only data, so only which module it belongs to is
  kept: the segment that loads and stores are checked against (`InSegment`) has the variables of the
  module that runs.  Arithmetic, comparison and conversion leave any data (`Compute`, `Convert`, `Compare`).
* An instruction is `[op, a, b, c]`; the byte layout is abstracted, jumps count instructions.
* The `stk` of an `exec` frame and the `osp0`, `csp0` of a `start` frame are history variables: no
  action's guard reads them.  (`stk` is written by calls and shortened by returns.)
* What C leaves undefined (return to something that is not code, register outside of memory,
  `callr` of something that is not a function pointer) has no successor state: the run `machine` checks for
  deadlock, so it also shows that none of it happens.

* `Convention` adds no behaviour.  `Notes[p]` annotates program `p`: for every instruction the cells
  its function has allocated and whether the link register is saved (`Note`).  `FitsAt` says which
  note the next instruction must have after each handler, and `MayCall` what a call needs: the link
  register saved if the callee overwrites it (`ISA.md:383`), and an operand cell for every cell of
  call stack, because only the operand stack is checked for its end (`tagha.c:444`).
  `ConventionAssumption` says that all programs fit, and TLC evaluates it in the run `machine`.
  `Promised` names what annotations cannot express, because it depends on values: no stores
  through pointers into the call stack (`CallStackKept`), function pointers used with the tables of
  their own module (`PointersAtHome`), no callbacks from below registers in use (`CallersSeen`),
  `halt` in the function that C called (`HaltsOutermost`).  It is an invariant of that run.
  `Control` is what `CallDiscipline` sees: frame by frame the places where the open functions wait,
  each the return address of the function above it, and last the one that runs.

### Correspondence, the other modules

* `SymTable`: `Insert`/`AppendStep`/`Loaded` are the loop of `_setup_func_table` (`tagha.c:95-128`),
  the same as that of `_setup_var_table`; `Search`/`SearchStep` are `_tagha_key_get_item`.
* `TaghaLink`: `funcs[m][i]` is `struct TaghaItem`; flag bits keep their numbers because
  `exec_call` uses them as error codes.  `image` is the file, `linked` is history.
  A handle is used once: that `malloc` may give a freed module's address to another is left out.
* `Mempool`: a block header is three words of `mem`, links are addresses, and merging, splitting
  and moving nodes rewrite these words as the code does, stale links included.  `find`, `free`,
  `insert` are the points in the code where a loop iteration begins.  `harbol_freelist_insert`
  calls itself in tail position when a merged node changes lists (`InsertInto`).  `live` and `clash`
  are history.  Clients write nothing into their blocks.
* `ObjPool`: addresses, indices and sizes are the code's; of an object its first word is kept, which
  is the chain's while the object is free and the client's while it is held.  `calloc` gives any
  address of `Base`, an init that fails changes nothing, `held` and `got` are history.  Clients free
  what they hold, and pointers out of the range that the code ignores.
* `Arenas`: addresses and sizes wrap around at `AddrMax`; memory may lie anywhere in `Places`, not at
  the very ends of the address space.  `held` sets, `region_wild` and `wild` are history: they
  remember that an arena has granted a request with a block that is too small for it or not in its
  memory.  After such a request nothing more is claimed of the double-ended stack; of the region it
  is claimed that there is none.
* `Vector`: `regs` are the bytes from `vreg_osp` up, little-endian; `lane` is the loop variable.  The
  pointers of the loops are `restrict`, so a step reads and writes any number of next lanes
  (`Compute`); where the operands overlap the results differ.  A byte has 2 bits and a register 4
  bytes in the run, both parameters.  Float arithmetic is an operator given from outside.
* `Assembler`: the opcodes are one for each case of the switch in the second pass, from `alloc` (one number) to
  `halt` (none); `setelen` has a case of its own, since it takes the name of a type, and `st` too,
  since it wants whitespace behind its operands (`spaced`).  An operation keeps the operand it is about, `movi` its
  immediate too.  A number outside of offsets has no sign; an immediate from 2^63 on is
  what `strtoll` or an undefined conversion makes of it (`Immediate`).
  `src` is the text as tokens, `iter` the position in it, `active` is `active_label`,
  `vec`, `kind` and `code` are the map `funcs` (its vector of insertions, its flags and its byte
  buffers), `labels` the map of labels, `data` the variables and sizes.  `Bytes` is what
  `tagha_instr_gen` returns, which the first pass adds up; `Inserted` is what it appends to a buffer,
  by which instructions get their places (`at`); `Fetched` and `Shown` are what the interpreter and
  the disassembler read.  `pos` (the token an instruction came from) is history.  A token knows
  whether it begins a line, because the first pass drops the rest of a line behind an operation and
  the second one does not.
* `ModuleFile`: `image` is the sequence of entries, each at its offset (`at`); `cur` is a reader's
  pointer and `todo` the entries it has left; a reader whose pointer is not at an entry reads
  `Garbage`.  `stage` says which tool is at work and where.  Places in memory are offsets in the file,
  because the loader works in the buffer that holds it.  Every `harbol_mempool_alloc` of the loader
  takes its block from the end of the region (nothing has been freed), so `Lefts` gives what is left
  after each.  An array that could not be allocated and is written to is the stage `fault`.
* `Toolchain`: `round` counts listings that were assembled again, `origin` is the first module that
  was loaded (history).  `Reassemble` gives the tokens that the assembler reads in the listing.

Definitions commented "Faulty" are wrong variants of the definition below them.  They belong to no
specification; substituting one shows that a property notices such a mistake.

## 3. Checks

| run | question | bounds, and why they are enough |
|---|---|---|
| `machine` | do control, stacks and tables stay consistent; do the programs keep `Promised`; is `CallDiscipline` implemented; do host calls return; do vector instructions do what they promise | two modules that link to each other, 2 host calls (the second starts from what the first left), 7 operand cells and 7 call stack cells: recursion overflows after three frames, and a callee that saves more than operands pay for would pass the end of the call stack; each function has one of several bodies, one for each way to save the link register, with calls of each kind, loads and stores of cells and variables, a thrower and a native that calls back.  Vectors: 3 registers of 4 bytes, every element size from 0 to 4, up to 3 elements, every pair of registers, so operands are the same, apart or overlap; after `setvlen` and `setelen` one instruction.  138,065 states |
| `symbol_table` | are tables complete, searches right | all tables of up to 4 out of 5 names, 2 buckets, two names with one hash: chains of every length up to 4 |
| `linking` | what may be in a function table | 3 modules of 4 files, loaded, linked (also to themselves) and freed in any order; externs of externs, two definitions of a name, a native with the name of an extern |
| `allocators` | heap: one owner, termination; object pool: is `SlotPool` implemented; arenas: are blocks apart | heap: 27 words, blocks for three lists, 7 operations, at most two free nodes in lists (`MaxFree = 1` when the next block is freed).  Object pool: words of 2 bytes, sizes 0 to 4, up to 4 objects, in a pool or a buffer that is cleared and made again; clients leave 0, a valid and an invalid index in the words; chains are permuted in every way.  Arenas: 256 addresses, arenas of 8 to 40 bytes, requests from 0 to 249 bytes, which wrap around when rounded or subtracted.  86,483 states |
| `toolchain` | do the passes agree; are operands kept; which sources are accepted; does the loader find what was written and memory for it; is a listing the same module | some 12,100 sources.  Code: a function of up to three usual lines (operations, a label of its own or before a jump, a call forward) or of an odd line between two usual ones (each opcode, operands at the edges and beyond, names of types, undefined names, missing ends, strange text, halt, a second operation or a directive behind an operation, an operation behind a directive), a second one that uses the same labels, natives and externs.  Data: variables whose bytes fit and do not fit, sizes by default, small, at 2^w and wrapping around, heaps around the loader's own needs.  A `uint32_t` has 65,536 values, which is more than the 600 bytes of book-keeping and the default sizes and lets sizes wrap around with small numbers.  `Int64Half` is 1000 for 2^63, which only immediates are compared with.  Each module is listed and assembled again twice (`Rounds = 2`), which shows that the heap grows with each assembly; one script asks for a heap that comes to half of all numbers that way.  436,215 states |
| `extern_error`, `callback_tables`, `native_reentry` | the machine with programs the run `machine` leaves out | violated, see below |
| `heap_overlap`, `heap_leak`, `heap_fault` | the heap with more freed blocks, or with blocks freed in any order | violated, see below |
| `call_stack` | is the call stack out of bytecode's reach, in the modules of the run `toolchain` | violated, see below |

`CHECK_DEADLOCK FALSE` is set only where the program given to the machine is stopped by undefined
behaviour behind the violation looked for.

**Where the code and what is said of it differ.**  Seven runs end with a counterexample:

* `extern_error`: `exec_call` does not look at `err` after a nested loop, so a script goes on after
  an error in another module (`API.md:588`).  `Balanced` and `ReturnsToCaller` are stated for states
  without error for that reason.
* `callback_tables`: a function pointer of module A called by code of module B runs with B's tables
  (`tagha.c:1133` says the callee's are needed).
* `native_reentry`: a native that calls back gets the cells of its caller's registers, because the
  loop's stack pointer is not written back before a native is called (`API.md:528`).  In the run
  `machine` natives with callbacks are called by functions without registers of their own.
* `heap_overlap`, `heap_leak`, `heap_fault`: three defects of `harbol_freelist_insert`.  With few
  freed blocks at a time memory still has one owner (run `allocators`); blocks above every node of their
  list are lost; a list whose only node is reclaimed is followed through NULL.  The three
  scenarios were compared with the compiled allocator, which does what the model says.

* `call_stack`: `tagha.h:221` says that the call stack is not accessible from bytecode, but it lies
  between the variables and the operand stack, in the segment that loads and stores may touch.

**Where properties have a premise.**  Each premise names what the code gets wrong or leaves to its
users; the inputs it excludes are among those of the runs.

* `Regular` names what the assembler accepts and translates wrongly: an operation behind another
  one on a line (labels behind it are misplaced) or a directive there (it is never seen), an operation behind a directive (counted by the first pass,
  never seen by the second one), a function or variable declared twice (the last one is not written),
  register 256 of `movi`, its immediates from 2^63 on (another number is generated), offsets of loads and stores
  beyond 16 bits, sizes that wrap around; and what it refuses though the instruction has room for it, offset 65535 of `lra` and
  immediates below 0.  `Terminates` leaves out sources with text that the second pass has no branch
  for: there it loops for ever, in the model as in the code.
* `Relistable` names modules whose listing is not a source of the same module: with jumps (printed as
  numbers), `ldfn` (printed with the function before), `halt` (the listing of a function stops there), `setelen` (printed with a number where the assembler wants
  the name of a type), immediates of `movi` whose sign bit is set (printed without sign, so from 2^63 on, and
  read as another number),
  sizes from 2^31 on (printed as negative numbers), or two entries of one name.  Every assembly adds memory for the
  tables to the heap it reads in the script, so a heap grows with each listing and must stay below 2^31 in all of them.
* `NoWrap` and `Shortfall` in `EnoughMemory`: the assembler adds memory for the tables to the heap, but
  forgets the two tables themselves and the headers of the stacks, 600 bytes less 8 for every entry;
  a script must ask for that much heap, or have the default of 4096.
* `ValidSize` in `LaneWise`: `ISA.md:267` says that an element size that is not valid
  counts as a word, and all instructions but `vmov` and `vcmp` do so.  `OperandsApart` leaves out
  operands that overlap in part; `Contained` holds for them as well.  `Fits` keeps vectors inside
  the operand stack, which the interpreter does not check.
* `wild` in `BlocksApart`: a request larger than the whole double-ended stack may wrap around and be
  granted; that is the only kind of request that is granted wrongly.  The region compares a request with its
  size first (`region.c:46`), and of it `BlocksApart` has no premise.

**Fairness.**  One thread runs the machine and nothing blocks it: weak fairness of the machine's own
steps (`Machine` in `MSpec`, the heap's `Step`, the passes of the assembler `Assemble`), never of the host or of clients, who need not call again.  In
`HostCallReturns` the programs have no backward jumps: a script that loops for ever does not return,
and the code has no way to stop it.  Natives in the model always return; a native that throws
does so only if it likes (no fairness is needed for it).

## 4. Proofs

All theorems hold for every value of the constants that the named assumptions allow.

* `TaghaVMProofs`.  `OperandStackBound`: `NeverBelowStack` holds for all bytecode, well behaved or
  not, for any sizes, natives and nesting.  It is not inductive: returning from a native or nested
  loop restores a stack pointer kept in a frame below.  `StackInv` adds types and says of *every* frame on
  the C stack that its stack pointer is at or above `OpBase`, and of `start` frames that what they
  give back is not negative.  One lemma per group of actions; `Rebuild` collects what an action
  must preserve.  `TypeCorrect` follows.
* `SymTableProofs`.  `NoEntryLost` and `SearchCorrect`, from an invariant that adds what the walk to
  the end of a chain (the node reached is an entry of the right bucket before the new one) and the
  search (no entry before the node reached matches) know in the middle of a loop.
* `TaghaLinkProofs`.  `LinksSound`, `DependenciesLinked`, `FailuresReported`, under the
  hypothesis `NamesHashApart` (equal hashes are equal names; the code compares hashes *or* names, so
  with a collision a function may be linked to a definition of another name).  The invariant
  relates the owner of a linked item to the file it came from; with a search that finds the first
  entry, the existence of a least index needs well-founded induction on the naturals.
  `LinksStay` (`LinksStable`) needs no such hypothesis: the steps that write a table of a loaded
  module change only items that are still native or external, and those have no function yet.
* `ConventionProofs`.  What programs that keep the calling convention can rely on until an error is
  raised, for any modules, tables, sizes, programs and natives that `ConventionAssumption` allows, with
  natives that throw and call back and calls between modules: `StacksBounded`
  (`StacksInBounds`), `CallersReturnedTo` (`ReturnsToCaller`), `CallsBalanced` (`Balanced`),
  `TablesOfTheCode` (`TablesMatch`) and `CallsBelowRegisters` (`FramesDisjoint`).  After an error a loop
  goes on with whatever it has (`extern_error`); the run checks the last two properties there as well.
  The premise of the theorems is `[]Promised`, which the programs of the run `machine` keep.
  None of the five is inductive.  A return jumps to the link register, which was read from the
  call stack, which was written when the function was entered.  So `ConventionInv` describes the whole
  C stack: of a loop, that each function open in it lies below its caller by what the note of the
  call says, and returns to code of the same module (`LoopOK`); that a saved link register is in the
  cell where its function was entered, and otherwise still in `lr` (`SavedOK`, `LrOK`); of a frame on
  top of another, that it begins where the other ends (`LinkOK`), and of all frames that they lie one
  above the other in both stacks (`OrderOK`), so that what one of them writes changes no link register of
  another; and that the struct's registers are those of the top frame, or of the loop that
  called it (`TopOK`).  `LoopOK` has the inequality that cells of call stack in use are at most those
  of operand stack in use, so that the check of the latter does for both.  The parts are
  operators of the C stack and the memory, and a step is a lemma about them: a push, a pop, or
  one loop that moves while those below stay as they are.
* `ConventionProofs`, refinement.  `DisciplineKept` (`KeepsCallDiscipline`): such a machine implements
  `CallDiscipline`.  Besides `[]Promised` it has the premise `ErrorStopsScript`, which `API.md:588`
  promises and the code breaks (`extern_error`): a loop that goes on after an error in a nested one
  pops a link register that the aborted function left behind, and returns to another place.  Runs without errors, and
  those whose errors unwind all loops, are the ones it speaks of.  `Control` joins the places of all
  frames, a recursion over a sequence; that a push appends its places (`FlattenAppend`) comes from
  the existence and uniqueness of the partial joins, by a least counterexample.  Then each step is one of
  five: an instruction that stays in its function or a call of a native moves (`CDMoves`), a call in
  the loop or into a nested one opens (`CDOpens`), a return or the end of a loop returns
  (`CDReturns`), a call from C begins, an error abandons; all others do not show.  `ConventionInv`
  is needed for returns: the address in use is the one recorded when the function was opened.
* `AllocatorProofs`, object pool.  `PoolTypeCorrect`, `ChainComplete` and `Refinement` from the
  invariant `PoolInv`: there is a bijection from `1 .. free_blocks` to the objects nobody holds such
  that each object's word is the index of the next one and the head is its first; with the shape of
  the addresses (aligned size positive, head and held objects among the blocks).  Both directions are
  needed: allocation uses that the next object is free, freeing that the freed one is not on the
  chain.  `IndexOfAddress` is the arithmetic: dividing the offset of a block by the size gives its
  index back.  `Refinement` maps each action to one of `SlotPool` or to a stutter.
* `AllocatorProofs`, arenas.  `ArenasSafe` (`BlocksApart`) and `ArenasAccount` (`Accounted`) for all
  sizes and addresses, whatever the order of requests and resets.  The invariant says that blocks lie
  on the far side of the offset they were cut off at, and that the two offsets have not passed each
  other.  The work is in the sums that wrap around: a request that fits without wrapping is served
  without wrapping, and every other one is refused, by the double-ended stack unless it is larger than
  all of it.  `Accounted`
  says that the blocks cover the far side, byte for byte, which is provable where a sum over the set of
  blocks would not be: a new block covers exactly the bytes its pointer has moved over.
* `AllocatorProofs`, heap.  `HeapTypeCorrect` (`HeapTypeOK`), `HeapDisjoint` (`Disjoint`) and
  `HeapFreeNotHeld` (`FreeNotHeld`), for heaps and requests of any size and any number of operations,
  double frees and reallocations included.  The premise is `MaxFree <= 1`: clients free or reallocate only
  while at most one block is free.  It is what makes the theorems true: with two, lists lose the
  order they rely on, and `heap_overlap` has memory given out twice.  The invariant `Core(F)` knows
  everything such a heap can be: `F`, the free blocks, are at most two, in lists linked in one of four ways;
  held and free blocks lie apart between the header of the heap and the border of what was never given out, each with its
  size in its header; and while a search, a free or an insertion is under way, where it stands: the block to free is
  loose, or lies inside the first block of the list for its size (which is how a second free of it is told).
  What a walk along the stale links of a list visits (`FreeNodes`) is a recursive function; its
  values on these lists come from its uniqueness, by a least counterexample.
* `VectorProofs`.  `WritesContained`: `Contained` for any registers, lengths and element sizes and any
  grouping of lanes.  `LanesAlike` (`LanesAsFound`): if operands are the same or apart, every lane of the
  vector an instruction writes is made of the lanes found there before it, in whatever
  groups they are computed; `TestsCompare` (`PlainCompares`) the same of comparisons, and what they leave in the
  condition flag.  Both need that a number in memory depends on its own bytes alone
  (`SameBytes`).
  `VectorsLaneWise` (`LaneWise`) is the whole of it: where the operands are the same or apart, every element of the
  destination is what the operation means of the elements found there, and a comparison has set the
  condition to whether all elements satisfy it, for any width of a byte, a cell and an `int`.  What C
  computes (promoted to `int`, divided, shifted, complemented, cut to the size of the element) has to be compared with what
  an element means (sums, quotients and bits modulo the values it has), so the bytes are
  digits of a number: a number is determined by its digits and each of them can be divided out
  (`BytesOf`, `BytesMake`), and so can its bits.  The provers know nothing of powers; that
  2 ^ n is positive, grows, and multiplies as exponents add (`Powers`) comes from the number of subsets of a set of n
  elements, and sums over sets from their steps, through a least counterexample.  The
  invariant `VInv` adds that registers hold bytes and that a division which goes on has met no zero.
  `FloatAssumption` says of the host's floats only that a result fits the width of its operands.
* `ToolchainProofs`, module files.  `Loads` (`EnoughMemory`), `Segments` (`SegmentsApart`) and `ReadBack`
  (`LoadedAsWritten`), for scripts of any length.  The first two need the arithmetic of the loader's
  twelve allocations against the assembler's formula.  `ReadBack` needs that entries form a chain,
  each beginning where the one before ends (`Chained`), while they are written, after they are
  moved behind each other in the file, and that a reader that has `todo` entries left is at the one
  with that number.
  `Lists` (`ListedAsLoaded`) is the same of the disassembler, which walks over the entries twice by arithmetic of
  its own: the names it prints calls with are those of the tables, functions first, and a
  listing has every variable, function with a body and function without one once and in order
  (`InOrder`).  `Walking` says how far each walk has come.
* `ToolchainProofs`, composition.  `ToolsInARow`: of every source, and of every listing that is assembled
  again, however often, each tool only gives to the next what that takes for granted, so the theorems about
  `Assembler` and those about `ModuleFile` hold together (`Toolchained`).  That the assembler hands over a
  script (`IsScript`) needs that places and sizes are numbers and stacks whole words (`Amounts`), and that a
  native or extern never gets instructions (`Bodies`): the second pass enters no function that the first one
  has not seen.  That a listing is a source again (`IsListing`) needs to know of every token of it what it
  was printed from: `Describes` says which tokens there are of the sizes, of each variable and of each
  function, and that there are no others; `ListingDescribes` shows it of what `Reassemble` joins together
  of lists whose lengths differ.  Premises: `CharsCounted` (a name has at least its final zero) and
  `WholeWords` (the range of `uint32_t` is whole words).
* `ToolchainProofs`, round trip.  `RoundTrips` (`RoundTrip`), for any number of rounds: the listing of a module that is
  `Relistable` is accepted, and what is made of it has the functions, variables and stacks of the first module.
  `Told` says of which module a source is a listing, and that this module is `Tame`: sizes that print as positive
  numbers, different names, no operation that is printed as something else or not as the assembler wants it
  (`Readable`), and operands that fit their instructions and name functions and variables the module has.  From it follow that the listing is a source the assembler's properties are
  about (`ListingRegular`) and that it is valid (`ListingValid`), so by `VInv` no pass stops; it has no jumps, so nothing
  need be known of the keys of labels.  Of the module made of it, `CodeHeard` shows that the instructions of a function are the
  lines of its body: `Translated` says which tokens they come from and that they ascend, and there is only one
  ascending enumeration of an interval (`Enumeration`).  The lists of functions need not agree: natives are printed before functions
  with a body, so a function has another number, and `InstrHeard` shows that a call with its new number has the
  target of the old one (`WithName`).  `DataPrinted` and `SizesPrinted` are the two conversions, of the data of a variable into words
  and a long, and of a size into a signed number.  The heap is larger each time by what the assembler
  adds, so `Relistable` asks that it stays below half of `UintMax` for all rounds, and `Story` counts:
  after `n` rounds it is that of the first module and `n` times `HeapAdded` (`HeapHeard`, `Growth`).  The first module
  is tame because a name of which a list keeps one place is found there (`AllNamed`).
* `AssemblerProofs`.  `TypeCorrect`, and `NumbersMean` (`OperandsKept`) for every source that is
  `Regular`.  The invariant says of each pass what it has so far: every name collected was declared by a
  token that has been read, the lists of functions and variables name nothing twice, a size is that
  of the last directive for it, and each instruction means its token (`Means`): a number is the
  encoded operand, the number of a function or variable is its place in the list.  That nothing is listed
  twice makes a place and a name determine each other, and makes the number of entries written
  the length of the list.  That no operation is lost, doubled or out of order (`Translated`) is a
  consequence of `Placed`, below: instructions lie where their operations are counted to be.
  `Recorded` keeps what a function was declared as, and the order of variables.
  `Decoded` (`Decodes`) needs that the instructions of a function lie behind each other (`Laid`): each
  begins where the one before ends, and `Inserted`, the bytes that the generator appends, is one
  less than the length that interpreter and disassembler read.
  `JumpsReachLabels` (`JumpsLand`) relates the two passes, which count the same bytes at different
  times.  `Before(src)` is the number of bytes of the function before each token; both passes have
  it in `pc` or in the size of the function's code (`Tracks`), every label's place is that of its
  token (`Marked`), and every instruction lies at that of its token (`Placed`).  That a function has
  one head (`OneHead`) makes the count one of the function.  `SameCounts` is this invariant; it
  holds of sources whose heads, ends and operations both passes see (`Clean`, `Orderly`), and a
  source that comes through the second pass is one.  The premise `KeysApart` is that no two labels
  of two functions, nor a number and a label, have one key: the code appends the function's name to the label's text without
  anything between them (`assembler.c:502`), so `.a` in `bf` and `.ab` in `f` are one label to it.
  `ValidAccepted` (`AcceptsValid`), with the same premise, goes both ways.  A pass that goes on has found
  each token it has read to be right (`Passed` in the first pass, `Agreed` in the second) and has
  collected what it declares (`Noted`); the tokens a pass leaves out, behind an operation in the first and
  behind a directive in the second, are seen by the other one, so a source that comes through both is
  `Valid`.  A pass that stops has met a token that no valid source has: that a label or function is
  not known means that no token declares it, because `Noted` holds of all tokens read.  Whether the
  data of a variable fit is a `FoldSeq`, which adds in an order of its own; `FoldSums` shows it to be
  the sum in the order of places, by the uniqueness of such sums through a least counterexample.

**Model-checked only.**

* The heap with more than one free block while another is freed: there `Disjoint` and `FreeNotHeld` are false
  (`heap_overlap`).
* `Promised`, which is about the programs of the run and not about the machine; it is the premise of `ConventionProofs`.
* All liveness (`HostCallReturns`, `Terminates`, `Completes`), which is out of the prover's reach.

## 5. Not modelled

* The numbers that scalar arithmetic computes, and the contents of variables: no property depends on
  them.  Division by zero is excluded.  Addresses inside a cell: cells are accessed whole, and the
  check of loads and stores is exact to a cell (`TaghaVM`) or byte (`CallStackUnaccessible`).
* The check of the magic number and the reading of a file into a buffer, which precede everything.
* The lexer of the assembler, texts of labels that collide when the function's name is appended,
  messages, and in the disassembler comments, layout and the values of data.
* Sources with an end (`}`) behind an operation on its line: the first pass does not see it, and the second
  takes what follows for heads of functions (`IsSource`).
* `harbol_bistack_resize` to 0 bytes, which frees the memory and keeps pointers to it.  The
  cache has the code of the region and is not modelled twice.
* The libc bindings: natives without state of their own that unpack parameters.  The top `Makefile`
  does not build them and `tagha_stdio.c` does not compile.  The test driver: a sample host, whose
  calls are among those of the hosts in `TaghaVM` and `TaghaLink`.
* `libharbol.zip` is a third-party library; its linked map is modelled as the assembler uses it.

## 6. Plan

What a continuation would do:

The heap for clients that keep two free blocks which are never merged.
