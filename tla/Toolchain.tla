----------------------------- MODULE Toolchain ------------------------------
(***************************************************************************)
(* The tools and the loader in a row: a source is assembled, the module is *)
(* written, loaded and disassembled, and the listing is a source again.    *)
(***************************************************************************)
EXTENDS Assembler, ModuleFile

CONSTANTS
  Chars(_),  \* Chars(n): strlen(n) + 1
  Rounds     \* how often a module is disassembled and assembled again

ASSUME ToolchainAssumption == Rounds \in Nat

VARIABLES
  round,     \* how often the listing has been assembled
  origin     \* history: the first module that was loaded, and its header

tvars == <<vars, mvars, round, origin>>

NoOrigin == [hdr |-> NoHeader, funcs |-> << >>, vars |-> << >>]

ToolInit ==
  /\ Init /\ Blank /\ stage = "waiting" /\ round = 0 /\ origin = NoOrigin
  /\ script = [opstack |-> 0, callstack |-> 0, heap |-> 0, funcs |-> << >>, vars |-> << >>]

Assemble == Pass /\ UNCHANGED <<mvars, round, origin>>

\* Functions and variables are named that the disassembler has a name of.
Named(body, n, m) ==
  \A k \in DOMAIN body : /\ body[k].op \in {"call", "ldfn"} => body[k].val \in 1 .. n
                         /\ body[k].op = "ldvar" => body[k].val \in 0 .. m - 1

FlagOf == [code |-> 0, native |-> NATIVE, extern |-> EXTERN]

\* What the generator is given: the instructions are what the bytes say.
Assembled ==
  [opstack |-> data.opstack, callstack |-> data.callstack, heap |-> data.heap,
   funcs |-> [i \in DOMAIN file.funcs |->
     LET f == file.funcs[i] IN
     [name |-> f.name, chars |-> Chars(f.name), flags |-> FlagOf[f.kind], bytes |-> Size(f.name),
      body |-> [k \in DOMAIN f.code |-> [op |-> f.code[k].op, val |-> f.code[k].val]]]],
   vars |-> [i \in DOMAIN file.vars |->
     LET v == file.vars[i] IN
     [name |-> v.name, chars |-> Chars(v.name), flags |-> 0, bytes |-> v.bytes, body |-> << >>]]]

\* The assembler calls the generator.
Handover ==
  /\ pass = "done" /\ stage = "waiting"
  /\ script' = Assembled
  /\ stage' = "header"
  /\ UNCHANGED <<vars, hdr, funcs, globals, image, cur, todo, module, names, listing, round, origin>>

\* The generator, the loader and the disassembler.
UseFile ==
  /\ stage # "waiting" /\ FileNext
  /\ origin' = IF stage = "ready" /\ round = 0
               THEN [hdr |-> hdr, funcs |-> module.funcs, vars |-> module.vars] ELSE origin
  /\ UNCHANGED <<vars, round>>
----------------------------------------------------------------------------
(* What the assembler reads in a listing.                                  *)

\* %d of a uint32_t.
Signed(n) == IF n < UintMax \div 2 THEN n ELSE n - UintMax

\* A function is printed by its name, which is that of the one before it for ldfn; the
\* target of a jump and the size given to setelen as numbers, an immediate without a sign.
Instr(i) ==
  [nl |-> TRUE, t |-> "op", op |-> i.op, spaced |-> TRUE,
   arg |-> CASE i.op \in {"call", "ldfn"} -> names[i.val]
             [] i.op = "ldvar"   -> names[hdr.func_count + i.val + 1]
             [] i.op = "setelen" -> "other"
             [] i.op = "movi"    -> <<i.val[1], i.val[2] % (2 * Int64Half)>>
             [] OTHER            -> i.val]

SizeToken(which, n) == [nl |-> TRUE, t |-> "size", which |-> which, num |-> Signed(n)]
SizeLines    == << SizeToken("opstack", hdr.opstack \div PtrBytes),
                   SizeToken("callstack", hdr.callstack \div PtrBytes), SizeToken("heap", hdr.heap) >>
VarLine(v)   == [nl |-> TRUE, t |-> "global", name |-> v.name, bytes |-> v.bytes, data |-> v.data]
IntroLine(f) == [nl |-> TRUE, t |-> IF f.flags = EXTERN THEN "extern" ELSE "native", name |-> f.name]
HeadLine(n)  == [nl |-> TRUE, t |-> "func", name |-> n]
EndLine      == [nl |-> TRUE, t |-> "end"]
FuncLines(f) == <<HeadLine(f.name)>> \o [k \in DOMAIN f.body |-> Instr(f.body[k])] \o <<EndLine>>
Each(q, Line(_)) == [i \in DOMAIN q |-> Line(q[i])]

\* The listing is given to the assembler.
Reassemble ==
  /\ stage = "listed" /\ round < Rounds
  /\ src' = SizeLines \o Each(listing.vars, VarLine) \o Each(listing.nbc, IntroLine)
            \o FlattenSeq(Each(listing.bc, FuncLines))
  /\ iter' = 1 /\ pass' = "first" /\ active' = NONE /\ pc' = 0
  /\ vec' = << >> /\ file' = [funcs |-> << >>, vars |-> << >>]
  /\ data' = NoData
  /\ kind' = [f \in {} |-> ""] /\ labels' = [k \in {} |-> 0] /\ code' = [f \in {} |-> << >>]
  /\ stage' = "waiting" /\ round' = round + 1
  /\ hdr' = NoHeader /\ image' = << >> /\ module' = NoModule
  /\ names' = << >> /\ listing' = NoListing
  /\ UNCHANGED <<script, funcs, globals, cur, todo, origin>>

\* A tool refuses its input or dies, or the last listing is there.
ToolsEnd ==
  /\ \/ pass \in {"failed", "crashed"}
     \/ stage = "listed" /\ round = Rounds
     \/ stage \in {"fault", "rejected", "unlisted"}
  /\ UNCHANGED tvars

ToolNext == Assemble \/ Handover \/ UseFile \/ Reassemble \/ ToolsEnd

ToolSpec == ToolInit /\ [][ToolNext]_tvars /\ WF_tvars(Assemble)
----------------------------------------------------------------------------
Keys(rows)  == [i \in DOMAIN rows |-> rows[i].key]
Distinct(q) == \A i, j \in DOMAIN q : i # j => q[i] # q[j]

\* Instructions that are listed as the assembler reads them.
Readable(b) == b.op \notin {"jmp", "ldfn", "halt", "setelen"} /\ (b.op = "movi" => b.val[2] >= 0)

\* Modules whose listing is a source of the same module.  Of others it is not: a jump is
\* printed with a number, which the assembler refuses (disassembler.c:205), ldfn with the
\* name of the function before (169), setelen with a number, which the assembler refuses as
\* well (91, assembler.c:645), an immediate of movi below 0 as one above all positive ones,
\* which becomes the largest of these (215, assembler.c:140), large sizes as negative numbers
\* (37), which every heap comes to because each time something is added to it (assembler.c:993),
\* of functions that have one name only one is kept, and of one with a halt what is before it
\* (79).
Relistable(m) ==
  /\ Distinct(Keys(m.funcs)) /\ Distinct(Keys(m.vars))
  /\ Sized(m.hdr.heap) + (Rounds - 1) * HeapAdded(Len(m.funcs), Len(m.vars)) < UintMax \div 2
  /\ \A i \in DOMAIN m.funcs : \A k \in DOMAIN m.funcs[i].body : Readable(m.funcs[i].body[k])

\* An instruction with the function it calls, whatever number that has.
WithName(i, rows) == IF i.op = "call" THEN [op |-> "call", val |-> rows[i.val].key] ELSE i
Function(r, rows) == [key |-> r.key, flags |-> r.flags, bytes |-> r.bytes,
                      body |-> [k \in DOMAIN r.body |-> WithName(r.body[k], rows)]]
Functions(rows) == { Function(rows[i], rows) : i \in DOMAIN rows }
Variables(rows) == [i \in DOMAIN rows |-> [key |-> rows[i].key, bytes |-> rows[i].bytes]]

\* The disassembler finds the names that the loader finds, and the assembler takes its
\* listing and makes the same module of it: the same functions with the same instructions,
\* which call the same functions although these may have other numbers, the same variables
\* and stacks (disassembler.c:37, 54, 238, assembler.c:211, 756).
RoundTrip ==
  /\ stage # "waiting" => IsScript(script)
  /\ stage = "list" => names = Keys(module.funcs) \o Keys(module.vars)
  /\ round > 0 /\ Relistable(origin) =>
       /\ pass \notin {"failed", "crashed"}
       /\ stage = "ready" =>
            /\ Functions(module.funcs) = Functions(origin.funcs)
            /\ Variables(module.vars) = Variables(origin.vars)
            /\ hdr.opstack = origin.hdr.opstack /\ hdr.callstack = origin.hdr.callstack
=============================================================================
