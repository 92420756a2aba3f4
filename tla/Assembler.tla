----------------------------- MODULE Assembler -----------------------------
(***************************************************************************)
(* The assembler (tagha_asm_assemble): a first pass over the source that   *)
(* collects the functions and the addresses of the jump labels, a second   *)
(* one that generates bytecode, and the function table of the file.        *)
(*                                                                         *)
(* The source is a sequence of tokens: a directive with its name, the head *)
(* or the end of a function, a label, an opcode with its operand, or text  *)
(* that begins none of these (a comma, say).  One opcode is kept per case  *)
(* of the switches, and of its operands one (the offset, name or register  *)
(* it is about; of movi register and immediate); of a variable the sizes   *)
(* of its data, a string being one datum.  Left out: comments and blank    *)
(* lines, what an operand looks like and the values of data.               *)
(***************************************************************************)
EXTENDS Layout, Sequences, FiniteSets, SequencesExt

CONSTANTS
  Name,     \* names of functions
  Label,    \* names of labels
  Join(_, _),  \* Join(l, f): the text of label l followed by that of function f
  Sources,  \* the sources to assemble
  Int64Half,   \* 2^63: an int64_t is in -Int64Half .. Int64Half - 1
  NONE

VARIABLES
  src,     \* the source
  iter,    \* the token that a pass has reached
  pass,    \* "first", "second", "write", "done"; "failed": an error has been reported;
           \* "crashed": a NULL pointer has been followed
  active,  \* active_label: the function around iter, or NONE
  pc,      \* bytes of its instructions before iter
  vec,     \* names of the functions, in the order of their insertion
  kind,    \* kind[f]: "code", "native" or "extern", for the functions known
  labels,  \* labels[k]: offset of the label with key k, for the labels known
  code,    \* code[f]: instructions generated, each with its place in the function
  data,    \* opstacksize, callstacksize, heapsize; the variables (the order of their insertion
           \* and bytes[v], how many bytes of v there are)
  file     \* the functions and variables that the module is made of

vars == <<src, iter, pass, active, pc, vec, kind, labels, code, data, file>>

\* Opcodes with numbers, the numbers of registers among them.
Number == {"alloc", "setvlen", "neg", "mov", "lra", "movi", "ld", "st"}
Op     == {"halt", "nop", "setelen", "jmp", "call", "ldfn", "ldvar"} \cup Number

\* tagha_instr_gen: the size it returns, and the bytes of the operands it inserts.
Bytes == [ halt |-> 1, nop |-> 1, alloc |-> 2, setelen |-> 2, neg |-> 2, mov |-> 3, call |-> 3,
           setvlen |-> 3, lra |-> 4, ldfn |-> 4, ldvar |-> 4, ld |-> 5, st |-> 5, jmp |-> 5, movi |-> 10 ]
\* Faulty: call has a one-byte operand.
InsertedShort == [ halt |-> 0, nop |-> 0, alloc |-> 1, setelen |-> 1, neg |-> 1, mov |-> 1 + 1,
                   call |-> 1, setvlen |-> 2, lra |-> 1 + 2, ldfn |-> 1 + 2, ldvar |-> 1 + 2,
                   ld |-> 1 + 1 + 2, st |-> 1 + 1 + 2, jmp |-> 4, movi |-> 1 + 8 ]
Inserted == [ halt |-> 0, nop |-> 0, alloc |-> 1, setelen |-> 1, neg |-> 1, mov |-> 1 + 1,
              call |-> 2, setvlen |-> 2, lra |-> 1 + 2, ldfn |-> 1 + 2, ldvar |-> 1 + 2,
              ld |-> 1 + 1 + 2, st |-> 1 + 1 + 2, jmp |-> 4, movi |-> 1 + 8 ]
Length(op) == 1 + Inserted[op]

\* What the interpreter and the disassembler take for an instruction.
Fetched == [ halt |-> 1, nop |-> 1, alloc |-> 1 + 1, setelen |-> 1 + 1, neg |-> 1 + 1, mov |-> 1 + 2,
             call |-> 1 + 2, setvlen |-> 1 + 2, lra |-> 1 + 1 + 2, ldfn |-> 1 + 1 + 2,
             ldvar |-> 1 + 1 + 2, ld |-> 1 + 4, st |-> 1 + 4, jmp |-> 1 + 4, movi |-> 1 + 1 + 8 ]
Shown   == [ halt |-> 1, nop |-> 1, alloc |-> 2, setelen |-> 2, neg |-> 2, mov |-> 3, call |-> 3,
             setvlen |-> 3, lra |-> 4, ldfn |-> 4, ldvar |-> 4, ld |-> 5, st |-> 5, jmp |-> 5, movi |-> 10 ]

\* The names that setelen takes; any other operand, a number too, is "other".
Sizeof == [ byte |-> 1, half |-> 2, long |-> 4, word |-> 8 ]
\* movi has a register and an immediate.
Operand(op, n) == IF op = "movi" THEN n \in Int \X Int ELSE n \in Int

Unit == [opstack |-> PtrBytes, callstack |-> PtrBytes, heap |-> 1]

Directives == {"native", "extern", "size", "global"}

\* Token i stands on a line behind a token of one of these kinds.
StandsBehind(s, i, kinds) == \E j \in 1 .. i - 1 : s[j].t \in kinds /\ \A k \in j + 1 .. i : ~s[k].nl

\* A source, by its tokens.  One of the passes skips what stands behind an operation or a
\* directive on its line: an end there, or the head of a function behind a directive, would have
\* the second one take operations for heads of functions.
IsSource(s) ==
  /\ DOMAIN s = 1 .. Len(s) /\ Len(s) \in Nat
  /\ \A i \in DOMAIN s :
       /\ s[i].t \in {"native", "extern", "func"} => s[i].name \in Name
       /\ s[i].t = "func" => ~StandsBehind(s, i, Directives)
       /\ s[i].t = "label" => s[i].name \in Label
       /\ s[i].t = "op" => /\ s[i].op \in Op
                           /\ s[i].op \in Number => Operand(s[i].op, s[i].arg)
                           /\ s[i].op = "st" => s[i].spaced \in BOOLEAN
                           /\ s[i].op = "setelen" => s[i].arg \in DOMAIN Sizeof \cup {"other"}
                           /\ s[i].op = "jmp" => s[i].arg \in Label \/ s[i].arg \in Int
       /\ s[i].t = "size" => s[i].which \in DOMAIN Unit /\ s[i].num \in Int
       /\ s[i].t = "global" => s[i].bytes \in Nat /\ s[i].data \in Seq(Nat)
       /\ s[i].t = "end" => s[i].nl

ASSUME AssemblerAssumption ==
  NONE \notin Name /\ Int64Half \in Nat \ {0} /\ \A s \in Sources : IsSource(s)

\* Operands that the second pass accepts, and what may be left of them in the bytecode.  A
\* number has no sign but in an offset.  strtoll makes one that is too large for an immediate the
\* largest; the conversion of a float that is too large is undefined, and gives the least.
Accepted(op, n) ==
  /\ op \in {"alloc", "neg", "mov"} => 0 <= n /\ n < 256
  /\ op = "setvlen" => 0 <= n /\ n < 65536
  /\ op = "lra"     => 0 <= n /\ n < 65535
  /\ op = "movi"    => 0 <= n[1] /\ n[1] <= 256 /\ 0 <= n[2]
Signed16(n)  == ((n + 32768) % 65536) - 32768
Immediate(n) == IF n < Int64Half THEN {n} ELSE {Int64Half - 1, -Int64Half}
Encoded(op, n) ==
  CASE op \in {"alloc", "neg", "mov"} -> {n % 256}
    [] op \in {"setvlen", "lra"}      -> {n % 65536}
    [] op = "movi"                    -> {n[1] % 256} \X Immediate(n[2])
    [] op \in {"ld", "st"}            -> {Signed16(n)}

Tok        == src[iter]
AtEnd      == iter > Len(src)
At(t)      == ~AtEnd /\ Tok.t = t
\* skip_single_line_comment: the first token of the next line.
NextLine   == CHOOSE j \in iter + 1 .. Len(src) + 1 :
                /\ j = Len(src) + 1 \/ src[j].nl
                /\ \A k \in iter + 1 .. j - 1 : ~src[k].nl
\* Faulty: labels of all functions in one.
KeyAlone(l) == Join(l, NONE)
\* The key of a label of the active function.
Key(l)     == Join(l, active)
Advance    == iter' = iter + 1
Stop(how)  == pass' = how /\ UNCHANGED <<src, data, iter, active, pc, vec, kind, labels, code, file>>

\* harbol_linkmap_insert: the first value of a key stays, the order records every call.
With(map, k, v) == IF k \in DOMAIN map THEN map
                   ELSE [x \in DOMAIN map \cup {k} |-> IF x = k THEN v ELSE map[x]]
IndexIn(q, n) == (CHOOSE i \in 1 .. Len(q) : q[i] = n /\ \A j \in 1 .. i - 1 : q[j] # n) - 1
Index(f)      == IndexIn(vec, f)

NoData == [opstack |-> 0, callstack |-> 0, heap |-> 0, vars |-> << >>, bytes |-> [v \in {} |-> 0]]

\* Nothing of the source has been read.
Unread ==
  /\ iter = 1 /\ pass = "first" /\ active = NONE /\ pc = 0
  /\ vec = << >> /\ file = [funcs |-> << >>, vars |-> << >>]
  /\ data = NoData
  /\ kind = [f \in {} |-> ""] /\ labels = [k \in {} |-> 0] /\ code = [f \in {} |-> << >>]

Init == src \in Sources /\ Unread

AddFunc(f, k) ==
  /\ vec' = Append(vec, f)
  /\ kind' = With(kind, f, k)
  /\ code' = With(code, f, << >>)
----------------------------------------------------------------------------
\* First pass.
Directive ==
  /\ pass = "first" /\ (At("native") \/ At("extern"))
  /\ AddFunc(Tok.name, Tok.t)
  /\ Advance
  /\ UNCHANGED <<src, data, pass, active, pc, labels, file>>

\* $opstack_size, $callstack_size and $heap_size: a uint32_t, in bytes.
SizeDirective ==
  /\ pass = "first" /\ At("size") /\ Tok.num \in Nat
  /\ data' = [data EXCEPT ![Tok.which] = U32(Tok.num * Unit[Tok.which])]
  /\ Advance
  /\ UNCHANGED <<src, pass, active, pc, vec, kind, labels, code, file>>

\* The bytes in the first i data of a variable, and the places after which the loop over them
\* ends: when no byte is left to be given (the number of those wraps around), or after a 0,
\* which fills the rest.
Given(i)   == FoldSeq(+, 0, SubSeq(Tok.data, 1, i))
Ends       == { i \in 0 .. Len(Tok.data) : Given(i) = Tok.bytes \/ (i > 0 /\ Tok.data[i] = 0) }
Complete   == Len(Tok.data) \in Ends /\ Cardinality(Ends) = 1
\* A 0 fills what is left after too many bytes.
Overfills  == \E i \in Ends : Given(i) > Tok.bytes /\ \A j \in Ends : i <= j

Global ==
  /\ pass = "first" /\ At("global") /\ Complete /\ ~Overfills
  /\ data' = [data EXCEPT !.vars = Append(@, Tok.name), !.bytes = With(@, Tok.name, Tok.bytes)]
  /\ Advance
  /\ UNCHANGED <<src, pass, active, pc, vec, kind, labels, code, file>>

\* A size that is no number; a variable without its data, or with more of them.
DirectiveError ==
  /\ pass = "first"
  /\ \/ At("size") /\ Tok.num \notin Nat
     \/ At("global") /\ ~Complete /\ ~Overfills
  /\ Stop("failed")

\* The size given to memset has wrapped around.
GlobalOverfills == pass = "first" /\ At("global") /\ Overfills /\ Stop("crashed")

FirstFunc ==
  /\ pass = "first" /\ At("func") /\ active = NONE /\ Tok.name \notin DOMAIN kind
  /\ active' = Tok.name
  /\ AddFunc(Tok.name, "code")
  /\ Advance
  /\ UNCHANGED <<src, data, pass, pc, labels, file>>

\* Faulty: the second function starts where the first one ended.
EndKeepsPc ==
  /\ active # NONE /\ At("end")
  /\ active' = NONE
  /\ Advance
  /\ UNCHANGED <<src, data, pass, pc, vec, kind, labels, code, file>>

\* The end of a function, in either pass.
End ==
  /\ active # NONE /\ At("end")
  /\ active' = NONE /\ pc' = 0
  /\ Advance
  /\ UNCHANGED <<src, data, pass, vec, kind, labels, code, file>>

\* The operands are left to the second pass, with the rest of the line.
FirstOp ==
  /\ pass = "first" /\ At("op") /\ active # NONE
  /\ pc' = pc + Bytes[Tok.op]
  /\ iter' = NextLine
  /\ UNCHANGED <<src, data, pass, active, vec, kind, labels, code, file>>

FirstLabel ==
  /\ pass = "first" /\ At("label") /\ active # NONE
  /\ labels' = With(labels, Key(Tok.name), pc)
  /\ Advance
  /\ UNCHANGED <<src, data, pass, active, pc, vec, kind, code, file>>

\* An opcode outside of a function, a function inside of one or defined twice, other text.
FirstError ==
  /\ pass = "first"
  /\ \/ At("op") /\ active = NONE
     \/ At("func") /\ (active # NONE \/ Tok.name \in DOMAIN kind)
     \/ At("text")
  /\ Stop("failed")

\* The name of the function around a label or an end is read without a test.
NoFunction ==
  /\ active = NONE
  /\ At("end") \/ (pass = "first" /\ At("label"))
  /\ Stop("crashed")

EndFirst ==
  /\ pass = "first" /\ AtEnd
  /\ pass' = "second" /\ iter' = 1 /\ active' = NONE /\ pc' = 0
  /\ UNCHANGED <<src, data, vec, kind, labels, code, file>>
----------------------------------------------------------------------------
\* Second pass.
SkipDirective ==
  /\ pass = "second" /\ ~AtEnd /\ Tok.t \in Directives
  /\ iter' = NextLine
  /\ UNCHANGED <<src, data, pass, active, pc, vec, kind, labels, code, file>>

\* Faulty: the label is not consumed.
SkipLabelStuck == pass = "second" /\ At("label") /\ UNCHANGED vars

SkipLabel ==
  /\ pass = "second" /\ At("label")
  /\ Advance
  /\ UNCHANGED <<src, data, pass, active, pc, vec, kind, labels, code, file>>

SecondFunc ==
  /\ pass = "second" /\ At("func") /\ active = NONE
  /\ active' = Tok.name
  /\ Advance
  /\ UNCHANGED <<src, data, pass, pc, vec, kind, labels, code, file>>

\* Bytes generated for a function: data.count, which is where its last instruction ends.
Size(f) == IF code[f] = << >> THEN 0
           ELSE LET last == code[f][Len(code[f])] IN last.at + Length(last.op)

\* tagha_instr_gen adds an instruction to the active function; pos is history.
Emit(op, val) ==
  /\ code' = [code EXCEPT ![active] =
                Append(@, [op |-> op, val |-> val, at |-> Size(active), pos |-> iter])]
  /\ pc' = pc + Bytes[op]
  /\ Advance
  /\ UNCHANGED <<src, data, pass, active, vec, kind, labels, file>>

\* st takes its offset right behind the register, and wants whitespace behind its operands.
Spaced == Tok.op = "st" => Tok.spaced

SecondOp ==
  /\ pass = "second" /\ At("op") /\ active # NONE
  /\ \/ Tok.op \in {"halt", "nop"} /\ Emit(Tok.op, 0)
     \/ /\ Tok.op \in Number /\ Accepted(Tok.op, Tok.arg) /\ Spaced
        /\ \E val \in Encoded(Tok.op, Tok.arg) : Emit(Tok.op, val)

\* setelen is given the size of a type by its name.
SecondType ==
  /\ pass = "second" /\ At("op") /\ active # NONE /\ Tok.op = "setelen"
  /\ Tok.arg \in DOMAIN Sizeof
  /\ Emit("setelen", Sizeof[Tok.arg])

\* Faulty: relative to the jump itself.
JumpFromStart ==
  /\ pass = "second" /\ At("op") /\ active # NONE /\ Tok.op = "jmp"
  /\ Key(Tok.arg) \in DOMAIN labels
  /\ Emit("jmp", labels[Key(Tok.arg)] - pc)

\* Relative to the end of the jump.
SecondJump ==
  /\ pass = "second" /\ At("op") /\ active # NONE /\ Tok.op = "jmp"
  /\ Key(Tok.arg) \in DOMAIN labels
  /\ Emit("jmp", labels[Key(Tok.arg)] - (pc + Bytes["jmp"]))

\* Faulty: functions are numbered as ldfn numbers them.
CallFromZero ==
  /\ pass = "second" /\ At("op") /\ active # NONE /\ Tok.op \in {"call", "ldfn"}
  /\ Tok.arg \in DOMAIN kind
  /\ Emit(Tok.op, Index(Tok.arg))

\* call numbers the functions from 1, ldfn from 0.
SecondCall ==
  /\ pass = "second" /\ At("op") /\ active # NONE /\ Tok.op \in {"call", "ldfn"}
  /\ Tok.arg \in DOMAIN kind
  /\ Emit(Tok.op, Index(Tok.arg) + IF Tok.op = "call" THEN 1 ELSE 0)

\* Variables are numbered from 0.
SecondVar ==
  /\ pass = "second" /\ At("op") /\ active # NONE /\ Tok.op = "ldvar"
  /\ Tok.arg \in DOMAIN data.bytes
  /\ Emit("ldvar", IndexIn(data.vars, Tok.arg))

SecondError ==
  /\ pass = "second"
  /\ \/ At("func") /\ active # NONE
     \/ At("op") /\ Tok.op \in Number /\ ~(Accepted(Tok.op, Tok.arg) /\ Spaced)
     \/ At("op") /\ Tok.op = "setelen" /\ Tok.arg \notin DOMAIN Sizeof
     \/ At("op") /\ Tok.op = "jmp" /\ Key(Tok.arg) \notin DOMAIN labels
     \/ At("op") /\ Tok.op \in {"call", "ldfn"} /\ Tok.arg \notin DOMAIN kind
     \/ At("op") /\ Tok.op = "ldvar" /\ Tok.arg \notin DOMAIN data.bytes
  /\ Stop("failed")

\* No branch of the second pass consumes other text: it stays there for ever.
SecondText == pass = "second" /\ At("text") /\ UNCHANGED vars

EndSecond ==
  /\ pass = "second" /\ AtEnd
  /\ Stop("write")

\* tagha_mod_gen_write_func for the functions in order, as many as there are keys, and
\* tagha_mod_gen_write_var for the variables.
Write ==
  /\ pass = "write"
  /\ file' = [funcs |-> [i \in 1 .. Cardinality(DOMAIN kind) |->
                           [name |-> vec[i], kind |-> kind[vec[i]], code |-> code[vec[i]]]],
              vars  |-> [i \in 1 .. Cardinality(DOMAIN data.bytes) |->
                           [name |-> data.vars[i], bytes |-> data.bytes[data.vars[i]]]]]
  /\ pass' = "done"
  /\ UNCHANGED <<src, data, iter, active, pc, vec, kind, labels, code>>

Pass ==
  \/ Directive \/ SizeDirective \/ Global \/ DirectiveError \/ GlobalOverfills \/ FirstFunc \/ FirstOp \/ FirstLabel \/ FirstError \/ NoFunction \/ EndFirst
  \/ SkipDirective \/ SkipLabel \/ SecondFunc \/ SecondOp \/ SecondType \/ SecondJump \/ SecondCall \/ SecondVar
  \/ SecondError \/ SecondText \/ EndSecond \/ End \/ Write

Spec == Init /\ [][Pass]_vars /\ WF_vars(Pass)
----------------------------------------------------------------------------
\* The state of a pass is in range; outside of functions no bytes are counted
\* (assembler.c:449, 560).
TypeOK ==
  /\ iter \in 1 .. Len(src) + 1
  /\ pass \in {"first", "second", "write", "done", "failed", "crashed"}
  /\ active \in Name \cup {NONE} /\ pc \in Nat
  /\ active = NONE => pc = 0
  /\ vec \in Seq(Name) /\ DOMAIN kind = ToSet(vec) /\ DOMAIN code = DOMAIN kind
  /\ \A f \in DOMAIN kind : kind[f] \in {"code", "native", "extern"}
  /\ \A k \in DOMAIN labels : labels[k] \in Nat
  /\ \A which \in DOMAIN Unit : data[which] \in 0 .. UintMax - 1
  /\ DOMAIN data.bytes = ToSet(data.vars)

\* The function around token i of a source, by its heads and ends.
Around(s, i) ==
  LET marks == {j \in 1 .. i - 1 : s[j].t \in {"func", "end"}} IN
  IF \E j \in marks : s[j].t = "func" /\ \A k \in marks : k <= j
  THEN s[CHOOSE j \in marks : \A k \in marks : k <= j].name
  ELSE NONE
Enclosing(i) == Around(src, i)

Defines(i, f) == src[i].t \in {"func", "native", "extern"} /\ src[i].name = f

\* Token i stands behind an operation of its line: the first pass does not see it.
Behind(i) == StandsBehind(src, i, {"op"})

\* Operands as their widths in the instruction set allow them.
InRange(op, n) ==
  /\ op \in {"alloc", "neg", "mov"} => 0 <= n /\ n < 256
  /\ op \in {"setvlen", "lra"}      => 0 <= n /\ n < 65536
  /\ op = "movi" => 0 <= n[1] /\ n[1] < 256 /\ -Int64Half <= n[2] /\ n[2] < Int64Half
  /\ op \in {"ld", "st"} => -32768 <= n /\ n < 32768

\* The sources that the properties are about.  Others are accepted as well, with a wrong
\* result: of two operations on a line the first pass counts one, and it never sees a
\* directive behind an operation (assembler.c:491); the second pass never sees an operation
\* behind a directive (assembler.c:546); a second declaration of a function or variable
\* pushes the last one out of the file (assembler.c:992, 1018), sizes wrap around
\* (assembler.c:160), three range checks are off (assembler.c:725, 837 and 892, 930), and of
\* immediates those from 2^63 on are changed and negative ones refused (assembler.c:140, 936).
Regular ==
  \A i \in 1 .. Len(src) :
    /\ src[i].t \in {"op"} \cup Directives => ~Behind(i)
    /\ src[i].t = "op" => ~StandsBehind(src, i, Directives)
    /\ src[i].t = "op" /\ src[i].op \in Number =>
         (InRange(src[i].op, src[i].arg) <=> Accepted(src[i].op, src[i].arg))
    /\ src[i].t \in {"native", "extern"} => \A j \in 1 .. i - 1 : ~Defines(j, src[i].name)
    /\ src[i].t = "global" => \A j \in 1 .. i - 1 : src[j].t = "global" => src[j].name # src[i].name
    /\ src[i].t = "size" => src[i].num * Unit[src[i].which] < UintMax

ValidOp(i) ==
  /\ src[i].op \in Number => InRange(src[i].op, src[i].arg)
  /\ src[i].op = "st" => src[i].spaced
  /\ src[i].op = "setelen" => src[i].arg \in DOMAIN Sizeof
  /\ src[i].op = "jmp" => \E j \in 1 .. Len(src) : /\ src[j].t = "label" /\ ~Behind(j)
                                                   /\ src[j].name = src[i].arg
                                                   /\ Enclosing(j) = Enclosing(i)
  /\ src[i].op \in {"call", "ldfn"} => \E j \in 1 .. Len(src) : Defines(j, src[i].arg)
  /\ src[i].op = "ldvar" => \E j \in 1 .. Len(src) : src[j].t = "global" /\ src[j].name = src[i].arg

\* The data of a variable are as many bytes as it has, or end with a 0 that fills the rest.
ValidGlobal(i) ==
  LET sum == FoldSeq(+, 0, src[i].data)
      n   == Len(src[i].data)
  IN  /\ \A j \in 1 .. n - 1 : src[i].data[j] # 0
      /\ IF n > 0 /\ src[i].data[n] = 0 THEN sum < src[i].bytes ELSE sum = src[i].bytes

\* What a source has to be: sizes and data of variables complete, operations and labels in
\* functions, functions defined once and not inside of others, the operands in range, the
\* functions and labels named by them defined, the labels in the same function.
Valid ==
  \A i \in 1 .. Len(src) :
    /\ src[i].t # "text"
    /\ src[i].t = "size" => src[i].num \in Nat
    /\ src[i].t = "global" => ValidGlobal(i)
    /\ src[i].t \in {"op", "label", "end"} => Enclosing(i) # NONE
    /\ src[i].t = "op" => ValidOp(i)
    /\ src[i].t = "func" => /\ ~Behind(i) /\ Enclosing(i) = NONE
                            /\ \A j \in 1 .. i - 1 : ~Defines(j, src[i].name)

\* A module is generated for valid sources, and for no others (assembler.c:147-350,
\* 406-516, 535-959).
AcceptsValid ==
  pass \in {"done", "failed", "crashed"} /\ Regular => (pass = "done" <=> Valid)

\* A jump goes to where its label stands in the same function: to the end of the
\* instructions before it, as the first pass counted them (assembler.c:506, 915).
JumpsLand ==
  pass = "done" /\ Regular =>
    \A f \in DOMAIN code : \A r \in ToSet(code[f]) :
      r.op = "jmp" =>
        LET target == r.at + Fetched["jmp"] + r.val IN
        \E p \in 1 .. Len(src) :
          /\ src[p].t = "label" /\ src[p].name = src[r.pos].arg /\ Enclosing(p) = f
          /\ target \in {q.at : q \in ToSet(code[f])} \cup {Size(f)}
          /\ \A q \in ToSet(code[f]) : q.at < target <=> q.pos < p

\* The number of the last directive for a size, 0 if there is none.
Asked(which) ==
  LET is == {i \in 1 .. Len(src) : src[i].t = "size" /\ src[i].which = which}
  IN  IF is = {} THEN 0 ELSE src[CHOOSE i \in is : \A j \in is : j <= i].num

\* The instructions of f are the operations in it, one for each, in their order.
Translated(f) ==
  /\ \A j, k \in DOMAIN code[f] : j < k => code[f][j].pos < code[f][k].pos
  /\ {r.pos : r \in ToSet(code[f])} = {i \in 1 .. Len(src) : src[i].t = "op" /\ Enclosing(i) = f}
  /\ \A r \in ToSet(code[f]) : r.op = src[r.pos].op

\* No operation is lost, doubled or out of order, numbers survive encoding, the functions and
\* variables named are those that the numbers in call, ldfn and ldvar mean to the interpreter,
\* no function or variable is missing, functions are what they were declared as, variables have
\* the bytes and the order they were declared with, and the sizes are those asked for
\* (assembler.c:147-350, 535-959, 992-1030).
OperandsKept ==
  pass = "done" /\ Regular =>
    /\ \A f \in DOMAIN kind :
         \E i \in DOMAIN file.funcs : file.funcs[i].name = f /\ file.funcs[i].code = code[f]
    /\ \A i \in DOMAIN file.funcs : \A r \in ToSet(file.funcs[i].code) :
         /\ r.op \in Number => r.val = src[r.pos].arg
         /\ r.op = "setelen" => r.val = Sizeof[src[r.pos].arg]
         /\ r.op = "call"   => r.val \in DOMAIN file.funcs /\ file.funcs[r.val].name = src[r.pos].arg
         /\ r.op = "ldfn"   => /\ r.val + 1 \in DOMAIN file.funcs
                               /\ file.funcs[r.val + 1].name = src[r.pos].arg
         /\ r.op = "ldvar"  => /\ r.val + 1 \in DOMAIN file.vars
                               /\ file.vars[r.val + 1].name = src[r.pos].arg
    /\ \A i \in 1 .. Len(src) : src[i].t = "global" =>
         [name |-> src[i].name, bytes |-> src[i].bytes] \in ToSet(file.vars)
    /\ \A f \in DOMAIN code : Translated(f)
    /\ \A f \in DOMAIN kind : \E i \in 1 .. Len(src) :
         Defines(i, f) /\ kind[f] = IF src[i].t = "func" THEN "code" ELSE src[i].t
    /\ \A j, k \in DOMAIN file.vars, a, b \in 1 .. Len(src) :
         j < k /\ src[a].t = "global" /\ src[a].name = file.vars[j].name
               /\ src[b].t = "global" /\ src[b].name = file.vars[k].name => a < b
    /\ \A which \in DOMAIN Unit : data[which] = Asked(which) * Unit[which]

\* The interpreter and the disassembler find the instructions where the generator has put
\* them: all three agree about the length of each (instr_gen.h:25, disassembler.c:81).
Decodes ==
  \A f \in DOMAIN code : \A i \in 1 .. Len(code[f]) - 1 :
    LET here == code[f][i] IN
    /\ code[f][i + 1].at = here.at + Fetched[here.op]
    /\ code[f][i + 1].at = here.at + Shown[here.op]

\* The assembler ends, on sources without text that it does not know (assembler.c:535).
Terminates ==
  (\A i \in 1 .. Len(src) : src[i].t # "text") => <>(pass \in {"done", "failed", "crashed"})
=============================================================================
