------------------------------ MODULE Convention ------------------------------
(***************************************************************************)
(* The calling convention that the instruction set leaves to the programs, *)
(* and what a program that keeps it can rely on.  The machine checks       *)
(* nothing of it: the link register is a single register that every call   *)
(* overwrites (ISA.md: a function saves it before it calls), call stack    *)
(* pushes have no bounds check, and remit and leave give back the cells    *)
(* their operand names, whatever was allocated.                            *)
(*                                                                         *)
(* A program keeps the convention if every instruction can be annotated    *)
(* with the cells its function has allocated and with whether the link     *)
(* register is saved, so that calls, returns and jumps agree.              *)
(***************************************************************************)
EXTENDS TaghaVM, SequencesExt

CONSTANT Notes  \* Notes[p]: the annotation of program p, function by function

Note       == [height : Nat, saved : BOOLEAN]
Unframed   == [height |-> 0, saved |-> FALSE]

\* What a call needs: the link register saved if the callee is going to overwrite it, and
\* a cell of operand stack for each cell of call stack, so that the operand stack ends first.
MayCall(it, n) ==
  /\ it.native /\ it.item \in Invokes => n.saved
  /\ ~it.native /\ ~it.extern => n.saved /\ n.height >= 1
  /\ ~it.native /\ it.extern => n.height >= IF n.saved THEN 2 ELSE 1

\* Instruction pc of function fn agrees with its note and with those of its successors.
FitsAt(p, notes, fn, pc) ==
  LET i == p[fn][pc]
      n == notes[fn][pc]
      Leaves(to, height, saved) ==
        to \in DOMAIN p[fn] /\ notes[fn][to] = [height |-> height, saved |-> saved]
      Leads(height, saved) == Leaves(pc + 1, height, saved)
  IN  /\ i.op = "alloc"   => Leads(n.height + i.a, n.saved)
      /\ i.op = "enter"   => ~n.saved /\ Leads(n.height + i.a, TRUE)
      /\ i.op = "redux"   => i.a <= n.height /\ Leads(n.height - i.a, n.saved)
      /\ i.op = "pushlr"  => ~n.saved /\ Leads(n.height, TRUE)
      /\ i.op = "poplr"   => n.saved /\ Leads(n.height, FALSE)
      /\ i.op \in {"ret", "halt"} => n = Unframed
      /\ i.op = "remit"   => n = [height |-> i.a, saved |-> FALSE]
      /\ i.op = "restore" => n = [height |-> 0, saved |-> TRUE]
      /\ i.op = "leave"   => n = [height |-> i.a, saved |-> TRUE]
      /\ i.op \in {"jmp", "jz", "jnz"} => Leaves(pc + 1 + i.b, n.height, n.saved)
      /\ i.op \notin {"alloc", "enter", "redux", "pushlr", "poplr", "ret", "halt", "remit",
                      "restore", "leave", "jmp"} => Leads(n.height, n.saved)
      /\ i.op = "call" /\ i.a \in DOMAIN Table[OwnerOf(fn)] =>
           MayCall(Table[OwnerOf(fn)][i.a], n)
      /\ i.op = "callr"   => n.saved /\ n.height >= 2

\* A function starts without a frame, and every instruction agrees with its note.
KeepsConvention(p, notes) ==
  /\ notes \in [Func -> Seq(Note)]
  /\ \A fn \in Func : /\ Len(notes[fn]) = Len(p[fn]) /\ p[fn] # << >>
                      /\ notes[fn][1] = Unframed
                      /\ \A pc \in DOMAIN p[fn] : FitsAt(p, notes, fn, pc)

\* Linking gives the items of a function its module as owner, the host calls functions of
\* the module that runs, and the call stack is not the smaller one (the generator's default
\* is the same size for both).
ASSUME ConventionAssumption ==
  /\ CallCells >= OpCells
  /\ \A p \in Programs : KeepsConvention(p, Notes[p])
  /\ \A m \in Mod : \A i \in DOMAIN Table[m] :
       LET it == Table[m][i] IN
         ~it.native /\ it.owner # NIL => it.owner = OwnerOf(it.item) /\ (~it.extern => it.owner = m)
  /\ \A e \in Exports :
       LET it == Table[Vm][e[1]] IN ~it.native /\ it.item # NIL => OwnerOf(it.item) = Vm
----------------------------------------------------------------------------
(* What a program must not do while it runs; each of these is something    *)
(* the machine does not stop, with effects of its own.                     *)

\* Stores through pointers leave the call stack alone.
CallStackKept ==
  (At("st8") \/ At("st")) /\ IsReg(Instruction.a) =>
    LET p == Offset(Reg(Instruction.a), Instruction.c) IN p.k = "ptr" => p.n \notin 0 .. CallCells - 1

\* A function pointer is used where the tables are those of the function's module: by the
\* module that runs for its own functions, and by a native of the module it points into.
PointersAtHome ==
  /\ At("callr") /\ IsReg(Instruction.a) =>
       LET p == Reg(Instruction.a) IN
         p.k = "fn" /\ IsItem(p) /\ ~Table[p.x][p.n].native /\ Table[p.x][p.n].owner = Vm => Running.tf = Vm
  /\ InNative /\ Running.fn \in Invokes /\ Running.arg.k = "fn" /\ IsItem(Running.arg) =>
       LET it == Table[Running.arg.x][Running.arg.n] IN
         ~it.native /\ it.item # NIL => OwnerOf(it.item) = tabs

\* A native that calls back was called by a function without registers of its own, so that
\* vm->osp is not above the registers in use.
CallersSeen ==
  InNative /\ Running.fn \in Invokes /\ Depth > 1 /\ cstack[Depth - 1].k = "exec" =>
    osp <= cstack[Depth - 1].sp

\* Only the function that C code called halts.
HaltsOutermost == At("halt") => Len(Running.stk) = 1

Promised == err = "None" => CallStackKept /\ PointersAtHome /\ CallersSeen /\ HaltsOutermost
----------------------------------------------------------------------------
(* Control, as CallDiscipline sees it.                                     *)

\* The places of the functions open in a frame, the innermost last: a function that called
\* another one waits where that one returns to.
Places(fr) == IF fr.k = "exec" /\ fr.stk # << >>
              THEN Append([i \in 1 .. Len(fr.stk) - 1 |-> CodeOf(fr.stk[i + 1].ret)], fr.ip)
              ELSE << >>
Control    == FlattenSeq([d \in 1 .. Depth |-> Places(cstack[d])])

Pcs        == UNION {DOMAIN p[fn] : p \in Programs, fn \in Func}

CD == INSTANCE CallDiscipline WITH ctl <- Control, failed <- (err # "None"), Pc <- Pcs

\* The machine implements CallDiscipline: a return resumes the function that made the
\* call, in the module and at the instruction it left, whatever saved the link register.
KeepsCallDiscipline == CD!CDSpec
=============================================================================
