------------------------------ MODULE TaghaVM ------------------------------
(***************************************************************************)
(* The Tagha virtual machine running one module: the host starting a       *)
(* function (tagha_module_call / tagha_module_invoke), the interpreter     *)
(* loop with its call, frame and jump instructions, calls into natives,    *)
(* natives that re-enter the machine, and calls into functions of other    *)
(* modules, which run in a nested interpreter loop.                        *)
(*                                                                         *)
(* Memory is counted in 8-byte cells.  _setup_memory takes the operand     *)
(* stack and then the call stack from a pool that hands out memory         *)
(* downwards, so the cells are, from the lowest address up:                *)
(*     0 .. CallCells-1        the call stack                              *)
(*     CallCells .. OpBase-1   the pool's header of the operand stack      *)
(*     OpBase .. Top-1         the operand stack                           *)
(* A value that no property looks at is the value Data.  What the C        *)
(* standard leaves undefined (a return to something that is not code, a    *)
(* register outside the memory above) has no successor here: a run that    *)
(* checks for deadlock shows that it is never reached.                     *)
(***************************************************************************)
EXTENDS Integers, Sequences

CONSTANTS
  Mod,        \* loaded modules
  Vm,         \* the module that runs: every nested loop runs on its struct
  Func,       \* bytecode functions of all the modules
  Native,     \* linked C functions
  NIL,        \* null pointer
  Table,      \* Table[m]: function table of m after linking, a sequence of items
  Programs,   \* possible contents of the bytecode: functions [Func -> Seq(Instr)]
  Exports,    \* <<i, n>>: the host calls item i of Vm's table with n arguments
  Throws,     \* natives that may throw an error
  Invokes,    \* natives that may call their first parameter back
  OpCells,    \* size of the operand stack
  CallCells,  \* size of the call stack
  MaxArgs,    \* bound: arguments a native passes back
  MaxCalls    \* bound: calls made by the host

NodeCells == 3              \* sizeof(struct HarbolMemNode)
OpBase    == CallCells + NodeCells
Top       == OpBase + OpCells
Cell      == 0 .. Top - 1

Loc  == [f : Func, pc : Int]
Val  == {v \in [k : {"nil", "data", "fn", "code", "ptr", "var"}, x : Mod \cup Func \cup {NIL}, n : Int] :
           v.k = "code" => v.x \in Func}
Item == {it \in [item : Func \cup Native \cup {NIL}, owner : Mod \cup {NIL},
                 native : BOOLEAN, extern : BOOLEAN] :
           /\ it.native => it.item \in Native \cup {NIL}
           /\ ~it.native => it.item \in Func \cup {NIL} /\ (it.owner # NIL => it.item # NIL)}
Op   == {"nop", "enter", "leave", "alloc", "redux", "remit", "pushlr", "poplr",
         "restore", "ret", "halt", "movi", "mov", "ldvar", "ldfn", "lra", "lea", "alu", "alu1",
         "ld8", "ld", "st8", "st", "cmp", "jmp", "jz", "jnz", "call", "callr"}
Instr == [op : Op, a : Nat, b : Int, c : Int]
Err   == {"None", "BadNative", "BadExtern", "OpStackOF", "BadPtr", "BadFunc", "User"}

NilV        == [k |-> "nil",  x |-> NIL, n |-> 0]
Data        == [k |-> "data", x |-> NIL, n |-> 0]
FnV(m, i)   == [k |-> "fn",   x |-> m,   n |-> i]
PtrV(c)     == [k |-> "ptr",  x |-> NIL, n |-> c]
VarV(m)     == [k |-> "var",  x |-> m,   n |-> 0]  \* a place in the variables of module m
Offset(v, i) == [k |-> v.k, x |-> v.x, n |-> v.n + i]
CodeV(l)    == [k |-> "code", x |-> l.f, n |-> l.pc]
CodeOf(v)   == [f |-> v.x, pc |-> v.n]

\* The frames of the C stack: _tagha_module_start waiting for what it started,
\* _tagha_module_exec, and a C function called by either.
\*   osp0, csp0 and stk are history: the stack pointers when the start began, and the
\*   bytecode functions open in an interpreter loop, each with what it has to return to and
\*   the stack pointers when it was entered.
Opened      == [ret : Val, sp : Int, csp : Int]
Wait        == {"no", "extern", "native"}  \* what the loop waits for
StartFrame  == [k : {"start"}, cells : Nat, osp0 : Int, csp0 : Int]
ExecFrame   == [k : {"exec"}, ip : Loc, sp : Int, tf : Mod, wait : Wait, stk : Seq(Opened)]
NativeFrame == [k : {"native"}, fn : Native, arg : Val, left : Nat]
Frame       == StartFrame \cup ExecFrame \cup NativeFrame

ASSUME ConstAssumption ==
  /\ Vm \in Mod /\ NIL \notin Mod \cup Func \cup Native
  /\ Table \in [Mod -> Seq(Item)]
  /\ Programs \subseteq [Func -> Seq(Instr)]
  /\ \A e \in Exports : e[1] \in DOMAIN Table[Vm] /\ e[2] \in Nat
  /\ Throws \subseteq Native /\ Invokes \subseteq Native
  /\ OpCells \in Nat /\ CallCells \in Nat
  /\ MaxArgs \in Nat /\ MaxCalls \in Nat

VARIABLES
  code,    \* the bytecode, fixed when the modules are loaded
  cstack,  \* the C stack, a sequence of frames
  mem,     \* contents of the cells
  osp,     \* vm->osp: operand stack pointer as the C code outside the loop sees it
  csp,     \* vm->csp: call stack pointer
  lr,      \* vm->lr: link register
  cond,    \* vm->cond: outcome of the last comparison
  tabs,    \* module whose tables vm->funcs and vm->vars point to
  err,     \* vm->err
  calls    \* calls the host has made

vars == <<code, cstack, mem, osp, csp, lr, cond, tabs, err, calls>>

Init ==
  /\ code \in Programs
  /\ cstack = << >>
  /\ mem = [c \in Cell |-> Data]
  /\ osp = Top
  /\ csp = 0
  /\ lr = NilV
  /\ cond = FALSE
  /\ tabs = Vm
  /\ err = "None"
  /\ calls = 0
----------------------------------------------------------------------------
(* The running frame and its instruction.                                  *)

Depth   == Len(cstack)
Running == cstack[Depth]
Under   == SubSeq(cstack, 1, Depth - 1)

Executing == Depth > 0 /\ Running.k = "exec" /\ Running.wait = "no"
Instruction == code[Running.ip.f][Running.ip.pc]
At(op) ==
  /\ Executing
  /\ Running.ip.pc \in DOMAIN code[Running.ip.f]
  /\ Instruction.op = op

NextIp     == [Running.ip EXCEPT !.pc = @ + 1]
Entry(f)   == [f |-> f, pc |-> 1]
Open(ret, sp, c) == [ret |-> ret, sp |-> sp, csp |-> c]
IsReg(r)   == Running.sp + r \in Cell
Reg(r)     == mem[Running.sp + r]
SetReg(r, v) == mem' = [mem EXCEPT ![Running.sp + r] = v]

\* The running loop goes on at ip with operand stack pointer sp and open functions stk.
Resume(ip, sp, stk) ==
  cstack' = [cstack EXCEPT ![Depth] = [@ EXCEPT !.ip = ip, !.sp = sp, !.stk = stk]]
Advance == Resume(NextIp, Running.sp, Running.stk)

\* exec_halt: the loop writes its stack pointer back and returns to its C caller.
Halt(sp) ==
  /\ cstack' = Under
  /\ osp' = sp
Fail(e) == err' = e /\ Halt(Running.sp)

PushLr == csp \in Cell /\ mem' = [mem EXCEPT ![csp] = lr] /\ csp' = csp + 1
PopLr  == csp - 1 \in Cell /\ lr' = mem[csp - 1] /\ csp' = csp - 1

\* redux never moves the pointer past the top of the stack.
Reduced(sp, n) == IF sp + n > Top THEN Top ELSE sp + n

\* exec_ret to the address in v, with the stack pointer at sp.
ReturnVia(v, sp) ==
  \/ v.k = "nil" /\ Halt(sp)
  \/ /\ v.k = "code"
     /\ Resume(CodeOf(v), sp, SubSeq(Running.stk, 1, Len(Running.stk) - 1))
     /\ UNCHANGED osp
----------------------------------------------------------------------------
(* Frame instructions.                                                     *)

\* Faulty: one cell too many, and no check at all.
CanAllocOffByOne(n) == Running.sp - n >= OpBase - 1
CanAllocUnchecked(n) == Running.sp - n \in Int

\* exec_alloc
CanAlloc(n) == Running.sp - n >= OpBase
Alloc ==
  /\ At("alloc")
  /\ \/ /\ ~CanAlloc(Instruction.a)
        /\ Fail("OpStackOF")
     \/ /\ CanAlloc(Instruction.a)
        /\ Resume(NextIp, Running.sp - Instruction.a, Running.stk)
        /\ UNCHANGED <<err, osp>>
  /\ UNCHANGED <<code, mem, csp, lr, cond, tabs, calls>>

\* exec_enter: the link register is saved before the room is checked.
Enter ==
  /\ At("enter")
  /\ PushLr
  /\ \/ /\ ~CanAlloc(Instruction.a)
        /\ Fail("OpStackOF")
     \/ /\ CanAlloc(Instruction.a)
        /\ Resume(NextIp, Running.sp - Instruction.a, Running.stk)
        /\ UNCHANGED <<err, osp>>
  /\ UNCHANGED <<code, lr, cond, tabs, calls>>

Redux ==
  /\ At("redux")
  /\ Resume(NextIp, Reduced(Running.sp, Instruction.a), Running.stk)
  /\ UNCHANGED <<code, mem, osp, csp, lr, cond, tabs, err, calls>>

SaveLr ==
  /\ At("pushlr")
  /\ PushLr
  /\ Advance
  /\ UNCHANGED <<code, osp, lr, cond, tabs, err, calls>>

LoadLr ==
  /\ At("poplr")
  /\ PopLr
  /\ Advance
  /\ UNCHANGED <<code, mem, osp, cond, tabs, err, calls>>

Ret ==
  /\ At("ret")
  /\ ReturnVia(lr, Running.sp)
  /\ UNCHANGED <<code, mem, csp, lr, cond, tabs, err, calls>>

Remit ==
  /\ At("remit")
  /\ ReturnVia(lr, Reduced(Running.sp, Instruction.a))
  /\ UNCHANGED <<code, mem, csp, lr, cond, tabs, err, calls>>

Restore ==
  /\ At("restore")
  /\ PopLr
  /\ ReturnVia(lr', Running.sp)
  /\ UNCHANGED <<code, mem, cond, tabs, err, calls>>

Leave ==
  /\ At("leave")
  /\ PopLr
  /\ ReturnVia(lr', Reduced(Running.sp, Instruction.a))
  /\ UNCHANGED <<code, mem, cond, tabs, err, calls>>

HaltOp ==
  /\ At("halt")
  /\ Halt(Running.sp)
  /\ UNCHANGED <<code, mem, csp, lr, cond, tabs, err, calls>>
----------------------------------------------------------------------------
(* Instructions on registers, memory and the comparison flag.              *)

\* The value an instruction leaves in register a.
Move ==
  /\ \/ /\ At("movi")
        /\ IsReg(Instruction.a)
        /\ SetReg(Instruction.a, IF Instruction.b = 0 THEN NilV ELSE Data)
     \/ /\ At("mov")
        /\ IsReg(Instruction.a) /\ IsReg(Instruction.b)
        /\ SetReg(Instruction.a, Reg(Instruction.b))
     \/ /\ At("ldvar")
        /\ IsReg(Instruction.a)
        /\ SetReg(Instruction.a, VarV(Running.tf))
     \/ /\ At("ldfn")
        /\ IsReg(Instruction.a) /\ Instruction.b \in DOMAIN Table[Running.tf]
        /\ SetReg(Instruction.a, FnV(Running.tf, Instruction.b))
     \/ /\ At("lra")
        /\ IsReg(Instruction.a)
        /\ SetReg(Instruction.a, PtrV(Running.sp + Instruction.b))
     \/ /\ At("lea")
        /\ IsReg(Instruction.a) /\ IsReg(Instruction.b)
        /\ SetReg(Instruction.a, Offset(Reg(Instruction.b), Instruction.c))
  /\ Advance
  /\ UNCHANGED <<code, osp, csp, lr, cond, tabs, err, calls>>

\* What an instruction computes from data: null or not.
Result == {NilV, Data}

\* Arithmetic, bitwise and floating point instructions: two registers, or one.  The
\* program divides by nothing that is zero, and adds to pointers with lea only.
Compute ==
  /\ At("alu")
  /\ IsReg(Instruction.a) /\ IsReg(Instruction.b)
  /\ \E v \in Result : SetReg(Instruction.a, v)
  /\ Advance
  /\ UNCHANGED <<code, osp, csp, lr, cond, tabs, err, calls>>

\* setc, neg, bit_not and the conversions.
Convert ==
  /\ At("alu1")
  /\ IsReg(Instruction.a)
  /\ \E v \in Result : SetReg(Instruction.a, v)
  /\ Advance
  /\ UNCHANGED <<code, osp, csp, lr, cond, tabs, err, calls>>

\* The bounds check of the memory instructions: the segment is that of the module that runs,
\* whose variables and stacks it holds, also in functions of other modules.  Addresses of its
\* heap and symbol tables are left out; a program stays inside the variables it names.
InSegment(p) == \/ p.k = "ptr" /\ p.n < Top
                \/ p.k = "var" /\ p.x = Vm

\* What is read at p: a cell, or data from a part of one or from a variable.
ReadAt(p) == IF Instruction.op = "ld8" /\ p.k = "ptr" THEN {mem[p.n]} ELSE Result

Load ==
  /\ At("ld8") \/ At("ld")
  /\ IsReg(Instruction.a) /\ IsReg(Instruction.b)
  /\ LET p == Offset(Reg(Instruction.b), Instruction.c) IN
       \/ ~InSegment(p) /\ Fail("BadPtr") /\ UNCHANGED mem
       \/ /\ InSegment(p) /\ (p.k = "ptr" => p.n \in Cell)
          /\ \E v \in ReadAt(p) : SetReg(Instruction.a, v)
          /\ Advance
          /\ UNCHANGED <<err, osp>>
  /\ UNCHANGED <<code, csp, lr, cond, tabs, calls>>

\* What is left at p by writing v: all of it, or data if a part of it was written.
Left(v) == IF Instruction.op = "st8" THEN {v} ELSE Result

\* A program keeps only data in variables.
Store ==
  /\ At("st8") \/ At("st")
  /\ IsReg(Instruction.a) /\ IsReg(Instruction.b)
  /\ LET p == Offset(Reg(Instruction.a), Instruction.c) IN
       \/ ~InSegment(p) /\ Fail("BadPtr") /\ UNCHANGED mem
       \/ /\ InSegment(p) /\ p.k = "ptr" /\ p.n \in Cell
          /\ \E v \in Left(Reg(Instruction.b)) : mem' = [mem EXCEPT ![p.n] = v]
          /\ Advance
          /\ UNCHANGED <<err, osp>>
       \/ /\ InSegment(p) /\ p.k = "var" /\ (Instruction.op = "st8" => Reg(Instruction.b) \in Result)
          /\ Advance
          /\ UNCHANGED <<err, osp, mem>>
  /\ UNCHANGED <<code, csp, lr, cond, tabs, calls>>

\* Any comparison: which registers it compares is data, so either outcome is possible.
Compare ==
  /\ At("cmp")
  /\ cond' \in BOOLEAN
  /\ Advance
  /\ UNCHANGED <<code, mem, osp, csp, lr, tabs, err, calls>>

Jump ==
  /\ \/ At("nop")
     \/ At("jmp")
     \/ At("jz")
     \/ At("jnz")
  /\ LET taken == \/ Instruction.op = "jmp"
                  \/ Instruction.op = "jz" /\ ~cond
                  \/ Instruction.op = "jnz" /\ cond
         off   == IF taken THEN Instruction.b ELSE 0
     IN  Resume([NextIp EXCEPT !.pc = @ + off], Running.sp, Running.stk)
  /\ UNCHANGED <<code, mem, osp, csp, lr, cond, tabs, err, calls>>
----------------------------------------------------------------------------
(* exec_call and exec_callr.                                               *)

\* Faulty: the link register gets the address of the call and not the next one.
BranchToSelf(it) ==
  /\ lr' = CodeV(Running.ip)
  /\ Resume(Entry(it.item), Running.sp, Append(Running.stk, Open(CodeV(NextIp), Running.sp, csp)))
  /\ UNCHANGED <<code, mem, osp, csp, cond, tabs, err, calls>>

\* A bytecode function of the module itself: a jump that sets the link register.
Branch(it) ==
  /\ lr' = CodeV(NextIp)
  /\ Resume(Entry(it.item), Running.sp, Append(Running.stk, Open(CodeV(NextIp), Running.sp, csp)))
  /\ UNCHANGED <<code, mem, osp, csp, cond, tabs, err, calls>>

\* A function of another module: its tables replace the module's, and a nested loop
\* runs on the same stacks until it halts.
EnterExtern(it) ==
  /\ tabs' = it.owner
  /\ PushLr
  /\ lr' = NilV
  /\ osp' = Running.sp
  /\ cstack' = Append([cstack EXCEPT ![Depth] = [@ EXCEPT !.ip = NextIp, !.wait = "extern"]],
                      [k |-> "exec", ip |-> Entry(it.item), sp |-> Running.sp,
                       tf |-> it.owner, wait |-> "no",
                       stk |-> <<Open(NilV, Running.sp, csp')>>])
  /\ UNCHANGED <<code, cond, err, calls>>

\* A C function gets the registers from r1 up as its parameters.
EnterNative(it) ==
  /\ IsReg(0)
  /\ cstack' = Append([cstack EXCEPT ![Depth] = [@ EXCEPT !.ip = NextIp, !.wait = "native"]],
                      [k |-> "native", fn |-> it.item,
                       arg |-> IF IsReg(1) THEN Reg(1) ELSE Data, left |-> 1])
  /\ UNCHANGED <<code, mem, osp, csp, lr, cond, tabs, err, calls>>

CallFails(e) ==
  /\ Fail(e)
  /\ UNCHANGED <<code, mem, csp, lr, cond, tabs, calls>>

\* vm->err = flags: the flag bits of an unlinked function are the error codes.
FlagsAsError(it) == IF it.native THEN "BadNative" ELSE "BadExtern"

\* Faulty: an unlinked function is called like a linked one.
CallUnlinked ==
  /\ At("call")
  /\ Instruction.a \in DOMAIN Table[Running.tf]
  /\ LET it == Table[Running.tf][Instruction.a] IN
       \/ it.native /\ EnterNative(it)
       \/ ~it.native /\ it.extern /\ EnterExtern(it)
       \/ ~it.native /\ ~it.extern /\ Branch(it)

Call ==
  /\ At("call")
  /\ Instruction.a \in DOMAIN Table[Running.tf]
  /\ LET it == Table[Running.tf][Instruction.a] IN
       \/ (it.item = NIL \/ it.owner = NIL) /\ CallFails(FlagsAsError(it))
       \/ /\ it.item # NIL /\ it.owner # NIL
          /\ \/ it.native /\ EnterNative(it)
             \/ ~it.native /\ it.extern /\ EnterExtern(it)
             \/ ~it.native /\ ~it.extern /\ Branch(it)

IsItem(p) == p.x \in Mod /\ p.n \in DOMAIN Table[p.x]
Callr ==
  /\ At("callr")
  /\ IsReg(Instruction.a)
  /\ LET p == Reg(Instruction.a) IN
       \/ p.k = "nil" /\ CallFails("BadFunc")
       \/ /\ p.k = "fn"
          /\ IsItem(p)
          /\ LET it == Table[p.x][p.n] IN
               \/ it.native /\ it.item = NIL /\ CallFails("BadNative")
               \/ it.native /\ it.item # NIL /\ EnterNative(it)
               \/ ~it.native /\ it.owner = NIL /\ CallFails("BadExtern")
               \/ ~it.native /\ it.owner \notin {NIL, Vm} /\ EnterExtern(it)
               \/ ~it.native /\ it.owner = Vm /\ Branch(it)

\* Faulty: the caller's tables are not put back; the link register is left on the stack.
ExternReturnTables ==
  /\ Depth > 0 /\ Running.k = "exec" /\ Running.wait = "extern"
  /\ PopLr
  /\ cstack' = [cstack EXCEPT ![Depth] = [@ EXCEPT !.wait = "no", !.sp = osp]]
  /\ UNCHANGED <<code, mem, osp, cond, tabs, err, calls>>
ExternReturnLr ==
  /\ Depth > 0 /\ Running.k = "exec" /\ Running.wait = "extern"
  /\ cstack' = [cstack EXCEPT ![Depth] = [@ EXCEPT !.wait = "no", !.sp = osp]]
  /\ tabs' = Running.tf
  /\ UNCHANGED <<code, mem, osp, csp, lr, cond, err, calls>>

\* The rest of the caller's instruction, once the nested loop has halted.
ExternReturn ==
  /\ Depth > 0 /\ Running.k = "exec" /\ Running.wait = "extern"
  /\ PopLr
  /\ cstack' = [cstack EXCEPT ![Depth] = [@ EXCEPT !.wait = "no", !.sp = osp]]
  /\ tabs' = Running.tf
  /\ UNCHANGED <<code, mem, osp, cond, err, calls>>
----------------------------------------------------------------------------
(* Calls from C: the host's and a native's.                                *)

\* _tagha_module_start on item it with n arguments; cs is the C stack of its caller.
Start(cs, it, n) ==
  \/ /\ it.native
     /\ cstack' = cs \o <<[k |-> "start", cells |-> 0, osp0 |-> osp, csp0 |-> csp],
                          [k |-> "native", fn |-> it.item, arg |-> Data, left |-> 0]>>
     /\ UNCHANGED <<mem, osp, lr, err>>
  \/ /\ ~it.native /\ osp - (n + 1) < OpBase
     /\ err' = "OpStackOF"
     /\ cstack' = cs
     /\ UNCHANGED <<mem, osp, lr>>
  \/ /\ ~it.native /\ osp - (n + 1) >= OpBase
     /\ osp' = osp - (n + 1)
     /\ mem' = [c \in Cell |-> IF c \in osp' + 1 .. osp' + n THEN Data ELSE mem[c]]
     /\ lr' = NilV
     /\ cstack' = cs \o <<[k |-> "start", cells |-> n + 1, osp0 |-> osp, csp0 |-> csp],
                          [k |-> "exec", ip |-> Entry(it.item), sp |-> osp',
                           tf |-> tabs, wait |-> "no", stk |-> <<Open(NilV, osp', csp)>>]>>
     /\ UNCHANGED err

\* tagha_module_call and tagha_module_invoke refuse a function without code.
StartItem(cs, it, n) ==
  \/ /\ it.item = NIL
     /\ err' = "BadFunc"
     /\ cstack' = cs
     /\ UNCHANGED <<mem, osp, lr>>
  \/ it.item # NIL /\ Start(cs, it, n)

HostCall ==
  /\ Depth = 0 /\ calls < MaxCalls
  /\ calls' = calls + 1
  /\ \E e \in Exports : StartItem(cstack, Table[Vm][e[1]], e[2])
  /\ UNCHANGED <<code, csp, cond, tabs>>

\* tagha_module_call with a name that no function has.
HostCallUnknown ==
  /\ Depth = 0 /\ calls < MaxCalls
  /\ calls' = calls + 1
  /\ err' = "BadFunc"
  /\ UNCHANGED <<code, cstack, mem, osp, csp, lr, cond, tabs>>

\* Faulty: one cell more is given back than was taken.
StartReturnOffByOne ==
  /\ Depth > 0 /\ Running.k = "start"
  /\ cstack' = Under
  /\ osp' = osp + Running.cells + 1
  /\ UNCHANGED <<code, mem, csp, lr, cond, tabs, err, calls>>

\* _tagha_module_start takes its cells back and returns to its C caller.
StartReturn ==
  /\ Depth > 0 /\ Running.k = "start"
  /\ cstack' = Under
  /\ osp' = osp + Running.cells
  /\ UNCHANGED <<code, mem, csp, lr, cond, tabs, err, calls>>

InNative == Depth > 0 /\ Running.k = "native"

\* A native calls the function its first parameter points to.
NativeInvoke ==
  /\ InNative /\ Running.fn \in Invokes /\ Running.left > 0
  /\ Running.arg.k = "fn" /\ IsItem(Running.arg)
  /\ \E n \in 0 .. MaxArgs :
       StartItem([cstack EXCEPT ![Depth] = [Running EXCEPT !.left = @ - 1]],
                 Table[Running.arg.x][Running.arg.n], n)
  /\ UNCHANGED <<code, csp, cond, tabs, calls>>

\* tagha_module_throw_err
NativeThrow ==
  /\ InNative /\ Running.fn \in Throws /\ err = "None"
  /\ err' = "User"
  /\ UNCHANGED <<code, cstack, mem, osp, csp, lr, cond, tabs, calls>>

\* A native returns: to _tagha_module_start, or to the loop, which stores the result
\* in r0 and halts if there is an error, whoever raised it and when.
NativeReturn ==
  /\ InNative /\ Depth > 1
  /\ LET caller == cstack[Depth - 1] IN
       \/ caller.k = "start" /\ cstack' = Under /\ UNCHANGED <<mem, osp>>
       \/ /\ caller.k = "exec" /\ caller.sp \in Cell
          /\ mem' = [mem EXCEPT ![caller.sp] = Data]
          /\ \/ /\ err # "None"
                /\ cstack' = SubSeq(cstack, 1, Depth - 2)
                /\ osp' = caller.sp
             \/ /\ err = "None"
                /\ cstack' = [Under EXCEPT ![Depth - 1] = [@ EXCEPT !.wait = "no"]]
                /\ UNCHANGED osp
  /\ UNCHANGED <<code, csp, lr, cond, tabs, err, calls>>
----------------------------------------------------------------------------
FrameOp  == Alloc \/ Enter \/ Redux \/ SaveLr \/ LoadLr \/ Ret \/ Remit \/ Restore
            \/ Leave \/ HaltOp
DataOp   == Move \/ Compute \/ Convert \/ Load \/ Store \/ Compare \/ Jump
CallOp   == Call \/ Callr \/ ExternReturn
NativeOp == NativeInvoke \/ NativeThrow \/ NativeReturn
Machine  == FrameOp \/ DataOp \/ CallOp \/ NativeOp \/ StartReturn

\* The host is done; a state of the model, not of the program.
Finished == Depth = 0 /\ calls = MaxCalls /\ UNCHANGED vars

Next == HostCall \/ HostCallUnknown \/ Machine \/ Finished

Spec     == Init /\ [][Next]_vars
\* One thread runs the machine and nothing blocks it.
FairSpec == Spec /\ WF_vars(Machine)
----------------------------------------------------------------------------
(* Properties.                                                             *)

TypeOK ==
  /\ code \in Programs
  /\ cstack \in Seq(Frame)
  /\ mem \in [Cell -> Val]
  /\ osp \in Int /\ csp \in 0 .. Top
  /\ lr \in Val
  /\ cond \in BOOLEAN
  /\ tabs \in Mod
  /\ err \in Err
  /\ calls \in 0 .. MaxCalls

Execs == {d \in 1 .. Depth : cstack[d].k = "exec"}

\* Whatever the bytecode does, no loop's operand stack pointer, and not the one the
\* C code sees, leaves the operand stack at its lower end.
NeverBelowStack ==
  /\ osp >= OpBase
  /\ \A d \in Execs : cstack[d].sp >= OpBase

\* Until an error is raised both stack pointers stay inside their own stack: enough
\* operand stack checks stand in for the call stack, which has none.
StacksInBounds ==
  err = "None" =>
    /\ osp \in OpBase .. Top
    /\ \A d \in Execs : cstack[d].sp \in OpBase .. Top
    /\ csp \in 0 .. CallCells

\* The address a return instruction is about to use is the one after the call that
\* opened the function, however many natives, nested loops and callbacks came between;
\* null for the function the loop started with.
Expected == Running.stk[Len(Running.stk)].ret
ReturnsToCaller ==
  err = "None" =>
    /\ At("ret") \/ At("remit") => lr = Expected
    /\ At("leave") \/ At("restore") => csp > 0 /\ mem[csp - 1] = Expected

\* A loop resolves the indices in its code with the tables of the module that the
\* code belongs to, and vm->funcs agrees with the running loop's copy.
OwnerOf(f) == CHOOSE m \in Mod : \E i \in DOMAIN Table[m] :
                 Table[m][i].item = f /\ ~Table[m][i].extern
TablesMatch ==
  /\ \A d \in Execs : cstack[d].tf = OwnerOf(cstack[d].ip.f)
  /\ Executing => tabs = Running.tf

\* A call that C code makes into the machine gets cells below every register that
\* a suspended loop still has in use.
FramesDisjoint ==
  \A d \in Execs, s \in 1 .. Depth :
    s > d /\ cstack[s].k = "start" => cstack[s].osp0 <= cstack[d].sp

\* A call from C that raised no error gives back all the operand stack and call stack
\* cells taken on its behalf.
Balanced ==
  Depth > 0 /\ Running.k = "start" /\ err = "None" =>
    osp + Running.cells = Running.osp0 /\ csp = Running.csp0

\* Once an error is raised no instruction is executed any more, in any loop.
ErrorStopsScript == [][err # "None" /\ Executing => UNCHANGED vars]_vars

\* Every call the host makes comes back, even from a recursion that never ends of
\* itself: it runs out of operand stack.
HostCallReturns == (Depth > 0) ~> (Depth = 0)
=============================================================================
