--------------------------- MODULE TaghaVMProofs ---------------------------
(***************************************************************************)
(* Theorems about TaghaVM, for every program, every table and every size   *)
(* of the stacks.                                                          *)
(***************************************************************************)
EXTENDS TaghaVM, SequenceTheorems, TLAPS

\* The inductive invariant: types, with the bound on a loop's stack pointer as part
\* of what a frame is.
SafeFrame == {fr \in Frame : fr.k = "exec" => fr.sp >= OpBase}
StackInv  == TypeOK /\ cstack \in Seq(SafeFrame) /\ osp >= OpBase

LEMMA SizesOK == OpBase \in Nat /\ Top \in Nat /\ OpBase <= Top
  BY ConstAssumption DEF OpBase, Top, NodeCells

\* The running frame is a frame, and what is under it a C stack.
LEMMA RunningFrame ==
  ASSUME StackInv, Depth > 0
  PROVE  /\ Running \in SafeFrame
         /\ Depth \in 1 .. Len(cstack)
         /\ Under \in Seq(SafeFrame)
<1>1. Depth \in 1 .. Len(cstack)
  BY LenProperties DEF StackInv, Depth
<1>2. Running \in SafeFrame
  BY <1>1, ElementOfSeq DEF StackInv, Running
<1>3. Under \in Seq(SafeFrame)
  <2>1. \A i \in 1 .. Depth - 1 : cstack[i] \in SafeFrame
    BY <1>1, ElementOfSeq DEF StackInv, Depth
  <2>2. QED
    BY <1>1, <2>1, SubSeqProperties DEF Under
<1>4. QED
  BY <1>1, <1>2, <1>3

LEMMA ExecRunning ==
  ASSUME StackInv, Depth > 0, Running.k = "exec"
  PROVE  /\ Running \in ExecFrame
         /\ Running.ip \in Loc /\ Running.sp \in Int /\ Running.tf \in Mod
         /\ Running.stk \in Seq(Opened)
         /\ Running.sp >= OpBase
         /\ NextIp \in Loc
<1>1. Running \in ExecFrame /\ Running.sp >= OpBase
  BY RunningFrame DEF SafeFrame, Frame, ExecFrame, StartFrame, NativeFrame
<1>2. QED
  BY <1>1 DEF ExecFrame, NextIp, Loc

LEMMA InstructionType ==
  ASSUME StackInv, NEW op \in Op, At(op)
  PROVE  /\ Executing
         /\ Instruction \in Instr
         /\ Instruction.a \in Nat /\ Instruction.b \in Int /\ Instruction.c \in Int
<1>1. Running.ip \in Loc /\ Executing
  BY ExecRunning DEF At, Executing
<1>2. code \in [Func -> Seq(Instr)]
  BY ConstAssumption DEF StackInv, TypeOK
<1>3. code[Running.ip.f] \in Seq(Instr)
  BY <1>1, <1>2 DEF Loc
<1>4. Instruction \in Instr
  BY <1>1, <1>3, LenProperties, ElementOfSeq DEF At, Instruction
<1>5. QED
  BY <1>1, <1>4 DEF Instr

\* Going on in the running loop keeps the C stack well formed.
LEMMA ResumeKeeps ==
  ASSUME StackInv, Executing,
         NEW ip \in Loc, NEW sp \in Int, sp >= OpBase, NEW stk \in Seq(Opened),
         Resume(ip, sp, stk)
  PROVE  cstack' \in Seq(SafeFrame)
<1>1. Running \in ExecFrame
  BY ExecRunning DEF Executing
<1> DEFINE fr == [Running EXCEPT !.ip = ip, !.sp = sp, !.stk = stk]
<1>2. fr \in ExecFrame /\ fr.sp = sp
  BY <1>1 DEF ExecFrame
<1>3. fr \in SafeFrame
  BY <1>2 DEF SafeFrame, Frame
<1>4. cstack' = [cstack EXCEPT ![Depth] = fr]
  BY DEF Resume, Running
<1>5. QED
  BY <1>3, <1>4, RunningFrame, ExceptSeq DEF StackInv, Executing

LEMMA AdvanceKeeps ==
  ASSUME StackInv, Executing, Advance
  PROVE  cstack' \in Seq(SafeFrame)
  BY ExecRunning, ResumeKeeps DEF Advance, Executing

LEMMA HaltKeeps ==
  ASSUME StackInv, Executing, NEW sp \in Int, sp >= OpBase, Halt(sp)
  PROVE  cstack' \in Seq(SafeFrame) /\ osp' \in Int /\ osp' >= OpBase
  BY RunningFrame DEF Halt, Executing

LEMMA ReducedKeeps ==
  ASSUME NEW sp \in Int, sp >= OpBase, NEW n \in Nat
  PROVE  Reduced(sp, n) \in Int /\ Reduced(sp, n) >= OpBase
  BY SizesOK DEF Reduced

LEMMA ReturnKeeps ==
  ASSUME StackInv, Executing, NEW sp \in Int, sp >= OpBase, NEW v \in Val,
         ReturnVia(v, sp)
  PROVE  cstack' \in Seq(SafeFrame) /\ osp' \in Int /\ osp' >= OpBase
<1>1. CASE v.k = "nil" /\ Halt(sp)
  BY <1>1, HaltKeeps
<1>2. CASE v.k = "code" /\ UNCHANGED osp
           /\ Resume(CodeOf(v), sp, SubSeq(Running.stk, 1, Len(Running.stk) - 1))
  <2>1. CodeOf(v) \in Loc
    BY <1>2 DEF CodeOf, Loc, Val
  <2>2. Running.stk \in Seq(Opened)
    BY ExecRunning DEF Executing
  <2>3. SubSeq(Running.stk, 1, Len(Running.stk) - 1) \in Seq(Opened)
    <3>1. Len(Running.stk) \in Nat
      BY <2>2, LenProperties
    <3>2. \A i \in 1 .. Len(Running.stk) - 1 : Running.stk[i] \in Opened
      BY <2>2, <3>1, ElementOfSeq
    <3>3. QED
      BY <3>1, <3>2, SubSeqProperties
  <2>4. QED
    BY <1>2, <2>1, <2>3, ResumeKeeps DEF StackInv, TypeOK
<1>3. QED
  BY <1>1, <1>2 DEF ReturnVia

\* What a step must give back, besides the C stack, for the invariant to hold after it.
LEMMA Rebuild ==
  ASSUME code' \in Programs, cstack' \in Seq(SafeFrame), mem' \in [Cell -> Val],
         osp' \in Int, osp' >= OpBase, csp' \in 0 .. Top, lr' \in Val,
         cond' \in BOOLEAN, tabs' \in Mod, err' \in Err, calls' \in 0 .. MaxCalls
  PROVE  StackInv'
<1>1. cstack' \in Seq(Frame)
  BY SeqMonotonic DEF SafeFrame
<1>2. QED
  BY <1>1 DEF StackInv, TypeOK, Frame, SafeFrame, StartFrame, ExecFrame, NativeFrame,
              Opened, Wait, Loc, Val, Cell, Top, OpBase, NodeCells, Err

LEMMA Values == /\ NilV \in Val /\ Data \in Val
                /\ \A l \in Loc : CodeV(l) \in Val
                /\ \A m \in Mod, i \in Int : FnV(m, i) \in Val
                /\ \A c \in Int : PtrV(c) \in Val
                /\ \A m \in Mod : VarV(m) \in Val
  BY DEF NilV, Data, CodeV, FnV, PtrV, VarV, Val, Loc

LEMMA OpenType ==
  ASSUME NEW v \in Val, NEW sp \in Int, NEW c \in Int
  PROVE  Open(v, sp, c) \in Opened
  BY DEF Open, Opened

LEMMA PushKeeps ==
  ASSUME StackInv, PushLr
  PROVE  mem' \in [Cell -> Val] /\ csp' \in 0 .. Top
  BY SizesOK DEF PushLr, StackInv, TypeOK, Cell

LEMMA PopKeeps ==
  ASSUME StackInv, PopLr
  PROVE  lr' \in Val /\ csp' \in 0 .. Top
  BY SizesOK DEF PopLr, StackInv, TypeOK, Cell

LEMMA FailKeeps ==
  ASSUME StackInv, Executing, NEW e \in Err, Fail(e)
  PROVE  /\ cstack' \in Seq(SafeFrame) /\ osp' \in Int /\ osp' >= OpBase
         /\ err' \in Err
  BY HaltKeeps, ExecRunning DEF Fail, Executing

\* enter and alloc
LEMMA MakeRoomKeeps ==
  ASSUME StackInv, Executing, NEW n \in Nat, CanAlloc(n),
         Resume(NextIp, Running.sp - n, Running.stk)
  PROVE  cstack' \in Seq(SafeFrame)
  BY ExecRunning, ResumeKeeps, SizesOK DEF Executing, CanAlloc

LEMMA FrameOpKeeps == ASSUME StackInv, FrameOp PROVE StackInv'
<1> USE DEF StackInv, TypeOK
<1>1. CASE Alloc
  <2>1. Executing /\ Instruction.a \in Nat
    BY <1>1, InstructionType DEF Alloc, Op
  <2>2. CASE Fail("OpStackOF")
    BY <1>1, <2>1, <2>2, FailKeeps, Rebuild DEF Alloc, Err
  <2>3. CASE CanAlloc(Instruction.a) /\ UNCHANGED <<err, osp>>
               /\ Resume(NextIp, Running.sp - Instruction.a, Running.stk)
    BY <1>1, <2>1, <2>3, MakeRoomKeeps, Rebuild DEF Alloc
  <2>4. QED
    BY <1>1, <2>2, <2>3 DEF Alloc
<1>2. CASE Enter
  <2>1. Executing /\ Instruction.a \in Nat
    BY <1>2, InstructionType DEF Enter, Op
  <2>2. CASE Fail("OpStackOF")
    BY <1>2, <2>1, <2>2, FailKeeps, PushKeeps, Rebuild DEF Enter, Err
  <2>3. CASE CanAlloc(Instruction.a) /\ UNCHANGED <<err, osp>>
               /\ Resume(NextIp, Running.sp - Instruction.a, Running.stk)
    BY <1>2, <2>1, <2>3, MakeRoomKeeps, PushKeeps, Rebuild DEF Enter
  <2>4. QED
    BY <1>2, <2>2, <2>3 DEF Enter
<1>3. CASE Redux
  <2>1. Executing /\ Instruction.a \in Nat
    BY <1>3, InstructionType DEF Redux, Op
  <2>2. cstack' \in Seq(SafeFrame)
    BY <1>3, <2>1, ExecRunning, ReducedKeeps, ResumeKeeps DEF Redux, Executing
  <2>3. QED
    BY <1>3, <2>2, Rebuild DEF Redux
<1>4. CASE SaveLr
  <2>1. Executing
    BY <1>4, InstructionType DEF SaveLr, Op
  <2>2. QED
    BY <1>4, <2>1, AdvanceKeeps, PushKeeps, Rebuild DEF SaveLr
<1>5. CASE LoadLr
  <2>1. Executing
    BY <1>5, InstructionType DEF LoadLr, Op
  <2>2. QED
    BY <1>5, <2>1, AdvanceKeeps, PopKeeps, Rebuild DEF LoadLr
<1>6. CASE Ret
  <2>1. Executing
    BY <1>6, InstructionType DEF Ret, Op
  <2>2. cstack' \in Seq(SafeFrame) /\ osp' \in Int /\ osp' >= OpBase
    BY <1>6, <2>1, ExecRunning, ReturnKeeps DEF Ret, Executing
  <2>3. QED
    BY <1>6, <2>2, Rebuild DEF Ret
<1>7. CASE Remit
  <2>1. Executing /\ Instruction.a \in Nat
    BY <1>7, InstructionType DEF Remit, Op
  <2>2. cstack' \in Seq(SafeFrame) /\ osp' \in Int /\ osp' >= OpBase
    BY <1>7, <2>1, ExecRunning, ReducedKeeps, ReturnKeeps DEF Remit, Executing
  <2>3. QED
    BY <1>7, <2>2, Rebuild DEF Remit
<1>8. CASE Restore
  <2>1. Executing
    BY <1>8, InstructionType DEF Restore, Op
  <2>2. lr' \in Val /\ csp' \in 0 .. Top
    BY <1>8, PopKeeps DEF Restore
  <2>3. cstack' \in Seq(SafeFrame) /\ osp' \in Int /\ osp' >= OpBase
    BY <1>8, <2>1, <2>2, ExecRunning, ReturnKeeps DEF Restore, Executing
  <2>4. QED
    BY <1>8, <2>2, <2>3, Rebuild DEF Restore
<1>9. CASE Leave
  <2>1. Executing /\ Instruction.a \in Nat
    BY <1>9, InstructionType DEF Leave, Op
  <2>2. lr' \in Val /\ csp' \in 0 .. Top
    BY <1>9, PopKeeps DEF Leave
  <2>3. cstack' \in Seq(SafeFrame) /\ osp' \in Int /\ osp' >= OpBase
    BY <1>9, <2>1, <2>2, ExecRunning, ReducedKeeps, ReturnKeeps DEF Leave, Executing
  <2>4. QED
    BY <1>9, <2>2, <2>3, Rebuild DEF Leave
<1>10. CASE HaltOp
  <2>1. Executing
    BY <1>10, InstructionType DEF HaltOp, Op
  <2>2. cstack' \in Seq(SafeFrame) /\ osp' \in Int /\ osp' >= OpBase
    BY <1>10, <2>1, ExecRunning, HaltKeeps DEF HaltOp, Executing
  <2>3. QED
    BY <1>10, <2>2, Rebuild DEF HaltOp
<1>11. QED
  BY <1>1, <1>2, <1>3, <1>4, <1>5, <1>6, <1>7, <1>8, <1>9, <1>10 DEF FrameOp

LEMMA RegType ==
  ASSUME StackInv, NEW r \in Int, IsReg(r)
  PROVE  Reg(r) \in Val
  BY DEF StackInv, TypeOK, IsReg, Reg

LEMMA SetRegKeeps ==
  ASSUME StackInv, NEW r \in Int, IsReg(r), NEW v \in Val, SetReg(r, v)
  PROVE  mem' \in [Cell -> Val]
  BY DEF StackInv, TypeOK, IsReg, SetReg

LEMMA DataOpKeeps == ASSUME StackInv, DataOp PROVE StackInv'
<1> USE DEF StackInv, TypeOK
<1>1. CASE Move
  <2>1. PICK op \in {"movi", "mov", "ldvar", "ldfn", "lra", "lea"} : At(op)
    BY <1>1 DEF Move
  <2>2. /\ Executing /\ Instruction.a \in Nat
        /\ Instruction.b \in Int /\ Instruction.c \in Int
    BY <2>1, InstructionType DEF Op
  <2>3. Running.sp \in Int /\ Running.tf \in Mod
    BY <2>2, ExecRunning DEF Executing
  <2>4. mem' \in [Cell -> Val]
    <3>1. CASE IsReg(Instruction.a)
               /\ SetReg(Instruction.a, IF Instruction.b = 0 THEN NilV ELSE Data)
      BY <2>2, <3>1, Values, SetRegKeeps
    <3>2. CASE /\ IsReg(Instruction.a) /\ IsReg(Instruction.b)
               /\ SetReg(Instruction.a, Reg(Instruction.b))
      BY <2>2, <3>2, RegType, SetRegKeeps
    <3>3. CASE /\ IsReg(Instruction.a)
               /\ SetReg(Instruction.a, FnV(Running.tf, Instruction.b))
      BY <2>2, <2>3, <3>3, Values, SetRegKeeps
    <3>4. CASE /\ IsReg(Instruction.a)
               /\ SetReg(Instruction.a, PtrV(Running.sp + Instruction.b))
      BY <2>2, <2>3, <3>4, Values, SetRegKeeps
    <3>5. CASE /\ IsReg(Instruction.a) /\ IsReg(Instruction.b)
               /\ SetReg(Instruction.a, Offset(Reg(Instruction.b), Instruction.c))
      <4>1. Offset(Reg(Instruction.b), Instruction.c) \in Val
        BY <2>2, <3>5, RegType DEF Offset, Val
      <4>2. QED
        BY <2>2, <3>5, <4>1, SetRegKeeps
    <3>6. CASE IsReg(Instruction.a) /\ SetReg(Instruction.a, VarV(Running.tf))
      BY <2>2, <2>3, <3>6, Values, SetRegKeeps
    <3>7. QED
      BY <1>1, <3>1, <3>2, <3>3, <3>4, <3>5, <3>6 DEF Move
  <2>5. cstack' \in Seq(SafeFrame)
    BY <1>1, <2>2, AdvanceKeeps DEF Move
  <2>6. QED
    BY <1>1, <2>4, <2>5, Rebuild DEF Move
<1>2. CASE Load
  <2>1. Executing /\ Instruction.a \in Nat /\ Instruction.b \in Int
    <3>1. PICK op \in {"ld8", "ld"} : At(op)
      BY <1>2 DEF Load
    <3>2. QED
      BY <3>1, InstructionType DEF Op
  <2>2. CASE Fail("BadPtr") /\ UNCHANGED mem
    BY <1>2, <2>1, <2>2, FailKeeps, Rebuild DEF Load, Err
  <2> DEFINE p == Offset(Reg(Instruction.b), Instruction.c)
  <2>3. CASE /\ p.k = "ptr" => p.n \in Cell
             /\ \E v \in ReadAt(p) : SetReg(Instruction.a, v)
             /\ Advance /\ UNCHANGED <<err, osp>>
    <3>1. PICK v \in ReadAt(p) : SetReg(Instruction.a, v)
      BY <2>3
    <3>2. v \in Val
      BY <2>3, <3>1, Values DEF ReadAt, Result
    <3>3. mem' \in [Cell -> Val]
      BY <1>2, <2>1, <3>1, <3>2, SetRegKeeps DEF Load
    <3>4. QED
      BY <1>2, <2>1, <2>3, <3>3, AdvanceKeeps, Rebuild DEF Load
  <2>4. QED
    BY <1>2, <2>2, <2>3 DEF Load
<1>3. CASE Store
  <2>1. Executing /\ Instruction.a \in Nat /\ Instruction.b \in Int
    <3>1. PICK op \in {"st8", "st"} : At(op)
      BY <1>3 DEF Store
    <3>2. QED
      BY <3>1, InstructionType DEF Op
  <2>2. CASE Fail("BadPtr") /\ UNCHANGED mem
    BY <1>3, <2>1, <2>2, FailKeeps, Rebuild DEF Store, Err
  <2> DEFINE p == Offset(Reg(Instruction.a), Instruction.c)
  <2>3. CASE /\ p.n \in Cell
             /\ \E v \in Left(Reg(Instruction.b)) : mem' = [mem EXCEPT ![p.n] = v]
             /\ Advance /\ UNCHANGED <<err, osp>>
    <3>1. PICK v \in Left(Reg(Instruction.b)) : mem' = [mem EXCEPT ![p.n] = v]
      BY <2>3
    <3>2. v \in Val
      BY <1>3, <2>1, <3>1, RegType, Values DEF Store, Left, Result
    <3>3. mem' \in [Cell -> Val]
      BY <3>1, <3>2
    <3>4. QED
      BY <1>3, <2>1, <2>3, <3>3, AdvanceKeeps, Rebuild DEF Store
  <2>4. CASE Advance /\ UNCHANGED <<err, osp, mem>>
    BY <1>3, <2>1, <2>4, AdvanceKeeps, Rebuild DEF Store
  <2>5. QED
    BY <1>3, <2>2, <2>3, <2>4 DEF Store
<1>4. CASE Compare
  <2>1. Executing
    BY <1>4, InstructionType DEF Compare, Op
  <2>2. QED
    BY <1>4, <2>1, AdvanceKeeps, Rebuild DEF Compare
<1>5. CASE Jump
  <2>1. PICK op \in {"nop", "jmp", "jz", "jnz"} : At(op)
    BY <1>5 DEF Jump
  <2>2. Executing /\ Instruction.b \in Int
    BY <2>1, InstructionType DEF Op
  <2>3. PICK off \in {Instruction.b, 0} :
          Resume([NextIp EXCEPT !.pc = @ + off], Running.sp, Running.stk)
    BY <1>5 DEF Jump
  <2>4. [NextIp EXCEPT !.pc = @ + off] \in Loc
    BY <2>2, ExecRunning DEF Executing, Loc
  <2>5. cstack' \in Seq(SafeFrame)
    BY <2>2, <2>3, <2>4, ExecRunning, ResumeKeeps DEF Executing
  <2>6. QED
    BY <1>5, <2>5, Rebuild DEF Jump
<1>6. CASE Compute
  <2>1. Executing /\ Instruction.a \in Nat
    BY <1>6, InstructionType DEF Compute, Op
  <2>2. PICK v \in Result : SetReg(Instruction.a, v)
    BY <1>6 DEF Compute
  <2>3. mem' \in [Cell -> Val]
    BY <1>6, <2>1, <2>2, Values, SetRegKeeps DEF Compute, Result
  <2>4. QED
    BY <1>6, <2>1, <2>3, AdvanceKeeps, Rebuild DEF Compute
<1>7. CASE Convert
  <2>1. Executing /\ Instruction.a \in Nat
    BY <1>7, InstructionType DEF Convert, Op
  <2>2. PICK v \in Result : SetReg(Instruction.a, v)
    BY <1>7 DEF Convert
  <2>3. mem' \in [Cell -> Val]
    BY <1>7, <2>1, <2>2, Values, SetRegKeeps DEF Convert, Result
  <2>4. QED
    BY <1>7, <2>1, <2>3, AdvanceKeeps, Rebuild DEF Convert
<1>8. QED
  BY <1>1, <1>2, <1>3, <1>4, <1>5, <1>6, <1>7 DEF DataOp

\* Opening a nested loop, or a native, on top of a caller that waits.
LEMMA WaitKeeps ==
  ASSUME StackInv, Executing, NEW fr \in SafeFrame, NEW w \in Wait,
         cstack' = Append([cstack EXCEPT ![Depth] = [@ EXCEPT !.ip = NextIp, !.wait = w]], fr)
  PROVE  cstack' \in Seq(SafeFrame)
<1> DEFINE waiting == [Running EXCEPT !.ip = NextIp, !.wait = w]
<1>1. Running \in ExecFrame /\ NextIp \in Loc /\ Running.sp >= OpBase
  BY ExecRunning DEF Executing
<1>2. waiting \in SafeFrame
  BY <1>1 DEF ExecFrame, Wait, SafeFrame, Frame
<1>3. [cstack EXCEPT ![Depth] = waiting] \in Seq(SafeFrame)
  BY <1>2, RunningFrame, ExceptSeq DEF StackInv, Executing
<1>4. QED
  BY <1>3 DEF Running

LEMMA BranchKeeps ==
  ASSUME StackInv, Executing, NEW it \in Item, it.item \in Func, Branch(it)
  PROVE  StackInv'
<1>1. NextIp \in Loc /\ Running.sp \in Int /\ Running.sp >= OpBase /\ Running.stk \in Seq(Opened)
  BY ExecRunning DEF Executing
<1>2. Entry(it.item) \in Loc
  BY DEF Entry, Loc
<1>3. Append(Running.stk, Open(CodeV(NextIp), Running.sp, csp)) \in Seq(Opened)
  BY <1>1, OpenType, Values DEF StackInv, TypeOK
<1>4. cstack' \in Seq(SafeFrame)
  BY <1>1, <1>2, <1>3, ResumeKeeps DEF Branch
<1>5. lr' \in Val
  BY <1>1, Values DEF Branch
<1>6. QED
  BY <1>4, <1>5, Rebuild DEF Branch, StackInv, TypeOK

LEMMA EnterExternKeeps ==
  ASSUME StackInv, Executing, NEW it \in Item, it.item \in Func, it.owner \in Mod,
         EnterExtern(it)
  PROVE  StackInv'
<1> DEFINE fr == [k |-> "exec", ip |-> Entry(it.item), sp |-> Running.sp,
                  tf |-> it.owner, wait |-> "no",
                  stk |-> <<Open(NilV, Running.sp, csp')>>]
<1>1. Running.sp \in Int /\ Running.sp >= OpBase
  BY ExecRunning DEF Executing
<1>2. <<Open(NilV, Running.sp, csp')>> \in Seq(Opened)
  BY <1>1, OpenType, PushKeeps, Values DEF EnterExtern
<1>3. fr \in SafeFrame
  BY <1>1, <1>2 DEF Entry, Loc, SafeFrame, Frame, ExecFrame, Wait
<1>4. cstack' \in Seq(SafeFrame)
  BY <1>3, WaitKeeps DEF Wait, EnterExtern
<1>5. mem' \in [Cell -> Val] /\ csp' \in 0 .. Top
  BY PushKeeps DEF EnterExtern
<1>6. QED
  BY <1>1, <1>4, <1>5, Rebuild, Values DEF EnterExtern, StackInv, TypeOK

LEMMA EnterNativeKeeps ==
  ASSUME StackInv, Executing, NEW it \in Item, it.item \in Native, EnterNative(it)
  PROVE  StackInv'
<1> DEFINE fr == [k |-> "native", fn |-> it.item,
                  arg |-> IF IsReg(1) THEN Reg(1) ELSE Data, left |-> 1]
<1>1. fr \in SafeFrame
  BY RegType, Values DEF SafeFrame, Frame, NativeFrame
<1>2. cstack' \in Seq(SafeFrame)
  BY <1>1, WaitKeeps DEF Wait, EnterNative
<1>3. QED
  BY <1>2, Rebuild DEF EnterNative, StackInv, TypeOK

LEMMA CallFailsKeeps ==
  ASSUME StackInv, Executing, NEW e \in Err, CallFails(e)
  PROVE  StackInv'
  BY FailKeeps, Rebuild DEF CallFails, StackInv, TypeOK

LEMMA ItemType ==
  ASSUME NEW m \in Mod, NEW i \in DOMAIN Table[m]
  PROVE  Table[m][i] \in Item
  BY ConstAssumption, LenProperties, ElementOfSeq

LEMMA CallOpKeeps == ASSUME StackInv, CallOp PROVE StackInv'
<1>1. CASE Call
  <2> DEFINE it == Table[Running.tf][Instruction.a]
  <2>1. Executing
    BY <1>1, InstructionType DEF Call, Op
  <2>2. it \in Item
    BY <1>1, <2>1, ExecRunning, ItemType DEF Call, Executing
  <2>3. CASE CallFails(FlagsAsError(it))
    BY <2>1, <2>3, CallFailsKeeps DEF FlagsAsError, Err
  <2>4. CASE it.item # NIL /\ it.native /\ EnterNative(it)
    BY <2>1, <2>2, <2>4, EnterNativeKeeps DEF Item
  <2>5. CASE it.item # NIL /\ it.owner # NIL /\ ~it.native /\ EnterExtern(it)
    BY <2>1, <2>2, <2>5, EnterExternKeeps DEF Item
  <2>6. CASE it.item # NIL /\ ~it.native /\ Branch(it)
    BY <2>1, <2>2, <2>6, BranchKeeps DEF Item
  <2>7. QED
    BY <1>1, <2>3, <2>4, <2>5, <2>6 DEF Call
<1>2. CASE Callr
  <2> DEFINE p  == Reg(Instruction.a)
             it == Table[p.x][p.n]
  <2>1. Executing
    BY <1>2, InstructionType DEF Callr, Op
  <2>2. CASE CallFails("BadFunc")
    BY <2>1, <2>2, CallFailsKeeps DEF Err
  <2>3. CASE p.k = "fn" /\ IsItem(p)
    <3>1. it \in Item
      BY <2>3, ItemType DEF IsItem
    <3>2. CASE CallFails("BadNative") \/ CallFails("BadExtern")
      BY <2>1, <3>2, CallFailsKeeps DEF Err
    <3>3. CASE it.native /\ it.item # NIL /\ EnterNative(it)
      BY <2>1, <3>1, <3>3, EnterNativeKeeps DEF Item
    <3>4. CASE ~it.native /\ it.owner \notin {NIL, Vm} /\ EnterExtern(it)
      BY <2>1, <3>1, <3>4, EnterExternKeeps DEF Item
    <3>5. CASE ~it.native /\ it.owner = Vm /\ Branch(it)
      BY <2>1, <3>1, <3>5, BranchKeeps, ConstAssumption DEF Item
    <3>6. QED
      BY <1>2, <2>3, <3>2, <3>3, <3>4, <3>5 DEF Callr
  <2>4. QED
    BY <1>2, <2>2, <2>3 DEF Callr
<1>3. CASE ExternReturn
  <2> DEFINE back == [Running EXCEPT !.wait = "no", !.sp = osp]
  <2>1. Running \in ExecFrame /\ Running.tf \in Mod /\ Depth > 0
    BY <1>3, ExecRunning DEF ExternReturn
  <2>2. osp \in Int /\ osp >= OpBase
    BY DEF StackInv, TypeOK
  <2>3. back \in SafeFrame
    BY <2>1, <2>2 DEF ExecFrame, Wait, SafeFrame, Frame
  <2>4. cstack' \in Seq(SafeFrame)
    BY <1>3, <2>1, <2>3, RunningFrame, ExceptSeq DEF ExternReturn, Running, StackInv
  <2>5. QED
    BY <1>3, <2>1, <2>4, PopKeeps, Rebuild DEF ExternReturn, StackInv, TypeOK
<1>4. QED
  BY <1>1, <1>2, <1>3 DEF CallOp

LEMMA StartFrameSafe ==
  ASSUME StackInv, NEW n \in Nat
  PROVE  [k |-> "start", cells |-> n, osp0 |-> osp, csp0 |-> csp] \in SafeFrame
  BY SizesOK DEF StackInv, TypeOK, SafeFrame, Frame, StartFrame

LEMMA StartItemKeeps ==
  ASSUME StackInv, NEW cs \in Seq(SafeFrame), NEW it \in Item, NEW n \in Nat,
         StartItem(cs, it, n), UNCHANGED <<code, csp, cond, tabs>>,
         calls' \in 0 .. MaxCalls
  PROVE  StackInv'
<1> USE DEF StackInv, TypeOK
<1>1. CASE cstack' = cs /\ err' \in Err /\ UNCHANGED <<mem, osp, lr>>
  BY <1>1, Rebuild
<1>2. CASE /\ it.native /\ it.item # NIL
           /\ UNCHANGED <<mem, osp, lr, err>>
           /\ cstack' = cs \o <<[k |-> "start", cells |-> 0, osp0 |-> osp, csp0 |-> csp],
                       [k |-> "native", fn |-> it.item, arg |-> Data, left |-> 0]>>
  <2> DEFINE nat == [k |-> "native", fn |-> it.item, arg |-> Data, left |-> 0]
  <2>1. nat \in SafeFrame
    BY <1>2, Values DEF Item, SafeFrame, Frame, NativeFrame
  <2>2. cstack' \in Seq(SafeFrame)
    <3> DEFINE st == [k |-> "start", cells |-> 0, osp0 |-> osp, csp0 |-> csp]
    <3>1. st \in SafeFrame
      BY StartFrameSafe
    <3>2. <<st, nat>> \in Seq(SafeFrame)
      BY <2>1, <3>1
    <3>3. QED
      BY <1>2, <3>2, ConcatProperties
  <2>3. QED
    BY <1>2, <2>2, Rebuild
<1>3. CASE /\ ~it.native /\ it.item # NIL
           /\ osp - (n + 1) >= OpBase
           /\ osp' = osp - (n + 1)
           /\ mem' = [c \in Cell |-> IF c \in osp' + 1 .. osp' + n THEN Data ELSE mem[c]]
           /\ lr' = NilV
           /\ UNCHANGED err
           /\ cstack' = cs \o
                <<[k |-> "start", cells |-> n + 1, osp0 |-> osp, csp0 |-> csp],
                  [k |-> "exec", ip |-> Entry(it.item), sp |-> osp',
                   tf |-> tabs, wait |-> "no", stk |-> <<Open(NilV, osp', csp)>>]>>
  <2> DEFINE fr == [k |-> "exec", ip |-> Entry(it.item), sp |-> osp',
                    tf |-> tabs, wait |-> "no", stk |-> <<Open(NilV, osp', csp)>>]
  <2>1. osp' \in Int /\ osp' >= OpBase
    BY <1>3
  <2>2. <<Open(NilV, osp', csp)>> \in Seq(Opened)
    BY <2>1, OpenType, Values
  <2>3. fr \in SafeFrame
    BY <1>3, <2>1, <2>2 DEF Entry, Loc, Item, SafeFrame, Frame, ExecFrame, Wait
  <2>4. cstack' \in Seq(SafeFrame)
    <3> DEFINE st == [k |-> "start", cells |-> n + 1, osp0 |-> osp, csp0 |-> csp]
    <3>1. st \in SafeFrame
      BY StartFrameSafe
    <3>2. <<st, fr>> \in Seq(SafeFrame)
      BY <2>3, <3>1
    <3>3. QED
      BY <1>3, <3>2, ConcatProperties
  <2>5. mem' \in [Cell -> Val]
    BY <1>3, Values
  <2>6. QED
    BY <1>3, <2>1, <2>4, <2>5, Values, Rebuild
<1>4. QED
  BY <1>1, <1>2, <1>3 DEF StartItem, Start, Err

LEMMA NativeRunning ==
  ASSUME StackInv, InNative
  PROVE  Running \in NativeFrame
  BY RunningFrame DEF InNative, SafeFrame, Frame, ExecFrame, StartFrame, NativeFrame

LEMMA NativeOpKeeps == ASSUME StackInv, NativeOp PROVE StackInv'
<1>1. CASE NativeInvoke
  <2> DEFINE used == [Running EXCEPT !.left = @ - 1]
             cs   == [cstack EXCEPT ![Depth] = used]
  <2>1. Running \in NativeFrame /\ Running.left > 0 /\ Depth > 0
    BY <1>1, NativeRunning DEF NativeInvoke, InNative
  <2>2. used \in SafeFrame
    BY <2>1 DEF NativeFrame, SafeFrame, Frame
  <2>3. cs \in Seq(SafeFrame)
    BY <2>1, <2>2, RunningFrame, ExceptSeq DEF StackInv
  <2>4. Table[Running.arg.x][Running.arg.n] \in Item
    BY <1>1, ItemType DEF NativeInvoke, IsItem
  <2>5. PICK n \in 0 .. MaxArgs : StartItem(cs, Table[Running.arg.x][Running.arg.n], n)
    BY <1>1 DEF NativeInvoke
  <2>6. n \in Nat
    BY ConstAssumption
  <2>7. QED
    BY <1>1, <2>3, <2>4, <2>5, <2>6, StartItemKeeps DEF NativeInvoke, StackInv, TypeOK
<1>2. CASE NativeThrow
  BY <1>2, Rebuild DEF NativeThrow, StackInv, TypeOK, Err
<1>3. CASE NativeReturn
  <2> DEFINE caller == cstack[Depth - 1]
  <2>1. Depth > 0 /\ Under \in Seq(SafeFrame)
    BY <1>3, RunningFrame DEF NativeReturn, InNative
  <2>2. CASE cstack' = Under /\ UNCHANGED <<mem, osp>>
    BY <1>3, <2>1, <2>2, Rebuild DEF NativeReturn, StackInv, TypeOK
  <2>3. CASE /\ caller.k = "exec" /\ caller.sp \in Cell
             /\ mem' = [mem EXCEPT ![caller.sp] = Data]
    <3>1. mem' \in [Cell -> Val]
      BY <2>3, Values DEF StackInv, TypeOK
    <3>2. /\ Depth - 1 \in 1 .. Len(cstack) /\ Depth - 1 \in 1 .. Len(Under)
          /\ Under[Depth - 1] = caller
      BY <1>3, RunningFrame DEF NativeReturn, Under, StackInv, Depth
    <3>3. caller \in SafeFrame
      BY <3>2, ElementOfSeq DEF StackInv
    <3>4. caller \in ExecFrame /\ caller.sp >= OpBase /\ caller.sp \in Int
      BY <2>3, <3>3 DEF SafeFrame, Frame, ExecFrame, StartFrame, NativeFrame
    <3>5. CASE cstack' = SubSeq(cstack, 1, Depth - 2) /\ osp' = caller.sp
      <4>1. \A i \in 1 .. Depth - 2 : cstack[i] \in SafeFrame
        BY <3>2, ElementOfSeq DEF StackInv, Depth
      <4>2. Depth - 2 \in Int
        BY LenProperties DEF StackInv, Depth
      <4>3. cstack' \in Seq(SafeFrame)
        BY <3>5, <4>1, <4>2, SubSeqProperties
      <4>4. QED
        BY <1>3, <3>1, <3>4, <3>5, <4>3, Rebuild DEF NativeReturn, StackInv, TypeOK
    <3>6. CASE /\ cstack' = [Under EXCEPT ![Depth - 1] = [caller EXCEPT !.wait = "no"]]
               /\ UNCHANGED osp
      <4>1. [caller EXCEPT !.wait = "no"] \in SafeFrame
        BY <3>4 DEF ExecFrame, Wait, SafeFrame, Frame
      <4>2. cstack' \in Seq(SafeFrame)
        BY <2>1, <3>2, <3>6, <4>1, ExceptSeq
      <4>3. QED
        BY <1>3, <3>1, <3>6, <4>2, Rebuild DEF NativeReturn, StackInv, TypeOK
    <3>7. QED
      BY <1>3, <2>3, <3>2, <3>5, <3>6 DEF NativeReturn
  <2>4. QED
    BY <1>3, <2>2, <2>3 DEF NativeReturn
<1>4. QED
  BY <1>1, <1>2, <1>3 DEF NativeOp

LEMMA HostKeeps ==
  ASSUME StackInv, HostCall \/ HostCallUnknown \/ StartReturn \/ Finished
  PROVE  StackInv'
<1>1. CASE HostCall
  <2>1. PICK e \in Exports : StartItem(cstack, Table[Vm][e[1]], e[2])
    BY <1>1 DEF HostCall
  <2>2. Table[Vm][e[1]] \in Item /\ e[2] \in Nat
    BY ConstAssumption, ItemType
  <2>3. calls' \in 0 .. MaxCalls
    BY <1>1, ConstAssumption DEF HostCall, StackInv, TypeOK
  <2>4. QED
    BY <1>1, <2>1, <2>2, <2>3, StartItemKeeps DEF HostCall, StackInv
<1>2. CASE HostCallUnknown
  BY <1>2, Rebuild, ConstAssumption DEF HostCallUnknown, StackInv, TypeOK, Err
<1>3. CASE StartReturn
  <2>1. Running \in StartFrame /\ Under \in Seq(SafeFrame)
    BY <1>3, RunningFrame DEF StartReturn, SafeFrame, Frame, ExecFrame, StartFrame, NativeFrame
  <2>2. osp' \in Int /\ osp' >= OpBase
    BY <1>3, <2>1, SizesOK DEF StartReturn, StartFrame, StackInv, TypeOK
  <2>3. QED
    BY <1>3, <2>1, <2>2, Rebuild DEF StartReturn, StackInv, TypeOK
<1>4. CASE Finished
  BY <1>4, Rebuild DEF Finished, vars, StackInv, TypeOK
<1>5. QED
  BY <1>1, <1>2, <1>3, <1>4

\* The inductive invariant of the two stacks and of the frames of the C stack.
THEOREM Invariance == Spec => []StackInv
<1>1. Init => StackInv
  <2> SUFFICES ASSUME Init PROVE StackInv
    OBVIOUS
  <2>1. << >> \in Seq(SafeFrame) /\ << >> \in Seq(Frame)
    BY EmptySeq
  <2>2. mem \in [Cell -> Val] /\ lr \in Val /\ cstack \in Seq(Frame)
    BY <2>1, Values DEF Init
  <2>3. osp \in Int /\ csp \in 0 .. Top /\ calls \in 0 .. MaxCalls /\ tabs \in Mod
    BY SizesOK, ConstAssumption DEF Init
  <2>4. TypeOK
    BY <2>2, <2>3 DEF Init, TypeOK, Err
  <2>5. QED
    BY <2>1, <2>4, SizesOK DEF Init, StackInv
<1>2. StackInv /\ [Next]_vars => StackInv'
  <2> SUFFICES ASSUME StackInv, [Next]_vars PROVE StackInv'
    OBVIOUS
  <2>1. CASE Next
    BY <2>1, FrameOpKeeps, DataOpKeeps, CallOpKeeps, NativeOpKeeps, HostKeeps
       DEF Next, Machine
  <2>2. CASE UNCHANGED vars
    BY <2>2, Rebuild DEF vars, StackInv, TypeOK
  <2>3. QED
    BY <2>1, <2>2
<1>3. QED
  BY <1>1, <1>2, PTL DEF Spec

\* Types, of every state of every program.
THEOREM TypeCorrect == Spec => []TypeOK
<1>1. StackInv => TypeOK
  BY DEF StackInv
<1>2. QED
  BY <1>1, Invariance, PTL

\* No bytecode, however it allocates, calls or returns, moves the operand stack
\* pointer of any interpreter loop below the operand stack.
THEOREM OperandStackBound == Spec => []NeverBelowStack
<1>1. StackInv => NeverBelowStack
  <2> SUFFICES ASSUME StackInv, NEW d \in Execs PROVE cstack[d].sp >= OpBase
    BY DEF NeverBelowStack, StackInv
  <2>1. cstack[d] \in SafeFrame
    BY ElementOfSeq DEF StackInv, Execs, Depth
  <2>2. QED
    BY <2>1 DEF SafeFrame, Execs
<1>2. QED
  BY <1>1, Invariance, PTL
=============================================================================
