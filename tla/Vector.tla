------------------------------ MODULE Vector ------------------------------
(***************************************************************************)
(* The vector instructions of the interpreter (tagha.c:1285-1901).  They   *)
(* see the registers of the running function, and the cells above them, as *)
(* bytes, and take their lanes from a register on, vec_len of them.        *)
(*                                                                         *)
(* The compiler is told by restrict that the destination does not overlap  *)
(* the source, so it may do the lanes one by one or read several before it *)
(* writes any: a step does the next lanes, as many as it likes.  Operands  *)
(* that do overlap make a difference then.  The module is scaled down: a   *)
(* byte has BitsOfByte bits, a register CellBytes bytes.                   *)
(***************************************************************************)
EXTENDS Integers, Sequences, FiniteSets, FiniteSetsExt

CONSTANTS
  BitsOfByte,      \* bits of a byte
  CellBytes,       \* bytes of a register (union TaghaVal)
  Narrow,          \* element sizes that are less than a register's
  FloatNarrow,     \* bytes of float32_t; float64_t fills a register
  IntBytes,        \* bytes of int, to which narrower elements are promoted
  FloatsDefined,   \* are TAGHA_FLOAT32_DEFINED and TAGHA_FLOAT64_DEFINED defined
  FloatOf(_, _, _, _),     \* the host's float arithmetic: operation, width, operands
  FloatHolds(_, _, _, _),  \* the host's float comparisons
  Registers,       \* registers from vreg_osp to the end of the operand stack
  Contents,        \* what they may hold, sequences of bytes
  VecLens, ElemLens,       \* operands of setvlen and setelen
  MaxVector                \* bound on the instructions that are run

ASSUME VectorAssumption ==
  /\ {BitsOfByte, CellBytes, IntBytes, Registers} \subseteq Nat \ {0}
  /\ Narrow \subseteq 1 .. CellBytes - 1 /\ FloatNarrow \in Narrow
  /\ FloatsDefined \in BOOLEAN
  /\ Contents \subseteq [1 .. Registers * CellBytes -> 0 .. 2 ^ BitsOfByte - 1]
  /\ VecLens \subseteq Nat /\ ElemLens \subseteq Nat /\ MaxVector \in Nat

VARIABLES
  regs,      \* the bytes from vreg_osp up
  vec_len,   \* vm->vec_len
  elem_len,  \* vm->elem_len
  vcond,     \* vm->cond
  instr,     \* the instruction that runs or ran last, what it found, or NoInstr
  lane,      \* i, the lanes that are done
  cnt,       \* c, the lanes that satisfied the comparison
  step,      \* where the interpreter is
  ran        \* instructions run so far

vvars == <<regs, vec_len, elem_len, vcond, instr, lane, cnt, step, ran>>

NoInstr == [op |-> "none"]

VInit ==
  /\ regs \in Contents
  /\ vec_len = 0 /\ elem_len = 0
  /\ vcond \in BOOLEAN
  /\ instr = NoInstr /\ lane = 0 /\ cnt = 0
  /\ step = "dispatch" /\ ran = 0
----------------------------------------------------------------------------
(* Numbers in bytes, the low one first.                                    *)

ByteBase  == 2 ^ BitsOfByte
Modulo(w) == 2 ^ (BitsOfByte * w)
LastByte  == Registers * CellBytes

NumberAt(r, at, w) == MapThenSumSet(LAMBDA k : r[at + k + 1] * 2 ^ (BitsOfByte * k), 0 .. w - 1)
ByteOf(v, k)       == (v \div 2 ^ (BitsOfByte * k)) % ByteBase
AsSigned(v, w)     == IF 2 * v >= Modulo(w) THEN v - Modulo(w) ELSE v
Bit(v, i)          == (v \div 2 ^ i) % 2
Promoted(w)        == IF w < IntBytes THEN IntBytes ELSE w
----------------------------------------------------------------------------
(* The instructions.                                                       *)

Unary      == {"vneg", "vfneg", "vnot"}
FloatOps   == {"vfadd", "vfsub", "vfmul", "vfdiv", "vfneg"}
FloatTests == {"vflt", "vfle"}
Tests      == {"vilt", "vile", "vult", "vule"} \cup FloatTests
Arithmetic == {"vadd", "vsub", "vmul", "vdiv", "vmod", "vneg"} \cup FloatOps
              \cup {"vand", "vor", "vxor", "vsll", "vsrl", "vsra", "vnot"}
VectorOps  == Arithmetic \cup Tests \cup {"vmov", "vcmp"}

\* The result of float arithmetic is a float of the same width.
ASSUME FloatAssumption ==
  \A op \in FloatOps, w \in {FloatNarrow, CellBytes} :
    \A a, b \in 0 .. Modulo(w) - 1 : FloatOf(op, w, a, b) \in 0 .. Modulo(w) - 1

\* vmov and vcmp are a memcpy and a memcmp of vec_len * elem_len bytes.
Bytewise(op) == op \in {"vmov", "vcmp"}

Lanes(op) == IF Bytewise(op) THEN vec_len * elem_len ELSE vec_len

IntWidth(e)   == IF e \in Narrow THEN e ELSE CellBytes
FloatWidth(e) == IF e = FloatNarrow THEN e ELSE CellBytes
\* Faulty: an element size that is not valid is used as it is.
LaneWidthAnySize(op) == IF Bytewise(op) THEN 1 ELSE elem_len
LaneWidth(op) ==
  CASE Bytewise(op)                     -> 1
    [] op \in FloatOps \cup FloatTests  -> FloatWidth(elem_len)
    [] OTHER                            -> IntWidth(elem_len)

Operand(r, reg, i, w) == NumberAt(r, reg * CellBytes + i * w, w)

\* Integer arithmetic is unsigned and wraps at the width of the element.
IntOf(op, w, a, b) ==
  CASE op = "vadd" -> (a + b) % Modulo(w)
    [] op = "vsub" -> (a - b) % Modulo(w)
    [] op = "vmul" -> (a * b) % Modulo(w)
    [] op = "vdiv" -> a \div b
    [] op = "vmod" -> a % b
    [] op = "vneg" -> (-a) % Modulo(w)

PerBit(op, p, q) == CASE op = "vand" -> p * q
                      [] op = "vor"  -> p + q - p * q
                      [] op = "vxor" -> (p + q) % 2
BitwiseOf(op, w, a, b) ==
  MapThenSumSet(LAMBDA i : PerBit(op, Bit(a, i), Bit(b, i)) * 2 ^ i, 0 .. BitsOfByte * w - 1)

\* ~ is taken of the promoted element, then truncated.
NotOf(w, a) == (-a - 1) % Modulo(w)

\* A count as wide as the promoted element or wider is undefined: the processor takes it
\* modulo the width, or shifts everything out when it does several lanes at once.
Count(w, b, masked) ==
  LET width == BitsOfByte * Promoted(w)
  IN  IF masked THEN b % width ELSE IF b < width THEN b ELSE width
\* Faulty: the sign is not kept.
ShiftedUnsigned(op, w, a, n) == IF op = "vsll" THEN (a * 2 ^ n) % Modulo(w) ELSE a \div 2 ^ n
Shifted(op, w, a, n) ==
  CASE op = "vsll" -> (a * 2 ^ n) % Modulo(w)
    [] op = "vsrl" -> a \div 2 ^ n
    [] op = "vsra" -> (AsSigned(a, w) \div 2 ^ n) % Modulo(w)

LaneOf(op, w, a, b, masked) ==
  CASE op = "vmov"                     -> b
    [] op \in FloatOps                 -> IF FloatsDefined THEN FloatOf(op, w, a, b) ELSE a
    [] op \in {"vand", "vor", "vxor"}  -> BitwiseOf(op, w, a, b)
    [] op \in {"vsll", "vsrl", "vsra"} -> Shifted(op, w, a, Count(w, b, masked))
    [] op = "vnot"                     -> NotOf(w, a)
    [] OTHER                           -> IntOf(op, w, a, b)

IntHolds(op, w, a, b) ==
  CASE op = "vilt" -> AsSigned(a, w) < AsSigned(b, w)
    [] op = "vile" -> AsSigned(a, w) <= AsSigned(b, w)
    [] op = "vult" -> a < b
    [] op = "vule" -> a <= b
LaneHolds(op, w, a, b) ==
  IF op \in FloatTests THEN FloatHolds(op, w, a, b) ELSE IntHolds(op, w, a, b)
----------------------------------------------------------------------------
(* Steps of the interpreter.                                               *)

SetVlen ==
  /\ step = "dispatch" /\ ran < MaxVector
  /\ vec_len' \in VecLens
  /\ instr' = NoInstr
  /\ UNCHANGED <<regs, elem_len, vcond, lane, cnt, step, ran>>

SetElen ==
  /\ step = "dispatch" /\ ran < MaxVector
  /\ elem_len' \in ElemLens
  /\ instr' = NoInstr
  /\ UNCHANGED <<regs, vec_len, vcond, lane, cnt, step, ran>>

\* Bytecode keeps its vectors inside the operand stack: the interpreter checks nothing, and
\* what an instruction does beyond is undefined.
Fits(op, reg) ==
  reg * CellBytes + Lanes(op) * LaneWidth(op) <= LastByte

\* A float test of a build without floats leaves the condition alone.
Counting(op) == IF op \in FloatTests THEN FloatsDefined ELSE op \in Tests \cup {"vcmp"}

Fetch ==
  /\ step = "dispatch" /\ ran < MaxVector
  /\ \E op \in VectorOps, dst, src \in 0 .. Registers - 1 :
       /\ op \in Unary => src = dst
       /\ Fits(op, dst) /\ Fits(op, src)
       /\ instr' = [op |-> op, dst |-> dst, src |-> src, found |-> regs, cond |-> vcond]
  /\ step' = "lanes" /\ lane' = 0 /\ cnt' = 0 /\ ran' = ran + 1
  /\ UNCHANGED <<regs, vec_len, elem_len, vcond>>

InLanes(kinds) == step = "lanes" /\ instr.op \in kinds /\ lane < Lanes(instr.op)
DstLane(i) == Operand(regs, instr.dst, i, LaneWidth(instr.op))
SrcLane(i) == Operand(regs, instr.src, i, LaneWidth(instr.op))

\* Faulty: a lane is stored in a register of its own.
WrittenUnpacked(value, lo, hi) ==
  LET w  == LaneWidth(instr.op)
      at == instr.dst * CellBytes
  IN  [p \in 1 .. LastByte |->
         IF \E i \in lo .. hi : p - 1 \in at + i * CellBytes .. at + i * CellBytes + w - 1
         THEN ByteOf(value[(p - 1 - at) \div CellBytes], (p - 1 - at) % CellBytes)
         ELSE regs[p]]

\* The registers after lanes lo to hi of the instruction were set to value[lo], ...
Written(value, lo, hi) ==
  LET w  == LaneWidth(instr.op)
      at == instr.dst * CellBytes
  IN  [p \in 1 .. LastByte |->
         IF p - 1 \in at + lo * w .. at + (hi + 1) * w - 1
         THEN ByteOf(value[(p - 1 - at) \div w], (p - 1 - at) % w)
         ELSE regs[p]]

Dividing(op) == op \in {"vdiv", "vmod"}

\* The next k lanes are computed from what the registers hold before any is written.
ComputeLanes ==
  /\ InLanes(Arithmetic \cup {"vmov"})
  /\ \E k \in 1 .. Lanes(instr.op) - lane, masked \in BOOLEAN :
       LET next  == lane .. lane + k - 1
           value == [i \in next |-> LaneOf(instr.op, LaneWidth(instr.op), DstLane(i), SrcLane(i), masked)]
       IN  /\ Dividing(instr.op) => \A i \in next : SrcLane(i) # 0
           /\ regs' = Written(value, lane, lane + k - 1)
           /\ lane' = lane + k
  /\ UNCHANGED <<vec_len, elem_len, vcond, instr, cnt, step, ran>>

\* A division by zero kills the process.
DivideByZero ==
  /\ InLanes({"vdiv", "vmod"})
  /\ SrcLane(lane) = 0
  /\ step' = "killed"
  /\ UNCHANGED <<regs, vec_len, elem_len, vcond, instr, lane, cnt, ran>>

TestLane ==
  /\ InLanes(Tests)
  /\ cnt' = IF Counting(instr.op) /\ LaneHolds(instr.op, LaneWidth(instr.op), DstLane(lane), SrcLane(lane))
            THEN cnt + 1 ELSE cnt
  /\ lane' = lane + 1
  /\ UNCHANGED <<regs, vec_len, elem_len, vcond, instr, step, ran>>

\* memcmp
CompareBytes ==
  /\ InLanes({"vcmp"})
  /\ lane' = Lanes("vcmp")
  /\ cnt' = Cardinality({ i \in 0 .. Lanes("vcmp") - 1 : DstLane(i) = SrcLane(i) })
  /\ UNCHANGED <<regs, vec_len, elem_len, vcond, instr, step, ran>>

\* Faulty: the condition of an empty vector is that a lane satisfied the comparison.
EndLanesAny ==
  /\ step = "lanes" /\ lane = Lanes(instr.op)
  /\ step' = "dispatch"
  /\ vcond' = IF Counting(instr.op) THEN cnt > 0 ELSE vcond
  /\ UNCHANGED <<regs, vec_len, elem_len, instr, lane, cnt, ran>>

\* The loop ends; a comparison sets the condition.
EndLanes ==
  /\ step = "lanes" /\ lane = Lanes(instr.op)
  /\ step' = "dispatch"
  /\ vcond' = IF Counting(instr.op) THEN cnt = Lanes(instr.op) ELSE vcond
  /\ UNCHANGED <<regs, vec_len, elem_len, instr, lane, cnt, ran>>

VectorStep == SetVlen \/ SetElen \/ Fetch \/ ComputeLanes \/ DivideByZero
              \/ TestLane \/ CompareBytes \/ EndLanes

\* The process is dead, or has run the instructions the bound allows.
AtEnd    == step = "killed" \/ (step = "dispatch" /\ ran = MaxVector)
VStopped == AtEnd /\ UNCHANGED vvars

VNext == VectorStep \/ VStopped
VSpec == VInit /\ [][VNext]_vvars
----------------------------------------------------------------------------
(* Properties.  ISA.md promises that an instruction on vectors does what    *)
(* the one on registers does to each element.                               *)

Done == step = "dispatch" /\ instr # NoInstr

\* The first byte of an operand, and its bytes.
FirstByte(reg) == reg * CellBytes + 1
Extent(op, reg) == FirstByte(reg) .. FirstByte(reg) + Lanes(op) * LaneWidth(op) - 1

\* No restrict promise is broken: the operands are one vector or do not overlap.
OperandsApart ==
  \/ instr.dst = instr.src
  \/ Extent(instr.op, instr.dst) \cap Extent(instr.op, instr.src) = {}

\* The element size of ISA.md: an invalid size is a word.
DocumentedWidth(op) ==
  LET valid == (IF op \in FloatOps \cup FloatTests THEN {FloatNarrow} ELSE Narrow) \cup {CellBytes}
  IN  IF elem_len \in valid THEN elem_len ELSE CellBytes
ValidSize == elem_len \in Narrow \cup {CellBytes}

\* What the result x of an integer instruction on a and b of w bytes must satisfy.
Meets(op, w, x, a, b) ==
  LET M == Modulo(w)
      s == AsSigned(a, w)
  IN
  CASE op = "vmov" -> x = b
    [] op = "vadd" -> (x - a - b) % M = 0
    [] op = "vsub" -> (x + b - a) % M = 0
    [] op = "vmul" -> (x - a * b) % M = 0
    [] op = "vdiv" -> x * b <= a /\ a < (x + 1) * b
    [] op = "vmod" -> x < b /\ \E q \in 0 .. a : a = q * b + x
    [] op = "vneg" -> (x + a) % M = 0
    [] op = "vnot" -> x + a = M - 1
    [] op \in {"vand", "vor", "vxor"} ->
         \A i \in 0 .. BitsOfByte * w - 1 :
           Bit(x, i) = 1 <=> (CASE op = "vand" -> Bit(a, i) = 1 /\ Bit(b, i) = 1
                                [] op = "vor"  -> Bit(a, i) = 1 \/ Bit(b, i) = 1
                                [] op = "vxor" -> Bit(a, i) # Bit(b, i))
    [] op \in {"vsll", "vsrl", "vsra"} ->
         b < BitsOfByte * w =>
           (CASE op = "vsll" -> (x - a * 2 ^ b) % M = 0
              [] op = "vsrl" -> x * 2 ^ b <= a /\ a < (x + 1) * 2 ^ b
              [] op = "vsra" -> AsSigned(x, w) * 2 ^ b <= s /\ s < (AsSigned(x, w) + 1) * 2 ^ b)
    [] OTHER -> x = IF FloatsDefined THEN FloatOf(op, w, a, b) ELSE a

\* The element before lane i of the destination and of the source, as found.
Before(reg, i) == Operand(instr.found, reg, i, DocumentedWidth(instr.op))

\* Every element of the result is what the operation means for those found.
Computes ==
  LET w == DocumentedWidth(instr.op) IN
  \A i \in 0 .. vec_len - 1 :
    Meets(instr.op, w, Operand(regs, instr.dst, i, w), Before(instr.dst, i), Before(instr.src, i))

\* The condition holds when the comparison does for every element, so for no element at all.
Compares ==
  LET w == DocumentedWidth(instr.op)
      Each(P(_, _)) == \A i \in 0 .. vec_len - 1 : P(Before(instr.dst, i), Before(instr.src, i))
      Half == Modulo(w) \div 2
      Flip(v) == (v + Half) % Modulo(w)
  IN
  vcond =
    CASE instr.op = "vcmp" -> Each(LAMBDA x, y : x = y)
      [] instr.op = "vult" -> Each(LAMBDA x, y : x < y)
      [] instr.op = "vule" -> Each(LAMBDA x, y : x <= y)
      [] instr.op = "vilt" -> Each(LAMBDA x, y : Flip(x) < Flip(y))
      [] instr.op = "vile" -> Each(LAMBDA x, y : Flip(x) <= Flip(y))
      [] instr.op \in FloatTests /\ FloatsDefined -> Each(LAMBDA x, y : FloatHolds(instr.op, w, x, y))
      [] OTHER -> instr.cond

\* An instruction on vectors does to every element, of the size the documentation gives,
\* what the operation means for the elements the registers held when it began, however
\* the compiler groups the lanes, if its operands do not overlap in part; a comparison
\* holds when it does for every element, and every other instruction leaves the condition
\* alone.  vmov and vcmp take the element size as it is set (tagha.c:1298, 1733), so it
\* must be a valid one.
LaneWise ==
  Done /\ (instr.op \in {"vmov", "vcmp"} => ValidSize) =>
    /\ instr.op \in Arithmetic \cup {"vmov"} /\ OperandsApart => Computes
    /\ Compares

\* At every moment of an instruction, whatever its operands, the bytes that are not of the
\* destination are those it found: below the register, above the last lane, and all of
\* them when it compares.
Contained ==
  instr # NoInstr =>
    \A p \in 1 .. LastByte :
      p \notin Extent(instr.op, instr.dst) \/ instr.op \in Tests \cup {"vcmp"}
        => regs[p] = instr.found[p]

=============================================================================
