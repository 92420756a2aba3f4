----------------------------- MODULE MCMachine -----------------------------
(***************************************************************************)
(* Model checking TaghaVM and Vector.  TaghaVM takes the data of a         *)
(* function and the outcome of its comparisons to be anything, so nothing  *)
(* it says depends on what a vector instruction computes: a behaviour      *)
(* follows either the calls of the host into the machine, or the lanes of  *)
(* vector instructions on the registers of one function.                   *)
(***************************************************************************)
EXTENDS MCTaghaVM, Convention, Vector

VARIABLE follows
machine == <<vars, vvars, follows>>

\* Any float arithmetic will do: that of the host is not modelled.
MCFloatOf(op, w, a, b) ==
  CASE op = "vfadd" -> (a + 2 * b) % Modulo(w)
    [] op = "vfsub" -> (a + 3 * b) % Modulo(w)
    [] op = "vfmul" -> (2 * a + b) % Modulo(w)
    [] op = "vfdiv" -> (3 * a + b) % Modulo(w)
    [] op = "vfneg" -> Modulo(w) - 1 - a
MCFloatHolds(op, w, a, b) == IF op = "vflt" THEN a > b ELSE a >= b

\* Bytes that are all different in a register, equal registers, and small numbers.
MCContents == { [p \in 1 .. 12 |-> (p + p \div 4) % 4],
                [p \in 1 .. 12 |-> ((p \div 2) * 3) % 4],
                [p \in 1 .. 12 |-> IF p % 4 = 1 THEN p \div 4 + 1 ELSE IF p % 4 = 0 THEN 3 ELSE 0] }

\* The notes of a body: from each instruction to the next, as none jumps to another height.
NoteAfter(i, n) ==
  [height |-> CASE i.op \in {"alloc", "enter"} -> n.height + i.a
                [] i.op = "redux" -> n.height - i.a
                [] OTHER -> n.height,
   saved  |-> CASE i.op \in {"enter", "pushlr"} -> TRUE
                [] i.op = "poplr" -> FALSE
                [] OTHER -> n.saved]
Annotated(body) ==
  LET note[pc \in 1 .. Len(body)] == IF pc = 1 THEN Unframed ELSE NoteAfter(body[pc - 1], note[pc - 1])
  IN  note
MCNotes == [p \in MCPrograms |-> [fn \in MCFunc |-> Annotated(p[fn])]]

AnyOf(S) == CHOOSE s \in S : TRUE

MInit == \/ /\ follows = "calls" /\ Init
            /\ VInit /\ regs = AnyOf(Contents) /\ vcond = FALSE
         \/ /\ follows = "vectors" /\ VInit
            /\ Init /\ code = AnyOf(Programs)

Calls   == follows = "calls" /\ Next /\ UNCHANGED <<vvars, follows>>
Vectors == follows = "vectors" /\ VNext /\ UNCHANGED <<vars, follows>>
MNext   == Calls \/ Vectors

MSpec == MInit /\ [][MNext]_machine /\ WF_machine(Calls /\ Machine)
=============================================================================
