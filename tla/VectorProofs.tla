---------------------------- MODULE VectorProofs ----------------------------
(***************************************************************************)
(* Proofs about Vector, for registers of any width and number, vectors of  *)
(* any length and any element size.                                        *)
(*                                                                         *)
(* First where an instruction may write, then that every lane it writes is *)
(* made of the lanes it found.  From PowerIsCount on: bytes are the digits *)
(* of the numbers they stand for, so what the code computes in C's types   *)
(* is what the operation means in an element of that size.                 *)
(***************************************************************************)
EXTENDS Vector, FiniteSetTheorems, NaturalsInduction, WellFoundedInduction, TLAPS

\* What an instruction must not have changed so far, and how far it is.
IInv ==
  /\ vec_len \in Nat /\ elem_len \in Nat
  /\ instr # NoInstr => /\ instr.op \in VectorOps /\ instr.dst \in Nat
                        /\ Contained
  /\ step = "lanes" => instr # NoInstr /\ lane \in Nat
  /\ step \in {"dispatch", "lanes", "killed"}

\* More lanes take more bytes.
LEMMA Product ==
  ASSUME NEW a \in Nat, NEW b \in Nat, a <= b, NEW w \in Nat
  PROVE  a * w \in Nat /\ a * w <= b * w
<1>1. PICK d \in Nat : b = a + d
  <2>1. b - a \in Nat /\ b = a + (b - a)
    OBVIOUS
  <2> QED BY <2>1
<1>2. b * w = a * w + d * w /\ d * w \in Nat /\ a * w \in Nat
  BY <1>1
<1> QED BY <1>2

\* Lanes and their width are numbers.
LEMMA LaneType ==
  ASSUME IInv, NEW op \in VectorOps
  PROVE  Lanes(op) \in Nat /\ LaneWidth(op) \in Nat
<1>1. Lanes(op) \in Nat
  BY DEF Lanes, IInv
<1>2. LaneWidth(op) \in Nat
  BY VectorAssumption DEF LaneWidth, FloatWidth, IntWidth, IInv
<1> QED BY <1>1, <1>2

\* Setting some lanes of a vector writes nowhere else.
LEMMA WrittenInside ==
  ASSUME IInv, instr # NoInstr, NEW k \in 1 .. Lanes(instr.op) - lane, lane \in Nat,
         NEW value, NEW p \in 1 .. LastByte, p \notin Extent(instr.op, instr.dst)
  PROVE  Written(value, lane, lane + k - 1)[p] = regs[p]
<1> DEFINE n == Lanes(instr.op)
           w == LaneWidth(instr.op)
           at == instr.dst * CellBytes
           hi == lane + k - 1
<1>1. n \in Nat /\ w \in Nat /\ at \in Nat /\ CellBytes \in Nat
  BY LaneType, VectorAssumption DEF IInv
<1>2. p \notin at + 1 .. at + 1 + n * w - 1
  BY DEF Extent, FirstByte
<1>3. Written(value, lane, hi)[p] =
        IF p - 1 \in at + lane * w .. at + (hi + 1) * w - 1
        THEN ByteOf(value[(p - 1 - at) \div w], (p - 1 - at) % w)
        ELSE regs[p]
  BY DEF Written
<1> HIDE DEF n, w, at
<1>4. k \in Nat /\ lane + k <= n /\ hi + 1 = lane + k /\ p \in Int
  <2>1. k \in 1 .. n - lane
    BY DEF n
  <2> QED BY <1>1, <2>1 DEF LastByte
<1>5. lane * w \in Nat /\ (hi + 1) * w <= n * w /\ (hi + 1) * w \in Nat /\ n * w \in Nat
  BY <1>1, <1>4, Product
<1>6. p - 1 \notin at + lane * w .. at + (hi + 1) * w - 1
  <2> DEFINE x == lane * w
             y == (hi + 1) * w
             z == n * w
  <2>1. x \in Nat /\ y <= z /\ y \in Nat /\ z \in Nat
    BY <1>5
  <2>2. p \notin at + 1 .. at + 1 + z - 1
    BY <1>2
  <2> HIDE DEF x, y, z
  <2>3. p - 1 \notin at + x .. at + y - 1
    BY <1>1, <1>4, <2>1, <2>2
  <2> QED BY <2>3 DEF x, y
<1> QED BY <1>3, <1>6

\* Setting the next lanes keeps to the destination.
LEMMA ComputeKeeps == ASSUME IInv, ComputeLanes PROVE IInv'
<1>1. /\ step = "lanes" /\ instr.op \in Arithmetic \cup {"vmov"} /\ lane \in Nat
      /\ instr # NoInstr /\ instr.op \in VectorOps
      /\ UNCHANGED <<vec_len, elem_len, instr, step>>
  BY DEF ComputeLanes, InLanes, IInv
<1>2. PICK k \in 1 .. Lanes(instr.op) - lane :
        /\ \E value : regs' = Written(value, lane, lane + k - 1)
        /\ lane' = lane + k
  BY DEF ComputeLanes
<1>3. lane' \in Nat
  BY <1>1, <1>2, LaneType
<1>4. instr.op \notin Tests \cup {"vcmp"}
  BY <1>1 DEF Arithmetic, Tests, FloatOps, FloatTests
<1>5. Extent(instr.op, instr.dst)' = Extent(instr.op, instr.dst)
  BY <1>1 DEF Extent, FirstByte, Lanes, LaneWidth, FloatWidth, IntWidth
<1>6. ASSUME NEW p \in 1 .. LastByte, p \notin Extent(instr.op, instr.dst)
      PROVE  regs'[p] = instr.found[p]
  <2>1. regs'[p] = regs[p]
    BY <1>1, <1>2, <1>6, WrittenInside
  <2>2. regs[p] = instr.found[p]
    BY <1>1, <1>6 DEF IInv, Contained
  <2> QED BY <2>1, <2>2
<1>7. Contained'
  BY <1>1, <1>4, <1>5, <1>6 DEF Contained
<1> QED BY <1>1, <1>3, <1>7 DEF IInv

\* Steps that write no register keep to it.
LEMMA OtherKeeps ==
  ASSUME IInv, UNCHANGED vvars \/ DivideByZero \/ TestLane \/ CompareBytes \/ EndLanes
  PROVE  IInv'
<1>1. UNCHANGED <<regs, vec_len, elem_len, instr>> /\ step' \in {step, "killed", "dispatch"}
  BY DEF vvars, DivideByZero, TestLane, CompareBytes, EndLanes
<1>2. Contained' = Contained
  BY <1>1 DEF Contained, Extent, FirstByte, Lanes, LaneWidth, FloatWidth, IntWidth
<1>3. step' = "lanes" => step = "lanes" /\ lane' \in Nat
  BY <1>1, LaneType
     DEF vvars, DivideByZero, TestLane, CompareBytes, EndLanes, InLanes, IInv, VectorOps, Tests
<1> QED BY <1>1, <1>2, <1>3 DEF IInv

\* Setting the lengths and fetching an instruction write no register.
LEMMA DispatchKeeps ==
  ASSUME IInv, SetVlen \/ SetElen \/ Fetch
  PROVE  IInv'
<1>1. CASE SetVlen \/ SetElen
  BY <1>1, VectorAssumption DEF SetVlen, SetElen, IInv
<1>2. CASE Fetch
  <2>1. PICK op \in VectorOps, dst \in 0 .. Registers - 1, src \in 0 .. Registers - 1 :
          instr' = [op |-> op, dst |-> dst, src |-> src, found |-> regs, cond |-> vcond]
    BY <1>2 DEF Fetch
  <2>2. instr'.op \in VectorOps /\ instr'.dst \in Nat /\ instr'.found = regs' /\ lane' \in Nat
    BY <1>2, <2>1, VectorAssumption DEF Fetch
  <2>3. instr' # NoInstr
    <3>1. NoInstr.op = "none" /\ "none" \notin VectorOps
      BY DEF NoInstr, VectorOps, Arithmetic, FloatOps, Tests, FloatTests
    <3> QED BY <2>2, <3>1
  <2>4. Contained'
    BY <2>2 DEF Contained
  <2> QED BY <1>2, <2>2, <2>3, <2>4 DEF Fetch, IInv
<1> QED BY <1>1, <1>2

\* At no moment of an instruction on vectors, of any length and element size and however its
\* lanes are grouped, has it changed a byte outside its destination, or any when it compares.
THEOREM WritesContained == VSpec => []Contained
<1>1. VInit => IInv
  BY DEF VInit, IInv
<1>2. IInv /\ [VNext]_vvars => IInv'
  BY ComputeKeeps, OtherKeeps, DispatchKeeps DEF VNext, VectorStep, VStopped
<1>3. IInv => Contained
  BY DEF IInv, Contained
<1> QED BY <1>1, <1>2, <1>3, PTL DEF VSpec
----------------------------------------------------------------------------
(* What an instruction makes of each lane.                                 *)

\* Lane i of an operand when the instruction began.
Was(reg, i) == Operand(instr.found, reg, i, LaneWidth(instr.op))
\* Does lane i satisfy the comparison?
Holds(i) == IF instr.op = "vcmp" THEN Was(instr.dst, i) = Was(instr.src, i)
            ELSE LaneHolds(instr.op, LaneWidth(instr.op), Was(instr.dst, i), Was(instr.src, i))
\* Lane i of the destination is what the operation makes of the lanes as they were.
Meant(i, masked) == LaneOf(instr.op, LaneWidth(instr.op), Was(instr.dst, i), Was(instr.src, i), masked)
\* Byte k of lane i.
Place(i, k) == instr.dst * CellBytes + i * LaneWidth(instr.op) + k + 1
Set(i) == \E masked \in BOOLEAN :
            \A k \in 0 .. LaneWidth(instr.op) - 1 : regs[Place(i, k)] = ByteOf(Meant(i, masked), k)

\* An instruction that sets lanes, of operands that do not overlap in part.
Computing == instr.op \in Arithmetic \cup {"vmov"} /\ OperandsApart

\* The lanes that are done are set, the others are as they were; the lanes that satisfy the
\* comparison so far are counted.
LInv ==
  /\ IInv
  /\ instr # NoInstr =>
       /\ instr.src \in Nat /\ Fits(instr.op, instr.dst) /\ Fits(instr.op, instr.src)
       /\ step \in {"lanes", "dispatch"} => lane \in 0 .. Lanes(instr.op)
       /\ step = "lanes" => vcond = instr.cond
       /\ step = "dispatch" =>
            /\ lane = Lanes(instr.op)
            /\ vcond = IF Counting(instr.op) THEN \A i \in 0 .. lane - 1 : Holds(i) ELSE instr.cond
       /\ step = "lanes" /\ Computing =>
            \A p \in 1 .. LastByte :
              p >= FirstByte(instr.dst) + lane * LaneWidth(instr.op) => regs[p] = instr.found[p]
       /\ step \in {"lanes", "dispatch"} /\ Computing => \A i \in 0 .. lane - 1 : Set(i)
       /\ step = "lanes" /\ Counting(instr.op) =>
            cnt \in 0 .. lane /\ (cnt = lane <=> \A i \in 0 .. lane - 1 : Holds(i))

\* A number is made of its bytes alone.
LEMMA SameBytes ==
  ASSUME NEW r, NEW s, NEW a, NEW b, NEW w, \A k \in 0 .. w - 1 : r[a + k + 1] = s[b + k + 1]
  PROVE  NumberAt(r, a, w) = NumberAt(s, b, w)
<1> DEFINE S == 0 .. w - 1
           E(t, c, it, u) == IF u = {} THEN 0 ELSE LET x == CHOOSE y \in u : TRUE IN t[c + x + 1] * 2 ^ (BitsOfByte * x) + it[u \ {x}]
           P(it) == it = [u \in SUBSET S |-> E(r, a, it, u)]
           Q(it) == it = [u \in SUBSET S |-> E(s, b, it, u)]
<1>1. ASSUME NEW it, NEW u \in SUBSET S PROVE E(r, a, it, u) = E(s, b, it, u)
  <2>1. CASE u = {}
    BY <2>1
  <2>2. CASE u # {}
    <3>1. PICK x : x = CHOOSE y \in u : TRUE
      OBVIOUS
    <3>2. x \in u
      BY <2>2, <3>1
    <3>3. r[a + x + 1] = s[b + x + 1]
      BY <3>2
    <3> QED BY <3>1, <3>3
  <2> QED BY <2>1, <2>2
<1>2. \A it : P(it) <=> Q(it)
  <2> HIDE DEF E, S
  <2> QED BY <1>1
<1> HIDE DEF P, Q
<1>3. (CHOOSE it : P(it)) = (CHOOSE it : Q(it))
  BY <1>2, Zenon
<1>4. NumberAt(r, a, w) = (CHOOSE it : P(it))[S]
  BY DEF P, NumberAt, MapThenSumSet, MapThenFoldSet
<1>5. NumberAt(s, b, w) = (CHOOSE it : Q(it))[S]
  BY DEF Q, NumberAt, MapThenSumSet, MapThenFoldSet
<1> QED BY <1>3, <1>4, <1>5

\* The bytes of a lane lie in the operand, one lane behind the other.
LEMMA LanePlace ==
  ASSUME NEW at \in Nat, NEW n \in Nat, NEW w \in Nat, NEW i \in 0 .. n - 1, NEW k \in 0 .. w - 1
  PROVE  /\ i * w \in Nat /\ n * w \in Nat /\ (i + 1) * w <= n * w /\ (i + 1) * w = i * w + w
         /\ at + i * w + k + 1 \in at + 1 .. at + 1 + n * w - 1
<1>1. i * w \in Nat /\ n * w \in Nat /\ (i + 1) * w <= n * w
  BY Product
<1>2. (i + 1) * w = i * w + w
  OBVIOUS
<1>3. PICK x \in Nat, y \in Nat : x = i * w /\ y = n * w
  BY <1>1
<1>4. x + w <= y
  BY <1>1, <1>2, <1>3
<1>5. at + x + k + 1 \in at + 1 .. at + 1 + y - 1
  BY <1>4
<1> QED BY <1>1, <1>2, <1>3, <1>5

\* The place of a byte gives its lane and its place in the lane back.
LEMMA LaneOfByte ==
  ASSUME NEW w \in Nat, NEW i \in Nat, NEW k \in 0 .. w - 1
  PROVE  (i * w + k) \div w = i /\ (i * w + k) % w = k
OBVIOUS

\* Lanes that are not written yet, of either operand, are those found.
LEMMA LaneFound ==
  ASSUME LInv, instr # NoInstr, step = "lanes", Computing, NEW i \in lane .. Lanes(instr.op) - 1
  PROVE  DstLane(i) = Was(instr.dst, i) /\ SrcLane(i) = Was(instr.src, i)
<1> DEFINE n == Lanes(instr.op)
           w == LaneWidth(instr.op)
           at == instr.dst * CellBytes
           fr == instr.src * CellBytes
           L == LastByte
<1>1. n \in Nat /\ w \in Nat /\ at \in Nat /\ fr \in Nat /\ lane \in Nat /\ L \in Nat /\ i \in 0 .. n - 1
  <2>1. n \in Nat /\ w \in Nat /\ lane \in Nat /\ instr.dst \in Nat /\ instr.src \in Nat
    BY LaneType DEF LInv, IInv
  <2>2. CellBytes \in Nat /\ Registers \in Nat
    BY VectorAssumption
  <2> QED BY <2>1, <2>2 DEF LastByte
<1>2. at + n * w <= L /\ fr + n * w <= L
  BY DEF LInv, Fits
<1>3. \A p \in 1 .. L : p >= at + 1 + lane * w => regs[p] = instr.found[p]
  BY DEF LInv, FirstByte
<1>4. \A p \in 1 .. L : p \notin at + 1 .. at + 1 + n * w - 1 => regs[p] = instr.found[p]
  BY DEF LInv, IInv, Contained, Extent, FirstByte
<1>5. \/ at = fr
      \/ (at + 1 .. at + 1 + n * w - 1) \cap (fr + 1 .. fr + 1 + n * w - 1) = {}
  BY DEF Computing, OperandsApart, Extent, FirstByte
<1>6. DstLane(i) = NumberAt(regs, at + i * w, w) /\ Was(instr.dst, i) = NumberAt(instr.found, at + i * w, w)
  BY DEF DstLane, Was, Operand
<1>7. SrcLane(i) = NumberAt(regs, fr + i * w, w) /\ Was(instr.src, i) = NumberAt(instr.found, fr + i * w, w)
  BY DEF SrcLane, Was, Operand
<1> HIDE DEF n, w, at, fr, L
<1>8. ASSUME NEW k \in 0 .. w - 1 PROVE regs[at + i * w + k + 1] = instr.found[at + i * w + k + 1]
  <2>1. i * w \in Nat /\ n * w \in Nat /\ at + i * w + k + 1 \in at + 1 .. at + 1 + n * w - 1
    BY <1>1, LanePlace
  <2>2. lane * w <= i * w /\ lane * w \in Nat
    BY <1>1, Product
  <2>3. PICK x \in Nat, y \in Nat, z \in Nat : x = i * w /\ y = n * w /\ z = lane * w
    BY <2>1, <2>2
  <2>4. at + x + k + 1 \in 1 .. L /\ at + x + k + 1 >= at + 1 + z
    BY <1>1, <1>2, <2>1, <2>2, <2>3
  <2> QED BY <1>3, <2>3, <2>4
<1>9. ASSUME NEW k \in 0 .. w - 1 PROVE regs[fr + i * w + k + 1] = instr.found[fr + i * w + k + 1]
  <2>1. CASE at = fr
    BY <1>8, <2>1
  <2>2. CASE (at + 1 .. at + 1 + n * w - 1) \cap (fr + 1 .. fr + 1 + n * w - 1) = {}
    <3>1. fr + i * w + k + 1 \in fr + 1 .. fr + 1 + n * w - 1 /\ n * w \in Nat /\ i * w \in Nat
      BY <1>1, LanePlace
    <3>2. PICK x \in Nat, y \in Nat : x = i * w /\ y = n * w
      BY <3>1
    <3>3. fr + x + k + 1 \in 1 .. L
      BY <1>1, <1>2, <3>1, <3>2
    <3> QED BY <1>4, <2>2, <3>1, <3>2, <3>3
  <2> QED BY <1>5, <2>1, <2>2
<1>10. NumberAt(regs, at + i * w, w) = NumberAt(instr.found, at + i * w, w)
  BY <1>8, SameBytes
<1>11. NumberAt(regs, fr + i * w, w) = NumberAt(instr.found, fr + i * w, w)
  BY <1>9, SameBytes
<1> QED BY <1>6, <1>7, <1>10, <1>11

\* When nothing was written, all lanes are those found.
LEMMA LaneUntouched ==
  ASSUME LInv, instr # NoInstr, instr.op \in Tests \cup {"vcmp"}, NEW i \in 0 .. Lanes(instr.op) - 1
  PROVE  DstLane(i) = Was(instr.dst, i) /\ SrcLane(i) = Was(instr.src, i)
<1> DEFINE n == Lanes(instr.op)
           w == LaneWidth(instr.op)
           L == LastByte
<1>1. n \in Nat /\ w \in Nat /\ L \in Nat /\ CellBytes \in Nat /\ instr.dst \in Nat /\ instr.src \in Nat
  <2>1. n \in Nat /\ w \in Nat /\ instr.dst \in Nat /\ instr.src \in Nat
    BY LaneType DEF LInv, IInv
  <2>2. CellBytes \in Nat /\ Registers \in Nat
    BY VectorAssumption
  <2> QED BY <2>1, <2>2 DEF LastByte
<1>2. \A p \in 1 .. L : regs[p] = instr.found[p]
  BY DEF LInv, IInv, Contained
<1>3. instr.dst * CellBytes + n * w <= L /\ instr.src * CellBytes + n * w <= L
  BY DEF LInv, Fits
<1> HIDE DEF n, w, L
<1>4. ASSUME NEW reg \in {instr.dst, instr.src}
      PROVE  NumberAt(regs, reg * CellBytes + i * w, w) = NumberAt(instr.found, reg * CellBytes + i * w, w)
  <2>1. PICK at \in Nat : at = reg * CellBytes
    BY <1>1
  <2>2. at + n * w <= L
    BY <1>3, <2>1
  <2>3. ASSUME NEW k \in 0 .. w - 1 PROVE regs[at + i * w + k + 1] = instr.found[at + i * w + k + 1]
    <3>1. at + i * w + k + 1 \in at + 1 .. at + 1 + n * w - 1 /\ n * w \in Nat /\ i * w \in Nat
      BY <1>1, LanePlace DEF n
    <3>2. PICK x \in Nat, y \in Nat : x = i * w /\ y = n * w
      BY <3>1
    <3>3. at + x + k + 1 \in 1 .. L
      BY <1>1, <2>2, <3>1, <3>2
    <3> QED BY <1>2, <3>2, <3>3
  <2> QED BY <2>1, <2>3, SameBytes
<1> QED BY <1>4 DEF DstLane, SrcLane, Was, Operand, w

\* What lanes mean depends on the instruction and the sizes alone.
LEMMA SameMeaning ==
  ASSUME UNCHANGED <<vec_len, elem_len, instr>>
  PROVE  /\ \A op : Lanes(op)' = Lanes(op) /\ LaneWidth(op)' = LaneWidth(op)
         /\ \A op, reg : Fits(op, reg)' = Fits(op, reg) /\ Extent(op, reg)' = Extent(op, reg)
         /\ \A reg, i : Was(reg, i)' = Was(reg, i)
         /\ \A i : Holds(i)' = Holds(i)
         /\ \A i, masked : Meant(i, masked)' = Meant(i, masked)
         /\ \A i, k : Place(i, k)' = Place(i, k)
         /\ Computing' = Computing
<1>1. \A op : Lanes(op)' = Lanes(op) /\ LaneWidth(op)' = LaneWidth(op)
  BY DEF Lanes, LaneWidth, IntWidth, FloatWidth
<1>2. \A op, reg : Fits(op, reg)' = Fits(op, reg) /\ Extent(op, reg)' = Extent(op, reg)
  BY <1>1 DEF Fits, Extent, FirstByte
<1>3. \A reg, i : Was(reg, i)' = Was(reg, i)
  BY <1>1 DEF Was, Operand
<1>4. \A i : Holds(i)' = Holds(i)
  BY <1>1, <1>3 DEF Holds, LaneHolds
<1>5. \A i, masked : Meant(i, masked)' = Meant(i, masked)
  BY <1>1, <1>3 DEF Meant
<1>6. \A i, k : Place(i, k)' = Place(i, k)
  BY <1>1 DEF Place
<1>7. Computing' = Computing
  BY <1>2 DEF Computing, OperandsApart
<1> QED BY <1>1, <1>2, <1>3, <1>4, <1>5, <1>6, <1>7

\* The next lanes are set from what the operands were, and no other byte of them changes.
LEMMA ComputeSets ==
  ASSUME LInv, ComputeLanes, Computing
  PROVE  /\ \A i \in 0 .. lane' - 1 : Set(i)'
         /\ \A p \in 1 .. LastByte :
              p >= FirstByte(instr.dst) + lane' * LaneWidth(instr.op) => regs'[p] = instr.found[p]
<1> DEFINE n == Lanes(instr.op)
           w == LaneWidth(instr.op)
           at == instr.dst * CellBytes
           L == LastByte
<1>1. /\ step = "lanes" /\ instr # NoInstr /\ UNCHANGED <<vec_len, elem_len, instr>>
      /\ lane \in 0 .. n /\ Fits(instr.op, instr.dst)
  <2>1. step = "lanes" /\ instr.op \in Arithmetic \cup {"vmov"} /\ UNCHANGED <<vec_len, elem_len, instr>>
    BY DEF ComputeLanes, InLanes
  <2>2. instr # NoInstr
    BY <2>1 DEF LInv, IInv
  <2> QED BY <2>1, <2>2 DEF LInv
<1>2. PICK k \in 1 .. n - lane, masked \in BOOLEAN :
        /\ regs' = Written([i \in lane .. lane + k - 1 |-> LaneOf(instr.op, w, DstLane(i), SrcLane(i), masked)],
                           lane, lane + k - 1)
        /\ lane' = lane + k
  BY DEF ComputeLanes
<1>3. n \in Nat /\ w \in Nat /\ at \in Nat /\ lane \in Nat /\ L \in Nat /\ at + n * w <= L /\ k \in Nat
      /\ lane + k <= n
  <2>1. n \in Nat /\ w \in Nat /\ instr.dst \in Nat
    BY <1>1, LaneType DEF LInv, IInv
  <2>2. CellBytes \in Nat /\ Registers \in Nat
    BY VectorAssumption
  <2>3. at + n * w <= L
    BY <1>1 DEF Fits
  <2>4. k \in 1 .. n - lane /\ lane \in 0 .. n
    BY <1>1, <1>2
  <2> HIDE DEF n, w, at
  <2>5. k \in Nat /\ lane + k <= n /\ lane \in Nat
    BY <2>1, <2>4
  <2> QED BY <2>1, <2>2, <2>3, <2>5 DEF LastByte, at
<1> DEFINE value == [i \in lane .. lane + k - 1 |-> Meant(i, masked)]
<1>4. regs' = Written(value, lane, lane + k - 1)
  <2>1. ASSUME NEW i \in lane .. lane + k - 1
        PROVE  LaneOf(instr.op, w, DstLane(i), SrcLane(i), masked) = Meant(i, masked)
    <3> HIDE DEF n, w
    <3>1. i \in lane .. n - 1
      BY <1>3
    <3>2. DstLane(i) = Was(instr.dst, i) /\ SrcLane(i) = Was(instr.src, i)
      BY <1>1, <3>1, LaneFound DEF n
    <3> QED BY <3>2 DEF Meant, w
  <2>2. [i \in lane .. lane + k - 1 |-> LaneOf(instr.op, w, DstLane(i), SrcLane(i), masked)] = value
    <3> HIDE DEF w
    <3> QED BY <2>1
  <2> QED BY <1>2, <2>2
<1>5. \A p \in 1 .. L :
        regs'[p] = IF p - 1 \in at + lane * w .. at + (lane + k - 1 + 1) * w - 1
                   THEN ByteOf(value[(p - 1 - at) \div w], (p - 1 - at) % w) ELSE regs[p]
  <2> HIDE DEF value
  <2> QED BY <1>4 DEF Written
<1>6. lane + k - 1 + 1 = lane + k
  BY <1>3
<1> HIDE DEF n, w, at, L, value
\* The new lanes.
<1>7. ASSUME NEW i \in lane .. lane + k - 1, NEW b \in 0 .. w - 1
      PROVE  regs'[at + i * w + b + 1] = ByteOf(Meant(i, masked), b)
  <2>1. i \in Nat /\ i \in 0 .. n - 1 /\ i \in 0 .. lane + k - 1 /\ lane <= i /\ lane + k \in Nat
    BY <1>3
  <2>2. i * w \in Nat /\ n * w \in Nat /\ at + i * w + b + 1 \in at + 1 .. at + 1 + n * w - 1
    BY <1>3, <2>1, LanePlace
  <2>3. (i + 1) * w <= (lane + k) * w /\ (i + 1) * w = i * w + w /\ (lane + k) * w \in Nat
    BY <1>3, <2>1, LanePlace
  <2>4. lane * w <= i * w /\ lane * w \in Nat
    BY <1>3, <2>1, Product
  <2>5. PICK x \in Nat, y \in Nat, z \in Nat, u \in Nat :
          x = i * w /\ y = n * w /\ z = lane * w /\ u = (lane + k) * w
    BY <2>2, <2>3, <2>4
  <2>6. PICK p : p = at + x + b + 1
    OBVIOUS
  <2>7. p \in 1 .. L /\ p - 1 \in at + z .. at + u - 1 /\ p - 1 - at = x + b
    BY <1>3, <2>2, <2>3, <2>4, <2>5, <2>6
  <2>8. (i * w + b) \div w = i /\ (i * w + b) % w = b
    BY <1>3, <2>1, LaneOfByte
  <2>9. regs'[p] = ByteOf(value[(p - 1 - at) \div w], (p - 1 - at) % w)
    BY <1>5, <1>6, <2>5, <2>7
  <2>10. value[i] = Meant(i, masked)
    BY DEF value
  <2>11. (p - 1 - at) \div w = i /\ (p - 1 - at) % w = b
    BY <2>5, <2>7, <2>8
  <2> QED BY <2>5, <2>6, <2>9, <2>10, <2>11
\* The lanes set before.
<1>8. ASSUME NEW i \in 0 .. lane - 1, NEW b \in 0 .. w - 1
      PROVE  regs'[at + i * w + b + 1] = regs[at + i * w + b + 1]
  <2>1. i \in Nat /\ i \in 0 .. n - 1
    BY <1>3
  <2>2. i * w \in Nat /\ n * w \in Nat /\ at + i * w + b + 1 \in at + 1 .. at + 1 + n * w - 1
    BY <1>3, <2>1, LanePlace
  <2>3. (i + 1) * w <= lane * w /\ (i + 1) * w = i * w + w /\ lane * w \in Nat
    BY <1>3, <2>1, LanePlace
  <2>4. PICK x \in Nat, y \in Nat, z \in Nat : x = i * w /\ y = n * w /\ z = lane * w
    BY <2>2, <2>3
  <2>5. PICK p : p = at + x + b + 1
    OBVIOUS
  <2>6. p \in 1 .. L /\ p - 1 < at + z
    BY <1>3, <2>2, <2>3, <2>4, <2>5
  <2>7. p - 1 \notin at + lane * w .. at + (lane + k - 1 + 1) * w - 1
    BY <1>3, <2>4, <2>6
  <2> QED BY <1>5, <2>4, <2>5, <2>6, <2>7
\* The bytes behind.
<1>9. ASSUME NEW p \in 1 .. L, p >= at + 1 + lane' * w PROVE regs'[p] = instr.found[p]
  <2>1. PICK z \in Nat, u \in Nat : z = lane * w /\ u = (lane + k) * w
    BY <1>3, Product
  <2>2. z <= u
    <3>1. lane <= lane + k /\ lane + k \in Nat
      BY <1>3
    <3> QED BY <1>3, <2>1, <3>1, Product
  <2>3. p >= at + 1 + u /\ p >= at + 1 + z
    BY <1>2, <1>3, <1>9, <2>1, <2>2
  <2>4. p - 1 \notin at + lane * w .. at + (lane + k - 1 + 1) * w - 1
    BY <1>3, <1>6, <2>1, <2>3
  <2>5. regs'[p] = regs[p]
    BY <1>5, <2>4
  <2>6. p >= FirstByte(instr.dst) + lane * LaneWidth(instr.op)
    BY <2>1, <2>3 DEF FirstByte, at, w
  <2> QED BY <1>1, <2>5, <2>6 DEF LInv, L
<1>10. /\ \A i, m : Meant(i, m)' = Meant(i, m)
       /\ \A i, b : Place(i, b)' = Place(i, b) /\ Place(i, b) = at + i * w + b + 1
       /\ LaneWidth(instr.op)' = w
  BY <1>1, SameMeaning DEF Place, at, w
<1>11. ASSUME NEW i \in 0 .. lane' - 1 PROVE Set(i)'
  <2>1. CASE i \in lane .. lane + k - 1
    BY <1>7, <1>10, <2>1 DEF Set
  <2>2. CASE i \in 0 .. lane - 1
    <3>1. PICK m \in BOOLEAN : \A b \in 0 .. w - 1 : regs[Place(i, b)] = ByteOf(Meant(i, m), b)
      BY <1>1, <2>2 DEF LInv, Set, w
    <3>2. \A b \in 0 .. w - 1 : regs'[at + i * w + b + 1] = ByteOf(Meant(i, m), b)
      BY <1>8, <1>10, <2>2, <3>1
    <3> QED BY <1>10, <3>2 DEF Set
  <2>3. i \in lane .. lane + k - 1 \/ i \in 0 .. lane - 1
    BY <1>2, <1>3
  <2> QED BY <2>1, <2>2, <2>3
<1> QED BY <1>9, <1>11 DEF FirstByte, at, w, L

\* The next lanes are set from the operands as they were.
LEMMA ComputeInLanes == ASSUME LInv, ComputeLanes PROVE LInv'
<1>1. /\ step = "lanes" /\ step' = "lanes" /\ instr # NoInstr /\ instr.op \in Arithmetic \cup {"vmov"}
      /\ UNCHANGED <<vec_len, elem_len, instr, vcond, cnt>>
      /\ \E k \in 1 .. Lanes(instr.op) - lane : lane' = lane + k
  BY DEF ComputeLanes, InLanes, LInv, IInv
<1>2. ~Counting(instr.op)
  BY <1>1 DEF Counting, Tests, FloatTests, Arithmetic, FloatOps
<1>3. IInv'
  BY ComputeKeeps DEF LInv
<1>4. lane' \in 0 .. Lanes(instr.op)
  <2>1. Lanes(instr.op) \in Nat /\ lane \in 0 .. Lanes(instr.op)
    BY <1>1, LaneType DEF LInv, IInv
  <2> QED BY <1>1, <2>1
<1>5. /\ Fits(instr.op, instr.dst)' /\ Fits(instr.op, instr.src)' /\ Lanes(instr.op)' = Lanes(instr.op)
      /\ Computing' = Computing /\ LaneWidth(instr.op)' = LaneWidth(instr.op)
  BY <1>1, SameMeaning DEF LInv
<1>6. Computing =>
        /\ \A i \in 0 .. lane' - 1 : Set(i)'
        /\ \A p \in 1 .. LastByte :
             p >= FirstByte(instr.dst) + lane' * LaneWidth(instr.op) => regs'[p] = instr.found[p]
  BY ComputeSets
<1>7. instr'.op = instr.op /\ instr'.src = instr.src /\ instr'.dst = instr.dst /\ instr'.found = instr.found
      /\ instr'.cond = instr.cond
  BY <1>1
<1>8. Counting(instr.op)' = Counting(instr.op)
  BY <1>7 DEF Counting
<1> QED BY <1>1, <1>2, <1>3, <1>4, <1>5, <1>6, <1>7, <1>8 DEF LInv

\* A set of numbers below n has n elements if it has them all.
LEMMA AllCounted ==
  ASSUME NEW n \in Nat, NEW S, S \subseteq 0 .. n - 1
  PROVE  Cardinality(S) \in 0 .. n /\ (Cardinality(S) = n <=> S = 0 .. n - 1)
<1>1. IsFiniteSet(0 .. n - 1) /\ Cardinality(0 .. n - 1) = n
  <2>1. IsFiniteSet(0 .. n - 1) /\ Cardinality(0 .. n - 1) = IF 0 > n - 1 THEN 0 ELSE (n - 1) - 0 + 1
    BY FS_Interval
  <2> QED BY <2>1
<1>2. Cardinality(S) <= n /\ (Cardinality(S) = n => S = 0 .. n - 1) /\ IsFiniteSet(S)
  <2>1. PICK T : T = 0 .. n - 1
    OBVIOUS
  <2>2. IsFiniteSet(T) /\ Cardinality(T) = n /\ S \in SUBSET T
    BY <1>1, <2>1
  <2>3. IsFiniteSet(S) /\ Cardinality(S) <= Cardinality(T) /\ (Cardinality(T) = Cardinality(S) => T = S)
    BY <2>2, FS_Subset
  <2> QED BY <2>1, <2>2, <2>3
<1>3. Cardinality(S) \in Nat
  BY <1>2, FS_CardinalityType
<1> QED BY <1>1, <1>2, <1>3

\* A comparison counts the lanes that satisfy it.
LEMMA TestInLanes == ASSUME LInv, TestLane \/ CompareBytes PROVE LInv'
<1>1. /\ step = "lanes" /\ step' = "lanes" /\ instr # NoInstr /\ instr.op \in Tests \cup {"vcmp"}
      /\ UNCHANGED <<regs, vec_len, elem_len, instr, vcond>> /\ lane < Lanes(instr.op)
      /\ lane' \in 0 .. Lanes(instr.op) /\ Lanes(instr.op) \in Nat /\ lane \in 0 .. Lanes(instr.op)
  <2>1. /\ step = "lanes" /\ step' = "lanes" /\ instr.op \in Tests \cup {"vcmp"} /\ lane < Lanes(instr.op)
        /\ UNCHANGED <<regs, vec_len, elem_len, instr, vcond>> /\ lane' \in {lane + 1, Lanes(instr.op)}
    BY DEF TestLane, CompareBytes, InLanes
  <2>2. instr # NoInstr /\ Lanes(instr.op) \in Nat /\ lane \in 0 .. Lanes(instr.op)
    BY <2>1, LaneType DEF LInv, IInv
  <2> QED BY <2>1, <2>2
<1>2. ~Computing
  BY <1>1 DEF Computing, Tests, FloatTests, Arithmetic, FloatOps
<1>3. IInv'
  BY OtherKeeps DEF LInv
<1>4. /\ Fits(instr.op, instr.dst)' /\ Fits(instr.op, instr.src)' /\ Lanes(instr.op)' = Lanes(instr.op)
      /\ Computing' = Computing /\ \A i : Holds(i)' = Holds(i)
  BY <1>1, SameMeaning DEF LInv
<1>5. instr'.op = instr.op /\ instr'.src = instr.src /\ instr'.cond = instr.cond
      /\ Counting(instr.op)' = Counting(instr.op)
  BY <1>1 DEF Counting
<1>6. ASSUME Counting(instr.op)
      PROVE  cnt' \in 0 .. lane' /\ (cnt' = lane' <=> \A i \in 0 .. lane' - 1 : Holds(i))
  <2>1. cnt \in 0 .. lane /\ (cnt = lane <=> \A i \in 0 .. lane - 1 : Holds(i))
    BY <1>1, <1>6 DEF LInv
  <2>2. CASE TestLane
    <3>1. DstLane(lane) = Was(instr.dst, lane) /\ SrcLane(lane) = Was(instr.src, lane)
      <4>1. lane \in 0 .. Lanes(instr.op) - 1
        BY <1>1
      <4> QED BY <1>1, <4>1, LaneUntouched
    <3>2. instr.op # "vcmp"
      BY <2>2 DEF TestLane, InLanes, Tests, FloatTests
    <3>3. cnt' = (IF Holds(lane) THEN cnt + 1 ELSE cnt) /\ lane' = lane + 1
      BY <1>6, <2>2, <3>1, <3>2 DEF TestLane, Holds
    <3>4. PICK c \in Nat, l \in Nat : c = cnt /\ l = lane
      BY <1>1, <2>1
    <3>5. c <= l /\ \A i : i \in 0 .. l <=> i \in 0 .. l - 1 \/ i = l
      BY <2>1, <3>4
    <3>6. (\A i \in 0 .. l : Holds(i)) <=> (Holds(l) /\ \A i \in 0 .. l - 1 : Holds(i))
      BY <3>5
    <3>7. l + 1 - 1 = l /\ c + 1 \in 0 .. l + 1 /\ c \in 0 .. l + 1 /\ c # l + 1 /\ (c + 1 = l + 1 <=> c = l)
      BY <3>5
    <3>8. CASE Holds(l)
      BY <2>1, <3>3, <3>4, <3>6, <3>7, <3>8
    <3>9. CASE ~Holds(l)
      BY <2>1, <3>3, <3>4, <3>6, <3>7, <3>9
    <3> QED BY <3>8, <3>9
  <2>3. CASE CompareBytes
    <3>1. instr.op = "vcmp" /\ lane' = Lanes(instr.op)
          /\ cnt' = Cardinality({i \in 0 .. Lanes(instr.op) - 1 : DstLane(i) = SrcLane(i)})
      BY <2>3 DEF CompareBytes, InLanes
    <3> DEFINE S == {i \in 0 .. Lanes(instr.op) - 1 : DstLane(i) = SrcLane(i)}
    <3>2. \A i \in 0 .. Lanes(instr.op) - 1 : i \in S <=> Holds(i)
      BY <1>1, <3>1, LaneUntouched DEF Holds
    <3>3. S \subseteq 0 .. Lanes(instr.op) - 1
      OBVIOUS
    <3>4. cnt' = Cardinality(S)
      BY <3>1
    <3> HIDE DEF S
    <3>5. cnt' \in 0 .. lane' /\ (cnt' = lane' <=> S = 0 .. Lanes(instr.op) - 1)
      <4>1. PICK n \in Nat : n = Lanes(instr.op)
        BY <1>1
      <4>2. Cardinality(S) \in 0 .. n /\ (Cardinality(S) = n <=> S = 0 .. n - 1)
        BY <3>3, <4>1, AllCounted
      <4> QED BY <3>1, <3>4, <4>1, <4>2
    <3>6. S = 0 .. Lanes(instr.op) - 1 <=> \A i \in 0 .. Lanes(instr.op) - 1 : Holds(i)
      BY <3>2, <3>3
    <3> QED BY <3>1, <3>5, <3>6
  <2> QED BY <2>2, <2>3
<1> QED BY <1>1, <1>2, <1>3, <1>4, <1>5, <1>6 DEF LInv

\* The end of the lanes turns the count into the condition.
LEMMA RestInLanes ==
  ASSUME LInv, UNCHANGED vvars \/ DivideByZero \/ EndLanes
  PROVE  LInv'
<1>1. UNCHANGED <<regs, vec_len, elem_len, instr, lane, cnt>>
  BY DEF vvars, DivideByZero, EndLanes
<1>2. IInv'
  BY OtherKeeps DEF LInv
<1>3. /\ \A op : Lanes(op)' = Lanes(op) /\ LaneWidth(op)' = LaneWidth(op)
      /\ \A op, reg : Fits(op, reg)' = Fits(op, reg)
      /\ Computing' = Computing /\ \A i : Holds(i)' = Holds(i) /\ Set(i)' = Set(i)
  <2>1. \A i : Set(i)' = Set(i)
    BY <1>1, SameMeaning DEF Set
  <2> QED BY <1>1, <2>1, SameMeaning
<1>4. Counting(instr.op)' = Counting(instr.op)
  BY <1>1 DEF Counting
<1>5. CASE UNCHANGED vvars
  <2>1. step' = step /\ vcond' = vcond
    BY <1>5 DEF vvars
  <2> QED BY <1>1, <1>2, <1>3, <1>4, <2>1 DEF LInv
<1>6. CASE DivideByZero
  <2>1. step' = "killed"
    BY <1>6 DEF DivideByZero
  <2> QED BY <1>1, <1>2, <1>3, <1>4, <2>1 DEF LInv
<1>7. CASE EndLanes
  <2>1. step = "lanes" /\ step' = "dispatch" /\ lane = Lanes(instr.op)
        /\ vcond' = IF Counting(instr.op) THEN cnt = Lanes(instr.op) ELSE vcond
    BY <1>7 DEF EndLanes
  <2>2. ASSUME instr # NoInstr
        PROVE  vcond' = IF Counting(instr.op) THEN \A i \in 0 .. lane - 1 : Holds(i) ELSE instr.cond
    <3>1. vcond = instr.cond /\ (Counting(instr.op) => (cnt = lane <=> \A i \in 0 .. lane - 1 : Holds(i)))
      BY <2>1, <2>2 DEF LInv
    <3> QED BY <2>1, <3>1
  <2> QED BY <1>1, <1>2, <1>3, <1>4, <2>1, <2>2 DEF LInv
<1> QED BY <1>5, <1>6, <1>7

\* A fetched instruction has done no lane.
LEMMA DispatchInLanes == ASSUME LInv, SetVlen \/ SetElen \/ Fetch PROVE LInv'
<1>1. IInv'
  BY DispatchKeeps DEF LInv
<1>2. CASE SetVlen \/ SetElen
  BY <1>1, <1>2 DEF SetVlen, SetElen, LInv
<1>3. CASE Fetch
  <2>1. PICK op \in VectorOps, dst \in 0 .. Registers - 1, src \in 0 .. Registers - 1 :
          /\ Fits(op, dst) /\ Fits(op, src)
          /\ instr' = [op |-> op, dst |-> dst, src |-> src, found |-> regs, cond |-> vcond]
    BY <1>3 DEF Fetch
  <2>2. /\ step' = "lanes" /\ lane' = 0 /\ cnt' = 0 /\ UNCHANGED <<regs, vec_len, elem_len, vcond>>
        /\ instr'.op = op /\ instr'.dst = dst /\ instr'.src = src /\ instr'.found = regs /\ instr'.cond = vcond
    BY <1>3, <2>1 DEF Fetch
  <2>3. src \in Nat
    BY VectorAssumption
  <2>4. Lanes(op)' = Lanes(op) /\ LaneWidth(op)' = LaneWidth(op) /\ Lanes(op) \in Nat
    BY <2>2, LaneType DEF Lanes, LaneWidth, IntWidth, FloatWidth, LInv
  <2>5. Fits(op, dst)' /\ Fits(op, src)'
    BY <2>1, <2>4 DEF Fits
  <2>6. 0 .. 0 - 1 = {} /\ 0 \in 0 .. 0 /\ 0 \in 0 .. Lanes(op)
    BY <2>4
  <2> QED BY <1>1, <2>2, <2>3, <2>4, <2>5, <2>6 DEF LInv
<1> QED BY <1>2, <1>3

\* When an instruction is done, each lane of its destination is what the operation makes of
\* the lanes of the operands as they were when it began, unless these overlap in part, and
\* a comparison has set the condition to whether every lane satisfies it; others leave it.
LanesAsFound ==
  Done => /\ Computing => \A i \in 0 .. Lanes(instr.op) - 1 : Set(i)
          /\ vcond = IF Counting(instr.op) THEN \A i \in 0 .. Lanes(instr.op) - 1 : Holds(i) ELSE instr.cond

\* However the compiler groups the lanes of a vector of any length and element size, an
\* instruction computes each from the operands as it found them.
THEOREM LanesAlike == VSpec => []LanesAsFound
<1>1. VInit => LInv
  BY DEF VInit, LInv, IInv
<1>2. LInv /\ [VNext]_vvars => LInv'
  BY ComputeInLanes, TestInLanes, RestInLanes, DispatchInLanes DEF VNext, VectorStep, VStopped
<1>3. LInv => LanesAsFound
  BY DEF LInv, LanesAsFound, Done
<1> QED BY <1>1, <1>2, <1>3, PTL DEF VSpec

\* Of instructions other than vcmp, vilt and vile, whose documented meaning is about the
\* numbers that bytes stand for: unsigned and float comparisons hold when they do for every
\* element, of the size the documentation gives, and what does not compare leaves the
\* condition alone.
PlainCompares == Done /\ instr.op \notin {"vcmp", "vilt", "vile"} => Compares

\* Comparisons other than the signed ones are what LaneWise says, at the end of the instruction.
LEMMA PlainTests ==
  ASSUME LanesAsFound, IInv, Done, instr.op \notin {"vcmp", "vilt", "vile"}
  PROVE  Compares
<1>1. /\ instr.op \in VectorOps
      /\ vcond = IF Counting(instr.op) THEN \A i \in 0 .. Lanes(instr.op) - 1 : Holds(i) ELSE instr.cond
  BY DEF LanesAsFound, IInv, Done
<1>2. CASE instr.op \notin Tests
  <2>1. vcond = instr.cond
    BY <1>1, <1>2 DEF Counting, Tests
  <2> QED BY <1>2, <2>1 DEF Compares, Tests
<1>3. CASE instr.op \in Tests
  <2> DEFINE w == DocumentedWidth(instr.op)
  <2>1. w = LaneWidth(instr.op) /\ Lanes(instr.op) = vec_len
    BY <1>3, VectorAssumption
       DEF DocumentedWidth, LaneWidth, FloatWidth, IntWidth, Lanes, Bytewise, Tests, FloatTests, FloatOps
  <2>2. \A i : Before(instr.dst, i) = Was(instr.dst, i) /\ Before(instr.src, i) = Was(instr.src, i)
    BY <2>1 DEF Before, Was
  <2>3. instr.op \in {"vult", "vule"} \cup FloatTests
    BY <1>3 DEF Tests
  <2>4. CASE instr.op = "vult"
    <3>1. \A i : Holds(i) <=> Before(instr.dst, i) < Before(instr.src, i)
      BY <2>2, <2>4 DEF Holds, LaneHolds, IntHolds, FloatTests
    <3>2. vcond = \A i \in 0 .. vec_len - 1 : Before(instr.dst, i) < Before(instr.src, i)
      BY <1>1, <2>1, <2>4, <3>1 DEF Counting, Tests, FloatTests
    <3> QED BY <2>4, <3>2 DEF Compares, FloatTests
  <2>5. CASE instr.op = "vule"
    <3>1. \A i : Holds(i) <=> Before(instr.dst, i) <= Before(instr.src, i)
      BY <2>2, <2>5 DEF Holds, LaneHolds, IntHolds, FloatTests
    <3>2. vcond = \A i \in 0 .. vec_len - 1 : Before(instr.dst, i) <= Before(instr.src, i)
      BY <1>1, <2>1, <2>5, <3>1 DEF Counting, Tests, FloatTests
    <3> QED BY <2>5, <3>2 DEF Compares, FloatTests
  <2>6. CASE instr.op \in FloatTests
    <3>1. \A i : Holds(i) <=> FloatHolds(instr.op, w, Before(instr.dst, i), Before(instr.src, i))
      BY <2>1, <2>2, <2>6 DEF Holds, LaneHolds, FloatTests
    <3>2. vcond = IF FloatsDefined THEN
                    \A i \in 0 .. vec_len - 1 : FloatHolds(instr.op, w, Before(instr.dst, i), Before(instr.src, i))
                  ELSE instr.cond
      BY <1>1, <2>1, <2>6, <3>1 DEF Counting
    <3> QED BY <2>6, <3>2 DEF Compares, FloatTests
  <2> QED BY <2>3, <2>4, <2>5, <2>6
<1> QED BY <1>2, <1>3

\* This part of LaneWise is so for vectors of any length and element size.
THEOREM TestsCompare == VSpec => []PlainCompares
<1>1. VSpec => []LanesAsFound
  BY LanesAlike
<1>2. VSpec => []IInv
  <2>1. VInit => IInv
    BY DEF VInit, IInv
  <2>2. IInv /\ [VNext]_vvars => IInv'
    BY ComputeKeeps, OtherKeeps, DispatchKeeps DEF VNext, VectorStep, VStopped
  <2> QED BY <2>1, <2>2, PTL DEF VSpec
<1>3. LanesAsFound /\ IInv => PlainCompares
  BY PlainTests DEF PlainCompares
<1> QED BY <1>1, <1>2, <1>3, PTL
----------------------------------------------------------------------------
(* Powers of two.  The provers know of them only that a set of n elements   *)
(* has 2 ^ n subsets.                                                       *)

\* A set of numbers has a least one.
LEMMA Least == ASSUME NEW S \in SUBSET Nat, S # {} PROVE \E k \in S : \A l \in S : k <= l
<1>1. PICK k \in S : \A l \in S : ~(<<l, k>> \in OpToRel(<, Nat))
  BY NatLessThanWellFounded, WFMin
<1>2. \A l \in S : ~(l < k)
  BY <1>1, Zenon DEF OpToRel
<1> QED BY <1>2

\* A power is a number of subsets.
LEMMA PowerIsCount ==
  ASSUME NEW n \in Nat
  PROVE  /\ 2 ^ n = Cardinality(SUBSET (1 .. n)) /\ IsFiniteSet(SUBSET (1 .. n))
         /\ 2 ^ n \in Nat
<1>1. IsFiniteSet(1 .. n) /\ Cardinality(1 .. n) = n
  <2>1. IsFiniteSet(1 .. n) /\ Cardinality(1 .. n) = IF 1 > n THEN 0 ELSE n - 1 + 1
    BY FS_Interval
  <2> QED BY <2>1
<1>2. IsFiniteSet(SUBSET (1 .. n)) /\ Cardinality(SUBSET (1 .. n)) = 2 ^ Cardinality(1 .. n)
  BY <1>1, FS_SUBSET
<1>3. 2 ^ Cardinality(1 .. n) = 2 ^ n
  BY <1>1
<1> QED BY <1>2, <1>3, FS_CardinalityType

\* A set with one element more has twice as many subsets.
LEMMA PowerNext ==
  /\ 2 ^ 0 = 1
  /\ \A n \in Nat : 2 ^ (n + 1) = 2 * 2 ^ n
<1>1. 2 ^ 0 = 1
  <2>1. 1 .. 0 = {} /\ SUBSET {} = {{}}
    OBVIOUS
  <2>2. Cardinality({{}}) = 1
    BY FS_Singleton
  <2> QED BY <2>1, <2>2, PowerIsCount
<1>2. ASSUME NEW n \in Nat PROVE 2 ^ (n + 1) = 2 * 2 ^ n
  <2> DEFINE A == SUBSET (1 .. n)
             C == {T \in SUBSET (1 .. n + 1) : n + 1 \in T}
             f == [T \in A |-> T \cup {n + 1}]
  <2>1. IsFiniteSet(A) /\ Cardinality(A) = 2 ^ n /\ 2 ^ n \in Nat
    BY PowerIsCount
  <2>2. f \in Bijection(A, C)
    <3>1. f \in [A -> C]
      OBVIOUS
    <3>2. ASSUME NEW S \in A, NEW T \in A, f[S] = f[T] PROVE S = T
      <4>1. n + 1 \notin S /\ n + 1 \notin T
        OBVIOUS
      <4>2. S \cup {n + 1} = T \cup {n + 1}
        BY <3>2
      <4> QED BY <4>1, <4>2
    <3>3. ASSUME NEW T \in C PROVE \E S \in A : f[S] = T
      <4>1. T \ {n + 1} \in A /\ (T \ {n + 1}) \cup {n + 1} = T
        OBVIOUS
      <4> QED BY <4>1
    <3> HIDE DEF f, A, C
    <3> QED BY <3>1, <3>2, <3>3 DEF Bijection, Injection, Surjection, IsInjective
  <2>3. IsFiniteSet(C) /\ Cardinality(C) = Cardinality(A)
    <3>1. ExistsBijection(A, C)
      BY <2>2 DEF ExistsBijection
    <3> QED BY <2>1, <3>1, FS_Bijection
  <2>4. A \cap C = {} /\ A \cup C = SUBSET (1 .. n + 1)
    OBVIOUS
  <2>5. Cardinality(A \cup C) = Cardinality(A) + Cardinality(C) - Cardinality({})
    <3> HIDE DEF A, C
    <3> QED BY <2>1, <2>3, <2>4, FS_Union
  <2>6. 2 ^ (n + 1) = Cardinality(SUBSET (1 .. n + 1))
    BY PowerIsCount
  <2>7. Cardinality({}) = 0
    BY FS_EmptySet
  <2>8. 2 ^ (n + 1) = Cardinality(A \cup C)
    BY <2>4, <2>6
  <2> HIDE DEF A, C
  <2> QED BY <2>1, <2>3, <2>5, <2>7, <2>8
<1> QED BY <1>1, <1>2

\* Powers are positive, multiply as their exponents add, and grow.
LEMMA Powers ==
  /\ \A n \in Nat : 2 ^ n \in Nat /\ 2 ^ n >= 1
  /\ \A a, b \in Nat : 2 ^ (a + b) = 2 ^ a * 2 ^ b
  /\ \A a \in Nat : a >= 1 => 2 ^ a = 2 * 2 ^ (a - 1)
<1>1. ASSUME NEW n \in Nat PROVE 2 ^ n \in Nat /\ 2 ^ n >= 1
  <2>1. {} \in SUBSET (1 .. n)
    OBVIOUS
  <2>2. Cardinality(SUBSET (1 .. n)) # 0
    BY <2>1, PowerIsCount, FS_EmptySet
  <2> QED BY <2>2, PowerIsCount
<1>2. ASSUME NEW a \in Nat, NEW b \in Nat PROVE 2 ^ (a + b) = 2 ^ a * 2 ^ b
  <2> DEFINE Bad == {k \in Nat : 2 ^ (a + k) # 2 ^ a * 2 ^ k}
  <2> SUFFICES ASSUME Bad # {} PROVE FALSE
    OBVIOUS
  <2>1. PICK k \in Bad : \A l \in Bad : k <= l
    BY Least
  <2>2. k # 0
    <3>1. 2 ^ (a + 0) = 2 ^ a /\ 2 ^ a \in Nat
      BY <1>1
    <3>2. 2 ^ a * 2 ^ 0 = 2 ^ a
      BY <3>1, PowerNext
    <3> QED BY <2>1, <3>1, <3>2
  <2>3. k - 1 \in Nat /\ ~(k <= k - 1) /\ a + (k - 1) \in Nat
    BY <2>1, <2>2
  <2>4. 2 ^ (a + (k - 1)) = 2 ^ a * 2 ^ (k - 1)
    BY <2>1, <2>3
  <2>5. 2 ^ (k - 1 + 1) = 2 * 2 ^ (k - 1) /\ 2 ^ (a + (k - 1) + 1) = 2 * 2 ^ (a + (k - 1))
    BY <2>3, PowerNext
  <2>6. k - 1 + 1 = k /\ a + (k - 1) + 1 = a + k
    BY <2>1
  <2>7. PICK x \in Nat, y \in Nat : x = 2 ^ a /\ y = 2 ^ (k - 1)
    BY <1>1, <2>3
  <2>8. 2 ^ (a + k) = 2 * (x * y) /\ 2 ^ a * 2 ^ k = x * (2 * y)
    BY <2>4, <2>5, <2>6, <2>7
  <2>9. 2 * (x * y) = x * (2 * y)
    BY <2>7
  <2> QED BY <2>1, <2>8, <2>9
<1>3. ASSUME NEW a \in Nat, a >= 1 PROVE 2 ^ a = 2 * 2 ^ (a - 1)
  <2>1. a - 1 \in Nat /\ a - 1 + 1 = a
    BY <1>3
  <2> QED BY <2>1, PowerNext
<1> QED BY <1>1, <1>2, <1>3

----------------------------------------------------------------------------
(* Sums.  MapThenSumSet goes through the elements in an order of its own;   *)
(* the sums here go through them from 0 on.                                 *)

Chosen(S) == CHOOSE x \in S : TRUE
\* The recursion of MapThenSumSet.
Adds(h, q, I) == h = [S \in SUBSET I |-> IF S = {} THEN 0 ELSE q[Chosen(S)] + h[S \ {Chosen(S)}]]
\* Whichever element is taken first.
AddsAny(h, q, I) ==
  /\ h \in [SUBSET I -> Nat] /\ h[{}] = 0
  /\ \A S \in SUBSET I : \A x \in S : h[S] = q[x] + h[S \ {x}]
\* What MapThenSumSet yields for the numbers q of 0 to n - 1.
Total(q, n) == (CHOOSE h : Adds(h, q, 0 .. n - 1))[0 .. n - 1]

\* One more element can be added to a sum.
LEMMA AddsMore ==
  ASSUME NEW n \in Nat, NEW q, \A i \in 0 .. n : q[i] \in Nat, NEW h, AddsAny(h, q, 0 .. n - 1)
  PROVE  \E g : AddsAny(g, q, 0 .. n)
<1> DEFINE I == 0 .. n - 1
           J == 0 .. n
           g == [S \in SUBSET J |-> IF n \in S THEN q[n] + h[S \ {n}] ELSE h[S]]
<1>1. /\ h \in [SUBSET I -> Nat] /\ h[{}] = 0
      /\ \A S \in SUBSET I : \A x \in S : h[S] = q[x] + h[S \ {x}]
  BY DEF AddsAny
<1>2. \A S \in SUBSET J : S \ {n} \in SUBSET I /\ (n \notin S => S \in SUBSET I)
  <2>1. \A x \in J : x # n => x \in I
    OBVIOUS
  <2> QED BY <2>1
<1>3. \A i \in J : q[i] \in Nat
  OBVIOUS
<1>4. n \in J
  OBVIOUS
<1> HIDE DEF I, J
<1>5. g \in [SUBSET J -> Nat]
  <2>1. ASSUME NEW S \in SUBSET J PROVE (IF n \in S THEN q[n] + h[S \ {n}] ELSE h[S]) \in Nat
    <3>1. CASE n \in S
      <4>1. PICK y \in Nat, z \in Nat : y = q[n] /\ z = h[S \ {n}]
        BY <1>1, <1>2, <1>3, <1>4
      <4> QED BY <3>1, <4>1
    <3>2. CASE n \notin S
      BY <1>1, <1>2, <3>2
    <3> QED BY <3>1, <3>2
  <2> QED BY <2>1
<1>6. g[{}] = 0
  BY <1>1
<1>7. ASSUME NEW S \in SUBSET J, NEW x \in S PROVE g[S] = q[x] + g[S \ {x}]
  <2>1. S \ {x} \in SUBSET J /\ g[S] = (IF n \in S THEN q[n] + h[S \ {n}] ELSE h[S])
        /\ g[S \ {x}] = IF n \in S \ {x} THEN q[n] + h[(S \ {x}) \ {n}] ELSE h[S \ {x}]
    OBVIOUS
  <2> HIDE DEF g
  <2>2. CASE x = n
    BY <2>1, <2>2
  <2>3. CASE n \notin S
    BY <1>1, <1>2, <2>1, <2>3
  <2>4. CASE x # n /\ n \in S
    <3>1. S \ {n} \in SUBSET I /\ x \in S \ {n} /\ (S \ {n}) \ {x} = (S \ {x}) \ {n}
          /\ (S \ {x}) \ {n} \in SUBSET I
      BY <1>2, <2>1, <2>4
    <3>2. h[S \ {n}] = q[x] + h[(S \ {x}) \ {n}]
      BY <1>1, <3>1
    <3>3. g[S] = q[n] + (q[x] + h[(S \ {x}) \ {n}]) /\ g[S \ {x}] = q[n] + h[(S \ {x}) \ {n}]
      BY <2>1, <2>4, <3>2
    <3>4. PICK y \in Nat, z \in Nat : y = h[(S \ {x}) \ {n}] /\ z = q[n]
      BY <1>1, <1>3, <1>4, <3>1
    <3>5. q[x] \in Nat
      BY <1>3
    <3> QED BY <3>3, <3>4, <3>5
  <2> QED BY <2>2, <2>3, <2>4
<1> HIDE DEF g
<1> QED BY <1>5, <1>6, <1>7 DEF AddsAny, J

\* So there is a sum of any numbers.
LEMMA AddsExist ==
  ASSUME NEW n \in Nat, NEW q, \A i \in 0 .. n - 1 : q[i] \in Nat
  PROVE  \E h : AddsAny(h, q, 0 .. n - 1)
<1> DEFINE Bad == {m \in 0 .. n : ~\E h : AddsAny(h, q, 0 .. m - 1)}
<1> SUFFICES ASSUME Bad # {} PROVE FALSE
  <2>1. n \in 0 .. n
    OBVIOUS
  <2> QED BY <2>1
<1>1. PICK m \in Bad : \A l \in Bad : m <= l
  <2>1. Bad \in SUBSET Nat
    OBVIOUS
  <2> QED BY <2>1, Least
<1>2. m # 0
  <2>1. AddsAny([S \in SUBSET {} |-> 0], q, {})
    BY DEF AddsAny
  <2>2. 0 .. 0 - 1 = {}
    OBVIOUS
  <2> QED BY <1>1, <2>1, <2>2
<1>3. m - 1 \in 0 .. n /\ ~(m <= m - 1) /\ m - 1 \in Nat /\ m - 1 \in 0 .. n - 1
  BY <1>1, <1>2
<1>4. PICK h : AddsAny(h, q, 0 .. m - 1 - 1)
  BY <1>1, <1>3
<1>5. \A i \in 0 .. m - 1 : q[i] \in Nat
  BY <1>3
<1>6. \E g : AddsAny(g, q, 0 .. m - 1)
  BY <1>3, <1>4, <1>5, AddsMore
<1> QED BY <1>1, <1>6

\* MapThenSumSet computes it.
LEMMA TotalIsSum ==
  ASSUME NEW n \in Nat, NEW q, NEW g, AddsAny(g, q, 0 .. n - 1)
  PROVE  Total(q, n) = g[0 .. n - 1]
<1> DEFINE I == 0 .. n - 1
           h == CHOOSE f : Adds(f, q, I)
<1>1. \A S \in SUBSET I : S # {} => Chosen(S) \in S
  BY DEF Chosen
<1>2. Adds(g, q, I)
  <2>1. g = [S \in SUBSET I |-> g[S]]
    BY DEF AddsAny
  <2>2. \A S \in SUBSET I : g[S] = IF S = {} THEN 0 ELSE q[Chosen(S)] + g[S \ {Chosen(S)}]
    BY <1>1 DEF AddsAny
  <2> DEFINE f(S) == IF S = {} THEN 0 ELSE q[Chosen(S)] + g[S \ {Chosen(S)}]
  <2>3. \A S \in SUBSET I : g[S] = f(S)
    BY <2>2
  <2> HIDE DEF f
  <2>4. g = [S \in SUBSET I |-> f(S)]
    BY <2>1, <2>3
  <2> QED BY <2>4 DEF Adds, f
<1>3. Adds(h, q, I)
  BY <1>2
<1> HIDE DEF h
<1>4. \A S \in SUBSET I : IsFiniteSet(S) /\ Cardinality(S) \in Nat
  <2>1. IsFiniteSet(I)
    BY FS_Interval
  <2> QED BY <2>1, FS_Subset, FS_CardinalityType
<1> DEFINE Bad == {m \in Nat : \E S \in SUBSET I : Cardinality(S) = m /\ h[S] # g[S]}
<1>5. ASSUME Bad # {} PROVE FALSE
  <2>1. PICK m \in Bad : \A l \in Bad : m <= l
    BY <1>5, Least
  <2>2. PICK S \in SUBSET I : Cardinality(S) = m /\ h[S] # g[S]
    BY <2>1
  <2>3. /\ h[S] = IF S = {} THEN 0 ELSE q[Chosen(S)] + h[S \ {Chosen(S)}]
        /\ g[S] = IF S = {} THEN 0 ELSE q[Chosen(S)] + g[S \ {Chosen(S)}]
    BY <1>2, <1>3 DEF Adds
  <2>4. S # {}
    BY <2>2, <2>3
  <2>5. Chosen(S) \in S /\ S \ {Chosen(S)} \in SUBSET I
    BY <1>1, <2>4
  <2>6. Cardinality(S \ {Chosen(S)}) = m - 1
    BY <1>4, <2>2, <2>5, FS_RemoveElement
  <2>7. Cardinality(S \ {Chosen(S)}) \in Nat
    BY <1>4, <2>5
  <2>8. Cardinality(S \ {Chosen(S)}) \notin Bad
    <3>1. m \in Nat /\ ~(m <= m - 1)
      BY <2>1
    <3> HIDE DEF Bad
    <3> QED BY <2>1, <2>6, <3>1
  <2> QED BY <2>2, <2>3, <2>4, <2>5, <2>7, <2>8
<1>6. I \in SUBSET I /\ Cardinality(I) \in Nat
  BY <1>4
<1>7. h[I] = g[I]
  BY <1>5, <1>6
<1> QED BY <1>7 DEF Total, h

Numbers(q, n) == \A i \in 0 .. n - 1 : q[i] \in Nat
\* The sums of the first numbers, up to n of them.
Steps(o, q, n) ==
  /\ o \in [0 .. n -> Nat] /\ o[0] = 0 /\ Total(q, n) = o[n]
  /\ \A k \in 0 .. n - 1 : o[k + 1] = o[k] + q[k]

\* A sum grows by one number after the other.
LEMMA TotalSteps == ASSUME NEW n \in Nat, NEW q, Numbers(q, n) PROVE \E o : Steps(o, q, n)
<1>1. PICK g : AddsAny(g, q, 0 .. n - 1)
  BY AddsExist DEF Numbers
<1> DEFINE o == [k \in 0 .. n |-> g[0 .. k - 1]]
<1>2. \A k \in 0 .. n : 0 .. k - 1 \in SUBSET (0 .. n - 1)
  OBVIOUS
<1>3. o \in [0 .. n -> Nat]
  BY <1>1, <1>2 DEF AddsAny
<1>4. o[0] = 0
  <2>1. 0 .. 0 - 1 = {} /\ 0 \in 0 .. n
    OBVIOUS
  <2> QED BY <1>1, <2>1 DEF AddsAny
<1>5. ASSUME NEW k \in 0 .. n - 1 PROVE o[k + 1] = o[k] + q[k]
  <2> DEFINE S == 0 .. k
  <2>1. k \in S /\ S \ {k} = 0 .. k - 1 /\ S \in SUBSET (0 .. n - 1) /\ k + 1 - 1 = k
        /\ k + 1 \in 0 .. n /\ k \in 0 .. n
    <3>1. k \in Nat /\ k <= n - 1
      OBVIOUS
    <3>2. \A i : i \in S \ {k} <=> i \in 0 .. k - 1
      BY <3>1
    <3>3. S \in SUBSET (0 .. n - 1)
      BY <3>1
    <3>4. S \ {k} = 0 .. k - 1
      BY <3>2
    <3> QED BY <3>1, <3>3, <3>4
  <2>2. o[k + 1] = g[S] /\ o[k] = g[S \ {k}]
    <3>1. o[k + 1] = g[0 .. k + 1 - 1] /\ o[k] = g[0 .. k - 1]
      BY <2>1
    <3> HIDE DEF o
    <3> QED BY <2>1, <3>1
  <2>3. g[S] = q[k] + g[S \ {k}]
    BY <1>1, <2>1 DEF AddsAny
  <2>4. o[k] \in Nat /\ q[k] \in Nat
    BY <1>3, <2>1 DEF Numbers
  <2> HIDE DEF o, S
  <2> QED BY <2>2, <2>3, <2>4
<1>6. Total(q, n) = o[n]
  BY <1>1, TotalIsSum
<1> HIDE DEF o
<1> QED BY <1>3, <1>4, <1>5, <1>6 DEF Steps

----------------------------------------------------------------------------
(* Digits, of c bits: bytes of numbers, and bits.                          *)

Digit(c, v, k) == (v \div 2 ^ (c * k)) % 2 ^ c

\* Quotient and remainder.
IsDivision(v, p, q, r) == p \in Nat /\ p >= 1 /\ q \in Int /\ r \in 0 .. p - 1 /\ v = q * p + r

\* Every integer divided by a positive number has a quotient and a remainder.
LEMMA Division ==
  ASSUME NEW v \in Int, NEW p \in Nat, p >= 1
  PROVE  /\ v \div p \in Int /\ v % p \in 0 .. p - 1 /\ v = (v \div p) * p + (v % p)
         /\ v >= 0 => v \div p \in Nat
<1>1. v \div p \in Int /\ v % p \in 0 .. p - 1
  OBVIOUS
<1>2. PICK q \in Int, r \in Nat : q = v \div p /\ r = v % p
  BY <1>1
<1>3. v = q * p + r /\ r < p
  <2>1. v = p * q + r
    BY <1>2
  <2>2. p * q = q * p
    OBVIOUS
  <2> QED BY <1>1, <1>2, <2>1, <2>2
<1>4. q < 0 => q * p + p <= 0
  <2>1. ASSUME q < 0 PROVE (q + 1) * p <= 0
    <3>1. PICK s \in Nat : q + 1 = -s
      <4>1. -(q + 1) \in Nat /\ q + 1 = -(-(q + 1))
        BY <2>1
      <4> QED BY <4>1
    <3>2. (-s) * p = -(s * p) /\ s * p \in Nat
      OBVIOUS
    <3> QED BY <3>1, <3>2
  <2>2. (q + 1) * p = q * p + p
    OBVIOUS
  <2> QED BY <2>1, <2>2
<1>5. v >= 0 => q >= 0
  <2>1. PICK t \in Int : t = q * p
    OBVIOUS
  <2>2. v = t + r /\ (q < 0 => t + p <= 0)
    BY <1>3, <1>4, <2>1
  <2> QED BY <1>3, <2>2
<1>6. v = (v \div p) * p + (v % p)
  <2>1. IsDivision(v, p, q, r)
    BY <1>3 DEF IsDivision
  <2>2. IsDivision(v, p, v \div p, v % p)
    BY <1>2, <2>1
  <2> QED BY <2>2, Zenon DEF IsDivision
<1>7. v >= 0 => v \div p \in Nat
  BY <1>2, <1>5
<1> QED BY <1>1, <1>6, <1>7

\* They are the only ones.
LEMMA DivisionIs ==
  ASSUME NEW v, NEW p, NEW q, NEW r, IsDivision(v, p, q, r)
  PROVE  v \div p = q /\ v % p = r
<1>1. PICK a \in Nat, b \in Int, d \in Nat : a = p /\ b = q /\ d = r /\ a >= 1 /\ d \in 0 .. a - 1
  BY DEF IsDivision
<1>2. (b * a + d) \div a = b /\ (b * a + d) % a = d
  BY <1>1
<1> QED BY <1>1, <1>2 DEF IsDivision

\* A digit in front of a number below p.
LEMMA InFront ==
  ASSUME NEW p \in Nat, NEW b \in Nat, NEW x \in 0 .. p - 1, NEW d \in 0 .. b - 1
  PROVE  d * p \in Nat /\ x + d * p \in 0 .. p * b - 1
<1>1. PICK e \in Nat : b = d + 1 + e
  <2>1. b - (d + 1) \in Nat /\ b = d + 1 + (b - (d + 1))
    OBVIOUS
  <2> QED BY <2>1
<1>2. p * b = d * p + p + e * p /\ e * p \in Nat /\ d * p \in Nat
  BY <1>1
<1>3. PICK y \in Nat, z \in Nat, t \in Nat : y = d * p /\ z = e * p /\ t = p * b
  BY <1>2
<1>4. t = y + p + z
  BY <1>2, <1>3
<1>5. x + y \in 0 .. t - 1
  BY <1>4
<1> QED BY <1>3, <1>5

\* The weights of digits.
LEMMA Weights ==
  ASSUME NEW c \in Nat
  PROVE  /\ 2 ^ c \in Nat /\ 2 ^ c >= 1
         /\ 2 ^ (c * 0) = 1
         /\ \A k \in Nat : /\ 2 ^ (c * k) \in Nat /\ 2 ^ (c * k) >= 1
                           /\ 2 ^ (c * (k + 1)) = 2 ^ (c * k) * 2 ^ c
<1>1. 2 ^ c \in Nat /\ 2 ^ c >= 1
  BY Powers
<1>2. 2 ^ (c * 0) = 1
  <2>1. c * 0 = 0
    OBVIOUS
  <2> QED BY <2>1, PowerNext
<1>3. ASSUME NEW k \in Nat
      PROVE  /\ 2 ^ (c * k) \in Nat /\ 2 ^ (c * k) >= 1
             /\ 2 ^ (c * (k + 1)) = 2 ^ (c * k) * 2 ^ c
  <2>1. PICK m \in Nat : m = c * k
    OBVIOUS
  <2>2. c * (k + 1) = m + c
    BY <2>1
  <2> QED BY <2>1, <2>2, Powers
<1> QED BY <1>1, <1>2, <1>3

\* The digits d with their weights.
Weighted(q, d, c, n) == \A i \in 0 .. n - 1 : d[i] \in 0 .. 2 ^ c - 1 /\ q[i] = d[i] * 2 ^ (c * i)

\* The number that digits make is below the next weight, and these are its digits.
LEMMA DigitsOf ==
  ASSUME NEW c \in Nat, NEW n \in Nat, NEW d, NEW q, Weighted(q, d, c, n)
  PROVE  /\ Total(q, n) \in 0 .. 2 ^ (c * n) - 1
         /\ \A j \in 0 .. n - 1 : Digit(c, Total(q, n), j) = d[j]
<1> DEFINE P(k) == 2 ^ (c * k)
           b == 2 ^ c
<1>1. b \in Nat /\ b >= 1 /\ P(0) = 1 /\ \A k \in Nat : P(k) \in Nat /\ P(k) >= 1 /\ P(k + 1) = P(k) * b
  BY Weights
<1>2. \A j, m \in Nat : P(j + m) = P(m) * P(j)
  <2>1. ASSUME NEW j \in Nat, NEW m \in Nat PROVE P(j + m) = P(m) * P(j)
    <3>1. PICK x \in Nat, y \in Nat : x = c * m /\ y = c * j
      OBVIOUS
    <3>2. c * (j + m) = x + y
      BY <3>1
    <3> QED BY <3>1, <3>2, Powers
  <2> QED BY <2>1
<1>3. \A i \in 0 .. n - 1 : d[i] \in 0 .. b - 1 /\ q[i] = d[i] * P(i)
  BY DEF Weighted
<1>4. \A j, v : Digit(c, v, j) = (v \div P(j)) % b
  BY DEF Digit
<1> HIDE DEF P, b
<1>5. \A i \in 0 .. n - 1 : q[i] \in Nat
  <2> TAKE i \in 0 .. n - 1
  <2>1. d[i] \in Nat /\ P(i) \in Nat /\ q[i] = d[i] * P(i)
    BY <1>1, <1>3
  <2>2. PICK x \in Nat, y \in Nat : x = d[i] /\ y = P(i)
    BY <2>1
  <2> QED BY <2>1, <2>2
<1>6. PICK o \in [0 .. n -> Nat] :
        o[0] = 0 /\ Total(q, n) = o[n] /\ \A k \in 0 .. n - 1 : o[k + 1] = o[k] + q[k]
  <2>1. Numbers(q, n)
    BY <1>5 DEF Numbers
  <2>2. \E o : Steps(o, q, n)
    BY <2>1, TotalSteps
  <2> QED BY <2>2 DEF Steps
<1>7. \A k \in 0 .. n : o[k] \in 0 .. P(k) - 1
  <2> DEFINE Bad == {k \in 0 .. n : o[k] \notin 0 .. P(k) - 1}
  <2> SUFFICES ASSUME Bad # {} PROVE FALSE
    OBVIOUS
  <2>1. PICK k \in Bad : \A l \in Bad : k <= l
    <3>1. Bad \in SUBSET Nat
      OBVIOUS
    <3> QED BY <3>1, Least
  <2>2. k # 0
    BY <1>1, <1>6, <2>1
  <2>3. k - 1 \in 0 .. n - 1 /\ k - 1 \in 0 .. n /\ ~(k <= k - 1) /\ k - 1 + 1 = k /\ k - 1 \in Nat
    BY <2>1, <2>2
  <2>4. o[k - 1] \in 0 .. P(k - 1) - 1
    BY <2>1, <2>3
  <2>5. o[k] = o[k - 1] + d[k - 1] * P(k - 1) /\ P(k) = P(k - 1) * b /\ P(k - 1) \in Nat
    BY <1>1, <1>3, <1>6, <2>3
  <2>6. d[k - 1] \in 0 .. b - 1
    BY <1>3, <2>3
  <2>7. o[k - 1] + d[k - 1] * P(k - 1) \in 0 .. P(k - 1) * b - 1
    BY <1>1, <2>4, <2>5, <2>6, InFront
  <2> QED BY <2>1, <2>5, <2>7
<1>8. ASSUME NEW j \in 0 .. n - 1 PROVE \A k \in j + 1 .. n : \E m \in Nat : o[k] = o[j + 1] + m * P(j + 1)
  <2> DEFINE Good(k) == \E m \in Nat : o[k] = o[j + 1] + m * P(j + 1)
             Bad == {k \in j + 1 .. n : ~Good(k)}
  <2> SUFFICES ASSUME Bad # {} PROVE FALSE
    OBVIOUS
  <2>1. PICK k \in Bad : \A l \in Bad : k <= l
    <3>1. Bad \in SUBSET Nat
      OBVIOUS
    <3> QED BY <3>1, Least
  <2>2. k # j + 1
    <3>1. j + 1 \in Nat /\ j + 1 \in 0 .. n
      OBVIOUS
    <3>2. P(j + 1) \in Nat /\ o[j + 1] \in Nat
      BY <1>1, <1>6, <3>1
    <3>3. o[j + 1] = o[j + 1] + 0 * P(j + 1)
      BY <3>2
    <3>4. Good(j + 1)
      BY <3>3
    <3> HIDE DEF Good
    <3> QED BY <2>1, <3>4
  <2>3. /\ k - 1 \in j + 1 .. n /\ ~(k <= k - 1) /\ k - 1 + 1 = k /\ k - 1 \in 0 .. n - 1
        /\ k - 1 = j + 1 + (k - 1 - (j + 1)) /\ k - 1 - (j + 1) \in Nat /\ j + 1 \in Nat
        /\ k - 1 \notin Bad
    <3>1. k \in j + 1 .. n
      BY <2>1
    <3>2. k - 1 \in j + 1 .. n /\ ~(k <= k - 1)
      BY <2>2, <3>1
    <3>3. k - 1 \notin Bad
      <4> HIDE DEF Bad
      <4> QED BY <2>1, <3>2
    <3> QED BY <3>2, <3>3
  <2>4. Good(k - 1)
    BY <2>3
  <2>5. PICK m \in Nat : o[k - 1] = o[j + 1] + m * P(j + 1)
    BY <2>4
  <2>6. PICK y \in Nat, z \in Nat : y = P(j + 1) /\ z = P(k - 1 - (j + 1))
    BY <1>1, <2>3
  <2>7. PICK x \in Nat : x = d[k - 1]
    <3>1. d[k - 1] \in 0 .. b - 1
      BY <1>3, <2>3
    <3> QED BY <3>1
  <2>8. P(k - 1) = z * y
    BY <1>2, <2>3, <2>6
  <2>9. o[k] = o[k - 1] + x * (z * y)
    BY <1>3, <1>6, <2>3, <2>7, <2>8
  <2>10. PICK t \in Nat : t = o[j + 1]
    BY <1>6, <2>3
  <2>11. o[k] = t + (m + x * z) * y /\ m + x * z \in Nat
    <3>1. o[k] = t + m * y + x * (z * y)
      BY <2>5, <2>6, <2>9, <2>10
    <3>2. x * (z * y) = (x * z) * y /\ (m + x * z) * y = m * y + (x * z) * y /\ x * z \in Nat
      OBVIOUS
    <3>3. PICK e \in Nat, f \in Nat : e = m * y /\ f = (x * z) * y
      BY <3>2
    <3>4. PICK u \in Nat : u = m + x * z
      <4>1. x * z \in Nat /\ \A a \in Nat : m + a \in Nat
        OBVIOUS
      <4> QED BY <4>1, Zenon
    <3>5. PICK s \in Nat : s = u * y
      OBVIOUS
    <3>6. s = e + f
      BY <3>2, <3>3, <3>4, <3>5
    <3>7. o[k] = t + s
      BY <3>1, <3>2, <3>3, <3>6
    <3> QED BY <3>4, <3>5, <3>7, Zenon
  <2>12. Good(k)
    BY <2>6, <2>10, <2>11
  <2> QED BY <2>1, <2>12
<1>9. ASSUME NEW j \in 0 .. n - 1 PROVE Digit(c, o[n], j) = d[j]
  <2>1. j + 1 \in Nat /\ j \in Nat /\ n \in j + 1 .. n /\ j \in 0 .. n
    OBVIOUS
  <2>2. PICK m \in Nat : o[n] = o[j + 1] + m * P(j + 1)
    BY <1>8, <2>1
  <2>3. o[j + 1] = o[j] + d[j] * P(j) /\ P(j + 1) = P(j) * b
    BY <1>1, <1>3, <1>6, <2>1
  <2>4. PICK x \in 0 .. P(j) - 1, y \in 0 .. b - 1, z \in Nat : x = o[j] /\ y = d[j] /\ z = P(j)
    BY <1>1, <1>3, <1>7, <2>1
  <2>5. o[n] = x + y * z + m * (z * b)
    BY <2>2, <2>3, <2>4
  <2>6. x + y * z + m * (z * b) = (m * b + y) * z + x /\ m * b + y \in Nat
    <3>1. y \in Nat /\ z \in Nat /\ x \in Nat /\ b \in Nat
      BY <1>1, <2>4
    <3>2. m * (z * b) = (m * b) * z /\ (m * b + y) * z = (m * b) * z + y * z /\ m * b \in Nat
      BY <3>1
    <3>3. PICK e \in Nat, f \in Nat : e = (m * b) * z /\ f = y * z
      BY <3>1, <3>2
    <3>4. m * b + y \in Nat
      <4>1. m * b \in Nat /\ \A a \in Nat : a + y \in Nat
        BY <3>1
      <4> QED BY <4>1, Zenon
    <3>5. (m * b + y) * z = e + f /\ m * (z * b) = e
      BY <3>2, <3>3
    <3>6. x + f + e = e + f + x
      BY <3>1
    <3> QED BY <3>3, <3>4, <3>5, <3>6, Zenon
  <2>7. z >= 1 /\ x \in 0 .. z - 1
    BY <1>1, <2>1, <2>4
  <2>8. ((m * b + y) * z + x) \div z = m * b + y
    <3>1. PICK u \in Nat : u = m * b + y
      BY <2>6
    <3>2. IsDivision(u * z + x, z, u, x)
      BY <2>7 DEF IsDivision
    <3> QED BY <3>1, <3>2, DivisionIs
  <2>9. (m * b + y) % b = y
    <3>1. IsDivision(m * b + y, b, m, y)
      BY <1>1 DEF IsDivision
    <3> QED BY <3>1, DivisionIs
  <2> QED BY <1>4, <2>4, <2>5, <2>6, <2>8, <2>9
<1>10. Total(q, n) \in 0 .. P(n) - 1
  BY <1>6, <1>7
<1> QED BY <1>6, <1>9, <1>10 DEF P

\* The digits of v with their weights.
HasDigits(q, v, c, n) ==
  /\ v \in 0 .. 2 ^ (c * n) - 1
  /\ \A i \in 0 .. n - 1 : q[i] = Digit(c, v, i) * 2 ^ (c * i)

\* The digits of a number make it.
LEMMA DigitsMake ==
  ASSUME NEW c \in Nat, NEW n \in Nat, NEW v, NEW q, HasDigits(q, v, c, n)
  PROVE  Total(q, n) = v
<1> DEFINE P(k) == 2 ^ (c * k)
           b == 2 ^ c
<1>1. b \in Nat /\ b >= 1 /\ P(0) = 1 /\ \A k \in Nat : P(k) \in Nat /\ P(k) >= 1 /\ P(k + 1) = P(k) * b
  BY Weights
<1>2. \A i \in 0 .. n - 1 : q[i] = ((v \div P(i)) % b) * P(i)
  BY DEF Digit, HasDigits
<1>3. v \in Nat /\ v < P(n)
  BY <1>1 DEF HasDigits
<1> HIDE DEF P, b
<1>4. \A i \in Nat : v \div P(i) \in Nat /\ (v \div P(i)) % b \in 0 .. b - 1
  <2> TAKE i \in Nat
  <2>1. P(i) \in Nat /\ P(i) >= 1
    BY <1>1
  <2>2. v \div P(i) \in Nat
    <3>1. v \in Int /\ v >= 0
      BY <1>3
    <3> QED BY <2>1, <3>1, Division
  <2>3. v \div P(i) \in Int
    BY <2>2
  <2> QED BY <1>1, <2>2, <2>3, Division
<1>5. \A i \in 0 .. n - 1 : q[i] \in Nat
  <2> TAKE i \in 0 .. n - 1
  <2>1. i \in Nat
    OBVIOUS
  <2>2. PICK x \in Nat, y \in Nat : x = (v \div P(i)) % b /\ y = P(i)
    <3>1. (v \div P(i)) % b \in 0 .. b - 1 /\ P(i) \in Nat
      BY <1>1, <1>4, <2>1
    <3> QED BY <3>1
  <2> QED BY <1>2, <2>2
<1>6. PICK o \in [0 .. n -> Nat] :
        o[0] = 0 /\ Total(q, n) = o[n] /\ \A k \in 0 .. n - 1 : o[k + 1] = o[k] + q[k]
  <2>1. Numbers(q, n)
    BY <1>5 DEF Numbers
  <2>2. \E o : Steps(o, q, n)
    BY <2>1, TotalSteps
  <2> QED BY <2>2 DEF Steps
<1> DEFINE Good(k) == v = (v \div P(k)) * P(k) + o[k]
           Bad == {k \in 0 .. n : ~Good(k)}
<1>7. ASSUME Bad # {} PROVE FALSE
  <2>1. PICK k \in Bad : \A l \in Bad : k <= l
    <3>1. Bad \in SUBSET Nat
      OBVIOUS
    <3> QED BY <1>7, <3>1, Least
  <2>2. k # 0
    <3>1. v \div 1 = v
      BY <1>3
    <3>2. Good(0)
      BY <1>1, <1>3, <1>6, <3>1
    <3> QED BY <2>1, <3>2
  <2>3. k - 1 \in 0 .. n - 1 /\ k - 1 \in 0 .. n /\ ~(k <= k - 1) /\ k - 1 + 1 = k /\ k - 1 \in Nat /\ k \in Nat
    BY <2>1, <2>2
  <2>4. Good(k - 1)
    BY <2>1, <2>3
  <2>5. PICK p \in Nat, s \in Nat, x \in Nat : p = P(k - 1) /\ s = v \div P(k - 1) /\ x = o[k - 1]
    BY <1>1, <1>4, <1>6, <2>3
  <2>6. v = s * p + x /\ p >= 1 /\ P(k) = p * b
    BY <1>1, <2>3, <2>4, <2>5
  <2>7. PICK t \in Nat, r \in 0 .. b - 1 : t = s \div b /\ r = s % b /\ s = t * b + r
    <3>1. s \in Int /\ s >= 0
      OBVIOUS
    <3>2. s \div b \in Nat /\ s % b \in 0 .. b - 1 /\ s = (s \div b) * b + (s % b)
      BY <1>1, <3>1, Division
    <3> QED BY <3>2
  <2>8. o[k] = x + r * p
    BY <1>2, <1>6, <2>3, <2>5, <2>7
  <2>9. x \in 0 .. p - 1
    <3>1. v = (v \div p) * p + (v % p) /\ v % p \in 0 .. p - 1
      BY ONLY <1>3, <2>6, Division, p \in Nat
    <3>2. PICK f \in Nat : f = v % p
      BY <3>1
    <3>3. PICK e \in Nat : e = s * p
      OBVIOUS
    <3>4. v = e + f /\ v = e + x /\ f \in 0 .. p - 1
      <4>1. s = v \div p
        BY <2>5
      <4>2. v = s * p + f
        BY <3>1, <3>2, <4>1
      <4> QED BY <2>6, <3>1, <3>2, <3>3, <4>2
    <3> QED BY <3>4
  <2>10. v = t * (p * b) + (x + r * p)
    <3>1. (t * b + r) * p + x = t * (p * b) + (x + r * p)
      BY <1>1
    <3> QED BY <2>6, <2>7, <3>1
  <2>11. x + r * p \in 0 .. p * b - 1 /\ p * b \in Nat /\ p * b >= 1
    <3>1. x + r * p \in 0 .. p * b - 1
      BY <1>1, <2>9, InFront
    <3>2. p * b = P(k) /\ P(k) \in Nat /\ P(k) >= 1
      BY <1>1, <2>3, <2>6
    <3> QED BY <3>1, <3>2
  <2>12. (t * (p * b) + (x + r * p)) \div (p * b) = t
    <3>1. IsDivision(t * (p * b) + (x + r * p), p * b, t, x + r * p)
      BY <2>11 DEF IsDivision
    <3> QED BY <3>1, DivisionIs
  <2>13. Good(k)
    BY <2>6, <2>8, <2>10, <2>12
  <2> QED BY <2>1, <2>13
<1>8. n \in 0 .. n /\ Good(n)
  BY <1>7
<1>9. v \div P(n) = 0
  <2>1. PICK p \in Nat : p = P(n)
    BY <1>1
  <2>2. v \in 0 .. p - 1 /\ p >= 1
    <3>1. v < p /\ v \in Nat
      BY <1>3, <2>1
    <3> QED BY <3>1
  <2>3. IsDivision(v, p, 0, v)
    BY <1>3, <2>2 DEF IsDivision
  <2> QED BY <2>1, <2>3, DivisionIs
<1>10. o[n] = v
  <2>1. o[n] \in Nat /\ P(n) \in Nat
    BY <1>1, <1>6, <1>8
  <2>2. 0 * P(n) + o[n] = o[n]
    BY <2>1
  <2> QED BY <1>8, <1>9, <2>2
<1> QED BY <1>6, <1>10

\* The number in bytes, as a sum.
LEMMA NumberIsTotal ==
  ASSUME NEW w \in Nat, NEW r, NEW at
  PROVE  NumberAt(r, at, w) = Total([k \in 0 .. w - 1 |-> r[at + k + 1] * 2 ^ (BitsOfByte * k)], w)
<1> DEFINE I == 0 .. w - 1
           q == [k \in I |-> r[at + k + 1] * 2 ^ (BitsOfByte * k)]
           E(it, u) == IF u = {} THEN 0 ELSE LET x == CHOOSE y \in u : TRUE
                                             IN  r[at + x + 1] * 2 ^ (BitsOfByte * x) + it[u \ {x}]
           F(it, u) == IF u = {} THEN 0 ELSE q[Chosen(u)] + it[u \ {Chosen(u)}]
           P(it) == it = [u \in SUBSET I |-> E(it, u)]
<1>1. ASSUME NEW it, NEW u \in SUBSET I PROVE E(it, u) = F(it, u)
  <2>1. CASE u = {}
    BY <2>1
  <2>2. CASE u # {}
    <3>1. PICK x : x = CHOOSE y \in u : TRUE
      OBVIOUS
    <3>2. x \in I
      BY <2>2, <3>1
    <3>3. q[x] = r[at + x + 1] * 2 ^ (BitsOfByte * x)
      BY <3>2
    <3> HIDE DEF q, I
    <3> QED BY <2>2, <3>1, <3>3 DEF Chosen
  <2> QED BY <2>1, <2>2
<1>2. \A it : P(it) <=> Adds(it, q, I)
  <2>1. \A it : Adds(it, q, I) <=> it = [u \in SUBSET I |-> F(it, u)]
    <3> HIDE DEF q, I
    <3> QED BY DEF Adds
  <2>2. ASSUME NEW it PROVE [u \in SUBSET I |-> E(it, u)] = [u \in SUBSET I |-> F(it, u)]
    <3>1. \A u \in SUBSET I : E(it, u) = F(it, u)
      BY <1>1
    <3> HIDE DEF E, F, I
    <3> QED BY <3>1
  <2> HIDE DEF E, F, I
  <2> QED BY <2>1, <2>2
<1> HIDE DEF P, q
<1>3. (CHOOSE it : P(it)) = (CHOOSE it : Adds(it, q, I))
  BY <1>2, Zenon
<1>4. NumberAt(r, at, w) = (CHOOSE it : P(it))[I]
  BY DEF P, NumberAt, MapThenSumSet, MapThenFoldSet
<1>5. Total(q, w) = (CHOOSE it : Adds(it, q, I))[I]
  BY DEF Total
<1> QED BY <1>3, <1>4, <1>5 DEF q

\* Bytes make a number of their width, which has these bytes.
LEMMA BytesOf ==
  ASSUME NEW w \in Nat, NEW r, NEW at, \A k \in 0 .. w - 1 : r[at + k + 1] \in 0 .. ByteBase - 1
  PROVE  /\ NumberAt(r, at, w) \in 0 .. Modulo(w) - 1
         /\ \A k \in 0 .. w - 1 : ByteOf(NumberAt(r, at, w), k) = r[at + k + 1]
<1> DEFINE d == [k \in 0 .. w - 1 |-> r[at + k + 1]]
           q == [k \in 0 .. w - 1 |-> r[at + k + 1] * 2 ^ (BitsOfByte * k)]
<1>1. \A i \in 0 .. w - 1 : d[i] = r[at + i + 1] /\ q[i] = d[i] * 2 ^ (BitsOfByte * i)
  OBVIOUS
<1>2. NumberAt(r, at, w) = Total(q, w)
  BY NumberIsTotal
<1> HIDE DEF d, q
<1>3. \A i \in 0 .. w - 1 : d[i] \in 0 .. 2 ^ BitsOfByte - 1
  BY <1>1 DEF ByteBase
<1>4. Weighted(q, d, BitsOfByte, w)
  BY <1>1, <1>3 DEF Weighted
<1>5. BitsOfByte \in Nat
  BY VectorAssumption
<1>6. /\ Total(q, w) \in 0 .. 2 ^ (BitsOfByte * w) - 1
      /\ \A j \in 0 .. w - 1 : Digit(BitsOfByte, Total(q, w), j) = d[j]
  BY <1>4, <1>5, DigitsOf
<1> QED BY <1>1, <1>2, <1>6 DEF Digit, ByteOf, ByteBase, Modulo

\* The bytes of a number make it.
LEMMA BytesMake ==
  ASSUME NEW w \in Nat, NEW r, NEW at, NEW v \in 0 .. Modulo(w) - 1,
         \A k \in 0 .. w - 1 : r[at + k + 1] = ByteOf(v, k)
  PROVE  NumberAt(r, at, w) = v
<1> DEFINE q == [k \in 0 .. w - 1 |-> r[at + k + 1] * 2 ^ (BitsOfByte * k)]
<1>1. \A i \in 0 .. w - 1 : q[i] = Digit(BitsOfByte, v, i) * 2 ^ (BitsOfByte * i)
  BY DEF Digit, ByteOf, ByteBase
<1>2. NumberAt(r, at, w) = Total(q, w)
  BY NumberIsTotal
<1> HIDE DEF q
<1>3. HasDigits(q, v, BitsOfByte, w)
  BY <1>1 DEF HasDigits, Modulo
<1> QED BY <1>2, <1>3, DigitsMake, VectorAssumption

\* Bytes are bytes.
LEMMA ByteIs == ASSUME NEW v \in Int, NEW k \in Nat PROVE ByteOf(v, k) \in 0 .. ByteBase - 1
<1>1. BitsOfByte \in Nat
  BY VectorAssumption
<1>2. 2 ^ (BitsOfByte * k) \in Nat /\ 2 ^ (BitsOfByte * k) >= 1 /\ ByteBase \in Nat /\ ByteBase >= 1
  BY <1>1, Weights DEF ByteBase
<1>3. v \div 2 ^ (BitsOfByte * k) \in Int
  BY <1>2, Division
<1> QED BY <1>2, <1>3, Division DEF ByteOf

\* Bits of a number.
LEMMA BitIs ==
  ASSUME NEW v \in Int, NEW i \in Nat
  PROVE  Bit(v, i) = Digit(1, v, i) /\ Bit(v, i) \in {0, 1}
<1>1. 2 ^ 1 = 2 /\ 1 * i = i
  <2>1. 2 ^ (0 + 1) = 2 * 2 ^ 0 /\ 0 + 1 = 1 /\ 2 ^ 0 = 1
    BY PowerNext
  <2> QED BY <2>1
<1>2. Bit(v, i) = Digit(1, v, i)
  BY <1>1 DEF Bit, Digit
<1>3. v \div 2 ^ i \in Int
  BY Powers, Division
<1>4. (v \div 2 ^ i) % 2 \in 0 .. 2 - 1
  BY <1>3, Division
<1>5. 0 .. 2 - 1 = {0, 1}
  OBVIOUS
<1> QED BY <1>2, <1>4, <1>5 DEF Bit

\* The bits of a bitwise operation are those the operation gives.
LEMMA BitsOf ==
  ASSUME NEW w \in Nat, NEW op \in {"vand", "vor", "vxor"}, NEW a \in Int, NEW b \in Int
  PROVE  /\ BitwiseOf(op, w, a, b) \in 0 .. Modulo(w) - 1
         /\ \A i \in 0 .. BitsOfByte * w - 1 : Bit(BitwiseOf(op, w, a, b), i) = PerBit(op, Bit(a, i), Bit(b, i))
<1> DEFINE n == BitsOfByte * w
           I == 0 .. n - 1
           d == [i \in I |-> PerBit(op, Bit(a, i), Bit(b, i))]
           q == [i \in I |-> PerBit(op, Bit(a, i), Bit(b, i)) * 2 ^ i]
           E(it, u) == IF u = {} THEN 0 ELSE LET x == CHOOSE y \in u : TRUE
                                             IN  PerBit(op, Bit(a, x), Bit(b, x)) * 2 ^ x + it[u \ {x}]
           F(it, u) == IF u = {} THEN 0 ELSE q[Chosen(u)] + it[u \ {Chosen(u)}]
           P(it) == it = [u \in SUBSET I |-> E(it, u)]
<1>1. n \in Nat
  BY VectorAssumption
<1>2. BitwiseOf(op, w, a, b) = Total(q, n)
  <2>1. ASSUME NEW it, NEW u \in SUBSET I PROVE E(it, u) = F(it, u)
    <3>1. CASE u = {}
      BY <3>1
    <3>2. CASE u # {}
      <4>1. PICK x : x = CHOOSE y \in u : TRUE
        OBVIOUS
      <4>2. x \in I
        BY <3>2, <4>1
      <4>3. q[x] = PerBit(op, Bit(a, x), Bit(b, x)) * 2 ^ x
        BY <4>2
      <4> HIDE DEF q, I
      <4> QED BY <3>2, <4>1, <4>3 DEF Chosen
    <3> QED BY <3>1, <3>2
  <2>2. \A it : P(it) <=> Adds(it, q, I)
    <3>1. \A it : Adds(it, q, I) <=> it = [u \in SUBSET I |-> F(it, u)]
      <4> HIDE DEF q, I
      <4> QED BY DEF Adds
    <3>2. ASSUME NEW it PROVE [u \in SUBSET I |-> E(it, u)] = [u \in SUBSET I |-> F(it, u)]
      <4>1. \A u \in SUBSET I : E(it, u) = F(it, u)
        BY <2>1
      <4> HIDE DEF E, F, I
      <4> QED BY <4>1
    <3> HIDE DEF E, F, I
    <3> QED BY <3>1, <3>2
  <2> HIDE DEF P, q
  <2>3. (CHOOSE it : P(it)) = (CHOOSE it : Adds(it, q, I))
    BY <2>2, Zenon
  <2>4. BitwiseOf(op, w, a, b) = (CHOOSE it : P(it))[I]
    BY DEF P, BitwiseOf, MapThenSumSet, MapThenFoldSet
  <2>5. Total(q, n) = (CHOOSE it : Adds(it, q, I))[I]
    BY DEF Total
  <2> QED BY <2>3, <2>4, <2>5
<1>3. 2 ^ 1 = 2 /\ \A i \in Nat : 1 * i = i
  <2>1. 2 ^ (0 + 1) = 2 * 2 ^ 0 /\ 0 + 1 = 1 /\ 2 ^ 0 = 1
    BY PowerNext
  <2> QED BY <2>1
<1>4. \A i \in I : d[i] = PerBit(op, Bit(a, i), Bit(b, i)) /\ q[i] = d[i] * 2 ^ i /\ i \in Nat
  BY <1>1
<1> HIDE DEF d, q
<1>5. \A i \in I : d[i] \in 0 .. 2 ^ 1 - 1
  <2> TAKE i \in I
  <2>1. Bit(a, i) \in {0, 1} /\ Bit(b, i) \in {0, 1}
    BY <1>4, BitIs
  <2>2. \A x, y \in {0, 1} : PerBit(op, x, y) \in {0, 1}
    BY DEF PerBit
  <2>3. d[i] \in {0, 1}
    BY <1>4, <2>1, <2>2
  <2> QED BY <1>3, <2>3
<1>6. \A i \in I : q[i] = d[i] * 2 ^ (1 * i)
  BY <1>3, <1>4
<1>7. Weighted(q, d, 1, n)
  BY <1>5, <1>6 DEF Weighted
<1>8. Total(q, n) \in 0 .. 2 ^ (1 * n) - 1 /\ \A j \in 0 .. n - 1 : Digit(1, Total(q, n), j) = d[j]
  <2> HIDE DEF n
  <2> QED BY <1>1, <1>7, DigitsOf
<1>9. 1 * n = n
  BY <1>1
<1>10. Total(q, n) \in 0 .. Modulo(w) - 1
  BY <1>8, <1>9 DEF Modulo
<1>11. Total(q, n) \in Int /\ Modulo(w) \in Nat
  <2>1. Modulo(w) \in Nat
    BY <1>1, Powers DEF Modulo
  <2> HIDE DEF n
  <2> QED BY <1>10, <2>1
<1>12. \A i \in I : Bit(Total(q, n), i) = PerBit(op, Bit(a, i), Bit(b, i))
  BY <1>4, <1>8, <1>11, BitIs
<1> QED BY <1>2, <1>10, <1>12

----------------------------------------------------------------------------
(* What each operation makes of two numbers of w bytes.                    *)

\* The numbers of w bytes are as many below half as above.
LEMMA Halves ==
  ASSUME NEW w \in Nat, w >= 1
  PROVE  \E h \in Nat : h >= 1 /\ Modulo(w) = 2 * h
<1>1. BitsOfByte * w \in Nat /\ BitsOfByte * w >= 1
  <2>1. PICK b \in Nat : b = BitsOfByte /\ b >= 1
    BY VectorAssumption
  <2>2. b * w = b + b * (w - 1) /\ b * (w - 1) \in Nat
    <3>1. PICK x \in Nat : w = x + 1
      <4>1. w - 1 \in Nat /\ w = w - 1 + 1
        OBVIOUS
      <4> QED BY <4>1
    <3>2. b * (x + 1) = b + b * x /\ b * x \in Nat
      OBVIOUS
    <3> QED BY <3>1, <3>2
  <2>3. b * w \in Nat /\ b * w >= 1
    <3>1. PICK y \in Nat : y = b * (w - 1)
      BY <2>2
    <3> QED BY <2>1, <2>2, <3>1
  <2> QED BY <2>1, <2>3
<1>2. PICK n \in Nat : n = BitsOfByte * w /\ n >= 1
  BY <1>1
<1>3. 2 ^ n = 2 * 2 ^ (n - 1) /\ 2 ^ (n - 1) \in Nat /\ 2 ^ (n - 1) >= 1
  <2>1. n - 1 \in Nat
    BY <1>2
  <2> QED BY <1>2, <2>1, Powers
<1> QED BY <1>2, <1>3 DEF Modulo

\* A remainder differs from the number by a multiple.
LEMMA Wrapped ==
  ASSUME NEW m \in Nat, m >= 1, NEW y \in Int
  PROVE  y % m \in 0 .. m - 1 /\ \A z : z = (y % m) - y => z % m = 0
<1>1. y \div m \in Int /\ y % m \in 0 .. m - 1 /\ y = (y \div m) * m + (y % m)
  BY Division
<1>2. PICK q \in Int, r \in Nat : q = y \div m /\ r = y % m
  BY <1>1
<1>3. y = q * m + r
  BY <1>1, <1>2
<1>4. (-q) * m + 0 = r - y
  <2>1. PICK e \in Int : e = q * m
    OBVIOUS
  <2>2. (-q) * m = -(q * m)
    OBVIOUS
  <2> QED BY <1>3, <2>1, <2>2
<1>5. IsDivision(r - y, m, -q, 0)
  BY <1>4 DEF IsDivision
<1> QED BY <1>1, <1>2, <1>5, DivisionIs

\* A quotient.
LEMMA Quotient ==
  ASSUME NEW a \in Int, NEW p \in Nat, p >= 1
  PROVE  /\ a \div p \in Int /\ a % p \in 0 .. p - 1 /\ a = (a \div p) * p + (a % p)
         /\ (a \div p) * p <= a /\ a < (a \div p + 1) * p
         /\ a >= 0 => a \div p \in 0 .. a
         /\ a < 0 => a \div p < 0 /\ a <= a \div p
<1>1. a \div p \in Int /\ a % p \in 0 .. p - 1 /\ a = (a \div p) * p + (a % p)
  BY Division
<1>2. PICK q \in Int, r \in Nat : q = a \div p /\ r = a % p
  BY <1>1
<1>3. PICK e \in Int : e = q * p
  OBVIOUS
<1>4. a = e + r /\ r < p
  BY <1>1, <1>2, <1>3
<1>5. (q + 1) * p = e + p
  BY <1>3
<1>6. q >= 0 => e >= q
  <2> SUFFICES ASSUME q >= 0 PROVE e >= q
    OBVIOUS
  <2>1. q \in Nat /\ 1 <= p
    OBVIOUS
  <2>2. 1 * q <= p * q
    BY <2>1, Product
  <2> QED BY <1>3, <2>2
<1>7. q < 0 => a <= q
  <2> SUFFICES ASSUME q < 0 PROVE a <= q
    OBVIOUS
  <2>1. PICK s \in Nat : s = -q - 1
    <3>1. -q - 1 \in Nat
      OBVIOUS
    <3> QED BY <3>1
  <2>2. 1 * s <= p * s /\ p * s \in Nat /\ 1 * s = s
    BY Product
  <2>3. PICK f \in Nat : f = p * s
    BY <2>2
  <2>4. f = -e - p
    <3>1. p * (-q - 1) = -(q * p) - p
      OBVIOUS
    <3> QED BY <1>3, <2>1, <2>3, <3>1
  <2> QED BY <1>4, <2>1, <2>2, <2>3, <2>4
<1>8. q \in Int /\ (a >= 0 => q \in 0 .. a) /\ (a < 0 => q < 0 /\ a <= q)
  BY <1>4, <1>6, <1>7
<1>9. q * p <= a /\ a < (q + 1) * p
  BY <1>3, <1>4, <1>5
<1>10. q = a \div p
  BY <1>2
<1> QED BY <1>1, <1>8, <1>9, <1>10

\* A number of w bytes as a signed one, and back.
LEMMA Signed ==
  ASSUME NEW w \in Nat, NEW h \in Nat, h >= 1, Modulo(w) = 2 * h
  PROVE  /\ \A v \in 0 .. Modulo(w) - 1 :
              /\ AsSigned(v, w) \in -h .. h - 1
              /\ AsSigned(v, w) = IF v >= h THEN v - 2 * h ELSE v
         /\ \A t \in -h .. h - 1 : t % Modulo(w) \in 0 .. Modulo(w) - 1 /\ AsSigned(t % Modulo(w), w) = t
<1>1. ASSUME NEW v \in 0 .. Modulo(w) - 1
      PROVE  /\ AsSigned(v, w) \in -h .. h - 1
             /\ AsSigned(v, w) = IF v >= h THEN v - 2 * h ELSE v
  <2>1. v \in 0 .. 2 * h - 1
    OBVIOUS
  <2>2. AsSigned(v, w) = IF 2 * v >= 2 * h THEN v - 2 * h ELSE v
    BY DEF AsSigned
  <2> QED BY <2>1, <2>2
<1>2. ASSUME NEW t \in -h .. h - 1
      PROVE  t % Modulo(w) \in 0 .. Modulo(w) - 1 /\ AsSigned(t % Modulo(w), w) = t
  <2>1. CASE t >= 0
    <3>1. IsDivision(t, 2 * h, 0, t)
      BY <2>1 DEF IsDivision
    <3>2. t % (2 * h) = t
      BY <3>1, DivisionIs
    <3>3. t \in 0 .. 2 * h - 1
      BY <2>1
    <3> QED BY <1>1, <3>2, <3>3
  <2>2. CASE t < 0
    <3>1. IsDivision(t, 2 * h, -1, t + 2 * h)
      BY <2>2 DEF IsDivision
    <3>2. t % (2 * h) = t + 2 * h
      BY <3>1, DivisionIs
    <3>3. t + 2 * h \in 0 .. 2 * h - 1 /\ t + 2 * h >= h /\ t + 2 * h - 2 * h = t
      BY <2>2
    <3> QED BY <1>1, <3>2, <3>3
  <2> QED BY <2>1, <2>2
<1> QED BY <1>1, <1>2

\* Numbers of w bytes, of which b is not 0 when it divides.
Operands(op, w, a, b) ==
  /\ w \in Nat /\ w >= 1 /\ (op \in FloatOps => w \in {FloatNarrow, CellBytes})
  /\ a \in 0 .. Modulo(w) - 1 /\ b \in 0 .. Modulo(w) - 1
  /\ Dividing(op) => b # 0
\* A result of w bytes that is what the operation means.
Right(op, w, x, a, b) == x \in 0 .. Modulo(w) - 1 /\ Meets(op, w, x, a, b)

\* The operands of an element, its width and the count of its values are numbers.
LEMMA OperandsType ==
  ASSUME NEW op, NEW w, NEW a, NEW b, Operands(op, w, a, b)
  PROVE  w \in Nat /\ w >= 1 /\ Modulo(w) \in Nat /\ Modulo(w) >= 1 /\ a \in Nat /\ b \in Nat
<1>1. w \in Nat /\ w >= 1
  BY DEF Operands
<1>2. BitsOfByte * w \in Nat
  BY <1>1, VectorAssumption
<1>3. Modulo(w) \in Nat /\ Modulo(w) >= 1
  BY <1>2, Powers DEF Modulo
<1> QED BY <1>1, <1>3 DEF Operands

\* Sums, differences, products and negatives wrap.
LEMMA WrapRight ==
  ASSUME NEW op \in {"vadd", "vsub", "vmul", "vneg"}, NEW w, NEW a, NEW b, Operands(op, w, a, b)
  PROVE  Right(op, w, IntOf(op, w, a, b), a, b)
<1> DEFINE m == Modulo(w)
<1>1. m \in Nat /\ m >= 1 /\ a \in Nat /\ b \in Nat
  BY OperandsType
<1> HIDE DEF m
<1>2. a + b \in Int /\ a - b \in Int /\ a * b \in Int /\ -a \in Int
  BY <1>1
<1>3. CASE op = "vadd"
  <2>1. IntOf(op, w, a, b) = (a + b) % m
    BY <1>3 DEF IntOf, m
  <2>2. PICK x : x = (a + b) % m
    OBVIOUS
  <2>3. x \in 0 .. m - 1 /\ x - a - b = x - (a + b)
    <3>1. x \in 0 .. m - 1
      BY <1>1, <1>2, <2>2, Wrapped
    <3> QED BY <1>1, <3>1
  <2>4. (x - a - b) % m = 0
    BY <1>1, <1>2, <2>2, <2>3, Wrapped
  <2> QED BY <1>3, <2>1, <2>2, <2>3, <2>4 DEF Right, Meets, m
<1>4. CASE op = "vsub"
  <2>1. IntOf(op, w, a, b) = (a - b) % m
    BY <1>4 DEF IntOf, m
  <2>2. PICK x : x = (a - b) % m
    OBVIOUS
  <2>3. x \in 0 .. m - 1 /\ x + b - a = x - (a - b)
    BY <1>1, <1>2, <2>2, Wrapped
  <2>4. (x + b - a) % m = 0
    BY <1>1, <1>2, <2>2, <2>3, Wrapped
  <2> QED BY <1>4, <2>1, <2>2, <2>3, <2>4 DEF Right, Meets, m
<1>5. CASE op = "vmul"
  <2>1. IntOf(op, w, a, b) = (a * b) % m
    BY <1>5 DEF IntOf, m
  <2>2. PICK x : x = (a * b) % m
    OBVIOUS
  <2>3. x \in 0 .. m - 1
    BY <1>1, <1>2, <2>2, Wrapped
  <2>4. (x - a * b) % m = 0
    BY <1>1, <1>2, <2>2, Wrapped
  <2> QED BY <1>5, <2>1, <2>2, <2>3, <2>4 DEF Right, Meets, m
<1>6. CASE op = "vneg"
  <2>1. IntOf(op, w, a, b) = (-a) % m
    BY <1>6 DEF IntOf, m
  <2>2. PICK x : x = (-a) % m
    OBVIOUS
  <2>3. x \in 0 .. m - 1 /\ x + a = x - (-a)
    BY <1>1, <1>2, <2>2, Wrapped
  <2>4. (x + a) % m = 0
    BY <1>1, <1>2, <2>2, <2>3, Wrapped
  <2> QED BY <1>6, <2>1, <2>2, <2>3, <2>4 DEF Right, Meets, m
<1> QED BY <1>3, <1>4, <1>5, <1>6

\* Quotients and remainders.
LEMMA DivideRight ==
  ASSUME NEW op \in {"vdiv", "vmod"}, NEW w, NEW a, NEW b, Operands(op, w, a, b)
  PROVE  Right(op, w, IntOf(op, w, a, b), a, b)
<1> DEFINE m == Modulo(w)
<1>1. m \in Nat /\ m >= 1 /\ a \in 0 .. m - 1 /\ b \in 0 .. m - 1
  <2>1. m \in Nat /\ m >= 1
    BY OperandsType
  <2> QED BY <2>1 DEF Operands
<1>2. b # 0
  BY DEF Operands, Dividing
<1> HIDE DEF m
<1>3. a \in Nat /\ b \in Nat /\ b >= 1 /\ a \in Int /\ a >= 0
  BY <1>1, <1>2
<1>4. PICK q \in Nat, r \in Nat : q = a \div b /\ r = a % b
  <2>1. a \div b \in 0 .. a /\ a % b \in 0 .. b - 1
    BY <1>3, Quotient
  <2> QED BY <1>3, <2>1
<1>5. /\ q \in 0 .. a /\ r \in 0 .. b - 1 /\ a = q * b + r /\ q * b <= a /\ a < (q + 1) * b
  BY <1>3, <1>4, Quotient
<1>6. q \in 0 .. m - 1 /\ r \in 0 .. m - 1 /\ r < b
  BY <1>1, <1>3, <1>5
<1>7. CASE op = "vdiv"
  <2>1. IntOf(op, w, a, b) = q
    BY <1>4, <1>7 DEF IntOf
  <2> QED BY <1>5, <1>6, <1>7, <2>1 DEF Right, Meets, m
<1>8. CASE op = "vmod"
  <2>1. IntOf(op, w, a, b) = r
    BY <1>4, <1>8 DEF IntOf
  <2>2. \E s \in 0 .. a : a = s * b + r
    BY <1>5
  <2> QED BY <1>6, <1>8, <2>1, <2>2 DEF Right, Meets, m
<1> QED BY <1>7, <1>8

\* Bits.
LEMMA BitsRight ==
  ASSUME NEW op \in {"vand", "vor", "vxor"}, NEW w, NEW a, NEW b, Operands(op, w, a, b)
  PROVE  Right(op, w, BitwiseOf(op, w, a, b), a, b)
<1>1. w \in Nat /\ a \in Int /\ b \in Int /\ BitsOfByte * w \in Nat
  BY OperandsType, VectorAssumption
<1>2. PICK x : x = BitwiseOf(op, w, a, b)
  OBVIOUS
<1>3. x \in 0 .. Modulo(w) - 1 /\ \A i \in 0 .. BitsOfByte * w - 1 : Bit(x, i) = PerBit(op, Bit(a, i), Bit(b, i))
  BY <1>1, <1>2, BitsOf
<1>4. ASSUME NEW i \in 0 .. BitsOfByte * w - 1
      PROVE  Bit(x, i) = 1 <=> (CASE op = "vand" -> Bit(a, i) = 1 /\ Bit(b, i) = 1
                                  [] op = "vor"  -> Bit(a, i) = 1 \/ Bit(b, i) = 1
                                  [] op = "vxor" -> Bit(a, i) # Bit(b, i))
  <2>1. i \in Nat
    BY <1>1
  <2>2. Bit(a, i) \in {0, 1} /\ Bit(b, i) \in {0, 1}
    BY <1>1, <2>1, BitIs
  <2>3. Bit(x, i) = PerBit(op, Bit(a, i), Bit(b, i))
    BY <1>3
  <2>4. \A y, z \in {0, 1} : /\ PerBit("vand", y, z) = 1 <=> y = 1 /\ z = 1
                             /\ PerBit("vor", y, z) = 1 <=> y = 1 \/ z = 1
                             /\ PerBit("vxor", y, z) = 1 <=> y # z
    BY DEF PerBit
  <2> QED BY <2>2, <2>3, <2>4
<1> QED BY <1>2, <1>3, <1>4 DEF Right, Meets

\* The complement.
LEMMA NotRight ==
  ASSUME NEW w, NEW a, NEW b, Operands("vnot", w, a, b)
  PROVE  Right("vnot", w, NotOf(w, a), a, b)
<1> DEFINE m == Modulo(w)
<1>1. m \in Nat /\ m >= 1 /\ a \in 0 .. m - 1
  <2>1. m \in Nat /\ m >= 1
    BY OperandsType
  <2> QED BY <2>1 DEF Operands
<1> HIDE DEF m
<1>2. IsDivision(-a - 1, m, -1, m - 1 - a)
  BY <1>1 DEF IsDivision
<1>3. (-a - 1) % m = m - 1 - a
  BY <1>2, DivisionIs
<1>4. NotOf(w, a) = m - 1 - a
  BY <1>3 DEF NotOf, m
<1>5. m - 1 - a \in 0 .. m - 1 /\ m - 1 - a + a = m - 1
  BY <1>1
<1> QED BY <1>4, <1>5 DEF Right, Meets, m

\* A count that is less than the width of the element is the one that shifts.
LEMMA CountType ==
  ASSUME NEW w \in Nat, w >= 1, NEW b \in Nat, NEW masked \in BOOLEAN
  PROVE  Count(w, b, masked) \in Nat /\ (b < BitsOfByte * w => Count(w, b, masked) = b)
<1> DEFINE p == Promoted(w)
           n == BitsOfByte * p
<1>1. p \in Nat /\ w <= p /\ BitsOfByte \in Nat /\ BitsOfByte >= 1
  BY VectorAssumption DEF Promoted
<1> HIDE DEF p
<1>2. BitsOfByte * w <= n /\ n \in Nat /\ n >= 1
  <2>1. w * BitsOfByte <= p * BitsOfByte /\ p * BitsOfByte \in Nat /\ 1 * BitsOfByte <= p * BitsOfByte
    BY <1>1, Product
  <2>2. PICK x \in Nat : x = p * BitsOfByte
    BY <2>1
  <2>3. n = x /\ BitsOfByte * w = w * BitsOfByte
    BY <1>1, <2>2
  <2> QED BY <1>1, <2>1, <2>2, <2>3
<1> HIDE DEF n
<1>3. Count(w, b, masked) = IF masked THEN b % n ELSE IF b < n THEN b ELSE n
  BY DEF Count, n, p
<1>4. b % n \in 0 .. n - 1
  <2>1. b \in Int
    OBVIOUS
  <2> QED BY <1>2, <2>1, Division
<1>5. b < n => b % n = b
  <2>1. b < n => IsDivision(b, n, 0, b)
    BY <1>2 DEF IsDivision
  <2> QED BY <2>1, DivisionIs
<1>6. b < BitsOfByte * w => b < n
  <2>1. BitsOfByte * w \in Nat
    BY <1>1
  <2> QED BY <1>2, <2>1
<1> QED BY <1>2, <1>3, <1>4, <1>5, <1>6

\* Shifts.
LEMMA ShiftRight ==
  ASSUME NEW op \in {"vsll", "vsrl", "vsra"}, NEW w, NEW a, NEW b, Operands(op, w, a, b), NEW masked \in BOOLEAN
  PROVE  Right(op, w, Shifted(op, w, a, Count(w, b, masked)), a, b)
<1> DEFINE m == Modulo(w)
<1>1. m \in Nat /\ m >= 1 /\ a \in 0 .. m - 1 /\ w \in Nat /\ w >= 1 /\ b \in Nat
  <2>1. m \in Nat /\ m >= 1 /\ w \in Nat /\ w >= 1 /\ b \in Nat
    BY OperandsType
  <2> QED BY <2>1 DEF Operands
<1>2. PICK n \in Nat : n = Count(w, b, masked) /\ (b < BitsOfByte * w => n = b)
  BY <1>1, CountType
<1>3. PICK p \in Nat : p = 2 ^ n /\ p >= 1
  BY Powers
<1>4. b < BitsOfByte * w => p = 2 ^ b
  BY <1>2, <1>3
<1>5. CASE op = "vsll"
  <2>1. PICK y \in Int : y = a * p
    <3>1. a \in Nat
      BY <1>1
    <3> QED BY <3>1
  <2>2. PICK x : x = y % m
    OBVIOUS
  <2>3. Shifted(op, w, a, Count(w, b, masked)) = x
    BY <1>2, <1>3, <1>5, <2>1, <2>2 DEF Shifted
  <2>4. x \in 0 .. m - 1 /\ (x - y) % m = 0
    BY <1>1, <2>2, Wrapped
  <2>5. b < BitsOfByte * w => (x - a * 2 ^ b) % m = 0
    BY <1>4, <2>1, <2>4
  <2> QED BY <1>5, <2>3, <2>4, <2>5 DEF Right, Meets
<1>6. CASE op = "vsrl"
  <2>1. PICK x : x = a \div p
    OBVIOUS
  <2>2. Shifted(op, w, a, Count(w, b, masked)) = x
    BY <1>2, <1>3, <1>6, <2>1 DEF Shifted
  <2>3. a \in Int /\ a >= 0
    BY <1>1
  <2>4. x \in 0 .. a /\ x * p <= a /\ a < (x + 1) * p
    BY <1>3, <2>1, <2>3, Quotient
  <2>5. x \in 0 .. m - 1
    <3> HIDE DEF m
    <3> QED BY <1>1, <2>4
  <2>6. b < BitsOfByte * w => x * 2 ^ b <= a /\ a < (x + 1) * 2 ^ b
    BY <1>4, <2>4
  <2> QED BY <1>6, <2>2, <2>5, <2>6 DEF Right, Meets
<1>7. CASE op = "vsra"
  <2>1. PICK h \in Nat : h >= 1 /\ Modulo(w) = 2 * h
    BY <1>1, Halves
  <2>2. PICK s \in Int : s = AsSigned(a, w) /\ s \in -h .. h - 1
    <3>1. AsSigned(a, w) \in -h .. h - 1
      BY <1>1, <2>1, Signed
    <3> QED BY <3>1
  <2>3. PICK t \in Int : t = s \div p /\ t * p <= s /\ s < (t + 1) * p /\ (s >= 0 => t \in 0 .. s)
                         /\ (s < 0 => t < 0 /\ s <= t)
    BY <1>3, Quotient
  <2>4. t \in -h .. h - 1
    <3>1. CASE s >= 0
      BY <2>2, <2>3, <3>1
    <3>2. CASE s < 0
      BY <2>1, <2>2, <2>3, <3>2
    <3> QED BY <3>1, <3>2
  <2>5. PICK x : x = t % Modulo(w)
    OBVIOUS
  <2>6. x \in 0 .. m - 1 /\ AsSigned(x, w) = t
    BY <1>1, <2>1, <2>4, <2>5, Signed
  <2>7. Shifted(op, w, a, Count(w, b, masked)) = x
    BY <1>2, <1>3, <1>7, <2>2, <2>3, <2>5 DEF Shifted
  <2>8. b < BitsOfByte * w => t * 2 ^ b <= s /\ s < (t + 1) * 2 ^ b
    BY <1>4, <2>3
  <2> QED BY <1>7, <2>2, <2>6, <2>7, <2>8 DEF Right, Meets
<1> QED BY <1>5, <1>6, <1>7

\* Every operation yields a number of the width of its operands, and the one that it means.
LEMMA LaneRight ==
  ASSUME NEW op \in Arithmetic \cup {"vmov"}, NEW w, NEW a, NEW b, Operands(op, w, a, b), NEW masked \in BOOLEAN
  PROVE  Right(op, w, LaneOf(op, w, a, b, masked), a, b)
<1>1. a \in 0 .. Modulo(w) - 1 /\ b \in 0 .. Modulo(w) - 1
  BY DEF Operands
<1>2. CASE op = "vmov"
  <2>1. LaneOf(op, w, a, b, masked) = b
    BY <1>2 DEF LaneOf, FloatOps
  <2>2. Meets(op, w, b, a, b)
    BY <1>2 DEF Meets
  <2> QED BY <1>1, <2>1, <2>2 DEF Right
<1>3. CASE op \in FloatOps
  <2>1. w \in {FloatNarrow, CellBytes}
    BY <1>3 DEF Operands
  <2>2. FloatOf(op, w, a, b) \in 0 .. Modulo(w) - 1
    BY <1>1, <1>3, <2>1, FloatAssumption
  <2>3. PICK x : x = IF FloatsDefined THEN FloatOf(op, w, a, b) ELSE a
    OBVIOUS
  <2>4. LaneOf(op, w, a, b, masked) = x
    BY <1>3, <2>3 DEF LaneOf, FloatOps
  <2>5. x \in 0 .. Modulo(w) - 1
    BY <1>1, <2>2, <2>3
  <2>6. Meets(op, w, x, a, b) <=> x = IF FloatsDefined THEN FloatOf(op, w, a, b) ELSE a
    BY <1>3 DEF Meets, FloatOps
  <2> QED BY <2>3, <2>4, <2>5, <2>6 DEF Right
<1>4. CASE op \in {"vand", "vor", "vxor"}
  <2>1. LaneOf(op, w, a, b, masked) = BitwiseOf(op, w, a, b)
    BY <1>4 DEF LaneOf, FloatOps
  <2> QED BY <1>4, <2>1, BitsRight
<1>5. CASE op \in {"vsll", "vsrl", "vsra"}
  <2>1. LaneOf(op, w, a, b, masked) = Shifted(op, w, a, Count(w, b, masked))
    BY <1>5 DEF LaneOf, FloatOps
  <2> QED BY <1>5, <2>1, ShiftRight
<1>6. CASE op = "vnot"
  <2>1. LaneOf(op, w, a, b, masked) = NotOf(w, a)
    BY <1>6 DEF LaneOf, FloatOps
  <2> QED BY <1>6, <2>1, NotRight
<1>7. CASE op \in {"vadd", "vsub", "vmul", "vdiv", "vmod", "vneg"}
  <2>1. LaneOf(op, w, a, b, masked) = IntOf(op, w, a, b)
    BY <1>7 DEF LaneOf, FloatOps
  <2>2. CASE op \in {"vdiv", "vmod"}
    BY <2>1, <2>2, DivideRight
  <2>3. CASE op \in {"vadd", "vsub", "vmul", "vneg"}
    BY <2>1, <2>3, WrapRight
  <2> QED BY <1>7, <2>2, <2>3
<1> QED BY <1>2, <1>3, <1>4, <1>5, <1>6, <1>7 DEF Arithmetic

----------------------------------------------------------------------------
(* Every element is what the operation means.                              *)

IsBytes(r) == r \in [1 .. LastByte -> 0 .. ByteBase - 1]

\* Registers hold bytes, and a division that goes on has met no zero.
VInv ==
  /\ LInv
  /\ IsBytes(regs)
  /\ instr # NoInstr =>
       /\ IsBytes(instr.found)
       /\ step \in {"lanes", "dispatch"} /\ Computing /\ Dividing(instr.op) =>
            \A i \in 0 .. lane - 1 : Was(instr.src, i) # 0

\* Lanes and elements have a byte at least.
LEMMA WidthIs ==
  ASSUME IInv, NEW op \in VectorOps
  PROVE  /\ LaneWidth(op) \in Nat /\ LaneWidth(op) >= 1
         /\ op \in FloatOps => LaneWidth(op) \in {FloatNarrow, CellBytes}
<1>1. CellBytes \in Nat /\ CellBytes >= 1 /\ FloatNarrow \in Nat /\ FloatNarrow >= 1
      /\ \A e \in Narrow : e \in Nat /\ e >= 1
  BY VectorAssumption
<1>2. CASE Bytewise(op)
  <2>1. LaneWidth(op) = 1 /\ op \notin FloatOps
    BY <1>2 DEF LaneWidth, Bytewise, FloatOps, FloatTests
  <2> QED BY <2>1
<1>3. CASE op \in FloatOps \cup FloatTests
  <2>1. LaneWidth(op) = FloatWidth(elem_len)
    BY <1>3 DEF LaneWidth, Bytewise, FloatOps, FloatTests
  <2>2. LaneWidth(op) \in {FloatNarrow, CellBytes}
    BY <2>1 DEF FloatWidth
  <2> QED BY <1>1, <2>2
<1>4. CASE ~Bytewise(op) /\ op \notin FloatOps \cup FloatTests
  <2>1. LaneWidth(op) = IntWidth(elem_len)
    BY <1>4 DEF LaneWidth
  <2>2. LaneWidth(op) \in Narrow \cup {CellBytes}
    BY <2>1 DEF IntWidth
  <2> QED BY <1>1, <1>4, <2>2
<1> QED BY <1>2, <1>3, <1>4

\* The bytes of an element lie in the registers.
LEMMA InRegisters ==
  ASSUME NEW n \in Nat, NEW w \in Nat, NEW at \in Nat, at + n * w <= LastByte,
         NEW i \in 0 .. n - 1, NEW k \in 0 .. w - 1
  PROVE  at + i * w + k + 1 \in 1 .. LastByte
<1>1. i * w \in Nat /\ n * w \in Nat /\ at + i * w + k + 1 \in at + 1 .. at + 1 + n * w - 1
  BY LanePlace
<1>2. PICK x \in Nat, y \in Nat : x = i * w /\ y = n * w
  BY <1>1
<1>3. LastByte \in Nat
  BY VectorAssumption DEF LastByte
<1>4. at + x + k + 1 \in 1 .. LastByte
  BY <1>1, <1>2, <1>3
<1> QED BY <1>2, <1>4

\* A lane is a number of its width.
LEMMA LaneNumber ==
  ASSUME LInv, instr # NoInstr, NEW r, IsBytes(r), NEW reg \in {instr.dst, instr.src},
         NEW i \in 0 .. Lanes(instr.op) - 1
  PROVE  Operand(r, reg, i, LaneWidth(instr.op)) \in 0 .. Modulo(LaneWidth(instr.op)) - 1
<1> DEFINE n == Lanes(instr.op)
           w == LaneWidth(instr.op)
<1>1. n \in Nat /\ w \in Nat /\ reg \in Nat /\ reg * CellBytes + n * w <= LastByte
  <2>1. n \in Nat /\ w \in Nat
    BY LaneType DEF LInv, IInv
  <2>2. reg \in Nat /\ Fits(instr.op, reg)
    BY DEF LInv, IInv
  <2> QED BY <2>1, <2>2 DEF Fits
<1>2. PICK at \in Nat : at = reg * CellBytes
  <2>1. reg * CellBytes \in Nat
    BY <1>1, VectorAssumption
  <2> QED BY <2>1
<1> HIDE DEF n, w
<1>3. i \in 0 .. n - 1
  BY DEF n
<1>4. ASSUME NEW k \in 0 .. w - 1 PROVE r[(at + i * w) + k + 1] \in 0 .. ByteBase - 1
  <2>1. at + i * w + k + 1 \in 1 .. LastByte
    BY <1>1, <1>2, <1>3, InRegisters
  <2> QED BY <2>1 DEF IsBytes
<1>5. NumberAt(r, at + i * w, w) \in 0 .. Modulo(w) - 1
  BY <1>1, <1>4, BytesOf
<1> QED BY <1>2, <1>5 DEF Operand, w

\* Lanes of both operands are operands of the operation.
LEMMA LaneOperands ==
  ASSUME LInv, instr # NoInstr, NEW r, IsBytes(r), NEW i \in 0 .. Lanes(instr.op) - 1,
         NEW a, NEW b, a = Operand(r, instr.dst, i, LaneWidth(instr.op)),
         b = Operand(r, instr.src, i, LaneWidth(instr.op)), Dividing(instr.op) => b # 0
  PROVE  Operands(instr.op, LaneWidth(instr.op), a, b)
<1>1. instr.op \in VectorOps /\ IInv
  BY DEF LInv, IInv
<1>2. /\ LaneWidth(instr.op) \in Nat /\ LaneWidth(instr.op) >= 1
      /\ instr.op \in FloatOps => LaneWidth(instr.op) \in {FloatNarrow, CellBytes}
  BY <1>1, WidthIs
<1>3. /\ a \in 0 .. Modulo(LaneWidth(instr.op)) - 1
      /\ b \in 0 .. Modulo(LaneWidth(instr.op)) - 1
  BY LaneNumber
<1> QED BY <1>2, <1>3 DEF Operands

\* The byte at a place in the lanes from lo on, before hi, is of one of them.
InTheLanes(y, lo, hi, w) == y \in lo * w .. hi * w - 1
\* The lane that a byte belongs to, and its place in that lane.
LEMMA LaneAt ==
  ASSUME NEW w \in Nat, w >= 1, NEW lo \in Nat, NEW hi \in Nat, NEW y, InTheLanes(y, lo, hi, w)
  PROVE  /\ y \div w \in lo .. hi - 1 /\ y % w \in 0 .. w - 1
         /\ y = (y \div w) * w + (y % w)
<1>1. lo * w \in Nat /\ hi * w \in Nat
  BY Product
<1>2. PICK e \in Nat, f \in Nat : e = lo * w /\ f = hi * w
  BY <1>1
<1>3. y \in Int /\ y >= 0 /\ e <= y /\ y < f
  BY <1>2 DEF InTheLanes
<1>4. /\ y \div w \in 0 .. y /\ y % w \in 0 .. w - 1 /\ y = (y \div w) * w + (y % w)
      /\ (y \div w) * w <= y /\ y < (y \div w + 1) * w
  BY <1>3, Quotient
<1>5. PICK q \in Nat : q = y \div w
  <2>1. \A z \in 0 .. y : z \in Nat
    BY <1>3
  <2> QED BY <1>4, <2>1, Zenon
<1>6. q * w <= y /\ y < (q + 1) * w /\ q * w \in Nat /\ (q + 1) * w \in Nat
  <2>1. q * w <= y /\ y < (q + 1) * w
    BY <1>4, <1>5, Zenon
  <2>2. q * w \in Nat /\ (q + 1) * w \in Nat
    OBVIOUS
  <2> QED BY <2>1, <2>2
<1>7. q < hi
  <2> SUFFICES ASSUME hi <= q PROVE FALSE
    OBVIOUS
  <2>1. hi * w <= q * w
    BY Product
  <2> QED BY <1>2, <1>3, <1>6, <2>1
<1>8. lo <= q
  <2> SUFFICES ASSUME q + 1 <= lo PROVE FALSE
    OBVIOUS
  <2>1. (q + 1) * w <= lo * w
    BY Product
  <2> QED BY <1>2, <1>3, <1>6, <2>1
<1> QED BY <1>4, <1>5, <1>7, <1>8

\* Setting lanes leaves bytes, and no divisor of theirs is zero.
LEMMA ComputeBytes ==
  ASSUME VInv, ComputeLanes
  PROVE  /\ IsBytes(regs')
         /\ Computing /\ Dividing(instr.op) => \A i \in 0 .. lane' - 1 : Was(instr.src, i) # 0
<1> DEFINE n == Lanes(instr.op)
           w == LaneWidth(instr.op)
           at == instr.dst * CellBytes
<1>1. step = "lanes" /\ instr # NoInstr /\ instr.op \in Arithmetic \cup {"vmov"} /\ LInv /\ IInv
  <2>1. step = "lanes" /\ instr.op \in Arithmetic \cup {"vmov"}
    BY DEF ComputeLanes, InLanes
  <2> QED BY <2>1 DEF VInv, LInv, IInv
<1>2. PICK k \in 1 .. n - lane, masked \in BOOLEAN :
        /\ Dividing(instr.op) => \A i \in lane .. lane + k - 1 : SrcLane(i) # 0
        /\ regs' = Written([i \in lane .. lane + k - 1 |-> LaneOf(instr.op, w, DstLane(i), SrcLane(i), masked)],
                           lane, lane + k - 1)
        /\ lane' = lane + k
  BY DEF ComputeLanes
<1>3. n \in Nat /\ w \in Nat /\ w >= 1 /\ at \in Nat /\ lane \in Nat
  <2>1. n \in Nat /\ w \in Nat /\ w >= 1
    BY <1>1, LaneType, WidthIs DEF IInv
  <2>2. instr.dst \in Nat /\ lane \in 0 .. n
    BY <1>1 DEF LInv, IInv
  <2> HIDE DEF n, w
  <2> QED BY <2>1, <2>2, VectorAssumption
<1>4. k \in Nat /\ lane + k <= n
  <2> HIDE DEF n
  <2> QED BY <1>2, <1>3
<1> DEFINE value == [i \in lane .. lane + k - 1 |-> LaneOf(instr.op, w, DstLane(i), SrcLane(i), masked)]
<1>5. ASSUME NEW i \in lane .. lane + k - 1 PROVE value[i] \in Int
  <2>1. i \in 0 .. n - 1
    <3> HIDE DEF n
    <3> QED BY <1>3, <1>4
  <2>2. Dividing(instr.op) => SrcLane(i) # 0
    BY <1>2
  <2>3. Operands(instr.op, w, DstLane(i), SrcLane(i))
    BY <1>1, <2>1, <2>2, LaneOperands DEF VInv, DstLane, SrcLane
  <2>4. Right(instr.op, w, LaneOf(instr.op, w, DstLane(i), SrcLane(i), masked), DstLane(i), SrcLane(i))
    BY <1>1, <2>3, LaneRight
  <2>5. LaneOf(instr.op, w, DstLane(i), SrcLane(i), masked) \in 0 .. Modulo(w) - 1
    BY <2>4 DEF Right
  <2>6. Modulo(w) \in Nat
    BY <2>3, OperandsType
  <2>7. LaneOf(instr.op, w, DstLane(i), SrcLane(i), masked) \in Int
    <3>1. PICK x : x = LaneOf(instr.op, w, DstLane(i), SrcLane(i), masked)
      OBVIOUS
    <3>2. PICK m \in Nat : m = Modulo(w)
      BY <2>6
    <3>3. x \in 0 .. m - 1
      BY <2>5, <3>1, <3>2
    <3>4. x \in Int
      BY <3>3
    <3> QED BY <3>1, <3>4
  <2> QED BY <2>7
<1>6. regs' = Written(value, lane, lane + k - 1)
  BY <1>2
<1> HIDE DEF value
<1>7. regs' = [p \in 1 .. LastByte |->
         IF p - 1 \in at + lane * w .. at + (lane + k - 1 + 1) * w - 1
         THEN ByteOf(value[(p - 1 - at) \div w], (p - 1 - at) % w)
         ELSE regs[p]]
  BY <1>6 DEF Written
<1> HIDE DEF n, w, at
<1>8. ASSUME NEW p \in 1 .. LastByte, p - 1 \in at + lane * w .. at + (lane + k - 1 + 1) * w - 1
      PROVE  ByteOf(value[(p - 1 - at) \div w], (p - 1 - at) % w) \in 0 .. ByteBase - 1
  <2>1. lane + k - 1 + 1 = lane + k /\ lane + k \in Nat
    BY <1>3, <1>4
  <2>2. PICK x \in Nat, y \in Nat : x = lane * w /\ y = (lane + k) * w
    BY <1>3, <2>1, Product
  <2>3. PICK z \in Int : z = p - 1 - at
    BY <1>3
  <2>4. z \in x .. y - 1
    BY <1>3, <1>8, <2>1, <2>2, <2>3
  <2>5. z \div w \in lane .. lane + k - 1 /\ z % w \in 0 .. w - 1
    <3>1. InTheLanes(z, lane, lane + k, w)
      BY <2>2, <2>4 DEF InTheLanes
    <3> QED BY <1>3, <2>1, <3>1, LaneAt
  <2>6. value[z \div w] \in Int /\ z % w \in Nat
    <3>1. z % w \in Nat
      BY <1>3, <2>5
    <3> QED BY <1>5, <2>5, <3>1
  <2> QED BY <2>3, <2>6, ByteIs
<1>9. \A p \in 1 .. LastByte : regs[p] \in 0 .. ByteBase - 1
  BY DEF VInv, IsBytes
<1>10. IsBytes(regs')
  BY <1>7, <1>8, <1>9 DEF IsBytes
<1>11. ASSUME Computing, Dividing(instr.op), NEW i \in 0 .. lane' - 1 PROVE Was(instr.src, i) # 0
  <2>1. CASE i \in lane .. lane + k - 1
    <3>1. i \in lane .. n - 1
      BY <1>3, <1>4, <2>1
    <3>2. SrcLane(i) = Was(instr.src, i)
      BY <1>1, <1>11, <3>1, LaneFound DEF n
    <3> QED BY <1>2, <1>11, <2>1, <3>2
  <2>2. CASE i \in 0 .. lane - 1
    BY <1>1, <1>11, <2>2 DEF VInv
  <2>3. i \in lane .. lane + k - 1 \/ i \in 0 .. lane - 1
    BY <1>2, <1>3, <1>4
  <2> QED BY <2>1, <2>2, <2>3
<1> QED BY <1>10, <1>11

\* So every step keeps the invariant.
LEMMA VNextKeeps == ASSUME VInv, [VNext]_vvars PROVE VInv'
<1>1. LInv'
  BY ComputeInLanes, TestInLanes, RestInLanes, DispatchInLanes DEF VNext, VectorStep, VStopped, VInv
<1>2. CASE ComputeLanes
  <2>1. UNCHANGED <<vec_len, elem_len, instr, step>> /\ step = "lanes" /\ instr # NoInstr
    <3>1. UNCHANGED <<vec_len, elem_len, instr, step>> /\ step = "lanes"
      BY <1>2 DEF ComputeLanes, InLanes
    <3> QED BY <3>1 DEF VInv, LInv, IInv
  <2>2. \A reg, i : Was(reg, i)' = Was(reg, i)
    BY <2>1, SameMeaning
  <2>3. Computing' = Computing
    BY <2>1, SameMeaning
  <2>4. Dividing(instr.op)' = Dividing(instr.op) /\ IsBytes(instr.found)
    BY <2>1 DEF Dividing, VInv
  <2>5. /\ IsBytes(regs')
        /\ Computing /\ Dividing(instr.op) => \A i \in 0 .. lane' - 1 : Was(instr.src, i) # 0
    BY <1>2, ComputeBytes
  <2>6. instr' = instr /\ instr'.src = instr.src /\ instr'.found = instr.found
    BY <2>1
  <2> QED BY <1>1, <2>2, <2>3, <2>4, <2>5, <2>6 DEF VInv, IsBytes
<1>3. CASE Fetch
  <2>1. PICK op \in VectorOps, dst \in 0 .. Registers - 1, src \in 0 .. Registers - 1 :
          instr' = [op |-> op, dst |-> dst, src |-> src, found |-> regs, cond |-> vcond]
    BY <1>3 DEF Fetch
  <2>2. instr'.found = regs /\ regs' = regs /\ lane' = 0
    BY <1>3, <2>1 DEF Fetch
  <2>3. 0 .. 0 - 1 = {}
    OBVIOUS
  <2>4. IsBytes(regs)
    BY DEF VInv
  <2> QED BY <1>1, <2>2, <2>3, <2>4 DEF VInv, IsBytes
<1>4. CASE SetVlen \/ SetElen
  <2>1. instr' = NoInstr /\ regs' = regs
    BY <1>4 DEF SetVlen, SetElen
  <2> QED BY <1>1, <2>1 DEF VInv, IsBytes
<1>5. CASE UNCHANGED vvars \/ DivideByZero \/ TestLane \/ CompareBytes \/ EndLanes
  <2>1. UNCHANGED <<regs, vec_len, elem_len, instr>>
    BY <1>5 DEF vvars, DivideByZero, TestLane, CompareBytes, EndLanes
  <2>2. \A reg, i : Was(reg, i)' = Was(reg, i)
    BY <2>1, SameMeaning
  <2>3. Computing' = Computing
    BY <2>1, SameMeaning
  <2>4. Dividing(instr.op)' = Dividing(instr.op)
    BY <2>1 DEF Dividing
  <2>5. step' \in {"lanes", "dispatch"} /\ Computing => step \in {"lanes", "dispatch"} /\ lane' = lane
    <3>1. CASE TestLane \/ CompareBytes
      <4>1. instr.op \in Tests \cup {"vcmp"}
        BY <3>1 DEF TestLane, CompareBytes, InLanes
      <4>2. ~Computing
        BY <4>1 DEF Computing, Tests, FloatTests, Arithmetic, FloatOps
      <4> QED BY <4>2
    <3>2. CASE UNCHANGED vvars \/ DivideByZero \/ EndLanes
      BY <3>2 DEF vvars, DivideByZero, EndLanes
    <3> QED BY <1>5, <3>1, <3>2
  <2>6. instr'.src = instr.src /\ instr'.found = instr.found
    BY <2>1
  <2> QED BY <1>1, <2>1, <2>2, <2>3, <2>4, <2>5, <2>6 DEF VInv, IsBytes
<1> QED BY <1>2, <1>3, <1>4, <1>5 DEF VNext, VectorStep, VStopped

\* The lanes of an instruction on elements are its elements.
LEMMA LanesAreElements ==
  ASSUME NEW op \in VectorOps, ~Bytewise(op)
  PROVE  DocumentedWidth(op) = LaneWidth(op) /\ Lanes(op) = vec_len
BY VectorAssumption DEF DocumentedWidth, LaneWidth, FloatWidth, IntWidth, Lanes

\* The elements that an instruction on elements has set are what it means.
LEMMA ElementsMean ==
  ASSUME VInv, Done, Computing, instr.op \in Arithmetic
  PROVE  Computes
<1> DEFINE n == Lanes(instr.op)
           w == LaneWidth(instr.op)
<1>1. LInv /\ IInv /\ instr # NoInstr /\ step = "dispatch" /\ IsBytes(instr.found) /\ lane = n
      /\ instr.op \in VectorOps
  BY DEF VInv, LInv, IInv, Done
<1>2. DocumentedWidth(instr.op) = w /\ n = vec_len
  <2>1. ~Bytewise(instr.op)
    BY DEF Bytewise, Arithmetic, FloatOps
  <2> QED BY <1>1, <2>1, LanesAreElements
<1>3. ASSUME NEW i \in 0 .. vec_len - 1
      PROVE  Meets(instr.op, w, Operand(regs, instr.dst, i, w), Before(instr.dst, i), Before(instr.src, i))
  <2>1. PICK a, b : a = Was(instr.dst, i) /\ b = Was(instr.src, i)
    OBVIOUS
  <2>2. a = Before(instr.dst, i) /\ b = Before(instr.src, i)
    BY <1>2, <2>1 DEF Was, Before
  <2>3. i \in 0 .. Lanes(instr.op) - 1 /\ i \in 0 .. lane - 1
    BY <1>1, <1>2
  <2>4. Dividing(instr.op) => b # 0
    BY <1>1, <2>1, <2>3 DEF VInv
  <2>5. Operands(instr.op, w, a, b)
    BY <1>1, <2>1, <2>3, <2>4, LaneOperands DEF Was
  <2>6. PICK masked \in BOOLEAN : \A k \in 0 .. w - 1 : regs[Place(i, k)] = ByteOf(Meant(i, masked), k)
    <3>1. Set(i)
      BY <1>1, <2>3 DEF LInv
    <3> QED BY <3>1 DEF Set
  <2>7. PICK x : x = LaneOf(instr.op, w, a, b, masked)
    OBVIOUS
  <2>8. Right(instr.op, w, x, a, b)
    BY <2>5, <2>7, LaneRight
  <2>9. Meant(i, masked) = x
    BY <2>1, <2>7 DEF Meant
  <2>10. PICK at : at = instr.dst * CellBytes + i * w
    OBVIOUS
  <2>11. \A k \in 0 .. w - 1 : regs[at + k + 1] = ByteOf(x, k)
    BY <2>6, <2>9, <2>10 DEF Place
  <2>12. NumberAt(regs, at, w) = x
    <3>1. w \in Nat /\ x \in 0 .. Modulo(w) - 1
      BY <2>5, <2>8, OperandsType DEF Right
    <3> HIDE DEF w
    <3> QED BY <2>11, <3>1, BytesMake
  <2>13. Operand(regs, instr.dst, i, w) = x
    BY <2>10, <2>12 DEF Operand
  <2> QED BY <2>2, <2>8, <2>13 DEF Right
<1> HIDE DEF w
<1> QED BY <1>2, <1>3 DEF Computes

\* The number in one byte tells the byte.
LEMMA OneByte ==
  ASSUME NEW r, NEW at \in Nat, r[at + 1] \in 0 .. ByteBase - 1
  PROVE  ByteOf(NumberAt(r, at, 1), 0) = r[at + 1]
<1>1. 0 .. 1 - 1 = {0} /\ at + 0 + 1 = at + 1
  OBVIOUS
<1>2. \A k \in 0 .. 1 - 1 : r[at + k + 1] \in 0 .. ByteBase - 1
  BY <1>1
<1>3. \A k \in 0 .. 1 - 1 : ByteOf(NumberAt(r, at, 1), k) = r[at + k + 1]
  BY <1>2, BytesOf
<1> QED BY <1>1, <1>3

\* Numbers of one byte are the same exactly when the bytes are.
LEMMA SameByte ==
  ASSUME NEW r, NEW at \in Nat, r[at + 1] \in 0 .. ByteBase - 1,
         NEW s, NEW fr \in Nat, s[fr + 1] \in 0 .. ByteBase - 1
  PROVE  NumberAt(r, at, 1) = NumberAt(s, fr, 1) <=> r[at + 1] = s[fr + 1]
<1>1. ByteOf(NumberAt(r, at, 1), 0) = r[at + 1] /\ ByteOf(NumberAt(s, fr, 1), 0) = s[fr + 1]
  BY OneByte
<1>2. ASSUME r[at + 1] = s[fr + 1] PROVE NumberAt(r, at, 1) = NumberAt(s, fr, 1)
  <2>1. 0 .. 1 - 1 = {0} /\ at + 0 + 1 = at + 1 /\ fr + 0 + 1 = fr + 1
    OBVIOUS
  <2>2. \A k \in 0 .. 1 - 1 : r[at + k + 1] = s[fr + k + 1]
    BY <1>2, <2>1
  <2> QED BY <2>2, SameBytes
<1> QED BY <1>1, <1>2

\* The w bytes of r from a on, and of s from b on, are bytes; are the same.
BytesAt(r, a, w)     == \A k \in 0 .. w - 1 : r[a + k + 1] \in 0 .. ByteBase - 1
Alike(r, a, s, b, w) == \A k \in 0 .. w - 1 : r[a + k + 1] = s[b + k + 1]

\* Bytes that are alike stand for the same number.
LEMMA AlikeSame ==
  ASSUME NEW r, NEW s, NEW a, NEW b, NEW w, Alike(r, a, s, b, w)
  PROVE  NumberAt(r, a, w) = NumberAt(s, b, w)
BY SameBytes DEF Alike

\* The same number of the same width has the same bytes.
LEMMA SameAlike ==
  ASSUME NEW r, NEW s, NEW a, NEW b, NEW w \in Nat, BytesAt(r, a, w), BytesAt(s, b, w),
         NumberAt(r, a, w) = NumberAt(s, b, w)
  PROVE  Alike(r, a, s, b, w)
<1>1. \A k \in 0 .. w - 1 : ByteOf(NumberAt(r, a, w), k) = r[a + k + 1]
  BY BytesOf DEF BytesAt
<1>2. \A k \in 0 .. w - 1 : ByteOf(NumberAt(s, b, w), k) = s[b + k + 1]
  BY BytesOf DEF BytesAt
<1> QED BY <1>1, <1>2 DEF Alike

\* The bytes that vmov and vcmp go through.
LEMMA ByteLanes ==
  ASSUME LInv, instr # NoInstr, Bytewise(instr.op), ValidSize
  PROVE  /\ elem_len \in Nat /\ elem_len >= 1 /\ vec_len \in Nat
         /\ LaneWidth(instr.op) = 1 /\ Lanes(instr.op) = vec_len * elem_len
         /\ DocumentedWidth(instr.op) = elem_len
         /\ \A reg \in {instr.dst, instr.src} :
              /\ reg * CellBytes \in Nat
              /\ \A j \in 0 .. vec_len * elem_len - 1 : reg * CellBytes + j + 1 \in 1 .. LastByte
         /\ \A i \in 0 .. vec_len - 1, k \in 0 .. elem_len - 1 :
              i * elem_len \in Nat /\ i * elem_len + k \in 0 .. vec_len * elem_len - 1
<1>1. elem_len \in Nat /\ elem_len >= 1 /\ vec_len \in Nat /\ CellBytes \in Nat
  BY VectorAssumption DEF ValidSize, LInv, IInv
<1>2. LaneWidth(instr.op) = 1 /\ Lanes(instr.op) = vec_len * elem_len
  BY DEF LaneWidth, Lanes, Bytewise, FloatOps, FloatTests
<1>3. DocumentedWidth(instr.op) = elem_len
  BY DEF DocumentedWidth, ValidSize, Bytewise, FloatOps, FloatTests
<1>4. PICK n \in Nat : n = vec_len * elem_len
  BY <1>1
<1>5. ASSUME NEW reg \in {instr.dst, instr.src}, NEW j \in 0 .. vec_len * elem_len - 1
      PROVE  reg * CellBytes + j + 1 \in 1 .. LastByte
  <2>1. PICK at \in Nat : at = reg * CellBytes
    <3>1. reg \in Nat
      BY DEF LInv, IInv
    <3> QED BY <1>1, <3>1
  <2>2. at + n * 1 <= LastByte
    <3>1. Fits(instr.op, reg)
      BY DEF LInv
    <3>2. reg * CellBytes + n * 1 <= LastByte
      BY <1>2, <1>4, <3>1 DEF Fits
    <3> QED BY <2>1, <3>2
  <2>3. j \in 0 .. n - 1 /\ 0 \in 0 .. 1 - 1 /\ j * 1 = j
    BY <1>4
  <2>4. at + j * 1 + 0 + 1 \in 1 .. LastByte
    BY <2>2, <2>3, InRegisters
  <2>5. at + j * 1 + 0 + 1 = at + j + 1
    BY <2>3
  <2> QED BY <2>1, <2>4, <2>5
<1>6. \A reg \in {instr.dst, instr.src} : reg * CellBytes \in Nat
  BY <1>1 DEF LInv, IInv
<1>7. ASSUME NEW i \in 0 .. vec_len - 1, NEW k \in 0 .. elem_len - 1
      PROVE  i * elem_len \in Nat /\ i * elem_len + k \in 0 .. vec_len * elem_len - 1
  <2>1. i * elem_len \in Nat /\ 0 + i * elem_len + k + 1 \in 0 + 1 .. 0 + 1 + vec_len * elem_len - 1
    <3>1. 0 \in Nat
      OBVIOUS
    <3> QED BY <1>1, <3>1, LanePlace
  <2>2. PICK x \in Nat : x = i * elem_len
    BY <2>1
  <2>3. x + k \in 0 .. n - 1
    BY <1>4, <2>1, <2>2
  <2> QED BY <1>4, <2>2, <2>3
<1> QED BY <1>1, <1>2, <1>3, <1>5, <1>6, <1>7

\* vmov has copied every element.
LEMMA ElementsMoved ==
  ASSUME VInv, Done, Computing, instr.op = "vmov", ValidSize
  PROVE  Computes
<1>1. LInv /\ IInv /\ instr # NoInstr /\ step = "dispatch" /\ IsBytes(instr.found) /\ lane = Lanes(instr.op)
      /\ Bytewise(instr.op)
  BY DEF VInv, LInv, Done, Bytewise
<1>2. PICK e \in Nat, at \in Nat, fr \in Nat, n \in Nat :
        e = elem_len /\ at = instr.dst * CellBytes /\ fr = instr.src * CellBytes /\ n = vec_len * elem_len
  <2>1. elem_len \in Nat /\ vec_len \in Nat /\ instr.dst * CellBytes \in Nat /\ instr.src * CellBytes \in Nat
    BY <1>1, ByteLanes
  <2>2. vec_len * elem_len \in Nat
    BY <2>1
  <2> QED BY <2>1, <2>2
<1>3. /\ LaneWidth(instr.op) = 1 /\ Lanes(instr.op) = n /\ DocumentedWidth(instr.op) = e
      /\ \A j \in 0 .. n - 1 : fr + j + 1 \in 1 .. LastByte
      /\ \A i \in 0 .. vec_len - 1, k \in 0 .. e - 1 : i * e \in Nat /\ i * e + k \in 0 .. n - 1
  BY <1>1, <1>2, ByteLanes
<1>4. ASSUME NEW j \in 0 .. n - 1, j \in Nat PROVE regs[at + j + 1] = instr.found[fr + j + 1]
  <2>1. PICK masked \in BOOLEAN : \A k \in 0 .. 1 - 1 : regs[Place(j, k)] = ByteOf(Meant(j, masked), k)
    <3>1. Set(j)
      BY <1>1, <1>3 DEF LInv
    <3> QED BY <1>3, <3>1 DEF Set
  <2>2. 0 \in 0 .. 1 - 1 /\ Place(j, 0) = at + j + 1
    <3>1. Place(j, 0) = at + j * 1 + 0 + 1
      BY <1>2, <1>3 DEF Place
    <3> QED BY <1>4, <3>1
  <2>3. Meant(j, masked) = NumberAt(instr.found, fr + j, 1)
    <3>1. Meant(j, masked) = Was(instr.src, j)
      BY DEF Meant, LaneOf, FloatOps
    <3>2. Was(instr.src, j) = NumberAt(instr.found, fr + j * 1, 1)
      BY <1>2, <1>3 DEF Was, Operand
    <3>3. j * 1 = j
      BY <1>4
    <3> QED BY <3>1, <3>2, <3>3
  <2>4. ByteOf(NumberAt(instr.found, fr + j, 1), 0) = instr.found[fr + j + 1]
    <3>1. fr + j + 1 \in 1 .. LastByte
      BY <1>3
    <3>2. instr.found[fr + j + 1] \in 0 .. ByteBase - 1
      BY <1>1, <3>1 DEF IsBytes
    <3>3. fr + j \in Nat
      BY <1>4
    <3> QED BY <3>2, <3>3, OneByte
  <2> QED BY <2>1, <2>2, <2>3, <2>4
<1>5. ASSUME NEW i \in 0 .. vec_len - 1
      PROVE  Meets(instr.op, e, Operand(regs, instr.dst, i, e), Before(instr.dst, i), Before(instr.src, i))
  <2>1. ASSUME NEW k \in 0 .. e - 1 PROVE regs[(at + i * e) + k + 1] = instr.found[(fr + i * e) + k + 1]
    <3>1. PICK x \in Nat : x = i * e /\ x + k \in 0 .. n - 1
      BY <1>3
    <3>2. x + k \in Nat /\ at + (x + k) + 1 = at + x + k + 1 /\ fr + (x + k) + 1 = fr + x + k + 1
      OBVIOUS
    <3>3. regs[at + (x + k) + 1] = instr.found[fr + (x + k) + 1]
      BY <1>4, <3>1, <3>2
    <3> QED BY <3>1, <3>2, <3>3
  <2>2. NumberAt(regs, at + i * e, e) = NumberAt(instr.found, fr + i * e, e)
    <3>1. Alike(regs, at + i * e, instr.found, fr + i * e, e)
      BY <2>1 DEF Alike
    <3> QED BY <3>1, AlikeSame
  <2>3. Operand(regs, instr.dst, i, e) = Before(instr.src, i)
    BY <1>2, <1>3, <2>2 DEF Operand, Before
  <2>4. \A w, x, a, b : Meets("vmov", w, x, a, b) <=> x = b
    BY DEF Meets
  <2> QED BY <2>3, <2>4
<1> QED BY <1>3, <1>5 DEF Computes

\* vcmp holds when all elements are equal.
LEMMA BytesCompare ==
  ASSUME LInv, instr # NoInstr, IsBytes(instr.found), instr.op = "vcmp", ValidSize
  PROVE  (\A j \in 0 .. Lanes(instr.op) - 1 : Holds(j))
           <=> \A i \in 0 .. vec_len - 1 : Before(instr.dst, i) = Before(instr.src, i)
<1>1. Bytewise(instr.op)
  BY DEF Bytewise
<1>2. PICK e \in Nat, at \in Nat, fr \in Nat, n \in Nat, v \in Nat :
        /\ e = elem_len /\ at = instr.dst * CellBytes /\ fr = instr.src * CellBytes /\ n = v * e
        /\ v = vec_len /\ e >= 1
  <2>1. /\ elem_len \in Nat /\ elem_len >= 1 /\ vec_len \in Nat
        /\ instr.dst * CellBytes \in Nat /\ instr.src * CellBytes \in Nat
    BY <1>1, ByteLanes
  <2>2. vec_len * elem_len \in Nat
    BY <2>1
  <2> QED BY <2>1, <2>2
<1>3. /\ LaneWidth(instr.op) = 1 /\ Lanes(instr.op) = n /\ DocumentedWidth(instr.op) = e
      /\ \A j \in 0 .. n - 1 : at + j + 1 \in 1 .. LastByte /\ fr + j + 1 \in 1 .. LastByte
      /\ \A i \in 0 .. v - 1, k \in 0 .. e - 1 : i * e \in Nat /\ i * e + k \in 0 .. n - 1
  BY <1>1, <1>2, ByteLanes
<1> DEFINE f == instr.found
<1>4. \A j \in 0 .. n - 1 : f[at + j + 1] \in 0 .. ByteBase - 1 /\ f[fr + j + 1] \in 0 .. ByteBase - 1
  BY <1>3 DEF IsBytes
<1>5. ASSUME NEW j \in 0 .. n - 1 PROVE Holds(j) <=> f[at + j + 1] = f[fr + j + 1]
  <2>1. j * 1 = j /\ at + j \in Nat /\ fr + j \in Nat
    OBVIOUS
  <2>2. Was(instr.dst, j) = NumberAt(f, at + j * 1, 1) /\ Was(instr.src, j) = NumberAt(f, fr + j * 1, 1)
    BY <1>2, <1>3 DEF Was, Operand
  <2>3. Holds(j) <=> NumberAt(f, at + j, 1) = NumberAt(f, fr + j, 1)
    BY <2>1, <2>2 DEF Holds
  <2> HIDE DEF f
  <2>4. NumberAt(f, at + j, 1) = NumberAt(f, fr + j, 1) <=> f[at + j + 1] = f[fr + j + 1]
    BY <1>4, <2>1, SameByte
  <2> QED BY <2>3, <2>4
<1>6. \A i : Before(instr.dst, i) = NumberAt(f, at + i * e, e) /\ Before(instr.src, i) = NumberAt(f, fr + i * e, e)
  BY <1>2, <1>3 DEF Before, Operand
<1> HIDE DEF f
<1>7. ASSUME NEW i \in 0 .. v - 1, NEW k \in 0 .. e - 1
      PROVE  /\ i * e + k \in 0 .. n - 1
             /\ at + (i * e + k) + 1 = (at + i * e) + k + 1 /\ fr + (i * e + k) + 1 = (fr + i * e) + k + 1
  <2>1. PICK x \in Nat : x = i * e /\ x + k \in 0 .. n - 1
    BY <1>3
  <2>2. at + (x + k) + 1 = at + x + k + 1 /\ fr + (x + k) + 1 = fr + x + k + 1
    OBVIOUS
  <2> QED BY <2>1, <2>2
\* The bytes of elements that are equal are equal.
<1>8. ASSUME \A i \in 0 .. v - 1 : Before(instr.dst, i) = Before(instr.src, i), NEW j \in 0 .. n - 1
      PROVE  Holds(j)
  <2>1. InTheLanes(j, 0, v, e)
    <3>1. 0 * e = 0
      OBVIOUS
    <3> QED BY <1>2, <3>1 DEF InTheLanes
  <2>2. j \div e \in 0 .. v - 1 /\ j % e \in 0 .. e - 1 /\ j = (j \div e) * e + (j % e)
    BY <1>2, <2>1, LaneAt
  <2>3. PICK i \in 0 .. v - 1, k \in 0 .. e - 1 : j = i * e + k
    BY <2>2
  <2>4. NumberAt(f, at + i * e, e) = NumberAt(f, fr + i * e, e)
    BY <1>6, <1>8
  <2>5. BytesAt(f, at + i * e, e) /\ BytesAt(f, fr + i * e, e)
    BY <1>4, <1>7 DEF BytesAt
  <2>6. f[(at + i * e) + k + 1] = f[(fr + i * e) + k + 1]
    <3>1. Alike(f, at + i * e, f, fr + i * e, e)
      BY <2>4, <2>5, SameAlike
    <3> QED BY <3>1 DEF Alike
  <2>7. f[at + j + 1] = f[fr + j + 1]
    BY <1>7, <2>3, <2>6
  <2> QED BY <1>5, <2>7
\* Elements of equal bytes are equal.
<1>9. ASSUME \A j \in 0 .. n - 1 : Holds(j), NEW i \in 0 .. v - 1
      PROVE  Before(instr.dst, i) = Before(instr.src, i)
  <2>1. ASSUME NEW k \in 0 .. e - 1 PROVE f[(at + i * e) + k + 1] = f[(fr + i * e) + k + 1]
    <3>1. PICK j : j = i * e + k
      OBVIOUS
    <3>2. j \in 0 .. n - 1 /\ at + j + 1 = (at + i * e) + k + 1 /\ fr + j + 1 = (fr + i * e) + k + 1
      BY <1>7, <3>1
    <3>3. f[at + j + 1] = f[fr + j + 1]
      BY <1>5, <1>9, <3>2
    <3> QED BY <3>2, <3>3
  <2>2. Alike(f, at + i * e, f, fr + i * e, e)
    BY <2>1 DEF Alike
  <2> QED BY <1>6, <2>2, AlikeSame
<1> QED BY <1>2, <1>3, <1>8, <1>9

\* Flipping the sign bit orders as the signed numbers are ordered.
LEMMA Flipped ==
  ASSUME NEW w \in Nat, w >= 1, NEW v \in 0 .. Modulo(w) - 1, NEW h \in Nat, h >= 1, Modulo(w) = 2 * h
  PROVE  (v + Modulo(w) \div 2) % Modulo(w) = AsSigned(v, w) + h
<1>1. v \in 0 .. 2 * h - 1
  OBVIOUS
<1>2. Modulo(w) \div 2 = h
  <2>1. IsDivision(2 * h, 2, h, 0)
    BY DEF IsDivision
  <2> QED BY <2>1, DivisionIs
<1>3. AsSigned(v, w) = IF v >= h THEN v - 2 * h ELSE v
  BY Signed
<1>4. CASE v >= h
  <2>1. IsDivision(v + h, 2 * h, 1, v - h)
    BY <1>1, <1>4 DEF IsDivision
  <2>2. (v + h) % (2 * h) = v - h
    BY <2>1, DivisionIs
  <2>3. v - 2 * h + h = v - h
    BY <1>1
  <2> QED BY <1>2, <1>3, <1>4, <2>2, <2>3
<1>5. CASE v < h
  <2>1. IsDivision(v + h, 2 * h, 0, v + h)
    BY <1>1, <1>5 DEF IsDivision
  <2>2. (v + h) % (2 * h) = v + h
    BY <2>1, DivisionIs
  <2>3. ~(v >= h)
    BY <1>1, <1>5
  <2> QED BY <1>2, <1>3, <2>2, <2>3
<1> QED BY <1>1, <1>4, <1>5

\* Every comparison sets the condition to whether all elements satisfy it.
LEMMA ElementsCompare ==
  ASSUME VInv, LanesAsFound, Done, instr.op \in {"vmov", "vcmp"} => ValidSize
  PROVE  Compares
<1>1. LInv /\ IInv /\ instr # NoInstr /\ IsBytes(instr.found) /\ instr.op \in VectorOps
  BY DEF VInv, LInv, IInv, Done
<1>2. vcond = IF Counting(instr.op) THEN \A i \in 0 .. Lanes(instr.op) - 1 : Holds(i) ELSE instr.cond
  BY DEF LanesAsFound
<1>3. CASE instr.op \notin {"vcmp", "vilt", "vile"}
  BY <1>1, <1>3, PlainTests
<1>4. CASE instr.op = "vcmp"
  <2>1. Counting(instr.op) /\ ValidSize
    BY <1>4 DEF Counting, FloatTests
  <2>2. vcond = \A i \in 0 .. vec_len - 1 : Before(instr.dst, i) = Before(instr.src, i)
    BY <1>1, <1>2, <1>4, <2>1, BytesCompare
  <2> QED BY <1>4, <2>2 DEF Compares, FloatTests
<1>5. CASE instr.op \in {"vilt", "vile"}
  <2> DEFINE w == LaneWidth(instr.op)
             D(i) == Before(instr.dst, i)
             S(i) == Before(instr.src, i)
             Flip(v) == (v + Modulo(w) \div 2) % Modulo(w)
  <2>1. Counting(instr.op) /\ ~Bytewise(instr.op) /\ instr.op \notin FloatTests
    BY <1>5 DEF Counting, Tests, FloatTests, Bytewise
  <2>2. DocumentedWidth(instr.op) = w /\ Lanes(instr.op) = vec_len
    BY <1>1, <2>1, LanesAreElements
  <2>3. w \in Nat /\ w >= 1
    BY <1>1, WidthIs
  <2>4. PICK h \in Nat : h >= 1 /\ Modulo(w) = 2 * h
    BY <2>3, Halves
  <2>5. ASSUME NEW i \in 0 .. vec_len - 1
        PROVE  /\ Holds(i) <=> IntHolds(instr.op, w, D(i), S(i))
               /\ D(i) \in 0 .. Modulo(w) - 1 /\ S(i) \in 0 .. Modulo(w) - 1
    <3>1. D(i) = Was(instr.dst, i) /\ S(i) = Was(instr.src, i)
      BY <2>2 DEF Before, Was
    <3>2. Holds(i) <=> IntHolds(instr.op, w, D(i), S(i))
      BY <1>5, <2>1, <3>1 DEF Holds, LaneHolds
    <3>3. i \in 0 .. Lanes(instr.op) - 1
      BY <2>2
    <3>4. Was(instr.dst, i) \in 0 .. Modulo(w) - 1 /\ Was(instr.src, i) \in 0 .. Modulo(w) - 1
      BY <1>1, <3>3, LaneNumber DEF Was
    <3> QED BY <3>1, <3>2, <3>4
  <2>6. ASSUME NEW v \in 0 .. Modulo(w) - 1 PROVE AsSigned(v, w) \in Int /\ Flip(v) = AsSigned(v, w) + h
    <3>1. AsSigned(v, w) \in -h .. h - 1
      BY <2>3, <2>4, Signed
    <3>2. Flip(v) = AsSigned(v, w) + h
      BY <2>3, <2>4, Flipped
    <3> QED BY <3>1, <3>2
  <2> HIDE DEF w, D, S, Flip
  <2>7. ASSUME NEW i \in 0 .. vec_len - 1
        PROVE  Holds(i) <=> IF instr.op = "vilt" THEN Flip(D(i)) < Flip(S(i)) ELSE Flip(D(i)) <= Flip(S(i))
    <3>1. PICK x \in Int, y \in Int : x = AsSigned(D(i), w) /\ y = AsSigned(S(i), w)
      BY <2>5, <2>6
    <3>2. Flip(D(i)) = x + h /\ Flip(S(i)) = y + h
      BY <2>5, <2>6, <3>1
    <3>3. IntHolds(instr.op, w, D(i), S(i)) <=> IF instr.op = "vilt" THEN x < y ELSE x <= y
      BY <1>5, <3>1 DEF IntHolds
    <3>4. (x < y <=> x + h < y + h) /\ (x <= y <=> x + h <= y + h)
      OBVIOUS
    <3> QED BY <2>5, <3>2, <3>3, <3>4
  <2>8. vcond = \A i \in 0 .. vec_len - 1 : Holds(i)
    BY <1>2, <2>1, <2>2
  <2>9. CASE instr.op = "vilt"
    <3>1. vcond = \A i \in 0 .. vec_len - 1 : Flip(D(i)) < Flip(S(i))
      BY <2>7, <2>8, <2>9
    <3> QED BY <2>2, <2>9, <3>1 DEF Compares, FloatTests, Flip, D, S
  <2>10. CASE instr.op = "vile"
    <3>1. vcond = \A i \in 0 .. vec_len - 1 : Flip(D(i)) <= Flip(S(i))
      BY <2>7, <2>8, <2>10
    <3> QED BY <2>2, <2>10, <3>1 DEF Compares, FloatTests, Flip, D, S
  <2> QED BY <1>5, <2>9, <2>10
<1> QED BY <1>3, <1>4, <1>5

\* An instruction on vectors of any length and element size, however the compiler groups the
\* lanes, does to every element what the operation means (tagha.c:1285-1901).
THEOREM VectorsLaneWise == VSpec => []LaneWise
<1>1. VInit => VInv
  <2> SUFFICES ASSUME VInit PROVE VInv
    OBVIOUS
  <2>1. LInv
    BY DEF VInit, LInv, IInv
  <2>2. IsBytes(regs)
    BY VectorAssumption DEF VInit, IsBytes, LastByte, ByteBase
  <2>3. instr = NoInstr
    BY DEF VInit
  <2> QED BY <2>1, <2>2, <2>3 DEF VInv
<1>2. VInv /\ [VNext]_vvars => VInv'
  BY VNextKeeps
<1>3. VInv => LaneWise
  <2> SUFFICES ASSUME VInv, Done, instr.op \in {"vmov", "vcmp"} => ValidSize
               PROVE  (instr.op \in Arithmetic \cup {"vmov"} /\ OperandsApart => Computes) /\ Compares
    BY DEF LaneWise
  <2>1. LanesAsFound
    BY DEF VInv, LInv, LanesAsFound, Done
  <2>2. Compares
    BY <2>1, ElementsCompare
  <2>3. ASSUME instr.op \in Arithmetic \cup {"vmov"}, OperandsApart PROVE Computes
    <3>1. Computing
      BY <2>3 DEF Computing
    <3> QED BY <2>3, <3>1, ElementsMean, ElementsMoved
  <2> QED BY <2>2, <2>3
<1> QED BY <1>1, <1>2, <1>3, PTL DEF VSpec
====
