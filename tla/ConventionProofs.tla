--------------------------- MODULE ConventionProofs ---------------------------
(***************************************************************************)
(* Programs that keep the calling convention return to their callers, stay *)
(* inside both stacks and leave them as they found them: for every such    *)
(* program, every table and every size of the stacks.                      *)
(*                                                                         *)
(* The inductive invariant describes the whole C stack: what each loop has *)
(* open, where the link registers of its functions are saved, and that the *)
(* frames lie one above the other in both stacks.  Its parts are operators *)
(* of the C stack and the memory, so that a step is a lemma about them.    *)
(***************************************************************************)
EXTENDS TaghaVMProofs, Convention, WellFoundedInduction

NoteOf(p, l)    == Notes[p][l.f][l.pc]
InCode(p, l, m) == l.f \in Func /\ l.pc \in DOMAIN p[l.f] /\ OwnerOf(l.f) = m
One(b)          == IF b THEN 1 ELSE 0

\* The innermost function of a loop, and the call stack in use when it is where it is: up to
\* where the function was entered, and the link register it saved, and that of a nested loop.
Inner(fr)    == fr.stk[Len(fr.stk)]
Taken(p, fr) == Inner(fr).csp + One(NoteOf(p, fr.ip).saved) + One(fr.wait = "extern")

\* The functions open in a loop lie one above the other, each with what its note says; the
\* first returns to C, the others to code of the same module, after a call.
LoopOK(p, fr) ==
  /\ Len(fr.stk) >= 1
  /\ InCode(p, fr.ip, fr.tf)
  /\ fr.sp = Inner(fr).sp - NoteOf(p, fr.ip).height
  /\ Taken(p, fr) <= Top - fr.sp
  /\ fr.stk[1].ret = NilV /\ fr.stk[1].csp >= 0
  /\ \A j \in 1 .. Len(fr.stk) : /\ fr.stk[j].csp = fr.stk[1].csp + j - 1
                                 /\ fr.stk[j].sp <= fr.stk[1].sp
                                 /\ fr.stk[j].csp + 1 <= Top - fr.stk[j].sp
  /\ \A j \in 2 .. Len(fr.stk) :
       /\ fr.stk[j].ret.k = "code"
       /\ InCode(p, CodeOf(fr.stk[j].ret), fr.tf)
       /\ NoteOf(p, CodeOf(fr.stk[j].ret)).saved
       /\ fr.stk[j].sp = fr.stk[j - 1].sp - NoteOf(p, CodeOf(fr.stk[j].ret)).height

\* A return address is on the call stack where its function was entered, or still in the
\* link register.
SavedOK(p, fr, m) ==
  \A j \in 1 .. Len(fr.stk) : fr.stk[j].csp < Taken(p, fr) => m[fr.stk[j].csp] = fr.stk[j].ret
LrOK(p, fr, r) == Inner(fr).csp = Taken(p, fr) => r = Inner(fr).ret

\* The module whose tables are in use below a start frame.
Home(cs, d) == IF d <= 2 THEN Vm ELSE cs[d - 2].tf

\* What is under a frame of each kind, and how the frame continues it.
ExecLink(p, cs, d) ==
  \/ /\ cs[d - 1].k = "exec" /\ cs[d - 1].wait = "extern"
     /\ cs[d].stk[1] = Open(NilV, cs[d - 1].sp, Taken(p, cs[d - 1]))
  \/ /\ cs[d - 1].k = "start" /\ cs[d].tf = Home(cs, d - 1)
     /\ cs[d].stk[1] = Open(NilV, cs[d - 1].osp0 - cs[d - 1].cells, cs[d - 1].csp0)
NativeLink(p, cs, d) ==
  \/ /\ cs[d - 1].k = "exec" /\ cs[d - 1].wait = "native"
     /\ cs[d].fn \in Invokes => NoteOf(p, cs[d - 1].ip).saved
  \/ cs[d - 1].k = "start" /\ cs[d - 1].cells = 0 /\ cs[d].left = 0
StartLink(p, cs, d) ==
  \/ d = 1 /\ cs[d].osp0 = Top /\ cs[d].csp0 = 0
  \/ /\ d > 2
     /\ cs[d - 1].k = "native" /\ cs[d - 1].fn \in Invokes
     /\ cs[d - 2].k = "exec"
     /\ cs[d].osp0 <= cs[d - 2].sp /\ cs[d].csp0 = Taken(p, cs[d - 2])
LinkOK(p, cs, d) ==
  /\ cs[d].k = "exec"   => d > 1 /\ ExecLink(p, cs, d)
  /\ cs[d].k = "native" => d > 1 /\ NativeLink(p, cs, d)
  /\ cs[d].k = "start"  => StartLink(p, cs, d)

\* Frame e lies above what loop fr uses of the two stacks.
Above(p, fr, e) ==
  /\ e.k = "exec"  => Taken(p, fr) <= e.stk[1].csp /\ e.stk[1].sp <= fr.sp
  /\ e.k = "start" => Taken(p, fr) <= e.csp0 /\ e.osp0 <= fr.sp

FramesOK(p, cs, m) ==
  \A d \in 1 .. Len(cs) : cs[d].k = "exec" => LoopOK(p, cs[d]) /\ SavedOK(p, cs[d], m)
LinksOK(p, cs) == \A d \in 1 .. Len(cs) : LinkOK(p, cs, d)
OrderOK(p, cs) ==
  \A d \in 1 .. Len(cs) : cs[d].k = "exec" => \A e \in d + 1 .. Len(cs) : Above(p, cs[d], cs[e])
Stacked(p, cs, m) == FramesOK(p, cs, m) /\ LinksOK(p, cs) /\ OrderOK(p, cs)

\* The machine's own registers are those of the top frame, or of the loop that called it.
ExecTop(p, fr, o, c, r, t) ==
  /\ c = Taken(p, fr)
  /\ fr.wait # "native"
  /\ fr.wait = "no" => t = fr.tf /\ LrOK(p, fr, r)
  /\ fr.wait = "extern" => o = fr.sp
NativeTop(p, cs, n, o, c, r, t) ==
  /\ cs[n].k = "exec"  => c = Taken(p, cs[n]) /\ t = cs[n].tf /\ LrOK(p, cs[n], r)
  /\ cs[n].k = "start" => o = cs[n].osp0 /\ c = cs[n].csp0 /\ t = Home(cs, n)
TopOK(p, cs, o, c, r, t) ==
  LET n == Len(cs) IN
  /\ n = 0 => o = Top /\ c = 0 /\ t = Vm
  /\ n > 0 /\ cs[n].k = "exec"   => ExecTop(p, cs[n], o, c, r, t)
  /\ n > 0 /\ cs[n].k = "native" => NativeTop(p, cs, n - 1, o, c, r, t)
  /\ n > 0 /\ cs[n].k = "start"  => o + cs[n].cells = cs[n].osp0 /\ c = cs[n].csp0 /\ t = Home(cs, n)

Orderly == Stacked(code, cstack, mem) /\ TopOK(code, cstack, osp, csp, lr, tabs)
ConventionInv == err = "None" => Orderly /\ osp <= Top
----------------------------------------------------------------------------
(* Loops.                                                                  *)

LEMMA ExecType ==
  ASSUME NEW fr \in SafeFrame, fr.k = "exec"
  PROVE  /\ fr \in ExecFrame
         /\ fr.ip \in Loc /\ fr.sp \in Int /\ fr.sp >= OpBase /\ fr.tf \in Mod /\ fr.wait \in Wait
         /\ fr.stk \in Seq(Opened) /\ Len(fr.stk) \in Nat
         /\ \A j \in 1 .. Len(fr.stk) :
              fr.stk[j] \in Opened /\ fr.stk[j].sp \in Int /\ fr.stk[j].csp \in Int /\ fr.stk[j].ret \in Val
<1>1. fr \in ExecFrame /\ fr.sp >= OpBase
  BY DEF SafeFrame, Frame, StartFrame, NativeFrame, ExecFrame
<1>2. fr.stk \in Seq(Opened)
  BY <1>1 DEF ExecFrame
<1>3. \A j \in 1 .. Len(fr.stk) : fr.stk[j] \in Opened
  BY <1>2, ElementOfSeq
<1>4. QED
  BY <1>1, <1>2, <1>3, LenProperties DEF ExecFrame, Opened

LEMMA NoteType ==
  ASSUME NEW p \in Programs, NEW l, NEW m, InCode(p, l, m)
  PROVE  /\ NoteOf(p, l) \in Note
         /\ NoteOf(p, l).height \in Nat /\ NoteOf(p, l).saved \in BOOLEAN
         /\ FitsAt(p, Notes[p], l.f, l.pc)
<1>1. KeepsConvention(p, Notes[p])
  BY ConventionAssumption
<1>2. p[l.f] \in Seq(Instr) /\ Notes[p][l.f] \in Seq(Note)
  BY <1>1, ConstAssumption DEF InCode, KeepsConvention
<1>3. l.pc \in 1 .. Len(Notes[p][l.f])
  BY <1>1, <1>2, LenProperties DEF InCode, KeepsConvention
<1>4. NoteOf(p, l) \in Note
  BY <1>2, <1>3, ElementOfSeq DEF NoteOf
<1>5. FitsAt(p, Notes[p], l.f, l.pc)
  BY <1>1 DEF InCode, KeepsConvention
<1>6. QED
  BY <1>4, <1>5 DEF Note

\* A loop's functions, from the first to the innermost, go up in both stacks and stay inside.
LEMMA LoopBounds ==
  ASSUME NEW p \in Programs, NEW fr \in SafeFrame, fr.k = "exec", LoopOK(p, fr)
  PROVE  /\ Inner(fr) \in Opened /\ fr.stk[1] \in Opened
         /\ Taken(p, fr) \in Nat
         /\ 0 <= fr.stk[1].csp /\ fr.stk[1].csp <= Inner(fr).csp /\ Inner(fr).csp <= Taken(p, fr)
         /\ fr.sp <= Inner(fr).sp /\ Inner(fr).sp <= fr.stk[1].sp
         /\ \A j \in 1 .. Len(fr.stk) : fr.stk[j].csp \in 0 .. Inner(fr).csp
         /\ Inner(fr).csp < CallCells /\ Taken(p, fr) <= CallCells
         /\ fr.sp <= Top /\ Inner(fr).sp <= Top
<1>1. /\ fr.sp \in Int /\ fr.sp >= OpBase /\ Len(fr.stk) \in Nat
      /\ \A j \in 1 .. Len(fr.stk) :
              fr.stk[j] \in Opened /\ fr.stk[j].sp \in Int /\ fr.stk[j].csp \in Int
  BY ExecType
<1>2. Len(fr.stk) >= 1
  BY DEF LoopOK
<1>3. NoteOf(p, fr.ip).height \in Nat /\ NoteOf(p, fr.ip).saved \in BOOLEAN
  BY NoteType DEF LoopOK
<1>4. 1 \in 1 .. Len(fr.stk) /\ Len(fr.stk) \in 1 .. Len(fr.stk)
  BY <1>1, <1>2
<1>5. /\ Inner(fr) \in Opened /\ fr.stk[1] \in Opened
      /\ Inner(fr).csp \in Int /\ Inner(fr).sp \in Int
      /\ fr.stk[1].csp \in Int /\ fr.stk[1].sp \in Int
  BY <1>1, <1>4 DEF Inner
<1>6. \A j \in 1 .. Len(fr.stk) : fr.stk[j].csp \in 0 .. Inner(fr).csp
  <2>1. fr.stk[1].csp >= 0 /\ \A j \in 1 .. Len(fr.stk) : fr.stk[j].csp = fr.stk[1].csp + j - 1
    BY DEF LoopOK
  <2>2. Inner(fr).csp = fr.stk[1].csp + Len(fr.stk) - 1
    BY <1>4, <2>1 DEF Inner
  <2>3. ASSUME NEW j \in 1 .. Len(fr.stk) PROVE fr.stk[j].csp \in 0 .. Inner(fr).csp
    <3>1. fr.stk[j].csp = fr.stk[1].csp + j - 1 /\ fr.stk[j].csp \in Int
      BY <1>1, <2>1
    <3>2. j \in Int /\ 1 <= j /\ j <= Len(fr.stk)
      BY <1>1
    <3>3. 0 <= fr.stk[j].csp /\ fr.stk[j].csp <= Inner(fr).csp
      BY <1>1, <1>5, <2>1, <2>2, <3>1, <3>2
    <3>4. QED
      BY <1>5, <3>1, <3>3
  <2>4. QED
    BY <2>3
<1>7. Inner(fr).sp <= fr.stk[1].sp /\ Inner(fr).csp + 1 <= Top - Inner(fr).sp
  BY <1>4 DEF LoopOK, Inner
<1>8. fr.sp <= Inner(fr).sp
  BY <1>1, <1>3, <1>5 DEF LoopOK
<1>9. Taken(p, fr) \in Int /\ Inner(fr).csp <= Taken(p, fr)
  BY <1>3, <1>5 DEF Taken, One
<1>10. Taken(p, fr) <= Top - fr.sp
  BY DEF LoopOK
<1>11. CallCells \in Nat /\ OpCells \in Nat /\ OpCells <= CallCells /\ Top = OpBase + OpCells /\ OpBase \in Nat
  BY ConstAssumption, ConventionAssumption, SizesOK DEF Top
<1>12. 0 <= fr.stk[1].csp /\ fr.stk[1].csp <= Inner(fr).csp
  BY <1>4, <1>5, <1>6
<1>13. Inner(fr).csp < CallCells /\ Taken(p, fr) <= CallCells /\ fr.sp <= Top
  <2>1. fr.sp \in Int /\ fr.sp >= OpBase
    BY <1>1
  <2>2. Taken(p, fr) <= CallCells
    BY <1>9, <1>10, <1>11, <2>1
  <2>3. Inner(fr).csp < CallCells
    BY <1>5, <1>7, <1>8, <1>11, <2>1
  <2>4. fr.sp <= Top
    BY <1>5, <1>9, <1>10, <1>11, <1>12, <2>1
  <2>5. QED
    BY <2>2, <2>3, <2>4
<1>14. Inner(fr).sp <= Top
  BY <1>5, <1>7, <1>11, <1>12
<1>15. QED
  BY <1>5, <1>6, <1>7, <1>8, <1>9, <1>12, <1>13, <1>14
----------------------------------------------------------------------------
(* The C stack.                                                            *)

\* m2 holds what m holds below cell c.
Kept(m, m2, c) == \A i \in 0 .. c - 1 : m2[i] = m[i]

LEMMA FrameKinds ==
  ASSUME NEW fr \in Frame
  PROVE  /\ fr.k \in {"start", "exec", "native"}
         /\ fr.k = "start" => fr \in StartFrame
         /\ fr.k = "exec" => fr \in ExecFrame
         /\ fr.k = "native" => fr \in NativeFrame
  BY DEF Frame, StartFrame, ExecFrame, NativeFrame

\* A link looks at the frames up to its own.
LEMMA LinkSame ==
  ASSUME NEW p, NEW cs, NEW cs2, NEW d \in Nat, \A e \in 1 .. d : cs2[e] = cs[e],
         d >= 1, LinkOK(p, cs, d)
  PROVE  LinkOK(p, cs2, d)
<1>1. /\ cs2[d] = cs[d]
      /\ d > 1 => cs2[d - 1] = cs[d - 1] /\ Home(cs2, d - 1) = Home(cs, d - 1)
      /\ d > 2 => cs2[d - 2] = cs[d - 2]
  BY DEF Home
<1>2. QED
  BY <1>1 DEF LinkOK, ExecLink, NativeLink, StartLink

\* Other memory, with the same return addresses.
LEMMA MemStacked ==
  ASSUME NEW p \in Programs, NEW cs \in Seq(SafeFrame), NEW m, NEW m2, NEW c \in Nat,
         Stacked(p, cs, m), Kept(m, m2, c),
         \A d \in 1 .. Len(cs) : cs[d].k = "exec" => Taken(p, cs[d]) <= c
  PROVE  Stacked(p, cs, m2)
<1> SUFFICES ASSUME NEW d \in 1 .. Len(cs), cs[d].k = "exec"
             PROVE  SavedOK(p, cs[d], m2)
  BY DEF Stacked, FramesOK
<1>1. cs[d] \in SafeFrame
  BY ElementOfSeq
<1>2. LoopOK(p, cs[d]) /\ SavedOK(p, cs[d], m) /\ Taken(p, cs[d]) <= c
  BY DEF Stacked, FramesOK
<1>3. /\ Taken(p, cs[d]) \in Nat /\ Inner(cs[d]) \in Opened
      /\ \A j \in 1 .. Len(cs[d].stk) : cs[d].stk[j].csp \in 0 .. Inner(cs[d]).csp
  BY <1>1, <1>2, LoopBounds
<1>4. \A j \in 1 .. Len(cs[d].stk) :
        cs[d].stk[j].csp < Taken(p, cs[d]) => cs[d].stk[j].csp \in 0 .. c - 1
  BY <1>2, <1>3 DEF Opened
<1>5. QED
  BY <1>2, <1>4 DEF SavedOK, Kept

LEMMA Beneath ==
  ASSUME NEW S, NEW cs \in Seq(S), Len(cs) > 0
  PROVE  /\ Len(cs) \in Nat /\ Len(cs) \in 1 .. Len(cs) /\ cs[Len(cs)] \in S
         /\ SubSeq(cs, 1, Len(cs) - 1) \in Seq(S)
         /\ Len(SubSeq(cs, 1, Len(cs) - 1)) = Len(cs) - 1
         /\ \A d \in 1 .. Len(cs) - 1 : SubSeq(cs, 1, Len(cs) - 1)[d] = cs[d]
<1>1. Len(cs) \in Nat /\ Len(cs) \in 1 .. Len(cs)
  BY LenProperties
<1>2. \A d \in 1 .. Len(cs) : cs[d] \in S
  BY ElementOfSeq
<1>3. Len(cs) - 1 \in Int /\ \A d \in 1 .. Len(cs) - 1 : cs[d] \in S
  BY <1>1, <1>2
<1> DEFINE under == SubSeq(cs, 1, Len(cs) - 1)
<1>4. /\ under \in Seq(S)
      /\ Len(under) = IF 1 <= Len(cs) - 1 THEN Len(cs) - 1 - 1 + 1 ELSE 0
      /\ \A d \in 1 .. Len(cs) - 1 - 1 + 1 : under[d] = cs[1 + d - 1]
  BY <1>3, SubSeqProperties
<1> HIDE DEF under
<1>5. Len(under) = Len(cs) - 1
  <2>1. CASE 1 <= Len(cs) - 1
    BY <1>1, <1>4, <2>1
  <2>2. CASE ~(1 <= Len(cs) - 1)
    <3>1. Len(cs) = 1
      <4> DEFINE n == Len(cs)
      <4>1. n \in Nat /\ n > 0
        BY <1>1
      <4> HIDE DEF n
      <4>2. ~(1 <= n - 1)
        BY <2>2 DEF n
      <4>3. n = 1
        BY <4>1, <4>2
      <4>4. QED
        BY <4>3 DEF n
    <3>2. Len(under) = 0
      BY <1>4, <2>2
    <3>3. QED
      BY <3>1, <3>2
  <2>3. QED
    BY <2>1, <2>2
<1>6. \A d \in 1 .. Len(cs) - 1 : under[d] = cs[d]
  <2> TAKE d \in 1 .. Len(cs) - 1
  <2>1. d \in 1 .. Len(cs) - 1 - 1 + 1 /\ 1 + d - 1 = d
    BY <1>1
  <2>2. QED
    BY <1>4, <2>1
<1>7. QED
  BY <1>1, <1>2, <1>4, <1>5, <1>6 DEF under

\* The frame on top returns.
LEMMA PopStacked ==
  ASSUME NEW p, NEW cs \in Seq(SafeFrame), NEW m, Stacked(p, cs, m), Len(cs) > 0
  PROVE  Stacked(p, SubSeq(cs, 1, Len(cs) - 1), m)
<1> DEFINE cs2 == SubSeq(cs, 1, Len(cs) - 1)
<1>1. Len(cs) \in Nat /\ Len(cs2) = Len(cs) - 1 /\ \A d \in 1 .. Len(cs2) : cs2[d] = cs[d]
  BY Beneath
<1> HIDE DEF cs2
<1>2. FramesOK(p, cs2, m) /\ OrderOK(p, cs2)
  BY <1>1 DEF Stacked, FramesOK, OrderOK
<1>3. LinksOK(p, cs2)
  BY <1>1, LinkSame DEF Stacked, LinksOK
<1>4. QED
  BY <1>2, <1>3 DEF Stacked, cs2

\* Another frame on top.
LEMMA PushStacked ==
  ASSUME NEW p, NEW cs \in Seq(SafeFrame), NEW m, Stacked(p, cs, m), NEW fr \in SafeFrame,
         fr.k = "exec" => LoopOK(p, fr) /\ SavedOK(p, fr, m),
         LinkOK(p, Append(cs, fr), Len(cs) + 1),
         \A d \in 1 .. Len(cs) : cs[d].k = "exec" => Above(p, cs[d], fr)
  PROVE  Stacked(p, Append(cs, fr), m)
<1> DEFINE cs2 == Append(cs, fr)
<1>1. /\ Len(cs) \in Nat /\ Len(cs2) = Len(cs) + 1 /\ cs2[Len(cs2)] = fr
      /\ \A d \in 1 .. Len(cs) : cs2[d] = cs[d]
  BY LenProperties, AppendProperties
<1> HIDE DEF cs2
<1>2. FramesOK(p, cs2, m) /\ OrderOK(p, cs2)
  BY <1>1 DEF Stacked, FramesOK, OrderOK
<1>3. \A d \in 1 .. Len(cs) : LinkOK(p, cs2, d)
  BY <1>1, LinkSame DEF Stacked, LinksOK
<1>4. LinkOK(p, cs2, Len(cs) + 1)
  BY DEF cs2
<1>5. LinksOK(p, cs2)
  BY <1>1, <1>3, <1>4 DEF LinksOK
<1>6. QED
  BY <1>2, <1>5 DEF Stacked, cs2

\* The frame on top goes on: a loop whose first function and module stay, or a native.
LEMMA SwapStacked ==
  ASSUME NEW p \in Programs, NEW cs \in Seq(SafeFrame), NEW m, Stacked(p, cs, m), Len(cs) > 0,
         NEW fr \in SafeFrame, NEW m2, NEW c \in Nat, Kept(m, m2, c),
         fr.k = cs[Len(cs)].k,
         \/ /\ fr.k = "exec" /\ fr.tf = cs[Len(cs)].tf /\ fr.stk[1] = cs[Len(cs)].stk[1]
            /\ LoopOK(p, fr) /\ SavedOK(p, fr, m2)
            /\ c >= fr.stk[1].csp
         \/ /\ fr.k = "native" /\ fr.fn = cs[Len(cs)].fn /\ m2 = m
            /\ cs[Len(cs)].left = 0 => fr.left = 0
  PROVE  Stacked(p, [cs EXCEPT ![Len(cs)] = fr], m2)
<1> DEFINE n    == Len(cs)
           base == SubSeq(cs, 1, n - 1)
<1>1. /\ n \in Nat /\ n \in 1 .. n /\ base \in Seq(SafeFrame) /\ Len(base) = n - 1
      /\ \A d \in 1 .. n - 1 : base[d] = cs[d]
  BY Beneath
<1>2. [cs EXCEPT ![n] = fr] = Append(base, fr)
  <2>1. [cs EXCEPT ![n] = fr] \in Seq(SafeFrame) /\ Len([cs EXCEPT ![n] = fr]) = n
    BY <1>1, ExceptSeq
  <2>2. \A j \in 1 .. n : [cs EXCEPT ![n] = fr][j] = IF j = n THEN fr ELSE cs[j]
    BY <1>1, ExceptSeq
  <2>3. Append(base, fr) \in Seq(SafeFrame) /\ Len(Append(base, fr)) = n
    BY <1>1, AppendProperties
  <2>4. \A j \in 1 .. n : Append(base, fr)[j] = IF j = n THEN fr ELSE cs[j]
    BY <1>1, AppendProperties
  <2> DEFINE s == [cs EXCEPT ![n] = fr]  t == Append(base, fr)
  <2> HIDE DEF s, t
  <2>5. s \in Seq(SafeFrame) /\ t \in Seq(SafeFrame) /\ Len(s) = Len(t)
    BY <2>1, <2>3 DEF s, t
  <2>6. \A j \in 1 .. Len(s) : s[j] = t[j]
    BY <2>1, <2>2, <2>4 DEF s, t
  <2>7. s = t
    BY <2>5, <2>6, SeqEqual
  <2>8. QED
    BY <2>7 DEF s, t
<1>3. Stacked(p, base, m)
  BY PopStacked
<1> HIDE DEF base
<1>4. Stacked(p, base, m2)
  <2>1. CASE m2 = m
    BY <1>3, <2>1
  <2>2. CASE fr.k = "exec" /\ fr.stk[1] = cs[n].stk[1] /\ c >= fr.stk[1].csp /\ LoopOK(p, fr)
    <3>1. fr.stk[1].csp \in Nat
      BY <2>2, LoopBounds DEF Opened
    <3>2. \A d \in 1 .. n - 1 : cs[d].k = "exec" => Taken(p, cs[d]) <= fr.stk[1].csp
      <4> SUFFICES ASSUME NEW d \in 1 .. n - 1, cs[d].k = "exec"
                   PROVE  Taken(p, cs[d]) <= cs[n].stk[1].csp
        BY <2>2
      <4>1. Above(p, cs[d], cs[n])
        BY <1>1 DEF Stacked, OrderOK
      <4>2. QED
        BY <2>2, <4>1 DEF Above
    <3>3. Kept(m, m2, fr.stk[1].csp)
      BY <2>2, <3>1 DEF Kept
    <3>4. QED
      BY SMTT(30), <1>1, <1>3, <3>1, <3>2, <3>3, MemStacked
  <2>3. QED
    BY <2>1, <2>2
<1>5. \A d \in 1 .. Len(base) : base[d].k = "exec" => Above(p, base[d], fr)
  <2> SUFFICES ASSUME NEW d \in 1 .. n - 1, cs[d].k = "exec"
               PROVE  Above(p, cs[d], fr)
    BY <1>1
  <2>1. Above(p, cs[d], cs[n])
    BY <1>1 DEF Stacked, OrderOK
  <2>2. CASE fr.k = "exec" /\ fr.stk[1] = cs[n].stk[1]
    <3>1. cs[n].k = "exec"
      BY <2>2
    <3>2. Taken(p, cs[d]) <= cs[n].stk[1].csp /\ cs[n].stk[1].sp <= cs[d].sp
      BY <2>1, <3>1 DEF Above
    <3>3. QED
      BY <2>2, <3>2 DEF Above
  <2>3. CASE fr.k = "native"
    BY <2>3 DEF Above
  <2>4. QED
    BY <2>2, <2>3
<1>6. LinkOK(p, Append(base, fr), n)
  <2> DEFINE cs2 == Append(base, fr)
  <2>1. LinkOK(p, cs, n)
    BY <1>1 DEF Stacked, LinksOK
  <2>2. cs2[n] = fr /\ \A d \in 1 .. n - 1 : cs2[d] = cs[d]
    BY <1>1, AppendProperties
  <2> HIDE DEF cs2
  <2>3. n > 1 => cs2[n - 1] = cs[n - 1] /\ Home(cs2, n - 1) = Home(cs, n - 1)
    <3>1. n > 1 => n - 1 \in 1 .. n - 1
      BY <1>1
    <3>2. (n - 1) - 2 \in 1 .. n - 1 \/ n - 1 <= 2
      BY <1>1
    <3>3. Home(cs2, n - 1) = Home(cs, n - 1)
      BY <2>2, <3>2 DEF Home
    <3>4. QED
      BY <2>2, <3>1, <3>3
  <2>4. fr.k = "exec" => LinkOK(p, cs2, n)
    <3> HAVE fr.k = "exec"
    <3>1. n > 1 /\ ExecLink(p, cs, n)
      BY <2>1 DEF LinkOK
    <3>2. fr.tf = cs[n].tf /\ fr.stk[1] = cs[n].stk[1]
      OBVIOUS
    <3>3. ExecLink(p, cs2, n)
      BY <2>2, <2>3, <3>1, <3>2 DEF ExecLink
    <3>4. QED
      BY <2>2, <3>1, <3>3 DEF LinkOK
  <2>5. fr.k = "native" => LinkOK(p, cs2, n)
    <3> HAVE fr.k = "native"
    <3>1. n > 1 /\ NativeLink(p, cs, n)
      BY <2>1 DEF LinkOK
    <3>2. fr.fn = cs[n].fn /\ (cs[n].left = 0 => fr.left = 0)
      OBVIOUS
    <3>3. NativeLink(p, cs2, n)
      BY <2>2, <2>3, <3>1, <3>2 DEF NativeLink
    <3>4. QED
      BY <2>2, <3>1, <3>3 DEF LinkOK
  <2>6. QED
    BY <2>4, <2>5 DEF cs2
<1>7. fr.k = "exec" => LoopOK(p, fr) /\ SavedOK(p, fr, m2)
  OBVIOUS
<1>8. LinkOK(p, Append(base, fr), Len(base) + 1)
  BY <1>1, <1>6
<1>9. Stacked(p, Append(base, fr), m2)
  BY <1>1, <1>4, <1>5, <1>7, <1>8, PushStacked
<1>10. QED
  BY <1>2, <1>9
----------------------------------------------------------------------------
(* The running loop.                                                       *)

LEMMA CodeType == ASSUME StackInv PROVE code \in Programs /\ cstack \in Seq(SafeFrame)
  BY DEF StackInv, TypeOK

LEMMA TopLoop ==
  ASSUME StackInv, Orderly, Depth > 0, Running.k = "exec"
  PROVE  /\ Running \in SafeFrame
         /\ LoopOK(code, Running) /\ SavedOK(code, Running, mem)
         /\ ExecTop(code, Running, osp, csp, lr, tabs)
<1>1. Running \in SafeFrame /\ Depth \in 1 .. Len(cstack)
  BY RunningFrame
<1>2. LoopOK(code, Running) /\ SavedOK(code, Running, mem)
  BY <1>1 DEF Orderly, Stacked, FramesOK, Running
<1>3. ExecTop(code, Running, osp, csp, lr, tabs)
  BY DEF Orderly, TopOK, Running, Depth
<1>4. QED
  BY <1>1, <1>2, <1>3

\* A loop executes an instruction that agrees with its note.
LEMMA Current ==
  ASSUME StackInv, Orderly, Executing
  PROVE  /\ InCode(code, Running.ip, Running.tf)
         /\ NoteOf(code, Running.ip).height \in Nat /\ NoteOf(code, Running.ip).saved \in BOOLEAN
         /\ FitsAt(code, Notes[code], Running.ip.f, Running.ip.pc)
         /\ Running.sp = Inner(Running).sp - NoteOf(code, Running.ip).height
         /\ csp = Inner(Running).csp + One(NoteOf(code, Running.ip).saved)
         /\ Taken(code, Running) = csp
         /\ tabs = Running.tf
         /\ ~NoteOf(code, Running.ip).saved => lr = Inner(Running).ret
         /\ NoteOf(code, Running.ip).saved => mem[Inner(Running).csp] = Inner(Running).ret
<1>1. /\ Running \in SafeFrame /\ Running.k = "exec" /\ Running.wait = "no"
      /\ LoopOK(code, Running) /\ SavedOK(code, Running, mem)
      /\ ExecTop(code, Running, osp, csp, lr, tabs)
  BY TopLoop DEF Executing
<1>2. InCode(code, Running.ip, Running.tf) /\ Running.sp = Inner(Running).sp - NoteOf(code, Running.ip).height
  BY <1>1 DEF LoopOK
<1>3. /\ NoteOf(code, Running.ip).height \in Nat /\ NoteOf(code, Running.ip).saved \in BOOLEAN
      /\ FitsAt(code, Notes[code], Running.ip.f, Running.ip.pc)
  BY <1>2, NoteType, CodeType
<1>4. Inner(Running).csp \in Int /\ Len(Running.stk) \in 1 .. Len(Running.stk)
  <2>1. Inner(Running) \in Opened
    BY <1>1, CodeType, LoopBounds
  <2>2. Len(Running.stk) \in Nat /\ Len(Running.stk) >= 1
    BY <1>1, ExecType DEF LoopOK
  <2>3. QED
    BY <2>1, <2>2 DEF Opened
<1>5. Taken(code, Running) = Inner(Running).csp + One(NoteOf(code, Running.ip).saved)
  BY <1>1, <1>3, <1>4 DEF Taken, One
<1>6. csp = Taken(code, Running) /\ tabs = Running.tf /\ LrOK(code, Running, lr)
  BY <1>1 DEF ExecTop
<1>7. ~NoteOf(code, Running.ip).saved => lr = Inner(Running).ret
  BY <1>4, <1>5, <1>6 DEF LrOK, One
<1>8. NoteOf(code, Running.ip).saved => mem[Inner(Running).csp] = Inner(Running).ret
  <2> HAVE NoteOf(code, Running.ip).saved
  <2>1. Inner(Running).csp < Taken(code, Running)
    BY <1>4, <1>5 DEF One
  <2>2. QED
    BY <1>1, <1>4, <2>1 DEF SavedOK, Inner
<1>9. QED
  BY <1>2, <1>3, <1>5, <1>6, <1>7, <1>8

\* The top loop goes on as fr, and nothing else of the C stack changes.
LEMMA TopGoesOn ==
  ASSUME StackInv, Orderly, Depth > 0, Running.k = "exec",
         NEW fr \in SafeFrame, fr.k = "exec", fr.wait = "no", fr.tf = Running.tf,
         fr.stk[1] = Running.stk[1], LoopOK(code, fr), SavedOK(code, fr, mem'),
         cstack' = [cstack EXCEPT ![Depth] = fr],
         NEW c \in Nat, Kept(mem, mem', c), c >= Running.stk[1].csp,
         code' = code, csp' = Taken(code, fr), tabs' = Running.tf, LrOK(code, fr, lr')
  PROVE  Orderly'
<1>1. Depth = Len(cstack) /\ Depth \in 1 .. Len(cstack) /\ Running = cstack[Len(cstack)]
  BY RunningFrame DEF Depth, Running
<1>2. Stacked(code, cstack', mem')
  <2>1. Stacked(code, cstack, mem)
    BY DEF Orderly
  <2>2. QED
    BY <1>1, <2>1, CodeType, SwapStacked
<1>3. Len(cstack') = Depth /\ cstack'[Depth] = fr
  BY <1>1, CodeType, ExceptSeq
<1>4. TopOK(code, cstack', osp', csp', lr', tabs')
  BY <1>1, <1>3 DEF TopOK, ExecTop
<1>5. QED
  BY <1>2, <1>4 DEF Orderly

\* The loop at another place, in the same functions.
Moved(fr, ip, sp, w) == [fr EXCEPT !.ip = ip, !.sp = sp, !.wait = w]

\* What only depends on the functions that are open.
LEMMA LoopMoves ==
  ASSUME NEW p \in Programs, NEW fr \in SafeFrame, fr.k = "exec", LoopOK(p, fr),
         NEW ip \in Loc, InCode(p, ip, fr.tf), NEW w \in Wait,
         NEW sp \in Int, sp >= OpBase, sp = Inner(fr).sp - NoteOf(p, ip).height,
         w = "extern" => Inner(fr).csp + One(NoteOf(p, ip).saved) + 1 <= Top - sp,
         NEW go, go = Moved(fr, ip, sp, w)
  PROVE  /\ go \in SafeFrame /\ go.k = "exec" /\ go.wait = w /\ go.tf = fr.tf /\ go.stk = fr.stk
         /\ go.sp = sp /\ go.ip = ip
         /\ Inner(go) = Inner(fr)
         /\ LoopOK(p, go)
         /\ Taken(p, go) = Inner(fr).csp + One(NoteOf(p, ip).saved) + One(w = "extern")
<1>1. fr \in ExecFrame /\ Inner(fr) \in Opened /\ Inner(fr).sp \in Int /\ Inner(fr).csp \in Int
  BY ExecType, LoopBounds DEF Opened
<1>2. /\ go \in ExecFrame /\ go.sp = sp /\ go.ip = ip /\ go.wait = w /\ go.stk = fr.stk /\ go.tf = fr.tf
      /\ go.k = "exec"
  BY <1>1 DEF ExecFrame, Moved
<1>3. go \in SafeFrame
  BY <1>2 DEF SafeFrame, Frame
<1>4. Inner(go) = Inner(fr)
  BY <1>2 DEF Inner
<1>5. Taken(p, go) = Inner(fr).csp + One(NoteOf(p, ip).saved) + One(w = "extern")
  BY <1>2, <1>4 DEF Taken
<1>6. NoteOf(p, ip).height \in Nat /\ NoteOf(p, ip).saved \in BOOLEAN
  BY NoteType
<1>7. Taken(p, go) <= Top - sp
  <2>1. Inner(fr).csp + 1 <= Top - Inner(fr).sp
    <3>1. Len(fr.stk) \in 1 .. Len(fr.stk)
      BY ExecType DEF LoopOK
    <3>2. QED
      BY <3>1 DEF LoopOK, Inner
  <2>2. CASE w = "extern"
    BY <1>5, <2>2 DEF One
  <2>3. CASE w # "extern"
    <3>1. One(w = "extern") = 0 /\ One(NoteOf(p, ip).saved) \in Int /\ One(NoteOf(p, ip).saved) <= 1
      BY <2>3 DEF One
    <3>2. Taken(p, go) <= Inner(fr).csp + 1 /\ Taken(p, go) \in Int
      BY <1>1, <1>5, <3>1
    <3>3. sp <= Inner(fr).sp
      BY <1>1, <1>6
    <3>4. Inner(fr).csp + 1 <= Top - sp
      BY <1>1, <2>1, <3>3, SizesOK
    <3>5. QED
      BY <1>1, <3>2, <3>4, SizesOK
  <2>4. QED
    BY <2>2, <2>3
<1>8. LoopOK(p, go)
  <2>1. Len(go.stk) >= 1 /\ InCode(p, go.ip, go.tf)
    BY <1>2 DEF LoopOK
  <2>2. go.sp = Inner(go).sp - NoteOf(p, go.ip).height /\ Taken(p, go) <= Top - go.sp
    BY <1>2, <1>4, <1>7
  <2>3. go.stk = fr.stk /\ go.tf = fr.tf
    BY <1>2
  <2>4. /\ go.stk[1].ret = NilV /\ go.stk[1].csp >= 0
        /\ \A j \in 1 .. Len(go.stk) : /\ go.stk[j].csp = go.stk[1].csp + j - 1
                                       /\ go.stk[j].sp <= go.stk[1].sp
                                       /\ go.stk[j].csp + 1 <= Top - go.stk[j].sp
    BY <2>3 DEF LoopOK
  <2>5. \A j \in 2 .. Len(go.stk) :
          /\ go.stk[j].ret.k = "code"
          /\ InCode(p, CodeOf(go.stk[j].ret), go.tf)
          /\ NoteOf(p, CodeOf(go.stk[j].ret)).saved
          /\ go.stk[j].sp = go.stk[j - 1].sp - NoteOf(p, CodeOf(go.stk[j].ret)).height
    BY <2>3 DEF LoopOK
  <2>6. QED
    BY <2>1, <2>2, <2>4, <2>5 DEF LoopOK
<1>9. QED
  BY <1>2, <1>3, <1>4, <1>5, <1>8

\* Which return addresses have to be where, for the same functions at another place.
LEMMA SavedMoves ==
  ASSUME NEW p \in Programs, NEW fr \in SafeFrame, fr.k = "exec", LoopOK(p, fr),
         NEW m, SavedOK(p, fr, m), NEW m2, Kept(m, m2, Inner(fr).csp),
         NEW go \in SafeFrame, go.k = "exec", LoopOK(p, go), go.stk = fr.stk,
         Taken(p, go) > Inner(fr).csp => m2[Inner(fr).csp] = Inner(fr).ret
  PROVE  SavedOK(p, go, m2)
<1> SUFFICES ASSUME NEW j \in 1 .. Len(fr.stk), fr.stk[j].csp < Taken(p, go)
             PROVE  m2[fr.stk[j].csp] = fr.stk[j].ret
  BY DEF SavedOK
<1>1. Len(fr.stk) \in Nat /\ Len(fr.stk) >= 1
  BY ExecType DEF LoopOK
<1>2. /\ fr.stk[j].csp \in 0 .. Inner(fr).csp /\ Inner(fr) \in Opened /\ Taken(p, fr) \in Nat
      /\ Inner(fr).csp <= Taken(p, fr)
  BY LoopBounds
<1>3. Inner(fr).csp \in Int
  BY <1>2 DEF Opened
<1>4. CASE j = Len(fr.stk)
  BY <1>4 DEF Inner
<1>5. CASE j # Len(fr.stk)
  <2>1. fr.stk[j].csp < Inner(fr).csp
    <3>1. fr.stk[j].csp = fr.stk[1].csp + j - 1 /\ Inner(fr).csp = fr.stk[1].csp + Len(fr.stk) - 1
      BY <1>1 DEF LoopOK, Inner
    <3>2. fr.stk[1].csp \in Int
      BY <1>1, ExecType
    <3>3. QED
      BY <1>1, <1>5, <3>1, <3>2
  <2>2. m2[fr.stk[j].csp] = m[fr.stk[j].csp]
    BY <1>2, <1>3, <2>1 DEF Kept
  <2>3. m[fr.stk[j].csp] = fr.stk[j].ret
    BY <1>2, <1>3, <2>1 DEF SavedOK
  <2>4. QED
    BY <2>2, <2>3
<1>6. QED
  BY <1>4, <1>5

\* The running loop goes on in the same function.
LEMMA GoOn ==
  ASSUME StackInv, Orderly, Executing,
         NEW ip \in Loc, InCode(code, ip, Running.tf),
         NEW sp \in Int, sp >= OpBase, sp = Inner(Running).sp - NoteOf(code, ip).height,
         Resume(ip, sp, Running.stk), UNCHANGED <<code, tabs>>,
         Kept(mem, mem', Inner(Running).csp),
         csp' = Inner(Running).csp + One(NoteOf(code, ip).saved),
         NoteOf(code, ip).saved => mem'[Inner(Running).csp] = Inner(Running).ret,
         ~NoteOf(code, ip).saved => lr' = Inner(Running).ret
  PROVE  Orderly'
<1> DEFINE go == Moved(Running, ip, sp, "no")
<1>1. /\ Depth > 0 /\ Running \in SafeFrame /\ Running.k = "exec" /\ Running.wait = "no"
      /\ LoopOK(code, Running) /\ SavedOK(code, Running, mem)
  BY TopLoop DEF Executing
<1>2. cstack' = [cstack EXCEPT ![Depth] = go]
  <2>1. [Running EXCEPT !.ip = ip, !.sp = sp, !.stk = Running.stk] = go
    BY <1>1, ExecType DEF ExecFrame, Moved
  <2>2. QED
    BY <2>1 DEF Resume, Running
<1>3. "no" \in Wait /\ "no" # "extern"
  BY DEF Wait
<1> HIDE DEF go
<1>4. /\ go \in SafeFrame /\ go.k = "exec" /\ go.wait = "no" /\ go.tf = Running.tf /\ go.stk = Running.stk
      /\ Inner(go) = Inner(Running) /\ LoopOK(code, go)
      /\ Taken(code, go) = Inner(Running).csp + One(NoteOf(code, ip).saved) + One("no" = "extern")
  <2>1. "no" = "extern" => Inner(Running).csp + One(NoteOf(code, ip).saved) + 1 <= Top - sp
    BY <1>3
  <2>2. go = Moved(Running, ip, sp, "no") /\ code \in Programs
    BY CodeType DEF go
  <2>3. QED
    BY <1>1, <1>3, <2>1, <2>2, LoopMoves
<1>5. /\ Inner(Running).csp \in Nat /\ NoteOf(code, ip).saved \in BOOLEAN
      /\ Running.stk[1].csp <= Inner(Running).csp
  <2>1. Inner(Running) \in Opened /\ 0 <= Running.stk[1].csp /\ Running.stk[1].csp <= Inner(Running).csp
    BY <1>1, CodeType, LoopBounds
  <2>2. Running.stk[1] \in Opened
    BY <1>1, CodeType, LoopBounds
  <2>3. QED
    BY <2>1, <2>2, CodeType, NoteType DEF Opened
<1>6. Taken(code, go) = csp'
  BY <1>3, <1>4, <1>5 DEF One
<1>7. SavedOK(code, go, mem')
  <2>1. Taken(code, go) > Inner(Running).csp => mem'[Inner(Running).csp] = Inner(Running).ret
    BY <1>5, <1>6 DEF One
  <2>2. QED
    BY <1>1, <1>4, <2>1, CodeType, SavedMoves
<1>8. LrOK(code, go, lr')
  BY <1>4, <1>5, <1>6 DEF LrOK, One
<1>9. Running.stk[1] = go.stk[1] /\ tabs' = Running.tf /\ Inner(Running).csp >= Running.stk[1].csp
  <2>1. Running.stk[1].csp \in Int
    BY <1>1, CodeType, LoopBounds DEF Opened
  <2>2. QED
    BY <1>4, <1>5, <2>1, Current
<1>10. QED
  BY <1>1, <1>2, <1>4, <1>5, <1>6, <1>7, <1>8, <1>9, TopGoesOn

LEMMA InnerType ==
  ASSUME StackInv, Orderly, Depth > 0, Running.k = "exec"
  PROVE  /\ Inner(Running) \in Opened /\ Inner(Running).csp \in 0 .. CallCells - 1
         /\ Inner(Running).sp \in Int /\ Inner(Running).sp <= Top /\ Inner(Running).ret \in Val
         /\ Running.sp \in Int /\ Running.sp >= OpBase /\ Running.sp <= Top
         /\ Running.tf \in Mod /\ Running.stk \in Seq(Opened) /\ NextIp \in Loc
         /\ Running.ip \in Loc
<1>1. Running \in SafeFrame /\ LoopOK(code, Running)
  BY TopLoop
<1>2. /\ Inner(Running) \in Opened /\ Inner(Running).csp < CallCells /\ Running.sp <= Top
      /\ Inner(Running).sp <= Top
      /\ 0 <= Running.stk[1].csp /\ Running.stk[1].csp <= Inner(Running).csp /\ Running.stk[1] \in Opened
  BY <1>1, CodeType, LoopBounds
<1>3. QED
  BY SMTT(30), <1>2, ExecRunning, ConstAssumption DEF Opened

\* An instruction that leaves the link register and the call stack alone.
LEMMA GoOnSame ==
  ASSUME StackInv, Orderly, Executing,
         NEW ip \in Loc, InCode(code, ip, Running.tf),
         NoteOf(code, ip).saved = NoteOf(code, Running.ip).saved,
         NEW sp \in Int, sp >= OpBase,
         sp = Running.sp + NoteOf(code, Running.ip).height - NoteOf(code, ip).height,
         Resume(ip, sp, Running.stk), UNCHANGED <<code, tabs, csp, lr>>,
         Kept(mem, mem', CallCells)
  PROVE  Orderly'
<1>1. /\ Inner(Running).csp \in 0 .. CallCells - 1 /\ Inner(Running).sp \in Int
      /\ Running.sp \in Int
  BY InnerType DEF Executing
<1>2. /\ NoteOf(code, Running.ip).height \in Nat
      /\ Running.sp = Inner(Running).sp - NoteOf(code, Running.ip).height
      /\ csp = Inner(Running).csp + One(NoteOf(code, Running.ip).saved)
      /\ ~NoteOf(code, Running.ip).saved => lr = Inner(Running).ret
      /\ NoteOf(code, Running.ip).saved => mem[Inner(Running).csp] = Inner(Running).ret
  BY Current
<1>3. NoteOf(code, ip).height \in Nat
  BY CodeType, NoteType
<1>4. sp = Inner(Running).sp - NoteOf(code, ip).height
  BY <1>1, <1>2, <1>3
<1>5. Kept(mem, mem', Inner(Running).csp) /\ mem'[Inner(Running).csp] = mem[Inner(Running).csp]
  <2>1. PICK c \in 0 .. CallCells - 1 : c = Inner(Running).csp
    BY <1>1
  <2>2. CallCells \in Nat
    BY ConstAssumption
  <2>3. c \in 0 .. CallCells - 1 /\ \A i \in 0 .. c - 1 : i \in 0 .. CallCells - 1
    BY <2>2
  <2>4. mem'[c] = mem[c] /\ \A i \in 0 .. c - 1 : mem'[i] = mem[i]
    BY <2>3 DEF Kept
  <2>5. QED
    BY <2>1, <2>4 DEF Kept
<1>6. QED
  BY <1>2, <1>4, <1>5, GoOn
----------------------------------------------------------------------------
(* Instructions.                                                           *)

\* The place to has the note of the cells and the saving named.
Noted(to, height, saved) ==
  /\ to \in Loc /\ InCode(code, to, Running.tf)
  /\ NoteOf(code, to) = [height |-> height, saved |-> saved]

LEMMA ToNoted ==
  ASSUME StackInv, Orderly, Executing, NEW pc \in Int, NEW height, NEW saved,
         pc \in DOMAIN code[Running.ip.f],
         Notes[code][Running.ip.f][pc] = [height |-> height, saved |-> saved]
  PROVE  Noted([f |-> Running.ip.f, pc |-> pc], height, saved)
<1>1. Running.ip \in Loc /\ InCode(code, Running.ip, Running.tf)
  BY ExecRunning, Current DEF Executing
<1>2. [f |-> Running.ip.f, pc |-> pc] \in Loc
  BY <1>1 DEF Loc
<1>3. QED
  BY <1>1, <1>2 DEF Noted, InCode, NoteOf

\* The next instruction has the note that this one leads to.
LEMMA NextNoted ==
  ASSUME StackInv, Orderly, Executing, NEW height, NEW saved,
         Running.ip.pc + 1 \in DOMAIN code[Running.ip.f],
         Notes[code][Running.ip.f][Running.ip.pc + 1] = [height |-> height, saved |-> saved]
  PROVE  Noted(NextIp, height, saved)
<1>1. Running.ip \in Loc
  BY ExecRunning DEF Executing
<1>2. NextIp = [f |-> Running.ip.f, pc |-> Running.ip.pc + 1] /\ Running.ip.pc + 1 \in Int
  BY <1>1 DEF NextIp, Loc
<1>3. QED
  BY <1>2, ToNoted

Here == NoteOf(code, Running.ip)

LEMMA FrameNotes ==
  ASSUME StackInv, Orderly, NEW op \in Op, At(op)
  PROVE  /\ op = "alloc"  => Noted(NextIp, Here.height + Instruction.a, Here.saved)
         /\ op = "enter"  => ~Here.saved /\ Noted(NextIp, Here.height + Instruction.a, TRUE)
         /\ op = "redux"  => Instruction.a <= Here.height /\ Noted(NextIp, Here.height - Instruction.a, Here.saved)
         /\ op = "pushlr" => ~Here.saved /\ Noted(NextIp, Here.height, TRUE)
         /\ op = "poplr"  => Here.saved /\ Noted(NextIp, Here.height, FALSE)
<1>1. Executing /\ Instruction.op = op
  BY InstructionType DEF At
<1>2. FitsAt(code, Notes[code], Running.ip.f, Running.ip.pc)
  BY <1>1, Current
<1>3. QED
  BY <1>1, <1>2, NextNoted DEF FitsAt, Instruction, Here, NoteOf

LEMMA ReturnNotes ==
  ASSUME StackInv, Orderly, NEW op \in Op, At(op)
  PROVE  /\ op \in {"ret", "halt"} => Here.height = 0 /\ ~Here.saved
         /\ op = "remit"   => Here.height = Instruction.a /\ ~Here.saved
         /\ op = "restore" => Here.height = 0 /\ Here.saved
         /\ op = "leave"   => Here.height = Instruction.a /\ Here.saved
<1>1. Executing /\ Instruction.op = op
  BY InstructionType DEF At
<1>2. FitsAt(code, Notes[code], Running.ip.f, Running.ip.pc)
  BY <1>1, Current
<1>3. /\ op \in {"ret", "halt"} => Here = [height |-> 0, saved |-> FALSE]
      /\ op = "remit"   => Here = [height |-> Instruction.a, saved |-> FALSE]
      /\ op = "restore" => Here = [height |-> 0, saved |-> TRUE]
      /\ op = "leave"   => Here = [height |-> Instruction.a, saved |-> TRUE]
  BY <1>1, <1>2 DEF FitsAt, Instruction, Here, NoteOf, Unframed
<1>4. QED
  BY <1>3

\* Instructions that only compute lead to the next one, which has the same note.
Leading == {"nop", "movi", "mov", "ldvar", "ldfn", "lra", "lea", "alu", "alu1",
            "ld8", "ld", "st8", "st", "cmp", "jz", "jnz", "call", "callr"}

LEMMA PlainNotes ==
  ASSUME StackInv, Orderly, NEW op \in Leading, At(op)
  PROVE  Noted(NextIp, Here.height, Here.saved)
<1>1. Executing /\ Instruction.op = op
  BY InstructionType DEF At, Leading, Op
<1>2. FitsAt(code, Notes[code], Running.ip.f, Running.ip.pc)
  BY <1>1, Current
<1>3. op \notin {"alloc", "enter", "redux", "pushlr", "poplr", "ret", "halt", "remit",
                 "restore", "leave", "jmp"}
  BY DEF Leading
<1>4. QED
  BY <1>1, <1>2, <1>3, NextNoted DEF FitsAt, Instruction, Here, NoteOf

LEMMA JumpNotes ==
  ASSUME StackInv, Orderly, NEW op \in {"jmp", "jz", "jnz"}, At(op)
  PROVE  Noted([NextIp EXCEPT !.pc = @ + Instruction.b], Here.height, Here.saved)
<1>1. Executing /\ Instruction.op = op /\ Instruction.b \in Int
  BY InstructionType DEF At, Op
<1>2. FitsAt(code, Notes[code], Running.ip.f, Running.ip.pc)
  BY <1>1, Current
<1>3. Running.ip \in Loc
  BY <1>1, ExecRunning DEF Executing
<1> DEFINE pc == Running.ip.pc + 1
<1>4. NextIp = [f |-> Running.ip.f, pc |-> pc] /\ pc \in Int
  BY <1>3 DEF NextIp, Loc
<1> HIDE DEF pc
<1>5. /\ [NextIp EXCEPT !.pc = @ + Instruction.b] = [f |-> Running.ip.f, pc |-> pc + Instruction.b]
      /\ pc + Instruction.b \in Int
  BY <1>1, <1>4
<1>6. /\ [NextIp EXCEPT !.pc = @ + Instruction.b] = [f |-> Running.ip.f, pc |-> Running.ip.pc + 1 + Instruction.b]
      /\ Running.ip.pc + 1 + Instruction.b \in Int
  BY <1>5 DEF pc
<1>7. /\ Running.ip.pc + 1 + Instruction.b \in DOMAIN code[Running.ip.f]
      /\ Notes[code][Running.ip.f][Running.ip.pc + 1 + Instruction.b]
           = [height |-> Here.height, saved |-> Here.saved]
  BY <1>1, <1>2 DEF FitsAt, Instruction, Here, NoteOf
<1>8. QED
  BY <1>1, <1>6, <1>7, ToNoted

LEMMA PushSaves ==
  ASSUME StackInv, Orderly, Executing, ~Here.saved, PushLr
  PROVE  /\ Kept(mem, mem', Inner(Running).csp)
         /\ mem'[Inner(Running).csp] = Inner(Running).ret
         /\ csp' = Inner(Running).csp + 1
<1>1. csp = Inner(Running).csp /\ lr = Inner(Running).ret /\ csp \in 0 .. CallCells - 1
  BY Current, InnerType DEF Here, One, Executing
<1>2. mem \in [Cell -> Val] /\ csp \in Cell /\ mem' = [mem EXCEPT ![csp] = lr] /\ csp' = csp + 1
  BY DEF PushLr, StackInv, TypeOK
<1>3. \A i \in 0 .. csp - 1 : i \in Cell /\ i # csp
  BY <1>1, <1>2, SizesOK DEF Cell
<1>4. QED
  BY <1>1, <1>2, <1>3 DEF Kept

LEMMA PopRestores ==
  ASSUME StackInv, Orderly, Executing, Here.saved, PopLr
  PROVE  lr' = Inner(Running).ret /\ csp' = Inner(Running).csp
<1>1. /\ csp = Inner(Running).csp + 1 /\ mem[Inner(Running).csp] = Inner(Running).ret
      /\ Inner(Running).csp \in 0 .. CallCells - 1
  BY Current, InnerType DEF Here, One, Executing
<1>2. QED
  BY <1>1 DEF PopLr

\* Giving back no more than the function took stays below the top of the stack.
LEMMA ReducedHere ==
  ASSUME StackInv, Orderly, Executing, NEW n \in Nat, n <= Here.height
  PROVE  Reduced(Running.sp, n) = Running.sp + n
<1>1. /\ Running.sp \in Int /\ Here.height \in Nat /\ Running.sp = Inner(Running).sp - Here.height
      /\ Inner(Running).sp \in Int /\ Inner(Running).sp <= Top
  BY InnerType, Current DEF Executing, Here
<1>2. QED
  BY <1>1, SizesOK DEF Reduced

LEMMA KeptSame == ASSUME mem' = mem, NEW c PROVE Kept(mem, mem', c)
  BY DEF Kept

\* The instructions that change a function's own frame.
LEMMA FrameStep ==
  ASSUME StackInv, Orderly, Alloc \/ Enter \/ Redux \/ SaveLr \/ LoadLr, err' = "None"
  PROVE  Orderly'
<1>1. CASE Alloc
  <2>1. At("alloc") /\ "alloc" \in Op
    BY <1>1 DEF Alloc, Op
  <2>2. /\ Executing /\ Instruction.a \in Nat
        /\ Noted(NextIp, Here.height + Instruction.a, Here.saved)
    BY <2>1, InstructionType, FrameNotes
  <2>3. Running.sp - Instruction.a >= OpBase /\ Resume(NextIp, Running.sp - Instruction.a, Running.stk)
    BY <1>1 DEF Alloc, Fail, CanAlloc
  <2>4. Running.sp \in Int /\ Here.height \in Nat
    BY <2>2, InnerType, Current DEF Executing, Here
  <2>5. QED
    BY <1>1, <2>2, <2>3, <2>4, KeptSame, GoOnSame DEF Alloc, Noted, Here
<1>2. CASE Enter
  <2>1. At("enter") /\ "enter" \in Op
    BY <1>2 DEF Enter, Op
  <2>2. /\ Executing /\ Instruction.a \in Nat
        /\ ~Here.saved /\ Noted(NextIp, Here.height + Instruction.a, TRUE)
    BY <2>1, InstructionType, FrameNotes
  <2>3. Running.sp - Instruction.a >= OpBase /\ Resume(NextIp, Running.sp - Instruction.a, Running.stk)
    BY <1>2 DEF Enter, Fail, CanAlloc
  <2>4. /\ Running.sp \in Int /\ Here.height \in Nat /\ Running.sp = Inner(Running).sp - Here.height
        /\ Inner(Running).sp \in Int
    BY <2>2, InnerType, Current DEF Executing, Here
  <2>5. PushLr
    BY <1>2 DEF Enter
  <2>6. /\ NextIp \in Loc /\ InCode(code, NextIp, Running.tf) /\ NoteOf(code, NextIp).saved
        /\ Running.sp - Instruction.a = Inner(Running).sp - NoteOf(code, NextIp).height
    BY <2>2, <2>4 DEF Noted
  <2>7. QED
    BY <1>2, <2>2, <2>3, <2>4, <2>5, <2>6, PushSaves, GoOn DEF Enter, One
<1>3. CASE Redux
  <2>1. At("redux") /\ "redux" \in Op
    BY <1>3 DEF Redux, Op
  <2>2. /\ Executing /\ Instruction.a \in Nat /\ Instruction.a <= Here.height
        /\ Noted(NextIp, Here.height - Instruction.a, Here.saved)
    BY <2>1, InstructionType, FrameNotes
  <2>3. Running.sp \in Int /\ Running.sp >= OpBase /\ Here.height \in Nat
    BY <2>2, InnerType, Current DEF Executing, Here
  <2>4. Resume(NextIp, Running.sp + Instruction.a, Running.stk)
    BY <1>3, <2>2, ReducedHere DEF Redux
  <2>5. Running.sp + Instruction.a \in Int /\ Running.sp + Instruction.a >= OpBase
    BY <2>2, <2>3, SizesOK
  <2>6. /\ NextIp \in Loc /\ InCode(code, NextIp, Running.tf) /\ NoteOf(code, NextIp).saved = Here.saved
        /\ Running.sp + Instruction.a = Running.sp + Here.height - NoteOf(code, NextIp).height
    BY <2>2, <2>3 DEF Noted
  <2>7. QED
    BY <1>3, <2>2, <2>4, <2>5, <2>6, KeptSame, GoOnSame DEF Redux, Here
<1>4. CASE SaveLr
  <2>1. At("pushlr") /\ "pushlr" \in Op
    BY <1>4 DEF SaveLr, Op
  <2>2. Executing /\ ~Here.saved /\ Noted(NextIp, Here.height, TRUE)
    BY <2>1, InstructionType, FrameNotes
  <2>3. /\ Running.sp \in Int /\ Running.sp >= OpBase /\ Running.sp = Inner(Running).sp - Here.height
    BY <2>2, InnerType, Current DEF Executing, Here
  <2>4. PushLr /\ Resume(NextIp, Running.sp, Running.stk) /\ UNCHANGED <<code, tabs>>
    BY <1>4 DEF SaveLr, Advance
  <2>5. /\ NextIp \in Loc /\ InCode(code, NextIp, Running.tf) /\ NoteOf(code, NextIp).saved
        /\ NoteOf(code, NextIp).height = Here.height
    BY <2>2 DEF Noted
  <2>6. QED
    BY <2>2, <2>3, <2>4, <2>5, PushSaves, GoOn DEF One
<1>5. CASE LoadLr
  <2>1. At("poplr") /\ "poplr" \in Op
    BY <1>5 DEF LoadLr, Op
  <2>2. Executing /\ Here.saved /\ Noted(NextIp, Here.height, FALSE)
    BY <2>1, InstructionType, FrameNotes
  <2>3. /\ Running.sp \in Int /\ Running.sp >= OpBase /\ Running.sp = Inner(Running).sp - Here.height
        /\ Inner(Running).csp \in Int
    BY <2>2, InnerType, Current DEF Executing, Here
  <2>4. PopLr /\ Resume(NextIp, Running.sp, Running.stk) /\ UNCHANGED <<code, tabs, mem>>
    BY <1>5 DEF LoadLr, Advance
  <2>5. /\ NextIp \in Loc /\ InCode(code, NextIp, Running.tf) /\ ~NoteOf(code, NextIp).saved
        /\ NoteOf(code, NextIp).height = Here.height
    BY <2>2 DEF Noted
  <2>6. lr' = Inner(Running).ret /\ csp' = Inner(Running).csp
    BY <2>2, <2>4, PopRestores
  <2>7. QED
    BY <2>2, <2>3, <2>4, <2>5, <2>6, KeptSame, GoOn DEF One
<1>6. QED
  BY <1>1, <1>2, <1>3, <1>4, <1>5

\* A register is in the operand stack, above the call stack.
LEMMA WriteKept ==
  ASSUME StackInv, NEW a \in Int, a >= OpBase, NEW v, mem' = [mem EXCEPT ![a] = v]
  PROVE  Kept(mem, mem', CallCells)
<1>1. mem \in [Cell -> Val] /\ CallCells \in Nat /\ OpCells \in Nat
  BY ConstAssumption DEF StackInv, TypeOK
<1>2. \A i \in 0 .. CallCells - 1 : i \in Cell /\ i # a
  BY <1>1 DEF Cell, Top, OpBase, NodeCells
<1>3. QED
  BY <1>1, <1>2 DEF Kept

LEMMA SetRegKept ==
  ASSUME StackInv, Orderly, Executing, NEW r \in Nat, NEW v, SetReg(r, v)
  PROVE  Kept(mem, mem', CallCells)
<1>1. Running.sp \in Int /\ Running.sp >= OpBase
  BY InnerType DEF Executing
<1>2. Running.sp + r \in Int /\ Running.sp + r >= OpBase
  BY <1>1, SizesOK
<1>3. QED
  BY <1>2, WriteKept DEF SetReg

LEMMA AdvancePlain ==
  ASSUME StackInv, Orderly, NEW op \in Leading, At(op), Advance,
         UNCHANGED <<code, csp, lr, tabs>>, Kept(mem, mem', CallCells)
  PROVE  Orderly'
<1>1. Executing
  BY InstructionType DEF Leading, Op
<1>2. /\ Running.sp \in Int /\ Running.sp >= OpBase /\ Here.height \in Nat
  BY <1>1, InnerType, Current DEF Executing, Here
<1>3. /\ NextIp \in Loc /\ InCode(code, NextIp, Running.tf) /\ NoteOf(code, NextIp).saved = Here.saved
      /\ Running.sp = Running.sp + Here.height - NoteOf(code, NextIp).height
  BY <1>2, PlainNotes DEF Noted
<1>4. QED
  BY <1>1, <1>2, <1>3, GoOnSame DEF Advance, Here

LEMMA DataStep ==
  ASSUME StackInv, Orderly, CallStackKept, DataOp, err' = "None"
  PROVE  Orderly'
<1>1. CASE Move
  <2>1. PICK op \in {"movi", "mov", "ldvar", "ldfn", "lra", "lea"} : At(op)
    BY <1>1 DEF Move
  <2>2. op \in Leading /\ op \in Op
    BY DEF Leading, Op
  <2>3. Executing /\ Instruction.a \in Nat
    BY <2>1, <2>2, InstructionType
  <2>4. PICK v : SetReg(Instruction.a, v)
    BY <1>1 DEF Move
  <2>5. QED
    BY <1>1, <2>1, <2>2, <2>3, <2>4, SetRegKept, AdvancePlain DEF Move
<1>2. CASE Compute
  <2>1. At("alu") /\ "alu" \in Leading /\ "alu" \in Op
    BY <1>2 DEF Compute, Leading, Op
  <2>2. Executing /\ Instruction.a \in Nat
    BY <2>1, InstructionType
  <2>3. PICK v \in Result : SetReg(Instruction.a, v)
    BY <1>2 DEF Compute
  <2>4. QED
    BY <1>2, <2>1, <2>2, <2>3, SetRegKept, AdvancePlain DEF Compute
<1>3. CASE Convert
  <2>1. At("alu1") /\ "alu1" \in Leading /\ "alu1" \in Op
    BY <1>3 DEF Convert, Leading, Op
  <2>2. Executing /\ Instruction.a \in Nat
    BY <2>1, InstructionType
  <2>3. PICK v \in Result : SetReg(Instruction.a, v)
    BY <1>3 DEF Convert
  <2>4. QED
    BY <1>3, <2>1, <2>2, <2>3, SetRegKept, AdvancePlain DEF Convert
<1>4. CASE Load
  <2>1. PICK op \in {"ld8", "ld"} : At(op)
    BY <1>4 DEF Load
  <2>2. op \in Leading /\ op \in Op
    BY DEF Leading, Op
  <2>3. Executing /\ Instruction.a \in Nat
    BY <2>1, <2>2, InstructionType
  <2>4. Advance /\ \E v : SetReg(Instruction.a, v)
    BY <1>4 DEF Load, Fail
  <2>5. PICK v : SetReg(Instruction.a, v)
    BY <2>4
  <2>6. QED
    BY <1>4, <2>1, <2>2, <2>3, <2>4, <2>5, SetRegKept, AdvancePlain DEF Load
<1>5. CASE Store
  <2>1. PICK op \in {"st8", "st"} : At(op)
    BY <1>5 DEF Store
  <2>2. op \in Leading
    BY DEF Leading
  <2> DEFINE p == Offset(Reg(Instruction.a), Instruction.c)
  <2>3. /\ Advance
        /\ \/ mem' = mem
           \/ p.k = "ptr" /\ p.n \in Cell /\ \E v : mem' = [mem EXCEPT ![p.n] = v]
    <3>1. \/ Fail("BadPtr")
          \/ /\ p.k = "ptr" /\ p.n \in Cell
             /\ \E v \in Left(Reg(Instruction.b)) : mem' = [mem EXCEPT ![p.n] = v]
             /\ Advance
          \/ Advance /\ UNCHANGED mem
      BY <1>5 DEF Store
    <3>2. ~Fail("BadPtr")
      BY DEF Fail
    <3>3. QED
      BY <3>1, <3>2
  <2>4. Kept(mem, mem', CallCells)
    <3>1. CASE mem' = mem
      BY <3>1, KeptSame
    <3>2. CASE p.k = "ptr" /\ p.n \in Cell /\ \E v : mem' = [mem EXCEPT ![p.n] = v]
      <4>1. p.n \notin 0 .. CallCells - 1
        BY <1>5, <2>1, <3>2 DEF Store, CallStackKept
      <4>2. PICK v : mem' = [mem EXCEPT ![p.n] = v]
        BY <3>2
      <4>3. mem \in [Cell -> Val] /\ CallCells \in Nat /\ OpCells \in Nat
        BY ConstAssumption DEF StackInv, TypeOK
      <4>4. \A i \in 0 .. CallCells - 1 : i \in Cell
        BY <4>3 DEF Cell, Top, OpBase, NodeCells
      <4> HIDE DEF p
      <4>5. QED
        BY <4>1, <4>2, <4>3, <4>4 DEF Kept
    <3>3. QED
      BY <2>3, <3>1, <3>2
  <2>5. QED
    BY <1>5, <2>1, <2>2, <2>3, <2>4, AdvancePlain DEF Store
<1>6. CASE Compare
  <2>1. At("cmp") /\ "cmp" \in Leading
    BY <1>6 DEF Compare, Leading
  <2>2. QED
    BY <1>6, <2>1, KeptSame, AdvancePlain DEF Compare
<1>7. CASE Jump
  <2>1. PICK op \in {"nop", "jmp", "jz", "jnz"} : At(op)
    BY <1>7 DEF Jump
  <2>2. op \in Op /\ Executing /\ Instruction.op = op
    BY <2>1, InstructionType DEF At, Op
  <2> DEFINE to == [NextIp EXCEPT !.pc = @ + Instruction.b]
  <2>3. Running.sp \in Int /\ Running.sp >= OpBase /\ Here.height \in Nat /\ NextIp \in Loc
    BY <2>2, InnerType, Current DEF Executing, Here
  <2>4. \/ op # "nop" /\ Resume(to, Running.sp, Running.stk)
        \/ op # "jmp" /\ Resume(NextIp, Running.sp, Running.stk)
    <3>1. PICK off \in {Instruction.b, 0} :
            /\ Resume([NextIp EXCEPT !.pc = @ + off], Running.sp, Running.stk)
            /\ op = "jmp" => off = Instruction.b
            /\ op = "nop" => off = 0
      BY <1>7, <2>2 DEF Jump
    <3>2. [NextIp EXCEPT !.pc = @ + 0] = NextIp
      BY <2>3 DEF Loc
    <3>3. QED
      BY <3>1, <3>2
  <2>5. PICK ip \in {to, NextIp} : Noted(ip, Here.height, Here.saved) /\ Resume(ip, Running.sp, Running.stk)
    <3>1. op # "nop" => Noted(to, Here.height, Here.saved)
      BY <2>1, JumpNotes
    <3>2. op # "jmp" => Noted(NextIp, Here.height, Here.saved)
      BY <2>1, PlainNotes DEF Leading
    <3>3. QED
      BY <2>4, <3>1, <3>2
  <2>6. /\ ip \in Loc /\ InCode(code, ip, Running.tf) /\ NoteOf(code, ip).saved = Here.saved
        /\ Running.sp = Running.sp + Here.height - NoteOf(code, ip).height
    BY <2>3, <2>5 DEF Noted
  <2>7. QED
    BY <1>7, <2>2, <2>3, <2>5, <2>6, KeptSame, GoOnSame DEF Jump, Here
<1>8. QED
  BY <1>1, <1>2, <1>3, <1>4, <1>5, <1>6, <1>7 DEF DataOp
----------------------------------------------------------------------------
(* Calls and returns inside a loop.                                        *)

LEMMA EntryNote ==
  ASSUME NEW p \in Programs, NEW fn \in Func
  PROVE  /\ Entry(fn) \in Loc /\ InCode(p, Entry(fn), OwnerOf(fn))
         /\ NoteOf(p, Entry(fn)) = [height |-> 0, saved |-> FALSE]
<1>1. KeepsConvention(p, Notes[p])
  BY ConventionAssumption
<1>2. p[fn] # << >> /\ Notes[p][fn][1] = [height |-> 0, saved |-> FALSE] /\ p[fn] \in Seq(Instr)
  BY <1>1, ConstAssumption DEF KeepsConvention, Unframed
<1>3. 1 \in DOMAIN p[fn]
  BY <1>2, LenProperties, EmptySeq
<1>4. Entry(fn) = [f |-> fn, pc |-> 1]
  BY DEF Entry
<1>5. QED
  BY <1>2, <1>3, <1>4 DEF Loc, InCode, NoteOf

\* The loop in a function it calls, with the call stack pointer at c.
Inside(fr, fn, o) == [fr EXCEPT !.ip = Entry(fn), !.stk = Append(fr.stk, o)]

LEMMA LoopOpens ==
  ASSUME NEW p \in Programs, NEW fr \in SafeFrame, fr.k = "exec", fr.wait = "no", LoopOK(p, fr),
         NEW fn \in Func, OwnerOf(fn) = fr.tf,
         NEW ret \in Loc, InCode(p, ret, fr.tf), NoteOf(p, ret) = NoteOf(p, fr.ip),
         NoteOf(p, fr.ip).saved, NoteOf(p, fr.ip).height >= 1,
         NEW o, o = Open(CodeV(ret), fr.sp, Taken(p, fr)),
         NEW go, go = Inside(fr, fn, o)
  PROVE  /\ go \in SafeFrame /\ go.k = "exec" /\ go.wait = "no" /\ go.tf = fr.tf
         /\ go.stk = Append(fr.stk, o)
         /\ go.stk[1] = fr.stk[1]
         /\ \A j \in 1 .. Len(fr.stk) : go.stk[j] = fr.stk[j]
         /\ Len(go.stk) = Len(fr.stk) + 1
         /\ Inner(go) = o /\ o.ret = CodeV(ret) /\ o.csp = Taken(p, fr) /\ Taken(p, go) = Taken(p, fr)
         /\ Taken(p, fr) = Inner(fr).csp + 1
         /\ LoopOK(p, go)
<1>1. /\ fr \in ExecFrame /\ fr.sp \in Int /\ fr.sp >= OpBase /\ fr.stk \in Seq(Opened) /\ Len(fr.stk) \in Nat
      /\ Len(fr.stk) >= 1
  BY ExecType DEF LoopOK
<1>2. /\ Inner(fr) \in Opened /\ Inner(fr).csp \in Int /\ Inner(fr).sp \in Int /\ Taken(p, fr) \in Nat
      /\ fr.sp <= Inner(fr).sp /\ Inner(fr).sp <= fr.stk[1].sp /\ fr.stk[1].sp \in Int /\ fr.stk[1].csp \in Int
  BY LoopBounds DEF Opened
<1>3. o = [ret |-> CodeV(ret), sp |-> fr.sp, csp |-> Taken(p, fr)] /\ o \in Opened
  BY <1>1, <1>2, OpenType, Values DEF Open
<1>4. o.ret = CodeV(ret) /\ o.sp = fr.sp /\ o.csp = Taken(p, fr)
  BY <1>3
<1>5. /\ Append(fr.stk, o) \in Seq(Opened) /\ Len(Append(fr.stk, o)) = Len(fr.stk) + 1
      /\ \A j \in 1 .. Len(fr.stk) : Append(fr.stk, o)[j] = fr.stk[j]
      /\ Append(fr.stk, o)[Len(fr.stk) + 1] = o
  BY <1>1, <1>3, AppendProperties
<1>6. /\ Entry(fn) \in Loc /\ InCode(p, Entry(fn), fr.tf)
      /\ NoteOf(p, Entry(fn)).height = 0 /\ NoteOf(p, Entry(fn)).saved = FALSE
  BY EntryNote
<1> DEFINE stk == Append(fr.stk, o)
<1> HIDE DEF stk
<1>7. /\ go \in ExecFrame /\ go.ip = Entry(fn) /\ go.stk = stk /\ go.sp = fr.sp /\ go.tf = fr.tf
      /\ go.wait = "no" /\ go.k = "exec"
  BY <1>1, <1>5, <1>6 DEF ExecFrame, Inside, stk
<1>8. go \in SafeFrame
  BY <1>1, <1>7 DEF SafeFrame, Frame
<1>9. Inner(go) = o /\ go.stk[1] = fr.stk[1] /\ Len(go.stk) = Len(fr.stk) + 1
  BY <1>1, <1>5, <1>7 DEF Inner, stk
<1>10. Taken(p, go) = Taken(p, fr)
  BY <1>2, <1>4, <1>6, <1>7, <1>9 DEF Taken, One
<1>11. Taken(p, fr) = Inner(fr).csp + 1
  BY <1>2 DEF Taken, One
<1>12. LoopOK(p, go)
  <2>1. Taken(p, go) <= Top - go.sp
    BY <1>7, <1>10 DEF LoopOK
  <2>2. go.sp = Inner(go).sp - NoteOf(p, go.ip).height
    BY <1>1, <1>4, <1>6, <1>7, <1>9
  <2>3. fr.stk[1].ret = NilV /\ fr.stk[1].csp >= 0
    BY DEF LoopOK
  <2>4. \A j \in 1 .. Len(go.stk) : /\ go.stk[j].csp = go.stk[1].csp + j - 1
                                    /\ go.stk[j].sp <= go.stk[1].sp
                                    /\ go.stk[j].csp + 1 <= Top - go.stk[j].sp
    <3> TAKE j \in 1 .. Len(go.stk)
    <3>1. CASE j \in 1 .. Len(fr.stk)
      <4>1. go.stk[j] = fr.stk[j] /\ go.stk[1] = fr.stk[1]
        BY <1>5, <1>7, <1>9, <3>1 DEF stk
      <4>2. /\ fr.stk[j].csp = fr.stk[1].csp + j - 1
            /\ fr.stk[j].sp <= fr.stk[1].sp
            /\ fr.stk[j].csp + 1 <= Top - fr.stk[j].sp
        BY <3>1 DEF LoopOK
      <4>3. QED
        BY <4>1, <4>2
    <3>2. CASE j = Len(fr.stk) + 1
      <4>1. go.stk[j] = o
        BY <1>5, <1>7, <3>2 DEF stk
      <4>2. Len(fr.stk) \in 1 .. Len(fr.stk)
        BY <1>1
      <4>3. /\ Inner(fr).csp = fr.stk[1].csp + Len(fr.stk) - 1
            /\ Inner(fr).csp + 1 <= Top - Inner(fr).sp
        BY <4>2 DEF LoopOK, Inner
      <4>4. fr.sp = Inner(fr).sp - NoteOf(p, fr.ip).height /\ NoteOf(p, fr.ip).height \in Nat
        BY NoteType DEF LoopOK
      <4>5. o.csp = go.stk[1].csp + j - 1
        <5>1. go.stk[1].csp = fr.stk[1].csp /\ o.csp = Inner(fr).csp + 1
          BY <1>4, <1>9, <1>11
        <5>2. QED
          BY <1>1, <1>2, <3>2, <4>3, <5>1
      <4>6. o.sp <= go.stk[1].sp
        BY <1>1, <1>2, <1>4, <1>9
      <4>7. o.csp + 1 <= Top - o.sp
        <5>1. o.sp = fr.sp /\ o.csp = Inner(fr).csp + 1
          BY <1>4, <1>11
        <5>2. fr.sp + 1 <= Inner(fr).sp
          BY <1>1, <1>2, <4>4
        <5>3. /\ Inner(fr).csp + 1 <= Top - Inner(fr).sp /\ Top \in Int
              /\ Inner(fr).csp \in Int /\ Inner(fr).sp \in Int /\ fr.sp \in Int
          BY <1>1, <1>2, <4>3, SizesOK
        <5>4. (Inner(fr).csp + 1) + 1 <= Top - fr.sp
          BY <5>2, <5>3
        <5>5. QED
          BY <5>1, <5>4
      <4>8. QED
        BY <4>1, <4>5, <4>6, <4>7
    <3>3. QED
      BY <1>1, <1>9, <3>1, <3>2
  <2>5. \A j \in 2 .. Len(go.stk) :
          /\ go.stk[j].ret.k = "code"
          /\ InCode(p, CodeOf(go.stk[j].ret), go.tf)
          /\ NoteOf(p, CodeOf(go.stk[j].ret)).saved
          /\ go.stk[j].sp = go.stk[j - 1].sp - NoteOf(p, CodeOf(go.stk[j].ret)).height
    <3> TAKE j \in 2 .. Len(go.stk)
    <3>1. CASE j \in 2 .. Len(fr.stk)
      <4>1. go.stk[j] = fr.stk[j] /\ go.stk[j - 1] = fr.stk[j - 1]
        BY <1>1, <1>5, <1>7, <3>1 DEF stk
      <4>2. QED
        BY <1>7, <3>1, <4>1 DEF LoopOK
    <3>2. CASE j = Len(fr.stk) + 1
      <4>1. go.stk[j] = o /\ go.stk[j - 1] = Inner(fr)
        BY <1>1, <1>5, <1>7, <3>2 DEF stk, Inner
      <4>2. CodeOf(CodeV(ret)) = ret /\ CodeV(ret).k = "code"
        BY DEF CodeOf, CodeV, Loc
      <4>3. fr.sp = Inner(fr).sp - NoteOf(p, fr.ip).height
        BY DEF LoopOK
      <4>4. QED
        BY <1>4, <1>7, <4>1, <4>2, <4>3
    <3>3. QED
      BY <1>1, <1>9, <3>1, <3>2
  <2>6. Len(go.stk) >= 1
    BY <1>1, <1>9
  <2>7. go.stk[1].ret = NilV /\ go.stk[1].csp >= 0 /\ InCode(p, go.ip, go.tf)
    BY <1>6, <1>7, <1>9, <2>3
  <2>8. QED
    BY <2>1, <2>2, <2>4, <2>5, <2>6, <2>7 DEF LoopOK
<1>13. QED
  BY <1>4, <1>5, <1>7, <1>8, <1>9, <1>10, <1>11, <1>12 DEF stk

\* The loop back in the function that called the innermost one.
Outside(fr) == [fr EXCEPT !.ip = CodeOf(Inner(fr).ret), !.sp = Inner(fr).sp,
                          !.stk = SubSeq(fr.stk, 1, Len(fr.stk) - 1)]

LEMMA LoopCloses ==
  ASSUME NEW p \in Programs, NEW fr \in SafeFrame, fr.k = "exec", fr.wait = "no", LoopOK(p, fr),
         Inner(fr).ret.k = "code",
         NEW go, go = Outside(fr)
  PROVE  /\ go \in SafeFrame /\ go.k = "exec" /\ go.wait = "no" /\ go.tf = fr.tf
         /\ go.stk = SubSeq(fr.stk, 1, Len(fr.stk) - 1)
         /\ go.stk[1] = fr.stk[1]
         /\ \A j \in 1 .. Len(go.stk) : go.stk[j] = fr.stk[j] /\ j \in 1 .. Len(fr.stk)
         /\ Taken(p, go) = Inner(fr).csp /\ Inner(go).csp < Taken(p, go)
         /\ LoopOK(p, go)
<1>1. /\ fr \in ExecFrame /\ fr.sp \in Int /\ fr.sp >= OpBase /\ fr.stk \in Seq(Opened) /\ Len(fr.stk) \in Nat
      /\ Len(fr.stk) >= 1
  BY ExecType DEF LoopOK
<1>2. /\ Inner(fr) \in Opened /\ Inner(fr).csp \in Int /\ Inner(fr).sp \in Int
      /\ fr.sp <= Inner(fr).sp /\ fr.stk[1].csp \in Int
  BY LoopBounds DEF Opened
<1> DEFINE k == Len(fr.stk)
<1>3. k > 1
  <2>1. fr.stk[1].ret = NilV /\ NilV.k = "nil"
    BY DEF LoopOK, NilV
  <2>2. k # 1
    BY <2>1 DEF Inner
  <2>3. k \in Nat /\ k >= 1
    BY <1>1
  <2> HIDE DEF k
  <2>4. QED
    BY <2>2, <2>3
<1>4. k \in 1 .. k /\ k \in 2 .. k /\ k - 1 \in 1 .. k
  BY <1>1, <1>3
<1>5. /\ InCode(p, CodeOf(Inner(fr).ret), fr.tf)
      /\ NoteOf(p, CodeOf(Inner(fr).ret)).saved
      /\ Inner(fr).sp = fr.stk[k - 1].sp - NoteOf(p, CodeOf(Inner(fr).ret)).height
      /\ Inner(fr).csp = fr.stk[1].csp + k - 1
      /\ fr.stk[k - 1].csp = fr.stk[1].csp + (k - 1) - 1
      /\ Inner(fr).csp + 1 <= Top - Inner(fr).sp
  BY <1>4 DEF LoopOK, Inner
<1>6. CodeOf(Inner(fr).ret) \in Loc
  BY <1>2 DEF CodeOf, Loc, Opened, Val
<1> DEFINE stk == SubSeq(fr.stk, 1, k - 1)
<1>7. stk \in Seq(Opened) /\ Len(stk) = k - 1 /\ \A j \in 1 .. k - 1 : stk[j] = fr.stk[j]
  BY <1>1, <1>3, Beneath
<1> HIDE DEF stk
<1>8. /\ go \in ExecFrame /\ go.ip = CodeOf(Inner(fr).ret) /\ go.stk = stk /\ go.sp = Inner(fr).sp
      /\ go.tf = fr.tf /\ go.wait = "no" /\ go.k = "exec"
  BY <1>1, <1>2, <1>6, <1>7 DEF ExecFrame, Outside, stk
<1>9. go \in SafeFrame
  BY <1>1, <1>2, <1>8, SizesOK DEF SafeFrame, Frame
<1>10. Len(go.stk) = k - 1 /\ Inner(go) = fr.stk[k - 1] /\ go.stk[1] = fr.stk[1]
  BY <1>1, <1>3, <1>7, <1>8 DEF Inner
<1>11. Taken(p, go) = Inner(fr).csp /\ Inner(go).csp < Taken(p, go)
  <2>1. fr.stk[k - 1].csp \in Int
    BY <1>4, <1>1, ExecType
  <2>2. Taken(p, go) = fr.stk[k - 1].csp + 1
    BY <1>5, <1>8, <1>10, <2>1 DEF Taken, One
  <2>3. k \in Nat /\ fr.stk[1].csp \in Int /\ Inner(fr).csp \in Int
    BY <1>1, <1>2
  <2> HIDE DEF k
  <2>4. fr.stk[k - 1].csp + 1 = Inner(fr).csp
    BY <1>5, <2>1, <2>3
  <2>5. QED
    BY <1>10, <2>1, <2>2, <2>3, <2>4
<1>12. LoopOK(p, go)
  <2>1. Len(go.stk) >= 1 /\ InCode(p, go.ip, go.tf) /\ go.sp = Inner(go).sp - NoteOf(p, go.ip).height
    BY <1>1, <1>3, <1>5, <1>8, <1>10
  <2>2. Taken(p, go) <= Top - go.sp
    BY <1>2, <1>5, <1>8, <1>11, SizesOK
  <2>3. go.stk[1].ret = NilV /\ go.stk[1].csp >= 0
    BY <1>10 DEF LoopOK
  <2>4. \A j \in 1 .. Len(go.stk) : /\ go.stk[j].csp = go.stk[1].csp + j - 1
                                    /\ go.stk[j].sp <= go.stk[1].sp
                                    /\ go.stk[j].csp + 1 <= Top - go.stk[j].sp
    <3> TAKE j \in 1 .. Len(go.stk)
    <3>1. j \in 1 .. k /\ go.stk[j] = fr.stk[j]
      BY <1>1, <1>7, <1>8, <1>10
    <3>2. QED
      BY <1>10, <3>1 DEF LoopOK
  <2>5. \A j \in 2 .. Len(go.stk) :
          /\ go.stk[j].ret.k = "code"
          /\ InCode(p, CodeOf(go.stk[j].ret), go.tf)
          /\ NoteOf(p, CodeOf(go.stk[j].ret)).saved
          /\ go.stk[j].sp = go.stk[j - 1].sp - NoteOf(p, CodeOf(go.stk[j].ret)).height
    <3> TAKE j \in 2 .. Len(go.stk)
    <3>1. j \in 2 .. k /\ go.stk[j] = fr.stk[j] /\ go.stk[j - 1] = fr.stk[j - 1]
      BY <1>1, <1>7, <1>8, <1>10
    <3>2. QED
      BY <1>8, <3>1 DEF LoopOK
  <2>6. QED
    BY <2>1, <2>2, <2>3, <2>4, <2>5 DEF LoopOK
<1>13. \A j \in 1 .. Len(go.stk) : go.stk[j] = fr.stk[j] /\ j \in 1 .. Len(fr.stk)
  BY <1>1, <1>7, <1>8, <1>10
<1>14. QED
  BY <1>8, <1>9, <1>10, <1>11, <1>12, <1>13 DEF stk

\* exec_call of a function of the same module.
LEMMA BranchStep ==
  ASSUME StackInv, Orderly, Executing, NEW it, it.item \in Func, OwnerOf(it.item) = Running.tf,
         Here.saved, Here.height >= 1, Noted(NextIp, Here.height, Here.saved), Branch(it)
  PROVE  Orderly'
<1>1. /\ Depth > 0 /\ Running \in SafeFrame /\ Running.k = "exec" /\ Running.wait = "no"
      /\ LoopOK(code, Running) /\ SavedOK(code, Running, mem)
  BY TopLoop DEF Executing
<1>2. csp = Taken(code, Running) /\ tabs = Running.tf
  BY Current
<1> DEFINE o  == Open(CodeV(NextIp), Running.sp, Taken(code, Running))
           go == Inside(Running, it.item, o)
<1>3. cstack' = [cstack EXCEPT ![Depth] = go]
  <2>1. [Running EXCEPT !.ip = Entry(it.item), !.sp = Running.sp, !.stk = Append(Running.stk, o)] = go
    BY <1>1, ExecType DEF ExecFrame, Inside
  <2>2. QED
    BY <1>2, <2>1 DEF Branch, Resume, Running
<1>4. NoteOf(code, NextIp) = NoteOf(code, Running.ip) /\ NextIp \in Loc /\ InCode(code, NextIp, Running.tf)
  <2>1. NoteOf(code, Running.ip) \in Note
    BY <1>1, CodeType, NoteType DEF LoopOK
  <2>2. QED
    BY <2>1 DEF Noted, Here, Note
<1> HIDE DEF o, go
<1>5. /\ go \in SafeFrame /\ go.k = "exec" /\ go.wait = "no" /\ go.tf = Running.tf
      /\ go.stk = Append(Running.stk, o)
      /\ go.stk[1] = Running.stk[1]
      /\ \A j \in 1 .. Len(Running.stk) : go.stk[j] = Running.stk[j]
      /\ Len(go.stk) = Len(Running.stk) + 1
      /\ Inner(go) = o /\ o.ret = CodeV(NextIp) /\ o.csp = Taken(code, Running)
      /\ Taken(code, go) = Taken(code, Running)
      /\ Taken(code, Running) = Inner(Running).csp + 1
      /\ LoopOK(code, go)
  <2>1. /\ o = Open(CodeV(NextIp), Running.sp, Taken(code, Running))
        /\ go = Inside(Running, it.item, o)
        /\ code \in Programs
    BY CodeType DEF o, go
  <2>2. QED
    BY <1>1, <1>4, <2>1, LoopOpens DEF Here
<1>6. Running.stk[1].csp \in Nat /\ Taken(code, Running) \in Nat /\ Len(Running.stk) \in Nat
  BY <1>1, CodeType, LoopBounds, ExecType DEF Opened
<1>7. SavedOK(code, go, mem')
  <2> SUFFICES ASSUME NEW j \in 1 .. Len(go.stk), go.stk[j].csp < Taken(code, go)
               PROVE  mem[go.stk[j].csp] = go.stk[j].ret
    BY DEF SavedOK, Branch
  <2>1. CASE j \in 1 .. Len(Running.stk)
    BY <1>1, <1>5, <2>1 DEF SavedOK
  <2>2. CASE j = Len(Running.stk) + 1
    BY <1>5, <1>6, <2>2 DEF Inner
  <2>3. QED
    BY <1>5, <1>6, <2>1, <2>2
<1>8. LrOK(code, go, lr')
  BY <1>5 DEF LrOK, Branch
<1>9. mem' = mem /\ code' = code /\ csp' = Taken(code, go) /\ tabs' = Running.tf
  BY <1>2, <1>5 DEF Branch
<1>10. Kept(mem, mem', Taken(code, Running)) /\ Taken(code, Running) >= Running.stk[1].csp
  BY <1>1, <1>9, KeptSame, CodeType, LoopBounds DEF Opened
<1>11. /\ go \in SafeFrame /\ go.k = "exec" /\ go.wait = "no" /\ go.tf = Running.tf
       /\ go.stk[1] = Running.stk[1] /\ LoopOK(code, go)
  BY <1>5
<1>12. QED
  BY <1>1, <1>3, <1>6, <1>7, <1>8, <1>9, <1>10, <1>11, TopGoesOn

\* A return to code of the loop.
LEMMA CloseStep ==
  ASSUME StackInv, Orderly, Executing, Inner(Running).ret.k = "code",
         Resume(CodeOf(Inner(Running).ret), Inner(Running).sp, SubSeq(Running.stk, 1, Len(Running.stk) - 1)),
         csp' = Inner(Running).csp, UNCHANGED <<code, mem, tabs>>
  PROVE  Orderly'
<1>1. /\ Depth > 0 /\ Running \in SafeFrame /\ Running.k = "exec" /\ Running.wait = "no"
      /\ LoopOK(code, Running) /\ SavedOK(code, Running, mem)
  BY TopLoop DEF Executing
<1> DEFINE go == Outside(Running)
<1>2. cstack' = [cstack EXCEPT ![Depth] = go]
  BY DEF Outside, Resume, Running
<1> HIDE DEF go
<1>3. /\ go \in SafeFrame /\ go.k = "exec" /\ go.wait = "no" /\ go.tf = Running.tf
      /\ go.stk[1] = Running.stk[1]
      /\ \A j \in 1 .. Len(go.stk) : go.stk[j] = Running.stk[j] /\ j \in 1 .. Len(Running.stk)
      /\ Taken(code, go) = Inner(Running).csp /\ Inner(go).csp < Taken(code, go)
      /\ LoopOK(code, go)
  <2>1. go = Outside(Running) /\ code \in Programs
    BY CodeType DEF go
  <2>2. QED
    BY <1>1, <2>1, LoopCloses
<1>4. /\ Taken(code, Running) \in Nat /\ Inner(Running).csp <= Taken(code, Running)
      /\ Running.stk[1].csp <= Taken(code, Running) /\ Running.stk[1].csp \in Int
      /\ Inner(Running).csp \in Int /\ Inner(go).csp \in Int
      /\ \A j \in 1 .. Len(Running.stk) : Running.stk[j].csp \in Int
  <2>1. Inner(go) \in Opened
    BY <1>3, CodeType, LoopBounds
  <2>2. /\ Taken(code, Running) \in Nat /\ Inner(Running).csp <= Taken(code, Running)
        /\ Running.stk[1].csp <= Inner(Running).csp
        /\ Inner(Running) \in Opened /\ Running.stk[1] \in Opened
        /\ \A j \in 1 .. Len(Running.stk) : Running.stk[j].csp \in 0 .. Inner(Running).csp
    BY <1>1, CodeType, LoopBounds
  <2>3. Inner(go).csp \in Int /\ Inner(Running).csp \in Int /\ Running.stk[1].csp \in Int
    BY <2>1, <2>2 DEF Opened
  <2>4. Running.stk[1].csp <= Taken(code, Running)
    BY <2>2, <2>3
  <2>5. QED
    BY <2>2, <2>3, <2>4
<1>5. SavedOK(code, go, mem')
  <2> SUFFICES ASSUME NEW j \in 1 .. Len(go.stk), go.stk[j].csp < Taken(code, go)
               PROVE  mem[go.stk[j].csp] = go.stk[j].ret
    BY DEF SavedOK
  <2>1. j \in 1 .. Len(Running.stk) /\ go.stk[j] = Running.stk[j]
    BY <1>3
  <2>2. Running.stk[j].csp < Taken(code, Running)
    BY <1>3, <1>4, <2>1
  <2>3. QED
    BY <1>1, <2>1, <2>2 DEF SavedOK
<1>6. LrOK(code, go, lr')
  BY <1>3, <1>4 DEF LrOK
<1>7. csp' = Taken(code, go) /\ tabs' = Running.tf /\ Kept(mem, mem', Taken(code, Running))
  BY <1>3, Current, KeptSame
<1>8. QED
  BY <1>1, <1>2, <1>3, <1>4, <1>5, <1>6, <1>7, TopGoesOn

\* The top frame returns to the C code that called it.
LEMMA Uncovered ==
  ASSUME StackInv, Orderly, Depth > 0
  PROVE  /\ LinkOK(code, cstack, Depth)
         /\ Stacked(code, Under, mem) /\ Under \in Seq(SafeFrame)
         /\ Len(Under) = Depth - 1 /\ Depth \in Nat /\ Depth \in 1 .. Len(cstack)
         /\ Depth > 1 => cstack[Depth - 1] \in SafeFrame
         /\ \A d \in 1 .. Depth - 1 : Under[d] = cstack[d] /\ Home(Under, d) = Home(cstack, d)
<1>1. Depth \in 1 .. Len(cstack) /\ Depth = Len(cstack) /\ Depth \in Nat /\ cstack \in Seq(SafeFrame)
  BY RunningFrame, CodeType, LenProperties DEF Depth
<1>2. /\ Under \in Seq(SafeFrame) /\ Len(Under) = Depth - 1
      /\ \A d \in 1 .. Depth - 1 : Under[d] = cstack[d]
  BY <1>1, Beneath DEF Under
<1>3. Stacked(code, Under, mem)
  BY <1>1, CodeType, PopStacked DEF Orderly, Under
<1>4. \A d \in 1 .. Depth - 1 : Home(Under, d) = Home(cstack, d)
  BY <1>1, <1>2 DEF Home
<1>5. LinkOK(code, cstack, Depth)
  BY <1>1 DEF Orderly, Stacked, LinksOK
<1>6. Depth > 1 => cstack[Depth - 1] \in SafeFrame
  BY <1>1, ElementOfSeq
<1>7. QED
  BY <1>1, <1>2, <1>3, <1>4, <1>5, <1>6

LEMMA HaltStep ==
  ASSUME StackInv, Orderly, Executing, Len(Running.stk) = 1, Halt(Inner(Running).sp),
         csp' = Inner(Running).csp, UNCHANGED <<code, mem, tabs>>
  PROVE  Orderly'
<1>1. /\ Depth > 0 /\ Running \in SafeFrame /\ Running.k = "exec" /\ Running.wait = "no"
      /\ LoopOK(code, Running) /\ tabs = Running.tf
  BY TopLoop, Current DEF Executing
<1>2. /\ LinkOK(code, cstack, Depth)
      /\ Stacked(code, Under, mem) /\ Under \in Seq(SafeFrame)
      /\ Len(Under) = Depth - 1 /\ Depth \in Nat /\ Depth \in 1 .. Len(cstack)
      /\ Depth > 1 => cstack[Depth - 1] \in SafeFrame
      /\ \A d \in 1 .. Depth - 1 : Under[d] = cstack[d] /\ Home(Under, d) = Home(cstack, d)
  BY <1>1, Uncovered
<1>3. Inner(Running) = Running.stk[1]
  BY DEF Inner
<1>4. Depth > 1 /\ ExecLink(code, cstack, Depth)
  BY <1>1, <1>2 DEF LinkOK, Running
<1> DEFINE below == cstack[Depth - 1]
<1>5. Under[Depth - 1] = below /\ Home(Under, Depth - 1) = Home(cstack, Depth - 1)
  BY <1>2, <1>4
<1>6. cstack' = Under /\ osp' = Running.stk[1].sp /\ csp' = Running.stk[1].csp /\ tabs' = Running.tf
  BY <1>1, <1>3 DEF Halt
<1>7. CASE /\ below.k = "exec" /\ below.wait = "extern"
           /\ Running.stk[1] = Open(NilV, below.sp, Taken(code, below))
  <2>1. Running.stk[1].sp = below.sp /\ Running.stk[1].csp = Taken(code, below)
    BY <1>7 DEF Open
  <2>2. ExecTop(code, below, osp', csp', lr', tabs')
    BY <1>6, <1>7, <2>1 DEF ExecTop
  <2>3. TopOK(code, Under, osp', csp', lr', tabs')
    BY <1>2, <1>4, <1>5, <1>7, <2>2 DEF TopOK
  <2>4. QED
    BY <1>2, <1>6, <2>3 DEF Orderly
<1>8. CASE /\ below.k = "start" /\ Running.tf = Home(cstack, Depth - 1)
           /\ Running.stk[1] = Open(NilV, below.osp0 - below.cells, below.csp0)
  <2>1. Running.stk[1].sp = below.osp0 - below.cells /\ Running.stk[1].csp = below.csp0
    BY <1>8 DEF Open
  <2>2. below.cells \in Int /\ below.osp0 \in Int
    BY <1>2, <1>4, <1>8 DEF SafeFrame, Frame, StartFrame, ExecFrame, NativeFrame
  <2>3. TopOK(code, Under, osp', csp', lr', tabs')
    BY <1>2, <1>4, <1>5, <1>6, <1>8, <2>1, <2>2 DEF TopOK
  <2>4. QED
    BY <1>2, <1>6, <2>3 DEF Orderly
<1>9. QED
  BY <1>4, <1>7, <1>8 DEF ExecLink, Running

\* exec_ret to where the innermost function was called from.
LEMMA ViaStep ==
  ASSUME StackInv, Orderly, Executing, ReturnVia(Inner(Running).ret, Inner(Running).sp),
         csp' = Inner(Running).csp, UNCHANGED <<code, mem, tabs>>
  PROVE  Orderly'
<1>1. CASE Inner(Running).ret.k = "code"
  <2>1. Resume(CodeOf(Inner(Running).ret), Inner(Running).sp, SubSeq(Running.stk, 1, Len(Running.stk) - 1))
    BY <1>1 DEF ReturnVia
  <2>2. QED
    BY <1>1, <2>1, CloseStep
<1>2. CASE Inner(Running).ret.k # "code"
  <2>1. LoopOK(code, Running) /\ Running.stk \in Seq(Opened)
    BY TopLoop, InnerType DEF Executing
  <2>2. Len(Running.stk) \in Nat /\ Len(Running.stk) >= 1
    BY <2>1, LenProperties DEF LoopOK
  <2>3. Len(Running.stk) \notin 2 .. Len(Running.stk)
    BY <1>2, <2>1 DEF LoopOK, Inner
  <2>4. Len(Running.stk) = 1
    <3> DEFINE n == Len(Running.stk)
    <3>1. n \in Nat /\ n >= 1 /\ n \notin 2 .. n
      BY <2>2, <2>3
    <3> HIDE DEF n
    <3>2. n = 1
      BY <3>1
    <3>3. QED
      BY <3>2 DEF n
  <2>5. Halt(Inner(Running).sp)
    BY <1>2 DEF ReturnVia
  <2>6. QED
    BY <2>4, <2>5, HaltStep
<1>3. QED
  BY <1>1, <1>2

\* The instructions that return.
LEMMA ReturnStep ==
  ASSUME StackInv, Orderly, HaltsOutermost, Ret \/ Remit \/ Restore \/ Leave \/ HaltOp
  PROVE  Orderly'
<1>1. /\ Executing => /\ Running.sp = Inner(Running).sp - Here.height
                      /\ Here.height \in Nat /\ Inner(Running).sp \in Int /\ Running.sp \in Int
                      /\ ~Here.saved => csp = Inner(Running).csp /\ lr = Inner(Running).ret
  BY Current, InnerType DEF Here, One, Executing
<1>2. CASE Ret
  <2>1. At("ret") /\ "ret" \in Op
    BY <1>2 DEF Ret, Op
  <2>2. Executing /\ Here.height = 0 /\ ~Here.saved
    BY <2>1, InstructionType, ReturnNotes
  <2>3. QED
    BY <1>1, <1>2, <2>2, ViaStep DEF Ret
<1>3. CASE Remit
  <2>1. At("remit") /\ "remit" \in Op
    BY <1>3 DEF Remit, Op
  <2>2. Executing /\ Here.height = Instruction.a /\ ~Here.saved /\ Instruction.a \in Nat
    BY <2>1, InstructionType, ReturnNotes
  <2>3. Reduced(Running.sp, Instruction.a) = Inner(Running).sp
    BY <1>1, <2>2, ReducedHere
  <2>4. QED
    BY <1>1, <1>3, <2>2, <2>3, ViaStep DEF Remit
<1>4. CASE Restore
  <2>1. At("restore") /\ "restore" \in Op
    BY <1>4 DEF Restore, Op
  <2>2. Executing /\ Here.height = 0 /\ Here.saved
    BY <2>1, InstructionType, ReturnNotes
  <2>3. lr' = Inner(Running).ret /\ csp' = Inner(Running).csp
    BY <1>4, <2>2, PopRestores DEF Restore
  <2>4. QED
    BY <1>1, <1>4, <2>2, <2>3, ViaStep DEF Restore
<1>5. CASE Leave
  <2>1. At("leave") /\ "leave" \in Op
    BY <1>5 DEF Leave, Op
  <2>2. Executing /\ Here.height = Instruction.a /\ Here.saved /\ Instruction.a \in Nat
    BY <2>1, InstructionType, ReturnNotes
  <2>3. lr' = Inner(Running).ret /\ csp' = Inner(Running).csp
    BY <1>5, <2>2, PopRestores DEF Leave
  <2>4. Reduced(Running.sp, Instruction.a) = Inner(Running).sp
    BY <1>1, <2>2, ReducedHere
  <2>5. QED
    BY <1>1, <1>5, <2>2, <2>3, <2>4, ViaStep DEF Leave
<1>6. CASE HaltOp
  <2>1. At("halt") /\ "halt" \in Op
    BY <1>6 DEF HaltOp, Op
  <2>2. Executing /\ Here.height = 0 /\ ~Here.saved /\ Len(Running.stk) = 1
    BY <2>1, InstructionType, ReturnNotes DEF HaltsOutermost
  <2>3. QED
    BY <1>1, <1>6, <2>2, HaltStep DEF HaltOp
<1>7. QED
  BY <1>2, <1>3, <1>4, <1>5, <1>6
----------------------------------------------------------------------------
(* Calls that open a frame.                                                *)

\* A loop that begins with function f of module m.
Begun(f, m, sp, c) == [k |-> "exec", ip |-> Entry(f), sp |-> sp, tf |-> m, wait |-> "no",
                       stk |-> <<Open(NilV, sp, c)>>]

LEMMA LoopBegins ==
  ASSUME NEW p \in Programs, NEW f \in Func, NEW m \in Mod, OwnerOf(f) = m,
         NEW sp \in Int, sp >= OpBase, NEW c \in Nat, c + 1 <= Top - sp,
         NEW fr, fr = Begun(f, m, sp, c)
  PROVE  /\ fr \in SafeFrame /\ fr.k = "exec" /\ fr.wait = "no" /\ fr.tf = m /\ fr.sp = sp
         /\ fr.stk[1] = Open(NilV, sp, c) /\ fr.stk[1].sp = sp /\ fr.stk[1].csp = c
         /\ Taken(p, fr) = c /\ LrOK(p, fr, NilV)
         /\ LoopOK(p, fr) /\ \A mm : SavedOK(p, fr, mm)
<1> DEFINE o == Open(NilV, sp, c)  stk == <<o>>
<1>1. /\ Entry(f) \in Loc /\ InCode(p, Entry(f), m)
      /\ NoteOf(p, Entry(f)).height = 0 /\ NoteOf(p, Entry(f)).saved = FALSE
  BY EntryNote
<1>2. o \in Opened /\ o.ret = NilV /\ o.sp = sp /\ o.csp = c
  BY Values DEF Open, Opened
<1> HIDE DEF o
<1>3. stk \in Seq(Opened) /\ Len(stk) = 1 /\ stk[1] = o
  BY <1>2
<1> HIDE DEF stk
<1>4. /\ fr = [k |-> "exec", ip |-> Entry(f), sp |-> sp, tf |-> m, wait |-> "no", stk |-> stk]
      /\ "no" \in Wait
  BY DEF Begun, stk, o, Wait
<1>5. /\ fr \in ExecFrame /\ fr.k = "exec" /\ fr.wait = "no" /\ fr.tf = m /\ fr.sp = sp /\ fr.stk = stk
      /\ fr.ip = Entry(f)
  BY <1>1, <1>3, <1>4 DEF ExecFrame
<1>6. fr \in SafeFrame
  BY <1>5 DEF SafeFrame, Frame
<1>7. Inner(fr) = o /\ fr.stk[1] = o /\ Len(fr.stk) = 1
  BY <1>3, <1>5 DEF Inner
<1>8. Taken(p, fr) = c
  BY <1>1, <1>2, <1>5, <1>7 DEF Taken, One
<1>9. LoopOK(p, fr)
  <2>1. fr.sp = Inner(fr).sp - NoteOf(p, fr.ip).height
    BY <1>1, <1>2, <1>5, <1>7
  <2>2. Taken(p, fr) <= Top - fr.sp
    BY <1>5, <1>8, SizesOK
  <2>3. \A j \in 1 .. Len(fr.stk) : j = 1
    BY <1>7
  <2>4. \A j \in 1 .. Len(fr.stk) : /\ fr.stk[j].csp = fr.stk[1].csp + j - 1
                                    /\ fr.stk[j].sp <= fr.stk[1].sp
                                    /\ fr.stk[j].csp + 1 <= Top - fr.stk[j].sp
    BY <1>2, <1>7, <2>3
  <2>5. ~ \E j : j \in 2 .. Len(fr.stk)
    BY <1>7
  <2>6. fr.stk[1].ret = NilV /\ fr.stk[1].csp >= 0 /\ Len(fr.stk) >= 1 /\ InCode(p, fr.ip, fr.tf)
    BY <1>1, <1>2, <1>5, <1>7
  <2>7. QED
    BY <2>1, <2>2, <2>4, <2>5, <2>6 DEF LoopOK
<1>10. \A mm : SavedOK(p, fr, mm)
  <2>1. \A j \in 1 .. Len(fr.stk) : ~(fr.stk[j].csp < Taken(p, fr))
    BY <1>2, <1>7, <1>8
  <2>2. QED
    BY <2>1 DEF SavedOK
<1>11. LrOK(p, fr, NilV)
  BY <1>2, <1>7 DEF LrOK
<1>12. QED
  BY <1>2, <1>5, <1>6, <1>7, <1>8, <1>9, <1>10, <1>11 DEF o

\* A frame above a loop on top is above every loop under it.
LEMMA AboveAll ==
  ASSUME NEW p \in Programs, NEW cs \in Seq(SafeFrame), NEW m, Stacked(p, cs, m), Len(cs) > 0,
         cs[Len(cs)].k = "exec", NEW fr, Above(p, cs[Len(cs)], fr),
         fr.k = "exec" => fr.stk[1].csp \in Int /\ fr.stk[1].sp \in Int,
         fr.k = "start" => fr.csp0 \in Int /\ fr.osp0 \in Int
  PROVE  \A d \in 1 .. Len(cs) : cs[d].k = "exec" => Above(p, cs[d], fr)
<1> SUFFICES ASSUME NEW d \in 1 .. Len(cs), cs[d].k = "exec"
             PROVE  Above(p, cs[d], fr)
  OBVIOUS
<1> DEFINE top == cs[Len(cs)]
<1>1. /\ Len(cs) \in 1 .. Len(cs) /\ top \in SafeFrame /\ cs[d] \in SafeFrame
      /\ LoopOK(p, top) /\ LoopOK(p, cs[d])
  BY Beneath, ElementOfSeq DEF Stacked, FramesOK
<1>2. CASE d = Len(cs)
  BY <1>2
<1>3. CASE d # Len(cs)
  <2>1. Above(p, cs[d], top)
    <3>1. Len(cs) \in d + 1 .. Len(cs)
      BY <1>1, <1>3
    <3>2. QED
      BY <3>1 DEF Stacked, OrderOK
  <2>2. Taken(p, cs[d]) <= top.stk[1].csp /\ top.stk[1].sp <= cs[d].sp
    BY <2>1 DEF Above
  <2>3. /\ Taken(p, cs[d]) \in Int /\ cs[d].sp \in Int /\ Taken(p, top) \in Int /\ top.sp \in Int
        /\ top.stk[1].csp \in Int /\ top.stk[1].sp \in Int
        /\ top.stk[1].csp <= Taken(p, top) /\ top.sp <= top.stk[1].sp
    <3>1. /\ Taken(p, cs[d]) \in Nat /\ Taken(p, top) \in Nat
          /\ top.stk[1].csp <= Inner(top).csp /\ Inner(top).csp <= Taken(p, top)
          /\ top.sp <= Inner(top).sp /\ Inner(top).sp <= top.stk[1].sp
          /\ top.stk[1] \in Opened /\ Inner(top) \in Opened
      BY <1>1, LoopBounds
    <3>2. cs[d].sp \in Int /\ top.sp \in Int
      BY <1>1, ExecType
    <3>3. QED
      BY <3>1, <3>2 DEF Opened
  <2> HIDE DEF top
  <2>4. Above(p, top, fr)
    BY DEF top
  <2> DEFINE t1 == Taken(p, cs[d])
             t2 == Taken(p, top)
  <2>5. /\ t1 \in Int /\ t2 \in Int /\ t1 <= top.stk[1].csp /\ top.stk[1].csp <= t2
        /\ fr.k = "exec"  => t2 <= fr.stk[1].csp /\ fr.stk[1].sp <= top.sp
        /\ fr.k = "start" => t2 <= fr.csp0 /\ fr.osp0 <= top.sp
    BY <2>2, <2>3, <2>4 DEF Above
  <2> HIDE DEF t1, t2
  <2>6. fr.k = "exec" => t1 <= fr.stk[1].csp /\ fr.stk[1].sp <= cs[d].sp
    <3> HAVE fr.k = "exec"
    <3> DEFINE a == fr.stk[1].csp  b == fr.stk[1].sp  x == top.stk[1].csp  y == top.stk[1].sp
    <3>1. /\ a \in Int /\ b \in Int /\ x \in Int /\ y \in Int /\ t1 <= x /\ x <= t2 /\ t2 <= a
          /\ b <= top.sp /\ top.sp <= y /\ y <= cs[d].sp /\ cs[d].sp \in Int /\ top.sp \in Int
      BY <2>2, <2>3, <2>5
    <3> HIDE DEF a, b, x, y
    <3>2. t1 <= a /\ b <= cs[d].sp
      BY <2>5, <3>1
    <3>3. QED
      BY <3>2 DEF a, b
  <2>7. fr.k = "start" => t1 <= fr.csp0 /\ fr.osp0 <= cs[d].sp
    <3> HAVE fr.k = "start"
    <3> DEFINE a == fr.csp0  b == fr.osp0  x == top.stk[1].csp  y == top.stk[1].sp
    <3>1. /\ a \in Int /\ b \in Int /\ x \in Int /\ y \in Int /\ t1 <= x /\ x <= t2 /\ t2 <= a
          /\ b <= top.sp /\ top.sp <= y /\ y <= cs[d].sp /\ cs[d].sp \in Int /\ top.sp \in Int
      BY <2>2, <2>3, <2>5
    <3> HIDE DEF a, b, x, y
    <3>2. t1 <= a /\ b <= cs[d].sp
      BY <2>5, <3>1
    <3>3. QED
      BY <3>2 DEF a, b
  <2>8. QED
    BY <2>6, <2>7 DEF Above, t1
<1>4. QED
  BY <1>2, <1>3

\* exec_call of a function of another module.
LEMMA EnterExternStep ==
  ASSUME StackInv, Orderly, Executing,
         NEW it, it.item \in Func, it.owner \in Mod, OwnerOf(it.item) = it.owner,
         Here.height >= IF Here.saved THEN 2 ELSE 1,
         Noted(NextIp, Here.height, Here.saved), EnterExtern(it)
  PROVE  Orderly'
<1> DEFINE go == Moved(Running, NextIp, Running.sp, "extern")
           fr == Begun(it.item, it.owner, Running.sp, csp')
           c  == Inner(Running).csp
<1>1. /\ Depth > 0 /\ Running \in SafeFrame /\ Running.k = "exec" /\ Running.wait = "no"
      /\ LoopOK(code, Running) /\ SavedOK(code, Running, mem)
  BY TopLoop DEF Executing
<1>2. /\ c \in 0 .. CallCells - 1 /\ Running.sp \in Int /\ Running.sp >= OpBase /\ Running.sp <= Top
      /\ Inner(Running).sp \in Int /\ Running.stk[1].csp \in Nat /\ Running.stk[1].csp <= c
      /\ Running.tf \in Mod
  <2>1. Running.stk[1] \in Opened /\ 0 <= Running.stk[1].csp /\ Running.stk[1].csp <= c
    BY <1>1, CodeType, LoopBounds
  <2>2. QED
    BY <1>1, <2>1, InnerType DEF Opened
<1>3. /\ Here.height \in Nat /\ Here.saved \in BOOLEAN
      /\ Running.sp = Inner(Running).sp - Here.height
      /\ csp = c + One(Here.saved)
      /\ ~Here.saved => lr = Inner(Running).ret
      /\ Here.saved => mem[c] = Inner(Running).ret
  BY Current DEF Here
<1>4. /\ NextIp \in Loc /\ InCode(code, NextIp, Running.tf)
      /\ NoteOf(code, NextIp).height = Here.height /\ NoteOf(code, NextIp).saved = Here.saved
  BY DEF Noted
<1>5. csp' = csp + 1 /\ mem' = [mem EXCEPT ![csp] = lr] /\ csp \in Cell /\ mem \in [Cell -> Val]
  BY DEF EnterExtern, PushLr, StackInv, TypeOK
<1>6. c + One(Here.saved) + 2 <= Top - Running.sp
  <2>1. c + 1 <= Top - Inner(Running).sp
    <3>1. Len(Running.stk) \in 1 .. Len(Running.stk)
      BY <1>1, ExecType DEF LoopOK
    <3>2. QED
      BY <1>1, <3>1 DEF LoopOK, Inner
  <2>2. Here.height >= One(Here.saved) + 1 /\ One(Here.saved) \in Nat
    BY <1>3 DEF One
  <2>3. QED
    BY <1>2, <1>3, <2>1, <2>2, SizesOK
<1>7. /\ go \in SafeFrame /\ go.k = "exec" /\ go.wait = "extern" /\ go.tf = Running.tf
      /\ go.stk = Running.stk /\ go.sp = Running.sp
      /\ Inner(go) = Inner(Running) /\ LoopOK(code, go)
      /\ Taken(code, go) = c + One(Here.saved) + One("extern" = "extern")
  <2>1. Running.sp = Inner(Running).sp - NoteOf(code, NextIp).height
    BY <1>3, <1>4
  <2>2. c + One(NoteOf(code, NextIp).saved) + 1 <= Top - Running.sp
    BY <1>2, <1>3, <1>4, <1>6, SizesOK DEF One
  <2>3. go = Moved(Running, NextIp, Running.sp, "extern") /\ code \in Programs /\ "extern" \in Wait
    BY CodeType DEF Wait
  <2> HIDE DEF go
  <2>4. QED
    BY <1>1, <1>2, <1>4, <2>1, <2>2, <2>3, LoopMoves
<1>8. Taken(code, go) = csp' /\ csp' \in Nat /\ csp' = c + One(Here.saved) + 1
  <2>1. One("extern" = "extern") = 1 /\ One(Here.saved) \in Nat
    BY DEF One
  <2>2. csp' = c + One(Here.saved) + 1
    BY <1>2, <1>3, <1>5, <2>1
  <2> HIDE DEF go
  <2>3. QED
    BY <1>2, <1>7, <2>1, <2>2
<1>9. /\ fr \in SafeFrame /\ fr.k = "exec" /\ fr.wait = "no" /\ fr.tf = it.owner /\ fr.sp = Running.sp
      /\ fr.stk[1] = Open(NilV, Running.sp, csp') /\ fr.stk[1].sp = Running.sp /\ fr.stk[1].csp = csp'
      /\ Taken(code, fr) = csp' /\ LrOK(code, fr, NilV)
      /\ LoopOK(code, fr) /\ \A mm : SavedOK(code, fr, mm)
  <2>1. csp' + 1 <= Top - Running.sp
    BY <1>2, <1>3, <1>6, <1>8, SizesOK DEF One
  <2>2. fr = Begun(it.item, it.owner, Running.sp, csp') /\ code \in Programs
    BY CodeType
  <2> HIDE DEF fr
  <2>3. QED
    BY <1>2, <1>8, <2>1, <2>2, LoopBegins
<1>10. cstack' = Append([cstack EXCEPT ![Depth] = go], fr)
  <2>1. [Running EXCEPT !.ip = NextIp, !.wait = "extern"] = go
    BY <1>1, ExecType DEF ExecFrame, Moved
  <2>2. QED
    BY <2>1 DEF EnterExtern, Running, Begun
<1> HIDE DEF go, fr, c
<1>11. /\ Kept(mem, mem', c)
       /\ Taken(code, go) > c => mem'[c] = Inner(Running).ret
  <2>1. \A i \in 0 .. CallCells - 1 : i \in Cell
    BY ConstAssumption DEF Cell, Top, OpBase, NodeCells
  <2>2. \A i \in 0 .. c - 1 : i \in Cell /\ i # csp
    BY <1>2, <1>3, <2>1, ConstAssumption DEF One
  <2>3. CASE Here.saved
    <3>1. c # csp /\ c \in Cell
      BY <1>2, <1>3, <2>1, <2>3 DEF One
    <3>2. QED
      BY <1>3, <1>5, <2>2, <2>3, <3>1 DEF Kept
  <2>4. CASE ~Here.saved
    <3>1. c = csp
      BY <1>2, <1>3, <2>4 DEF One
    <3>2. QED
      BY <1>3, <1>5, <2>2, <2>4, <3>1 DEF Kept
  <2>5. QED
    BY <2>3, <2>4
<1>12. SavedOK(code, go, mem')
  <2>1. Kept(mem, mem', Inner(Running).csp)
    BY <1>11 DEF c
  <2>2. Taken(code, go) > Inner(Running).csp => mem'[Inner(Running).csp] = Inner(Running).ret
    BY <1>11 DEF c
  <2>3. QED
    BY <1>1, <1>7, <2>1, <2>2, CodeType, SavedMoves
<1> DEFINE cs == [cstack EXCEPT ![Depth] = go]
<1>13. /\ Depth = Len(cstack) /\ Depth \in 1 .. Len(cstack) /\ Running = cstack[Len(cstack)]
       /\ cs \in Seq(SafeFrame) /\ Len(cs) = Depth /\ cs[Depth] = go
  <2>1. Depth = Len(cstack) /\ Depth \in 1 .. Len(cstack) /\ Running = cstack[Len(cstack)]
    BY <1>1, RunningFrame DEF Depth, Running
  <2>2. QED
    BY <1>7, <2>1, CodeType, ExceptSeq
<1>14. Stacked(code, cs, mem')
  <2>1. Stacked(code, cstack, mem)
    BY DEF Orderly
  <2>2. c \in Nat /\ c >= go.stk[1].csp
    BY <1>2, <1>7
  <2>3. QED
    BY <1>1, <1>7, <1>11, <1>12, <1>13, <2>1, <2>2, CodeType, SwapStacked
<1> HIDE DEF cs
<1>15. LinkOK(code, Append(cs, fr), Depth + 1)
  <2> DEFINE cs2 == Append(cs, fr)
  <2>1. Depth \in Nat /\ cs2[Depth + 1] = fr /\ cs2[Depth] = go
    BY <1>9, <1>13, AppendProperties, LenProperties
  <2> HIDE DEF cs2
  <2>2. Depth + 1 - 1 = Depth /\ Depth + 1 > 1
    BY <1>13
  <2>3. ExecLink(code, cs2, Depth + 1)
    BY <1>7, <1>8, <1>9, <2>1, <2>2 DEF ExecLink
  <2>4. QED
    BY <1>9, <2>1, <2>2, <2>3 DEF LinkOK, cs2
<1>16. \A d \in 1 .. Len(cs) : cs[d].k = "exec" => Above(code, cs[d], fr)
  <2>1. Above(code, cs[Len(cs)], fr)
    BY <1>2, <1>7, <1>8, <1>9, <1>13 DEF Above
  <2>2. Len(cs) > 0 /\ cs[Len(cs)].k = "exec" /\ fr.k = "exec" /\ fr.stk[1].csp \in Int /\ fr.stk[1].sp \in Int
    BY <1>2, <1>7, <1>8, <1>9, <1>13
  <2>3. QED
    BY <1>13, <1>14, <2>1, <2>2, CodeType, AboveAll
<1>17. Stacked(code, cstack', mem')
  BY <1>9, <1>10, <1>13, <1>14, <1>15, <1>16, PushStacked DEF cs
<1>18. Len(cstack') = Depth + 1 /\ cstack'[Depth + 1] = fr
  BY <1>9, <1>10, <1>13, AppendProperties DEF cs
<1>19. lr' = NilV /\ tabs' = fr.tf /\ csp' = Taken(code, fr) /\ code' = code
  BY <1>9 DEF EnterExtern
<1>20. TopOK(code, cstack', osp', csp', lr', tabs')
  BY <1>9, <1>13, <1>18, <1>19 DEF TopOK, ExecTop
<1>21. QED
  BY <1>17, <1>19, <1>20 DEF Orderly

\* exec_call of a native.
LEMMA EnterNativeStep ==
  ASSUME StackInv, Orderly, Executing,
         NEW it, it.item \in Native, it.item \in Invokes => Here.saved,
         Noted(NextIp, Here.height, Here.saved), EnterNative(it)
  PROVE  Orderly'
<1> DEFINE go == Moved(Running, NextIp, Running.sp, "native")
           fr == [k |-> "native", fn |-> it.item,
                  arg |-> IF IsReg(1) THEN Reg(1) ELSE Data, left |-> 1]
           c  == Inner(Running).csp
<1>1. /\ Depth > 0 /\ Running \in SafeFrame /\ Running.k = "exec" /\ Running.wait = "no"
      /\ LoopOK(code, Running) /\ SavedOK(code, Running, mem)
      /\ ExecTop(code, Running, osp, csp, lr, tabs)
  BY TopLoop DEF Executing
<1>2. /\ c \in Nat /\ Running.sp \in Int /\ Running.sp >= OpBase
      /\ Running.stk[1].csp \in Nat /\ Running.stk[1].csp <= c
  <2>1. Running.stk[1] \in Opened /\ 0 <= Running.stk[1].csp /\ Running.stk[1].csp <= c
    BY <1>1, CodeType, LoopBounds
  <2>2. QED
    BY <1>1, <2>1, InnerType DEF Opened
<1>3. /\ Here.height \in Nat /\ Here.saved \in BOOLEAN
      /\ Running.sp = Inner(Running).sp - Here.height
      /\ csp = c + One(Here.saved) /\ csp = Taken(code, Running)
      /\ tabs = Running.tf
  BY Current DEF Here
<1>4. /\ NextIp \in Loc /\ InCode(code, NextIp, Running.tf)
      /\ NoteOf(code, NextIp).height = Here.height /\ NoteOf(code, NextIp).saved = Here.saved
  BY DEF Noted
<1>5. fr \in SafeFrame /\ fr.k = "native" /\ fr.fn = it.item
  BY RegType, Values DEF SafeFrame, Frame, NativeFrame
<1>6. /\ go \in SafeFrame /\ go.k = "exec" /\ go.wait = "native" /\ go.tf = Running.tf
      /\ go.stk = Running.stk /\ go.sp = Running.sp /\ go.ip = NextIp
      /\ Inner(go) = Inner(Running) /\ LoopOK(code, go)
      /\ Taken(code, go) = c + One(Here.saved) + One("native" = "extern")
  <2>1. Running.sp = Inner(Running).sp - NoteOf(code, NextIp).height
    BY <1>3, <1>4
  <2>2. go = Moved(Running, NextIp, Running.sp, "native") /\ code \in Programs /\ "native" \in Wait
    BY CodeType DEF Wait
  <2> HIDE DEF go
  <2>3. QED
    BY <1>1, <1>2, <1>4, <2>1, <2>2, LoopMoves
<1>7. cstack' = Append([cstack EXCEPT ![Depth] = go], fr)
  <2>1. [Running EXCEPT !.ip = NextIp, !.wait = "native"] = go
    BY <1>1, ExecType DEF ExecFrame, Moved
  <2>2. QED
    BY <2>1 DEF EnterNative, Running
<1> HIDE DEF go, fr, c
<1>8. Taken(code, go) = csp
  <2>1. One("native" = "extern") = 0 /\ One(Here.saved) \in Nat
    BY DEF One
  <2>2. QED
    BY <1>2, <1>3, <1>6, <2>1
<1>9. UNCHANGED <<code, mem, osp, csp, lr, tabs>>
  BY DEF EnterNative
<1>10. SavedOK(code, go, mem) /\ LrOK(code, go, lr)
  <2>1. SavedOK(code, go, mem)
    BY <1>1, <1>3, <1>6, <1>8 DEF SavedOK
  <2>2. LrOK(code, go, lr)
    BY <1>1, <1>3, <1>6, <1>8 DEF ExecTop, LrOK
  <2>3. QED
    BY <2>1, <2>2
<1> DEFINE cs == [cstack EXCEPT ![Depth] = go]
<1>11. /\ Depth = Len(cstack) /\ Depth \in 1 .. Len(cstack) /\ Running = cstack[Len(cstack)]
       /\ cs \in Seq(SafeFrame) /\ Len(cs) = Depth /\ cs[Depth] = go
  <2>1. Depth = Len(cstack) /\ Depth \in 1 .. Len(cstack) /\ Running = cstack[Len(cstack)]
    BY <1>1, RunningFrame DEF Depth, Running
  <2>2. QED
    BY <1>6, <2>1, CodeType, ExceptSeq
<1>12. Stacked(code, cs, mem)
  <2>1. Stacked(code, cstack, mem)
    BY DEF Orderly
  <2>2. c \in Nat /\ c >= go.stk[1].csp /\ Kept(mem, mem, c)
    BY <1>2, <1>6 DEF Kept
  <2>3. QED
    BY <1>1, <1>6, <1>10, <1>11, <2>1, <2>2, CodeType, SwapStacked
<1> HIDE DEF cs
<1> DEFINE cs2 == Append(cs, fr)
<1>13. Depth \in Nat /\ cs2[Depth + 1] = fr /\ cs2[Depth] = go /\ Len(cs2) = Depth + 1
  BY <1>5, <1>11, AppendProperties, LenProperties
<1> HIDE DEF cs2
<1>14. Depth + 1 - 1 = Depth /\ Depth + 1 > 1
  BY <1>13, <1>11
<1>15. LinkOK(code, cs2, Depth + 1)
  <2>1. fr.fn \in Invokes => NoteOf(code, go.ip).saved
    BY <1>4, <1>5, <1>6
  <2>2. NativeLink(code, cs2, Depth + 1)
    BY <1>6, <1>13, <1>14, <2>1 DEF NativeLink
  <2>3. QED
    BY <1>5, <1>13, <1>14, <2>2 DEF LinkOK
<1>16. \A d \in 1 .. Len(cs) : cs[d].k = "exec" => Above(code, cs[d], fr)
  BY <1>5 DEF Above
<1>17. Stacked(code, cs2, mem)
  BY <1>5, <1>11, <1>12, <1>15, <1>16, PushStacked DEF cs2
<1>18. NativeTop(code, cs2, Depth, osp, csp, lr, tabs)
  BY <1>3, <1>6, <1>8, <1>10, <1>13 DEF NativeTop
<1>19. TopOK(code, cs2, osp, csp, lr, tabs)
  BY <1>5, <1>13, <1>14, <1>18 DEF TopOK
<1>20. cstack' = cs2
  BY <1>7 DEF cs, cs2
<1>21. QED
  BY <1>9, <1>17, <1>19, <1>20 DEF Orderly

\* A linked function of bytecode has its own module as the owner in every table.
LEMMA Owned ==
  ASSUME NEW m \in Mod, NEW i \in DOMAIN Table[m], ~Table[m][i].native, Table[m][i].owner # NIL
  PROVE  /\ Table[m][i].item \in Func /\ Table[m][i].owner \in Mod
         /\ Table[m][i].owner = OwnerOf(Table[m][i].item)
         /\ ~Table[m][i].extern => Table[m][i].owner = m
<1>1. Table[m][i] \in Item
  BY ItemType
<1>2. Table[m][i].item \in Func /\ Table[m][i].owner \in Mod
  BY <1>1, ConstAssumption DEF Item
<1>3. QED
  BY <1>2, ConventionAssumption

LEMMA CallStep ==
  ASSUME StackInv, Orderly, Call, err = "None", err' = "None"
  PROVE  Orderly'
<1> DEFINE it == Table[Running.tf][Instruction.a]
<1>1. At("call") /\ "call" \in Op /\ "call" \in Leading
  BY DEF Call, Op, Leading
<1>2. Executing /\ Instruction.op = "call" /\ Instruction.a \in DOMAIN Table[Running.tf] /\ Running.tf \in Mod
  BY <1>1, InstructionType, InnerType DEF Call, At, Executing
<1>3. Noted(NextIp, Here.height, Here.saved)
  BY <1>1, PlainNotes
<1>4. MayCall(it, Here)
  <2>1. OwnerOf(Running.ip.f) = Running.tf /\ FitsAt(code, Notes[code], Running.ip.f, Running.ip.pc)
    BY <1>2, Current DEF InCode
  <2>2. QED
    BY <1>2, <2>1 DEF FitsAt, Instruction, Here, NoteOf
<1>5. it \in Item
  BY <1>2, ItemType
<1>6. /\ it.item # NIL /\ it.owner # NIL
      /\ \/ it.native /\ EnterNative(it)
         \/ ~it.native /\ it.extern /\ EnterExtern(it)
         \/ ~it.native /\ ~it.extern /\ Branch(it)
  <2>1. ~CallFails(FlagsAsError(it))
    BY DEF CallFails, Fail, FlagsAsError
  <2>2. QED
    BY <2>1 DEF Call
<1>7. ~it.native => it.item \in Func /\ it.owner \in Mod /\ it.owner = OwnerOf(it.item)
                    /\ (~it.extern => it.owner = Running.tf)
  BY <1>2, <1>6, Owned
<1>8. it.native => it.item \in Native
  BY <1>5, <1>6 DEF Item
<1>9. Here.height \in Nat /\ Here.saved \in BOOLEAN
  BY <1>2, Current DEF Here
<1> HIDE DEF it
<1>10. CASE it.native /\ EnterNative(it)
  <2>1. it.item \in Invokes => Here.saved
    BY <1>4, <1>10 DEF MayCall
  <2>2. QED
    BY <1>2, <1>3, <1>8, <1>10, <2>1, EnterNativeStep
<1>11. CASE ~it.native /\ it.extern /\ EnterExtern(it)
  <2>1. Here.height >= IF Here.saved THEN 2 ELSE 1
    BY <1>4, <1>11 DEF MayCall
  <2>2. OwnerOf(it.item) = it.owner
    BY <1>7, <1>11
  <2>3. QED
    BY <1>2, <1>3, <1>7, <1>11, <2>1, <2>2, EnterExternStep
<1>12. CASE ~it.native /\ ~it.extern /\ Branch(it)
  <2>1. Here.saved /\ Here.height >= 1
    BY <1>4, <1>12 DEF MayCall
  <2>2. OwnerOf(it.item) = Running.tf
    BY <1>7, <1>12
  <2>3. QED
    BY <1>2, <1>3, <1>7, <1>12, <2>1, <2>2, BranchStep
<1>13. QED
  BY <1>6, <1>10, <1>11, <1>12

LEMMA CallrStep ==
  ASSUME StackInv, Orderly, PointersAtHome, Callr, err = "None", err' = "None"
  PROVE  Orderly'
<1> DEFINE p  == Reg(Instruction.a)
           it == Table[p.x][p.n]
<1>1. At("callr") /\ "callr" \in Op /\ "callr" \in Leading
  BY DEF Callr, Op, Leading
<1>2. Executing /\ Instruction.op = "callr"
  BY <1>1, InstructionType DEF At
<1>3. Noted(NextIp, Here.height, Here.saved)
  BY <1>1, PlainNotes
<1>4. Here.saved /\ Here.height >= 2
  <2>1. FitsAt(code, Notes[code], Running.ip.f, Running.ip.pc)
    BY <1>2, Current
  <2>2. QED
    BY <1>2, <2>1 DEF FitsAt, Instruction, Here, NoteOf
<1>5. /\ p.k = "fn" /\ IsItem(p)
      /\ \/ it.native /\ it.item # NIL /\ EnterNative(it)
         \/ ~it.native /\ it.owner \notin {NIL, Vm} /\ EnterExtern(it)
         \/ ~it.native /\ it.owner = Vm /\ Branch(it)
  <2>1. \A e \in {"BadFunc", "BadNative", "BadExtern"} : ~CallFails(e)
    BY DEF CallFails, Fail
  <2>2. QED
    BY <2>1 DEF Callr
<1>6. it \in Item /\ p.x \in Mod /\ p.n \in DOMAIN Table[p.x]
  BY <1>5, ItemType DEF IsItem
<1>7. ~it.native /\ it.owner # NIL => it.item \in Func /\ it.owner \in Mod /\ it.owner = OwnerOf(it.item)
  BY <1>6, Owned
<1>8. it.native /\ it.item # NIL => it.item \in Native
  BY <1>6 DEF Item
<1>9. ~it.native /\ it.owner = Vm => Running.tf = Vm
  BY <1>1, <1>5 DEF PointersAtHome, Callr
<1>10. Here.height \in Nat /\ Vm # NIL
  BY <1>2, Current, ConstAssumption DEF Here
<1> HIDE DEF it
<1>11. CASE it.native /\ it.item # NIL /\ EnterNative(it)
  BY <1>2, <1>3, <1>4, <1>8, <1>11, EnterNativeStep
<1>12. CASE ~it.native /\ it.owner \notin {NIL, Vm} /\ EnterExtern(it)
  <2>1. Here.height >= IF Here.saved THEN 2 ELSE 1
    BY <1>4
  <2>2. it.item \in Func /\ it.owner \in Mod /\ OwnerOf(it.item) = it.owner
    BY <1>7, <1>12
  <2>3. QED
    BY <1>2, <1>3, <1>12, <2>1, <2>2, EnterExternStep
<1>13. CASE ~it.native /\ it.owner = Vm /\ Branch(it)
  <2>1. it.item \in Func /\ OwnerOf(it.item) = Running.tf
    BY <1>7, <1>9, <1>10, <1>13
  <2>2. Here.height >= 1
    BY <1>4, <1>10
  <2>3. QED
    BY <1>2, <1>3, <1>4, <1>13, <2>1, <2>2, BranchStep
<1>14. QED
  BY <1>5, <1>11, <1>12, <1>13

\* The end of exec_call of a function of another module: the link register that was pushed
\* for the nested loop is still there.
LEMMA ExternReturnStep ==
  ASSUME StackInv, Orderly, ExternReturn
  PROVE  Orderly'
<1> DEFINE go == Moved(Running, Running.ip, Running.sp, "no")
           c  == Inner(Running).csp
           s  == NoteOf(code, Running.ip).saved
<1>1. /\ Depth > 0 /\ Running \in SafeFrame /\ Running.k = "exec" /\ Running.wait = "extern"
      /\ LoopOK(code, Running) /\ SavedOK(code, Running, mem)
      /\ ExecTop(code, Running, osp, csp, lr, tabs)
  BY TopLoop DEF ExternReturn
<1>2. /\ c \in Nat /\ Running.sp \in Int /\ Running.sp >= OpBase
      /\ Running.stk[1].csp \in Nat /\ Running.stk[1].csp <= c /\ Running.ip \in Loc
      /\ Running.tf \in Mod /\ Len(Running.stk) \in 1 .. Len(Running.stk)
      /\ \A j \in 1 .. Len(Running.stk) : Running.stk[j].csp \in Int
  <2>1. Running.stk[1] \in Opened /\ 0 <= Running.stk[1].csp /\ Running.stk[1].csp <= c
    BY <1>1, CodeType, LoopBounds
  <2>2. Len(Running.stk) \in 1 .. Len(Running.stk)
    BY <1>1, ExecType DEF LoopOK
  <2>3. \A j \in 1 .. Len(Running.stk) : Running.stk[j].csp \in Int
    BY <1>1, ExecType
  <2>4. QED
    BY <1>1, <2>1, <2>2, <2>3, InnerType DEF Opened
<1>3. InCode(code, Running.ip, Running.tf) /\ s \in BOOLEAN
  BY <1>1, CodeType, NoteType DEF LoopOK
<1>4. csp = c + One(s) + 1 /\ csp = Taken(code, Running) /\ osp = Running.sp
  <2>1. One(Running.wait = "extern") = 1
    BY <1>1 DEF One
  <2>2. csp = Taken(code, Running) /\ osp = Running.sp
    BY <1>1 DEF ExecTop
  <2>3. QED
    BY <2>1, <2>2 DEF Taken
<1>5. lr' = mem[csp - 1] /\ csp' = csp - 1 /\ tabs' = Running.tf /\ UNCHANGED <<code, mem>>
  BY DEF ExternReturn, PopLr
<1>6. cstack' = [cstack EXCEPT ![Depth] = go]
  <2>1. [Running EXCEPT !.wait = "no", !.sp = osp] = go
    BY <1>1, <1>4, ExecType DEF ExecFrame, Moved
  <2>2. QED
    BY <2>1 DEF ExternReturn, Running
<1>7. /\ go \in SafeFrame /\ go.k = "exec" /\ go.wait = "no" /\ go.tf = Running.tf
      /\ go.stk = Running.stk
      /\ Inner(go) = Inner(Running) /\ LoopOK(code, go)
      /\ Taken(code, go) = c + One(s) + One("no" = "extern")
  <2>1. Running.sp = Inner(Running).sp - NoteOf(code, Running.ip).height
    BY <1>1 DEF LoopOK
  <2>2. go = Moved(Running, Running.ip, Running.sp, "no") /\ code \in Programs /\ "no" \in Wait
    BY CodeType DEF Wait
  <2>3. "no" = "extern" => Inner(Running).csp + One(NoteOf(code, Running.ip).saved) + 1 <= Top - Running.sp
    OBVIOUS
  <2> HIDE DEF go
  <2>4. QED
    BY <1>1, <1>2, <1>3, <2>1, <2>2, <2>3, LoopMoves
<1> HIDE DEF go, s
<1>8. Taken(code, go) = csp' /\ Taken(code, go) < csp /\ csp' = c + One(s) /\ csp \in Nat
  <2>1. One("no" = "extern") = 0 /\ One(s) \in Nat
    BY DEF One
  <2> HIDE DEF c
  <2>2. QED
    BY <1>2, <1>4, <1>5, <1>7, <2>1
<1>9. SavedOK(code, go, mem')
  <2> SUFFICES ASSUME NEW j \in 1 .. Len(Running.stk), Running.stk[j].csp < Taken(code, go)
               PROVE  mem[Running.stk[j].csp] = Running.stk[j].ret
    BY <1>5, <1>7 DEF SavedOK
  <2>1. Running.stk[j].csp < Taken(code, Running)
    BY <1>2, <1>4, <1>5, <1>8
  <2>2. QED
    BY <1>1, <2>1 DEF SavedOK
<1>10. LrOK(code, go, lr')
  <2> SUFFICES ASSUME c = csp'
               PROVE  lr' = Inner(Running).ret
    BY <1>7, <1>8 DEF LrOK
  <2>1. c < Taken(code, Running)
    BY <1>2, <1>4, <1>5, <1>8
  <2>2. mem[c] = Inner(Running).ret
    BY <1>1, <1>2, <2>1 DEF SavedOK, Inner
  <2>3. QED
    BY <1>5, <2>2
<1>11. Kept(mem, mem', csp) /\ csp >= Running.stk[1].csp
  <2>1. Kept(mem, mem', csp)
    BY <1>5 DEF Kept
  <2>2. QED
    BY <1>2, <1>5, <1>8, <2>1 DEF One
<1>12. QED
  BY <1>1, <1>5, <1>6, <1>7, <1>8, <1>9, <1>10, <1>11, TopGoesOn
----------------------------------------------------------------------------
(* Calls from C.                                                           *)

\* Where a call from C begins: in the host, or in a native that a loop called.
FromC(cs) ==
  \/ Len(cs) = 0 /\ osp = Top /\ csp = 0 /\ tabs = Vm
  \/ /\ Len(cs) > 1
     /\ cs[Len(cs)].k = "native" /\ cs[Len(cs)].fn \in Invokes
     /\ cs[Len(cs) - 1].k = "exec" /\ osp <= cs[Len(cs) - 1].sp
     /\ csp = Taken(code, cs[Len(cs) - 1]) /\ tabs = cs[Len(cs) - 1].tf

\* What begins at the stack pointers, or under them, is above every loop.
LEMMA FromCAbove ==
  ASSUME StackInv, NEW cs \in Seq(SafeFrame), Stacked(code, cs, mem), FromC(cs),
         NEW fr,
         fr.k = "exec" => fr.stk[1].csp = csp /\ fr.stk[1].sp \in Int /\ fr.stk[1].sp <= osp,
         fr.k = "start" => fr.csp0 = csp /\ fr.osp0 = osp
  PROVE  \A d \in 1 .. Len(cs) : cs[d].k = "exec" => Above(code, cs[d], fr)
<1>1. osp \in Int /\ csp \in Int /\ Len(cs) \in Nat
  BY LenProperties DEF StackInv, TypeOK
<1>2. CASE Len(cs) = 0
  BY <1>2
<1>3. CASE Len(cs) # 0
  <2> DEFINE n == Len(cs)  base == SubSeq(cs, 1, n - 1)  below == cs[n - 1]
  <2>1. /\ n > 1 /\ cs[n].k = "native" /\ below.k = "exec" /\ osp <= below.sp
        /\ csp = Taken(code, below)
    BY <1>3 DEF FromC
  <2>2. /\ base \in Seq(SafeFrame) /\ Len(base) = n - 1
        /\ \A d \in 1 .. n - 1 : base[d] = cs[d]
    BY <2>1, Beneath
  <2>3. Stacked(code, base, mem)
    BY <2>1, PopStacked
  <2> HIDE DEF base, below
  <2>4. n - 1 \in 1 .. n - 1 /\ n \in Nat
    BY <1>1, <2>1
  <2>5. base[Len(base)] = below /\ Len(base) > 0
    BY <2>1, <2>2, <2>4 DEF below
  <2>6. below.sp \in Int
    <3>1. n - 1 \in 1 .. Len(cs)
      BY <2>4
    <3>2. below \in SafeFrame
      BY <3>1, ElementOfSeq DEF below
    <3>3. QED
      BY <2>1, <3>2, ExecType
  <2>7. Above(code, below, fr)
    <3>1. fr.k = "exec" => Taken(code, below) <= fr.stk[1].csp /\ fr.stk[1].sp <= below.sp
      <4> HAVE fr.k = "exec"
      <4> DEFINE b == fr.stk[1].sp  y == below.sp
      <4>1. b \in Int /\ b <= osp /\ osp <= y /\ y \in Int /\ fr.stk[1].csp = csp
        BY <2>1, <2>6
      <4> HIDE DEF b, y
      <4>2. b <= y /\ Taken(code, below) <= fr.stk[1].csp
        BY <1>1, <2>1, <4>1
      <4>3. QED
        BY <4>2 DEF b, y
    <3>2. fr.k = "start" => Taken(code, below) <= fr.csp0 /\ fr.osp0 <= below.sp
      BY <1>1, <2>1, <2>6
    <3>3. QED
      BY <3>1, <3>2 DEF Above
  <2>8. /\ fr.k = "exec" => fr.stk[1].csp \in Int /\ fr.stk[1].sp \in Int
        /\ fr.k = "start" => fr.csp0 \in Int /\ fr.osp0 \in Int
    BY <1>1
  <2>9. \A d \in 1 .. Len(base) : base[d].k = "exec" => Above(code, base[d], fr)
    BY <2>1, <2>2, <2>3, <2>5, <2>7, <2>8, CodeType, AboveAll
  <2>10. \A d \in 1 .. n : cs[d].k = "exec" => d \in 1 .. n - 1
    BY <2>1, <2>4
  <2>11. QED
    BY <2>2, <2>9, <2>10
<1>4. QED
  BY <1>2, <1>3

LEMMA TwoMore ==
  ASSUME NEW cs \in Seq(SafeFrame), NEW a \in SafeFrame, NEW b \in SafeFrame
  PROVE  cs \o <<a, b>> = Append(Append(cs, a), b)
<1>1. /\ Append(cs, a) = cs \o <<a>> /\ Append(cs, a) \in Seq(SafeFrame)
      /\ Append(Append(cs, a), b) = Append(cs, a) \o <<b>>
  BY AppendProperties, AppendIsConcat
<1>2. /\ <<a>> \in Seq(SafeFrame) /\ <<b>> \in Seq(SafeFrame) /\ <<a, b>> \in Seq(SafeFrame)
      /\ <<a>> \o <<b>> = <<a, b>>
  <2>1. <<a>> \in Seq(SafeFrame) /\ <<b>> \in Seq(SafeFrame) /\ <<a, b>> \in Seq(SafeFrame)
    OBVIOUS
  <2> DEFINE s == <<a>> \o <<b>>  t == <<a, b>>
  <2>2. s \in Seq(SafeFrame) /\ Len(s) = 2 /\ s[1] = a /\ s[2] = b
    BY <2>1, ConcatProperties
  <2>3. t \in Seq(SafeFrame) /\ Len(t) = 2 /\ t[1] = a /\ t[2] = b
    BY <2>1
  <2> HIDE DEF s, t
  <2>4. \A j \in 1 .. Len(s) : s[j] = t[j]
    <3>1. 1 .. 2 = {1, 2}
      OBVIOUS
    <3>2. QED
      BY <2>2, <2>3, <3>1
  <2>5. s = t
    BY <2>2, <2>3, <2>4, SeqEqual
  <2>6. QED
    BY <2>1, <2>5 DEF s, t
<1>3. (cs \o <<a>>) \o <<b>> = cs \o (<<a>> \o <<b>>)
  BY <1>2, ConcatAssociative
<1>4. QED
  BY <1>1, <1>2, <1>3

\* The start frame of a call from C.
LEMMA Started ==
  ASSUME StackInv, NEW cs \in Seq(SafeFrame), Stacked(code, cs, mem), FromC(cs),
         NEW sf \in SafeFrame, sf.k = "start", sf.osp0 = osp, sf.csp0 = csp
  PROVE  /\ Append(cs, sf) \in Seq(SafeFrame) /\ Len(Append(cs, sf)) = Len(cs) + 1
         /\ Append(cs, sf)[Len(cs) + 1] = sf
         /\ Stacked(code, Append(cs, sf), mem)
         /\ \A fr \in SafeFrame : Home(Append(Append(cs, sf), fr), Len(cs) + 1) = tabs
<1> DEFINE cs2 == Append(cs, sf)
<1>1. /\ Len(cs) \in Nat /\ cs2 \in Seq(SafeFrame) /\ Len(cs2) = Len(cs) + 1 /\ cs2[Len(cs) + 1] = sf
      /\ \A d \in 1 .. Len(cs) : cs2[d] = cs[d]
  BY LenProperties, AppendProperties
<1>2. \A d \in 1 .. Len(cs) : cs[d].k = "exec" => Above(code, cs[d], sf)
  BY FromCAbove
<1> HIDE DEF cs2
<1>3. StartLink(code, cs2, Len(cs) + 1)
  <2>1. CASE Len(cs) = 0
    BY <1>1, <2>1 DEF FromC, StartLink
  <2>2. CASE Len(cs) # 0
    <3> DEFINE n == Len(cs)
    <3>1. n \in Nat /\ n > 1 /\ cs2[n] = cs[n] /\ cs2[n - 1] = cs[n - 1]
      BY <1>1, <2>2 DEF FromC
    <3>2. n + 1 > 2 /\ n + 1 - 1 = n /\ n + 1 - 2 = n - 1
      BY <3>1
    <3>3. QED
      BY <1>1, <2>2, <3>1, <3>2 DEF FromC, StartLink
  <2>3. QED
    BY <2>1, <2>2
<1>4. LinkOK(code, cs2, Len(cs) + 1)
  BY <1>1, <1>3 DEF LinkOK
<1>5. Stacked(code, cs2, mem)
  BY <1>2, <1>4, PushStacked DEF cs2
<1>6. \A fr \in SafeFrame : Home(Append(cs2, fr), Len(cs) + 1) = tabs
  <2> TAKE fr \in SafeFrame
  <2> DEFINE cs3 == Append(cs2, fr)
  <2>1. \A d \in 1 .. Len(cs) : cs3[d] = cs[d]
    BY <1>1, AppendProperties
  <2> HIDE DEF cs3
  <2>2. CASE Len(cs) = 0
    BY <2>2 DEF FromC, Home
  <2>3. CASE Len(cs) # 0
    <3> DEFINE n == Len(cs)
    <3>1. n \in Nat /\ n > 1 /\ cs3[n - 1] = cs[n - 1] /\ tabs = cs[n - 1].tf
      BY <1>1, <2>1, <2>3 DEF FromC
    <3> HIDE DEF n
    <3> DEFINE k == n + 1
    <3>2. ~(k <= 2) /\ k - 2 = n - 1
      BY <3>1 DEF k
    <3> HIDE DEF k
    <3>3. Home(cs3, k) = cs3[k - 2].tf
      BY <3>2 DEF Home
    <3>4. Home(cs3, k) = tabs
      BY <3>1, <3>2, <3>3
    <3>5. QED
      BY <3>4 DEF n, k, cs3
  <2>4. QED
    BY <2>2, <2>3 DEF cs3
<1>7. QED
  BY <1>1, <1>5, <1>6 DEF cs2

\* _tagha_module_start on a native.
LEMMA StartNative ==
  ASSUME StackInv, NEW cs \in Seq(SafeFrame), Stacked(code, cs, mem), FromC(cs),
         NEW sf \in SafeFrame, sf = [k |-> "start", cells |-> 0, osp0 |-> osp, csp0 |-> csp],
         NEW fr \in SafeFrame, fr.k = "native", fr.left = 0,
         cstack' = cs \o <<sf, fr>>, UNCHANGED <<code, mem, osp, csp, tabs>>
  PROVE  Orderly'
<1> DEFINE cs1 == Append(cs, sf)  cs2 == Append(cs1, fr)  n == Len(cs) + 1
<1>1. sf.k = "start" /\ sf.cells = 0 /\ sf.osp0 = osp /\ sf.csp0 = csp
  OBVIOUS
<1>2. /\ cs1 \in Seq(SafeFrame) /\ Len(cs1) = n /\ cs1[n] = sf
      /\ Stacked(code, cs1, mem) /\ Home(cs2, n) = tabs
  BY <1>1, Started
<1> HIDE DEF cs1
<1>3. Len(cs) \in Nat /\ Len(cs2) = n + 1 /\ cs2[n + 1] = fr /\ cs2[n] = sf
  <2>1. Len(cs) \in Nat
    BY LenProperties
  <2>2. n \in 1 .. Len(cs1)
    BY <1>2, <2>1
  <2>3. QED
    BY <1>2, <2>1, <2>2, AppendProperties
<1> HIDE DEF cs2
<1>4. n \in Nat /\ n >= 1 /\ n + 1 > 1 /\ n + 1 - 1 = n
  BY <1>3
<1> HIDE DEF n
<1>5. NativeLink(code, cs2, n + 1)
  BY <1>1, <1>3, <1>4 DEF NativeLink
<1>6. LinkOK(code, cs2, n + 1)
  BY <1>3, <1>4, <1>5 DEF LinkOK
<1>7. \A d \in 1 .. Len(cs1) : cs1[d].k = "exec" => Above(code, cs1[d], fr)
  BY DEF Above
<1>8. Stacked(code, cs2, mem)
  BY <1>2, <1>6, <1>7, PushStacked DEF cs2
<1>9. NativeTop(code, cs2, n, osp, csp, lr', tabs)
  BY <1>1, <1>2, <1>3 DEF NativeTop
<1>10. TopOK(code, cs2, osp, csp, lr', tabs)
  BY <1>3, <1>4, <1>9 DEF TopOK
<1>11. cstack' = cs2
  BY TwoMore DEF cs2, cs1
<1>12. QED
  BY <1>8, <1>10, <1>11 DEF Orderly

\* _tagha_module_start on a function of bytecode with n arguments.
LEMMA StartLoop ==
  ASSUME StackInv, NEW cs \in Seq(SafeFrame), Stacked(code, cs, mem), FromC(cs), NEW n \in Nat,
         NEW f \in Func, OwnerOf(f) = tabs,
         NEW sf \in SafeFrame, sf = [k |-> "start", cells |-> n + 1, osp0 |-> osp, csp0 |-> csp],
         osp' = osp - (n + 1), osp' >= OpBase,
         NEW fr, fr = Begun(f, tabs, osp', csp),
         Kept(mem, mem', CallCells), lr' = NilV,
         cstack' = cs \o <<sf, fr>>, UNCHANGED <<code, csp, tabs>>
  PROVE  Orderly'
<1> DEFINE cs1 == Append(cs, sf)  cs2 == Append(cs1, fr)  s == Len(cs) + 1
<1>1. sf.k = "start" /\ sf.cells = n + 1 /\ sf.osp0 = osp /\ sf.csp0 = csp
  OBVIOUS
<1>2. osp \in Int /\ csp \in Nat /\ Len(cs) \in Nat /\ tabs \in Mod /\ osp' \in Int
  BY LenProperties DEF StackInv, TypeOK
<1>3. csp <= Top - osp
  <2>1. CASE Len(cs) = 0
    BY <1>2, <2>1, SizesOK DEF FromC
  <2>2. CASE Len(cs) # 0
    <3> DEFINE below == cs[Len(cs) - 1]
    <3>1. Len(cs) > 1 /\ below.k = "exec" /\ osp <= below.sp /\ csp = Taken(code, below)
      BY <2>2 DEF FromC
    <3>2. Len(cs) - 1 \in 1 .. Len(cs)
      BY <1>2, <3>1
    <3>3. below \in SafeFrame /\ LoopOK(code, below)
      BY <3>1, <3>2, ElementOfSeq DEF Stacked, FramesOK
    <3>4. below.sp \in Int /\ Taken(code, below) <= Top - below.sp
      BY <3>1, <3>3, ExecType DEF LoopOK
    <3> HIDE DEF below
    <3>5. QED
      BY <1>2, <3>1, <3>4, SizesOK
  <2>3. QED
    BY <2>1, <2>2
<1>4. /\ fr \in SafeFrame /\ fr.k = "exec" /\ fr.wait = "no" /\ fr.tf = tabs /\ fr.sp = osp'
      /\ fr.stk[1] = Open(NilV, osp', csp) /\ fr.stk[1].sp = osp' /\ fr.stk[1].csp = csp
      /\ Taken(code, fr) = csp /\ LrOK(code, fr, NilV)
      /\ LoopOK(code, fr) /\ \A mm : SavedOK(code, fr, mm)
  <2>1. csp + 1 <= Top - osp'
    BY <1>2, <1>3, SizesOK
  <2>2. fr = Begun(f, tabs, osp', csp) /\ code \in Programs
    BY CodeType
  <2>3. QED
    BY <1>2, <2>1, <2>2, LoopBegins
<1>5. /\ cs1 \in Seq(SafeFrame) /\ Len(cs1) = s /\ cs1[s] = sf
      /\ Stacked(code, cs1, mem) /\ Home(cs2, s) = tabs
  BY <1>1, <1>4, Started
<1>6. \A d \in 1 .. Len(cs) : cs1[d] = cs[d]
  BY <1>2, AppendProperties
<1>7. \A d \in 1 .. Len(cs) : cs[d].k = "exec" => Above(code, cs[d], fr)
  <2>1. fr.stk[1].csp = csp /\ fr.stk[1].sp \in Int /\ fr.stk[1].sp <= osp /\ fr.k # "start"
    BY <1>2, <1>4
  <2>2. QED
    BY <2>1, FromCAbove
<1> HIDE DEF cs1
<1>8. Len(cs2) = s + 1 /\ cs2[s + 1] = fr /\ cs2[s] = sf
  <2>1. s \in 1 .. Len(cs1)
    BY <1>2, <1>5
  <2>2. QED
    BY <1>4, <1>5, <2>1, AppendProperties
<1> HIDE DEF cs2
<1>9. s \in Nat /\ s >= 1 /\ s + 1 > 1 /\ s + 1 - 1 = s /\ \A d \in 1 .. s : d \in 1 .. Len(cs) \/ d = s
  BY <1>2
<1>10. Stacked(code, cs1, mem')
  <2>1. \A d \in 1 .. Len(cs1) : cs1[d].k = "exec" => Taken(code, cs1[d]) <= CallCells
    <3> TAKE d \in 1 .. Len(cs1)
    <3> HAVE cs1[d].k = "exec"
    <3>1. cs1[d] \in SafeFrame /\ LoopOK(code, cs1[d])
      BY <1>5, ElementOfSeq DEF Stacked, FramesOK
    <3>2. QED
      BY <3>1, CodeType, LoopBounds
  <2>2. QED
    BY <1>5, <2>1, CodeType, ConstAssumption, MemStacked
<1> HIDE DEF s
<1>11. ExecLink(code, cs2, s + 1)
  <2>1. osp' = sf.osp0 - sf.cells
    BY <1>1
  <2>2. QED
    BY <1>1, <1>4, <1>5, <1>8, <1>9, <2>1 DEF ExecLink
<1>12. LinkOK(code, cs2, s + 1)
  BY <1>4, <1>8, <1>9, <1>11 DEF LinkOK
<1>13. \A d \in 1 .. Len(cs1) : cs1[d].k = "exec" => Above(code, cs1[d], fr)
  BY <1>1, <1>5, <1>6, <1>7, <1>9
<1>14. Stacked(code, cs2, mem')
  BY <1>4, <1>5, <1>10, <1>12, <1>13, PushStacked DEF cs2
<1>15. TopOK(code, cs2, osp', csp, lr', tabs)
  BY <1>4, <1>8, <1>9 DEF TopOK, ExecTop
<1>16. cstack' = cs2
  BY <1>4, TwoMore DEF cs2, cs1
<1>17. QED
  BY <1>14, <1>15, <1>16 DEF Orderly

LEMMA StartItemStep ==
  ASSUME StackInv, NEW cs \in Seq(SafeFrame), Stacked(code, cs, mem), FromC(cs), NEW n \in Nat,
         NEW it \in Item, ~it.native /\ it.item # NIL => OwnerOf(it.item) = tabs,
         StartItem(cs, it, n), err' = "None", UNCHANGED <<code, csp, tabs>>
  PROVE  Orderly'
<1>1. it.item # NIL /\ Start(cs, it, n)
  BY DEF StartItem
<1>2. CASE it.native
  <2> DEFINE sf == [k |-> "start", cells |-> 0, osp0 |-> osp, csp0 |-> csp]
             fr == [k |-> "native", fn |-> it.item, arg |-> Data, left |-> 0]
  <2>1. cstack' = cs \o <<sf, fr>> /\ UNCHANGED <<mem, osp>>
    BY <1>1, <1>2 DEF Start
  <2>2. sf \in SafeFrame
    BY StartFrameSafe
  <2>3. fr \in SafeFrame /\ fr.k = "native" /\ fr.left = 0
    BY <1>1, <1>2, Values DEF Item, SafeFrame, Frame, NativeFrame
  <2>4. sf = [k |-> "start", cells |-> 0, osp0 |-> osp, csp0 |-> csp]
    OBVIOUS
  <2> HIDE DEF sf, fr
  <2>5. QED
    BY <2>1, <2>2, <2>3, <2>4, StartNative
<1>3. CASE ~it.native
  <2> DEFINE sf == [k |-> "start", cells |-> n + 1, osp0 |-> osp, csp0 |-> csp]
             fr == Begun(it.item, tabs, osp', csp)
  <2>1. /\ osp - (n + 1) >= OpBase /\ osp' = osp - (n + 1) /\ lr' = NilV
        /\ mem' = [c \in Cell |-> IF c \in osp' + 1 .. osp' + n THEN Data ELSE mem[c]]
        /\ cstack' = cs \o <<sf, fr>>
    BY <1>1, <1>3 DEF Start, Begun
  <2>2. osp \in Int /\ osp' \in Int /\ CallCells \in Nat /\ OpCells \in Nat
    BY <2>1, ConstAssumption DEF StackInv, TypeOK
  <2>3. Kept(mem, mem', CallCells)
    <3>1. \A i \in 0 .. CallCells - 1 : i \in Cell /\ i \notin osp' + 1 .. osp' + n
      BY <2>1, <2>2 DEF Cell, Top, OpBase, NodeCells
    <3>2. QED
      BY <2>1, <3>1 DEF Kept
  <2>4. sf \in SafeFrame
    BY StartFrameSafe
  <2>5. it.item \in Func /\ OwnerOf(it.item) = tabs
    BY <1>1, <1>3 DEF Item
  <2>6. /\ sf = [k |-> "start", cells |-> n + 1, osp0 |-> osp, csp0 |-> csp]
        /\ fr = Begun(it.item, tabs, osp', csp)
    OBVIOUS
  <2> HIDE DEF sf, fr
  <2>7. QED
    BY <2>1, <2>3, <2>4, <2>5, <2>6, StartLoop
<1>4. QED
  BY <1>2, <1>3

LEMMA HostCallStep ==
  ASSUME StackInv, Orderly, HostCall, err' = "None"
  PROVE  Orderly'
<1>1. PICK e \in Exports : StartItem(cstack, Table[Vm][e[1]], e[2])
  BY DEF HostCall
<1> DEFINE it == Table[Vm][e[1]]
<1>2. it \in Item /\ e[2] \in Nat
  BY ConstAssumption, ItemType
<1>3. FromC(cstack) /\ Stacked(code, cstack, mem) /\ tabs = Vm
  BY DEF HostCall, Orderly, TopOK, FromC, Depth
<1>4. ~it.native /\ it.item # NIL => OwnerOf(it.item) = tabs
  BY <1>3, ConventionAssumption
<1> HIDE DEF it
<1>5. StartItem(cstack, it, e[2])
  BY <1>1 DEF it
<1>6. QED
  BY <1>2, <1>3, <1>4, <1>5, CodeType, StartItemStep DEF HostCall

LEMMA NativeInvokeStep ==
  ASSUME StackInv, Orderly, PointersAtHome, CallersSeen, NativeInvoke, err' = "None"
  PROVE  Orderly'
<1> DEFINE used == [Running EXCEPT !.left = @ - 1]
           cs   == [cstack EXCEPT ![Depth] = used]
           it   == Table[Running.arg.x][Running.arg.n]
<1>1. PICK n \in 0 .. MaxArgs : StartItem(cs, it, n)
  BY DEF NativeInvoke
<1>2. /\ InNative /\ Depth > 0 /\ Running.k = "native" /\ Running.fn \in Invokes /\ Running.left > 0
      /\ Running.arg.k = "fn" /\ IsItem(Running.arg)
  BY DEF NativeInvoke, InNative
<1>3. /\ Running \in NativeFrame /\ Depth = Len(cstack) /\ Depth \in 1 .. Len(cstack)
      /\ Running = cstack[Len(cstack)] /\ Depth \in Nat
  BY <1>2, NativeRunning, RunningFrame DEF Depth, Running
<1>4. used \in SafeFrame /\ used.k = "native" /\ used.fn = Running.fn
  BY <1>2, <1>3 DEF NativeFrame, SafeFrame, Frame
<1>5. it \in Item
  BY <1>2, ItemType DEF IsItem
<1>6. ~it.native /\ it.item # NIL => OwnerOf(it.item) = tabs
  BY <1>2 DEF PointersAtHome
<1> HIDE DEF it, used
<1>7. Stacked(code, cs, mem)
  <2>1. Stacked(code, cstack, mem) /\ Running.left # 0 /\ 0 \in Nat /\ Kept(mem, mem, 0)
    BY <1>2 DEF Orderly, Kept
  <2>2. QED
    BY <1>2, <1>3, <1>4, <2>1, CodeType, SwapStacked
<1>8. /\ cs \in Seq(SafeFrame) /\ Len(cs) = Depth /\ cs[Depth] = used
      /\ \A d \in 1 .. Depth : d # Depth => cs[d] = cstack[d]
  BY <1>3, <1>4, CodeType, ExceptSeq
<1> HIDE DEF cs
<1>9. /\ Depth > 1 /\ cstack[Depth - 1].k = "exec"
      /\ NativeTop(code, cstack, Depth - 1, osp, csp, lr, tabs)
  <2>1. LinkOK(code, cstack, Depth)
    BY <1>2, Uncovered
  <2>2. Depth > 1 /\ cstack[Depth - 1].k = "exec"
    BY <1>2, <2>1 DEF LinkOK, NativeLink, Running
  <2>3. NativeTop(code, cstack, Depth - 1, osp, csp, lr, tabs)
    BY <1>2 DEF Orderly, TopOK, Depth, Running
  <2>4. QED
    BY <2>2, <2>3
<1>10. osp <= cstack[Depth - 1].sp
  BY <1>2, <1>9 DEF CallersSeen
<1>11. cs[Depth - 1] = cstack[Depth - 1]
  BY <1>3, <1>8, <1>9
<1>12. FromC(cs)
  BY <1>2, <1>4, <1>8, <1>9, <1>10, <1>11 DEF FromC, NativeTop
<1>13. UNCHANGED <<code, csp, tabs>> /\ n \in Nat
  BY ConstAssumption DEF NativeInvoke
<1>14. QED
  BY <1>1, <1>5, <1>6, <1>7, <1>8, <1>12, <1>13, StartItemStep

\* The end of _tagha_module_start.
LEMMA StartReturnStep ==
  ASSUME StackInv, Orderly, StartReturn
  PROVE  Orderly'
<1>1. /\ Depth > 0 /\ Running.k = "start" /\ cstack' = Under /\ osp' = osp + Running.cells
      /\ UNCHANGED <<code, mem, csp, lr, tabs>>
  BY DEF StartReturn
<1>2. /\ LinkOK(code, cstack, Depth)
      /\ Stacked(code, Under, mem)
      /\ Len(Under) = Depth - 1 /\ Depth \in Nat /\ Depth \in 1 .. Len(cstack)
      /\ \A d \in 1 .. Depth - 1 : Under[d] = cstack[d]
  BY <1>1, Uncovered
<1>3. osp' = Running.osp0 /\ csp = Running.csp0 /\ tabs = Home(cstack, Depth)
  BY <1>1 DEF Orderly, TopOK, Depth, Running
<1>4. StartLink(code, cstack, Depth)
  BY <1>1, <1>2 DEF LinkOK, Running
<1>5. TopOK(code, Under, osp', csp, lr, tabs)
  <2>1. CASE Depth = 1 /\ Running.osp0 = Top /\ Running.csp0 = 0
    BY <1>2, <1>3, <2>1 DEF TopOK, Home
  <2>2. CASE /\ Depth > 2
             /\ cstack[Depth - 1].k = "native" /\ cstack[Depth - 1].fn \in Invokes
             /\ cstack[Depth - 2].k = "exec"
             /\ Running.csp0 = Taken(code, cstack[Depth - 2])
    <3> DEFINE n == Depth - 1  below == cstack[n - 1]
    <3>1. n \in Nat /\ n > 1 /\ n - 1 = Depth - 2 /\ n \in 1 .. Len(cstack) /\ n - 1 \in 1 .. Len(cstack)
      BY <1>2, <2>2
    <3> HIDE DEF n
    <3>2. Len(Under) = n /\ Under[n] = cstack[n] /\ Under[n - 1] = cstack[n - 1]
      BY <1>2, <3>1 DEF n
    <3>3. /\ cstack[n].k = "native" /\ cstack[n].fn \in Invokes
          /\ below.k = "exec" /\ Running.csp0 = Taken(code, below)
      BY <2>2, <3>1 DEF n
    <3>4. tabs = below.tf
      BY <1>2, <1>3, <2>2, <3>1 DEF Home
    <3>5. below.wait = "native" /\ NoteOf(code, below.ip).saved
      <4>1. LinkOK(code, cstack, n)
        BY <3>1 DEF Orderly, Stacked, LinksOK
      <4>2. QED
        BY <3>3, <4>1 DEF LinkOK, NativeLink
    <3>6. LrOK(code, below, lr)
      <4>1. below \in SafeFrame /\ LoopOK(code, below)
        BY <3>1, <3>3, CodeType, ElementOfSeq DEF Orderly, Stacked, FramesOK
      <4>2. Inner(below).csp \in Int
        BY <3>3, <4>1, CodeType, LoopBounds DEF Opened
      <4> HIDE DEF below
      <4>3. Taken(code, below) = Inner(below).csp + 1
        BY <3>5, <4>2 DEF Taken, One
      <4>4. QED
        BY <4>2, <4>3 DEF LrOK
    <3>7. NativeTop(code, Under, n - 1, osp', csp, lr, tabs)
      BY <1>3, <3>2, <3>3, <3>4, <3>6 DEF NativeTop
    <3>8. QED
      BY <3>1, <3>2, <3>3, <3>7 DEF TopOK
  <2>3. QED
    BY <1>4, <2>1, <2>2 DEF StartLink, Running
<1>6. QED
  BY <1>1, <1>2, <1>5 DEF Orderly

\* A native returns.
LEMMA NativeReturnStep ==
  ASSUME StackInv, Orderly, NativeReturn, err = "None"
  PROVE  Orderly'
<1> DEFINE caller == cstack[Depth - 1]  n == Depth - 1
<1>1. /\ Depth > 1 /\ Depth > 0 /\ Running.k = "native"
      /\ \/ caller.k = "start" /\ cstack' = Under /\ UNCHANGED <<mem, osp>>
         \/ /\ caller.k = "exec" /\ caller.sp \in Cell
            /\ mem' = [mem EXCEPT ![caller.sp] = Data]
            /\ cstack' = [Under EXCEPT ![Depth - 1] = [@ EXCEPT !.wait = "no"]]
            /\ UNCHANGED osp
      /\ UNCHANGED <<code, csp, lr, tabs>>
  BY DEF NativeReturn, InNative
<1>2. /\ LinkOK(code, cstack, Depth)
      /\ Stacked(code, Under, mem) /\ Under \in Seq(SafeFrame)
      /\ Len(Under) = n /\ Depth \in Nat /\ Depth \in 1 .. Len(cstack)
      /\ caller \in SafeFrame
      /\ \A d \in 1 .. n : Under[d] = cstack[d] /\ Home(Under, d) = Home(cstack, d)
  BY <1>1, Uncovered
<1>3. NativeTop(code, cstack, n, osp, csp, lr, tabs)
  BY <1>1 DEF Orderly, TopOK, Depth, Running
<1>4. NativeLink(code, cstack, Depth)
  BY <1>1, <1>2 DEF LinkOK, Running
<1>5. n \in Nat /\ n > 0 /\ n \in 1 .. n /\ n \in 1 .. Len(cstack) /\ Under[n] = caller /\ Home(Under, n) = Home(cstack, n)
  BY <1>1, <1>2
<1>6. CASE caller.k = "start" /\ cstack' = Under /\ UNCHANGED <<mem, osp>>
  <2>1. caller.cells = 0
    BY <1>4, <1>6 DEF NativeLink
  <2>2. osp = caller.osp0 /\ csp = caller.csp0 /\ tabs = Home(cstack, n) /\ osp \in Int
    BY <1>3, <1>6 DEF NativeTop, StackInv, TypeOK
  <2>3. TopOK(code, Under, osp, csp, lr, tabs)
    BY <1>2, <1>5, <1>6, <2>1, <2>2 DEF TopOK
  <2>4. QED
    BY <1>1, <1>2, <1>6, <2>3 DEF Orderly
<1>7. CASE /\ caller.k = "exec" /\ mem' = [mem EXCEPT ![caller.sp] = Data]
           /\ cstack' = [Under EXCEPT ![Depth - 1] = [@ EXCEPT !.wait = "no"]]
           /\ UNCHANGED osp
  <2> DEFINE go == Moved(caller, caller.ip, caller.sp, "no")
  <2>1. /\ caller.wait = "native" /\ LoopOK(code, caller) /\ SavedOK(code, caller, mem)
        /\ caller.ip \in Loc /\ caller.sp \in Int /\ caller.sp >= OpBase
    <3>1. LoopOK(code, caller) /\ SavedOK(code, caller, mem)
      BY <1>5, <1>7 DEF Orderly, Stacked, FramesOK
    <3>2. QED
      BY <1>2, <1>4, <1>7, <3>1, ExecType DEF NativeLink
  <2>2. cstack' = [Under EXCEPT ![n] = go]
    <3>1. [caller EXCEPT !.wait = "no"] = go
      BY <1>2, <1>7, ExecType DEF ExecFrame, Moved
    <3>2. QED
      BY <1>5, <1>7, <3>1
  <2>3. /\ go \in SafeFrame /\ go.k = "exec" /\ go.wait = "no" /\ go.tf = caller.tf
        /\ go.stk = caller.stk
        /\ Inner(go) = Inner(caller) /\ LoopOK(code, go)
        /\ Taken(code, go) = Inner(caller).csp + One(NoteOf(code, caller.ip).saved) + One("no" = "extern")
    <3>1. InCode(code, caller.ip, caller.tf) /\ caller.sp = Inner(caller).sp - NoteOf(code, caller.ip).height
      BY <2>1 DEF LoopOK
    <3>2. go = Moved(caller, caller.ip, caller.sp, "no") /\ code \in Programs /\ "no" \in Wait
      BY CodeType DEF Wait
    <3>3. "no" = "extern" => Inner(caller).csp + One(NoteOf(code, caller.ip).saved) + 1 <= Top - caller.sp
      OBVIOUS
    <3> HIDE DEF go, caller
    <3>4. QED
      BY <1>2, <1>7, <2>1, <3>1, <3>2, <3>3, LoopMoves
  <2> HIDE DEF go
  <2>4. /\ Taken(code, go) = Taken(code, caller)
        /\ caller.stk[1].csp \in Nat /\ caller.stk[1].csp <= CallCells
        /\ \A j \in 1 .. Len(caller.stk) : caller.stk[j].csp \in 0 .. CallCells - 1
    <3>1. Taken(code, caller) = Inner(caller).csp + One(NoteOf(code, caller.ip).saved) + One("native" = "extern")
      BY <2>1 DEF Taken
    <3>2. One("no" = "extern") = 0 /\ One("native" = "extern") = 0
      BY DEF One
    <3>3. /\ caller.stk[1] \in Opened /\ Inner(caller) \in Opened
          /\ 0 <= caller.stk[1].csp /\ caller.stk[1].csp <= Inner(caller).csp /\ Inner(caller).csp < CallCells
          /\ \A j \in 1 .. Len(caller.stk) : caller.stk[j].csp \in 0 .. Inner(caller).csp
      BY <1>2, <1>7, <2>1, CodeType, LoopBounds
    <3>4. Inner(caller).csp \in Int /\ caller.stk[1].csp \in Int /\ CallCells \in Nat
      BY <3>3, ConstAssumption DEF Opened
    <3> HIDE DEF caller
    <3>5. QED
      BY <2>3, <3>1, <3>2, <3>3, <3>4
  <2>5. Kept(mem, mem', CallCells)
    BY <1>7, <2>1, WriteKept
  <2>6. SavedOK(code, go, mem')
    <3> HIDE DEF caller
    <3>1. QED
      BY <2>1, <2>3, <2>4, <2>5 DEF SavedOK, Kept
  <2>7. Stacked(code, cstack', mem')
    <3>1. Under[Len(Under)] = caller /\ Len(Under) > 0 /\ CallCells \in Nat
      BY <1>2, <1>5, ConstAssumption
    <3>2. cstack' = [Under EXCEPT ![Len(Under)] = go]
      BY <1>2, <2>2
    <3>3. /\ go.k = Under[Len(Under)].k
          /\ go.k = "exec" /\ go.tf = Under[Len(Under)].tf /\ go.stk[1] = Under[Len(Under)].stk[1]
          /\ LoopOK(code, go) /\ SavedOK(code, go, mem')
          /\ CallCells >= go.stk[1].csp
      BY <1>7, <2>3, <2>4, <2>6, <3>1
    <3> HIDE DEF caller, n
    <3>4. Stacked(code, [Under EXCEPT ![Len(Under)] = go], mem')
      BY <1>2, <2>3, <2>5, <3>1, <3>3, CodeType, SwapStacked
    <3>5. QED
      BY <3>2, <3>4
  <2>8. Len(cstack') = n /\ cstack'[n] = go
    <3> HIDE DEF n
    <3>1. QED
      BY <1>2, <1>5, <2>2, <2>3, ExceptSeq
  <2>9. csp = Taken(code, go) /\ tabs = go.tf /\ LrOK(code, go, lr)
    <3>1. csp = Taken(code, caller) /\ tabs = caller.tf /\ LrOK(code, caller, lr)
      BY <1>3, <1>7 DEF NativeTop
    <3> HIDE DEF caller
    <3>2. QED
      BY <2>3, <2>4, <3>1 DEF LrOK
  <2>10. TopOK(code, cstack', osp', csp, lr, tabs)
    BY <1>5, <2>3, <2>8, <2>9 DEF TopOK, ExecTop
  <2>11. QED
    BY <1>1, <2>7, <2>10 DEF Orderly
<1>8. QED
  BY <1>1, <1>6, <1>7
----------------------------------------------------------------------------
(* The invariant.                                                          *)

\* Only the machine's error sets vm->err, and nothing clears it.
LEMMA ErrorStays ==
  ASSUME [Next]_vars, err' = "None"
  PROVE  err = "None"
<1>1. CASE FrameOp
  BY <1>1 DEF FrameOp, Alloc, Enter, Redux, SaveLr, LoadLr, Ret, Remit, Restore, Leave, HaltOp, Fail
<1>2. CASE DataOp
  BY <1>2 DEF DataOp, Move, Compute, Convert, Load, Store, Compare, Jump, Fail
<1>3. CASE CallOp
  <2>1. CASE Call
    BY <2>1 DEF Call, CallFails, Fail, FlagsAsError, EnterNative, EnterExtern, Branch
  <2>2. CASE Callr
    BY <2>2 DEF Callr, CallFails, Fail, EnterNative, EnterExtern, Branch
  <2>3. CASE ExternReturn
    BY <2>3 DEF ExternReturn
  <2>4. QED
    BY <1>3, <2>1, <2>2, <2>3 DEF CallOp
<1>4. CASE HostCall \/ NativeInvoke
  BY <1>4 DEF HostCall, NativeInvoke, StartItem, Start
<1>5. CASE NativeThrow \/ NativeReturn \/ StartReturn \/ HostCallUnknown \/ Finished
  BY <1>5 DEF NativeThrow, NativeReturn, StartReturn, HostCallUnknown, Finished, vars
<1>6. CASE UNCHANGED vars
  BY <1>6 DEF vars
<1>7. QED
  BY <1>1, <1>2, <1>3, <1>4, <1>5, <1>6 DEF Next, Machine, NativeOp

LEMMA OrderlySame ==
  ASSUME Orderly, UNCHANGED <<code, cstack, mem, osp, csp, lr, tabs>>
  PROVE  Orderly'
  BY DEF Orderly

LEMMA OrderlyStep ==
  ASSUME StackInv, Orderly, Promised, [Next]_vars, err = "None", err' = "None"
  PROVE  Orderly'
<1>1. CASE FrameOp
  BY <1>1, FrameStep, ReturnStep DEF FrameOp, Promised
<1>2. CASE DataOp
  BY <1>2, DataStep DEF Promised
<1>3. CASE CallOp
  BY <1>3, CallStep, CallrStep, ExternReturnStep DEF CallOp, Promised
<1>4. CASE HostCall
  BY <1>4, HostCallStep
<1>5. CASE NativeInvoke
  BY <1>5, NativeInvokeStep DEF Promised
<1>6. CASE NativeReturn
  BY <1>6, NativeReturnStep
<1>7. CASE StartReturn
  BY <1>7, StartReturnStep
<1>8. CASE NativeThrow \/ HostCallUnknown
  BY <1>8 DEF NativeThrow, HostCallUnknown
<1>9. CASE Finished \/ UNCHANGED vars
  BY <1>9, OrderlySame DEF Finished, vars
<1>10. QED
  BY <1>1, <1>2, <1>3, <1>4, <1>5, <1>6, <1>7, <1>8, <1>9 DEF Next, Machine, NativeOp

\* What every loop uses of the two stacks is inside them.
LEMMA LoopsInside ==
  ASSUME StackInv, Orderly, NEW d \in 1 .. Len(cstack), cstack[d].k = "exec"
  PROVE  /\ cstack[d].sp \in OpBase .. Top /\ Taken(code, cstack[d]) \in 0 .. CallCells
         /\ LoopOK(code, cstack[d])
<1>1. cstack[d] \in SafeFrame /\ LoopOK(code, cstack[d])
  BY CodeType, ElementOfSeq DEF Orderly, Stacked, FramesOK
<1>2. QED
  BY <1>1, CodeType, LoopBounds, ExecType, SizesOK, ConstAssumption

\* vm->osp does not pass the top of the operand stack either.
LEMMA EdgeStep ==
  ASSUME StackInv, Orderly, osp <= Top, [Next]_vars, err = "None", err' = "None"
  PROVE  osp' <= Top
<1>1. osp \in Int
  BY DEF StackInv, TypeOK
<1>2. Executing => Running.sp <= Top
  BY InnerType DEF Executing
<1>3. \A op \in Op : At(op) => Executing /\ Instruction.a \in Nat
  BY InstructionType
<1>4. \A v, sp : sp \in Int /\ sp <= Top /\ ReturnVia(v, sp) => osp' <= Top
  BY DEF ReturnVia, Halt
<1>5. \A n \in Nat : Executing => Reduced(Running.sp, n) \in Int /\ Reduced(Running.sp, n) <= Top
  BY InnerType, SizesOK DEF Reduced, Executing
<1>6. Executing => Running.sp \in Int
  BY InnerType DEF Executing
<1>7. CASE FrameOp
  <2>1. CASE Alloc \/ Enter \/ Redux \/ SaveLr \/ LoadLr
    BY <2>1 DEF Alloc, Enter, Redux, SaveLr, LoadLr, Fail
  <2>2. CASE Ret \/ Restore
    BY <1>2, <1>3, <1>4, <1>6, <2>2 DEF Ret, Restore, Op
  <2>3. CASE Remit \/ Leave
    BY <1>3, <1>4, <1>5, <2>3 DEF Remit, Leave, Op
  <2>4. CASE HaltOp
    BY <1>2, <1>3, <2>4 DEF HaltOp, Halt, Op
  <2>5. QED
    BY <1>7, <2>1, <2>2, <2>3, <2>4 DEF FrameOp
<1>8. CASE DataOp
  BY <1>8 DEF DataOp, Move, Compute, Convert, Load, Store, Compare, Jump, Fail
<1>9. CASE CallOp
  <2>1. CASE Call
    BY <1>2, <1>3, <2>1 DEF Call, CallFails, Fail, FlagsAsError, EnterNative, EnterExtern, Branch, Op
  <2>2. CASE Callr
    BY <1>2, <1>3, <2>2 DEF Callr, CallFails, Fail, EnterNative, EnterExtern, Branch, Op
  <2>3. CASE ExternReturn
    BY <2>3 DEF ExternReturn
  <2>4. QED
    BY <1>9, <2>1, <2>2, <2>3 DEF CallOp
<1>10. CASE HostCall \/ NativeInvoke
  <2>1. \A cs, it, n : n \in Nat /\ StartItem(cs, it, n) => osp' <= Top
    BY <1>1, SizesOK DEF StartItem, Start
  <2>2. (\E cs, it, n : n \in Nat /\ StartItem(cs, it, n))
    BY <1>10, ConstAssumption DEF HostCall, NativeInvoke
  <2>3. QED
    BY <2>1, <2>2
<1>11. CASE StartReturn
  <2>1. /\ Depth > 0 /\ Running.k = "start" /\ osp' = osp + Running.cells
    BY <1>11 DEF StartReturn
  <2>2. osp' = Running.osp0
    BY <2>1 DEF Orderly, TopOK, Depth, Running
  <2>3. StartLink(code, cstack, Depth) /\ Depth \in 1 .. Len(cstack)
    BY <2>1, Uncovered DEF LinkOK, Running
  <2>4. CASE Running.osp0 = Top
    BY <2>2, <2>4, SizesOK
  <2>5. CASE Depth > 2 /\ cstack[Depth - 2].k = "exec" /\ Running.osp0 <= cstack[Depth - 2].sp
    <3>1. Depth - 2 \in 1 .. Len(cstack)
      BY <2>3, <2>5, LenProperties, CodeType
    <3>2. cstack[Depth - 2].sp \in OpBase .. Top
      BY <2>5, <3>1, LoopsInside
    <3>3. Running.osp0 \in Int
      BY <2>1, RunningFrame DEF SafeFrame, Frame, StartFrame, ExecFrame, NativeFrame
    <3> DEFINE a == Running.osp0  b == cstack[Depth - 2].sp
    <3>4. a \in Int /\ a <= b /\ b \in OpBase .. Top
      BY <2>5, <3>2, <3>3
    <3> HIDE DEF a, b
    <3>5. a <= Top
      BY <3>4, SizesOK
    <3>6. QED
      BY <2>2, <3>5 DEF a
  <2>6. QED
    BY <2>3, <2>4, <2>5 DEF StartLink, Running
<1>12. CASE NativeThrow \/ NativeReturn \/ HostCallUnknown \/ Finished \/ UNCHANGED vars
  BY <1>12 DEF NativeThrow, NativeReturn, HostCallUnknown, Finished, vars
<1>13. QED
  BY <1>7, <1>8, <1>9, <1>10, <1>11, <1>12 DEF Next, Machine, NativeOp

LEMMA InitOrderly == Init => Orderly /\ osp <= Top
<1> SUFFICES ASSUME Init PROVE Orderly /\ osp <= Top
  OBVIOUS
<1>1. Len(cstack) = 0
  BY EmptySeq DEF Init
<1>2. \A d \in 1 .. Len(cstack) : FALSE
  BY <1>1
<1>3. Stacked(code, cstack, mem)
  BY <1>2 DEF Stacked, FramesOK, LinksOK, OrderOK
<1>4. TopOK(code, cstack, osp, csp, lr, tabs) /\ osp <= Top
  BY <1>1, SizesOK DEF TopOK, Init
<1>5. QED
  BY <1>3, <1>4 DEF Orderly

\* A machine whose programs keep the calling convention, and whose runs do nothing of what
\* Promised excludes, keeps its C stack, its call stack and its link register in order
\* until an error is raised.
THEOREM ConventionKept == Spec /\ []Promised => []ConventionInv
<1>1. Init => ConventionInv
  BY InitOrderly DEF ConventionInv
<1>2. StackInv /\ Promised /\ ConventionInv /\ [Next]_vars => ConventionInv'
  BY ErrorStays, OrderlyStep, EdgeStep DEF ConventionInv, Promised
<1>3. QED
  BY <1>1, <1>2, Invariance, PTL DEF Spec

\* The call stack pointer of a call from C is in the call stack.
LEMMA StartInside ==
  ASSUME StackInv, Orderly, NEW d \in 1 .. Len(cstack), cstack[d].k = "start"
  PROVE  cstack[d].csp0 \in 0 .. CallCells
<1>1. StartLink(code, cstack, d)
  BY DEF Orderly, Stacked, LinksOK, LinkOK
<1>2. CASE cstack[d].csp0 = 0
  BY <1>2, ConstAssumption
<1>3. CASE d > 2 /\ cstack[d - 2].k = "exec" /\ cstack[d].csp0 = Taken(code, cstack[d - 2])
  <2>1. d - 2 \in 1 .. Len(cstack)
    BY <1>3, CodeType, LenProperties
  <2>2. QED
    BY <1>3, <2>1, LoopsInside
<1>4. QED
  BY <1>1, <1>2, <1>3 DEF StartLink

LEMMA CallStackInside ==
  ASSUME StackInv, Orderly
  PROVE  csp \in 0 .. CallCells
<1> DEFINE n == Len(cstack)
<1>1. n \in Nat /\ (n > 0 => n \in 1 .. Len(cstack) /\ cstack[n] \in SafeFrame)
  BY CodeType, LenProperties, ElementOfSeq
<1>2. TopOK(code, cstack, osp, csp, lr, tabs)
  BY DEF Orderly
<1>3. CASE n = 0
  BY <1>2, <1>3, ConstAssumption DEF TopOK
<1>4. CASE n > 0 /\ cstack[n].k = "exec"
  <2>1. csp = Taken(code, cstack[n])
    BY <1>2, <1>4 DEF TopOK, ExecTop
  <2>2. QED
    BY <1>1, <1>4, <2>1, LoopsInside
<1>5. CASE n > 0 /\ cstack[n].k = "start"
  <2>1. csp = cstack[n].csp0
    BY <1>2, <1>5 DEF TopOK
  <2>2. QED
    BY <1>1, <1>5, <2>1, StartInside
<1>6. CASE n > 0 /\ cstack[n].k = "native"
  <2>1. NativeTop(code, cstack, n - 1, osp, csp, lr, tabs)
    BY <1>2, <1>6 DEF TopOK
  <2>2. n > 1 /\ NativeLink(code, cstack, n)
    BY <1>1, <1>6 DEF Orderly, Stacked, LinksOK, LinkOK
  <2>3. n - 1 \in 1 .. Len(cstack)
    BY <1>1, <2>2
  <2>4. CASE cstack[n - 1].k = "exec"
    <3>1. csp = Taken(code, cstack[n - 1])
      BY <2>1, <2>4 DEF NativeTop
    <3>2. QED
      BY <2>3, <2>4, <3>1, LoopsInside
  <2>5. CASE cstack[n - 1].k = "start"
    <3>1. csp = cstack[n - 1].csp0
      BY <2>1, <2>5 DEF NativeTop
    <3>2. QED
      BY <2>3, <2>5, <3>1, StartInside
  <2>6. QED
    BY <2>2, <2>4, <2>5 DEF NativeLink
<1>7. cstack[n] \in SafeFrame => cstack[n].k \in {"exec", "start", "native"}
  BY FrameKinds DEF SafeFrame
<1> HIDE DEF n
<1>8. QED
  BY <1>1, <1>3, <1>4, <1>5, <1>6, <1>7
----------------------------------------------------------------------------
(* What it is good for.                                                    *)

\* Until an error is raised neither stack pointer leaves its own stack: the checks of the
\* operand stack do for the call stack, which has none.
THEOREM StacksBounded == Spec /\ []Promised => []StacksInBounds
<1>1. StackInv /\ ConventionInv => StacksInBounds
  <2> SUFFICES ASSUME StackInv, Orderly, osp <= Top
               PROVE  /\ osp \in OpBase .. Top
                      /\ \A d \in Execs : cstack[d].sp \in OpBase .. Top
                      /\ csp \in 0 .. CallCells
    BY DEF ConventionInv, StacksInBounds
  <2>1. osp \in OpBase .. Top
    BY SizesOK DEF StackInv, TypeOK
  <2>2. \A d \in Execs : cstack[d].sp \in OpBase .. Top
    BY LoopsInside DEF Execs, Depth
  <2>3. QED
    BY <2>1, <2>2, CallStackInside
<1>2. QED
  BY <1>1, ConventionKept, Invariance, PTL

\* What a return instruction returns to is what its function was called with.
LEMMA ReturnsRight ==
  ASSUME StackInv, Orderly
  PROVE  /\ At("ret") \/ At("remit") => lr = Inner(Running).ret
         /\ At("leave") \/ At("restore") => csp > 0 /\ mem[csp - 1] = Inner(Running).ret
<1>1. \A op \in Op : At(op) => Executing
  BY InstructionType
<1>2. At("ret") \/ At("remit") => lr = Inner(Running).ret
  <2> HAVE At("ret") \/ At("remit")
  <2>1. Executing /\ ~Here.saved
    BY <1>1, ReturnNotes DEF Op
  <2> QED BY <2>1, Current DEF Here
<1>3. At("leave") \/ At("restore") => csp > 0 /\ mem[csp - 1] = Inner(Running).ret
  <2> HAVE At("leave") \/ At("restore")
  <2>1. Executing /\ Here.saved
    BY <1>1, ReturnNotes DEF Op
  <2>2. csp = Inner(Running).csp + 1 /\ mem[Inner(Running).csp] = Inner(Running).ret
    BY <2>1, Current DEF Here, One
  <2>3. Inner(Running).csp \in 0 .. CallCells - 1 /\ CallCells \in Nat
    BY <2>1, InnerType, ConstAssumption DEF Executing
  <2>4. csp > 0 /\ csp - 1 = Inner(Running).csp
    BY <2>2, <2>3
  <2> QED BY <2>2, <2>4
<1> QED BY <1>2, <1>3

\* Every return instruction is about to use the address after the call that opened its
\* function, or null if C code did, whatever natives, nested loops and callbacks ran since.
THEOREM CallersReturnedTo == Spec /\ []Promised => []ReturnsToCaller
<1>1. StackInv /\ ConventionInv => ReturnsToCaller
  BY ReturnsRight DEF ConventionInv, ReturnsToCaller, Expected, Inner
<1>2. QED
  BY <1>1, ConventionKept, Invariance, PTL

\* When a call from C comes back without an error, the cells it took from both stacks are
\* back.
THEOREM CallsBalanced == Spec /\ []Promised => []Balanced
<1>1. ConventionInv => Balanced
  BY DEF ConventionInv, Orderly, TopOK, Balanced, Running, Depth
<1>2. QED
  BY <1>1, ConventionKept, PTL

\* Until an error is raised every loop uses the tables of the module its code belongs to.
THEOREM TablesOfTheCode == Spec /\ []Promised => [](err = "None" => TablesMatch)
<1>1. StackInv /\ ConventionInv => (err = "None" => TablesMatch)
  <2> SUFFICES ASSUME StackInv, Orderly PROVE TablesMatch
    BY DEF ConventionInv
  <2>1. \A d \in Execs : cstack[d].tf = OwnerOf(cstack[d].ip.f)
    BY DEF Orderly, Stacked, FramesOK, LoopOK, InCode, Execs, Depth
  <2>2. Executing => tabs = Running.tf
    BY Current
  <2>3. QED
    BY <2>1, <2>2 DEF TablesMatch
<1>2. QED
  BY <1>1, ConventionKept, Invariance, PTL

\* Until an error is raised a call from C takes its cells below every register that a
\* suspended loop still uses.
THEOREM CallsBelowRegisters == Spec /\ []Promised => [](err = "None" => FramesDisjoint)
<1>1. StackInv /\ ConventionInv => (err = "None" => FramesDisjoint)
  <2> SUFFICES ASSUME Orderly, NEW d \in Execs, NEW s \in 1 .. Depth, s > d, cstack[s].k = "start",
                      StackInv
               PROVE  cstack[s].osp0 <= cstack[d].sp
    BY DEF ConventionInv, FramesDisjoint
  <2>1. d \in 1 .. Len(cstack) /\ cstack[d].k = "exec" /\ s \in d + 1 .. Len(cstack)
    BY CodeType, LenProperties DEF Execs, Depth
  <2>2. Above(code, cstack[d], cstack[s])
    BY <2>1 DEF Orderly, Stacked, OrderOK
  <2>3. QED
    BY <2>2 DEF Above
<1>2. QED
  BY <1>1, ConventionKept, Invariance, PTL
----------------------------------------------------------------------------
(* Sequences joined to one.                                                *)

\* A nonempty set of numbers has a least one.
LEMMA Least == ASSUME NEW T \in SUBSET Nat, T # {} PROVE \E k \in T : \A l \in T : k <= l
<1>1. PICK k \in T : \A l \in T : ~(<<l, k>> \in OpToRel(<, Nat))
  BY NatLessThanWellFounded, WFMin
<1>2. \A l \in T : ~(l < k)
  BY <1>1, Zenon DEF OpToRel
<1> QED BY <1>2

\* g[i] is the sequences q[1] to q[i] one after another, for i up to n.
Joined(q, n, g) == g = [i \in 1 .. n |-> IF i = 1 THEN q[i] ELSE g[i - 1] \o q[i]]

LEMMA JoinedExists == ASSUME NEW q, NEW n \in Nat PROVE \E g : Joined(q, n, g)
<1> DEFINE Bad == {m \in Nat : ~\E g : Joined(q, m, g)}
<1> SUFFICES ASSUME Bad # {} PROVE FALSE
  OBVIOUS
<1>1. PICK m \in Bad : \A l \in Bad : m <= l
  BY Least
<1>2. m # 0
  <2>1. Joined(q, 0, [i \in 1 .. 0 |-> 0])
    BY DEF Joined
  <2> QED BY <1>1, <2>1
<1>3. m - 1 \in Nat /\ m - 1 \notin Bad /\ m \in Nat /\ m >= 1
  BY <1>1, <1>2
<1>4. PICK g : Joined(q, m - 1, g)
  BY <1>3
<1> DEFINE h == [i \in 1 .. m |-> IF i = m THEN IF m = 1 THEN q[m] ELSE g[m - 1] \o q[m] ELSE g[i]]
<1>5. \A i \in 1 .. m : h[i] = IF i = 1 THEN q[i] ELSE h[i - 1] \o q[i]
  <2> SUFFICES ASSUME NEW i \in 1 .. m PROVE h[i] = IF i = 1 THEN q[i] ELSE h[i - 1] \o q[i]
    OBVIOUS
  <2>1. CASE i = 1 /\ m = 1
    BY <2>1
  <2>2. CASE i = 1 /\ m # 1
    <3>1. i \in 1 .. m - 1 /\ h[i] = g[i]
      BY <1>3, <2>2
    <3> QED BY <1>4, <2>2, <3>1 DEF Joined
  <2>3. CASE i # 1
    <3>1. i - 1 \in 1 .. m - 1 /\ i - 1 \in 1 .. m /\ i - 1 # m /\ h[i - 1] = g[i - 1]
      BY <1>3, <2>3
    <3>2. CASE i = m
      BY <2>3, <3>1, <3>2
    <3>3. CASE i # m
      <4>1. i \in 1 .. m - 1 /\ h[i] = g[i]
        BY <1>3, <3>3
      <4>2. g[i] = g[i - 1] \o q[i]
        BY <1>4, <2>3, <4>1 DEF Joined
      <4> QED BY <2>3, <3>1, <4>1, <4>2
    <3> QED BY <3>2, <3>3
  <2> QED BY <2>1, <2>2, <2>3
<1>6. h = [i \in 1 .. m |-> h[i]]
  OBVIOUS
<1> HIDE DEF h
<1>7. Joined(q, m, h)
  BY <1>5, <1>6 DEF Joined
<1> QED BY <1>1, <1>7

\* What the first sequences are joined to does not depend on the others.
Agree(q, r, m) == \A i \in 1 .. m : q[i] = r[i]

LEMMA JoinedAgree ==
  ASSUME NEW q, NEW r, NEW m \in Nat, NEW n \in Nat, m <= n, NEW g, NEW h,
         Joined(q, m, g), Joined(r, n, h), Agree(q, r, m)
  PROVE  Agree(g, h, m)
<1> SUFFICES \A i \in 1 .. m : g[i] = h[i]
  BY DEF Agree
<1> DEFINE Bad == {i \in 1 .. m : g[i] # h[i]}
<1> SUFFICES ASSUME Bad # {} PROVE FALSE
  OBVIOUS
<1>0. Bad \in SUBSET Nat
  OBVIOUS
<1>1. PICK i \in Bad : \A l \in Bad : i <= l
  BY <1>0, Least
<1>2. i \in 1 .. m /\ i \in 1 .. n /\ g[i] # h[i]
  BY <1>1
<1>3. CASE i = 1
  BY <1>2, <1>3 DEF Joined, Agree
<1>4. CASE i # 1
  <2>1. i - 1 \in 1 .. m /\ i - 1 \notin Bad
    BY <1>1, <1>2, <1>4
  <2>2. g[i - 1] = h[i - 1]
    BY <2>1
  <2>3. g[i] = g[i - 1] \o q[i] /\ h[i] = h[i - 1] \o r[i]
    BY <1>2, <1>4 DEF Joined
  <2> QED BY <1>2, <2>2, <2>3 DEF Agree
<1> QED BY <1>3, <1>4

LEMMA JoinedType ==
  ASSUME NEW S, NEW q, NEW n \in Nat, NEW g, Joined(q, n, g), \A i \in 1 .. n : q[i] \in Seq(S)
  PROVE  \A i \in 1 .. n : g[i] \in Seq(S)
<1> DEFINE Bad == {i \in 1 .. n : g[i] \notin Seq(S)}
<1> SUFFICES ASSUME Bad # {} PROVE FALSE
  OBVIOUS
<1>0. Bad \in SUBSET Nat
  OBVIOUS
<1>1. PICK i \in Bad : \A l \in Bad : i <= l
  BY <1>0, Least
<1>2. i \in 1 .. n /\ g[i] \notin Seq(S) /\ q[i] \in Seq(S)
  BY <1>1
<1>3. CASE i = 1
  BY <1>2, <1>3 DEF Joined
<1>4. CASE i # 1
  <2>1. i - 1 \in 1 .. n /\ i - 1 \notin Bad
    BY <1>1, <1>2, <1>4
  <2>2. g[i - 1] \in Seq(S)
    BY <2>1
  <2>3. g[i] = g[i - 1] \o q[i]
    BY <1>2, <1>4 DEF Joined
  <2> QED BY <1>2, <2>2, <2>3, ConcatProperties
<1> QED BY <1>3, <1>4

LEMMA FlattenIs ==
  ASSUME NEW q, NEW n \in Nat, Len(q) = n
  PROVE  \E g : /\ Joined(q, n, g)
                /\ n = 0 => FlattenSeq(q) = q
                /\ n # 0 => FlattenSeq(q) = g[n]
<1> DEFINE c == CHOOSE g : g = [i \in 1 .. Len(q) |-> IF i = 1 THEN q[i] ELSE g[i - 1] \o q[i]]
<1>1. c = [i \in 1 .. Len(q) |-> IF i = 1 THEN q[i] ELSE c[i - 1] \o q[i]]
  BY JoinedExists DEF Joined
<1>2. n # 0 => FlattenSeq(q) = c[Len(q)]
  BY Zenon DEF FlattenSeq
<1>3. n = 0 => FlattenSeq(q) = q
  BY DEF FlattenSeq
<1> HIDE DEF c
<1> QED BY <1>1, <1>2, <1>3 DEF Joined

LEMMA FlattenAppend ==
  ASSUME NEW S, NEW q \in Seq(Seq(S)), NEW s \in Seq(S)
  PROVE  FlattenSeq(q) \in Seq(S) /\ FlattenSeq(Append(q, s)) = FlattenSeq(q) \o s
<1> DEFINE r == Append(q, s)
           n == Len(q)
<1>1. /\ n \in Nat /\ r \in Seq(Seq(S)) /\ Len(r) = n + 1
      /\ \A i \in 1 .. n : q[i] = r[i] /\ q[i] \in Seq(S)
      /\ r[n + 1] = s
  BY LenProperties, ElementOfSeq, AppendProperties
<1>2. n = 0 => q = << >>
  BY EmptySeq
<1> HIDE DEF r, n
<1>3. PICK g : /\ Joined(q, n, g)
               /\ n = 0 => FlattenSeq(q) = q
               /\ n # 0 => FlattenSeq(q) = g[n]
  BY <1>1, FlattenIs DEF n
<1>4. PICK h : Joined(r, n + 1, h) /\ FlattenSeq(r) = h[n + 1]
  <2>1. n + 1 \in Nat /\ n + 1 # 0
    BY <1>1
  <2> QED BY <1>1, <2>1, FlattenIs
<1>5. CASE n = 0
  <2>1. FlattenSeq(q) = << >>
    BY <1>2, <1>3, <1>5
  <2>2. FlattenSeq(r) = s
    BY <1>1, <1>4, <1>5 DEF Joined
  <2>3. << >> \in Seq(S) /\ << >> \o s = s
    BY EmptySeq, ConcatEmptySeq
  <2> QED BY <2>1, <2>2, <2>3 DEF r
<1>6. CASE n # 0
  <2>1. n \in 1 .. n /\ n + 1 \in 1 .. n + 1 /\ n + 1 # 1 /\ (n + 1) - 1 = n /\ n <= n + 1
    BY <1>1, <1>6
  <2>2. h[n + 1] = h[n] \o s
    BY <1>1, <1>4, <2>1 DEF Joined
  <2>3. g[n] = h[n]
    <3>1. PICK k \in Nat : k = n + 1
      BY <1>1
    <3>2. /\ n \in Nat /\ n <= k /\ Joined(q, n, g) /\ Joined(r, k, h)
          /\ Agree(q, r, n)
      BY <1>1, <1>3, <1>4, <2>1, <3>1 DEF Agree
    <3>3. Agree(g, h, n)
      BY <3>2, JoinedAgree
    <3> QED BY <2>1, <3>3 DEF Agree
  <2>4. g[n] \in Seq(S)
    <3>1. \A i \in 1 .. n : g[i] \in Seq(S)
      BY <1>1, <1>3, JoinedType
    <3> QED BY <2>1, <3>1
  <2> QED BY <1>3, <1>4, <1>6, <2>2, <2>3, <2>4 DEF r
<1> QED BY <1>5, <1>6

----------------------------------------------------------------------------
(* Control.                                                                *)

\* The place of a function that runs or waits.
Spot      == [f : Mod \cup Func \cup {NIL}, pc : Int]
Waits(fr) == [i \in 1 .. Len(fr.stk) - 1 |-> CodeOf(fr.stk[i + 1].ret)]
Flat(cs)  == FlattenSeq([d \in 1 .. Len(cs) |-> Places(cs[d])])

LEMMA CodeOfType == ASSUME NEW v \in Val PROVE CodeOf(v) \in Spot
  BY DEF CodeOf, Val, Spot

LEMMA WaitsType ==
  ASSUME NEW fr \in SafeFrame, fr.k = "exec", Len(fr.stk) >= 1
  PROVE  /\ Waits(fr) \in Seq(Spot) /\ Len(Waits(fr)) = Len(fr.stk) - 1
         /\ \A i \in 1 .. Len(fr.stk) - 1 : Waits(fr)[i] = CodeOf(fr.stk[i + 1].ret)
         /\ fr.ip \in Spot
<1>1. /\ Len(fr.stk) \in Nat /\ fr.ip \in Loc
      /\ \A j \in 1 .. Len(fr.stk) : fr.stk[j].ret \in Val
  BY ExecType
<1>2. \A i \in 1 .. Len(fr.stk) - 1 : CodeOf(fr.stk[i + 1].ret) \in Spot
  <2> TAKE i \in 1 .. Len(fr.stk) - 1
  <2>1. i + 1 \in 1 .. Len(fr.stk)
    BY <1>1
  <2> QED BY <1>1, <2>1, CodeOfType
<1>3. Len(fr.stk) - 1 \in Nat
  BY <1>1
<1>4. Waits(fr) \in Seq(Spot) /\ Len(Waits(fr)) = Len(fr.stk) - 1
  BY <1>2, <1>3, IsASeq DEF Waits
<1>5. fr.ip \in Spot
  BY <1>1 DEF Loc, Spot
<1> QED BY <1>4, <1>5 DEF Waits

LEMMA PlacesLoop ==
  ASSUME NEW fr \in SafeFrame, fr.k = "exec", Len(fr.stk) >= 1
  PROVE  Places(fr) = Append(Waits(fr), fr.ip)
<1>1. fr.stk # << >>
  BY EmptySeq
<1> QED BY <1>1 DEF Places, Waits

LEMMA PlacesType ==
  ASSUME NEW fr \in SafeFrame
  PROVE  Places(fr) \in Seq(Spot)
<1>1. CASE fr.k = "exec" /\ Len(fr.stk) >= 1
  BY <1>1, PlacesLoop, WaitsType, AppendProperties
<1>2. CASE fr.k = "exec" /\ ~(Len(fr.stk) >= 1)
  <2>1. fr.stk = << >>
    BY <1>2, ExecType, LenProperties, EmptySeq
  <2> QED BY <2>1, EmptySeq DEF Places
<1>3. CASE fr.k # "exec"
  BY <1>3, EmptySeq DEF Places
<1> QED BY <1>1, <1>2, <1>3

LEMMA FlatSame ==
  ASSUME NEW cs, NEW cs2, Len(cs2) = Len(cs),
         \A d \in 1 .. Len(cs) : Places(cs2[d]) = Places(cs[d])
  PROVE  Flat(cs2) = Flat(cs)
<1>1. [d \in 1 .. Len(cs2) |-> Places(cs2[d])] = [d \in 1 .. Len(cs) |-> Places(cs[d])]
  OBVIOUS
<1> QED BY <1>1 DEF Flat

LEMMA FlatAppend ==
  ASSUME NEW cs \in Seq(SafeFrame), NEW fr \in SafeFrame
  PROVE  /\ Flat(cs) \in Seq(Spot)
         /\ Flat(Append(cs, fr)) = Flat(cs) \o Places(fr)
<1> DEFINE q == [d \in 1 .. Len(cs) |-> Places(cs[d])]
           r == [d \in 1 .. Len(Append(cs, fr)) |-> Places(Append(cs, fr)[d])]
<1>1. /\ Len(cs) \in Nat /\ \A d \in 1 .. Len(cs) : cs[d] \in SafeFrame
      /\ Len(Append(cs, fr)) = Len(cs) + 1 /\ Append(cs, fr)[Len(cs) + 1] = fr
      /\ \A d \in 1 .. Len(cs) : Append(cs, fr)[d] = cs[d]
  BY LenProperties, ElementOfSeq, AppendProperties
<1>2. \A d \in 1 .. Len(cs) : Places(cs[d]) \in Seq(Spot)
  BY <1>1, PlacesType
<1>3. q \in Seq(Seq(Spot)) /\ Len(q) = Len(cs)
  BY <1>1, <1>2, IsASeq
<1>4. Places(fr) \in Seq(Spot)
  BY PlacesType
<1>5. r = Append(q, Places(fr))
  <2>1. /\ Append(q, Places(fr)) \in Seq(Seq(Spot)) /\ Len(Append(q, Places(fr))) = Len(cs) + 1
        /\ Append(q, Places(fr))[Len(cs) + 1] = Places(fr)
        /\ \A d \in 1 .. Len(cs) : Append(q, Places(fr))[d] = Places(cs[d])
    BY <1>1, <1>3, <1>4, AppendProperties
  <2>2. DOMAIN Append(q, Places(fr)) = 1 .. Len(cs) + 1
    BY <2>1, LenProperties
  <2>3. \A d \in 1 .. Len(cs) + 1 : r[d] = Append(q, Places(fr))[d]
    <3> TAKE d \in 1 .. Len(cs) + 1
    <3>1. r[d] = Places(Append(cs, fr)[d])
      BY <1>1
    <3>2. CASE d = Len(cs) + 1
      BY <1>1, <2>1, <3>1, <3>2
    <3>3. CASE d # Len(cs) + 1
      <4>1. d \in 1 .. Len(cs)
        BY <1>1, <3>3
      <4> QED BY <1>1, <2>1, <3>1, <4>1
    <3> QED BY <3>2, <3>3
  <2>4. r = [d \in 1 .. Len(cs) + 1 |-> r[d]]
    BY <1>1
  <2>5. Append(q, Places(fr)) = [d \in 1 .. Len(cs) + 1 |-> Append(q, Places(fr))[d]]
    BY <2>1, <2>2, LenProperties
  <2> HIDE DEF q, r
  <2> QED BY <2>3, <2>4, <2>5
<1> HIDE DEF q, r
<1>6. FlattenSeq(q) \in Seq(Spot) /\ FlattenSeq(r) = FlattenSeq(q) \o Places(fr)
  BY <1>3, <1>4, <1>5, FlattenAppend
<1> QED BY <1>6 DEF Flat, q, r

\* The top frame comes last.
LEMMA FlatTop ==
  ASSUME NEW cs \in Seq(SafeFrame), Len(cs) > 0
  PROVE  /\ SubSeq(cs, 1, Len(cs) - 1) \in Seq(SafeFrame) /\ cs[Len(cs)] \in SafeFrame
         /\ Flat(SubSeq(cs, 1, Len(cs) - 1)) \in Seq(Spot)
         /\ Flat(cs) = Flat(SubSeq(cs, 1, Len(cs) - 1)) \o Places(cs[Len(cs)])
<1> DEFINE base == SubSeq(cs, 1, Len(cs) - 1)
<1>1. /\ base \in Seq(SafeFrame) /\ Len(base) = Len(cs) - 1 /\ cs[Len(cs)] \in SafeFrame
      /\ \A d \in 1 .. Len(cs) - 1 : base[d] = cs[d]
      /\ Len(cs) \in Nat
  BY Beneath
<1>2. cs = Append(base, cs[Len(cs)])
  <2> HIDE DEF base
  <2>1. /\ Append(base, cs[Len(cs)]) \in Seq(SafeFrame)
        /\ Len(Append(base, cs[Len(cs)])) = Len(cs)
        /\ Append(base, cs[Len(cs)])[Len(cs)] = cs[Len(cs)]
        /\ \A d \in 1 .. Len(cs) - 1 : Append(base, cs[Len(cs)])[d] = cs[d]
    <3>1. Len(base) + 1 = Len(cs)
      BY <1>1
    <3> QED BY <1>1, <3>1, AppendProperties
  <2>2. \A d \in 1 .. Len(cs) : Append(base, cs[Len(cs)])[d] = cs[d]
    <3> TAKE d \in 1 .. Len(cs)
    <3>1. d = Len(cs) \/ d \in 1 .. Len(cs) - 1
      BY <1>1
    <3> QED BY <2>1, <3>1
  <2> QED BY <2>1, <2>2, SeqEqual
<1> HIDE DEF base
<1>3. Flat(base) \in Seq(Spot) /\ Flat(Append(base, cs[Len(cs)])) = Flat(base) \o Places(cs[Len(cs)])
  BY <1>1, FlatAppend
<1> QED BY <1>1, <1>2, <1>3 DEF base

LEMMA FlatType == ASSUME NEW cs \in Seq(SafeFrame) PROVE Flat(cs) \in Seq(Spot)
<1>1. [k |-> "start", cells |-> 0, osp0 |-> 0, csp0 |-> 0] \in SafeFrame
  BY DEF SafeFrame, Frame, StartFrame
<1> QED BY <1>1, FlatAppend

LEMMA ConcatAppend ==
  ASSUME NEW a \in Seq(Spot), NEW b \in Seq(Spot), NEW l \in Spot
  PROVE  a \o Append(b, l) = Append(a \o b, l) /\ a \o b \in Seq(Spot)
<1>1. <<l>> \in Seq(Spot)
  OBVIOUS
<1> QED BY <1>1, AppendIsConcat, ConcatAssociative, ConcatProperties

\* The top frame gives way to another one.
LEMMA FlatReplaced ==
  ASSUME NEW cs \in Seq(SafeFrame), Len(cs) > 0, NEW fr \in SafeFrame
  PROVE  /\ [cs EXCEPT ![Len(cs)] = fr] \in Seq(SafeFrame)
         /\ Flat([cs EXCEPT ![Len(cs)] = fr]) = Flat(SubSeq(cs, 1, Len(cs) - 1)) \o Places(fr)
<1> DEFINE t == [cs EXCEPT ![Len(cs)] = fr]
<1>1. Len(cs) \in Nat /\ Len(cs) \in 1 .. Len(cs)
  BY LenProperties
<1>2. t \in Seq(SafeFrame) /\ Len(t) = Len(cs) /\ t[Len(cs)] = fr
      /\ \A d \in 1 .. Len(cs) - 1 : t[d] = cs[d]
  BY <1>1, ExceptSeq
<1> HIDE DEF t
<1>3. /\ SubSeq(t, 1, Len(cs) - 1) \in Seq(SafeFrame)
      /\ Len(SubSeq(t, 1, Len(cs) - 1)) = Len(cs) - 1
      /\ \A d \in 1 .. Len(cs) - 1 : SubSeq(t, 1, Len(cs) - 1)[d] = cs[d]
  BY <1>2, Beneath
<1>4. /\ SubSeq(cs, 1, Len(cs) - 1) \in Seq(SafeFrame)
      /\ Len(SubSeq(cs, 1, Len(cs) - 1)) = Len(cs) - 1
      /\ \A d \in 1 .. Len(cs) - 1 : SubSeq(cs, 1, Len(cs) - 1)[d] = cs[d]
  BY Beneath
<1>5. SubSeq(t, 1, Len(cs) - 1) = SubSeq(cs, 1, Len(cs) - 1)
  BY <1>3, <1>4, SeqEqual
<1>6. Flat(t) = Flat(SubSeq(t, 1, Len(cs) - 1)) \o Places(fr)
  BY <1>2, FlatTop
<1> QED BY <1>2, <1>5, <1>6 DEF t

\* With the top loop as fr, control ends with the functions of fr.
LEMMA FlatLoop ==
  ASSUME StackInv, Depth > 0, NEW fr \in SafeFrame, fr.k = "exec", Len(fr.stk) >= 1
  PROVE  /\ [cstack EXCEPT ![Depth] = fr] \in Seq(SafeFrame)
         /\ Flat(Under) \in Seq(Spot) /\ Flat(Under) \o Waits(fr) \in Seq(Spot) /\ fr.ip \in Spot
         /\ Flat([cstack EXCEPT ![Depth] = fr]) = Append(Flat(Under) \o Waits(fr), fr.ip)
<1>1. cstack \in Seq(SafeFrame) /\ Under \in Seq(SafeFrame)
  BY RunningFrame, CodeType
<1>2. /\ [cstack EXCEPT ![Depth] = fr] \in Seq(SafeFrame)
      /\ Flat([cstack EXCEPT ![Depth] = fr]) = Flat(Under) \o Places(fr)
  BY <1>1, FlatReplaced DEF Depth, Under
<1>3. Places(fr) = Append(Waits(fr), fr.ip) /\ Waits(fr) \in Seq(Spot) /\ fr.ip \in Spot
  BY PlacesLoop, WaitsType
<1>4. Flat(Under) \in Seq(Spot)
  BY <1>1, FlatType
<1> QED BY <1>2, <1>3, <1>4, ConcatAppend

LEMMA ControlLoop ==
  ASSUME StackInv, Depth > 0, Running.k = "exec", Len(Running.stk) >= 1
  PROVE  /\ Flat(Under) \in Seq(Spot) /\ Waits(Running) \in Seq(Spot)
         /\ Flat(Under) \o Waits(Running) \in Seq(Spot) /\ Running.ip \in Spot
         /\ Control = Append(Flat(Under) \o Waits(Running), Running.ip)
<1>1. Running \in SafeFrame /\ Depth \in 1 .. Len(cstack) /\ cstack \in Seq(SafeFrame)
  BY RunningFrame, CodeType
<1>2. [cstack EXCEPT ![Depth] = Running] = cstack
  BY <1>1 DEF Running
<1>3. Flat([cstack EXCEPT ![Depth] = Running]) = Control
  BY <1>2 DEF Flat, Control, Depth
<1> QED BY <1>1, <1>3, FlatLoop, WaitsType
----------------------------------------------------------------------------
(* The steps of CallDiscipline.                                            *)

LEMMA LastMoved ==
  ASSUME NEW w \in Seq(Spot), NEW l \in Spot, NEW l2 \in Spot, l2.f = l.f
  PROVE  /\ Append(w, l) # << >>
         /\ Append(w, l2) = [Append(w, l) EXCEPT ![Len(Append(w, l))] = [@ EXCEPT !.pc = l2.pc]]
<1> DEFINE s == Append(w, l)  n == Len(w) + 1  t == [s EXCEPT ![n] = [s[n] EXCEPT !.pc = l2.pc]]
<1>1. /\ Len(w) \in Nat /\ Len(s) = n /\ s \in Seq(Spot) /\ s[n] = l
      /\ Append(w, l2) \in Seq(Spot) /\ Len(Append(w, l2)) = n /\ Append(w, l2)[n] = l2
      /\ \A i \in 1 .. Len(w) : s[i] = w[i] /\ Append(w, l2)[i] = w[i]
  BY AppendProperties, LenProperties
<1>2. [l EXCEPT !.pc = l2.pc] = l2
  BY DEF Spot
<1>3. n \in 1 .. n /\ \A i \in 1 .. n : i = n \/ i \in 1 .. Len(w)
  BY <1>1
<1> HIDE DEF s, n
<1>4. t \in Seq(Spot) /\ Len(t) = n /\ t[n] = l2 /\ \A i \in 1 .. n : i # n => t[i] = s[i]
  BY <1>1, <1>2, <1>3, ExceptSeq
<1>5. \A i \in 1 .. n : t[i] = Append(w, l2)[i]
  BY <1>1, <1>3, <1>4
<1>6. t = Append(w, l2)
  <2> HIDE DEF t
  <2> QED BY <1>1, <1>4, <1>5, SeqEqual
<1>7. s # << >>
  BY <1>1, EmptySeq DEF n
<1> QED BY <1>1, <1>6, <1>7 DEF s

LEMMA CDMoves ==
  ASSUME NEW w \in Seq(Spot), NEW l \in Spot, NEW l2 \in Spot, l2.f = l.f, l2.pc \in Pcs,
         Control = Append(w, l), Control' = Append(w, l2), err' = err
  PROVE  CD!CDNext
<1>1. Control # << >> /\ Append(w, l2) = CD!Moved(l2.pc)
  BY LastMoved DEF CD!Moved
<1>2. (err # "None")' = (err # "None")
  OBVIOUS
<1>3. CD!Move
  BY <1>1, <1>2 DEF CD!Move
<1> QED BY <1>3 DEF CD!CDNext

LEMMA CDOpens ==
  ASSUME NEW w \in Seq(Spot), NEW l \in Spot, NEW l2 \in Spot, l2.f = l.f, l2.pc \in Pcs,
         NEW f \in Func, Control = Append(w, l), Control' = Append(Append(w, l2), Entry(f)),
         err' = err
  PROVE  CD!CDNext
<1>1. Control # << >> /\ Append(w, l2) = CD!Moved(l2.pc)
  BY LastMoved DEF CD!Moved
<1>2. Control' = Append(CD!Moved(l2.pc), CD!Entered(f))
  BY <1>1 DEF CD!Entered, Entry
<1>3. (err # "None")' = (err # "None")
  OBVIOUS
<1>4. CD!Open
  BY <1>1, <1>2, <1>3 DEF CD!Open
<1> QED BY <1>4 DEF CD!CDNext

LEMMA CDReturns ==
  ASSUME NEW w \in Seq(Spot), NEW l \in Spot, Control = Append(w, l), Control' = w, err' = err
  PROVE  CD!CDNext
<1>1. Control # << >> /\ SubSeq(Control, 1, Len(Control) - 1) = w
  <2>1. /\ Control \in Seq(Spot) /\ Len(Control) = Len(w) + 1 /\ Len(w) \in Nat
        /\ \A i \in 1 .. Len(w) : Control[i] = w[i]
    BY AppendProperties, LenProperties
  <2>2. Len(Control) - 1 = Len(w) /\ Len(Control) > 0
    BY <2>1
  <2>3. /\ SubSeq(Control, 1, Len(w)) \in Seq(Spot) /\ Len(SubSeq(Control, 1, Len(w))) = Len(w)
        /\ \A i \in 1 .. Len(w) : SubSeq(Control, 1, Len(w))[i] = w[i]
    <3> DEFINE s == Control
    <3>1. s \in Seq(Spot) /\ Len(s) > 0 /\ Len(s) - 1 = Len(w) /\ \A i \in 1 .. Len(w) : s[i] = w[i]
      BY <2>1, <2>2
    <3> HIDE DEF s
    <3>2. /\ SubSeq(s, 1, Len(s) - 1) \in Seq(Spot) /\ Len(SubSeq(s, 1, Len(s) - 1)) = Len(s) - 1
          /\ \A i \in 1 .. Len(s) - 1 : SubSeq(s, 1, Len(s) - 1)[i] = s[i]
      BY <3>1, Beneath
    <3>3. /\ SubSeq(s, 1, Len(w)) \in Seq(Spot) /\ Len(SubSeq(s, 1, Len(w))) = Len(w)
          /\ \A i \in 1 .. Len(w) : SubSeq(s, 1, Len(w))[i] = w[i]
      BY <3>1, <3>2
    <3> QED BY <3>3 DEF s
  <2>4. SubSeq(Control, 1, Len(w)) = w
    BY <2>3, SeqEqual
  <2>5. Control # << >>
    BY <2>1, EmptySeq
  <2> QED BY <2>2, <2>4, <2>5
<1>2. (err # "None")' = (err # "None")
  OBVIOUS
<1>3. CD!Return
  BY <1>1, <1>2 DEF CD!Return
<1> QED BY <1>3 DEF CD!CDNext

LEMMA CDAbandons ==
  ASSUME NEW a \in Seq(Spot), NEW b \in Seq(Spot), Control = a \o b, Control' = a, err' # "None"
  PROVE  CD!CDNext
<1>1. Len(a) \in 0 .. Len(Control) /\ SubSeq(Control, 1, Len(a)) = a
  <2>1. /\ Control \in Seq(Spot) /\ Len(a) \in Nat /\ Len(b) \in Nat
        /\ Len(Control) = Len(a) + Len(b)
        /\ \A i \in 1 .. Len(a) : Control[i] = a[i]
    BY ConcatProperties, LenProperties
  <2>2. /\ SubSeq(Control, 1, Len(a)) \in Seq(Spot)
        /\ Len(SubSeq(Control, 1, Len(a))) = Len(a)
        /\ \A i \in 1 .. Len(a) : SubSeq(Control, 1, Len(a))[i] = Control[i]
    <3>1. \A i \in 1 .. Len(a) : Control[i] \in Spot
      BY <2>1, ElementOfSeq
    <3> QED BY <2>1, <3>1, SubSeqProperties
  <2> QED BY <2>1, <2>2, SeqEqual
<1>2. (err # "None")' = TRUE
  OBVIOUS
<1>3. CD!Abandon
  BY <1>1, <1>2 DEF CD!Abandon
<1> QED BY <1>3 DEF CD!CDNext

LEMMA CDBegins ==
  ASSUME NEW f \in Func, Control' = Append(Control, Entry(f)), err' = err
  PROVE  CD!CDNext
<1>1. (err # "None")' = (err # "None")
  OBVIOUS
<1>2. CD!Begin
  BY <1>1 DEF CD!Begin, CD!Entered, Entry
<1> QED BY <1>2 DEF CD!CDNext

\* Control does not change, or an error is raised.
LEMMA CDStays ==
  ASSUME Control \in Seq(Spot), Control' = Control, err' = err \/ err' # "None"
  PROVE  [CD!CDNext]_(CD!cdVars)
<1>1. CASE err' = err
  <2>1. (err # "None")' = (err # "None")
    BY <1>1
  <2> QED BY <2>1 DEF CD!cdVars
<1>2. CASE err' # "None"
  <2>1. << >> \in Seq(Spot) /\ Control \o << >> = Control
    BY EmptySeq, ConcatEmptySeq
  <2>2. CD!CDNext
    <3>1. PICK s \in Seq(Spot) : s = Control
      OBVIOUS
    <3> QED BY <1>2, <2>1, <3>1, CDAbandons
  <2> QED BY <2>2
<1> QED BY <1>1, <1>2
----------------------------------------------------------------------------
(* The steps of the machine.                                               *)

LEMMA ControlIs == Control = Flat(cstack) /\ Control' = Flat(cstack')
  BY DEF Control, Flat, Depth

LEMMA InPcs ==
  ASSUME NEW p \in Programs, NEW fr \in SafeFrame, fr.k = "exec", LoopOK(p, fr)
  PROVE  /\ Len(fr.stk) >= 1 /\ fr.ip.f \in Func /\ fr.ip.pc \in Pcs
         /\ \A j \in 2 .. Len(fr.stk) : CodeOf(fr.stk[j].ret).pc \in Pcs
<1>1. \A l, m : InCode(p, l, m) => l.f \in Func /\ l.pc \in Pcs
  BY DEF InCode, Pcs
<1>2. /\ Len(fr.stk) >= 1 /\ InCode(p, fr.ip, fr.tf)
      /\ \A j \in 2 .. Len(fr.stk) : InCode(p, CodeOf(fr.stk[j].ret), fr.tf)
  BY DEF LoopOK
<1> QED BY <1>1, <1>2

LEMMA LoopAfter ==
  ASSUME StackInv', Orderly', NEW d \in 1 .. Len(cstack'), cstack'[d].k = "exec"
  PROVE  code' \in Programs /\ cstack'[d] \in SafeFrame /\ LoopOK(code', cstack'[d])
<1>1. code' \in Programs /\ cstack' \in Seq(SafeFrame)
  BY DEF StackInv, TypeOK
<1>2. LoopOK(code', cstack'[d])
  BY DEF Orderly, Stacked, FramesOK
<1> QED BY <1>1, <1>2, ElementOfSeq

\* The top loop goes on in the same function.
LEMMA LoopMoved ==
  ASSUME StackInv, Depth > 0, Running.k = "exec", Len(Running.stk) >= 1,
         NEW fr \in SafeFrame, fr.k = "exec", fr.stk = Running.stk,
         fr.ip.f = Running.ip.f, fr.ip.pc \in Pcs,
         Control' = Flat([cstack EXCEPT ![Depth] = fr]), err' = err
  PROVE  CD!CDNext
<1>1. Waits(fr) = Waits(Running)
  BY DEF Waits
<1>2. /\ Control' = Append(Flat(Under) \o Waits(Running), fr.ip) /\ fr.ip \in Spot
      /\ Control = Append(Flat(Under) \o Waits(Running), Running.ip) /\ Running.ip \in Spot
      /\ Flat(Under) \o Waits(Running) \in Seq(Spot)
  BY <1>1, FlatLoop, ControlLoop
<1>3. PICK w, l : w = Flat(Under) \o Waits(Running) /\ l = Running.ip
  OBVIOUS
<1> QED BY <1>2, <1>3, CDMoves

LEMMA ResumeStep ==
  ASSUME StackInv, StackInv', Orderly, Orderly', Executing, NEW ip, NEW sp,
         Resume(ip, sp, Running.stk), ip.f = Running.ip.f, err' = err
  PROVE  CD!CDNext
<1> DEFINE fr == [Running EXCEPT !.ip = ip, !.sp = sp, !.stk = Running.stk]
<1>1. /\ Depth > 0 /\ Running.k = "exec" /\ Len(Running.stk) >= 1 /\ Running \in ExecFrame
      /\ Depth \in 1 .. Len(cstack)
  BY TopLoop, ExecType, RunningFrame DEF Executing, LoopOK
<1>2. fr.k = "exec" /\ fr.ip = ip /\ fr.stk = Running.stk
  BY <1>1 DEF ExecFrame
<1>3. cstack' = [cstack EXCEPT ![Depth] = fr]
  BY DEF Resume, Running
<1> HIDE DEF fr
<1>4. Depth \in 1 .. Len(cstack') /\ cstack'[Depth] = fr
  <2>1. cstack' \in Seq(SafeFrame) /\ cstack \in Seq(SafeFrame)
    BY CodeType DEF StackInv
  <2>2. DOMAIN cstack' = DOMAIN cstack /\ cstack'[Depth] = fr
    BY <1>1, <1>3, <2>1, LenProperties
  <2> QED BY <1>1, <2>1, <2>2, LenProperties
<1>5. fr \in SafeFrame /\ fr.ip.pc \in Pcs
  BY <1>2, <1>4, LoopAfter, InPcs
<1>6. Control' = Flat([cstack EXCEPT ![Depth] = fr])
  BY <1>3, ControlIs
<1> QED BY <1>1, <1>2, <1>5, <1>6, LoopMoved

\* The instructions that stay in their function.
LEMMA StepsOn ==
  ASSUME StackInv, err = "None", err' = "None",
         Alloc \/ Enter \/ Redux \/ SaveLr \/ LoadLr \/ DataOp
  PROVE  Executing /\ \E ip, sp : Resume(ip, sp, Running.stk) /\ ip.f = Running.ip.f
<1>1. \A op \in Op : At(op) => Executing
  BY InstructionType
<1>2. Executing => Running.ip \in Loc
  BY ExecRunning DEF Executing
<1>3. Executing => NextIp.f = Running.ip.f /\ \A b : [NextIp EXCEPT !.pc = @ + b].f = Running.ip.f
  BY <1>2 DEF NextIp, Loc
<1>4. CASE Alloc \/ Enter \/ Redux \/ SaveLr \/ LoadLr
  BY <1>1, <1>3, <1>4 DEF Alloc, Enter, Redux, SaveLr, LoadLr, Advance, Fail, Op
<1>5. CASE Move \/ Compute \/ Convert
  BY <1>1, <1>3, <1>5 DEF Move, Compute, Convert, Advance, Op
<1>6. CASE Load \/ Store
  BY <1>1, <1>3, <1>6 DEF Load, Store, Advance, Fail, Op
<1>7. CASE Compare
  BY <1>1, <1>3, <1>7 DEF Compare, Advance, Op
<1>8. CASE Jump
  <2>1. Executing
    BY <1>1, <1>8 DEF Jump, Op
  <2>2. \E b, sp : Resume([NextIp EXCEPT !.pc = @ + b], sp, Running.stk)
    BY <1>8 DEF Jump
  <2> QED BY <1>3, <2>1, <2>2
<1> QED BY <1>4, <1>5, <1>6, <1>7, <1>8 DEF DataOp

\* An instruction that raises an error ends its loop.
LEMMA ErrorHalts ==
  ASSUME StackInv, err = "None", err' # "None", FrameOp \/ DataOp \/ Call \/ Callr
  PROVE  Executing /\ cstack' = Under
<1>1. \A op \in Op : At(op) => Executing
  BY InstructionType
<1>2. CASE FrameOp
  BY <1>1, <1>2 DEF FrameOp, Alloc, Enter, Redux, SaveLr, LoadLr, Ret, Remit, Restore, Leave, HaltOp,
                   Fail, Halt, Op
<1>3. CASE DataOp
  BY <1>1, <1>3 DEF DataOp, Move, Compute, Convert, Load, Store, Compare, Jump, Fail, Halt, Op
<1>4. CASE Call
  BY <1>1, <1>4 DEF Call, CallFails, Fail, Halt, FlagsAsError, EnterNative, EnterExtern, Branch, Op
<1>5. CASE Callr
  BY <1>1, <1>5 DEF Callr, CallFails, Fail, Halt, EnterNative, EnterExtern, Branch, Op
<1> QED BY <1>2, <1>3, <1>4, <1>5

LEMMA ErrorStep ==
  ASSUME StackInv, Orderly, Executing, cstack' = Under, err' # "None"
  PROVE  CD!CDNext
<1>1. Depth > 0 /\ Running.k = "exec" /\ Len(Running.stk) >= 1
  BY TopLoop DEF Executing, LoopOK
<1>2. /\ Flat(Under) \in Seq(Spot) /\ Waits(Running) \in Seq(Spot) /\ Running.ip \in Spot
      /\ Control = Append(Flat(Under) \o Waits(Running), Running.ip)
      /\ Control' = Flat(Under)
  BY <1>1, ControlLoop, ControlIs
<1>3. PICK a, w, l : a = Flat(Under) /\ w = Waits(Running) /\ l = Running.ip
  OBVIOUS
<1>4. Control = a \o Append(w, l) /\ Append(w, l) \in Seq(Spot)
  BY <1>2, <1>3, ConcatAppend, AppendProperties
<1>5. PICK b \in Seq(Spot) : b = Append(w, l)
  BY <1>4
<1> QED BY <1>2, <1>3, <1>4, <1>5, CDAbandons

\* The loop ends with its first function.
LEMMA HaltsStep ==
  ASSUME StackInv, Orderly, Executing, Len(Running.stk) = 1, cstack' = Under, err' = err
  PROVE  CD!CDNext
<1>1. /\ Flat(Under) \in Seq(Spot) /\ Waits(Running) \in Seq(Spot) /\ Running.ip \in Spot
      /\ Control = Append(Flat(Under) \o Waits(Running), Running.ip)
      /\ Control' = Flat(Under)
  BY ControlLoop, ControlIs DEF Executing
<1>2. Flat(Under) \o Waits(Running) = Flat(Under)
  <2>1. Len(Waits(Running)) = 0
    <3>1. Running \in SafeFrame /\ Running.k = "exec" /\ Len(Running.stk) >= 1
      BY RunningFrame DEF Executing
    <3>2. Len(Waits(Running)) = Len(Running.stk) - 1
      BY <3>1, WaitsType
    <3> QED BY <3>2
  <2> QED BY <1>1, <2>1, EmptySeq, ConcatEmptySeq
<1>3. PICK w, l : w = Flat(Under) /\ l = Running.ip
  OBVIOUS
<1> QED BY <1>1, <1>2, <1>3, CDReturns

\* The innermost function of the loop returns to the one that called it.
LEMMA ClosesStep ==
  ASSUME StackInv, StackInv', Orderly, Orderly', Executing, NEW sp,
         Len(Running.stk) \in 2 .. Len(Running.stk),
         Resume(CodeOf(Inner(Running).ret), sp, SubSeq(Running.stk, 1, Len(Running.stk) - 1)), err' = err
  PROVE  CD!CDNext
<1> DEFINE stk == SubSeq(Running.stk, 1, Len(Running.stk) - 1)
           ip  == CodeOf(Inner(Running).ret)
           fr  == [Running EXCEPT !.ip = ip, !.sp = sp, !.stk = stk]
<1>1. /\ Depth > 0 /\ Running.k = "exec" /\ Running \in ExecFrame /\ Running \in SafeFrame
      /\ Depth \in 1 .. Len(cstack) /\ Running.stk \in Seq(Opened) /\ Len(Running.stk) \in Nat
      /\ Len(Running.stk) >= 2
  BY ExecType, RunningFrame DEF Executing
<1>2. /\ stk \in Seq(Opened) /\ Len(stk) = Len(Running.stk) - 1
      /\ \A i \in 1 .. Len(Running.stk) - 1 : stk[i] = Running.stk[i]
  BY <1>1, Beneath
<1> HIDE DEF stk, ip
<1>3. fr.k = "exec" /\ fr.ip = ip /\ fr.stk = stk
  BY <1>1 DEF ExecFrame
<1>4. cstack' = [cstack EXCEPT ![Depth] = fr]
  BY DEF Resume, Running, stk, ip
<1> HIDE DEF fr
<1>5. cstack'[Depth] = fr /\ fr \in SafeFrame /\ Depth \in 1 .. Len(cstack')
  <2>1. cstack' \in Seq(SafeFrame) /\ cstack \in Seq(SafeFrame)
    BY CodeType DEF StackInv
  <2>2. DOMAIN cstack' = DOMAIN cstack /\ cstack'[Depth] = fr
    BY <1>1, <1>4, <2>1, LenProperties
  <2> QED BY <1>1, <2>1, <2>2, LenProperties, ElementOfSeq
<1>6. /\ Control' = Append(Flat(Under) \o Waits(fr), ip)
      /\ Control = Append(Flat(Under) \o Waits(Running), Running.ip)
      /\ Flat(Under) \in Seq(Spot) /\ Waits(fr) \in Seq(Spot) /\ Waits(Running) \in Seq(Spot)
      /\ Len(Waits(fr)) = Len(Running.stk) - 2 /\ Len(Waits(Running)) = Len(Running.stk) - 1
      /\ ip \in Spot /\ Running.ip \in Spot
      /\ Flat(Under) \o Waits(Running) \in Seq(Spot)
  <2>1. Len(fr.stk) >= 1 /\ Len(fr.stk) - 1 = Len(Running.stk) - 2
    BY <1>1, <1>2, <1>3
  <2>2. Control' = Flat([cstack EXCEPT ![Depth] = fr])
    BY <1>4, ControlIs
  <2>3. /\ Flat([cstack EXCEPT ![Depth] = fr]) = Append(Flat(Under) \o Waits(fr), fr.ip)
        /\ fr.ip \in Spot
    BY <1>1, <1>3, <1>5, <2>1, FlatLoop
  <2>4. Waits(fr) \in Seq(Spot) /\ Len(Waits(fr)) = Len(fr.stk) - 1
    BY <1>3, <1>1, <1>5, <2>1, WaitsType
  <2>5. Waits(Running) \in Seq(Spot) /\ Len(Waits(Running)) = Len(Running.stk) - 1
    BY <1>1, WaitsType
  <2>6. /\ Control = Append(Flat(Under) \o Waits(Running), Running.ip)
        /\ Flat(Under) \in Seq(Spot) /\ Running.ip \in Spot
        /\ Flat(Under) \o Waits(Running) \in Seq(Spot)
    BY <1>1, ControlLoop
  <2> QED BY <1>3, <2>1, <2>2, <2>3, <2>4, <2>5, <2>6
<1>7. Append(Waits(fr), ip) = Waits(Running)
  <2> DEFINE n == Len(Running.stk) - 1  s == Append(Waits(fr), ip)
  <2>1. n \in Nat /\ n >= 1 /\ Len(Waits(fr)) = n - 1 /\ Len(Waits(Running)) = n /\ n + 1 = Len(Running.stk)
    BY <1>1, <1>6
  <2>2. ip = CodeOf(Running.stk[n + 1].ret)
    BY <2>1 DEF ip, Inner
  <2>3. \A i \in 1 .. n - 1 : Waits(fr)[i] = CodeOf(Running.stk[i + 1].ret)
    <3> TAKE i \in 1 .. n - 1
    <3>1. Len(fr.stk) - 1 = n - 1 /\ Len(fr.stk) >= 1
      BY <1>1, <1>2, <1>3
    <3>2. Waits(fr)[i] = CodeOf(fr.stk[i + 1].ret)
      BY <1>3, <1>5, <3>1, WaitsType
    <3>3. i + 1 \in 1 .. n
      BY <2>1
    <3>4. fr.stk[i + 1] = Running.stk[i + 1]
      BY <1>2, <1>3, <3>3
    <3> QED BY <3>2, <3>4
  <2>4. \A i \in 1 .. n : Waits(Running)[i] = CodeOf(Running.stk[i + 1].ret)
    BY <1>1, WaitsType
  <2> HIDE DEF n
  <2>5. s \in Seq(Spot) /\ Len(s) = n /\ s[n] = ip /\ \A i \in 1 .. n - 1 : s[i] = Waits(fr)[i]
    BY <1>6, <2>1, AppendProperties
  <2> HIDE DEF s
  <2>6. \A i \in 1 .. n : s[i] = Waits(Running)[i]
    <3> TAKE i \in 1 .. n
    <3>1. i = n \/ i \in 1 .. n - 1
      BY <2>1
    <3> QED BY <2>2, <2>3, <2>4, <2>5, <3>1
  <2> QED BY <1>6, <2>1, <2>5, <2>6, SeqEqual DEF s
<1>8. Control' = Flat(Under) \o Waits(Running)
  <2>1. Flat(Under) \o Append(Waits(fr), ip) = Append(Flat(Under) \o Waits(fr), ip)
    BY <1>6, ConcatAppend
  <2> QED BY <1>6, <1>7, <2>1
<1>9. PICK w, l : w = Flat(Under) \o Waits(Running) /\ l = Running.ip
  OBVIOUS
<1> QED BY <1>6, <1>8, <1>9, CDReturns

LEMMA ReturnsStep ==
  ASSUME StackInv, StackInv', Orderly, Orderly', HaltsOutermost, err' = err,
         Ret \/ Remit \/ Restore \/ Leave \/ HaltOp
  PROVE  CD!CDNext
<1>1. \A op \in Op : At(op) => Executing
  BY InstructionType
<1>2. CASE HaltOp
  <2>1. Executing /\ Len(Running.stk) = 1 /\ cstack' = Under
    BY <1>1, <1>2 DEF HaltOp, HaltsOutermost, Halt, Op
  <2> QED BY <2>1, HaltsStep
<1>3. CASE Ret \/ Remit \/ Restore \/ Leave
  <2>1. Executing /\ \E sp : ReturnVia(Inner(Running).ret, sp)
    BY <1>1, <1>3, ReturnsRight DEF Ret, Remit, Restore, Leave, PopLr, Op
  <2>2. PICK sp : ReturnVia(Inner(Running).ret, sp)
    BY <2>1
  <2>3. /\ LoopOK(code, Running) /\ Len(Running.stk) \in Nat /\ Len(Running.stk) >= 1
        /\ \A n \in Nat : n >= 1 => n = 1 \/ n \in 2 .. n
    BY <2>1, TopLoop, ExecType DEF Executing, LoopOK
  <2>4. CASE Inner(Running).ret.k = "nil"
    <3>1. Len(Running.stk) \notin 2 .. Len(Running.stk)
      BY <2>3, <2>4 DEF LoopOK, Inner
    <3>2. Len(Running.stk) = 1
      BY <2>3, <3>1
    <3>3. cstack' = Under
      BY <2>2, <2>4 DEF ReturnVia, Halt
    <3> QED BY <2>1, <3>2, <3>3, HaltsStep
  <2>5. CASE Inner(Running).ret.k # "nil"
    <3>1. Inner(Running).ret # NilV
      BY <2>5 DEF NilV
    <3>2. Len(Running.stk) # 1
      BY <2>3, <3>1 DEF LoopOK, Inner
    <3>3. Len(Running.stk) \in 2 .. Len(Running.stk)
      BY <2>3, <3>2
    <3>4. Resume(CodeOf(Inner(Running).ret), sp, SubSeq(Running.stk, 1, Len(Running.stk) - 1))
      BY <2>2, <2>5 DEF ReturnVia
    <3> QED BY <2>1, <3>3, <3>4, ClosesStep
  <2> QED BY <2>4, <2>5
<1> QED BY <1>2, <1>3

\* A call opens a function: in the loop, or in a nested one.
LEMMA OpensStep ==
  ASSUME StackInv, Orderly, Executing, NextIp.pc \in Pcs, NEW f \in Func, err' = err,
         Control' = Append(Append(Flat(Under) \o Waits(Running), NextIp), Entry(f))
  PROVE  CD!CDNext
<1>1. /\ Depth > 0 /\ Running.k = "exec" /\ Len(Running.stk) >= 1
      /\ Running.ip \in Loc /\ NextIp \in Loc
  BY TopLoop, InnerType DEF Executing, LoopOK
<1>2. NextIp \in Spot /\ NextIp.f = Running.ip.f
  BY <1>1 DEF NextIp, Loc, Spot
<1>3. /\ Control = Append(Flat(Under) \o Waits(Running), Running.ip) /\ Running.ip \in Spot
      /\ Flat(Under) \o Waits(Running) \in Seq(Spot)
  BY <1>1, ControlLoop
<1>4. PICK w, l, l2 : w = Flat(Under) \o Waits(Running) /\ l = Running.ip /\ l2 = NextIp
  OBVIOUS
<1> QED BY <1>2, <1>3, <1>4, CDOpens

LEMMA BranchOpens ==
  ASSUME StackInv, StackInv', Orderly, Orderly', Executing, NEW it, it.item \in Func,
         Branch(it), err' = err
  PROVE  CD!CDNext
<1> DEFINE o   == Open(CodeV(NextIp), Running.sp, csp)
           stk == Append(Running.stk, o)
           fr  == [Running EXCEPT !.ip = Entry(it.item), !.sp = Running.sp, !.stk = stk]
<1>1. /\ Depth > 0 /\ Running.k = "exec" /\ Running \in ExecFrame /\ Running \in SafeFrame
      /\ Depth \in 1 .. Len(cstack) /\ Running.stk \in Seq(Opened) /\ Len(Running.stk) \in Nat
      /\ Len(Running.stk) >= 1 /\ NextIp \in Loc /\ Running.sp \in Int /\ csp \in Int
  BY TopLoop, ExecType, InnerType, RunningFrame DEF Executing, LoopOK, StackInv, TypeOK
<1>2. o \in Opened /\ o.ret.k = "code" /\ CodeOf(o.ret) = NextIp
  <2>1. CodeV(NextIp) \in Val
    BY <1>1 DEF CodeV, Loc, Val
  <2> QED BY <1>1, <2>1 DEF Open, Opened, CodeV, CodeOf, Loc
<1> HIDE DEF o
<1>3. /\ stk \in Seq(Opened) /\ Len(stk) = Len(Running.stk) + 1 /\ stk[Len(Running.stk) + 1] = o
      /\ \A i \in 1 .. Len(Running.stk) : stk[i] = Running.stk[i]
  BY <1>1, <1>2, AppendProperties
<1> HIDE DEF stk
<1>4. fr.k = "exec" /\ fr.ip = Entry(it.item) /\ fr.stk = stk
  BY <1>1 DEF ExecFrame
<1>5. cstack' = [cstack EXCEPT ![Depth] = fr]
  BY DEF Branch, Resume, Running, stk, o
<1> HIDE DEF fr
<1>6. cstack'[Depth] = fr /\ fr \in SafeFrame /\ Depth \in 1 .. Len(cstack')
  <2>1. cstack' \in Seq(SafeFrame) /\ cstack \in Seq(SafeFrame)
    BY CodeType DEF StackInv
  <2>2. DOMAIN cstack' = DOMAIN cstack /\ cstack'[Depth] = fr
    BY <1>1, <1>5, <2>1, LenProperties
  <2> QED BY <1>1, <2>1, <2>2, LenProperties, ElementOfSeq
<1>7. NextIp.pc \in Pcs
  <2>1. /\ \A j \in 2 .. Len(stk) : CodeOf(stk[j].ret).pc \in Pcs
    BY <1>4, <1>6, LoopAfter, InPcs
  <2>2. Len(Running.stk) + 1 \in 2 .. Len(stk)
    BY <1>1, <1>3
  <2> QED BY <1>2, <1>3, <2>1, <2>2
<1>8. Waits(fr) = Append(Waits(Running), NextIp)
  <2> DEFINE n == Len(Running.stk)  s == Append(Waits(Running), NextIp)
  <2>1. n \in Nat /\ n >= 1 /\ Len(stk) - 1 = n /\ Len(stk) >= 1
    BY <1>1, <1>3
  <2>2. /\ Waits(fr) \in Seq(Spot) /\ Len(Waits(fr)) = n
        /\ \A i \in 1 .. n : Waits(fr)[i] = CodeOf(stk[i + 1].ret)
    BY <1>4, <1>6, <2>1, WaitsType
  <2>3. /\ Waits(Running) \in Seq(Spot) /\ Len(Waits(Running)) = n - 1
        /\ \A i \in 1 .. n - 1 : Waits(Running)[i] = CodeOf(Running.stk[i + 1].ret)
    BY <1>1, WaitsType
  <2>4. NextIp \in Spot
    BY <1>1 DEF Loc, Spot
  <2>5. stk[n + 1] = o /\ \A i \in 1 .. n - 1 : stk[i + 1] = Running.stk[i + 1]
    <3>1. \A i \in 1 .. n - 1 : i + 1 \in 1 .. n
      BY <2>1
    <3> QED BY <1>3, <3>1
  <2> HIDE DEF n
  <2>6. s \in Seq(Spot) /\ Len(s) = n /\ s[n] = NextIp /\ \A i \in 1 .. n - 1 : s[i] = Waits(Running)[i]
    BY <2>1, <2>3, <2>4, AppendProperties
  <2> HIDE DEF s
  <2>7. \A i \in 1 .. n : s[i] = Waits(fr)[i]
    <3> TAKE i \in 1 .. n
    <3>1. i = n \/ i \in 1 .. n - 1
      BY <2>1
    <3> QED BY <1>2, <2>2, <2>3, <2>5, <2>6, <3>1
  <2> QED BY <2>2, <2>6, <2>7, SeqEqual DEF s
<1>9. Control' = Append(Append(Flat(Under) \o Waits(Running), NextIp), Entry(it.item))
  <2>1. Len(fr.stk) >= 1
    BY <1>1, <1>3, <1>4
  <2>2. Control' = Append(Flat(Under) \o Waits(fr), fr.ip)
    BY <1>1, <1>4, <1>5, <1>6, <2>1, FlatLoop, ControlIs
  <2>3. Flat(Under) \o Append(Waits(Running), NextIp) = Append(Flat(Under) \o Waits(Running), NextIp)
    <3>1. Flat(Under) \in Seq(Spot) /\ Waits(Running) \in Seq(Spot)
      BY <1>1, ControlLoop
    <3>2. NextIp \in Spot
      BY <1>1 DEF Loc, Spot
    <3> QED BY <3>1, <3>2, ConcatAppend
  <2> QED BY <1>4, <1>8, <2>2, <2>3
<1> QED BY <1>7, <1>9, OpensStep

\* The caller as it waits for a nested loop or a native.
LEMMA CallerWaits ==
  ASSUME StackInv, StackInv', Orderly, Orderly', Executing, NEW w \in {"extern", "native"},
         NEW fr \in SafeFrame,
         cstack' = Append([cstack EXCEPT ![Depth] = [@ EXCEPT !.ip = NextIp, !.wait = w]], fr)
  PROVE  /\ NextIp.pc \in Pcs
         /\ Control' = Append(Flat(Under) \o Waits(Running), NextIp) \o Places(fr)
<1> DEFINE go == [Running EXCEPT !.ip = NextIp, !.wait = w]
<1>1. /\ Depth > 0 /\ Running.k = "exec" /\ Running \in ExecFrame /\ Running \in SafeFrame
      /\ Depth \in 1 .. Len(cstack) /\ Len(Running.stk) >= 1 /\ NextIp \in Loc
  BY TopLoop, ExecType, InnerType, RunningFrame DEF Executing, LoopOK
<1>2. /\ go.k = "exec" /\ go.ip = NextIp /\ go.stk = Running.stk /\ go \in SafeFrame
  BY <1>1 DEF ExecFrame, SafeFrame, Frame, Wait
<1>3. cstack' = Append([cstack EXCEPT ![Depth] = go], fr)
  BY DEF Running
<1> HIDE DEF go
<1>4. /\ [cstack EXCEPT ![Depth] = go] \in Seq(SafeFrame)
      /\ Flat([cstack EXCEPT ![Depth] = go]) = Append(Flat(Under) \o Waits(Running), NextIp)
  <2>1. Waits(go) = Waits(Running)
    BY <1>2 DEF Waits
  <2> QED BY <1>1, <1>2, <2>1, FlatLoop
<1>5. Control' = Append(Flat(Under) \o Waits(Running), NextIp) \o Places(fr)
  BY <1>3, <1>4, FlatAppend, ControlIs
<1>6. Depth \in 1 .. Len(cstack') /\ cstack'[Depth] = go
  <2>1. cstack \in Seq(SafeFrame)
    BY CodeType
  <2>2. /\ Len([cstack EXCEPT ![Depth] = go]) = Len(cstack) /\ [cstack EXCEPT ![Depth] = go][Depth] = go
        /\ Len(cstack) \in Nat
    BY <1>1, <1>2, <2>1, ExceptSeq, LenProperties
  <2> QED BY <1>1, <1>3, <1>4, <2>2, AppendProperties
<1>7. NextIp.pc \in Pcs
  BY <1>2, <1>6, LoopAfter, InPcs
<1> QED BY <1>5, <1>7

LEMMA BegunPlaces ==
  ASSUME NEW f \in Func, NEW m \in Mod, NEW sp \in Int, sp >= OpBase, NEW c \in Int
  PROVE  Begun(f, m, sp, c) \in SafeFrame /\ Places(Begun(f, m, sp, c)) = <<Entry(f)>>
<1> DEFINE o == Open(NilV, sp, c)  stk == <<o>>  fr == Begun(f, m, sp, c)
<1>1. o \in Opened
  BY Values DEF Open, Opened
<1> HIDE DEF o
<1>2. stk \in Seq(Opened) /\ Len(stk) = 1
  BY <1>1
<1> HIDE DEF stk
<1>3. Entry(f) \in Loc /\ "no" \in Wait
  BY DEF Entry, Loc, Wait
<1>4. fr = [k |-> "exec", ip |-> Entry(f), sp |-> sp, tf |-> m, wait |-> "no", stk |-> stk]
  BY DEF Begun, stk, o
<1>5. fr \in SafeFrame /\ fr.k = "exec" /\ fr.ip = Entry(f) /\ Len(fr.stk) = 1
  BY <1>2, <1>3, <1>4 DEF ExecFrame, SafeFrame, Frame
<1> HIDE DEF fr
<1>6. Places(fr) = Append(Waits(fr), Entry(f)) /\ Waits(fr) \in Seq(Spot) /\ Len(Waits(fr)) = 0
  <2>1. Len(fr.stk) >= 1 /\ Len(fr.stk) - 1 = 0
    BY <1>5
  <2> QED BY <1>5, <2>1, PlacesLoop, WaitsType
<1>7. Waits(fr) = << >>
  BY <1>6, EmptySeq
<1> QED BY <1>5, <1>6, <1>7 DEF fr

LEMMA EnterExternOpens ==
  ASSUME StackInv, StackInv', Orderly, Orderly', Executing, NEW it, it.item \in Func,
         it.owner \in Mod, EnterExtern(it), err' = err
  PROVE  CD!CDNext
<1> DEFINE fr == Begun(it.item, it.owner, Running.sp, csp')
<1>1. Running.sp \in Int /\ Running.sp >= OpBase /\ csp' \in Int
  BY InnerType DEF Executing, StackInv, TypeOK
<1>2. fr \in SafeFrame /\ Places(fr) = <<Entry(it.item)>>
  BY <1>1, BegunPlaces
<1>3. cstack' = Append([cstack EXCEPT ![Depth] = [@ EXCEPT !.ip = NextIp, !.wait = "extern"]], fr)
  BY DEF EnterExtern, Begun
<1> HIDE DEF fr
<1>4. /\ NextIp.pc \in Pcs
      /\ Control' = Append(Flat(Under) \o Waits(Running), NextIp) \o <<Entry(it.item)>>
  BY <1>2, <1>3, CallerWaits
<1>5. Append(Flat(Under) \o Waits(Running), NextIp) \in Seq(Spot) /\ Entry(it.item) \in Spot
  <2>1. /\ Flat(Under) \o Waits(Running) \in Seq(Spot) /\ NextIp \in Loc
    BY ControlLoop, InnerType, TopLoop DEF Executing, LoopOK
  <2>2. NextIp \in Spot /\ Entry(it.item) \in Spot
    BY <2>1 DEF Loc, Spot, Entry
  <2> QED BY <2>1, <2>2, AppendProperties
<1>6. Control' = Append(Append(Flat(Under) \o Waits(Running), NextIp), Entry(it.item))
  BY <1>4, <1>5, AppendIsConcat
<1> QED BY <1>4, <1>6, OpensStep

LEMMA EnterNativeMoves ==
  ASSUME StackInv, StackInv', Orderly, Orderly', Executing, NEW it \in Item, it.item \in Native,
         EnterNative(it), err' = err
  PROVE  CD!CDNext
<1> DEFINE fr == [k |-> "native", fn |-> it.item,
                  arg |-> IF IsReg(1) THEN Reg(1) ELSE Data, left |-> 1]
<1>1. fr \in SafeFrame /\ Places(fr) = << >>
  BY RegType, Values DEF SafeFrame, Frame, NativeFrame, Places
<1>2. cstack' = Append([cstack EXCEPT ![Depth] = [@ EXCEPT !.ip = NextIp, !.wait = "native"]], fr)
  BY DEF EnterNative
<1> HIDE DEF fr
<1>3. /\ NextIp.pc \in Pcs
      /\ Control' = Append(Flat(Under) \o Waits(Running), NextIp) \o << >>
  BY <1>1, <1>2, CallerWaits
<1>4. /\ Control = Append(Flat(Under) \o Waits(Running), Running.ip)
      /\ Flat(Under) \o Waits(Running) \in Seq(Spot)
      /\ Running.ip \in Spot /\ NextIp \in Spot /\ NextIp.f = Running.ip.f
  <2>1. /\ Flat(Under) \o Waits(Running) \in Seq(Spot) /\ NextIp \in Loc /\ Running.ip \in Loc
        /\ Control = Append(Flat(Under) \o Waits(Running), Running.ip) /\ Running.ip \in Spot
    BY ControlLoop, InnerType, TopLoop DEF Executing, LoopOK
  <2> QED BY <2>1 DEF Loc, Spot, NextIp
<1>5. Control' = Append(Flat(Under) \o Waits(Running), NextIp)
  BY <1>3, <1>4, AppendProperties, ConcatEmptySeq
<1>6. PICK w, l, l2 : w = Flat(Under) \o Waits(Running) /\ l = Running.ip /\ l2 = NextIp
  OBVIOUS
<1> QED BY <1>3, <1>4, <1>5, <1>6, CDMoves

\* Call and Callr, as the cases of what they call.
LEMMA CallsStep ==
  ASSUME StackInv, StackInv', Orderly, Orderly', Call \/ Callr, err = "None", err' = "None"
  PROVE  CD!CDNext
<1>1. Executing /\ \E it \in Item : \/ it.item \in Native /\ EnterNative(it)
                                    \/ it.item \in Func /\ it.owner \in Mod /\ EnterExtern(it)
                                    \/ it.item \in Func /\ Branch(it)
  <2>1. CASE Call
    <3> DEFINE it == Table[Running.tf][Instruction.a]
    <3>1. At("call") /\ "call" \in Op
      BY <2>1 DEF Call, Op
    <3>2. Executing /\ Instruction.a \in DOMAIN Table[Running.tf] /\ Running.tf \in Mod
      BY <2>1, <3>1, InstructionType, InnerType DEF Call, Executing
    <3>3. it \in Item
      BY <3>2, ItemType
    <3>4. /\ it.item # NIL /\ it.owner # NIL
          /\ \/ it.native /\ EnterNative(it)
             \/ ~it.native /\ EnterExtern(it)
             \/ ~it.native /\ Branch(it)
      BY <2>1 DEF Call, CallFails, Fail, FlagsAsError
    <3>5. /\ it.native => it.item \in Native
          /\ ~it.native => it.item \in Func /\ it.owner \in Mod
      BY <3>3, <3>4 DEF Item
    <3> HIDE DEF it
    <3> QED BY <3>2, <3>3, <3>4, <3>5
  <2>2. CASE Callr
    <3> DEFINE p  == Reg(Instruction.a)
               it == Table[p.x][p.n]
    <3>1. Executing
      BY <2>2, InstructionType DEF Callr, Op
    <3>2. /\ IsItem(p)
          /\ \/ it.native /\ it.item # NIL /\ EnterNative(it)
             \/ ~it.native /\ it.owner \notin {NIL, Vm} /\ EnterExtern(it)
             \/ ~it.native /\ it.owner = Vm /\ Branch(it)
      BY <2>2 DEF Callr, CallFails, Fail
    <3>3. it \in Item
      BY <3>2, ItemType DEF IsItem
    <3>4. /\ it.native /\ it.item # NIL => it.item \in Native
          /\ ~it.native /\ it.owner # NIL => it.item \in Func /\ it.owner \in Mod
      BY <3>3, ConstAssumption DEF Item
    <3>5. Vm # NIL
      BY ConstAssumption
    <3> HIDE DEF it
    <3> QED BY <3>1, <3>2, <3>3, <3>4, <3>5
  <2> QED BY <2>1, <2>2
<1>2. PICK it \in Item : \/ it.item \in Native /\ EnterNative(it)
                         \/ it.item \in Func /\ it.owner \in Mod /\ EnterExtern(it)
                         \/ it.item \in Func /\ Branch(it)
  BY <1>1
<1> QED BY <1>1, <1>2, EnterNativeMoves, EnterExternOpens, BranchOpens

\* tagha_module_call and tagha_module_invoke.
LEMMA StartsStep ==
  ASSUME StackInv, NEW cs \in Seq(SafeFrame), NEW it \in Item, NEW n \in Nat,
         StartItem(cs, it, n), Flat(cs) = Control
  PROVE  [CD!CDNext]_(CD!cdVars)
<1>1. Control \in Seq(Spot) /\ osp \in Int /\ csp \in Int /\ tabs \in Mod
  BY FlatType DEF StackInv, TypeOK
<1>2. \A c \in Nat : [k |-> "start", cells |-> c, osp0 |-> osp, csp0 |-> csp] \in SafeFrame
  BY <1>1 DEF SafeFrame, Frame, StartFrame
<1>3. CASE cstack' = cs /\ err' # "None"
  BY <1>1, <1>3, ControlIs, CDStays
<1>4. CASE /\ it.item # NIL /\ it.native
           /\ cstack' = cs \o <<[k |-> "start", cells |-> 0, osp0 |-> osp, csp0 |-> csp],
                                [k |-> "native", fn |-> it.item, arg |-> Data, left |-> 0]>>
           /\ UNCHANGED err
  <2> DEFINE sf == [k |-> "start", cells |-> 0, osp0 |-> osp, csp0 |-> csp]
             fr == [k |-> "native", fn |-> it.item, arg |-> Data, left |-> 0]
  <2>1. sf \in SafeFrame /\ Places(sf) = << >>
    BY <1>2 DEF Places
  <2>2. fr \in SafeFrame /\ Places(fr) = << >>
    BY <1>4, Values DEF Item, SafeFrame, Frame, NativeFrame, Places
  <2>3. cstack' = cs \o <<sf, fr>>
    BY <1>4
  <2> HIDE DEF sf, fr
  <2>4. cstack' = Append(Append(cs, sf), fr) /\ Append(cs, sf) \in Seq(SafeFrame)
    BY <2>1, <2>2, <2>3, TwoMore, AppendProperties
  <2>5. Flat(Append(cs, sf)) = Control
    BY <1>1, <2>1, FlatAppend, ConcatEmptySeq
  <2>6. Control' = Control
    BY <1>1, <2>2, <2>4, <2>5, FlatAppend, ConcatEmptySeq, ControlIs
  <2> QED BY <1>1, <1>4, <2>6, CDStays
<1>5. CASE /\ it.item # NIL /\ ~it.native /\ osp - (n + 1) >= OpBase /\ osp' = osp - (n + 1)
           /\ cstack' = cs \o <<[k |-> "start", cells |-> n + 1, osp0 |-> osp, csp0 |-> csp],
                                [k |-> "exec", ip |-> Entry(it.item), sp |-> osp',
                                 tf |-> tabs, wait |-> "no", stk |-> <<Open(NilV, osp', csp)>>]>>
           /\ UNCHANGED err
  <2> DEFINE sf == [k |-> "start", cells |-> n + 1, osp0 |-> osp, csp0 |-> csp]
             fr == Begun(it.item, tabs, osp', csp)
  <2>1. sf \in SafeFrame /\ Places(sf) = << >>
    BY <1>2 DEF Places
  <2>2. it.item \in Func
    BY <1>5 DEF Item
  <2>3. fr \in SafeFrame /\ Places(fr) = <<Entry(it.item)>>
    <3>1. osp' \in Int /\ osp' >= OpBase
      BY <1>1, <1>5
    <3> QED BY <1>1, <2>2, <3>1, BegunPlaces
  <2>4. cstack' = cs \o <<sf, fr>>
    BY <1>5 DEF Begun
  <2> HIDE DEF sf, fr
  <2>5. cstack' = Append(Append(cs, sf), fr) /\ Append(cs, sf) \in Seq(SafeFrame)
    BY <2>1, <2>3, <2>4, TwoMore, AppendProperties
  <2>6. Flat(Append(cs, sf)) = Control
    BY <1>1, <2>1, FlatAppend, ConcatEmptySeq
  <2>7. Control' = Control \o <<Entry(it.item)>>
    BY <2>3, <2>5, <2>6, FlatAppend, ControlIs
  <2>8. Entry(it.item) \in Spot
    BY <2>2 DEF Entry, Spot
  <2>9. Control' = Append(Control, Entry(it.item))
    BY <1>1, <2>7, <2>8, AppendIsConcat
  <2>10. CD!CDNext
    BY <1>5, <2>2, <2>9, CDBegins
  <2> QED BY <2>10
<1> QED BY <1>3, <1>4, <1>5 DEF StartItem, Start

\* A frame that runs no bytecode has no places.
LEMMA TopWithout ==
  ASSUME StackInv, Depth > 0, Running.k # "exec"
  PROVE  Control = Flat(Under) /\ Flat(Under) \in Seq(Spot)
<1>1. cstack \in Seq(SafeFrame) /\ Places(Running) = << >>
  BY CodeType DEF Places
<1>2. Flat(cstack) = Flat(Under) \o << >> /\ Flat(Under) \in Seq(Spot)
  BY <1>1, FlatTop DEF Under, Running, Depth
<1> QED BY <1>2, ConcatEmptySeq, ControlIs

LEMMA ReturnsToC ==
  ASSUME StackInv, StackInv', [Next]_vars, ExternReturn \/ StartReturn
  PROVE  [CD!CDNext]_(CD!cdVars)
<1>1. Control \in Seq(Spot)
  BY FlatType, CodeType, ControlIs
<1>2. CASE ExternReturn
  <2>1. /\ cstack \in Seq(SafeFrame) /\ Depth \in 1 .. Len(cstack) /\ Running \in ExecFrame
    BY <1>2, CodeType, RunningFrame, ExecRunning DEF ExternReturn
  <2>2. cstack' = [cstack EXCEPT ![Depth] = [Running EXCEPT !.wait = "no", !.sp = osp]]
    BY <1>2 DEF ExternReturn, Running
  <2> DEFINE fr == [Running EXCEPT !.wait = "no", !.sp = osp]
  <2>3. fr.k = Running.k /\ fr.ip = Running.ip /\ fr.stk = Running.stk
    BY <2>1 DEF ExecFrame
  <2>4. Places(fr) = Places(Running)
    <3> HIDE DEF fr
    <3> QED BY <2>3 DEF Places
  <2>5. cstack' = [cstack EXCEPT ![Depth] = fr]
    BY <2>2
  <2> HIDE DEF fr
  <2>6. DOMAIN cstack' = DOMAIN cstack /\ \A d \in 1 .. Len(cstack) : Places(cstack'[d]) = Places(cstack[d])
    BY <2>1, <2>4, <2>5, LenProperties DEF Running
  <2>7. Len(cstack') = Len(cstack)
    BY <2>1, <2>6, LenProperties DEF StackInv
  <2>8. Control' = Control
    BY <2>6, <2>7, FlatSame, ControlIs
  <2> QED BY <1>1, <1>2, <2>8, CDStays DEF ExternReturn
<1>3. CASE StartReturn
  <2>1. Control' = Flat(Under) /\ Control = Flat(Under)
    BY <1>3, TopWithout, ControlIs DEF StartReturn
  <2> QED BY <1>1, <1>3, <2>1, CDStays DEF StartReturn
<1> QED BY <1>2, <1>3

LEMMA NativesReturn ==
  ASSUME StackInv, NativeReturn
  PROVE  [CD!CDNext]_(CD!cdVars)
<1> DEFINE caller == cstack[Depth - 1]
<1>1. Depth > 1 /\ Running.k = "native" /\ err' = err /\ Depth = Len(cstack)
  BY DEF NativeReturn, InNative, Depth
<1>2. /\ cstack \in Seq(SafeFrame) /\ Under \in Seq(SafeFrame) /\ Len(Under) = Depth - 1 /\ Depth \in Nat
      /\ \A d \in 1 .. Depth - 1 : Under[d] = cstack[d]
  BY <1>1, CodeType, Beneath DEF Under
<1>3. Control = Flat(Under) /\ Flat(Under) \in Seq(Spot)
  BY <1>1, TopWithout
<1>4. Depth - 1 \in 1 .. Len(Under) /\ Under[Depth - 1] = caller /\ caller \in SafeFrame /\ Len(Under) > 0
  BY <1>1, <1>2, ElementOfSeq
<1>5. CASE cstack' = Under
  BY <1>1, <1>3, <1>5, CDStays, ControlIs
<1>6. CASE err # "None" /\ cstack' = SubSeq(cstack, 1, Depth - 2)
  <2>1. /\ SubSeq(Under, 1, Len(Under) - 1) \in Seq(SafeFrame)
        /\ Len(SubSeq(Under, 1, Len(Under) - 1)) = Depth - 2
        /\ \A d \in 1 .. Depth - 2 : SubSeq(Under, 1, Len(Under) - 1)[d] = cstack[d]
    <3>1. /\ SubSeq(Under, 1, Len(Under) - 1) \in Seq(SafeFrame)
          /\ Len(SubSeq(Under, 1, Len(Under) - 1)) = Len(Under) - 1
          /\ \A d \in 1 .. Len(Under) - 1 : SubSeq(Under, 1, Len(Under) - 1)[d] = Under[d]
      BY <1>2, <1>4, Beneath
    <3>2. Len(Under) - 1 = Depth - 2 /\ \A d \in 1 .. Depth - 2 : d \in 1 .. Depth - 1
      BY <1>2
    <3> QED BY <1>2, <3>1, <3>2
  <2>2. /\ SubSeq(cstack, 1, Depth - 2) \in Seq(SafeFrame)
        /\ Len(SubSeq(cstack, 1, Depth - 2)) = Depth - 2
        /\ \A d \in 1 .. Depth - 2 : SubSeq(cstack, 1, Depth - 2)[d] = cstack[d]
    <3>1. Depth - 2 \in 0 .. Len(cstack) /\ \A d \in 1 .. Depth - 2 : cstack[d] \in SafeFrame
      BY <1>1, <1>2, ElementOfSeq
    <3> QED BY <1>2, <3>1, SubSeqProperties
  <2>3. SubSeq(cstack, 1, Depth - 2) = SubSeq(Under, 1, Len(Under) - 1)
    BY <2>1, <2>2, SeqEqual
  <2>4. /\ Flat(SubSeq(Under, 1, Len(Under) - 1)) \in Seq(Spot)
        /\ Flat(Under) = Flat(SubSeq(Under, 1, Len(Under) - 1)) \o Places(Under[Len(Under)])
        /\ Places(Under[Len(Under)]) \in Seq(Spot)
    BY <1>2, <1>4, FlatTop, PlacesType
  <2>5. Control' = Flat(SubSeq(Under, 1, Len(Under) - 1))
    BY <1>6, <2>3, ControlIs
  <2>6. PICK a, b : a = Flat(SubSeq(Under, 1, Len(Under) - 1)) /\ b = Places(Under[Len(Under)])
    OBVIOUS
  <2>7. CD!CDNext
    BY <1>1, <1>3, <1>6, <2>4, <2>5, <2>6, CDAbandons
  <2> QED BY <2>7
<1>7. CASE caller.k = "exec" /\ cstack' = [Under EXCEPT ![Depth - 1] = [@ EXCEPT !.wait = "no"]]
  <2> DEFINE fr == [caller EXCEPT !.wait = "no"]
  <2>1. fr.k = caller.k /\ fr.ip = caller.ip /\ fr.stk = caller.stk /\ fr \in SafeFrame
    <3>1. caller \in ExecFrame /\ caller.sp >= OpBase
      BY <1>4, <1>7, ExecType
    <3> QED BY <3>1 DEF ExecFrame, SafeFrame, Frame, Wait
  <2>2. Places(fr) = Places(caller)
    <3> HIDE DEF fr, caller
    <3> QED BY <2>1 DEF Places
  <2>3. cstack' = [Under EXCEPT ![Depth - 1] = fr]
    BY <1>4, <1>7
  <2> HIDE DEF fr, caller
  <2>4. /\ Len(cstack') = Len(Under) /\ cstack'[Depth - 1] = fr
        /\ \A d \in 1 .. Len(Under) : d # Depth - 1 => cstack'[d] = Under[d]
    BY <1>2, <1>4, <2>1, <2>3, ExceptSeq
  <2>5. \A d \in 1 .. Len(Under) : Places(cstack'[d]) = Places(Under[d])
    BY <1>4, <2>2, <2>4
  <2>6. Control' = Control
    BY <1>3, <2>4, <2>5, FlatSame, ControlIs
  <2> QED BY <1>1, <1>3, <2>6, CDStays
<1> QED BY <1>5, <1>6, <1>7 DEF NativeReturn

LEMMA NativesCall ==
  ASSUME StackInv, HostCall \/ NativeInvoke
  PROVE  [CD!CDNext]_(CD!cdVars)
<1>1. CASE HostCall
  <2>1. PICK e \in Exports : StartItem(cstack, Table[Vm][e[1]], e[2])
    BY <1>1 DEF HostCall
  <2>2. Table[Vm][e[1]] \in Item /\ e[2] \in Nat
    BY ConstAssumption, ItemType
  <2> QED BY <2>1, <2>2, CodeType, ControlIs, StartsStep
<1>2. CASE NativeInvoke
  <2> DEFINE used == [Running EXCEPT !.left = @ - 1]
             cs   == [cstack EXCEPT ![Depth] = used]
  <2>1. Running \in NativeFrame /\ Running.left > 0 /\ Depth > 0 /\ Running.k = "native"
    BY <1>2, NativeRunning DEF NativeInvoke, InNative
  <2>2. used \in SafeFrame /\ used.k = "native"
    BY <2>1 DEF NativeFrame, SafeFrame, Frame
  <2>3. Places(used) = << >>
    <3> HIDE DEF used
    <3> QED BY <2>2 DEF Places
  <2> HIDE DEF used
  <2>4. cs \in Seq(SafeFrame) /\ Flat(cs) = Flat(Under) \o << >>
    BY <2>1, <2>2, <2>3, CodeType, FlatReplaced DEF Under, Depth
  <2>5. Flat(cs) = Control
    BY <2>1, <2>4, TopWithout, ConcatEmptySeq
  <2>6. Table[Running.arg.x][Running.arg.n] \in Item
    BY <1>2, ItemType DEF NativeInvoke, IsItem
  <2>7. PICK n \in 0 .. MaxArgs : StartItem(cs, Table[Running.arg.x][Running.arg.n], n)
    BY <1>2 DEF NativeInvoke, used
  <2>8. n \in Nat
    BY ConstAssumption
  <2> QED BY <2>4, <2>5, <2>6, <2>7, <2>8, StartsStep
<1> QED BY <1>1, <1>2

LEMMA RaisesError ==
  ASSUME StackInv, NativeThrow \/ HostCallUnknown
  PROVE  [CD!CDNext]_(CD!cdVars)
<1>1. Control \in Seq(Spot)
  BY FlatType, CodeType, ControlIs
<1>2. Control' = Control
  BY ControlIs DEF NativeThrow, HostCallUnknown
<1> QED BY <1>1, <1>2, CDStays DEF NativeThrow, HostCallUnknown

LEMMA NothingHappens == ASSUME UNCHANGED vars PROVE UNCHANGED CD!cdVars
<1>1. Control' = Control /\ err' = err
  BY ControlIs DEF vars
<1>2. (err # "None")' = (err # "None")
  BY <1>1
<1> QED BY <1>1, <1>2 DEF CD!cdVars

LEMMA DisciplineStep ==
  ASSUME StackInv, StackInv', ConventionInv, ConventionInv', Promised, [Next]_vars,
         err # "None" /\ Executing => UNCHANGED vars
  PROVE  [CD!CDNext]_(CD!cdVars)
<1>1. CASE UNCHANGED vars
  BY <1>1, NothingHappens
<1>2. CASE ExternReturn \/ StartReturn
  BY <1>2, ReturnsToC
<1>3. CASE NativeReturn
  BY <1>3, NativesReturn
<1>4. CASE HostCall \/ NativeInvoke
  BY <1>4, NativesCall
<1>5. CASE NativeThrow \/ HostCallUnknown
  BY <1>5, RaisesError
<1>6. CASE FrameOp \/ DataOp \/ Call \/ Callr
  <2>1. Executing
    <3>1. \A op \in Op : At(op) => Executing
      BY InstructionType
    <3> QED BY <1>6, <3>1 DEF FrameOp, DataOp, Alloc, Enter, Redux, SaveLr, LoadLr, Ret, Remit, Restore,
                             Leave, HaltOp, Move, Compute, Convert, Load, Store, Compare, Jump, Call,
                             Callr, Op
  <2>2. CASE err # "None"
    BY <2>1, <2>2, NothingHappens
  <2>3. CASE err = "None" /\ err' # "None"
    <3>1. Orderly /\ cstack' = Under
      BY <1>6, <2>3, ErrorHalts DEF ConventionInv
    <3> QED BY <2>1, <2>3, <3>1, ErrorStep
  <2>4. CASE err = "None" /\ err' = "None"
    <3>1. Orderly /\ Orderly' /\ HaltsOutermost /\ err' = err
      BY <2>4 DEF ConventionInv, Promised
    <3>2. CASE Ret \/ Remit \/ Restore \/ Leave \/ HaltOp
      BY <3>1, <3>2, ReturnsStep
    <3>3. CASE Alloc \/ Enter \/ Redux \/ SaveLr \/ LoadLr \/ DataOp
      <4>1. PICK ip, sp : Resume(ip, sp, Running.stk) /\ ip.f = Running.ip.f
        BY <2>4, <3>3, StepsOn
      <4> QED BY <2>1, <3>1, <4>1, ResumeStep
    <3>4. CASE Call \/ Callr
      BY <2>4, <3>1, <3>4, CallsStep
    <3> QED BY <1>6, <3>2, <3>3, <3>4 DEF FrameOp
  <2> QED BY <2>2, <2>3, <2>4
<1> QED BY <1>1, <1>2, <1>3, <1>4, <1>5, <1>6 DEF Next, Machine, CallOp, NativeOp, Finished

\* Where no instruction runs after an error, a program that keeps the convention makes the
\* machine a CallDiscipline.
THEOREM DisciplineKept == Spec /\ []Promised /\ ErrorStopsScript => KeepsCallDiscipline
<1>1. Init => CD!CDInit
  <2> SUFFICES ASSUME Init PROVE CD!CDInit
    OBVIOUS
  <2>1. cstack = << >> /\ err = "None"
    BY DEF Init
  <2>2. Len([d \in 1 .. 0 |-> Places(cstack[d])]) = 0 /\ [d \in 1 .. 0 |-> Places(cstack[d])] = << >>
    BY EmptySeq
  <2>3. Control = << >>
    <3>1. Control = FlattenSeq(<< >>)
      BY <2>1, <2>2, EmptySeq DEF Control, Depth
    <3>2. FlattenSeq(<< >>) = << >>
      BY FlattenIs, EmptySeq
    <3> QED BY <3>1, <3>2
  <2> QED BY <2>1, <2>3 DEF CD!CDInit
<1>2. StackInv /\ StackInv' /\ ConventionInv /\ ConventionInv' /\ Promised /\ [Next]_vars
        /\ [err # "None" /\ Executing => UNCHANGED vars]_vars => [CD!CDNext]_(CD!cdVars)
  BY DisciplineStep, NothingHappens
<1> QED BY <1>1, <1>2, ConventionKept, Invariance, PTL
           DEF Spec, ErrorStopsScript, KeepsCallDiscipline, CD!CDSpec
=============================================================================
