-------------------------- MODULE AssemblerProofs --------------------------
(***************************************************************************)
(* Proofs about Assembler, for every source: its types, that operands,     *)
(* numbers and sizes mean in the module what they say in the source, that  *)
(* jumps reach their labels, and that the valid sources are the accepted   *)
(* ones.                                                                   *)
(***************************************************************************)
EXTENDS Assembler, FiniteSetTheorems, SequenceTheorems, WellFoundedInduction, TLAPS

IsMap(m) == m = [k \in DOMAIN m |-> m[k]]
IsList(q) == /\ Len(q) \in Nat /\ DOMAIN q = 1 .. Len(q) /\ IsMap(q)
Once(q)  == \A i, j \in DOMAIN q : i # j => q[i] # q[j]

\* The maps of the assembler: each name with a value has been inserted.
Maps ==
  /\ IsMap(kind) /\ IsMap(code) /\ IsMap(labels) /\ IsMap(data) /\ IsMap(data.bytes)
  /\ DOMAIN data = {"opstack", "callstack", "heap", "vars", "bytes"}
  /\ IsList(data.vars)

Typed == IsSource(src) /\ TypeOK /\ Maps

\* No tool has stopped.
Live == pass \in {"first", "second", "write", "done"}
\* The first pass has seen the tokens before this one.
Seen == IF pass = "first" THEN iter ELSE Len(src) + 1

Sets(i, which) == src[i].t = "size" /\ src[i].which = which
\* A size is that of the last directive for it so far, or there is none.
LastSize(which, n) ==
  \/ data[which] = 0 /\ \A i \in 1 .. n - 1 : ~Sets(i, which)
  \/ \E i \in 1 .. n - 1 : /\ Sets(i, which) /\ data[which] = src[i].num * Unit[which]
                           /\ \A j \in i + 1 .. n - 1 : ~Sets(j, which)

Declares(i, v) == src[i].t = "global" /\ src[i].name = v

\* What the first pass has collected from the first n - 1 tokens.
Collected(n) ==
  /\ \A f \in DOMAIN kind : \E j \in 1 .. n - 1 : Defines(j, f)
  /\ \A v \in DOMAIN data.bytes : \E j \in 1 .. n - 1 : Declares(j, v)
  /\ Regular =>
       /\ Once(vec) /\ Once(data.vars)
       /\ \A i \in 1 .. n - 1 : src[i].t = "global" =>
            src[i].name \in DOMAIN data.bytes /\ data.bytes[src[i].name] = src[i].bytes
       /\ \A which \in DOMAIN Unit : LastSize(which, n)

\* What an instruction says, by the token it was made from.
Means(r) ==
  /\ r.pos \in DOMAIN src
  /\ r.op \in Number => /\ src[r.pos].t = "op" /\ src[r.pos].op = r.op
                        /\ Accepted(r.op, src[r.pos].arg) /\ r.val \in Encoded(r.op, src[r.pos].arg)
  /\ r.op = "setelen" => r.val = Sizeof[src[r.pos].arg]
  /\ r.op \in {"call", "ldfn"} => /\ src[r.pos].arg \in DOMAIN kind
                                  /\ r.val = Index(src[r.pos].arg) + IF r.op = "call" THEN 1 ELSE 0
  /\ r.op = "ldvar" => /\ src[r.pos].arg \in DOMAIN data.bytes
                       /\ r.val = IndexIn(data.vars, src[r.pos].arg)

Generated ==
  /\ \A f \in DOMAIN code : IsList(code[f]) /\ \A k \in DOMAIN code[f] : Means(code[f][k])
  /\ pass = "first" => \A f \in DOMAIN code : code[f] = << >>

Written ==
  pass = "done" =>
    file = [funcs |-> [i \in 1 .. Cardinality(DOMAIN kind) |->
                         [name |-> vec[i], kind |-> kind[vec[i]], code |-> code[vec[i]]]],
            vars  |-> [i \in 1 .. Cardinality(DOMAIN data.bytes) |->
                         [name |-> data.vars[i], bytes |-> data.bytes[data.vars[i]]]]]

IInv == Typed /\ (Live => Collected(Seen) /\ Generated /\ Written)
----------------------------------------------------------------------------
(* Lists and maps.                                                         *)

LEMMA AppendList ==
  ASSUME NEW q, IsList(q), NEW e
  PROVE  /\ IsList(Append(q, e)) /\ Len(Append(q, e)) = Len(q) + 1
         /\ \A i \in DOMAIN q : Append(q, e)[i] = q[i]
         /\ Append(q, e)[Len(q) + 1] = e
         /\ ToSet(Append(q, e)) = ToSet(q) \cup {e}
<1> DEFINE S == {q[i] : i \in DOMAIN q} \cup {e}
<1>1. q \in Seq(S)
  BY DEF IsList, IsMap
<1>2. /\ Append(q, e) \in Seq(S) /\ Len(Append(q, e)) = Len(q) + 1
      /\ \A i \in 1 .. Len(q) : Append(q, e)[i] = q[i]
      /\ Append(q, e)[Len(q) + 1] = e
  BY <1>1
<1>3. IsList(Append(q, e))
  <2>1. \A s \in Seq(S) : Len(s) \in Nat /\ s \in [1 .. Len(s) -> S]
    OBVIOUS
  <2>2. Append(q, e) \in [1 .. Len(Append(q, e)) -> S]
    BY <1>2, <2>1
  <2>3. DOMAIN Append(q, e) = 1 .. Len(Append(q, e)) /\ Append(q, e) = [k \in DOMAIN Append(q, e) |-> Append(q, e)[k]]
    BY <2>2
  <2> QED BY <1>2, <2>1, <2>3 DEF IsList, IsMap
<1>4. DOMAIN Append(q, e) = DOMAIN q \cup {Len(q) + 1}
  BY <1>2, <1>3 DEF IsList
<1>5. ToSet(Append(q, e)) = ToSet(q) \cup {e}
  BY <1>2, <1>4 DEF ToSet, IsList
<1> QED BY <1>2, <1>3, <1>5 DEF IsList

LEMMA WithMap ==
  ASSUME NEW m, IsMap(m), NEW k, NEW v
  PROVE  /\ IsMap(With(m, k, v)) /\ DOMAIN With(m, k, v) = DOMAIN m \cup {k}
         /\ \A x \in DOMAIN m : With(m, k, v)[x] = m[x]
         /\ k \notin DOMAIN m => With(m, k, v)[k] = v
BY DEF With, IsMap

\* A list without repetitions has as many places as elements.
LEMMA CountOnce ==
  ASSUME NEW q, IsList(q), Once(q)
  PROVE  Cardinality(ToSet(q)) = Len(q)
<1> DEFINE b == [i \in 1 .. Len(q) |-> q[i]]
<1>1. b \in Bijection(1 .. Len(q), ToSet(q))
  BY DEF IsList, Once, ToSet, Bijection, Injection, Surjection, IsInjective
<1>2. IsFiniteSet(1 .. Len(q)) /\ Cardinality(1 .. Len(q)) = Len(q)
  <2>1. Len(q) \in Nat /\ 1 \in Int /\ Len(q) \in Int
    BY DEF IsList
  <2>2. IsFiniteSet(1 .. Len(q)) /\ Cardinality(1 .. Len(q)) = IF 1 > Len(q) THEN 0 ELSE Len(q) - 1 + 1
    BY <2>1, FS_Interval, Zenon
  <2> QED BY <2>1, <2>2
<1>3. ExistsBijection(1 .. Len(q), ToSet(q))
  BY <1>1, Zenon DEF ExistsBijection
<1>4. Cardinality(ToSet(q)) = Cardinality(1 .. Len(q))
  BY <1>2, <1>3, FS_Bijection, Zenon
<1> QED BY <1>2, <1>4

\* The place of an element in a list without repetitions, counted from 0.
LEMMA IndexOnce ==
  ASSUME NEW q, IsList(q), Once(q), NEW e \in ToSet(q)
  PROVE  IndexIn(q, e) + 1 \in DOMAIN q /\ q[IndexIn(q, e) + 1] = e
<1>1. PICK i \in 1 .. Len(q) : q[i] = e
  BY DEF ToSet, IsList
<1>2. q[i] = e /\ \A j \in 1 .. i - 1 : q[j] # e
  BY <1>1 DEF Once, IsList
<1> DEFINE P(k) == q[k] = e /\ \A j \in 1 .. k - 1 : q[j] # e
           c == CHOOSE k \in 1 .. Len(q) : P(k)
<1>3. c \in 1 .. Len(q) /\ P(c)
  BY <1>2
<1>4. IndexIn(q, e) = c - 1
  BY DEF IndexIn
<1> QED BY <1>3, <1>4 DEF IsList

\* A nonempty set of numbers has a least one.
LEMMA Least == ASSUME NEW S \in SUBSET Nat, S # {} PROVE \E k \in S : \A l \in S : k <= l
<1>1. PICK k \in S : \A l \in S : ~(<<l, k>> \in OpToRel(<, Nat))
  BY NatLessThanWellFounded, WFMin
<1>2. \A l \in S : ~(l < k)
  BY <1>1, Zenon DEF OpToRel
<1> QED BY <1>2

\* The tokens up to the next line stand behind the one at iter.
LEMMA NextLineAhead ==
  ASSUME Typed, ~AtEnd
  PROVE  /\ NextLine \in iter + 1 .. Len(src) + 1
         /\ \A k \in iter + 1 .. NextLine - 1 : ~src[k].nl
         /\ NextLine <= Len(src) => src[NextLine].nl
<1>1. iter \in 1 .. Len(src) /\ Len(src) \in Nat
  BY DEF Typed, TypeOK, IsSource, AtEnd
<1> DEFINE S == {j \in iter + 1 .. Len(src) + 1 : j = Len(src) + 1 \/ src[j].nl}
           P(j) == /\ j = Len(src) + 1 \/ src[j].nl
                   /\ \A k \in iter + 1 .. j - 1 : ~src[k].nl
<1>2. S \in SUBSET Nat /\ Len(src) + 1 \in S
  BY <1>1
<1>3. PICK j \in S : \A l \in S : j <= l
  BY <1>2, Least
<1>4. j \in iter + 1 .. Len(src) + 1 /\ P(j)
  BY <1>1, <1>3
<1> DEFINE c == CHOOSE i \in iter + 1 .. Len(src) + 1 : P(i)
<1>5. c \in iter + 1 .. Len(src) + 1 /\ P(c)
  BY <1>4
<1>6. NextLine = c
  BY DEF NextLine
<1> HIDE DEF c
<1> QED BY <1>1, <1>5, <1>6
----------------------------------------------------------------------------
(* Types.                                                                  *)

LEMMA Sizes ==
  ASSUME NEW op \in Op PROVE Bytes[op] \in Nat
BY DEF Op, Number, Bytes

LEMMA Units ==
  /\ DOMAIN Unit = {"opstack", "callstack", "heap"}
  /\ \A which \in DOMAIN Unit : Unit[which] \in Nat \ {0}
BY DEF Unit, PtrBytes

\* What a state is, apart from what it means: one lemma for each kind of step.
LEMMA InitTyped == ASSUME IsSource(src), Unread PROVE Typed
<1>1. TypeOK
  BY Units, LayoutAssumption DEF Unread, TypeOK, NoData, ToSet, IsSource, Unit
<1>2. Maps
  BY DEF Unread, Maps, IsMap, IsList, NoData
<1> QED BY <1>1, <1>2 DEF Typed

LEMMA InitSource == Init => IsSource(src) /\ Unread
BY AssemblerAssumption DEF Init

\* A new function keeps the maps of functions in order.
LEMMA AddFuncTyped ==
  ASSUME Typed, NEW f \in Name, NEW k \in {"code", "native", "extern"}, AddFunc(f, k)
  PROVE  /\ vec' \in Seq(Name) /\ DOMAIN kind' = ToSet(vec') /\ DOMAIN code' = DOMAIN kind'
         /\ \A g \in DOMAIN kind' : kind'[g] \in {"code", "native", "extern"}
         /\ IsMap(kind') /\ IsMap(code')
<1>1. vec \in Seq(Name) /\ DOMAIN kind = ToSet(vec) /\ DOMAIN code = DOMAIN kind /\ IsMap(kind) /\ IsMap(code)
  BY DEF Typed, TypeOK, Maps
<1>2. IsList(vec)
  BY <1>1 DEF IsList, IsMap
<1>3. vec' \in Seq(Name) /\ ToSet(vec') = ToSet(vec) \cup {f}
  BY <1>1, <1>2, AppendList DEF AddFunc
<1>4. /\ IsMap(kind') /\ DOMAIN kind' = DOMAIN kind \cup {f}
      /\ IsMap(code') /\ DOMAIN code' = DOMAIN code \cup {f}
  BY <1>1, WithMap DEF AddFunc
<1>5. \A g \in DOMAIN kind' : kind'[g] \in {"code", "native", "extern"}
  BY <1>4 DEF AddFunc, With, Typed, TypeOK
<1> QED BY <1>1, <1>3, <1>4, <1>5

LEMMA CollectTyped ==
  ASSUME Typed, Directive \/ FirstFunc PROVE Typed'
<1>1. PICK f \in Name, k \in {"code", "native", "extern"} : AddFunc(f, k)
  BY DEF Directive, FirstFunc, At, AtEnd, Tok, Typed, TypeOK, IsSource
<1>2. /\ vec' \in Seq(Name) /\ DOMAIN kind' = ToSet(vec') /\ DOMAIN code' = DOMAIN kind'
      /\ \A g \in DOMAIN kind' : kind'[g] \in {"code", "native", "extern"}
      /\ IsMap(kind') /\ IsMap(code')
  BY <1>1, AddFuncTyped
<1>3. iter' \in 1 .. Len(src) + 1 /\ active' \in Name \cup {NONE} /\ (active' = NONE => pc = 0)
  BY AssemblerAssumption DEF Directive, FirstFunc, At, AtEnd, Tok, Advance, Typed, TypeOK, IsSource
<1>4. UNCHANGED <<src, data, pass, pc, labels>>
  BY DEF Directive, FirstFunc
<1> QED BY <1>2, <1>3, <1>4 DEF Typed, TypeOK, Maps

LEMMA SizeTyped ==
  ASSUME Typed, SizeDirective PROVE Typed'
<1>1. /\ Tok.which \in DOMAIN Unit /\ iter' \in 1 .. Len(src) + 1
      /\ U32(Tok.num * Unit[Tok.which]) \in 0 .. UintMax - 1
  <2>1. iter \in DOMAIN src /\ Tok.t = "size" /\ Tok.num \in Nat
    BY DEF SizeDirective, At, AtEnd, Tok, Typed, TypeOK, IsSource
  <2>2. Tok.which \in DOMAIN Unit
    BY <2>1 DEF Tok, Typed, IsSource
  <2>3. Tok.num * Unit[Tok.which] \in Nat
    BY <2>1, <2>2, Units
  <2>4. iter' \in 1 .. Len(src) + 1
    BY <2>1 DEF SizeDirective, Advance, Typed, TypeOK, IsSource
  <2> QED BY <2>2, <2>3, <2>4, LayoutAssumption DEF U32
<1>2. /\ IsMap(data') /\ DOMAIN data' = DOMAIN data
      /\ data'.vars = data.vars /\ data'.bytes = data.bytes
      /\ \A which \in DOMAIN Unit : data'[which] \in 0 .. UintMax - 1
  BY <1>1, Units DEF SizeDirective, Typed, TypeOK, Maps, IsMap
<1>3. UNCHANGED <<src, pass, active, pc, vec, kind, labels, code>>
  BY DEF SizeDirective
<1> QED BY <1>1, <1>2, <1>3 DEF Typed, TypeOK, Maps

LEMMA GlobalTyped ==
  ASSUME Typed, Global PROVE Typed'
<1>1. iter' \in 1 .. Len(src) + 1
  BY DEF Global, At, AtEnd, Advance, Typed, TypeOK, IsSource
<1>2. /\ data'.vars = Append(data.vars, Tok.name)
      /\ data'.bytes = With(data.bytes, Tok.name, Tok.bytes)
      /\ \A which \in DOMAIN Unit : data'[which] = data[which]
      /\ IsMap(data') /\ DOMAIN data' = DOMAIN data
  BY Units DEF Global, Typed, Maps, IsMap
<1>3. IsList(data'.vars) /\ ToSet(data'.vars) = ToSet(data.vars) \cup {Tok.name}
  BY <1>2, AppendList DEF Typed, Maps
<1>4. IsMap(data'.bytes) /\ DOMAIN data'.bytes = DOMAIN data.bytes \cup {Tok.name}
  <2>1. IsMap(data.bytes)
    BY DEF Typed, Maps
  <2>2. /\ IsMap(With(data.bytes, Tok.name, Tok.bytes))
        /\ DOMAIN With(data.bytes, Tok.name, Tok.bytes) = DOMAIN data.bytes \cup {Tok.name}
    BY <2>1 DEF With, IsMap
  <2> QED BY <1>2, <2>2
<1>5. UNCHANGED <<src, pass, active, pc, vec, kind, labels, code>>
  BY DEF Global
<1> QED BY <1>1, <1>2, <1>3, <1>4, <1>5 DEF Typed, TypeOK, Maps

\* Steps over tokens that leave what has been collected and generated.
LEMMA SkipTyped ==
  ASSUME Typed,
         FirstOp \/ FirstLabel \/ End \/ EndFirst \/ SkipDirective \/ SkipLabel \/ SecondFunc
  PROVE  Typed'
<1>1. UNCHANGED <<src, vec, kind, code, data>>
  BY DEF FirstOp, FirstLabel, End, EndFirst, SkipDirective, SkipLabel, SecondFunc
<1>2. iter' \in 1 .. Len(src) + 1
  <2>1. iter \in 1 .. Len(src) + 1 /\ Len(src) \in Nat
    BY DEF Typed, TypeOK, IsSource
  <2>2. ~AtEnd => iter \in 1 .. Len(src) /\ NextLine \in iter + 1 .. Len(src) + 1
    BY <2>1, NextLineAhead DEF AtEnd
  <2>3. iter' = 1 \/ (~AtEnd /\ (iter' = iter + 1 \/ iter' = NextLine))
    BY DEF FirstOp, FirstLabel, End, EndFirst, SkipDirective, SkipLabel, SecondFunc, At, Advance
  <2> QED BY <2>1, <2>2, <2>3
<1>3. /\ pass' \in {"first", "second", "write", "done", "failed", "crashed"}
      /\ active' \in Name \cup {NONE} /\ pc' \in Nat /\ (active' = NONE => pc' = 0)
  <2>1. CASE FirstOp
    <3>1. Tok.op \in Op
      BY <2>1 DEF FirstOp, At, AtEnd, Tok, Typed, TypeOK, IsSource
    <3> QED BY <2>1, <3>1, Sizes DEF FirstOp, Typed, TypeOK
  <2>2. CASE SecondFunc
    <3>1. Tok.name \in Name
      BY <2>2 DEF SecondFunc, At, AtEnd, Tok, Typed, TypeOK, IsSource
    <3> QED BY <2>2, <3>1, AssemblerAssumption DEF SecondFunc, Typed, TypeOK
  <2>3. CASE FirstLabel \/ End \/ EndFirst \/ SkipDirective \/ SkipLabel
    BY <2>3 DEF FirstLabel, End, EndFirst, SkipDirective, SkipLabel, Typed, TypeOK
  <2> QED BY <2>1, <2>2, <2>3
<1>4. IsMap(labels') /\ \A k \in DOMAIN labels' : labels'[k] \in Nat
  <2>1. CASE FirstLabel
    <3>1. IsMap(labels) /\ pc \in Nat /\ \A k \in DOMAIN labels : labels[k] \in Nat
      BY DEF Typed, TypeOK, Maps
    <3>2. PICK k : labels' = With(labels, k, pc)
      BY <2>1 DEF FirstLabel
    <3>3. IsMap(labels') /\ DOMAIN labels' = DOMAIN labels \cup {k}
      BY <3>1, <3>2, WithMap
    <3> QED BY <3>1, <3>2, <3>3 DEF With
  <2>2. CASE ~FirstLabel
    BY <2>2 DEF FirstOp, End, EndFirst, SkipDirective, SkipLabel, SecondFunc, Typed, TypeOK, Maps
  <2> QED BY <2>1, <2>2
<1> QED BY <1>1, <1>2, <1>3, <1>4 DEF Typed, TypeOK, Maps

LEMMA EmitTyped ==
  ASSUME Typed, NEW op \in Op, NEW val, ~AtEnd, active # NONE, Emit(op, val) PROVE Typed'
<1>1. pc' \in Nat
  BY Sizes DEF Emit, Typed, TypeOK
<1>2. iter' \in 1 .. Len(src) + 1
  BY DEF Emit, Advance, AtEnd, Typed, TypeOK, IsSource
<1>3. IsMap(code') /\ DOMAIN code' = DOMAIN code
  BY DEF Emit, Typed, Maps, IsMap
<1>4. UNCHANGED <<src, data, pass, active, vec, kind, labels>>
  BY DEF Emit
<1> QED BY <1>1, <1>2, <1>3, <1>4 DEF Typed, TypeOK, Maps

\* An instruction is generated, and what it means.
LEMMA Emits ==
  ASSUME Typed, SecondOp \/ SecondType \/ SecondJump \/ SecondCall \/ SecondVar
  PROVE  /\ pass = "second" /\ ~AtEnd /\ active # NONE /\ At("op")
         /\ \E op \in Op : \E val :
              /\ Emit(op, val) /\ op = Tok.op
              /\ op \in Number => Accepted(op, Tok.arg) /\ val \in Encoded(op, Tok.arg)
              /\ op = "setelen" => val = Sizeof[Tok.arg]
              /\ op \in {"call", "ldfn"} => /\ Tok.arg \in DOMAIN kind
                                            /\ val = Index(Tok.arg) + IF op = "call" THEN 1 ELSE 0
              /\ op = "ldvar" => Tok.arg \in DOMAIN data.bytes /\ val = IndexIn(data.vars, Tok.arg)
              /\ op = "jmp" => /\ Key(Tok.arg) \in DOMAIN labels
                               /\ val = labels[Key(Tok.arg)] - (pc + Bytes["jmp"])
<1>1. /\ pass = "second" /\ ~AtEnd /\ active # NONE /\ At("op")
  BY DEF SecondOp, SecondType, SecondJump, SecondCall, SecondVar, At
<1>2. CASE SecondOp
  BY <1>1, <1>2 DEF SecondOp, Op, Number
<1>3. CASE SecondJump
  BY <1>1, <1>3 DEF SecondJump, Op, Number
<1>4. CASE SecondCall
  BY <1>1, <1>4 DEF SecondCall, Op, Number
<1>5. CASE SecondVar
  BY <1>1, <1>5 DEF SecondVar, Op, Number
<1>6. CASE SecondType
  BY <1>1, <1>6 DEF SecondType, Op, Number
<1> QED BY <1>1, <1>2, <1>3, <1>4, <1>5, <1>6

Stops ==
  DirectiveError \/ GlobalOverfills \/ FirstError \/ NoFunction \/ SecondError \/ EndSecond

LEMMA StopTyped ==
  ASSUME Typed, Stops \/ Write \/ UNCHANGED vars PROVE Typed'
<1>1. UNCHANGED <<src, iter, active, pc, vec, kind, labels, code, data>>
  BY DEF Stops, DirectiveError, GlobalOverfills, FirstError, NoFunction, SecondError, EndSecond,
         Stop, Write, vars
<1>2. pass' \in {"first", "second", "write", "done", "failed", "crashed"}
  BY DEF Stops, DirectiveError, GlobalOverfills, FirstError, NoFunction, SecondError, EndSecond,
         Stop, Write, vars, Typed, TypeOK
<1> QED BY <1>1, <1>2 DEF Typed, TypeOK, Maps

LEMMA TypedStep ==
  ASSUME Typed, [Pass]_vars PROVE Typed'
<1>1. CASE SecondOp \/ SecondType \/ SecondJump \/ SecondCall \/ SecondVar
  <2>1. PICK op \in Op : \E val : Emit(op, val)
    BY <1>1, Emits
  <2> QED BY <1>1, <2>1, Emits, EmitTyped
<1>2. CASE SecondText \/ UNCHANGED vars
  BY <1>2, StopTyped DEF SecondText
<1> QED BY <1>1, <1>2, CollectTyped, SizeTyped, GlobalTyped, SkipTyped, StopTyped DEF Pass, Stops
----------------------------------------------------------------------------
(* What has been collected and generated.                                  *)

\* Nothing that is said of the source changes.
LEMMA SameSource ==
  ASSUME src' = src
  PROVE  /\ Regular' = Regular
         /\ \A i, f : Defines(i, f)' = Defines(i, f) /\ Declares(i, f)' = Declares(i, f)
         /\ \A i, which : Sets(i, which)' = Sets(i, which)
<1>1. \A i, f : Defines(i, f)' = Defines(i, f) /\ Declares(i, f)' = Declares(i, f)
  BY DEF Defines, Declares
<1>2. \A i, which : Sets(i, which)' = Sets(i, which)
  BY DEF Sets
<1>3. \A i : Behind(i)' = Behind(i)
  BY DEF Behind
<1>4. Regular' = Regular
  <2> DEFINE R(i) ==
        /\ src[i].t \in {"op"} \cup Directives => ~Behind(i)
        /\ src[i].t = "op" => ~StandsBehind(src, i, Directives)
        /\ src[i].t = "op" /\ src[i].op \in Number =>
             (InRange(src[i].op, src[i].arg) <=> Accepted(src[i].op, src[i].arg))
        /\ src[i].t \in {"native", "extern"} => \A j \in 1 .. i - 1 : ~Defines(j, src[i].name)
        /\ src[i].t = "global" => \A j \in 1 .. i - 1 : src[j].t = "global" => src[j].name # src[i].name
        /\ src[i].t = "size" => src[i].num * Unit[src[i].which] < UintMax
  <2>1. Regular = \A i \in 1 .. Len(src) : R(i)
    BY DEF Regular
  <2>2. Regular' = \A i \in 1 .. Len(src) : R(i)'
    BY DEF Regular
  <2>3. \A i : R(i)' = R(i)
    BY <1>1, <1>3
  <2> HIDE DEF R
  <2> QED BY <2>1, <2>2, <2>3
<1> QED BY <1>1, <1>2, <1>4

\* Collected depends on the source and on what was collected.
LEMMA SameCollected ==
  ASSUME UNCHANGED <<src, data, vec, kind>>, NEW n, Collected(n)
  PROVE  Collected(n)'
<1>1. /\ Regular' = Regular
      /\ \A i, f : Defines(i, f)' = Defines(i, f) /\ Declares(i, f)' = Declares(i, f)
      /\ \A i, which : Sets(i, which)' = Sets(i, which)
  BY SameSource
<1>2. \A which : LastSize(which, n)' = LastSize(which, n)
  BY <1>1 DEF LastSize
<1> QED BY <1>1, <1>2 DEF Collected

\* A size stays that of the last directive over tokens that are none for it.
LEMMA LastSizeLater ==
  ASSUME Typed, NEW m \in 1 .. Len(src) + 1, NEW n \in m .. Len(src) + 1, NEW which,
         LastSize(which, m), \A i \in m .. n - 1 : ~Sets(i, which)
  PROVE  LastSize(which, n)
<1>1. Len(src) \in Nat
  BY DEF Typed, IsSource
<1>2. \A i \in 1 .. n - 1 : i \in 1 .. m - 1 \/ i \in m .. n - 1
  BY <1>1
<1>3. CASE data[which] = 0 /\ \A i \in 1 .. m - 1 : ~Sets(i, which)
  BY <1>2, <1>3 DEF LastSize
<1>4. CASE ~(data[which] = 0 /\ \A i \in 1 .. m - 1 : ~Sets(i, which))
  <2>1. PICK i \in 1 .. m - 1 : /\ Sets(i, which) /\ data[which] = src[i].num * Unit[which]
                                /\ \A j \in i + 1 .. m - 1 : ~Sets(j, which)
    BY <1>4 DEF LastSize
  <2>2. i \in 1 .. n - 1 /\ \A j \in i + 1 .. n - 1 : j \in i + 1 .. m - 1 \/ j \in m .. n - 1
    BY <1>1
  <2> QED BY <2>1, <2>2 DEF LastSize
<1> QED BY <1>3, <1>4

\* Tokens that are no sizes and variables can be passed over.
LEMMA CollectedLater ==
  ASSUME Typed, NEW m \in 1 .. Len(src) + 1, NEW n \in m .. Len(src) + 1, Collected(m),
         Regular => \A i \in m .. n - 1 : src[i].t \notin {"size", "global"}
  PROVE  Collected(n)
<1>1. Len(src) \in Nat
  BY DEF Typed, IsSource
<1>2. /\ \A i \in 1 .. m - 1 : i \in 1 .. n - 1
      /\ \A i \in 1 .. n - 1 : i \in 1 .. m - 1 \/ i \in m .. n - 1
  BY <1>1
<1>3. ASSUME Regular, NEW which \in DOMAIN Unit, LastSize(which, m) PROVE LastSize(which, n)
  BY <1>3, LastSizeLater DEF Sets
<1> QED BY <1>2, <1>3 DEF Collected

\* What stands behind an operation on its line is neither size nor variable.
LEMMA Skipped ==
  ASSUME Typed, At("op"), Regular, NEW i \in iter .. NextLine - 1
  PROVE  src[i].t \notin {"size", "global"}
<1>1. iter \in 1 .. Len(src) /\ Len(src) \in Nat /\ src[iter].t = "op"
  BY DEF Typed, TypeOK, IsSource, At, AtEnd, Tok
<1>2. /\ NextLine \in iter + 1 .. Len(src) + 1
      /\ \A k \in iter + 1 .. NextLine - 1 : ~src[k].nl
  BY NextLineAhead DEF At
<1>3. CASE i = iter
  BY <1>1, <1>3
<1>4. CASE i # iter
  <2>1. i \in 1 .. Len(src) /\ iter \in 1 .. i - 1 /\ \A k \in iter + 1 .. i : ~src[k].nl
    BY <1>1, <1>2, <1>4
  <2>2. Behind(i)
    BY <1>1, <2>1 DEF Behind, StandsBehind
  <2> QED BY <2>1, <2>2 DEF Regular, Directives
<1> QED BY <1>3, <1>4

LEMMA OnceAppend ==
  ASSUME NEW q, IsList(q), Once(q), NEW e, e \notin ToSet(q)
  PROVE  Once(Append(q, e))
<1>1. /\ DOMAIN Append(q, e) = 1 .. Len(q) + 1 /\ DOMAIN q = 1 .. Len(q) /\ Len(q) \in Nat
      /\ \A i \in DOMAIN q : Append(q, e)[i] = q[i] /\ q[i] # e
      /\ Append(q, e)[Len(q) + 1] = e
  BY AppendList DEF IsList, ToSet
<1>2. \A i \in 1 .. Len(q) + 1 : i \in DOMAIN q \/ i = Len(q) + 1
  BY <1>1
<1> QED BY <1>1, <1>2 DEF Once

LEMMA VecList == ASSUME Typed PROVE IsList(vec)
<1>1. vec \in Seq(Name)
  BY DEF Typed, TypeOK
<1> QED BY <1>1 DEF IsList, IsMap

\* The first pass has collected what the tokens it has read declare.
LEMMA FuncCollected ==
  ASSUME IInv, Directive \/ FirstFunc PROVE Collected(iter)'
<1>1. /\ pass = "first" /\ ~AtEnd /\ Typed /\ Collected(iter) /\ iter' = iter + 1
      /\ Tok.t \in {"native", "extern", "func"}
      /\ vec' = Append(vec, Tok.name) /\ UNCHANGED <<src, data>>
  BY DEF Directive, FirstFunc, At, Advance, AddFunc, IInv, Live, Seen
<1>2. /\ DOMAIN kind' = DOMAIN kind \cup {Tok.name}
  <2>1. PICK k : kind' = With(kind, Tok.name, k)
    BY DEF Directive, FirstFunc, AddFunc
  <2> QED BY <1>1, <2>1 DEF With, Typed, Maps, IsMap
<1>3. iter \in 1 .. Len(src) /\ Len(src) \in Nat /\ iter + 1 \in iter .. Len(src) + 1
  BY <1>1 DEF Typed, TypeOK, IsSource, AtEnd
<1>4. Collected(iter + 1)
  <2>1. \A i \in iter .. iter + 1 - 1 : src[i].t \notin {"size", "global"}
    BY <1>1, <1>3 DEF Tok
  <2> QED BY <1>1, <1>3, <2>1, CollectedLater
<1>5. Defines(iter, Tok.name)
  BY <1>1 DEF Defines, Tok
<1>6. ASSUME Regular PROVE Tok.name \notin ToSet(vec)
  <2>1. DOMAIN kind = ToSet(vec)
    BY <1>1 DEF Typed, TypeOK
  <2>2. CASE FirstFunc
    BY <2>1, <2>2 DEF FirstFunc
  <2>3. CASE Directive
    <3>1. Tok.t \in {"native", "extern"}
      BY <2>3 DEF Directive, At
    <3>2. \A j \in 1 .. iter - 1 : ~Defines(j, Tok.name)
      BY <1>3, <1>6, <3>1 DEF Regular, Tok
    <3> QED BY <1>1, <2>1, <3>2 DEF Collected
  <2> QED BY <2>2, <2>3
<1>7. Regular => Once(vec')
  BY <1>1, <1>4, <1>6, OnceAppend, VecList DEF Collected
<1>8. /\ Regular' = Regular
      /\ \A i, f : Defines(i, f)' = Defines(i, f) /\ Declares(i, f)' = Declares(i, f)
      /\ \A i, which : Sets(i, which)' = Sets(i, which)
  BY <1>1, SameSource
<1>9. PICK n \in Nat : n = iter + 1
  BY <1>3
<1>10. \A which : LastSize(which, n)' = LastSize(which, n)
  BY <1>1, <1>8 DEF LastSize
<1>11. \A f \in DOMAIN kind' : \E j \in 1 .. n - 1 : Defines(j, f)
  BY <1>2, <1>3, <1>4, <1>5, <1>9 DEF Collected
<1> HIDE DEF Regular, Defines, Declares, Sets, LastSize
<1>12. Collected(n)'
  BY <1>1, <1>4, <1>7, <1>8, <1>9, <1>10, <1>11 DEF Collected
<1> QED BY <1>1, <1>9, <1>12 DEF Collected, LastSize

LEMMA SizeCollected ==
  ASSUME IInv, SizeDirective PROVE Collected(iter)'
<1>1. /\ pass = "first" /\ ~AtEnd /\ Typed /\ Collected(iter) /\ iter' = iter + 1
      /\ Tok.t = "size" /\ Tok.num \in Nat /\ UNCHANGED <<src, vec, kind>>
      /\ data' = [data EXCEPT ![Tok.which] = U32(Tok.num * Unit[Tok.which])]
  BY DEF SizeDirective, At, Advance, IInv, Live, Seen
<1>2. iter \in 1 .. Len(src) /\ Len(src) \in Nat /\ Tok.which \in DOMAIN Unit
  <2>1. iter \in 1 .. Len(src) /\ Len(src) \in Nat /\ iter \in DOMAIN src
    <3>1. DOMAIN src = 1 .. Len(src) /\ Len(src) \in Nat
      BY <1>1 DEF Typed, IsSource
    <3> QED BY <1>1, <3>1 DEF Typed, TypeOK, AtEnd
  <2>2. src[iter].t = "size" => src[iter].which \in DOMAIN Unit
    BY <1>1, <2>1 DEF Typed, IsSource
  <2> QED BY <1>1, <2>1, <2>2 DEF Tok
<1>3. /\ data'.vars = data.vars /\ data'.bytes = data.bytes
      /\ \A which \in DOMAIN Unit : which # Tok.which => data'[which] = data[which]
      /\ data'[Tok.which] = U32(Tok.num * Unit[Tok.which])
  BY <1>1, <1>2, Units DEF Typed, Maps, IsMap
<1>4. Regular => U32(Tok.num * Unit[Tok.which]) = Tok.num * Unit[Tok.which]
  <2> SUFFICES ASSUME Regular PROVE U32(Tok.num * Unit[Tok.which]) = Tok.num * Unit[Tok.which]
    OBVIOUS
  <2>1. Tok.num * Unit[Tok.which] < UintMax
    BY <1>1, <1>2 DEF Regular, Tok
  <2>2. Tok.num * Unit[Tok.which] \in Nat
    BY <1>1, <1>2, Units
  <2> QED BY <2>1, <2>2, LayoutAssumption DEF U32
<1>5. PICK n \in Nat : n = iter + 1
  BY <1>2
<1>6. n - 1 = iter /\ n \in iter .. Len(src) + 1 /\ \A i \in 1 .. n - 1 : i \in 1 .. iter - 1 \/ i = iter
  BY <1>2, <1>5
<1>7. /\ Regular' = Regular
      /\ \A i, f : Defines(i, f)' = Defines(i, f) /\ Declares(i, f)' = Declares(i, f)
      /\ \A i, which : Sets(i, which)' = Sets(i, which)
  BY <1>1, SameSource
<1>8. ASSUME Regular, NEW which \in DOMAIN Unit PROVE LastSize(which, n)'
  <2>1. CASE which = Tok.which
    <3>1. Sets(iter, which) /\ data'[which] = src[iter].num * Unit[which]
      BY <1>1, <1>3, <1>4, <1>8, <2>1 DEF Sets, Tok
    <3>2. iter \in 1 .. n - 1 /\ iter + 1 .. n - 1 = {}
      BY <1>2, <1>6
    <3> QED BY <1>1, <1>7, <3>1, <3>2 DEF LastSize
  <2>2. CASE which # Tok.which
    <3>1. \A i \in iter .. n - 1 : ~Sets(i, which)
      BY <1>2, <1>6, <2>2 DEF Sets, Tok
    <3>2. LastSize(which, n)
      BY <1>1, <1>2, <1>6, <1>8, <3>1, LastSizeLater DEF Collected
    <3> QED BY <1>1, <1>3, <1>7, <2>2, <3>2 DEF LastSize
  <2> QED BY <2>1, <2>2
<1>9. \A i \in 1 .. n - 1 : src[i].t = "global" => i \in 1 .. iter - 1
  BY <1>1, <1>6 DEF Tok
<1>10. \A i \in 1 .. iter - 1 : i \in 1 .. n - 1
  BY <1>2, <1>6
<1> HIDE DEF Regular, Defines, Declares, Sets, LastSize
<1>11. Collected(n)'
  BY <1>1, <1>3, <1>7, <1>8, <1>9, <1>10 DEF Collected
<1> QED BY <1>1, <1>5, <1>11 DEF Collected, LastSize

LEMMA GlobalCollected ==
  ASSUME IInv, Global PROVE Collected(iter)'
<1>1. /\ pass = "first" /\ ~AtEnd /\ Typed /\ Collected(iter) /\ iter' = iter + 1
      /\ Tok.t = "global" /\ UNCHANGED <<src, vec, kind>>
  BY DEF Global, At, Advance, IInv, Live, Seen
<1>2. iter \in 1 .. Len(src) /\ Len(src) \in Nat
  BY <1>1 DEF Typed, TypeOK, IsSource, AtEnd, Tok
<1>3. /\ data'.vars = Append(data.vars, Tok.name)
      /\ data'.bytes = With(data.bytes, Tok.name, Tok.bytes)
      /\ \A which \in DOMAIN Unit : data'[which] = data[which]
  BY <1>1, Units DEF Global, Typed, Maps, IsMap
<1>4. /\ DOMAIN data'.bytes = DOMAIN data.bytes \cup {Tok.name}
      /\ \A v \in DOMAIN data.bytes : data'.bytes[v] = data.bytes[v]
      /\ Tok.name \notin DOMAIN data.bytes => data'.bytes[Tok.name] = Tok.bytes
  <2>1. IsMap(data.bytes)
    BY <1>1 DEF Typed, Maps
  <2> QED BY <1>3, <2>1 DEF With, IsMap
<1>5. PICK n \in Nat : n = iter + 1
  BY <1>2
<1>6. /\ n - 1 = iter /\ n \in iter .. Len(src) + 1
      /\ \A i \in 1 .. n - 1 : i \in 1 .. iter - 1 \/ i = iter
      /\ \A i \in 1 .. iter - 1 : i \in 1 .. n - 1
      /\ iter \in 1 .. n - 1
  BY <1>2, <1>5
<1>7. /\ Regular' = Regular
      /\ \A i, f : Defines(i, f)' = Defines(i, f) /\ Declares(i, f)' = Declares(i, f)
      /\ \A i, which : Sets(i, which)' = Sets(i, which)
  BY <1>1, SameSource
<1>8. ASSUME Regular, NEW which \in DOMAIN Unit PROVE LastSize(which, n)'
  <2>1. \A i \in iter .. n - 1 : ~Sets(i, which)
    BY <1>1, <1>2, <1>6 DEF Sets, Tok
  <2>2. LastSize(which, n)
    BY <1>1, <1>2, <1>6, <1>8, <2>1, LastSizeLater DEF Collected
  <2> QED BY <1>1, <1>3, <1>7, <2>2 DEF LastSize
<1>9. \A v \in DOMAIN data'.bytes : \E j \in 1 .. n - 1 : Declares(j, v)
  <2>1. Declares(iter, Tok.name)
    BY <1>1 DEF Declares, Tok
  <2> QED BY <1>1, <1>4, <1>6, <2>1 DEF Collected
<1>10. Regular => Tok.name \notin DOMAIN data.bytes
  <2> SUFFICES ASSUME Regular, Tok.name \in DOMAIN data.bytes PROVE FALSE
    OBVIOUS
  <2>1. PICK j \in 1 .. iter - 1 : src[j].t = "global" /\ src[j].name = Tok.name
    BY <1>1 DEF Collected, Declares
  <2> QED BY <1>1, <1>2, <2>1 DEF Regular, Tok
<1>11. Regular => Once(data'.vars)
  <2>1. IsList(data.vars) /\ DOMAIN data.bytes = ToSet(data.vars)
    BY <1>1 DEF Typed, TypeOK, Maps
  <2> QED BY <1>1, <1>3, <1>10, <2>1, OnceAppend DEF Collected
<1>12. Regular => \A i \in 1 .. n - 1 : src[i].t = "global" =>
         src[i].name \in DOMAIN data'.bytes /\ data'.bytes[src[i].name] = src[i].bytes
  BY <1>1, <1>4, <1>6, <1>10 DEF Collected, Tok
<1> HIDE DEF Regular, Defines, Declares, Sets, LastSize
<1>13. Collected(n)'
  <2>1. \A f \in DOMAIN kind : \E j \in 1 .. n - 1 : Defines(j, f)
    BY <1>1, <1>6 DEF Collected
  <2> QED BY <1>1, <1>7, <1>8, <1>9, <1>11, <1>12, <2>1 DEF Collected
<1> QED BY <1>1, <1>5, <1>13 DEF Collected, LastSize

\* Steps that collect nothing.
LEMMA SkipCollected ==
  ASSUME IInv, Live, UNCHANGED <<src, data, vec, kind>>,
         \/ FirstOp \/ FirstLabel \/ End \/ EndFirst
         \/ pass # "first" /\ pass' # "first"
         \/ UNCHANGED <<iter, pass>>
  PROVE  Collected(Seen)'
<1>1. /\ Typed /\ Collected(Seen) /\ Len(src) \in Nat /\ iter \in 1 .. Len(src) + 1
  BY DEF IInv, Typed, TypeOK, IsSource
<1>2. \E n \in 1 .. Len(src) + 1 : n = Seen' /\ Collected(n)
  <2>1. CASE FirstOp
    <3>1. /\ pass = "first" /\ pass' = "first" /\ At("op") /\ ~AtEnd /\ iter' = NextLine
      BY <2>1 DEF FirstOp, At
    <3>2. NextLine \in iter + 1 .. Len(src) + 1
      BY <1>1, <3>1, NextLineAhead
    <3>3. NextLine \in iter .. Len(src) + 1 /\ NextLine \in 1 .. Len(src) + 1
      BY <1>1, <3>2
    <3>4. Collected(NextLine)
      BY <1>1, <3>1, <3>3, CollectedLater, Skipped DEF Seen
    <3> QED BY <3>1, <3>3, <3>4 DEF Seen
  <2>2. CASE pass = "first" /\ (FirstLabel \/ End)
    <3>1. /\ pass' = "first" /\ ~AtEnd /\ iter' = iter + 1 /\ Tok.t \notin {"size", "global"}
      BY <2>2 DEF FirstLabel, End, At, Advance
    <3>2. iter + 1 \in iter .. Len(src) + 1 /\ iter + 1 \in 1 .. Len(src) + 1
      BY <1>1, <3>1 DEF AtEnd
    <3>3. \A i \in iter .. iter + 1 - 1 : src[i].t \notin {"size", "global"}
      BY <1>1, <3>1 DEF Tok
    <3>4. Collected(iter + 1)
      BY <1>1, <2>2, <3>2, <3>3, CollectedLater DEF Seen
    <3> QED BY <3>1, <3>2, <3>4 DEF Seen
  <2>3. CASE EndFirst
    <3>1. pass = "first" /\ pass' = "second" /\ iter = Len(src) + 1
      BY <1>1, <2>3 DEF EndFirst, AtEnd
    <3> QED BY <1>1, <3>1 DEF Seen
  <2>4. CASE pass # "first" /\ pass' # "first"
    BY <1>1, <2>4 DEF Seen
  <2>5. CASE UNCHANGED <<iter, pass>>
    BY <1>1, <2>5 DEF Seen
  <2>6. FirstLabel => pass = "first"
    BY DEF FirstLabel
  <2>7. End => pass' = pass
    BY DEF End
  <2> QED BY <2>1, <2>2, <2>3, <2>4, <2>5, <2>6, <2>7
<1>3. PICK n \in 1 .. Len(src) + 1 : n = Seen' /\ Collected(n)
  BY <1>2
<1>4. Collected(n)'
  BY <1>3, SameCollected
<1> QED BY <1>3, <1>4 DEF Collected, LastSize

LEMMA SameMeaning ==
  ASSUME UNCHANGED <<src, data, vec, kind>>
  PROVE  \A r : Means(r)' = Means(r)
<1>1. \A f : Index(f)' = Index(f)
  BY DEF Index
<1> QED BY <1>1 DEF Means

\* Every instruction generated means its token.
LEMMA NothingGenerated ==
  ASSUME \A f \in DOMAIN code' : code'[f] = << >> PROVE Generated'
<1>1. IsList(<< >>) /\ DOMAIN << >> = {}
  BY DEF IsList, IsMap
<1> QED BY <1>1 DEF Generated, IsList, IsMap

LEMMA CollectGenerated ==
  ASSUME IInv, Directive \/ FirstFunc \/ SizeDirective \/ Global PROVE Generated'
<1>1. Typed /\ \A f \in DOMAIN code : code[f] = << >>
  BY DEF Directive, FirstFunc, SizeDirective, Global, IInv, Live, Generated
<1>2. code' = code \/ \E f : code' = With(code, f, << >>)
  BY DEF Directive, FirstFunc, SizeDirective, Global, AddFunc
<1>3. \A f \in DOMAIN code' : code'[f] = << >>
  BY <1>1, <1>2 DEF With
<1> QED BY <1>3, NothingGenerated

LEMMA SkipGenerated ==
  ASSUME IInv, Live, UNCHANGED <<src, data, vec, kind, code>>, pass' = "first" => pass = "first"
  PROVE  Generated'
<1>1. Generated
  BY DEF IInv
<1>2. \A r : Means(r)' = Means(r)
  BY SameMeaning
<1>3. \A q : IsList(q)' = IsList(q)
  BY DEF IsList, IsMap
<1> HIDE DEF Means, IsList
<1> QED BY <1>1, <1>2, <1>3 DEF Generated

LEMMA EmitGenerated ==
  ASSUME IInv, SecondOp \/ SecondType \/ SecondJump \/ SecondCall \/ SecondVar PROVE Generated'
<1>1. Typed /\ pass = "second" /\ At("op") /\ ~AtEnd /\ Generated
  BY Emits DEF IInv, Live
<1>2. PICK op, val :
         /\ op \in Op /\ Emit(op, val) /\ op = Tok.op
         /\ op \in Number => Accepted(op, Tok.arg) /\ val \in Encoded(op, Tok.arg)
         /\ op = "setelen" => val = Sizeof[Tok.arg]
         /\ op \in {"call", "ldfn"} => /\ Tok.arg \in DOMAIN kind
                                       /\ val = Index(Tok.arg) + IF op = "call" THEN 1 ELSE 0
         /\ op = "ldvar" => Tok.arg \in DOMAIN data.bytes /\ val = IndexIn(data.vars, Tok.arg)
  BY <1>1, Emits
<1>3. UNCHANGED <<src, data, pass, vec, kind>>
  BY <1>2 DEF Emit
<1> DEFINE r == [op |-> op, val |-> val, at |-> Size(active), pos |-> iter]
<1>4. code' = [code EXCEPT ![active] = Append(@, r)]
  BY <1>2 DEF Emit
<1>5. Means(r)
  <2>1. iter \in DOMAIN src
    BY <1>1 DEF Typed, TypeOK, IsSource, AtEnd
  <2>2. r.op = op /\ r.val = val /\ r.pos = iter /\ src[iter].t = "op"
    BY <1>1 DEF At, Tok
  <2> HIDE DEF r
  <2> QED BY <1>2, <2>1, <2>2 DEF Means, Tok
<1>6. ASSUME NEW f \in DOMAIN code' PROVE IsList(code'[f]) /\ \A k \in DOMAIN code'[f] : Means(code'[f][k])
  <2>1. f \in DOMAIN code /\ (code'[f] = code[f] \/ code'[f] = Append(code[f], r))
    BY <1>1, <1>4, <1>6 DEF Typed, Maps, IsMap
  <2>2. IsList(code[f]) /\ \A k \in DOMAIN code[f] : Means(code[f][k])
    BY <1>1, <2>1 DEF Generated
  <2> HIDE DEF r
  <2>3. CASE code'[f] = Append(code[f], r)
    <3>1. /\ IsList(code'[f]) /\ Len(code'[f]) = Len(code[f]) + 1
          /\ \A k \in DOMAIN code[f] : code'[f][k] = code[f][k]
          /\ code'[f][Len(code[f]) + 1] = r
      BY <2>2, <2>3, AppendList
    <3>2. \A k \in DOMAIN code'[f] : k \in DOMAIN code[f] \/ k = Len(code[f]) + 1
      BY <2>2, <3>1 DEF IsList
    <3> QED BY <1>5, <2>2, <3>1, <3>2
  <2> QED BY <2>1, <2>2, <2>3
<1>7. \A x : Means(x)' = Means(x)
  BY <1>3, SameMeaning
<1>8. \A q : IsList(q)' = IsList(q)
  BY DEF IsList, IsMap
<1> HIDE DEF Means, IsList
<1> QED BY <1>1, <1>3, <1>6, <1>7, <1>8 DEF Generated
----------------------------------------------------------------------------
(* The invariant.                                                          *)

LEMMA InitIInv == ASSUME IsSource(src), Unread PROVE IInv
<1>1. Typed
  BY InitTyped
<1>2. pass = "first" /\ iter = 1 /\ vec = << >> /\ data = NoData
      /\ DOMAIN kind = {} /\ DOMAIN code = {}
  BY DEF Unread
<1>3. Collected(1)
  <2>1. 1 .. 1 - 1 = {} /\ DOMAIN NoData.bytes = {} /\ NoData.vars = << >> /\ DOMAIN << >> = {}
    BY DEF NoData
  <2>2. \A which \in DOMAIN Unit : data[which] = 0
    BY <1>2, Units DEF NoData
  <2> QED BY <1>2, <2>1, <2>2 DEF Collected, LastSize, Once
<1> QED BY <1>1, <1>2, <1>3 DEF IInv, Live, Seen, Generated, Written

LEMMA StepIInv == ASSUME IInv, [Pass]_vars PROVE IInv'
<1>1. Typed'
  BY TypedStep DEF IInv
<1>2. Live' => Live
  <2>1. ASSUME ~Live PROVE ~Live'
    <3>1. End \/ NoFunction \/ UNCHANGED vars
      BY <2>1 DEF Live, Pass, Directive, SizeDirective, Global, DirectiveError, GlobalOverfills,
                  FirstFunc, FirstOp, FirstLabel, FirstError, EndFirst, SkipDirective, SkipLabel,
                  SecondFunc, SecondOp, SecondType, SecondJump, SecondCall, SecondVar, SecondError, SecondText,
                  EndSecond, Write
    <3> QED BY <2>1, <3>1 DEF Live, End, NoFunction, Stop, vars
  <2> QED BY <2>1
<1>3. CASE Directive \/ FirstFunc
  <2>1. Seen' = iter' /\ pass' = "first"
    BY <1>3 DEF Directive, FirstFunc, Seen
  <2>2. Collected(iter)' /\ Generated'
    BY <1>3, FuncCollected, CollectGenerated
  <2> QED BY <1>1, <2>1, <2>2 DEF IInv, Written, Collected, LastSize
<1>4. CASE SizeDirective
  <2>1. Seen' = iter' /\ pass' = "first"
    BY <1>4 DEF SizeDirective, Seen
  <2>2. Collected(iter)' /\ Generated'
    BY <1>4, SizeCollected, CollectGenerated
  <2> QED BY <1>1, <2>1, <2>2 DEF IInv, Written, Collected, LastSize
<1>5. CASE Global
  <2>1. Seen' = iter' /\ pass' = "first"
    BY <1>5 DEF Global, Seen
  <2>2. Collected(iter)' /\ Generated'
    BY <1>5, GlobalCollected, CollectGenerated
  <2> QED BY <1>1, <2>1, <2>2 DEF IInv, Written, Collected, LastSize
<1>6. CASE SecondOp \/ SecondType \/ SecondJump \/ SecondCall \/ SecondVar
  <2>1. UNCHANGED <<src, data, vec, kind>> /\ pass = "second" /\ pass' = "second"
    BY <1>6, Emits DEF Emit, IInv
  <2>2. Collected(Seen)' /\ Generated'
    BY <1>6, <2>1, SkipCollected, EmitGenerated DEF Live
  <2> QED BY <1>1, <2>1, <2>2 DEF IInv, Written
<1>7. CASE Write
  <2>1. UNCHANGED <<src, data, vec, kind, code>> /\ pass = "write" /\ pass' = "done"
    BY <1>7 DEF Write
  <2>2. Collected(Seen)' /\ Generated'
    BY <2>1, SkipCollected, SkipGenerated DEF Live
  <2>3. Written'
    BY <1>7 DEF Write, Written
  <2> QED BY <1>1, <2>2, <2>3 DEF IInv
<1>8. CASE Stops \/ SecondText \/ UNCHANGED vars
  <2>1. UNCHANGED <<src, iter, data, vec, kind, code, file>>
    BY <1>8 DEF Stops, DirectiveError, GlobalOverfills, FirstError, NoFunction, SecondError,
                EndSecond, Stop, SecondText, vars
  <2>2. CASE Live'
    <3>1. Live /\ (pass' = pass \/ (pass = "second" /\ pass' = "write"))
      BY <1>2, <1>8, <2>2 DEF Stops, DirectiveError, GlobalOverfills, FirstError, NoFunction,
                              SecondError, EndSecond, Stop, SecondText, vars, Live
    <3>2. Collected(Seen)' /\ Generated'
      BY <2>1, <3>1, SkipCollected, SkipGenerated
    <3>3. Written'
      BY <2>1, <3>1 DEF IInv, Written
    <3> QED BY <1>1, <3>2, <3>3 DEF IInv
  <2> QED BY <1>1, <2>2 DEF IInv
<1>9. CASE FirstOp \/ FirstLabel \/ End \/ EndFirst \/ SkipDirective \/ SkipLabel \/ SecondFunc
  <2>1. /\ UNCHANGED <<src, data, vec, kind, code, file>>
        /\ pass' = pass \/ EndFirst
        /\ SkipDirective \/ SkipLabel \/ SecondFunc => pass # "first" /\ pass' # "first"
        /\ EndFirst => pass' = "second"
    BY <1>9 DEF FirstOp, FirstLabel, End, EndFirst, SkipDirective, SkipLabel, SecondFunc
  <2>2. CASE Live'
    <3>1. Collected(Seen)' /\ Generated'
      BY <1>2, <1>9, <2>1, <2>2, SkipCollected, SkipGenerated
    <3>2. Written'
      BY <1>2, <2>1, <2>2 DEF IInv, Written
    <3> QED BY <1>1, <3>1, <3>2 DEF IInv
  <2> QED BY <1>1, <2>2 DEF IInv
<1> QED BY <1>3, <1>4, <1>5, <1>6, <1>7, <1>8, <1>9 DEF Pass, Stops

\* What the assembler has collected and generated is what the tokens read so far say, for
\* every source (assembler.c:393).
THEOREM Invariance == Spec => []IInv
<1>1. Init => IInv
  BY InitSource, InitIInv
<1>2. IInv /\ [Pass]_vars => IInv'
  BY StepIInv
<1> QED BY <1>1, <1>2, PTL DEF Spec

\* The maps, the places and the sizes of the assembler stay in range, for every source.
THEOREM TypeCorrect == Spec => []TypeOK
<1>1. IInv => TypeOK
  BY DEF IInv, Typed
<1> QED BY <1>1, Invariance, PTL
----------------------------------------------------------------------------
(* What the operands mean in the module.                                   *)

\* A number below the modulus is its own residue.
LEMMA Residue == ASSUME NEW d \in Nat, NEW m \in Nat, m < d PROVE m % d = m
  OBVIOUS

\* A number in range is not changed by its encoding.
LEMMA Unchanged ==
  ASSUME NEW op \in Number, NEW n, Operand(op, n), InRange(op, n) PROVE Encoded(op, n) = {n}
<1>1. CASE op \in {"alloc", "neg", "mov"}
  <2>1. n \in Nat /\ n < 256
    BY <1>1 DEF InRange, Operand
  <2>2. n % 256 = n
    BY <2>1, Residue
  <2> QED BY <1>1, <2>2 DEF Encoded
<1>2. CASE op \in {"setvlen", "lra"}
  <2>1. n \in Nat /\ n < 65536
    BY <1>2 DEF InRange, Operand
  <2>2. n % 65536 = n
    BY <2>1, Residue
  <2> QED BY <1>2, <2>2 DEF Encoded
<1>3. CASE op = "movi"
  <2>1. n \in Int \X Int /\ n[1] \in Nat /\ n[1] < 256 /\ n[2] < Int64Half
    BY <1>3 DEF InRange, Operand
  <2>2. n[1] % 256 = n[1] /\ Immediate(n[2]) = {n[2]}
    BY <2>1, Residue DEF Immediate
  <2>3. Encoded(op, n) = {n[1]} \X {n[2]}
    BY <1>3, <2>2 DEF Encoded
  <2> QED BY <2>1, <2>3
<1>4. CASE op \in {"ld", "st"}
  <2>1. n \in Int /\ -32768 <= n /\ n < 32768
    BY <1>4 DEF InRange, Operand
  <2>2. n + 32768 \in Nat /\ n + 32768 < 65536
    BY <2>1
  <2>3. (n + 32768) % 65536 = n + 32768
    BY <2>2, Residue
  <2> QED BY <1>4, <2>1, <2>3 DEF Encoded, Signed16
<1> QED BY <1>1, <1>2, <1>3, <1>4 DEF Number

\* At the end the last directive for a size is the one that counts.
LEMMA AskedIsLast ==
  ASSUME Typed, NEW which \in DOMAIN Unit, LastSize(which, Len(src) + 1)
  PROVE  data[which] = Asked(which) * Unit[which]
<1>1. Len(src) \in Nat /\ Len(src) + 1 - 1 = Len(src) /\ Unit[which] \in Nat
  BY Units DEF Typed, IsSource
<1> DEFINE is == {i \in 1 .. Len(src) : src[i].t = "size" /\ src[i].which = which}
           c  == CHOOSE i \in is : \A j \in is : j <= i
<1>2. Asked(which) = IF is = {} THEN 0 ELSE src[c].num
  BY DEF Asked
<1>3. CASE data[which] = 0 /\ \A i \in 1 .. Len(src) : ~Sets(i, which)
  <2>1. is = {}
    BY <1>3 DEF Sets
  <2> QED BY <1>1, <1>2, <1>3, <2>1
<1>4. CASE ~(data[which] = 0 /\ \A i \in 1 .. Len(src) : ~Sets(i, which))
  <2>1. PICK i \in 1 .. Len(src) : /\ Sets(i, which) /\ data[which] = src[i].num * Unit[which]
                                   /\ \A j \in i + 1 .. Len(src) : ~Sets(j, which)
    BY <1>1, <1>4 DEF LastSize
  <2>2. i \in is /\ \A j \in is : j <= i
    BY <1>1, <2>1 DEF Sets
  <2>3. c \in is /\ i <= c
    BY <2>2
  <2>4. c = i
    BY <1>1, <2>2, <2>3
  <2> QED BY <1>2, <2>1, <2>2, <2>4
<1> QED BY <1>3, <1>4

----------------------------------------------------------------------------
(* The lengths of instructions.                                            *)

\* Assembler, interpreter and disassembler give an operation one length.
LEMMA Lengths ==
  ASSUME NEW op \in Op
  PROVE  /\ Bytes[op] \in Nat /\ Bytes[op] > 0
         /\ Length(op) = Bytes[op] /\ Fetched[op] = Bytes[op] /\ Shown[op] = Bytes[op]
<1>1. Bytes[op] \in Nat /\ Bytes[op] > 0
  BY DEF Op, Number, Bytes
<1>2. Length(op) = Bytes[op]
  BY DEF Op, Number, Bytes, Length, Inserted
<1>3. Fetched[op] = Bytes[op]
  BY DEF Op, Number, Bytes, Fetched
<1>4. Shown[op] = Bytes[op]
  BY DEF Op, Number, Bytes, Shown
<1> QED BY <1>1, <1>2, <1>3, <1>4

\* An instruction starts where the one before it ends.
Follows(q) ==
  /\ IsList(q)
  /\ \A k \in DOMAIN q : q[k].op \in Op
  /\ \A k \in 1 .. Len(q) - 1 : q[k + 1].at = q[k].at + Length(q[k].op)

Laid == \A f \in DOMAIN code : Follows(code[f])

LEMMA FollowsAppend ==
  ASSUME NEW q, Follows(q), NEW r, r.op \in Op,
         r.at = IF q = << >> THEN 0 ELSE q[Len(q)].at + Length(q[Len(q)].op)
  PROVE  Follows(Append(q, r))
<1> DEFINE s == Append(q, r)
<1>1. /\ IsList(s) /\ Len(s) = Len(q) + 1 /\ s[Len(q) + 1] = r
      /\ \A k \in DOMAIN q : s[k] = q[k]
      /\ Len(q) \in Nat /\ DOMAIN q = 1 .. Len(q)
  BY AppendList DEF Follows, IsList
<1> HIDE DEF s
<1>2. \A k \in DOMAIN s : k \in DOMAIN q \/ k = Len(q) + 1
  BY <1>1 DEF IsList
<1>3. ASSUME NEW k \in 1 .. Len(s) - 1 PROVE s[k + 1].at = s[k].at + Length(s[k].op)
  <2>1. k \in DOMAIN q /\ s[k] = q[k]
    BY <1>1, <1>3
  <2>2. CASE k = Len(q)
    <3>1. q # << >> /\ s[k + 1] = r
      BY <1>1, <2>1, <2>2
    <3> QED BY <2>1, <2>2, <3>1
  <2>3. CASE k # Len(q)
    <3>1. k \in 1 .. Len(q) - 1 /\ k + 1 \in DOMAIN q
      BY <1>1, <2>1, <2>3
    <3> QED BY <1>1, <2>1, <3>1 DEF Follows
  <2> QED BY <2>2, <2>3
<1>4. \A k \in DOMAIN s : s[k].op \in Op
  BY <1>1, <1>2 DEF Follows
<1> QED BY <1>1, <1>3, <1>4 DEF Follows, s

\* Every step leaves the instructions behind each other.
LEMMA LaidStep == ASSUME Typed, Laid, [Pass]_vars PROVE Laid'
<1>1. CASE SecondOp \/ SecondType \/ SecondJump \/ SecondCall \/ SecondVar
  <2>1. PICK op \in Op : \E val : Emit(op, val)
    BY <1>1, Emits
  <2>2. PICK val : Emit(op, val)
    BY <2>1
  <2> DEFINE r == [op |-> op, val |-> val, at |-> Size(active), pos |-> iter]
  <2>3. r.op \in Op /\ r.at = Size(active)
    OBVIOUS
  <2>4. code' = [code EXCEPT ![active] = Append(@, r)]
    BY <2>2 DEF Emit
  <2> HIDE DEF r
  <2> SUFFICES ASSUME NEW f \in DOMAIN code' PROVE Follows(code'[f])
    BY DEF Laid, Follows, IsList, IsMap
  <2>5. f \in DOMAIN code /\ (code'[f] = code[f] \/ (f = active /\ code'[f] = Append(code[f], r)))
    BY <2>4 DEF Typed, Maps, IsMap
  <2>6. CASE f = active /\ code'[f] = Append(code[f], r)
    <3>1. Follows(code[f])
      BY <2>5 DEF Laid
    <3>2. r.at = IF code[f] = << >> THEN 0 ELSE code[f][Len(code[f])].at + Length(code[f][Len(code[f])].op)
      BY <2>3, <2>6 DEF Size
    <3> QED BY <2>3, <2>6, <3>1, <3>2, FollowsAppend
  <2> QED BY <2>5, <2>6 DEF Laid
<1>2. CASE Directive \/ FirstFunc
  <2>1. PICK g : code' = With(code, g, << >>)
    BY <1>2 DEF Directive, FirstFunc, AddFunc
  <2>2. Follows(<< >>)
    BY DEF Follows, IsList, IsMap
  <2>3. \A f \in DOMAIN code' : Follows(code'[f])
    BY <2>1, <2>2 DEF Laid, With
  <2> QED BY <2>3 DEF Laid, Follows, IsList, IsMap
<1>3. CASE \/ SizeDirective \/ Global \/ FirstOp \/ FirstLabel \/ End \/ EndFirst \/ SkipDirective
           \/ SkipLabel \/ SecondFunc \/ Stops \/ SecondText \/ Write \/ UNCHANGED vars
  <2>1. code' = code
    BY <1>3 DEF SizeDirective, Global, FirstOp, FirstLabel, End, EndFirst, SkipDirective, SkipLabel,
                SecondFunc, Stops, DirectiveError, GlobalOverfills, FirstError, NoFunction,
                SecondError, EndSecond, Stop, SecondText, Write, vars
  <2> QED BY <2>1 DEF Laid, Follows, IsList, IsMap
<1> QED BY <1>1, <1>2, <1>3 DEF Pass, Stops

\* The instructions of each function lie behind each other, in any state of either pass.
THEOREM LaidAlways == Spec => []Laid
<1>1. Init => Laid
  BY DEF Init, Unread, Laid
<1>2. IInv /\ Laid /\ [Pass]_vars => Laid'
  BY LaidStep DEF IInv
<1> QED BY <1>1, <1>2, Invariance, PTL DEF Spec

\* Bodies that are laid out are decoded at the same places.
LEMMA LaidDecodes == ASSUME Laid PROVE Decodes
<1> SUFFICES ASSUME NEW f \in DOMAIN code, NEW i \in 1 .. Len(code[f]) - 1
             PROVE  LET here == code[f][i] IN
                    /\ code[f][i + 1].at = here.at + Fetched[here.op]
                    /\ code[f][i + 1].at = here.at + Shown[here.op]
  BY DEF Decodes
<1>1. /\ code[f][i].op \in Op
      /\ code[f][i + 1].at = code[f][i].at + Length(code[f][i].op)
  BY DEF Laid, Follows, IsList
<1> QED BY <1>1, Lengths

\* What the assembler generates is read back at the same places by the interpreter and the
\* disassembler, for every source (instr_gen.h:25, disassembler.c:81).
THEOREM Decoded == Spec => []Decodes
<1>1. Laid => Decodes
  BY LaidDecodes
<1> QED BY <1>1, LaidAlways, PTL
----------------------------------------------------------------------------
(* Where jumps go.                                                         *)

\* Bytes of the function around a token after it, n being those before it.
After(s, i, n) == IF s[i].t = "op" THEN n + Bytes[s[i].op] ELSE IF s[i].t = "end" THEN 0 ELSE n
\* The bytes of the function before each of the first tokens.
Counts(s, m, o) == /\ o[1] = 0
                   /\ \A i \in 1 .. m - 1 : o[i + 1] = After(s, i, o[i])
Before(s) == CHOOSE o : Counts(s, Len(s) + 1, o)

\* No head of a function is behind an operation.
Clean(s, n) == \A i \in 1 .. n - 1 : s[i].t = "func" => ~StandsBehind(s, i, {"op"})
\* The second pass has seen the tokens before this one.
Reached == IF pass = "second" THEN iter ELSE Len(src) + 1

\* Behind an operation the second pass is inside of a function, where it accepts no head.
Orderly ==
  /\ pass = "second" =>
       /\ Clean(src, iter)
       /\ iter <= Len(src) /\ StandsBehind(src, iter, {"op"}) => active # NONE
  /\ pass \in {"write", "done"} => Clean(src, Len(src) + 1)

\* A pass counts the bytes of the function that it is in.
Tracks ==
  pass \in {"first", "second"} => active = Around(src, iter) /\ pc = Before(src)[iter]

\* Every function has one head.
OneHead(n) ==
  \A i \in 1 .. n - 1 : src[i].t = "func" =>
    /\ src[i].name \in DOMAIN kind
    /\ \A j \in 1 .. i - 1 : src[j].t = "func" => src[j].name # src[i].name

\* A label is the number of bytes before it in its function.
Marks(k, p) ==
  /\ src[p].t = "label" /\ Around(src, p) # NONE
  /\ k = Join(src[p].name, Around(src, p)) /\ labels[k] = Before(src)[p]
Marked == \A k \in DOMAIN labels : \E p \in 1 .. Len(src) : Marks(k, p)

\* Where the instructions of a function end.
Total(q) == IF q = << >> THEN 0 ELSE q[Len(q)].at + Length(q[Len(q)].op)

\* The instructions are made from tokens before the one at m, and lie before their end.
Packed(q, m) == \A k \in DOMAIN q : /\ q[k].pos \in Nat /\ q[k].pos < m
                                    /\ q[k].at \in Nat /\ q[k].at < Total(q)

\* Offset n is between the instructions made from tokens before the one at p and the others.
Splits(q, p, n) ==
  /\ n <= Total(q)
  /\ n = Total(q) \/ \E k \in DOMAIN q : q[k].at = n
  /\ \A k \in DOMAIN q : q[k].at < n <=> q[k].pos < p

\* Instruction r is one of function f, and goes to its label.
Aims(r, f) ==
  /\ r.pos \in 1 .. Len(src) /\ Around(src, r.pos) = f
  /\ src[r.pos].t = "op" /\ src[r.pos].op = r.op
  /\ r.op = "jmp" => /\ Join(src[r.pos].arg, f) \in DOMAIN labels
                     /\ r.val = labels[Join(src[r.pos].arg, f)] - (r.at + Bytes["jmp"])

\* The bytes before a token of function f are those of the instructions made before it.
Lies(p, f) == f # NONE => f \in DOMAIN code /\ Splits(code[f], p, Before(src)[p])

\* The instructions generated, and the tokens that have been reached among them.
Placed ==
  /\ pass = "second" /\ active # NONE => active \in DOMAIN code /\ Total(code[active]) = pc
  /\ \A f \in DOMAIN code : /\ Packed(code[f], Reached)
                            /\ \A k \in DOMAIN code[f] : Aims(code[f][k], f)
  /\ \A p \in 1 .. Reached : Lies(p, Around(src, p))

Landing == Tracks /\ OneHead(Seen) /\ Marked /\ (pass # "first" => Placed)

JInv == Live => Orderly /\ (Regular /\ Clean(src, Len(src) + 1) => Landing)
----------------------------------------------------------------------------
(* Facts about sources.                                                    *)

LEMMA SourceLength ==
  ASSUME Typed PROVE Len(src) \in Nat /\ DOMAIN src = 1 .. Len(src) /\ iter \in 1 .. Len(src) + 1
BY DEF Typed, TypeOK, IsSource

\* A token behind an operation is behind the token before it or that is the operation.
LEMMA BehindNext ==
  ASSUME NEW s, NEW i \in Nat \ {0}, StandsBehind(s, i + 1, {"op"})
  PROVE  ~s[i + 1].nl /\ (s[i].t = "op" \/ StandsBehind(s, i, {"op"}))
<1>1. PICK j \in 1 .. i : s[j].t = "op" /\ \A k \in j + 1 .. i + 1 : ~s[k].nl
  BY DEF StandsBehind
<1>2. i + 1 \in j + 1 .. i + 1
  OBVIOUS
<1>3. j # i => j \in 1 .. i - 1 /\ \A k \in j + 1 .. i : k \in j + 1 .. i + 1
  OBVIOUS
<1> QED BY <1>1, <1>2, <1>3 DEF StandsBehind

\* The first token of a line is behind no other.
LEMMA LineStart ==
  ASSUME NEW s, NEW i \in Nat \ {0}, s[i].nl
  PROVE  \A kinds : ~StandsBehind(s, i, kinds)
<1>1. \A j \in 1 .. i - 1 : i \in j + 1 .. i
  OBVIOUS
<1> QED BY <1>1 DEF StandsBehind

\* The functions around the tokens.
LEMMA AroundNext ==
  ASSUME NEW s, IsSource(s)
  PROVE  /\ Around(s, 1) = NONE
         /\ \A i \in 1 .. Len(s) :
              Around(s, i + 1) = IF s[i].t = "func" THEN s[i].name
                                 ELSE IF s[i].t = "end" THEN NONE ELSE Around(s, i)
<1> DEFINE marks(n) == {j \in 1 .. n - 1 : s[j].t \in {"func", "end"}}
           last(M, j) == \A k \in M : k <= j
           F(M) == IF \E j \in M : s[j].t = "func" /\ last(M, j)
                   THEN s[CHOOSE j \in M : last(M, j)].name
                   ELSE NONE
<1>1. \A n : Around(s, n) = F(marks(n))
  BY DEF Around
<1>2. marks(1) = {}
  OBVIOUS
<1>3. F(marks(1)) = NONE
  BY <1>2
<1>4. ASSUME NEW i \in 1 .. Len(s)
      PROVE  F(marks(i + 1)) = IF s[i].t = "func" THEN s[i].name
                               ELSE IF s[i].t = "end" THEN NONE ELSE F(marks(i))
  <2>1. i \in Nat /\ i >= 1
    BY DEF IsSource
  <2>2. CASE s[i].t \in {"func", "end"}
    <3>1. i \in marks(i + 1) /\ last(marks(i + 1), i)
      BY <2>1, <2>2
    <3>2. \A j \in marks(i + 1) : last(marks(i + 1), j) => j = i
      <4>1. \A j \in marks(i + 1) : j <= i /\ j \in Nat
        BY <2>1
      <4> HIDE DEF marks
      <4> QED BY <2>1, <3>1, <4>1
    <3> HIDE DEF marks, last
    <3>3. (CHOOSE j \in marks(i + 1) : last(marks(i + 1), j)) = i
      BY <3>1, <3>2
    <3> QED BY <2>2, <3>1, <3>2, <3>3
  <2>3. CASE s[i].t \notin {"func", "end"}
    <3>1. marks(i + 1) = marks(i)
      BY <2>1, <2>3
    <3> HIDE DEF F, marks
    <3>2. F(marks(i + 1)) = F(marks(i))
      BY <3>1
    <3> QED BY <2>3, <3>2
  <2> QED BY <2>2, <2>3
<1> HIDE DEF F, marks
<1> QED BY <1>1, <1>3, <1>4

\* The function around a token has its head before it.
LEMMA AroundHead ==
  ASSUME NEW s, IsSource(s), NEW i \in 1 .. Len(s) + 1, Around(s, i) # NONE
  PROVE  /\ \E j \in 1 .. i - 1 : s[j].t = "func" /\ s[j].name = Around(s, i)
         /\ Around(s, i) \in Name
<1> DEFINE marks == {j \in 1 .. i - 1 : s[j].t \in {"func", "end"}}
           last(j) == \A k \in marks : k <= j
           c == CHOOSE j \in marks : last(j)
<1>1. /\ \E j \in marks : s[j].t = "func" /\ last(j)
      /\ Around(s, i) = s[c].name
  BY DEF Around
<1>2. PICK j \in marks : s[j].t = "func" /\ last(j)
  BY <1>1
<1>3. c \in marks /\ last(c)
  BY <1>2
<1>4. c = j
  BY <1>2, <1>3 DEF IsSource
<1>5. j \in 1 .. i - 1 /\ j \in DOMAIN s
  BY DEF IsSource
<1>6. s[j].name \in Name
  BY <1>2, <1>5 DEF IsSource
<1> QED BY <1>1, <1>2, <1>4, <1>5, <1>6

\* The counts of bytes before the tokens are defined.
LEMMA CountsExist ==
  ASSUME NEW s, NEW n \in Nat
  PROVE  \E o : Counts(s, n + 1, o)
<1> DEFINE Bad == {m \in Nat : ~\E o : Counts(s, m + 1, o)}
<1> SUFFICES ASSUME Bad # {} PROVE FALSE
  OBVIOUS
<1>1. PICK m \in Bad : \A l \in Bad : m <= l
  BY Least
<1>2. m # 0
  <2>1. Counts(s, 0 + 1, [i \in 1 .. 0 + 1 |-> 0])
    BY DEF Counts
  <2> QED BY <1>1, <2>1
<1>3. m - 1 \in Nat /\ m - 1 \notin Bad
  BY <1>1, <1>2
<1>4. PICK o : Counts(s, m - 1 + 1, o)
  BY <1>3
<1> DEFINE p == [i \in 1 .. m + 1 |-> IF i = m + 1 THEN After(s, m, o[m]) ELSE o[i]]
<1>5. m - 1 + 1 = m /\ m >= 1 /\ m \in Nat
  BY <1>2
<1>6. Counts(s, m, o)
  BY <1>4, <1>5
<1>7. p[1] = 0 /\ p[m + 1] = After(s, m, o[m])
  BY <1>5, <1>6 DEF Counts
<1>8. ASSUME NEW i \in 1 .. m + 1 - 1 PROVE p[i + 1] = After(s, i, p[i])
  <2>1. i \in 1 .. m /\ i # m + 1 /\ p[i] = o[i]
    BY <1>5, <1>8
  <2>2. CASE i = m
    BY <1>7, <2>1, <2>2
  <2>3. CASE i # m
    <3>1. i \in 1 .. m - 1 /\ i + 1 \in 1 .. m + 1 /\ i + 1 # m + 1
      BY <1>5, <2>1, <2>3
    <3>2. o[i + 1] = After(s, i, o[i])
      BY <1>6, <3>1 DEF Counts
    <3> QED BY <2>1, <3>1, <3>2
  <2> QED BY <2>2, <2>3
<1>9. Counts(s, m + 1, p)
  <2> HIDE DEF p
  <2> QED BY <1>7, <1>8 DEF Counts
<1> QED BY <1>1, <1>9

\* They begin at 0 and each follows from the one before.
LEMMA BeforeNext ==
  ASSUME NEW s, IsSource(s)
  PROVE  /\ Before(s)[1] = 0
         /\ \A i \in 1 .. Len(s) : Before(s)[i + 1] = After(s, i, Before(s)[i])
<1>1. Counts(s, Len(s) + 1, Before(s))
  BY CountsExist DEF Before, IsSource
<1>2. Len(s) + 1 - 1 = Len(s)
  BY DEF IsSource
<1> QED BY <1>1, <1>2 DEF Counts

\* Directives and labels change neither the function around them nor its bytes.
LEMMA Quiet ==
  ASSUME NEW s, IsSource(s), NEW a \in 1 .. Len(s) + 1, NEW b \in a .. Len(s) + 1,
         \A i \in a .. b - 1 : s[i].t \notin {"op", "func", "end"}
  PROVE  Around(s, b) = Around(s, a) /\ Before(s)[b] = Before(s)[a]
<1> DEFINE Good(c) == Around(s, c) = Around(s, a) /\ Before(s)[c] = Before(s)[a]
           Bad == {c \in a .. b : ~Good(c)}
<1> SUFFICES ASSUME Bad # {} PROVE FALSE
  BY DEF IsSource
<1>1. Bad \in SUBSET Nat
  BY DEF IsSource
<1>2. PICK c \in Bad : \A l \in Bad : c <= l
  BY <1>1, Least
<1>3. c # a
  BY <1>2
<1>4. c - 1 \in a .. b - 1 /\ c - 1 \in a .. b /\ c - 1 \in 1 .. Len(s) /\ c - 1 + 1 = c /\ ~(c <= c - 1)
  BY <1>3 DEF IsSource
<1>5. Good(c - 1)
  BY <1>2, <1>4
<1>6. s[c - 1].t \notin {"op", "func", "end"}
  BY <1>4
<1>7. Around(s, c) = Around(s, c - 1)
  BY <1>4, <1>6, AroundNext
<1>8. Before(s)[c] = Before(s)[c - 1]
  BY <1>4, <1>6, BeforeNext DEF After
<1> QED BY <1>2, <1>5, <1>7, <1>8
----------------------------------------------------------------------------
(* Facts about the instructions of a function.                             *)

LEMMA TotalAppend ==
  ASSUME NEW q, IsList(q), NEW r, r.op \in Op, r.at = Total(q)
  PROVE  Total(Append(q, r)) = Total(q) + Bytes[r.op]
<1>1. Len(Append(q, r)) = Len(q) + 1 /\ Append(q, r)[Len(q) + 1] = r /\ Len(q) \in Nat
  BY AppendList DEF IsList
<1>2. Append(q, r) # << >>
  BY <1>1
<1>3. Total(Append(q, r)) = r.at + Length(r.op)
  BY <1>1, <1>2 DEF Total
<1> QED BY <1>3, Lengths

LEMMA PackedAppend ==
  ASSUME NEW q, IsList(q), NEW m \in Nat, Packed(q, m), Total(q) \in Nat,
         NEW r, r.op \in Op, r.at = Total(q), r.pos = m
  PROVE  Packed(Append(q, r), m + 1)
<1>1. Total(Append(q, r)) = Total(q) + Bytes[r.op] /\ Bytes[r.op] \in Nat /\ Bytes[r.op] > 0
  BY TotalAppend, Lengths
<1>2. /\ DOMAIN Append(q, r) = DOMAIN q \cup {Len(q) + 1} /\ Append(q, r)[Len(q) + 1] = r
      /\ \A k \in DOMAIN q : Append(q, r)[k] = q[k]
  BY AppendList DEF IsList
<1>3. \A k \in DOMAIN q : /\ q[k].pos \in Nat /\ q[k].pos < m + 1
                          /\ q[k].at \in Nat /\ q[k].at < Total(q) + Bytes[r.op]
  BY <1>1 DEF Packed
<1>4. r.pos \in Nat /\ r.pos < m + 1 /\ r.at \in Nat /\ r.at < Total(q) + Bytes[r.op]
  BY <1>1
<1> QED BY <1>1, <1>2, <1>3, <1>4 DEF Packed

LEMMA SplitsAppend ==
  ASSUME NEW q, IsList(q), NEW m \in Nat, Packed(q, m), Total(q) \in Nat,
         NEW r, r.op \in Op, r.at = Total(q), r.pos = m,
         NEW p \in Nat, p <= m, NEW n, Splits(q, p, n)
  PROVE  Splits(Append(q, r), p, n)
<1>1. Total(Append(q, r)) = Total(q) + Bytes[r.op] /\ Bytes[r.op] \in Nat
  BY TotalAppend, Lengths
<1>2. /\ DOMAIN Append(q, r) = DOMAIN q \cup {Len(q) + 1} /\ Append(q, r)[Len(q) + 1] = r
      /\ \A k \in DOMAIN q : Append(q, r)[k] = q[k]
  BY AppendList DEF IsList
<1>3. n \in Nat /\ n <= Total(q)
  BY DEF Splits, Packed
<1>4. n <= Total(q) + Bytes[r.op] /\ ~(r.at < n) /\ ~(r.pos < p)
  BY <1>1, <1>3
<1>5. \E k \in DOMAIN Append(q, r) : Append(q, r)[k].at = n
  BY <1>2 DEF Splits
<1>6. \A k \in DOMAIN Append(q, r) : Append(q, r)[k].at < n <=> Append(q, r)[k].pos < p
  BY <1>2, <1>4 DEF Splits
<1> QED BY <1>1, <1>4, <1>5, <1>6 DEF Splits

LEMMA SplitsEnd ==
  ASSUME NEW q, NEW m \in Nat, Packed(q, m), Total(q) \in Nat, NEW p \in Nat, m <= p
  PROVE  Splits(q, p, Total(q))
<1>1. \A k \in DOMAIN q : q[k].at < Total(q) /\ q[k].pos < p
  BY DEF Packed
<1> QED BY <1>1 DEF Splits
----------------------------------------------------------------------------
(* The steps of the passes.                                                *)

\* What a pass skips on a line neither changes the function nor its bytes.
LEMMA SkipsQuiet ==
  ASSUME Typed, Regular, Clean(src, Len(src) + 1), ~AtEnd, Tok.t \in {"op"} \cup Directives,
         NEW i \in iter + 1 .. NextLine - 1
  PROVE  src[i].t \notin {"op", "func", "end"}
<1>1. iter \in 1 .. Len(src) /\ Len(src) \in Nat /\ DOMAIN src = 1 .. Len(src)
  BY SourceLength DEF AtEnd
<1>2. /\ NextLine \in iter + 1 .. Len(src) + 1
      /\ \A k \in iter + 1 .. NextLine - 1 : ~src[k].nl
  BY NextLineAhead
<1>3. i \in 1 .. Len(src) /\ iter \in 1 .. i - 1 /\ (\A k \in iter + 1 .. i : ~src[k].nl) /\ ~src[i].nl
  BY <1>1, <1>2
<1>4. StandsBehind(src, i, {"op"}) \/ StandsBehind(src, i, Directives)
  BY <1>3 DEF StandsBehind, Tok
<1>5. src[i].t # "end"
  BY <1>1, <1>3 DEF Typed, IsSource
<1>6. src[i].t # "func"
  BY <1>1, <1>3, <1>4 DEF Typed, IsSource, Clean
<1>7. src[i].t # "op"
  BY <1>3, <1>4 DEF Regular, Behind
<1> QED BY <1>5, <1>6, <1>7

\* What the first pass has let through is in order.
LEMMA OrderlyStep ==
  ASSUME IInv, Live, Live', Orderly, [Pass]_vars PROVE Orderly'
<1>1. Typed /\ iter \in 1 .. Len(src) + 1 /\ Len(src) \in Nat /\ IsSource(src)
  BY SourceLength DEF IInv, Typed
<1>2. CASE \/ Directive \/ SizeDirective \/ Global \/ FirstFunc \/ FirstOp \/ FirstLabel
           \/ End /\ pass = "first"
  BY <1>2 DEF Directive, SizeDirective, Global, FirstFunc, FirstOp, FirstLabel, End, Orderly
<1>3. CASE EndFirst
  <2>1. pass' = "second" /\ iter' = 1
    BY <1>3 DEF EndFirst
  <2>2. Clean(src', 1) /\ ~StandsBehind(src', 1, {"op"})
    BY DEF Clean, StandsBehind
  <2> QED BY <2>1, <2>2 DEF Orderly
<1>4. CASE pass = "second" /\ (End \/ SkipLabel \/ SecondFunc \/ (\E op \in Op : \E val : Emit(op, val) /\ At("op") /\ active # NONE))
  <2>1. /\ pass' = "second" /\ src' = src /\ iter' = iter + 1 /\ ~AtEnd
        /\ Tok.t = "func" => active = NONE
        /\ active' = NONE => Tok.t = "end" \/ (Tok.t # "op" /\ active = NONE)
    <3>1. CASE End
      BY <1>4, <3>1 DEF End, At, Advance
    <3>2. CASE SkipLabel
      BY <1>4, <3>2 DEF SkipLabel, At, Advance
    <3>3. CASE SecondFunc
      <4>1. Tok.name \in Name
        BY <1>1, <3>3 DEF SecondFunc, At, AtEnd, Tok, IsSource
      <4> QED BY <1>4, <3>3, <4>1, AssemblerAssumption DEF SecondFunc, At, Advance
    <3>4. CASE \E op \in Op : \E val : Emit(op, val) /\ At("op") /\ active # NONE
      BY <1>4, <3>4 DEF Emit, At, Advance
    <3> QED BY <1>4, <3>1, <3>2, <3>3, <3>4
  <2>2. iter \in 1 .. Len(src) /\ iter \in Nat \ {0}
    BY <1>1, <2>1 DEF AtEnd
  <2>3. Clean(src, iter) /\ (StandsBehind(src, iter, {"op"}) => active # NONE)
    BY <1>4, <2>2 DEF Orderly
  <2>4. Clean(src, iter + 1)
    <3>1. \A i \in 1 .. (iter + 1) - 1 : i \in 1 .. iter - 1 \/ i = iter
      BY <2>2
    <3>2. src[iter].t = "func" => ~StandsBehind(src, iter, {"op"})
      BY <2>1, <2>3 DEF Tok
    <3> QED BY <2>3, <3>1, <3>2 DEF Clean
  <2>5. ASSUME StandsBehind(src, iter + 1, {"op"}) PROVE active' # NONE
    <3>1. src[iter].t = "op" \/ StandsBehind(src, iter, {"op"})
      BY <2>2, <2>5, BehindNext
    <3>2. src[iter].t = "end" => ~StandsBehind(src, iter, {"op"})
      BY <1>1, <2>2, LineStart DEF IsSource
    <3> QED BY <2>1, <2>3, <3>1, <3>2 DEF Tok
  <2> QED BY <2>1, <2>4, <2>5 DEF Orderly
<1>5. CASE SkipDirective
  <2>1. /\ pass = "second" /\ pass' = "second" /\ src' = src /\ iter' = NextLine /\ ~AtEnd
        /\ Tok.t \in Directives
    BY <1>5 DEF SkipDirective
  <2>2. iter \in 1 .. Len(src) /\ DOMAIN src = 1 .. Len(src)
    BY <1>1, <2>1 DEF AtEnd, IsSource
  <2>3. /\ NextLine \in iter + 1 .. Len(src) + 1
        /\ \A k \in iter + 1 .. NextLine - 1 : ~src[k].nl
        /\ NextLine <= Len(src) => src[NextLine].nl
    BY <1>1, <2>1, NextLineAhead
  <2>4. ASSUME NEW i \in iter .. NextLine - 1 PROVE src[i].t # "func"
    <3>1. CASE i = iter
      BY <2>1, <3>1 DEF Tok, Directives
    <3>2. CASE i # iter
      <4>1. i \in DOMAIN src /\ iter \in 1 .. i - 1 /\ \A k \in iter + 1 .. i : ~src[k].nl
        BY <2>2, <2>3, <3>2
      <4>2. StandsBehind(src, i, Directives)
        BY <2>1, <4>1 DEF StandsBehind, Tok
      <4> QED BY <1>1, <4>1, <4>2 DEF IsSource
    <3> QED BY <3>1, <3>2
  <2>5. Clean(src, NextLine)
    <3>1. \A i \in 1 .. NextLine - 1 : i \in 1 .. iter - 1 \/ i \in iter .. NextLine - 1
      BY <2>2, <2>3
    <3> QED BY <2>1, <2>4, <3>1 DEF Orderly, Clean
  <2>6. NextLine <= Len(src) => ~StandsBehind(src, NextLine, {"op"})
    BY <2>2, <2>3, LineStart
  <2> QED BY <2>1, <2>5, <2>6 DEF Orderly
<1>6. CASE EndSecond
  <2>1. iter = Len(src) + 1 /\ pass = "second" /\ pass' = "write" /\ src' = src
    BY <1>1, <1>6 DEF EndSecond, AtEnd, Stop
  <2> QED BY <2>1 DEF Orderly
<1>7. CASE pass \in {"write", "done"} /\ (Write \/ End)
  <2>1. src' = src /\ pass' \in {"write", "done"}
    BY <1>7 DEF Write, End
  <2> QED BY <1>7, <2>1 DEF Orderly
<1>8. CASE SecondText \/ UNCHANGED vars
  BY <1>8 DEF SecondText, vars, Orderly
<1>9. CASE SecondOp \/ SecondType \/ SecondJump \/ SecondCall \/ SecondVar
  BY <1>1, <1>4, <1>9, Emits
<1>10. CASE DirectiveError \/ GlobalOverfills \/ FirstError \/ NoFunction \/ SecondError
  BY <1>10 DEF DirectiveError, GlobalOverfills, FirstError, NoFunction, SecondError, Stop, Live
<1>11. /\ End => pass \in {"first", "second", "write", "done"}
       /\ SkipLabel \/ SecondFunc => pass = "second"
       /\ Write => pass = "write"
  BY DEF Live, SkipLabel, SecondFunc, Write
<1> QED BY <1>2, <1>3, <1>4, <1>5, <1>6, <1>7, <1>8, <1>9, <1>10, <1>11 DEF Pass

\* The tokens that a pass reaches by skipping the rest of a line.
LEMMA SkipsTo ==
  ASSUME Typed, Regular, Clean(src, Len(src) + 1), ~AtEnd, Tok.t \in {"op"} \cup Directives,
         NEW p \in iter + 1 .. NextLine
  PROVE  /\ Around(src, p) = Around(src, iter)
         /\ Before(src)[p] = After(src, iter, Before(src)[iter])
<1>1. /\ iter \in 1 .. Len(src) /\ Len(src) \in Nat /\ IsSource(src)
      /\ NextLine \in iter + 1 .. Len(src) + 1
  BY SourceLength, NextLineAhead DEF AtEnd, Typed
<1>2. iter + 1 \in 1 .. Len(src) + 1 /\ p \in iter + 1 .. Len(src) + 1
  BY <1>1
<1>3. \A i \in iter + 1 .. p - 1 : i \in iter + 1 .. NextLine - 1
  BY <1>1
<1>4. Around(src, p) = Around(src, iter + 1) /\ Before(src)[p] = Before(src)[iter + 1]
  BY <1>1, <1>2, <1>3, SkipsQuiet, Quiet
<1>5. src[iter].t \notin {"func", "end"}
  BY DEF Tok, Directives
<1> QED BY <1>1, <1>4, <1>5, AroundNext, BeforeNext

\* Both passes count the bytes of the function before the token they are at.
LEMMA TracksStep ==
  ASSUME IInv, Live, Live', Regular, Clean(src, Len(src) + 1), Tracks, [Pass]_vars PROVE Tracks'
<1>1. Typed /\ iter \in 1 .. Len(src) + 1 /\ Len(src) \in Nat /\ IsSource(src)
  BY SourceLength DEF IInv, Typed
<1>2. /\ ~AtEnd => iter \in 1 .. Len(src)
      /\ \A i \in 1 .. Len(src) :
           /\ Around(src, i + 1) = IF src[i].t = "func" THEN src[i].name
                                   ELSE IF src[i].t = "end" THEN NONE ELSE Around(src, i)
           /\ Before(src)[i + 1] = After(src, i, Before(src)[i])
  BY <1>1, AroundNext, BeforeNext DEF AtEnd
<1>3. CASE Directive \/ SizeDirective \/ Global \/ FirstLabel \/ SkipLabel
  <2>1. /\ UNCHANGED <<src, pass, active, pc>> /\ iter' = iter + 1 /\ ~AtEnd
        /\ src[iter].t \notin {"func", "end", "op"}
    BY <1>3 DEF Directive, SizeDirective, Global, FirstLabel, SkipLabel, At, Tok, Advance
  <2> QED BY <1>2, <2>1 DEF Tracks, After
<1>4. CASE FirstFunc \/ SecondFunc
  <2>1. /\ UNCHANGED <<src, pass, pc>> /\ iter' = iter + 1 /\ ~AtEnd
        /\ src[iter].t = "func" /\ active' = src[iter].name
    BY <1>4 DEF FirstFunc, SecondFunc, At, Tok, Advance
  <2> QED BY <1>2, <2>1 DEF Tracks, After
<1>5. CASE End
  <2>1. /\ src' = src /\ pass' = pass /\ iter' = iter + 1 /\ ~AtEnd
        /\ src[iter].t = "end" /\ active' = NONE /\ pc' = 0
    BY <1>5 DEF End, At, Tok, Advance
  <2> QED BY <1>2, <2>1 DEF Tracks, After
<1>6. CASE FirstOp \/ SkipDirective
  <2>1. /\ UNCHANGED <<src, pass, active>> /\ iter' = NextLine /\ ~AtEnd
        /\ Tok.t \in {"op"} \cup Directives /\ pass \in {"first", "second"}
        /\ pc' = After(src, iter, pc)
    BY <1>6 DEF FirstOp, SkipDirective, At, Tok, After, Directives
  <2>2. NextLine \in iter + 1 .. NextLine
    BY <1>1, <2>1, NextLineAhead
  <2>3. /\ Around(src, NextLine) = Around(src, iter)
        /\ Before(src)[NextLine] = After(src, iter, Before(src)[iter])
    BY <1>1, <2>1, <2>2, SkipsTo
  <2> QED BY <2>1, <2>3 DEF Tracks
<1>7. CASE SecondOp \/ SecondType \/ SecondJump \/ SecondCall \/ SecondVar
  <2>1. PICK op, val : Emit(op, val) /\ op = Tok.op /\ At("op") /\ pass = "second"
    BY <1>1, <1>7, Emits
  <2>2. /\ UNCHANGED <<src, pass, active>> /\ iter' = iter + 1 /\ ~AtEnd
        /\ src[iter].t = "op" /\ pc' = pc + Bytes[src[iter].op]
    BY <2>1 DEF Emit, At, Tok, Advance
  <2> QED BY <1>2, <2>1, <2>2 DEF Tracks, After
<1>8. CASE EndFirst
  <2>1. src' = src /\ iter' = 1 /\ active' = NONE /\ pc' = 0
    BY <1>8 DEF EndFirst
  <2> QED BY <1>1, <2>1, AroundNext, BeforeNext DEF Tracks
<1>9. CASE EndSecond \/ Write
  BY <1>9 DEF EndSecond, Write, Stop, Tracks
<1>10. CASE SecondText \/ UNCHANGED vars
  BY <1>10 DEF SecondText, vars, Tracks
<1>11. CASE DirectiveError \/ GlobalOverfills \/ FirstError \/ NoFunction \/ SecondError
  BY <1>11 DEF DirectiveError, GlobalOverfills, FirstError, NoFunction, SecondError, Stop, Live
<1> QED BY <1>3, <1>4, <1>5, <1>6, <1>7, <1>8, <1>9, <1>10, <1>11 DEF Pass

\* A function that both passes see has one head.
LEMMA OneHeadStep ==
  ASSUME IInv, Live, Live', Regular, Clean(src, Len(src) + 1), OneHead(Seen), [Pass]_vars
  PROVE  OneHead(Seen)'
<1>1. Typed /\ iter \in 1 .. Len(src) + 1 /\ Len(src) \in Nat /\ IsSource(src)
  BY SourceLength DEF IInv, Typed
<1>2. ASSUME src' = src, DOMAIN kind \subseteq DOMAIN kind', NEW m \in 1 .. Len(src) + 1,
             OneHead(m), NEW n \in m .. Len(src) + 1, n = Seen',
             \A i \in m .. n - 1 : src[i].t # "func"
      PROVE  OneHead(Seen)'
  <2>1. \A i \in 1 .. n - 1 : src[i].t = "func" => i \in 1 .. m - 1
    BY <1>1, <1>2
  <2> QED BY <1>2, <2>1 DEF OneHead
<1>3. CASE Directive \/ SizeDirective \/ Global \/ FirstLabel \/ End
  <2>1. /\ src' = src /\ iter' = iter + 1 /\ ~AtEnd /\ src[iter].t # "func" /\ pass' = pass
        /\ DOMAIN kind \subseteq DOMAIN kind'
    BY <1>3 DEF Directive, SizeDirective, Global, FirstLabel, End, At, Tok, Advance, AddFunc, With
  <2>2. CASE pass = "first"
    <3>1. Seen = iter /\ Seen' = iter + 1 /\ iter + 1 \in iter .. Len(src) + 1
      BY <1>1, <2>1, <2>2 DEF Seen, AtEnd
    <3>2. \A i \in iter .. (iter + 1) - 1 : src[i].t # "func"
      BY <1>1, <2>1
    <3> QED BY <1>1, <1>2, <2>1, <3>1, <3>2
  <2>3. CASE pass # "first"
    <3>1. Seen = Len(src) + 1 /\ Seen' = Len(src) + 1
      BY <2>1, <2>3 DEF Seen
    <3> QED BY <1>1, <1>2, <2>1, <3>1
  <2> QED BY <2>2, <2>3
<1>4. CASE FirstOp
  <2>1. /\ src' = src /\ kind' = kind /\ iter' = NextLine /\ ~AtEnd /\ Tok.t = "op"
        /\ pass = "first" /\ pass' = "first"
    BY <1>4 DEF FirstOp, At
  <2>2. NextLine \in iter + 1 .. Len(src) + 1
    BY <1>1, <2>1, NextLineAhead
  <2>3. NextLine \in iter .. Len(src) + 1
    BY <1>1, <2>2
  <2>4. \A i \in iter .. NextLine - 1 : src[i].t # "func"
    <3>1. \A i \in iter .. NextLine - 1 : i = iter \/ i \in iter + 1 .. NextLine - 1
      BY <1>1
    <3> QED BY <1>1, <2>1, <3>1, SkipsQuiet DEF Tok
  <2>5. Seen = iter /\ Seen' = NextLine
    BY <2>1 DEF Seen
  <2> QED BY <1>1, <1>2, <2>1, <2>3, <2>4, <2>5
<1>5. CASE FirstFunc
  <2>1. /\ src' = src /\ iter' = iter + 1 /\ ~AtEnd /\ pass = "first" /\ pass' = "first"
        /\ src[iter].name \notin DOMAIN kind /\ kind' = With(kind, src[iter].name, "code")
    BY <1>5 DEF FirstFunc, At, Tok, Advance, AddFunc
  <2>2. DOMAIN kind' = DOMAIN kind \cup {src[iter].name}
    BY <2>1 DEF With
  <2>3. OneHead(iter)
    BY <2>1 DEF Seen
  <2>4. Seen' = iter + 1
    BY <2>1 DEF Seen
  <2>5. \A i \in 1 .. (iter + 1) - 1 : (i \in 1 .. iter - 1) \/ i = iter
    BY <1>1
  <2>6. ASSUME NEW i \in 1 .. (iter + 1) - 1, src[i].t = "func"
        PROVE  /\ src[i].name \in DOMAIN kind'
               /\ \A j \in 1 .. i - 1 : src[j].t = "func" => src[j].name # src[i].name
    BY <2>1, <2>2, <2>3, <2>5, <2>6 DEF OneHead
  <2> QED BY <2>1, <2>4, <2>6 DEF OneHead
<1>6. CASE EndFirst
  <2>1. src' = src /\ kind' = kind /\ pass = "first" /\ pass' = "second" /\ iter = Len(src) + 1
    BY <1>1, <1>6 DEF EndFirst, AtEnd
  <2>2. Seen = Len(src) + 1 /\ Seen' = Len(src) + 1
    BY <2>1 DEF Seen
  <2> QED BY <1>1, <1>2, <2>1, <2>2
<1>7. CASE \/ SkipDirective \/ SkipLabel \/ SecondFunc \/ EndSecond \/ Write
           \/ SecondOp \/ SecondType \/ SecondJump \/ SecondCall \/ SecondVar
  <2>1. src' = src /\ kind' = kind /\ pass # "first" /\ pass' # "first"
    BY <1>7 DEF SkipDirective, SkipLabel, SecondFunc, EndSecond, Write, SecondOp, SecondType, SecondJump,
                SecondCall, SecondVar, Emit, Stop
  <2>2. Seen = Len(src) + 1 /\ Seen' = Len(src) + 1
    BY <2>1 DEF Seen
  <2> QED BY <1>1, <1>2, <2>1, <2>2
<1>8. CASE SecondText \/ UNCHANGED vars
  <2>1. UNCHANGED vars
    BY <1>8 DEF SecondText
  <2> QED BY <2>1 DEF vars, OneHead, Seen
<1>9. CASE DirectiveError \/ GlobalOverfills \/ FirstError \/ NoFunction \/ SecondError
  BY <1>9 DEF DirectiveError, GlobalOverfills, FirstError, NoFunction, SecondError, Stop, Live
<1> QED BY <1>3, <1>4, <1>5, <1>6, <1>7, <1>8, <1>9 DEF Pass

\* Every label has the place of its token.
LEMMA MarkedStep ==
  ASSUME IInv, Live, Live', Tracks, Marked, [Pass]_vars PROVE Marked'
<1>1. Typed /\ iter \in 1 .. Len(src) + 1 /\ Len(src) \in Nat
  BY SourceLength DEF IInv
<1>2. CASE FirstLabel
  <2>1. /\ pass = "first" /\ ~AtEnd /\ src[iter].t = "label" /\ active # NONE /\ src' = src
        /\ labels' = With(labels, Key(src[iter].name), pc)
    BY <1>2 DEF FirstLabel, At, Tok
  <2>2. iter \in 1 .. Len(src)
    BY <1>1, <2>1 DEF AtEnd
  <2>3. active = Around(src, iter) /\ pc = Before(src)[iter]
    BY <2>1 DEF Tracks
  <2> SUFFICES ASSUME NEW k \in DOMAIN labels' PROVE \E p \in 1 .. Len(src) : Marks(k, p)'
    BY <2>1 DEF Marked
  <2>4. CASE k \in DOMAIN labels
    <3>1. labels'[k] = labels[k]
      BY <2>1, <2>4 DEF With
    <3>2. PICK p \in 1 .. Len(src) : Marks(k, p)
      BY <2>4 DEF Marked
    <3> QED BY <2>1, <3>1, <3>2 DEF Marks
  <2>5. CASE k \notin DOMAIN labels
    <3>1. k = Key(src[iter].name) /\ labels'[k] = pc
      BY <2>1, <2>5 DEF With
    <3>2. PICK p \in 1 .. Len(src) : p = iter
      BY <2>2
    <3>3. Marks(k, p)'
      BY <2>1, <2>3, <3>1, <3>2 DEF Marks, Key
    <3> QED BY <3>3
  <2> QED BY <2>4, <2>5
<1>3. CASE UNCHANGED <<src, labels>>
  BY <1>3 DEF Marked, Marks
<1>4. CASE SecondOp \/ SecondType \/ SecondJump \/ SecondCall \/ SecondVar
  BY <1>3, <1>4 DEF SecondOp, SecondType, SecondJump, SecondCall, SecondVar, Emit
<1>5. \/ Directive \/ SizeDirective \/ Global \/ FirstFunc \/ FirstOp \/ End \/ EndFirst
      \/ SkipDirective \/ SkipLabel \/ SecondFunc \/ Stops \/ SecondText \/ Write \/ UNCHANGED vars
      => UNCHANGED <<src, labels>>
  BY DEF Directive, SizeDirective, Global, FirstFunc, FirstOp, End, EndFirst, SkipDirective, SkipLabel,
         SecondFunc, Stops, DirectiveError, GlobalOverfills, FirstError, NoFunction, SecondError,
         EndSecond, Stop, SecondText, Write, vars
<1> QED BY <1>2, <1>3, <1>4, <1>5 DEF Pass, Stops

\* What an instruction aims at depends on the source and the labels.
LEMMA SameAims == ASSUME UNCHANGED <<src, labels>> PROVE \A r, f : Aims(r, f)' = Aims(r, f)
BY DEF Aims

\* The second pass moves on without generating, in a function or to the head or the end of one.
LEMMA PlacedLater ==
  ASSUME IInv, Placed, pass = "second", pass' = "second", UNCHANGED <<src, code, labels>>,
         iter' \in iter .. Len(src) + 1,
         active' # NONE => active' \in DOMAIN code /\ Total(code[active']) = pc' /\ pc' \in Nat,
         \A p \in iter + 1 .. iter' : Around(src, p) # NONE =>
           Around(src, p) = active' /\ Before(src)[p] = pc'
  PROVE  Placed'
<1>1. iter \in Nat /\ iter' \in Nat /\ iter <= iter' /\ Reached = iter /\ Reached' = iter'
  BY SourceLength DEF IInv, Reached
<1>2. \A f \in DOMAIN code : Packed(code[f], iter)
  BY <1>1 DEF Placed
<1>3. ASSUME NEW f \in DOMAIN code PROVE Packed(code[f], iter')
  <2>1. Packed(code[f], iter)
    BY <1>2
  <2> QED BY <1>1, <2>1 DEF Packed
<1>4. \A r, f : Aims(r, f)' = Aims(r, f)
  BY SameAims
<1>5. ASSUME NEW p \in 1 .. iter' PROVE Lies(p, Around(src, p))'
  <2>1. CASE p \in 1 .. iter
    <3>1. Lies(p, Around(src, p))
      BY <1>1, <2>1 DEF Placed
    <3> QED BY <3>1 DEF Lies
  <2>2. CASE p \in iter + 1 .. iter' /\ Around(src, p) # NONE
    <3>0. PICK f : f = Around(src, p)
      OBVIOUS
    <3>1. f = active' /\ f \in DOMAIN code /\ Before(src)[p] = Total(code[f]) /\ Total(code[f]) \in Nat
      BY <2>2, <3>0
    <3>2. p \in Nat /\ iter <= p
      BY <1>1, <2>2
    <3>3. Splits(code[f], p, Total(code[f]))
      BY <1>1, <1>2, <3>1, <3>2, SplitsEnd
    <3> QED BY <3>0, <3>1, <3>3 DEF Lies
  <2>3. CASE Around(src, p) = NONE
    BY <2>3 DEF Lies
  <2>4. p \in 1 .. iter \/ p \in iter + 1 .. iter'
    BY <1>1
  <2> QED BY <2>1, <2>2, <2>3, <2>4
<1> QED BY <1>1, <1>3, <1>4, <1>5 DEF Placed

\* No instruction has been generated for a function before its head.
LEMMA NothingBefore ==
  ASSUME IInv, pass = "second", Placed, OneHead(Len(src) + 1), ~AtEnd, Tok.t = "func"
  PROVE  Tok.name \in DOMAIN code /\ Tok.name \in Name /\ code[Tok.name] = << >>
<1>1. /\ Typed /\ iter \in 1 .. Len(src) /\ Len(src) \in Nat /\ IsSource(src) /\ DOMAIN src = 1 .. Len(src)
      /\ DOMAIN code = DOMAIN kind
  BY SourceLength DEF IInv, AtEnd, Typed, TypeOK
<1>2. iter \in 1 .. (Len(src) + 1) - 1
  BY <1>1
<1>3. /\ Tok.name \in DOMAIN code /\ Tok.name \in Name
      /\ \A j \in 1 .. iter - 1 : src[j].t = "func" => src[j].name # Tok.name
  BY <1>1, <1>2 DEF OneHead, Tok, IsSource
<1> DEFINE q == code[Tok.name]
<1>4. IsList(q)
  BY <1>3 DEF IInv, Live, Generated
<1>5. ASSUME Len(q) # 0 PROVE FALSE
  <2>1. 1 \in DOMAIN q
    BY <1>4, <1>5 DEF IsList
  <2>2. Aims(q[1], Tok.name) /\ q[1].pos < iter
    BY <1>3, <2>1 DEF Placed, Packed, Reached
  <2> HIDE DEF q
  <2>3. q[1].pos \in 1 .. iter /\ Around(src, q[1].pos) = Tok.name
    BY <1>1, <2>2 DEF Aims
  <2>4. q[1].pos \in 1 .. Len(src) + 1 /\ Around(src, q[1].pos) # NONE
    BY <1>1, <1>3, <2>3, AssemblerAssumption
  <2>5. PICK j \in 1 .. q[1].pos - 1 : src[j].t = "func" /\ src[j].name = Tok.name
    BY <1>1, <2>3, <2>4, AroundHead
  <2>6. j \in 1 .. iter - 1
    BY <1>1, <2>3, <2>5
  <2> QED BY <1>3, <2>5, <2>6
<1>6. q = << >>
  <2> HIDE DEF q
  <2>1. Len(q) = 0 /\ DOMAIN q = {} /\ q = [k \in DOMAIN q |-> q[k]]
    BY <1>4, <1>5 DEF IsList, IsMap
  <2> QED BY <2>1
<1> QED BY <1>3, <1>6

LEMMA EmitPlaced ==
  ASSUME IInv, Regular, Tracks, Placed, SecondOp \/ SecondType \/ SecondJump \/ SecondCall \/ SecondVar
  PROVE  Placed'
<1>1. /\ Typed /\ pass = "second" /\ ~AtEnd /\ active # NONE /\ At("op")
  BY Emits DEF IInv
<1>2. PICK op \in Op : \E val :
        /\ Emit(op, val) /\ op = Tok.op
        /\ op = "jmp" => /\ Key(Tok.arg) \in DOMAIN labels
                         /\ val = labels[Key(Tok.arg)] - (pc + Bytes["jmp"])
  BY <1>1, Emits
<1>3. PICK val :
        /\ Emit(op, val) /\ op = Tok.op
        /\ op = "jmp" => /\ Key(Tok.arg) \in DOMAIN labels
                         /\ val = labels[Key(Tok.arg)] - (pc + Bytes["jmp"])
  BY <1>2
<1> DEFINE r == [op |-> op, val |-> val, at |-> Size(active), pos |-> iter]
           q == code[active]
<1>4. /\ iter \in 1 .. Len(src) /\ Len(src) \in Nat /\ pc \in Nat /\ iter \in Nat
  BY <1>1, SourceLength DEF AtEnd, Typed, TypeOK
<1>5. /\ UNCHANGED <<src, labels, active, pass>> /\ iter' = iter + 1
      /\ code' = [code EXCEPT ![active] = Append(@, r)] /\ pc' = pc + Bytes[op]
  BY <1>3 DEF Emit, Advance
<1>6. /\ active \in DOMAIN code /\ Total(q) = pc /\ Reached = iter /\ Reached' = iter + 1
      /\ active = Around(src, iter) /\ Before(src)[iter] = pc
  BY <1>1, <1>5 DEF Placed, Tracks, Reached
<1>7. r.op = op /\ r.at = Total(q) /\ r.pos = iter /\ r.val = val
  <2>1. Size(active) = Total(q)
    BY DEF Size, Total
  <2> QED BY <2>1
<1> HIDE DEF r
<1>8. /\ DOMAIN code' = DOMAIN code /\ code'[active] = Append(q, r)
      /\ \A f \in DOMAIN code : f # active => code'[f] = code[f]
  BY <1>5, <1>6 DEF Typed, Maps, IsMap
<1>9. IsList(q) /\ Packed(q, iter) /\ Total(q) \in Nat /\ r.op \in Op
  BY <1>1, <1>4, <1>6, <1>7 DEF IInv, Live, Generated, Placed
<1>10. Packed(Append(q, r), iter + 1) /\ Total(Append(q, r)) = pc + Bytes[op]
  BY <1>4, <1>6, <1>7, <1>9, PackedAppend, TotalAppend
<1>11. Aims(r, active)
  <2>1. Around(src, r.pos) = active /\ r.pos \in 1 .. Len(src) /\ src[r.pos].t = "op" /\ src[r.pos].op = r.op
    BY <1>1, <1>3, <1>4, <1>6, <1>7 DEF At, Tok
  <2>2. ASSUME r.op = "jmp"
        PROVE  /\ Join(src[r.pos].arg, active) \in DOMAIN labels
               /\ r.val = labels[Join(src[r.pos].arg, active)] - (r.at + Bytes["jmp"])
    BY <1>3, <1>6, <1>7, <2>2 DEF Key, Tok
  <2> QED BY <2>1, <2>2 DEF Aims
<1> HIDE DEF q
<1>12. ASSUME NEW f \in DOMAIN code'
       PROVE  Packed(code'[f], Reached') /\ \A k \in DOMAIN code'[f] : Aims(code'[f][k], f)
  <2>1. CASE f = active
    <3>1. /\ DOMAIN Append(q, r) = DOMAIN q \cup {Len(q) + 1} /\ Append(q, r)[Len(q) + 1] = r
          /\ \A k \in DOMAIN q : Append(q, r)[k] = q[k]
      BY <1>9, AppendList DEF IsList
    <3>2. \A k \in DOMAIN q : Aims(q[k], active)
      BY <1>6 DEF Placed, q
    <3>3. \A k \in DOMAIN Append(q, r) : Append(q, r)[k] = r \/ \E j \in DOMAIN q : Append(q, r)[k] = q[j]
      BY <3>1
    <3>4. \A k \in DOMAIN Append(q, r) : Aims(Append(q, r)[k], active)
      BY <1>11, <3>2, <3>3
    <3> QED BY <1>6, <1>8, <1>10, <2>1, <3>4
  <2>2. CASE f # active
    <3>1. f \in DOMAIN code /\ code'[f] = code[f] /\ Packed(code[f], iter)
      BY <1>6, <1>8, <2>2 DEF Placed
    <3>2. Packed(code[f], iter + 1)
      BY <1>4, <3>1 DEF Packed
    <3>3. \A k \in DOMAIN code[f] : Aims(code[f][k], f)
      BY <3>1 DEF Placed
    <3> QED BY <1>6, <3>1, <3>2, <3>3
  <2> QED BY <2>1, <2>2
<1>13. ASSUME NEW p \in 1 .. iter + 1 PROVE Lies(p, Around(src, p))'
  <2>1. CASE p \in 1 .. iter
    <3>1. Lies(p, Around(src, p))
      BY <1>6, <2>1 DEF Placed
    <3>2. CASE Around(src, p) = active
      <4>1. Splits(q, p, Before(src)[p])
        BY <1>1, <3>1, <3>2 DEF Lies, q
      <4>2. Splits(Append(q, r), p, Before(src)[p])
        BY <1>4, <1>7, <1>9, <2>1, <4>1, SplitsAppend
      <4> QED BY <1>5, <1>6, <1>8, <3>2, <4>2 DEF Lies
    <3>3. CASE Around(src, p) # active
      BY <1>5, <1>8, <3>1, <3>3 DEF Lies
    <3> QED BY <3>2, <3>3
  <2>2. CASE p = iter + 1
    <3>1. src[iter].t = "op" /\ src[iter].op = op
      BY <1>1, <1>3 DEF At, Tok
    <3>2. Around(src, p) = active /\ Before(src)[p] = pc + Bytes[op]
      BY <1>1, <1>4, <1>6, <2>2, <3>1, AroundNext, BeforeNext DEF After, Typed
    <3>3. pc + Bytes[op] \in Nat
      BY <1>4, Sizes
    <3>4. Splits(Append(q, r), p, pc + Bytes[op])
      BY <1>4, <1>10, <2>2, <3>3, SplitsEnd
    <3> QED BY <1>5, <1>6, <1>8, <3>2, <3>4 DEF Lies
  <2> QED BY <1>4, <2>1, <2>2
<1>14. active' \in DOMAIN code' /\ Total(code'[active']) = pc'
  BY <1>5, <1>6, <1>8, <1>10
<1>15. \A x, f : Aims(x, f)' = Aims(x, f)
  BY <1>5, SameAims
<1> QED BY <1>5, <1>6, <1>12, <1>13, <1>14, <1>15 DEF Placed

\* Every instruction lies at the place of its token.
LEMMA PlacedStep ==
  ASSUME IInv, Live, Live', Regular, Clean(src, Len(src) + 1), Landing, [Pass]_vars,
         pass' # "first"
  PROVE  Placed'
<1>1. /\ Typed /\ iter \in 1 .. Len(src) + 1 /\ Len(src) \in Nat /\ IsSource(src)
      /\ Tracks /\ (pass # "first" => Placed)
  BY SourceLength DEF IInv, Typed, Landing
<1>2. CASE EndFirst
  <2>1. /\ pass = "first" /\ pass' = "second" /\ iter' = 1 /\ active' = NONE
        /\ UNCHANGED <<src, code, labels>>
    BY <1>2 DEF EndFirst
  <2>2. \A f \in DOMAIN code : code[f] = << >>
    BY <2>1 DEF IInv, Live, Generated
  <2>3. Reached' = 1 /\ 1 .. 1 = {1} /\ Around(src, 1) = NONE /\ DOMAIN << >> = {}
    BY <1>1, <2>1, AroundNext DEF Reached
  <2>4. \A p \in 1 .. 1 : Lies(p, Around(src, p))'
    BY <2>1, <2>3 DEF Lies
  <2> QED BY <2>1, <2>2, <2>3, <2>4 DEF Placed, Packed
<1>3. CASE SecondOp \/ SecondType \/ SecondJump \/ SecondCall \/ SecondVar
  <2>1. Placed
    BY <1>1, <1>3, Emits
  <2> QED BY <1>1, <1>3, <2>1, EmitPlaced
<1>4. ASSUME pass = "second", ~AtEnd, pass' = "second", UNCHANGED <<src, code, labels>>, iter' = iter + 1,
             active' # NONE => active' \in DOMAIN code /\ Total(code[active']) = pc' /\ pc' \in Nat,
             Around(src, iter + 1) # NONE =>
               Around(src, iter + 1) = active' /\ Before(src)[iter + 1] = pc'
      PROVE  Placed'
  <2>1. iter' \in iter .. Len(src) + 1 /\ \A p \in iter + 1 .. iter' : p = iter + 1
    BY <1>1, <1>4 DEF AtEnd
  <2> QED BY <1>1, <1>4, <2>1, PlacedLater
<1>5. /\ ~AtEnd => iter \in 1 .. Len(src)
      /\ \A i \in 1 .. Len(src) :
           /\ Around(src, i + 1) = IF src[i].t = "func" THEN src[i].name
                                   ELSE IF src[i].t = "end" THEN NONE ELSE Around(src, i)
           /\ Before(src)[i + 1] = After(src, i, Before(src)[i])
  BY <1>1, AroundNext, BeforeNext DEF AtEnd
<1>6. CASE SkipLabel
  <2>1. /\ pass = "second" /\ ~AtEnd /\ src[iter].t = "label" /\ pass' = pass
        /\ UNCHANGED <<src, code, labels, active, pc>> /\ iter' = iter + 1
    BY <1>6 DEF SkipLabel, At, Tok, Advance
  <2>2. Around(src, iter + 1) = active /\ Before(src)[iter + 1] = pc
    BY <1>1, <1>5, <2>1 DEF Tracks, After
  <2>3. active # NONE => active \in DOMAIN code /\ Total(code[active]) = pc /\ pc \in Nat
    BY <1>1, <2>1 DEF Placed, Typed, TypeOK
  <2> QED BY <1>4, <2>1, <2>2, <2>3
<1>7. CASE End /\ pass = "second"
  <2>1. /\ ~AtEnd /\ src[iter].t = "end" /\ pass' = pass /\ active' = NONE
        /\ UNCHANGED <<src, code, labels>> /\ iter' = iter + 1
    BY <1>7 DEF End, At, Tok, Advance
  <2>2. Around(src, iter + 1) = NONE
    BY <1>5, <2>1
  <2> QED BY <1>4, <1>7, <2>1, <2>2
<1>8. CASE SecondFunc
  <2>1. /\ pass = "second" /\ ~AtEnd /\ Tok.t = "func" /\ pass' = pass /\ active = NONE
        /\ UNCHANGED <<src, code, labels, pc>> /\ iter' = iter + 1 /\ active' = Tok.name
    BY <1>8 DEF SecondFunc, At, Advance
  <2>2. OneHead(Len(src) + 1)
    BY <2>1 DEF Landing, Seen
  <2>3. Tok.name \in DOMAIN code /\ Tok.name \in Name /\ code[Tok.name] = << >>
    BY <1>1, <2>1, <2>2, NothingBefore
  <2>4. pc = 0
    BY <1>1, <2>1 DEF Typed, TypeOK
  <2>5. Around(src, iter + 1) = Tok.name /\ Before(src)[iter + 1] = pc
    BY <1>1, <1>5, <2>1 DEF Tracks, After, Tok
  <2>6. Total(code[Tok.name]) = pc
    BY <2>3, <2>4 DEF Total
  <2> QED BY <1>4, <2>1, <2>3, <2>4, <2>5, <2>6
<1>9. CASE SkipDirective
  <2>1. /\ pass = "second" /\ ~AtEnd /\ Tok.t \in Directives /\ pass' = pass
        /\ UNCHANGED <<src, code, labels, active, pc>> /\ iter' = NextLine
    BY <1>9 DEF SkipDirective
  <2>2. NextLine \in iter .. Len(src) + 1
    BY <1>1, <2>1, NextLineAhead
  <2>3. After(src, iter, Before(src)[iter]) = pc /\ Around(src, iter) = active
    BY <1>1, <2>1 DEF Tracks, After, Tok, Directives
  <2>4. \A p \in iter + 1 .. NextLine : Around(src, p) = active /\ Before(src)[p] = pc
    BY <1>1, <2>1, <2>3, SkipsTo
  <2>5. active # NONE => active \in DOMAIN code /\ Total(code[active]) = pc /\ pc \in Nat
    BY <1>1, <2>1 DEF Placed, Typed, TypeOK
  <2> QED BY <1>1, <2>1, <2>2, <2>4, <2>5, PlacedLater
<1>10. ASSUME UNCHANGED <<src, code, labels>>, pass # "first", Reached' = Reached,
              pass' = "second" => pass = "second" /\ UNCHANGED <<active, pc>>
       PROVE  Placed'
  <2>1. \A r, f : Aims(r, f)' = Aims(r, f)
    BY <1>10, SameAims
  <2>2. \A p, f : Lies(p, f)' = Lies(p, f)
    BY <1>10 DEF Lies
  <2> QED BY <1>1, <1>10, <2>1, <2>2 DEF Placed
<1>11. CASE EndSecond
  <2>1. UNCHANGED <<src, code, labels>> /\ pass = "second" /\ pass' = "write" /\ iter = Len(src) + 1
    BY <1>1, <1>11 DEF EndSecond, Stop, AtEnd
  <2> QED BY <1>10, <2>1 DEF Reached
<1>12. CASE Write \/ (End /\ pass \in {"write", "done"})
  <2>1. UNCHANGED <<src, code, labels>> /\ pass \in {"write", "done"} /\ pass' \in {"write", "done"}
    BY <1>12 DEF Write, End
  <2> QED BY <1>10, <2>1 DEF Reached
<1>13. CASE SecondText \/ UNCHANGED vars
  <2>1. UNCHANGED vars
    BY <1>13 DEF SecondText
  <2> QED BY <1>10, <2>1 DEF vars, Reached
<1>14. CASE DirectiveError \/ GlobalOverfills \/ FirstError \/ NoFunction \/ SecondError
  BY <1>14 DEF DirectiveError, GlobalOverfills, FirstError, NoFunction, SecondError, Stop, Live
<1>15. /\ Directive \/ SizeDirective \/ Global \/ FirstFunc \/ FirstOp \/ FirstLabel => pass' = "first"
       /\ End => pass' = pass /\ pass \in {"first", "second", "write", "done"}
  BY DEF Directive, SizeDirective, Global, FirstFunc, FirstOp, FirstLabel, End, Live
<1> QED BY <1>2, <1>3, <1>6, <1>7, <1>8, <1>9, <1>11, <1>12, <1>13, <1>14, <1>15 DEF Pass

LEMMA SourceStays == [Pass]_vars => src' = src
BY DEF Pass, vars, Directive, SizeDirective, Global, DirectiveError, GlobalOverfills, FirstFunc, FirstOp,
       FirstLabel, FirstError, NoFunction, EndFirst, SkipDirective, SkipLabel, SecondFunc, SecondOp, SecondType,
       SecondJump, SecondCall, SecondVar, Emit, SecondError, SecondText, EndSecond, End, Write, Stop

LEMMA InitJInv == ASSUME IsSource(src), Unread PROVE JInv
<1>1. /\ IsSource(src) /\ iter = 1 /\ pass = "first" /\ active = NONE /\ pc = 0
      /\ DOMAIN labels = {}
  BY DEF Unread
<1>2. Tracks
  BY <1>1, AroundNext, BeforeNext DEF Tracks
<1>3. OneHead(Seen)
  BY <1>1 DEF OneHead, Seen
<1> QED BY <1>1, <1>2, <1>3 DEF JInv, Orderly, Landing, Marked

LEMMA StepJInv == ASSUME IInv, JInv, [Pass]_vars PROVE JInv'
<1> SUFFICES ASSUME Live' PROVE Orderly' /\ (Regular' /\ Clean(src', Len(src') + 1) => Landing')
  BY DEF JInv
<1>1. Live
  <2>1. ASSUME ~Live PROVE ~Live'
    <3>1. End \/ NoFunction \/ UNCHANGED vars
      BY <2>1 DEF Live, Pass, Directive, SizeDirective, Global, DirectiveError, GlobalOverfills,
                  FirstFunc, FirstOp, FirstLabel, FirstError, EndFirst, SkipDirective, SkipLabel,
                  SecondFunc, SecondOp, SecondType, SecondJump, SecondCall, SecondVar, SecondError, SecondText,
                  EndSecond, Write
    <3> QED BY <2>1, <3>1 DEF Live, End, NoFunction, Stop, vars
  <2> QED BY <2>1
<1>2. src' = src /\ Regular' = Regular
  BY SourceStays, SameSource
<1>3. Orderly'
  BY <1>1, OrderlyStep DEF JInv
<1>4. ASSUME Regular, Clean(src, Len(src) + 1) PROVE Landing'
  <2>1. Landing
    BY <1>1, <1>4 DEF JInv
  <2>2. Tracks' /\ OneHead(Seen)' /\ Marked'
    BY <1>1, <1>4, <2>1, TracksStep, OneHeadStep, MarkedStep DEF Landing
  <2>3. pass' # "first" => Placed'
    BY <1>1, <1>4, <2>1, PlacedStep
  <2> QED BY <2>2, <2>3 DEF Landing, OneHead
<1> QED BY <1>2, <1>3, <1>4

\* The passes count the same bytes before a label, and generate as many, for every source.
THEOREM SameCounts == Spec => []JInv
<1>1. Init => JInv
  BY InitSource, InitJInv
<1>2. IInv /\ JInv /\ [Pass]_vars => JInv'
  BY StepJInv
<1> QED BY <1>1, <1>2, Invariance, PTL DEF Spec

\* No two labels of functions have the same key.  They are the two names in a row
\* (assembler.c:501): of names like ab and c, a and bc the keys are the same.
KeysApart ==
  \A l, m \in Label \cup Int, f, g \in Name : Join(l, f) = Join(m, g) => l = m /\ f = g

\* A jump that was generated goes to the place of its label.
LEMMA JumpsReach == ASSUME KeysApart, IInv, JInv PROVE JumpsLand
<1> SUFFICES ASSUME pass = "done", Regular, NEW f \in DOMAIN code, NEW r \in ToSet(code[f]), r.op = "jmp"
             PROVE  LET target == r.at + Fetched["jmp"] + r.val IN
                    \E p \in 1 .. Len(src) :
                      /\ src[p].t = "label" /\ src[p].name = src[r.pos].arg /\ Enclosing(p) = f
                      /\ target \in {q.at : q \in ToSet(code[f])} \cup {Size(f)}
                      /\ \A q \in ToSet(code[f]) : q.at < target <=> q.pos < p
  BY DEF JumpsLand
<1>1. /\ Typed /\ Len(src) \in Nat /\ IsSource(src) /\ DOMAIN src = 1 .. Len(src)
      /\ Marked /\ Placed /\ Reached = Len(src) + 1
  BY SourceLength DEF IInv, Typed, JInv, Live, Orderly, Landing, Reached
<1>2. PICK k \in DOMAIN code[f] : code[f][k] = r
  BY DEF ToSet
<1>3. Aims(r, f) /\ Packed(code[f], Len(src) + 1)
  BY <1>1, <1>2 DEF Placed
<1>4. /\ src[r.pos].arg \in Label \cup Int /\ r.pos \in 1 .. Len(src) /\ r.at \in Nat
      /\ f \in Name
  <2>1. r.pos \in DOMAIN src /\ src[r.pos].t = "op" /\ src[r.pos].op = "jmp" /\ r.at \in Nat
    BY <1>1, <1>2, <1>3 DEF Aims, Packed
  <2>2. src[r.pos].arg \in Label \cup Int
    BY <1>1, <2>1 DEF IsSource
  <2>3. f \in Name
    BY <1>1 DEF Typed, TypeOK, ToSet
  <2> QED BY <1>1, <2>1, <2>2, <2>3
<1> DEFINE key == Join(src[r.pos].arg, f)
<1>5. key \in DOMAIN labels /\ r.val = labels[key] - (r.at + Bytes["jmp"])
  BY <1>3 DEF Aims
<1>6. PICK p \in 1 .. Len(src) : Marks(key, p)
  BY <1>1, <1>5 DEF Marked
<1>7. src[p].t = "label" /\ src[p].name = src[r.pos].arg /\ Around(src, p) = f /\ labels[key] = Before(src)[p]
  <2>1. src[p].name \in Label /\ p \in 1 .. Len(src) + 1
    BY <1>1, <1>6 DEF Marks, IsSource
  <2>2. Around(src, p) \in Name
    BY <1>1, <1>6, <2>1, AroundHead DEF Marks
  <2> QED BY <1>4, <1>6, <2>1, <2>2 DEF Marks, KeysApart
<1>8. Splits(code[f], p, Before(src)[p])
  <2>1. Lies(p, Around(src, p)) /\ f # NONE
    BY <1>1, <1>4, AssemblerAssumption DEF Placed
  <2> QED BY <1>7, <2>1 DEF Lies
<1> HIDE DEF key
<1>9. r.at + Fetched["jmp"] + r.val = Before(src)[p]
  <2>1. labels[key] \in Nat
    BY <1>1, <1>5 DEF Typed, TypeOK
  <2>2. Bytes["jmp"] \in Nat /\ Fetched["jmp"] = Bytes["jmp"]
    BY Lengths DEF Op
  <2> QED BY <1>4, <1>5, <1>7, <2>1, <2>2
<1>10. Size(f) = Total(code[f])
  BY DEF Size, Total
<1>11. /\ Before(src)[p] \in {q.at : q \in ToSet(code[f])} \cup {Size(f)}
       /\ \A q \in ToSet(code[f]) : q.at < Before(src)[p] <=> q.pos < p
  BY <1>8, <1>10 DEF Splits, ToSet
<1> QED BY <1>7, <1>9, <1>11 DEF Enclosing

\* A jump goes to where its label stands in its function, for every source and all names of
\* labels and functions that differ in a row (assembler.c:506, 915).
THEOREM JumpsReachLabels == KeysApart => (Spec => []JumpsLand)
<1> SUFFICES ASSUME KeysApart PROVE Spec => []JumpsLand
  OBVIOUS
<1>1. IInv /\ JInv => JumpsLand
  BY JumpsReach
<1> QED BY <1>1, Invariance, SameCounts, PTL
----------------------------------------------------------------------------
(* The order of instructions and variables.                                *)

IsKind(f, i) == Defines(i, f) /\ kind[f] = IF src[i].t = "func" THEN "code" ELSE src[i].t

\* Functions are what a token says, variables stand in the order of their tokens, and
\* instructions begin at 0.
Recorded ==
  /\ \A f \in DOMAIN kind : \E i \in 1 .. Len(src) : IsKind(f, i)
  /\ Live /\ Regular =>
       \A j, k \in DOMAIN data.vars, a, b \in 1 .. Len(src) :
         j < k /\ Declares(a, data.vars[j]) /\ Declares(b, data.vars[k]) => a < b
  /\ \A f \in DOMAIN code : /\ code[f] # << >> => code[f][1].at = 0
                            /\ \A k \in DOMAIN code[f] : code[f][k].op \in {"halt", "nop"} =>
                                                           code[f][k].val = 0

LEMMA SameRecorded ==
  ASSUME Recorded, UNCHANGED <<src, data, kind, code>>, Live' => Live PROVE Recorded'
<1>1. /\ Regular' = Regular /\ \A i, v : Declares(i, v)' = Declares(i, v)
      /\ \A f, i : IsKind(f, i)' = IsKind(f, i)
  BY SameSource DEF IsKind, Defines
<1> QED BY <1>1 DEF Recorded

LEMMA FuncRecorded == ASSUME IInv, Recorded, Directive \/ FirstFunc PROVE Recorded'
<1>1. /\ Typed /\ iter \in 1 .. Len(src) /\ src' = src /\ data' = data /\ Live
      /\ Tok.t \in {"func", "native", "extern"}
      /\ AddFunc(Tok.name, IF Tok.t = "func" THEN "code" ELSE Tok.t)
  BY SourceLength DEF Directive, FirstFunc, At, AtEnd, IInv, Live
<1> DEFINE f == Tok.name
           t == IF Tok.t = "func" THEN "code" ELSE Tok.t
<1>2. /\ DOMAIN kind' = DOMAIN kind \cup {f} /\ \A g \in DOMAIN kind : kind'[g] = kind[g]
      /\ f \notin DOMAIN kind => kind'[f] = t
      /\ DOMAIN code' = DOMAIN code \cup {f} /\ \A g \in DOMAIN code : code'[g] = code[g]
      /\ f \notin DOMAIN code => code'[f] = << >>
  <2>1. kind' = With(kind, f, t) /\ code' = With(code, f, << >>) /\ IsMap(kind) /\ IsMap(code)
    BY <1>1 DEF AddFunc, Typed, Maps
  <2> HIDE DEF f, t
  <2>2. /\ DOMAIN kind' = DOMAIN kind \cup {f} /\ \A g \in DOMAIN kind : kind'[g] = kind[g]
        /\ f \notin DOMAIN kind => kind'[f] = t
    BY <2>1 DEF With
  <2>3. /\ DOMAIN code' = DOMAIN code \cup {f} /\ \A g \in DOMAIN code : code'[g] = code[g]
        /\ f \notin DOMAIN code => code'[f] = << >>
    BY <2>1 DEF With
  <2> QED BY <2>2, <2>3
<1>3. /\ Regular' = Regular /\ \A i, v : Declares(i, v)' = Declares(i, v)
      /\ \A i, g : Defines(i, g)' = Defines(i, g)
  BY <1>1, SameSource
<1>4. ASSUME NEW g \in DOMAIN kind' PROVE \E i \in 1 .. Len(src) : IsKind(g, i)'
  <2>1. CASE g \in DOMAIN kind
    <3>1. PICK i \in 1 .. Len(src) : IsKind(g, i)
      BY <2>1 DEF Recorded
    <3>2. IsKind(g, i)'
      BY <1>1, <1>2, <1>3, <2>1, <3>1 DEF IsKind
    <3> QED BY <3>2
  <2>2. CASE g \notin DOMAIN kind
    <3>1. g = f /\ kind'[f] = t /\ Defines(iter, f)
      BY <1>1, <1>2, <2>2 DEF Defines, Tok
    <3>2. \A i : i = iter => IsKind(g, i)'
      BY <1>1, <1>3, <3>1 DEF IsKind, Tok
    <3> QED BY <1>1, <3>2
  <2> QED BY <2>1, <2>2
<1>5. \A g \in DOMAIN code' : /\ code'[g] # << >> => code'[g][1].at = 0
                              /\ \A k \in DOMAIN code'[g] : code'[g][k].op \in {"halt", "nop"} =>
                                                              code'[g][k].val = 0
  BY <1>2 DEF Recorded
<1>6. \A g \in DOMAIN kind' : \E i \in 1 .. Len(src') : IsKind(g, i)'
  BY <1>1, <1>4
<1> QED BY <1>1, <1>3, <1>5, <1>6 DEF Recorded

LEMMA GlobalRecorded == ASSUME IInv, Recorded, Global PROVE Recorded'
<1>1. /\ Typed /\ iter \in 1 .. Len(src) /\ Len(src) \in Nat /\ UNCHANGED <<src, kind, code>> /\ Live /\ pass = "first"
      /\ Tok.t = "global" /\ data' = [data EXCEPT !.vars = Append(@, Tok.name), !.bytes = With(@, Tok.name, Tok.bytes)]
  BY SourceLength DEF Global, At, AtEnd, IInv, Live
<1>2. data'.vars = Append(data.vars, Tok.name) /\ IsList(data.vars) /\ DOMAIN data.bytes = ToSet(data.vars)
  BY <1>1 DEF Typed, Maps, IsMap, TypeOK
<1>3. /\ Regular' = Regular /\ \A i, v : Declares(i, v)' = Declares(i, v)
      /\ \A f, i : IsKind(f, i)' = IsKind(f, i)
  BY <1>1, SameSource DEF IsKind
<1>4. ASSUME Regular, NEW j \in DOMAIN data'.vars, NEW k \in DOMAIN data'.vars,
             NEW a \in 1 .. Len(src), NEW b \in 1 .. Len(src), j < k,
             Declares(a, data'.vars[j]), Declares(b, data'.vars[k])
      PROVE  a < b
  <2>1. /\ DOMAIN data.vars = 1 .. Len(data.vars) /\ Len(data.vars) \in Nat
        /\ DOMAIN data'.vars = 1 .. Len(data.vars) + 1
        /\ data'.vars[Len(data.vars) + 1] = Tok.name
        /\ \A i \in DOMAIN data.vars : data'.vars[i] = data.vars[i]
    BY <1>2, AppendList DEF IsList
  <2>2. j \in DOMAIN data.vars /\ data'.vars[j] = data.vars[j]
    BY <1>4, <2>1
  <2>3. CASE k \in DOMAIN data.vars
    BY <1>1, <1>4, <2>1, <2>2, <2>3 DEF Recorded
  <2>4. CASE k = Len(data.vars) + 1
    <3>1. PICK i \in 1 .. iter - 1 : Declares(i, data.vars[j])
      <4>1. data.vars[j] \in DOMAIN data.bytes
        BY <1>2, <2>2 DEF ToSet
      <4> QED BY <1>1, <4>1 DEF IInv, Collected, Seen
    <3>2. \A c \in 1 .. Len(src), d \in 1 .. Len(src) : \A v : Declares(c, v) /\ Declares(d, v) => c = d
      <4> SUFFICES ASSUME NEW c \in 1 .. Len(src), NEW d \in 1 .. Len(src), NEW v, Declares(c, v), Declares(d, v), c # d
                   PROVE  FALSE
        OBVIOUS
      <4>0. \A n \in 1 .. Len(src) : src[n].t = "global" =>
               \A e \in 1 .. n - 1 : src[e].t = "global" => src[e].name # src[n].name
        BY <1>4 DEF Regular
      <4>1. CASE c < d
        BY <1>1, <4>0, <4>1 DEF Declares
      <4>2. CASE d < c
        BY <1>1, <4>0, <4>2 DEF Declares
      <4> QED BY <4>1, <4>2
    <3>3. i = a
      BY <1>1, <1>4, <2>2, <3>1, <3>2
    <3>4. b = iter
      BY <1>1, <1>4, <2>1, <2>4, <3>2 DEF Declares, Tok
    <3> QED BY <1>1, <3>1, <3>3, <3>4
  <2> QED BY <2>1, <2>3, <2>4
<1> QED BY <1>1, <1>3, <1>4 DEF Recorded

LEMMA EmitRecorded ==
  ASSUME IInv, Recorded, SecondOp \/ SecondType \/ SecondJump \/ SecondCall \/ SecondVar PROVE Recorded'
<1>1. PICK op \in Op : \E val : Emit(op, val) /\ (op \in {"halt", "nop"} => val = 0)
  BY DEF SecondOp, SecondType, SecondJump, SecondCall, SecondVar, Op, Number
<1>2. PICK val : Emit(op, val) /\ (op \in {"halt", "nop"} => val = 0)
  BY <1>1
<1>3. Typed /\ pass = "second" /\ active # NONE /\ Live
  BY Emits DEF IInv, Live
<1> DEFINE r == [op |-> op, val |-> val, at |-> Size(active), pos |-> iter]
<1>4. UNCHANGED <<src, data, kind>> /\ code' = [code EXCEPT ![active] = Append(@, r)]
  BY <1>2 DEF Emit
<1>5. r.op = op /\ r.val = val /\ r.at = Size(active)
  OBVIOUS
<1> HIDE DEF r
<1>6. /\ Regular' = Regular /\ \A i, v : Declares(i, v)' = Declares(i, v)
      /\ \A f, i : IsKind(f, i)' = IsKind(f, i)
  BY <1>4, SameSource DEF IsKind
<1>7. ASSUME NEW f \in DOMAIN code'
      PROVE  /\ code'[f] # << >> => code'[f][1].at = 0
             /\ \A k \in DOMAIN code'[f] : code'[f][k].op \in {"halt", "nop"} => code'[f][k].val = 0
  <2>1. f \in DOMAIN code /\ IsList(code[f])
    BY <1>3, <1>4 DEF Typed, Maps, IsMap, IInv, Generated
  <2>2. CASE f # active
    BY <1>4, <2>1, <2>2 DEF Recorded
  <2>3. CASE f = active
    <3>1. code'[f] = Append(code[f], r)
      BY <1>4, <2>1, <2>3
    <3>2. /\ DOMAIN code'[f] = 1 .. Len(code[f]) + 1 /\ code'[f][Len(code[f]) + 1] = r
          /\ \A k \in DOMAIN code[f] : code'[f][k] = code[f][k]
          /\ DOMAIN code[f] = 1 .. Len(code[f]) /\ Len(code[f]) \in Nat
      BY <2>1, <3>1, AppendList DEF IsList
    <3>3. \A k \in DOMAIN code'[f] : code'[f][k] = r \/ \E j \in DOMAIN code[f] : code'[f][k] = code[f][j]
      BY <3>2
    <3>4. \A k \in DOMAIN code'[f] : code'[f][k].op \in {"halt", "nop"} => code'[f][k].val = 0
      BY <1>2, <1>5, <2>1, <3>3 DEF Recorded
    <3>5. CASE code[f] = << >>
      <4>1. Len(code[f]) = 0 /\ Size(f) = 0
        BY <3>5 DEF Size
      <4> QED BY <1>5, <2>3, <3>2, <3>4, <4>1
    <3>6. CASE code[f] # << >>
      <4>1. Len(code[f]) # 0
        BY <2>1, <3>2, <3>6 DEF IsList, IsMap
      <4>2. 1 \in DOMAIN code[f]
        BY <3>2, <4>1
      <4> QED BY <2>1, <3>2, <3>4, <3>6, <4>2 DEF Recorded
    <3> QED BY <3>5, <3>6
  <2> QED BY <2>2, <2>3
<1> QED BY <1>3, <1>4, <1>6, <1>7 DEF Recorded

LEMMA StepRecorded == ASSUME IInv, Recorded, [Pass]_vars PROVE Recorded'
<1>1. CASE Directive \/ FirstFunc
  BY <1>1, FuncRecorded
<1>2. CASE Global
  BY <1>2, GlobalRecorded
<1>3. CASE SecondOp \/ SecondType \/ SecondJump \/ SecondCall \/ SecondVar
  BY <1>3, EmitRecorded
<1>4. CASE SizeDirective
  <2>1. /\ UNCHANGED <<src, kind, code>> /\ data'.vars = data.vars /\ Live
    <3>1. Typed /\ Tok.which \in DOMAIN Unit /\ Live /\ data' = [data EXCEPT ![Tok.which] = U32(Tok.num * Unit[Tok.which])]
          /\ UNCHANGED <<src, kind, code>>
      BY <1>4, SourceLength DEF SizeDirective, IInv, Live, At, AtEnd, Tok, Typed, IsSource
    <3> QED BY <3>1, Units DEF Typed, Maps, IsMap
  <2>2. /\ Regular' = Regular /\ \A i, v : Declares(i, v)' = Declares(i, v)
        /\ \A f, i : IsKind(f, i)' = IsKind(f, i)
    BY <2>1, SameSource DEF IsKind
  <2> QED BY <2>1, <2>2 DEF Recorded
<1>5. CASE \/ FirstOp \/ FirstLabel \/ End \/ EndFirst \/ SkipDirective \/ SkipLabel \/ SecondFunc
           \/ SecondText \/ Stops \/ Write \/ UNCHANGED vars
  <2>1. UNCHANGED <<src, data, kind, code>> /\ (Live' => Live)
    BY <1>5 DEF FirstOp, FirstLabel, End, EndFirst, SkipDirective, SkipLabel, SecondFunc, SecondText, Stops, Stop, Write,
                DirectiveError, GlobalOverfills, FirstError, NoFunction, SecondError, EndSecond, vars, Live
  <2> QED BY <2>1, SameRecorded
<1> QED BY <1>1, <1>2, <1>3, <1>4, <1>5 DEF Pass, Stops

LEMMA InitRecorded == ASSUME Unread PROVE Recorded
BY DEF Unread, Recorded, NoData

\* In the bytes of a function the instructions follow each other.
LEMMA Ascending ==
  ASSUME NEW q, Follows(q), \A k \in DOMAIN q : q[k].at \in Nat
  PROVE  \A j, k \in DOMAIN q : j < k => q[j].at + Bytes[q[j].op] <= q[k].at
<1>1. DOMAIN q = 1 .. Len(q) /\ Len(q) \in Nat
  BY DEF Follows, IsList
<1>2. \A k \in 1 .. Len(q) - 1 : q[k + 1].at = q[k].at + Bytes[q[k].op]
  BY <1>1, Lengths DEF Follows
<1>3. \A k \in 1 .. Len(q) : Bytes[q[k].op] \in Nat
  BY <1>1, Lengths DEF Follows
<1> SUFFICES ASSUME NEW j \in DOMAIN q, NEW l \in DOMAIN q, j < l, ~(q[j].at + Bytes[q[j].op] <= q[l].at)
             PROVE  FALSE
  OBVIOUS
<1> DEFINE S == {k \in 1 .. Len(q) : j < k /\ ~(q[j].at + Bytes[q[j].op] <= q[k].at)}
<1>4. S \in SUBSET Nat /\ l \in S
  BY <1>1
<1>5. PICK k \in S : \A m \in S : k <= m
  BY <1>4, Least
<1>6. k - 1 \in 1 .. Len(q) - 1 /\ k - 1 \in 1 .. Len(q) /\ j <= k - 1 /\ (k - 1) + 1 = k
  BY <1>1, <1>5
<1>7. q[k].at = q[k - 1].at + Bytes[q[k - 1].op]
  BY <1>2, <1>6
<1>8. j # k - 1
  BY <1>5, <1>7
<1>9. k - 1 \notin S
  BY <1>1, <1>5
<1>10. q[j].at + Bytes[q[j].op] <= q[k - 1].at
  BY <1>6, <1>8, <1>9
<1>11. q[k - 1].at \in Nat /\ q[j].at \in Nat /\ Bytes[q[k - 1].op] \in Nat /\ Bytes[q[j].op] \in Nat /\ q[k].at \in Nat
  BY <1>1, <1>3, <1>5, <1>6
<1>12. ~(q[j].at + Bytes[q[j].op] <= q[k].at)
  BY <1>5
<1> HIDE DEF S
<1>13. q[k - 1].at <= q[k].at
  BY <1>7, <1>11
<1> QED BY <1>10, <1>11, <1>12, <1>13

\* An operation that the second pass has seen has an instruction, which begins at the bytes before it.
LEMMA Generates ==
  ASSUME IInv, Placed, Laid, NEW f \in DOMAIN code, NEW i \in 1 .. Len(src), i < Reached,
         src[i].t = "op", Around(src, i) = f
  PROVE  \E k \in DOMAIN code[f] : code[f][k].pos = i /\ code[f][k].at = Before(src)[i]
<1>1. /\ Typed /\ Len(src) \in Nat /\ IsSource(src) /\ Reached \in 1 .. Len(src) + 1 /\ f # NONE
  BY SourceLength, AssemblerAssumption DEF IInv, Typed, TypeOK, Reached, ToSet
<1>2. /\ Around(src, i + 1) = f /\ Before(src)[i + 1] = Before(src)[i] + Bytes[src[i].op]
  BY <1>1, AroundNext, BeforeNext DEF After
<1> DEFINE q == code[f]
           n == Before(src)[i]
           b == Bytes[src[i].op]
<1>3. b \in Nat /\ b > 0
  BY <1>1, Lengths DEF IsSource
<1>4. i \in 1 .. Reached /\ i + 1 \in 1 .. Reached
  BY <1>1
<1>5. Lies(i, Around(src, i)) /\ Lies(i + 1, Around(src, i + 1))
  BY <1>4 DEF Placed
<1>6. Splits(q, i, n) /\ Splits(q, i + 1, n + b)
  BY <1>1, <1>2, <1>5 DEF Lies
<1>7. Packed(q, Reached)
  BY DEF Placed
<1>8. \A k \in DOMAIN q : q[k].pos \in Nat /\ q[k].at \in Nat
  BY <1>7 DEF Packed
<1>9. n \in Int /\ Total(q) \in Int
  <2>1. Total(q) \in Nat
    <3>1. Follows(q)
      BY DEF Laid
    <3>2. q # << >> => Len(q) \in DOMAIN q
      BY <3>1 DEF Follows, IsList, IsMap
    <3>3. q # << >> => q[Len(q)].at \in Nat /\ Length(q[Len(q)].op) \in Nat
      BY <1>8, <3>1, <3>2, Lengths DEF Follows
    <3> QED BY <3>3 DEF Total
  <2>2. n = Total(q) \/ \E k \in DOMAIN q : q[k].at = n
    BY <1>6 DEF Splits
  <2> QED BY <1>8, <2>1, <2>2
<1>10. n < Total(q)
  BY <1>3, <1>6, <1>9 DEF Splits
<1>11. PICK k \in DOMAIN q : q[k].at = n
  BY <1>6, <1>9, <1>10 DEF Splits
<1>12. q[k].pos < i + 1 /\ ~(q[k].pos < i)
  BY <1>3, <1>6, <1>9, <1>11 DEF Splits
<1> QED BY <1>8, <1>11, <1>12

\* Instructions have the order of their operations, and each operation has one.
LEMMA InTurn ==
  ASSUME IInv, Placed, Laid, Reached = Len(src) + 1, NEW f \in DOMAIN code PROVE Translated(f)
<1>1. /\ Typed /\ Len(src) \in Nat /\ IsSource(src)
  BY SourceLength DEF IInv, Typed
<1> DEFINE q == code[f]
<1>2. /\ Packed(q, Reached) /\ Follows(q) /\ \A k \in DOMAIN q : Aims(q[k], f)
  BY DEF Placed, Laid
<1>3. /\ \A k \in DOMAIN q : q[k].pos \in Nat /\ q[k].at \in Nat
      /\ \A j, k \in DOMAIN q : j < k => q[j].at + Bytes[q[j].op] <= q[k].at
      /\ \A k \in DOMAIN q : Bytes[q[k].op] \in Nat /\ Bytes[q[k].op] > 0
      /\ DOMAIN q \in SUBSET Nat
  <2>1. \A k \in DOMAIN q : q[k].pos \in Nat /\ q[k].at \in Nat
    BY <1>2 DEF Packed
  <2>2. \A j, k \in DOMAIN q : j < k => q[j].at + Bytes[q[j].op] <= q[k].at
    BY <1>2, <2>1, Ascending
  <2>3. /\ \A k \in DOMAIN q : Bytes[q[k].op] \in Nat /\ Bytes[q[k].op] > 0
        /\ DOMAIN q \in SUBSET Nat
    BY <1>2, Lengths DEF Follows, IsList
  <2> QED BY <2>1, <2>2, <2>3
<1>4. \A k \in DOMAIN q : /\ q[k].pos \in 1 .. Len(src) /\ Around(src, q[k].pos) = f
                          /\ src[q[k].pos].t = "op" /\ src[q[k].pos].op = q[k].op
  BY <1>2 DEF Aims
<1>5. ASSUME NEW k \in DOMAIN q PROVE q[k].at = Before(src)[q[k].pos]
  <2> DEFINE i == q[k].pos
  <2>1. i \in 1 .. Len(src) /\ i < Reached /\ Around(src, i) = f /\ src[i].t = "op" /\ src[i].op = q[k].op
    BY <1>1, <1>4
  <2>2. PICK h \in DOMAIN q : q[h].pos = i /\ q[h].at = Before(src)[i]
    BY <2>1, Generates
  <2>3. i \in 1 .. Reached /\ i + 1 \in 1 .. Reached /\ f # NONE
    BY <1>1, <2>1, AssemblerAssumption DEF Typed, TypeOK, ToSet
  <2>4. Around(src, i + 1) = f /\ Before(src)[i + 1] = Before(src)[i] + Bytes[src[i].op]
    BY <1>1, <2>1, AroundNext, BeforeNext DEF After
  <2>5. Lies(i, Around(src, i)) /\ Lies(i + 1, Around(src, i + 1))
    BY <2>3 DEF Placed
  <2>6. Splits(q, i, Before(src)[i]) /\ Splits(q, i + 1, Before(src)[i + 1])
    BY <2>1, <2>3, <2>4, <2>5 DEF Lies
  <2>7. ~(q[k].at < Before(src)[i]) /\ q[k].at < Before(src)[i] + Bytes[src[i].op]
    BY <1>3, <2>4, <2>6 DEF Splits
  <2>8. src[i].op = q[h].op
    BY <1>4, <2>2
  <2>9. ~(h < k) /\ ~(k < h)
    BY <1>3, <2>2, <2>7, <2>8
  <2> QED BY <1>3, <2>2, <2>9
<1>6. ASSUME NEW j \in DOMAIN q, NEW k \in DOMAIN q, j < k PROVE q[j].pos < q[k].pos
  <2>1. q[k].pos \in 1 .. Reached /\ f # NONE
    BY <1>1, <1>4, AssemblerAssumption DEF Typed, TypeOK, ToSet
  <2>2. Splits(q, q[k].pos, Before(src)[q[k].pos])
    BY <1>4, <2>1 DEF Placed, Lies
  <2>3. q[j].at < q[k].at
    BY <1>3, <1>6
  <2> QED BY <1>5, <2>2, <2>3 DEF Splits
<1>7. ASSUME NEW i \in 1 .. Len(src), src[i].t = "op", Around(src, i) = f
      PROVE  \E k \in DOMAIN q : q[k].pos = i
  <2>1. i < Reached
    BY <1>1
  <2> QED BY <1>7, <2>1, Generates
<1>8. {r.pos : r \in ToSet(q)} = {i \in 1 .. Len(src) : src[i].t = "op" /\ Enclosing(i) = f}
  BY <1>4, <1>7 DEF ToSet, Enclosing
<1>9. \A r \in ToSet(q) : r.op = src[r.pos].op
  BY <1>4 DEF ToSet
<1> QED BY <1>6, <1>8, <1>9 DEF Translated

\* When the second pass is done, every number is the encoded operand.
LEMMA DoneKept == ASSUME IInv, JInv, Laid, Recorded, pass = "done", Regular PROVE OperandsKept
<1>1. Typed /\ Collected(Len(src) + 1) /\ Generated /\ Written
  BY DEF IInv, Live, Seen
<1>2. Len(src) \in Nat /\ Len(src) + 1 - 1 = Len(src)
  BY <1>1 DEF Typed, IsSource
<1>3. /\ IsList(vec) /\ Once(vec) /\ DOMAIN kind = ToSet(vec) /\ DOMAIN code = DOMAIN kind
      /\ IsList(data.vars) /\ Once(data.vars) /\ DOMAIN data.bytes = ToSet(data.vars)
  BY <1>1, VecList DEF Typed, TypeOK, Maps, Collected
<1>4. /\ DOMAIN vec = 1 .. Len(vec) /\ Cardinality(DOMAIN kind) = Len(vec)
      /\ DOMAIN data.vars = 1 .. Len(data.vars) /\ Cardinality(DOMAIN data.bytes) = Len(data.vars)
  BY <1>3, CountOnce DEF IsList
<1>5. /\ DOMAIN file.funcs = DOMAIN vec
      /\ \A i \in DOMAIN vec : file.funcs[i] = [name |-> vec[i], kind |-> kind[vec[i]], code |-> code[vec[i]]]
      /\ DOMAIN file.vars = DOMAIN data.vars
      /\ \A i \in DOMAIN data.vars : file.vars[i] = [name |-> data.vars[i], bytes |-> data.bytes[data.vars[i]]]
  BY <1>1, <1>4 DEF Written
<1>6. \A f \in DOMAIN kind :
        \E i \in DOMAIN file.funcs : file.funcs[i].name = f /\ file.funcs[i].code = code[f]
  <2> SUFFICES ASSUME NEW f \in DOMAIN kind
               PROVE  \E i \in DOMAIN file.funcs : file.funcs[i].name = f /\ file.funcs[i].code = code[f]
    OBVIOUS
  <2>1. PICK i \in DOMAIN vec : vec[i] = f
    BY <1>3 DEF ToSet
  <2>2. i \in DOMAIN file.funcs /\ file.funcs[i] = [name |-> f, kind |-> kind[f], code |-> code[f]]
    BY <1>5, <2>1
  <2>3. file.funcs[i].name = f /\ file.funcs[i].code = code[f]
    BY <2>2
  <2> QED BY <2>2, <2>3
<1>7. ASSUME NEW i \in DOMAIN file.funcs, NEW r \in ToSet(file.funcs[i].code)
      PROVE  /\ r.op \in Number => r.val = src[r.pos].arg
             /\ r.op = "setelen" => r.val = Sizeof[src[r.pos].arg]
             /\ r.op = "call"   => r.val \in DOMAIN file.funcs /\ file.funcs[r.val].name = src[r.pos].arg
             /\ r.op = "ldfn"   => /\ r.val + 1 \in DOMAIN file.funcs
                                   /\ file.funcs[r.val + 1].name = src[r.pos].arg
             /\ r.op = "ldvar"  => /\ r.val + 1 \in DOMAIN file.vars
                                   /\ file.vars[r.val + 1].name = src[r.pos].arg
  <2>1. vec[i] \in DOMAIN code /\ r \in ToSet(code[vec[i]])
    <3>1. vec[i] \in DOMAIN code
      BY <1>3, <1>5 DEF ToSet
    <3>2. file.funcs[i] = [name |-> vec[i], kind |-> kind[vec[i]], code |-> code[vec[i]]]
      BY <1>5
    <3>3. file.funcs[i].code = code[vec[i]]
      BY <3>2
    <3> QED BY <1>7, <3>1, <3>3
  <2>2. Means(r)
    BY <1>1, <2>1 DEF Generated, ToSet
  <2>3. ASSUME r.op \in Number PROVE r.val = src[r.pos].arg
    <3>1. /\ r.pos \in 1 .. Len(src) /\ src[r.pos].t = "op" /\ src[r.pos].op = r.op
          /\ Operand(r.op, src[r.pos].arg) /\ r.val \in Encoded(r.op, src[r.pos].arg)
          /\ Accepted(r.op, src[r.pos].arg)
      BY <1>1, <2>2, <2>3 DEF Means, Typed, IsSource
    <3>2. InRange(r.op, src[r.pos].arg)
      BY <2>3, <3>1 DEF Regular
    <3> QED BY <2>3, <3>1, <3>2, Unchanged
  <2>4. ASSUME r.op \in {"call", "ldfn"}
        PROVE  LET k == r.val + IF r.op = "call" THEN 0 ELSE 1
               IN  k \in DOMAIN file.funcs /\ file.funcs[k].name = src[r.pos].arg
    <3>1. /\ src[r.pos].arg \in ToSet(vec)
          /\ r.val = Index(src[r.pos].arg) + IF r.op = "call" THEN 1 ELSE 0
      BY <1>3, <2>2, <2>4 DEF Means
    <3> DEFINE k == IndexIn(vec, src[r.pos].arg) + 1
    <3>2. k \in DOMAIN vec /\ vec[k] = src[r.pos].arg
      BY <1>3, <3>1, IndexOnce
    <3>3. IndexIn(vec, src[r.pos].arg) \in Int
      <4>1. PICK x : IndexIn(vec, src[r.pos].arg) = x - 1 /\ x \in 1 .. Len(vec)
        <5>1. PICK j \in 1 .. Len(vec) : vec[j] = src[r.pos].arg
          BY <1>4, <3>1 DEF ToSet
        <5>2. \A l \in 1 .. j - 1 : vec[l] # src[r.pos].arg
          BY <1>3, <1>4, <5>1 DEF Once, IsList
        <5> QED BY <5>1, <5>2 DEF IndexIn
      <4> QED BY <4>1
    <3>4. r.val + (IF r.op = "call" THEN 0 ELSE 1) = k
      BY <2>4, <3>1, <3>3 DEF Index
    <3>5. k \in DOMAIN file.funcs /\ file.funcs[k] = [name |-> vec[k], kind |-> kind[vec[k]], code |-> code[vec[k]]]
      BY <1>5, <3>2
    <3> HIDE DEF k
    <3>6. file.funcs[k].name = src[r.pos].arg
      BY <3>2, <3>5
    <3> QED BY <3>4, <3>5, <3>6
  <2>5. ASSUME r.op = "ldvar"
        PROVE  r.val + 1 \in DOMAIN file.vars /\ file.vars[r.val + 1].name = src[r.pos].arg
    <3>1. src[r.pos].arg \in ToSet(data.vars) /\ r.val = IndexIn(data.vars, src[r.pos].arg)
      BY <1>3, <2>2, <2>5 DEF Means
    <3> DEFINE k == IndexIn(data.vars, src[r.pos].arg) + 1
    <3>2. k \in DOMAIN data.vars /\ data.vars[k] = src[r.pos].arg
      BY <1>3, <3>1, IndexOnce
    <3>3. k \in DOMAIN file.vars /\ file.vars[k] = [name |-> data.vars[k], bytes |-> data.bytes[data.vars[k]]]
      BY <1>5, <3>2
    <3>4. r.val + 1 = k
      BY <3>1
    <3> HIDE DEF k
    <3>5. file.vars[k].name = src[r.pos].arg
      BY <3>2, <3>3
    <3> QED BY <3>3, <3>4, <3>5
  <2>6. ASSUME r.op = "call" PROVE r.val \in Int
    <3>1. src[r.pos].arg \in ToSet(vec) /\ r.val = IndexIn(vec, src[r.pos].arg) + 1
      BY <1>3, <2>2, <2>6 DEF Means, Index
    <3> QED BY <1>3, <1>4, <3>1, IndexOnce
  <2>7. r.op = "call" => r.val + 0 = r.val
    BY <2>6
  <2>8. r.op = "setelen" => r.val = Sizeof[src[r.pos].arg]
    BY <2>2 DEF Means
  <2> QED BY <2>3, <2>4, <2>5, <2>7, <2>8
<1>8. ASSUME NEW i \in 1 .. Len(src), src[i].t = "global"
      PROVE  [name |-> src[i].name, bytes |-> src[i].bytes] \in ToSet(file.vars)
  <2>1. src[i].name \in DOMAIN data.bytes /\ data.bytes[src[i].name] = src[i].bytes
    BY <1>1, <1>2, <1>8 DEF Collected
  <2>2. PICK j \in DOMAIN data.vars : data.vars[j] = src[i].name
    BY <1>3, <2>1 DEF ToSet
  <2>3. file.vars[j] = [name |-> src[i].name, bytes |-> src[i].bytes]
    BY <1>5, <2>1, <2>2
  <2> QED BY <1>5, <2>3 DEF ToSet
<1>9. \A which \in DOMAIN Unit : data[which] = Asked(which) * Unit[which]
  BY <1>1, AskedIsLast DEF Collected
<1>10. \A f \in DOMAIN code : Translated(f)
  <2>1. Placed /\ Reached = Len(src) + 1
    BY DEF JInv, Live, Orderly, Landing, Reached
  <2> QED BY <2>1, InTurn
<1>11. \A f \in DOMAIN kind : \E i \in 1 .. Len(src) :
         Defines(i, f) /\ kind[f] = IF src[i].t = "func" THEN "code" ELSE src[i].t
  BY DEF Recorded, IsKind
<1>12. \A j, k \in DOMAIN file.vars, a, b \in 1 .. Len(src) :
         j < k /\ src[a].t = "global" /\ src[a].name = file.vars[j].name
               /\ src[b].t = "global" /\ src[b].name = file.vars[k].name => a < b
  <2> SUFFICES ASSUME NEW j \in DOMAIN file.vars, NEW k \in DOMAIN file.vars, NEW a \in 1 .. Len(src), NEW b \in 1 .. Len(src),
                      j < k, src[a].t = "global", src[a].name = file.vars[j].name,
                      src[b].t = "global", src[b].name = file.vars[k].name
               PROVE  a < b
    OBVIOUS
  <2>1. ASSUME NEW i \in DOMAIN data.vars PROVE file.vars[i].name = data.vars[i]
    <3>1. file.vars[i] = [name |-> data.vars[i], bytes |-> data.bytes[data.vars[i]]]
      BY <1>5
    <3> QED BY <3>1
  <2>2. Declares(a, data.vars[j]) /\ Declares(b, data.vars[k]) /\ j \in DOMAIN data.vars /\ k \in DOMAIN data.vars
    BY <1>5, <2>1 DEF Declares
  <2> QED BY <2>2 DEF Recorded, Live
<1> QED BY <1>6, <1>7, <1>8, <1>9, <1>10, <1>11, <1>12 DEF OperandsKept

\* What functions are, the order of variables and the first instruction stay right, for every source.
THEOREM RecordedAlways == Spec => []Recorded
<1>1. Init => Recorded
  BY InitRecorded DEF Init
<1>2. IInv /\ Recorded /\ [Pass]_vars => Recorded'
  BY StepRecorded
<1> QED BY <1>1, <1>2, Invariance, PTL DEF Spec

\* In the module of any regular source no operation is lost, doubled or out of order, numbers are
\* those written, the numbers of functions and variables mean those that were named, and functions,
\* variables and sizes are those that were declared (assembler.c:596, 756, 780, 992).
THEOREM NumbersMean == Spec => []OperandsKept
<1>1. IInv /\ JInv /\ Laid /\ Recorded => OperandsKept
  BY DoneKept DEF OperandsKept
<1> QED BY <1>1, Invariance, SameCounts, LaidAlways, RecordedAlways, PTL
----------------------------------------------------------------------------
(* Sums.  FoldSeq adds the elements in an order of its own, by a recursion  *)
(* over sets of places; the sums here go through the places in order.      *)

Chosen(S) == CHOOSE x \in S : TRUE
\* The function that FoldSeq is a value of.
Adds(h, q, I) == h = [S \in SUBSET I |-> IF S = {} THEN 0 ELSE q[Chosen(S)] + h[S \ {Chosen(S)}]]

\* FoldSeq is that function at all places.
LEMMA FoldAdds ==
  ASSUME NEW q PROVE FoldSeq(+, 0, q) = (CHOOSE h : Adds(h, q, DOMAIN q))[DOMAIN q]
BY DEF FoldSeq, FoldFunction, FoldFunctionOnSet, MapThenFoldSet, Adds, Chosen

\* The sums of the elements at the first places that are in S.
Sums(o, q, S, n) ==
  /\ o \in [0 .. n -> Nat] /\ o[0] = 0
  /\ \A k \in 1 .. n : o[k] = o[k - 1] + IF k \in S THEN q[k] ELSE 0

\* Every list has such sums.
LEMMA SumsExist ==
  ASSUME NEW n \in Nat, NEW q \in [1 .. n -> Nat], NEW S
  PROVE  \E o : Sums(o, q, S, n)
<1> DEFINE Bad == {m \in 0 .. n : ~\E o : Sums(o, q, S, m)}
<1> SUFFICES ASSUME Bad # {} PROVE FALSE
  <2>1. n \in 0 .. n
    OBVIOUS
  <2> QED BY <2>1
<1>1. PICK m \in Bad : \A l \in Bad : m <= l
  <2>1. Bad \in SUBSET Nat
    OBVIOUS
  <2> QED BY <2>1, Least
<1>2. m # 0
  <2>1. Sums([i \in 0 .. 0 |-> 0], q, S, 0)
    BY DEF Sums
  <2> QED BY <1>1, <2>1
<1>3. m - 1 \in 0 .. n /\ m - 1 \notin Bad /\ m \in 1 .. n
  BY <1>1, <1>2
<1>4. PICK o : Sums(o, q, S, m - 1)
  BY <1>3
<1> DEFINE p == [i \in 0 .. m |-> IF i = m THEN o[m - 1] + (IF m \in S THEN q[m] ELSE 0) ELSE o[i]]
<1>5. o \in [0 .. m - 1 -> Nat] /\ q[m] \in Nat
  BY <1>3, <1>4 DEF Sums
<1>6. p \in [0 .. m -> Nat] /\ p[0] = 0
  BY <1>3, <1>4, <1>5 DEF Sums
<1>7. ASSUME NEW k \in 1 .. m PROVE p[k] = p[k - 1] + IF k \in S THEN q[k] ELSE 0
  <2>1. CASE k = m
    BY <1>3, <2>1
  <2>2. CASE k # m
    <3>1. k \in 1 .. m - 1 /\ p[k] = o[k] /\ p[k - 1] = o[k - 1]
      BY <1>3, <2>2
    <3>2. o[k] = o[k - 1] + IF k \in S THEN q[k] ELSE 0
      BY <1>4, <3>1 DEF Sums
    <3> QED BY <3>1, <3>2
  <2> QED BY <2>1, <2>2
<1>8. Sums(p, q, S, m)
  <2> HIDE DEF p
  <2> QED BY <1>6, <1>7 DEF Sums
<1> QED BY <1>1, <1>8

\* Sums of the same elements are the same.
LEMMA SumsSame ==
  ASSUME NEW n \in Nat, NEW m \in 0 .. n, NEW q, NEW p, NEW S, NEW R,
         \A k \in 1 .. m : (k \in S <=> k \in R) /\ p[k] = q[k],
         NEW o, Sums(o, q, S, n), NEW r, Sums(r, p, R, m)
  PROVE  \A k \in 0 .. m : r[k] = o[k]
<1> DEFINE Bad == {k \in 0 .. m : r[k] # o[k]}
<1> SUFFICES ASSUME Bad # {} PROVE FALSE
  OBVIOUS
<1>1. PICK k \in Bad : \A l \in Bad : k <= l
  <2>1. Bad \in SUBSET Nat
    OBVIOUS
  <2> QED BY <2>1, Least
<1>2. k # 0
  BY <1>1 DEF Sums
<1>3. k \in 1 .. m /\ k \in 1 .. n /\ k - 1 \in 0 .. m /\ ~(k <= k - 1)
  BY <1>1, <1>2
<1>4. r[k - 1] = o[k - 1]
  BY <1>1, <1>3
<1>5. r[k] = r[k - 1] + (IF k \in R THEN p[k] ELSE 0) /\ o[k] = o[k - 1] + IF k \in S THEN q[k] ELSE 0
  BY <1>3 DEF Sums
<1>6. (k \in S <=> k \in R) /\ p[k] = q[k]
  BY <1>3
<1>7. r[k] = o[k]
  BY <1>4, <1>5, <1>6
<1> QED BY <1>1, <1>7

\* Without one place its element is missing from there on.
LEMMA SumsWithout ==
  ASSUME NEW n \in Nat, NEW q \in [1 .. n -> Nat], NEW S, NEW x \in 1 .. n, x \in S,
         NEW o, Sums(o, q, S, n), NEW r, Sums(r, q, S \ {x}, n)
  PROVE  o[n] = q[x] + r[n]
<1> DEFINE Good(k) == o[k] = r[k] + IF x <= k THEN q[x] ELSE 0
           Bad == {k \in 0 .. n : ~Good(k)}
<1>1. ASSUME Bad # {} PROVE FALSE
  <2>1. PICK k \in Bad : \A l \in Bad : k <= l
    <3>1. Bad \in SUBSET Nat
      OBVIOUS
    <3> QED BY <1>1, <3>1, Least
  <2>2. k # 0
    BY <2>1 DEF Sums
  <2>3. k \in 1 .. n /\ k - 1 \in 0 .. n /\ ~(k <= k - 1)
    BY <2>1, <2>2
  <2>4. Good(k - 1)
    BY <2>1, <2>3
  <2>5. /\ o[k] = o[k - 1] + IF k \in S THEN q[k] ELSE 0
        /\ r[k] = r[k - 1] + IF k \in S \ {x} THEN q[k] ELSE 0
        /\ r[k - 1] \in Nat
    BY <2>3 DEF Sums
  <2>6. q[k] \in Nat /\ q[x] \in Nat
    BY <2>3
  <2>7. Good(k)
    <3>1. CASE k = x
      BY <2>3, <2>4, <2>5, <2>6, <3>1
    <3>2. CASE k # x
      <4>1. k \in S <=> k \in S \ {x}
        BY <3>2
      <4>2. x <= k - 1 <=> x <= k
        BY <2>3, <3>2
      <4> QED BY <2>4, <2>5, <2>6, <4>1, <4>2
    <3> QED BY <3>1, <3>2
  <2> QED BY <2>1, <2>7
<1>2. n \in 0 .. n /\ Good(n)
  BY <1>1
<1> QED BY <1>2 DEF Sums

\* FoldSeq adds up all elements.
LEMMA FoldIsSum ==
  ASSUME NEW n \in Nat, NEW q \in [1 .. n -> Nat], NEW o, Sums(o, q, 1 .. n, n)
  PROVE  FoldSeq(+, 0, q) = o[n]
<1> DEFINE I == 1 .. n
           part(S) == CHOOSE r : Sums(r, q, S, n)
           g == [S \in SUBSET I |-> part(S)[n]]
<1>1. \A S : Sums(part(S), q, S, n)
  BY SumsExist
<1> HIDE DEF part
<1>2. ASSUME NEW S \in SUBSET I, NEW x \in S PROVE g[S] = q[x] + g[S \ {x}]
  <2>1. x \in 1 .. n /\ S \ {x} \in SUBSET I
    BY <1>2
  <2>2. part(S)[n] = q[x] + part(S \ {x})[n]
    BY <1>1, <2>1, SumsWithout
  <2> QED BY <2>1, <2>2
<1>3. g[{}] = 0
  <2>1. Sums([k \in 0 .. n |-> 0], q, {}, n)
    BY DEF Sums
  <2>2. \A k \in 0 .. n : part({})[k] = [j \in 0 .. n |-> 0][k]
    BY <1>1, <2>1, SumsSame
  <2> QED BY <2>2
<1> HIDE DEF g
<1>4. \A S \in SUBSET I : S # {} => Chosen(S) \in S
  BY DEF Chosen
<1>5. Adds(g, q, I)
  <2>1. g = [S \in SUBSET I |-> g[S]]
    BY DEF g
  <2>2. \A S \in SUBSET I : g[S] = IF S = {} THEN 0 ELSE q[Chosen(S)] + g[S \ {Chosen(S)}]
    BY <1>2, <1>3, <1>4
  <2> DEFINE f(S) == IF S = {} THEN 0 ELSE q[Chosen(S)] + g[S \ {Chosen(S)}]
  <2>3. \A S \in SUBSET I : g[S] = f(S)
    BY <2>2
  <2> HIDE DEF f
  <2>4. g = [S \in SUBSET I |-> f(S)]
    BY <2>1, <2>3
  <2> QED BY <2>4 DEF Adds, f
<1> DEFINE h == CHOOSE f : Adds(f, q, I)
<1>6. Adds(h, q, I)
  BY <1>5
<1> HIDE DEF h
<1>7. IsFiniteSet(I)
  BY FS_Interval
<1>8. \A S \in SUBSET I : IsFiniteSet(S) /\ Cardinality(S) \in Nat
  BY <1>7, FS_Subset, FS_CardinalityType
<1> DEFINE Bad == {m \in Nat : \E S \in SUBSET I : Cardinality(S) = m /\ h[S] # g[S]}
<1>9. ASSUME Bad # {} PROVE FALSE
  <2>1. PICK m \in Bad : \A l \in Bad : m <= l
    BY <1>9, Least
  <2>2. PICK S \in SUBSET I : Cardinality(S) = m /\ h[S] # g[S]
    BY <2>1
  <2>3. /\ h[S] = IF S = {} THEN 0 ELSE q[Chosen(S)] + h[S \ {Chosen(S)}]
        /\ g[S] = IF S = {} THEN 0 ELSE q[Chosen(S)] + g[S \ {Chosen(S)}]
    BY <1>5, <1>6 DEF Adds
  <2>4. S # {}
    BY <2>2, <2>3
  <2>5. Chosen(S) \in S /\ S \ {Chosen(S)} \in SUBSET I
    BY <1>4, <2>4
  <2>6. Cardinality(S \ {Chosen(S)}) = m - 1
    BY <1>8, <2>2, <2>5, FS_RemoveElement
  <2>7. Cardinality(S \ {Chosen(S)}) \in Nat
    BY <1>8, <2>5
  <2>8. Cardinality(S \ {Chosen(S)}) \notin Bad
    <3>1. m \in Nat /\ ~(m <= m - 1)
      BY <2>1
    <3> HIDE DEF Bad
    <3> QED BY <2>1, <2>6, <3>1
  <2> QED BY <2>2, <2>3, <2>4, <2>5, <2>7, <2>8
<1>10. h[I] = g[I]
  BY <1>8, <1>9
<1>11. FoldSeq(+, 0, q) = h[I]
  BY FoldAdds DEF h
<1>12. part(I)[n] = o[n]
  <2>1. \A k \in 0 .. n : part(I)[k] = o[k]
    BY <1>1, SumsSame
  <2> QED BY <2>1
<1> QED BY <1>10, <1>11, <1>12 DEF g

\* The sums of the first elements: each is the one before and an element more.
LEMMA FoldSums ==
  ASSUME NEW q \in Seq(Nat)
  PROVE  \E o \in [0 .. Len(q) -> Nat] :
           /\ o[0] = 0 /\ \A k \in 1 .. Len(q) : o[k] = o[k - 1] + q[k]
           /\ \A i \in 0 .. Len(q) : FoldSeq(+, 0, SubSeq(q, 1, i)) = o[i]
           /\ FoldSeq(+, 0, q) = o[Len(q)]
<1> DEFINE n == Len(q)
<1>1. n \in Nat /\ q \in [1 .. n -> Nat]
  OBVIOUS
<1> HIDE DEF n
<1>2. PICK o : Sums(o, q, 1 .. n, n)
  BY <1>1, SumsExist
<1>3. o \in [0 .. n -> Nat] /\ o[0] = 0 /\ \A k \in 1 .. n : o[k] = o[k - 1] + q[k]
  BY <1>2 DEF Sums
<1>4. ASSUME NEW i \in 0 .. n PROVE FoldSeq(+, 0, SubSeq(q, 1, i)) = o[i]
  <2> DEFINE p == SubSeq(q, 1, i)
  <2>1. p \in [1 .. i -> Nat] /\ \A k \in 1 .. i : p[k] = q[k]
    <3>1. i \in Nat /\ i <= n
      BY <1>1
    <3>2. p \in Seq(Nat) /\ Len(p) = i /\ \A k \in 1 .. i : p[k] = q[k]
      BY <1>1, <3>1 DEF n
    <3>3. \A s \in Seq(Nat) : s \in [1 .. Len(s) -> Nat]
      OBVIOUS
    <3> QED BY <3>2, <3>3
  <2> HIDE DEF p
  <2>2. i \in Nat
    BY <1>1
  <2>3. PICK r : Sums(r, p, 1 .. i, i)
    BY <2>1, <2>2, SumsExist
  <2>4. FoldSeq(+, 0, p) = r[i]
    BY <2>1, <2>2, <2>3, FoldIsSum
  <2>5. \A k \in 0 .. i : r[k] = o[k]
    <3>1. \A k \in 1 .. i : (k \in 1 .. n <=> k \in 1 .. i) /\ p[k] = q[k]
      BY <1>1, <2>1, <2>2
    <3> DEFINE R == 1 .. n
               T == 1 .. i
    <3>2. \A k \in 1 .. i : (k \in R <=> k \in T) /\ p[k] = q[k]
      BY <3>1
    <3>3. Sums(o, q, R, n) /\ Sums(r, p, T, i)
      BY <1>2, <2>3
    <3> HIDE DEF R, T
    <3> QED BY <1>1, <1>4, <3>2, <3>3, SumsSame
  <2>6. i \in 0 .. i
    BY <2>2
  <2> QED BY <2>4, <2>5, <2>6 DEF p
<1>5. FoldSeq(+, 0, q) = o[n]
  BY <1>1, <1>2, FoldIsSum
<1> QED BY <1>3, <1>4, <1>5 DEF n

----------------------------------------------------------------------------
(* Which sources are accepted.                                             *)

\* The loop over the data of a variable comes out right for those that fit, and only for them.
LEMMA DataFit ==
  ASSUME Typed, At("global")
  PROVE  Complete /\ ~Overfills <=> ValidGlobal(iter)
<1> DEFINE d == Tok.data
           n == Len(d)
           b == Tok.bytes
           E(i) == Given(i) = b \/ (i > 0 /\ d[i] = 0)
<1>1. iter \in 1 .. Len(src) /\ src[iter] = Tok /\ d \in Seq(Nat) /\ b \in Nat /\ n \in Nat
  <2>1. iter \in DOMAIN src
    BY SourceLength DEF At, AtEnd
  <2>2. src[iter].bytes \in Nat /\ src[iter].data \in Seq(Nat)
    BY <2>1 DEF Typed, IsSource, At, Tok
  <2> QED BY <2>1, <2>2, SourceLength DEF Tok
<1>2. Ends = {i \in 0 .. n : E(i)}
  BY DEF Ends
<1>3. PICK o \in [0 .. n -> Nat] :
        /\ o[0] = 0 /\ \A k \in 1 .. n : o[k] = o[k - 1] + d[k]
        /\ \A i \in 0 .. n : FoldSeq(+, 0, SubSeq(d, 1, i)) = o[i]
        /\ FoldSeq(+, 0, d) = o[n]
  BY <1>1, FoldSums
<1>0. n \in 0 .. n /\ \A k \in 0 .. n : o[k] \in Nat
  <2> HIDE DEF n
  <2> QED BY <1>1
<1>4. \A i \in 0 .. n : Given(i) = o[i]
  BY <1>3 DEF Given
<1>5. ValidGlobal(iter) <=> /\ \A j \in 1 .. n - 1 : d[j] # 0
                            /\ IF n > 0 /\ d[n] = 0 THEN o[n] < b ELSE o[n] = b
  BY <1>1, <1>3 DEF ValidGlobal
<1>6. Complete <=> n \in Ends /\ \A i \in Ends : i = n
  <2>1. IsFiniteSet(Ends)
    <3>1. IsFiniteSet(0 .. n) /\ Ends \subseteq 0 .. n
      <4>1. 0 \in Int /\ n \in Int
        BY <1>1
      <4> QED BY <1>2, <4>1, FS_Interval
    <3> QED BY <3>1, FS_Subset
  <2>2. Cardinality(Ends) = 1 <=> \E x : Ends = {x}
    BY <2>1, FS_Singleton
  <2> QED BY <2>2 DEF Complete
<1>7. Overfills <=> \E i \in Ends : o[i] > b /\ \A j \in Ends : i <= j
  BY <1>2, <1>4 DEF Overfills
<1>8. \A k \in 1 .. n : d[k] \in Nat /\ k - 1 \in 0 .. n /\ o[k] \in Nat /\ o[k - 1] \in Nat /\ o[k] = o[k - 1] + d[k]
  <2>1. \A q \in Seq(Nat) : q \in [1 .. Len(q) -> Nat]
    OBVIOUS
  <2>2. d \in [1 .. n -> Nat]
    BY <1>1, <2>1
  <2> HIDE DEF d, n
  <2>3. \A k \in 1 .. n : k - 1 \in 0 .. n /\ k \in 0 .. n
    BY <1>1
  <2>4. \A k \in 1 .. n : d[k] \in Nat
    BY <2>2
  <2> QED BY <1>0, <1>3, <2>3, <2>4
<1> HIDE DEF d, n, b, E
<1>9. ASSUME Complete, ~Overfills PROVE ValidGlobal(iter)
  <2>1. n \in 0 .. n /\ E(n)
    BY <1>2, <1>6, <1>9
  <2>2. ASSUME NEW j \in 1 .. n - 1 PROVE d[j] # 0
    <3>1. j \in 0 .. n /\ j # n /\ j > 0
      BY <1>1
    <3> QED BY <1>2, <1>6, <1>9, <3>1 DEF E
  <2>3. CASE n > 0 /\ d[n] = 0
    <3>1. o[n] <= b
      <4>1. ~(o[n] > b)
        BY <1>2, <1>0, <1>6, <1>7, <1>9
      <4> QED BY <1>0, <1>1, <4>1
    <3>2. n - 1 \in 0 .. n /\ n - 1 # n /\ o[n - 1] = o[n]
      BY <1>1, <1>8, <2>3
    <3>3. o[n] # b
      BY <1>2, <1>4, <1>6, <1>9, <3>2 DEF E
    <3>4. o[n] < b
      BY <1>0, <1>1, <3>1, <3>3
    <3> QED BY <1>5, <2>2, <2>3, <3>4
  <2>4. CASE ~(n > 0 /\ d[n] = 0)
    <3>1. o[n] = b
      BY <1>4, <2>1, <2>4 DEF E
    <3> QED BY <1>5, <2>2, <2>4, <3>1
  <2> QED BY <2>3, <2>4
<1>10. ASSUME ValidGlobal(iter) PROVE Complete /\ ~Overfills
  <2>1. \A j \in 1 .. n - 1 : d[j] # 0
    BY <1>5, <1>10
  <2>2. \A i \in 0 .. n - 1 : o[i] <= o[n - 1]
    <3> DEFINE Bad == {k \in 0 .. n - 1 : ~(o[n - 1 - k] <= o[n - 1])}
    <3>1. ASSUME Bad # {} PROVE FALSE
      <4>1. PICK k \in Bad : \A l \in Bad : k <= l
        <5>1. Bad \in SUBSET Nat
          BY <1>1
        <5> QED BY <3>1, <5>1, Least
      <4>2. n - 1 \in 0 .. n /\ o[n - 1] \in Nat
        BY <1>0, <1>1, <4>1
      <4>3. k # 0
        BY <1>1, <4>1, <4>2
      <4>4. k - 1 \in 0 .. n - 1 /\ ~(k <= k - 1)
        BY <1>1, <4>1, <4>3
      <4>5. o[n - 1 - (k - 1)] <= o[n - 1]
        BY <4>1, <4>4
      <4>6. n - 1 - (k - 1) \in 1 .. n /\ n - 1 - (k - 1) - 1 = n - 1 - k
        BY <1>1, <4>1, <4>3
      <4>7. o[n - 1 - k] <= o[n - 1 - (k - 1)]
        BY <1>8, <4>6
      <4>8. ~(o[n - 1 - k] <= o[n - 1])
        BY <4>1
      <4>9. o[n - 1 - k] \in Nat /\ o[n - 1 - (k - 1)] \in Nat
        BY <1>8, <4>6
      <4> HIDE DEF Bad
      <4> QED BY <4>2, <4>5, <4>7, <4>8, <4>9
    <3>2. ASSUME NEW i \in 0 .. n - 1 PROVE o[i] <= o[n - 1]
      <4>1. n - 1 - i \in 0 .. n - 1 /\ n - 1 - (n - 1 - i) = i
        BY <1>1
      <4> QED BY <3>1, <4>1
    <3> QED BY <3>2
  <2>3. ASSUME NEW i \in Ends PROVE i = n
    <3> SUFFICES ASSUME i # n PROVE FALSE
      OBVIOUS
    <3>1. i \in 0 .. n - 1 /\ E(i) /\ i \in 0 .. n /\ n > 0 /\ n \in 1 .. n
      BY <1>1, <1>2
    <3>2. o[i] = b
      <4>1. i > 0 => i \in 1 .. n - 1
        BY <1>1, <3>1
      <4> QED BY <1>4, <2>1, <3>1, <4>1 DEF E
    <3>3. b <= o[n - 1] /\ o[n] = o[n - 1] + d[n] /\ d[n] \in Nat /\ o[n - 1] \in Nat
      BY <1>8, <2>2, <3>1, <3>2
    <3>4. CASE d[n] = 0
      BY <1>1, <1>5, <1>10, <3>1, <3>3, <3>4
    <3>5. CASE d[n] # 0
      BY <1>1, <1>5, <1>10, <3>1, <3>3, <3>5
    <3> QED BY <3>4, <3>5
  <2>4. n \in Ends
    <3>1. n \in 0 .. n
      BY <1>1
    <3>2. E(n)
      BY <1>4, <1>5, <1>10, <3>1 DEF E
    <3> QED BY <1>2, <3>1, <3>2
  <2>5. ~(o[n] > b)
    <3>1. o[n] \in Nat /\ (o[n] < b \/ o[n] = b)
      BY <1>0, <1>5, <1>10
    <3> QED BY <1>1, <3>1
  <2> QED BY <1>6, <1>7, <2>3, <2>4, <2>5
<1> QED BY <1>9, <1>10

\* What the first pass has found of a token that it has read.
Passed(i) ==
  /\ src[i].t # "text"
  /\ src[i].t = "size" => src[i].num \in Nat
  /\ src[i].t = "global" => ValidGlobal(i)
  /\ src[i].t \in {"op", "label", "end"} => Around(src, i) # NONE
  /\ src[i].t = "func" => Around(src, i) = NONE /\ \A j \in 1 .. i - 1 : ~Defines(j, src[i].name)

\* What it has collected from it.
Noted(i) ==
  /\ src[i].t \in {"func", "native", "extern"} => src[i].name \in DOMAIN kind
  /\ src[i].t = "global" => src[i].name \in DOMAIN data.bytes
  /\ src[i].t = "label" /\ Around(src, i) # NONE => Join(src[i].name, Around(src, i)) \in DOMAIN labels

\* What the second pass has found of a token that it has read.
Agreed(i) ==
  /\ src[i].t # "text"
  /\ src[i].t = "op" => ValidOp(i)
  /\ src[i].t = "label" /\ Behind(i) => Around(src, i) # NONE

\* The label that a key is of.
LabelOf(p, k) ==
  /\ src[p].t = "label" /\ ~Behind(p) /\ Around(src, p) # NONE
  /\ k = Join(src[p].name, Around(src, p))

\* The first pass reads the tokens that are not behind an operation, the second one those
\* that are not behind a directive.
Checked ==
  /\ pass = "first" /\ ~AtEnd => ~Behind(iter)
  /\ \A i \in 1 .. Seen - 1 : ~Behind(i) => Passed(i) /\ Noted(i)
  /\ \A k \in DOMAIN labels : \E p \in 1 .. Len(src) : LabelOf(p, k)
  /\ pass # "first" => \A i \in 1 .. Reached - 1 : ~StandsBehind(src, i, Directives) => Agreed(i)

\* A tool that stops has found the source invalid, and one that goes on has found nothing wrong.
VInv ==
  /\ pass \in {"write", "done"} => AtEnd
  /\ pass \in {"failed", "crashed"} /\ Regular => ~Valid
  /\ Live /\ Regular /\ Clean(src, Len(src) + 1) => Checked

\* The tokens that the first pass leaves out are behind an operation, and those that the
\* second one leaves out behind a directive.
LEMMA LeftOut ==
  ASSUME Typed, ~AtEnd, NEW kinds, Tok.t \in kinds, NEW i \in iter + 1 .. NextLine - 1
  PROVE  StandsBehind(src, i, kinds)
<1>1. iter \in 1 .. Len(src) /\ \A k \in iter + 1 .. NextLine - 1 : ~src[k].nl
  BY SourceLength, NextLineAhead DEF AtEnd
<1>2. iter \in 1 .. i - 1 /\ \A k \in iter + 1 .. i : k \in iter + 1 .. NextLine - 1
  BY <1>1, NextLineAhead
<1> QED BY <1>1, <1>2 DEF StandsBehind, Tok

\* Where a pass goes on after a token that is itself not behind an operation.
LEMMA NotBehind ==
  ASSUME Typed, ~AtEnd, ~Behind(iter),
         NEW j, (j = iter + 1 /\ Tok.t # "op") \/ j = NextLine, j <= Len(src)
  PROVE  ~Behind(j)
<1>1. iter \in 1 .. Len(src) /\ Len(src) \in Nat
  BY SourceLength DEF AtEnd
<1>2. CASE j = iter + 1 /\ Tok.t # "op"
  BY <1>1, <1>2, BehindNext DEF Behind, Tok
<1>3. CASE j = NextLine
  <2>1. src[j].nl /\ j \in Nat \ {0}
    BY <1>1, <1>3, NextLineAhead
  <2> QED BY <2>1, LineStart DEF Behind
<1> QED BY <1>2, <1>3

\* What is asked of a token depends on the source alone.
LEMMA SameChecks ==
  ASSUME src' = src, NEW i
  PROVE  /\ ValidGlobal(i)' = ValidGlobal(i) /\ ValidOp(i)' = ValidOp(i)
         /\ Behind(i)' = Behind(i) /\ Passed(i)' = Passed(i) /\ Agreed(i)' = Agreed(i)
         /\ \A k : LabelOf(i, k)' = LabelOf(i, k)
<1>1. Behind(i)' = Behind(i) /\ \A j : Behind(j)' = Behind(j) /\ Enclosing(j)' = Enclosing(j) /\ \A f : Defines(j, f)' = Defines(j, f)
  BY DEF Behind, Enclosing, Defines
<1>2. ValidGlobal(i)' = ValidGlobal(i)
  BY DEF ValidGlobal, FoldSeq, FoldFunction, FoldFunctionOnSet, MapThenFoldSet
<1>3. ValidOp(i)' = ValidOp(i)
  BY <1>1 DEF ValidOp
<1>4. Passed(i)' = Passed(i)
  BY <1>1, <1>2 DEF Passed
<1>5. Agreed(i)' = Agreed(i)
  BY <1>1, <1>3 DEF Agreed
<1>6. \A k : LabelOf(i, k)' = LabelOf(i, k)
  BY <1>1 DEF LabelOf
<1> QED BY <1>1, <1>2, <1>3, <1>4, <1>5, <1>6

\* A step of the first pass over tokens that is as it should be.
LEMMA FirstChecked ==
  ASSUME Typed, Regular, Clean(src, Len(src) + 1), Checked, pass = "first", pass' = "first", ~AtEnd,
         src' = src, DOMAIN kind \subseteq DOMAIN kind', DOMAIN data.bytes \subseteq DOMAIN data'.bytes,
         DOMAIN labels \subseteq DOMAIN labels',
         \A k \in DOMAIN labels' : k \in DOMAIN labels \/ LabelOf(iter, k),
         \/ iter' = iter + 1 /\ Tok.t # "op"
         \/ iter' = NextLine /\ Tok.t = "op",
         Passed(iter), NEW n, n = iter, Noted(n)'
  PROVE  Checked'
<1>1. iter \in 1 .. Len(src) /\ Len(src) \in Nat /\ NextLine \in iter + 1 .. Len(src) + 1
  BY SourceLength, NextLineAhead DEF AtEnd
<1>2. ~Behind(iter) /\ \A i : Behind(i)' = Behind(i)
  BY SameChecks DEF Checked
<1>3. (pass = "first" /\ ~AtEnd => ~Behind(iter))'
  <2> SUFFICES ASSUME ~AtEnd' PROVE ~Behind(iter')
    BY <1>2
  <2>1. iter' <= Len(src)
    BY <1>1 DEF AtEnd
  <2> QED BY <1>2, <2>1, NotBehind
<1>4. \A i : Passed(i)' = Passed(i)
  BY SameChecks
<1>5. \A i : Noted(i) => Noted(i)'
  BY DEF Noted
<1>6. ASSUME NEW i \in 1 .. iter' - 1, ~Behind(i) PROVE Passed(i) /\ Noted(i)'
  <2>1. CASE i < iter
    <3>1. i \in 1 .. Seen - 1
      BY <1>1, <2>1 DEF Seen
    <3> QED BY <1>5, <1>6, <3>1 DEF Checked
  <2>2. CASE i = iter
    BY <2>2
  <2>3. CASE i > iter
    <3>1. iter' = NextLine /\ Tok.t = "op" /\ i \in iter + 1 .. NextLine - 1
      BY <1>1, <2>3
    <3> QED BY <1>6, <3>1, LeftOut DEF Behind
  <2> QED BY <1>1, <2>1, <2>2, <2>3
<1>7. (\A k \in DOMAIN labels : \E p \in 1 .. Len(src) : LabelOf(p, k))'
  <2>1. \A p, k : LabelOf(p, k)' = LabelOf(p, k)
    BY SameChecks
  <2> QED BY <1>1, <2>1 DEF Checked
<1>8. Seen' = iter'
  BY DEF Seen
<1> QED BY <1>2, <1>3, <1>4, <1>6, <1>7, <1>8 DEF Checked

\* A place below n is below m or from m on.
LEMMA BeforeOrFrom ==
  ASSUME NEW m \in Nat, NEW n \in Nat, NEW i \in 1 .. n - 1
  PROVE  i \in 1 .. m - 1 \/ i \in m .. n - 1
OBVIOUS

\* A step of the second pass over tokens that are as they should be.
LEMMA SecondChecked ==
  ASSUME Typed, Regular, Clean(src, Len(src) + 1), Checked, pass # "first", pass' # "first",
         UNCHANGED <<src, kind, data, labels>>,
         NEW n \in Nat, n = Reached', n <= Len(src) + 1,
         \A i \in Reached .. n - 1 : ~StandsBehind(src, i, Directives) => Agreed(i)
  PROVE  Checked'
<1>1. \A i : /\ Passed(i)' = Passed(i) /\ Noted(i)' = Noted(i) /\ Behind(i)' = Behind(i)
             /\ Agreed(i)' = Agreed(i)
  BY SameChecks DEF Noted
<1>2. \A p, k : LabelOf(p, k)' = LabelOf(p, k)
  BY SameChecks
<1>3. Seen' = Seen
  BY DEF Seen
<1>4. Reached \in Nat
  BY SourceLength DEF Reached
<1>5. ASSUME NEW i \in 1 .. n - 1, ~StandsBehind(src, i, Directives) PROVE Agreed(i)
  <2>2. i \in 1 .. Reached - 1 \/ i \in Reached .. n - 1
    BY <1>4, <1>5, BeforeOrFrom
  <2> QED BY <1>5, <2>2 DEF Checked
<1> QED BY <1>1, <1>2, <1>3, <1>5 DEF Checked

\* A head or a native directive that the first pass reaches has not been read before.
LEMMA NewHead ==
  ASSUME Typed, Regular, Clean(src, Len(src) + 1), Checked, pass = "first", NEW f, f \notin DOMAIN kind
  PROVE  \A j \in 1 .. iter - 1 : ~Defines(j, f)
<1> SUFFICES ASSUME NEW j \in 1 .. iter - 1, Defines(j, f) PROVE FALSE
  OBVIOUS
<1>1. j \in 1 .. Len(src) /\ j \in 1 .. Len(src) + 1 - 1
  BY SourceLength
<1>2. ~Behind(j)
  BY <1>1 DEF Defines, Regular, Clean, Behind, Directives
<1>3. Noted(j)
  BY <1>2 DEF Checked, Seen
<1> QED BY <1>3 DEF Noted, Defines

\* No two labels of functions have one key, or nothing jumps to a label.
KeysFit == KeysApart \/ \A i \in 1 .. Len(src) : src[i].t = "op" => src[i].op # "jmp"

\* An operation that the second pass accepts is right.
LEMMA EmitsValid ==
  ASSUME KeysFit, IInv, Live, Regular, Clean(src, Len(src) + 1), Tracks, Checked,
         SecondOp \/ SecondType \/ SecondJump \/ SecondCall \/ SecondVar
  PROVE  ValidOp(iter)
<1>1. /\ Typed /\ IsSource(src) /\ pass = "second" /\ At("op") /\ active # NONE
      /\ iter \in 1 .. Len(src) /\ iter \in DOMAIN src /\ Len(src) \in Nat
  BY SourceLength DEF IInv, Typed, SecondOp, SecondType, SecondJump, SecondCall, SecondVar, At, AtEnd
<1>2. src[iter] = Tok /\ Tok.t = "op" /\ active = Around(src, iter)
  BY <1>1 DEF Tok, At, Tracks
<1>3. ASSUME Tok.op \in Number PROVE InRange(Tok.op, Tok.arg)
  <2>1. Accepted(Tok.op, Tok.arg)
    BY <1>3 DEF SecondOp, SecondType, SecondJump, SecondCall, SecondVar, Number
  <2> QED BY <1>1, <1>2, <1>3, <2>1 DEF Regular
<1>4. ASSUME Tok.op = "jmp"
      PROVE  \E j \in 1 .. Len(src) : /\ src[j].t = "label" /\ ~Behind(j) /\ src[j].name = Tok.arg
                                      /\ Enclosing(j) = Enclosing(iter)
  <2>1. Key(Tok.arg) \in DOMAIN labels
    BY <1>4 DEF SecondOp, SecondType, SecondJump, SecondCall, SecondVar, Number
  <2>2. PICK p \in 1 .. Len(src) : LabelOf(p, Key(Tok.arg))
    BY <2>1 DEF Checked
  <2>3. src[p].name \in Label /\ Tok.arg \in Label \cup Int
    BY <1>1, <1>2, <1>4, <2>2 DEF LabelOf, IsSource
  <2>4. Around(src, p) \in Name /\ active \in Name
    <3>1. p \in 1 .. Len(src) + 1
      BY <1>1
    <3> QED BY <1>1, <2>2, <3>1, AroundHead DEF LabelOf, Typed, TypeOK
  <2>5. src[p].name = Tok.arg /\ Around(src, p) = active
    BY <1>1, <1>2, <1>4, <2>2, <2>3, <2>4 DEF LabelOf, Key, KeysApart, KeysFit
  <2> QED BY <1>2, <2>2, <2>5 DEF LabelOf, Enclosing
<1>5. /\ \A f \in DOMAIN kind : \E j \in 1 .. Len(src) : Defines(j, f)
      /\ \A v \in DOMAIN data.bytes : \E j \in 1 .. Len(src) : Declares(j, v)
  <2>1. Seen = Len(src) + 1 /\ Len(src) + 1 - 1 = Len(src)
    BY <1>1 DEF Seen
  <2> QED BY <2>1 DEF IInv, Collected
<1>6. Tok.op \in {"call", "ldfn"} => Tok.arg \in DOMAIN kind
  BY DEF SecondOp, SecondType, SecondJump, SecondCall, SecondVar, Number
<1>7. Tok.op = "ldvar" => Tok.arg \in DOMAIN data.bytes
  BY DEF SecondOp, SecondType, SecondJump, SecondCall, SecondVar, Number
<1>8. /\ Tok.op = "st" => Tok.spaced
      /\ Tok.op = "setelen" => Tok.arg \in DOMAIN Sizeof
  BY DEF SecondOp, SecondType, SecondJump, SecondCall, SecondVar, Number, Spaced
<1> QED BY <1>2, <1>3, <1>4, <1>5, <1>6, <1>7, <1>8 DEF ValidOp, Declares

\* A step that stops no tool leaves the tokens read so far as they should be.
LEMMA CheckedStep ==
  ASSUME KeysFit, IInv, Live, Live', Regular, Clean(src, Len(src) + 1), Orderly, Landing, Checked,
         pass \in {"write", "done"} => AtEnd, [Pass]_vars
  PROVE  Checked'
<1>1. /\ Typed /\ iter \in 1 .. Len(src) + 1 /\ Len(src) \in Nat /\ IsSource(src) /\ Tracks
      /\ ~AtEnd => iter \in 1 .. Len(src)
  BY SourceLength DEF IInv, Typed, Landing, AtEnd
<1>2. /\ IsMap(kind) /\ IsMap(labels) /\ IsMap(data.bytes) /\ IsMap(data)
      /\ DOMAIN data = {"opstack", "callstack", "heap", "vars", "bytes"}
  BY <1>1 DEF Typed, Maps
<1> DEFINE Goes(n) == /\ ~AtEnd /\ pass' = "first" /\ src' = src
                      /\ DOMAIN kind \subseteq DOMAIN kind'
                      /\ DOMAIN data.bytes \subseteq DOMAIN data'.bytes
                      /\ DOMAIN labels \subseteq DOMAIN labels'
                      /\ \A k \in DOMAIN labels' : k \in DOMAIN labels \/ LabelOf(iter, k)
                      /\ \/ iter' = iter + 1 /\ Tok.t # "op"
                         \/ iter' = NextLine /\ Tok.t = "op"
                      /\ Passed(iter) /\ Noted(n)'
<1>3. PICK n : n = iter
  OBVIOUS
<1>4. pass = "first" /\ Goes(n) => Checked'
  BY <1>1, <1>3, FirstChecked
<1>5. CASE Directive
  <2>1. /\ ~AtEnd /\ pass = "first" /\ pass' = "first" /\ UNCHANGED <<src, data, labels>> /\ iter' = iter + 1
        /\ Tok.t \in {"native", "extern"} /\ kind' = With(kind, Tok.name, Tok.t)
    BY <1>5 DEF Directive, At, Advance, AddFunc
  <2>2. DOMAIN kind' = DOMAIN kind \cup {Tok.name}
    BY <1>2, <2>1, WithMap
  <2>3. Passed(iter) /\ Noted(n)'
    BY <1>3, <2>1, <2>2 DEF Passed, Noted, Tok
  <2>4. Tok.t # "op"
    BY <2>1
  <2> QED BY <1>4, <2>1, <2>2, <2>3, <2>4
<1>6. CASE SizeDirective
  <2>1. /\ ~AtEnd /\ pass = "first" /\ pass' = "first" /\ UNCHANGED <<src, kind, labels>> /\ iter' = iter + 1
        /\ Tok.t = "size" /\ Tok.num \in Nat
        /\ data' = [data EXCEPT ![Tok.which] = U32(Tok.num * Unit[Tok.which])]
    BY <1>6 DEF SizeDirective, At, Advance
  <2>2. data'.bytes = data.bytes
    <3>1. Tok.which \in DOMAIN Unit
      BY <1>1, <2>1 DEF IsSource, Tok
    <3> QED BY <1>2, <2>1, <3>1, Units
  <2>3. Passed(iter) /\ Noted(n)'
    BY <1>3, <2>1 DEF Passed, Noted, Tok
  <2> QED BY <1>4, <2>1, <2>2, <2>3
<1>7. CASE Global
  <2>1. /\ ~AtEnd /\ pass = "first" /\ pass' = "first" /\ UNCHANGED <<src, kind, labels>> /\ iter' = iter + 1
        /\ Tok.t = "global" /\ Complete /\ ~Overfills
        /\ data' = [data EXCEPT !.vars = Append(@, Tok.name), !.bytes = With(@, Tok.name, Tok.bytes)]
    BY <1>7 DEF Global, At, Advance
  <2>2. DOMAIN data'.bytes = DOMAIN data.bytes \cup {Tok.name}
    <3>1. data'.bytes = With(data.bytes, Tok.name, Tok.bytes)
      BY <1>2, <2>1
    <3>2. DOMAIN With(data.bytes, Tok.name, Tok.bytes) = DOMAIN data.bytes \cup {Tok.name}
      BY <1>2, WithMap
    <3> QED BY <3>1, <3>2
  <2>3. ValidGlobal(iter)
    BY <1>1, <2>1, DataFit DEF At
  <2>4. Passed(iter) /\ Noted(n)'
    BY <1>3, <2>1, <2>2, <2>3 DEF Passed, Noted, Tok
  <2> QED BY <1>4, <2>1, <2>2, <2>4
<1>8. CASE FirstFunc
  <2>1. /\ ~AtEnd /\ pass = "first" /\ pass' = "first" /\ UNCHANGED <<src, data, labels>> /\ iter' = iter + 1
        /\ Tok.t = "func" /\ active = NONE /\ Tok.name \notin DOMAIN kind /\ kind' = With(kind, Tok.name, "code")
    BY <1>8 DEF FirstFunc, At, Advance, AddFunc
  <2>2. DOMAIN kind' = DOMAIN kind \cup {Tok.name}
    BY <1>2, <2>1, WithMap
  <2>3. Around(src, iter) = NONE /\ \A j \in 1 .. iter - 1 : ~Defines(j, Tok.name)
    BY <1>1, <2>1, NewHead DEF Tracks
  <2>4. Passed(iter) /\ Noted(n)'
    BY <1>3, <2>1, <2>2, <2>3 DEF Passed, Noted, Tok
  <2> QED BY <1>4, <2>1, <2>2, <2>4
<1>9. CASE FirstLabel
  <2>1. /\ ~AtEnd /\ pass = "first" /\ pass' = "first" /\ UNCHANGED <<src, data, kind>> /\ iter' = iter + 1
        /\ Tok.t = "label" /\ active # NONE /\ labels' = With(labels, Key(Tok.name), pc)
        /\ Around(src, iter) = active
    BY <1>1, <1>9 DEF FirstLabel, At, Advance, Tracks
  <2>2. DOMAIN labels' = DOMAIN labels \cup {Key(Tok.name)}
    BY <1>2, <2>1, WithMap
  <2>3. LabelOf(iter, Key(Tok.name))
    BY <2>1 DEF LabelOf, Key, Tok, Checked
  <2>4. Passed(iter) /\ Noted(n)'
    BY <1>3, <2>1, <2>2 DEF Passed, Noted, Tok, Key
  <2> QED BY <1>4, <2>1, <2>2, <2>3, <2>4
<1>10. CASE End /\ pass = "first"
  <2>1. /\ ~AtEnd /\ pass = "first" /\ pass' = "first" /\ UNCHANGED <<src, data, kind, labels>> /\ iter' = iter + 1
        /\ Tok.t = "end" /\ active # NONE /\ Around(src, iter) = active
    BY <1>1, <1>10 DEF End, At, Advance, Tracks
  <2>2. Passed(iter) /\ Noted(n)'
    BY <1>3, <2>1 DEF Passed, Noted, Tok
  <2> QED BY <1>4, <2>1, <2>2
<1>11. CASE FirstOp
  <2>1. /\ ~AtEnd /\ pass = "first" /\ pass' = "first" /\ UNCHANGED <<src, data, kind, labels>> /\ iter' = NextLine
        /\ Tok.t = "op" /\ active # NONE /\ Around(src, iter) = active
    BY <1>1, <1>11 DEF FirstOp, At, Tracks
  <2>2. Passed(iter) /\ Noted(n)'
    BY <1>3, <2>1 DEF Passed, Noted, Tok
  <2> QED BY <1>4, <2>1, <2>2
<1>12. CASE EndFirst
  <2>1. /\ pass = "first" /\ pass' = "second" /\ iter' = 1 /\ UNCHANGED <<src, data, kind, labels>>
        /\ iter = Len(src) + 1
    BY <1>1, <1>12 DEF EndFirst, AtEnd
  <2>2. Seen = Len(src) + 1 /\ Seen' = Len(src) + 1 /\ Reached' = 1
    BY <2>1 DEF Seen, Reached
  <2>3. \A i : Passed(i)' = Passed(i) /\ Noted(i)' = Noted(i) /\ Behind(i)' = Behind(i)
    BY <2>1, SameChecks DEF Noted
  <2>4. \A p, k : LabelOf(p, k)' = LabelOf(p, k)
    BY <2>1, SameChecks
  <2> QED BY <2>1, <2>2, <2>3, <2>4 DEF Checked
<1>13. ASSUME pass # "first", pass' # "first", UNCHANGED <<src, kind, data, labels>>,
              Reached' = Reached
       PROVE  Checked'
  <2>1. Reached \in Nat /\ Reached <= Len(src) + 1
    BY <1>1 DEF Reached
  <2>2. \A i \in Reached .. Reached - 1 : ~StandsBehind(src, i, Directives) => Agreed(i)
    BY <2>1
  <2> QED BY <1>1, <1>13, <2>1, <2>2, SecondChecked
<1>14. ASSUME pass = "second", pass' = "second", ~AtEnd, UNCHANGED <<src, kind, data, labels>>,
              iter' = iter + 1, Agreed(iter)
       PROVE  Checked'
  <2>1. Reached = iter /\ Reached' = iter + 1 /\ iter + 1 \in Nat /\ iter + 1 <= Len(src) + 1
    BY <1>1, <1>14 DEF Reached
  <2>2. \A i \in iter .. iter + 1 - 1 : i = iter
    BY <1>1
  <2> QED BY <1>1, <1>14, <2>1, <2>2, SecondChecked
<1>15. CASE SkipDirective
  <2>1. /\ pass = "second" /\ pass' = "second" /\ ~AtEnd /\ UNCHANGED <<src, kind, data, labels>>
        /\ iter' = NextLine /\ Tok.t \in Directives
    BY <1>15 DEF SkipDirective
  <2>2. NextLine \in iter + 1 .. Len(src) + 1
    BY <1>1, <2>1, NextLineAhead
  <2>3. Reached = iter /\ Reached' = NextLine /\ NextLine \in Nat /\ NextLine <= Len(src) + 1
    BY <1>1, <2>1, <2>2 DEF Reached
  <2>4. Agreed(iter)
    BY <2>1 DEF Agreed, Tok, Directives
  <2>5. ASSUME NEW i \in iter .. NextLine - 1, ~StandsBehind(src, i, Directives) PROVE Agreed(i)
    <3>1. CASE i = iter
      BY <2>4, <3>1
    <3>2. CASE i # iter
      <4>1. i \in iter + 1 .. NextLine - 1
        BY <1>1, <2>2, <3>2
      <4> QED BY <1>1, <2>1, <2>5, <4>1, LeftOut
    <3> QED BY <3>1, <3>2
  <2> QED BY <1>1, <2>1, <2>3, <2>5, SecondChecked
<1>16. CASE SkipLabel
  <2>1. /\ pass = "second" /\ pass' = "second" /\ ~AtEnd /\ UNCHANGED <<src, kind, data, labels>>
        /\ iter' = iter + 1 /\ Tok.t = "label"
    BY <1>16 DEF SkipLabel, At, Advance
  <2>2. Behind(iter) => Around(src, iter) # NONE
    BY <1>1, <2>1 DEF Orderly, Tracks, Behind
  <2> QED BY <1>14, <2>1, <2>2 DEF Agreed, Tok
<1>17. CASE SecondFunc \/ (End /\ pass = "second")
  <2>1. /\ pass = "second" /\ pass' = "second" /\ ~AtEnd /\ UNCHANGED <<src, kind, data, labels>>
        /\ iter' = iter + 1 /\ Tok.t \in {"func", "end"}
    BY <1>17 DEF SecondFunc, End, At, Advance
  <2> QED BY <1>14, <2>1 DEF Agreed, Tok
<1>18. CASE SecondOp \/ SecondType \/ SecondJump \/ SecondCall \/ SecondVar
  <2>1. PICK op, val : Emit(op, val) /\ op = Tok.op /\ At("op") /\ pass = "second"
    BY <1>1, <1>18, Emits
  <2>2. /\ pass' = "second" /\ ~AtEnd /\ UNCHANGED <<src, kind, data, labels>>
        /\ iter' = iter + 1 /\ Tok.t = "op"
    BY <2>1 DEF Emit, At, Advance
  <2>3. ValidOp(iter)
    BY <1>1, <1>18, EmitsValid
  <2> QED BY <1>14, <2>1, <2>2, <2>3 DEF Agreed, Tok
<1>19. CASE EndSecond \/ Write
  <2>1. /\ pass # "first" /\ pass' # "first" /\ UNCHANGED <<src, kind, data, labels>> /\ Reached' = Reached
    BY <1>1, <1>19 DEF EndSecond, Write, Stop, Reached, AtEnd
  <2> QED BY <1>13, <2>1
<1>20. CASE SecondText \/ UNCHANGED vars
  <2>1. UNCHANGED vars
    BY <1>20 DEF SecondText
  <2>2. UNCHANGED <<src, iter, pass, kind, data, labels>>
    BY <2>1 DEF vars
  <2>3. \A i : /\ Passed(i)' = Passed(i) /\ Noted(i)' = Noted(i) /\ Behind(i)' = Behind(i)
               /\ Agreed(i)' = Agreed(i)
    BY <2>2, SameChecks DEF Noted
  <2>4. \A p, k : LabelOf(p, k)' = LabelOf(p, k)
    BY <2>2, SameChecks
  <2> QED BY <2>2, <2>3, <2>4 DEF Checked, Seen, Reached, AtEnd
<1>21. CASE DirectiveError \/ GlobalOverfills \/ FirstError \/ NoFunction \/ SecondError
  BY <1>21 DEF DirectiveError, GlobalOverfills, FirstError, NoFunction, SecondError, Stop, Live
<1>22. End => pass \in {"first", "second"}
  BY DEF End, Live, At
<1> QED BY <1>5, <1>6, <1>7, <1>8, <1>9, <1>10, <1>11, <1>12, <1>15, <1>16, <1>17, <1>18, <1>19,
           <1>20, <1>21, <1>22 DEF Pass

\* A valid source has no head behind an operation.
LEMMA ValidClean == ASSUME Valid PROVE Clean(src, Len(src) + 1)
BY DEF Valid, Clean, Behind

\* A source that a pass refuses, or that it dies of, is not valid.
LEMMA RefusedInvalid ==
  ASSUME IInv, JInv, VInv, Live, Regular, ~Live', [Pass]_vars
  PROVE  ~Valid
<1> SUFFICES ASSUME Valid PROVE FALSE
  OBVIOUS
<1>1. /\ Typed /\ iter \in 1 .. Len(src) + 1 /\ Len(src) \in Nat /\ DOMAIN src = 1 .. Len(src) /\ IsSource(src)
      /\ ~AtEnd => iter \in 1 .. Len(src)
  BY SourceLength DEF IInv, Typed, AtEnd
<1>2. Tracks /\ Checked
  BY ValidClean DEF JInv, VInv, Landing
<1>3. CASE DirectiveError \/ GlobalOverfills
  <2>1. pass = "first" /\ ~AtEnd /\ \/ Tok.t = "size" /\ Tok.num \notin Nat
                                    \/ At("global") /\ ~(Complete /\ ~Overfills)
    BY <1>3 DEF DirectiveError, GlobalOverfills, At
  <2>2. At("global") => ~ValidGlobal(iter)
    BY <1>1, <2>1, DataFit DEF At
  <2> QED BY <1>1, <2>1, <2>2 DEF Valid, Tok, At
<1>4. CASE FirstError
  <2>1. pass = "first" /\ ~AtEnd /\ active = Around(src, iter)
    BY <1>2, <1>4 DEF FirstError, At, Tracks
  <2>2. Tok.name \in DOMAIN kind => \E j \in 1 .. iter - 1 : Defines(j, Tok.name)
    BY <2>1 DEF IInv, Collected, Seen
  <2> QED BY <1>1, <1>4, <2>1, <2>2 DEF FirstError, Valid, At, Tok, Enclosing
<1>5. CASE NoFunction
  <2>1. ~AtEnd /\ pass \in {"first", "second"} /\ active = Around(src, iter) /\ active = NONE
        /\ Tok.t \in {"end", "label"}
    BY <1>2, <1>5 DEF NoFunction, At, Tracks, VInv, Live
  <2> QED BY <1>1, <2>1 DEF Valid, Tok, Enclosing
<1>6. CASE SecondError
  <2>1. /\ pass = "second" /\ ~AtEnd /\ active = Around(src, iter) /\ iter \in 1 .. Len(src)
        /\ Seen = Len(src) + 1
    BY <1>1, <1>2, <1>6 DEF SecondError, At, Tracks, Seen
  <2>2. ASSUME NEW j \in 1 .. Len(src), ~Behind(j) PROVE Noted(j)
    <3>1. j \in 1 .. Len(src) + 1 - 1
      BY <1>1
    <3> QED BY <1>2, <2>1, <2>2, <3>1 DEF Checked
  <2>3. CASE Tok.t = "func" /\ active # NONE
    BY <1>1, <2>1, <2>3 DEF Valid, Tok, Enclosing
  <2>4. CASE At("op")
    <3>1. ValidOp(iter) /\ Around(src, iter) # NONE /\ Tok.t = "op" /\ Tok = src[iter]
      BY <2>1, <2>4 DEF Valid, Tok, At, Enclosing
    <3>2. /\ Tok.op \in Number => Accepted(Tok.op, Tok.arg) /\ Spaced
          /\ Tok.op = "setelen" => Tok.arg \in DOMAIN Sizeof
      BY <2>1, <3>1 DEF ValidOp, Regular, Spaced
    <3>3. Tok.op = "jmp" => Key(Tok.arg) \in DOMAIN labels
      BY <2>1, <2>2, <3>1 DEF ValidOp, Noted, Key, Enclosing
    <3>4. ASSUME Tok.op \in {"call", "ldfn"} PROVE Tok.arg \in DOMAIN kind
      <4>1. PICK j \in 1 .. Len(src) : Defines(j, Tok.arg)
        BY <3>1, <3>4 DEF ValidOp
      <4>2. ~Behind(j)
        BY <4>1 DEF Defines, Valid, Regular, Directives
      <4> QED BY <2>2, <4>1, <4>2 DEF Noted, Defines
    <3>5. ASSUME Tok.op = "ldvar" PROVE Tok.arg \in DOMAIN data.bytes
      <4>1. PICK j \in 1 .. Len(src) : src[j].t = "global" /\ src[j].name = Tok.arg
        BY <3>1, <3>5 DEF ValidOp
      <4>2. ~Behind(j)
        BY <4>1 DEF Regular, Directives
      <4> QED BY <2>2, <4>1, <4>2 DEF Noted
    <3> QED BY <1>6, <3>1, <3>2, <3>3, <3>4, <3>5 DEF SecondError, At
  <2> QED BY <1>6, <2>3, <2>4 DEF SecondError, At
<1>7. ~(DirectiveError \/ GlobalOverfills \/ FirstError \/ NoFunction \/ SecondError) => Live'
  BY DEF Pass, vars, Live, Directive, SizeDirective, Global, FirstFunc, FirstOp, FirstLabel, EndFirst,
         SkipDirective, SkipLabel, SecondFunc, SecondOp, SecondType, SecondJump, SecondCall, SecondVar, Emit,
         SecondText, EndSecond, End, Write, Stop
<1> QED BY <1>3, <1>4, <1>5, <1>6, <1>7

\* Every step keeps what decides the fate of a source.
LEMMA StepVInv ==
  ASSUME KeysFit, IInv, JInv, VInv, [Pass]_vars PROVE VInv'
<1>1. src' = src /\ Regular' = Regular /\ Len(src') = Len(src)
  BY SourceStays, SameSource
<1>2. Valid' = Valid
  <2> DEFINE V(i) == /\ src[i].t # "text"
                     /\ src[i].t = "size" => src[i].num \in Nat
                     /\ src[i].t = "global" => ValidGlobal(i)
                     /\ src[i].t \in {"op", "label", "end"} => Enclosing(i) # NONE
                     /\ src[i].t = "op" => ValidOp(i)
                     /\ src[i].t = "func" => /\ ~Behind(i) /\ Enclosing(i) = NONE
                                             /\ \A j \in 1 .. i - 1 : ~Defines(j, src[i].name)
  <2>1. \A i : V(i)' = V(i)
    BY <1>1, SameChecks, SameSource DEF Enclosing
  <2>2. Valid = (\A i \in 1 .. Len(src) : V(i)) /\ Valid' = \A i \in 1 .. Len(src') : V(i)'
    BY DEF Valid
  <2> HIDE DEF V
  <2> QED BY <1>1, <2>1, <2>2
<1>3. (pass \in {"write", "done"} => AtEnd)'
  <2>1. /\ iter \in 1 .. Len(src) + 1 /\ Len(src) \in Nat
        /\ End \/ UNCHANGED vars \/ pass' \notin {"write", "done"} \/ EndSecond \/ Write
    BY SourceLength DEF IInv, Typed, Live, Pass, Directive, SizeDirective, Global, DirectiveError, GlobalOverfills, FirstFunc,
       FirstOp, FirstLabel, FirstError, NoFunction, EndFirst, SkipDirective, SkipLabel, SecondFunc, SecondOp, SecondType, SecondJump,
       SecondCall, SecondVar, Emit, SecondError, SecondText, Stop
  <2> QED BY <2>1 DEF VInv, End, vars, EndSecond, Write, Stop, AtEnd, At
<1>4. (pass \in {"failed", "crashed"} /\ Regular => ~Valid)'
  <2> SUFFICES ASSUME pass' \in {"failed", "crashed"}, Regular PROVE ~Valid
    BY <1>1, <1>2
  <2>1. ~Live'
    BY DEF Live
  <2>2. CASE Live
    BY <2>1, <2>2, RefusedInvalid
  <2>3. CASE ~Live
    <3>1. pass \in {"failed", "crashed"}
      BY <2>3 DEF IInv, Typed, TypeOK, Live
    <3> QED BY <3>1 DEF VInv
  <2> QED BY <2>2, <2>3
<1>5. ASSUME Live', Regular, Clean(src, Len(src) + 1) PROVE Checked'
  <2>1. Live
    <3>1. ASSUME ~Live PROVE ~Live'
      <4>1. End \/ NoFunction \/ UNCHANGED vars
        BY <3>1 DEF Live, Pass, Directive, SizeDirective, Global, DirectiveError, GlobalOverfills,
                    FirstFunc, FirstOp, FirstLabel, FirstError, EndFirst, SkipDirective, SkipLabel,
                    SecondFunc, SecondOp, SecondType, SecondJump, SecondCall, SecondVar, SecondError, SecondText,
                    EndSecond, Write
      <4> QED BY <3>1, <4>1 DEF Live, End, NoFunction, Stop, vars
    <3> QED BY <1>5, <3>1
  <2> QED BY <1>5, <2>1, CheckedStep DEF JInv, VInv
<1> QED BY <1>1, <1>3, <1>4, <1>5 DEF VInv

\* It holds before the first token is read.
LEMMA InitVInv == ASSUME Unread PROVE VInv
<1>1. iter = 1 /\ pass = "first" /\ DOMAIN labels = {}
  BY DEF Unread
<1>2. ~Behind(1)
  BY DEF Behind, StandsBehind
<1> QED BY <1>1, <1>2 DEF VInv, Checked, Seen

\* A source that has come through both passes is valid.
LEMMA DoneValid == ASSUME IInv, JInv, VInv, pass = "done", Regular PROVE Valid
<1>1. /\ Typed /\ Len(src) \in Nat /\ DOMAIN src = 1 .. Len(src) /\ IsSource(src)
      /\ Clean(src, Len(src) + 1) /\ Checked /\ Seen = Len(src) + 1 /\ Reached = Len(src) + 1
  BY SourceLength DEF IInv, Typed, JInv, VInv, Live, Orderly, Seen, Reached
<1> SUFFICES ASSUME NEW i \in 1 .. Len(src)
             PROVE  /\ src[i].t # "text"
                    /\ src[i].t = "size" => src[i].num \in Nat
                    /\ src[i].t = "global" => ValidGlobal(i)
                    /\ src[i].t \in {"op", "label", "end"} => Enclosing(i) # NONE
                    /\ src[i].t = "op" => ValidOp(i)
                    /\ src[i].t = "func" => /\ ~Behind(i) /\ Enclosing(i) = NONE
                                            /\ \A j \in 1 .. i - 1 : ~Defines(j, src[i].name)
  BY DEF Valid
<1>2. /\ ~Behind(i) => Passed(i)
      /\ ~StandsBehind(src, i, Directives) => Agreed(i)
  <2>1. i \in 1 .. Len(src) + 1 - 1
    BY <1>1
  <2> QED BY <1>1, <2>1 DEF Checked
<1>3. src[i].t \in {"op"} \cup Directives => ~Behind(i)
  BY DEF Regular
<1>4. src[i].t = "op" => ~StandsBehind(src, i, Directives)
  BY DEF Regular
<1>5. src[i].t = "func" => ~Behind(i)
  BY <1>1 DEF Clean, Behind
<1>6. src[i].t = "end" => ~Behind(i)
  BY <1>1, LineStart DEF IsSource, Behind
<1>7. Behind(i) => ~StandsBehind(src, i, Directives)
  <2> SUFFICES ASSUME Behind(i), StandsBehind(src, i, Directives) PROVE FALSE
    OBVIOUS
  <2>1. PICK a \in 1 .. i - 1 : src[a].t = "op" /\ \A k \in a + 1 .. i : ~src[k].nl
    BY DEF Behind, StandsBehind
  <2>2. PICK b \in 1 .. i - 1 : src[b].t \in Directives /\ \A k \in b + 1 .. i : ~src[k].nl
    BY DEF StandsBehind
  <2>3. a \in 1 .. Len(src) /\ b \in 1 .. Len(src)
    BY <1>1
  <2>4. a # b
    BY <2>1, <2>2 DEF Directives
  <2>5. CASE a < b
    <3>1. a \in 1 .. b - 1 /\ \A k \in a + 1 .. b : k \in a + 1 .. i
      BY <2>1, <2>2, <2>5
    <3>2. Behind(b)
      BY <2>1, <3>1 DEF Behind, StandsBehind
    <3> QED BY <2>2, <2>3, <3>2 DEF Regular
  <2>6. CASE b < a
    <3>1. b \in 1 .. a - 1 /\ \A k \in b + 1 .. a : k \in b + 1 .. i
      BY <2>1, <2>2, <2>6
    <3>2. StandsBehind(src, a, Directives)
      BY <2>2, <3>1 DEF StandsBehind
    <3> QED BY <2>1, <2>3, <3>2 DEF Regular
  <2> QED BY <2>1, <2>2, <2>4, <2>5, <2>6
<1> QED BY <1>2, <1>3, <1>4, <1>5, <1>6, <1>7 DEF Passed, Agreed, Directives, Enclosing

\* So the source decides what comes of it.
LEMMA Verdict == ASSUME IInv, JInv, VInv PROVE AcceptsValid
<1> SUFFICES ASSUME Regular, pass \in {"done", "failed", "crashed"}
             PROVE  pass = "done" <=> Valid
  BY DEF AcceptsValid
<1>1. CASE pass = "done"
  BY <1>1, DoneValid
<1>2. CASE pass # "done"
  BY <1>2 DEF VInv
<1> QED BY <1>1, <1>2

\* The assembler makes a module of every valid source and of no other one, whatever is in the
\* source and in whatever order, as far as Regular goes and no two labels have one key
\* (assembler.c:147-350, 406-516, 535-959).
THEOREM ValidAccepted == KeysApart => (Spec => []AcceptsValid)
<1> SUFFICES ASSUME KeysApart PROVE Spec => []AcceptsValid
  OBVIOUS
<1>1. Init => VInv
  BY InitVInv DEF Init
<1>2. IInv /\ JInv /\ VInv /\ [Pass]_vars => VInv'
  BY StepVInv DEF KeysFit
<1>3. IInv /\ JInv /\ VInv => AcceptsValid
  BY Verdict
<1> QED BY <1>1, <1>2, <1>3, Invariance, SameCounts, PTL DEF Spec

=============================================================================
