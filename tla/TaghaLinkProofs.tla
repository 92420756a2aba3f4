-------------------------- MODULE TaghaLinkProofs --------------------------
(***************************************************************************)
(* Proofs about TaghaLink for any number of modules of any contents, when   *)
(* the hash function tells the names apart.                                *)
(***************************************************************************)
EXTENDS TaghaLink, SequenceTheorems, WellFoundedInduction, TLAPS

\* What entry i of a loaded module m is, by the flags in its file.
Own(m, i) ==
  /\ image[m].funcs[i].flags = 0
  /\ funcs[m][i] = [item |-> Code(m, i), owner |-> m, flags |-> 0]
  /\ bytes[m][i] = image[m].funcs[i].len

Cfunction(m, i) ==
  /\ image[m].funcs[i].flags = NATIVE
  /\ \/ funcs[m][i] = [item |-> NIL, owner |-> m, flags |-> NATIVE]
     \/ \E c \in CFunc : funcs[m][i] = [item |-> c, owner |-> m, flags |-> NATIVE + LINKED]

Unresolved(m, i) ==
  /\ image[m].funcs[i].flags = EXTERN
  /\ funcs[m][i] = [item |-> NIL, owner |-> NIL, flags |-> EXTERN]

\* Module m has been linked with o, directly or not.
DependsOn(m, o) == \A S \in SUBSET Handle : m \in S /\ Closed(S) => o \in S

Resolved(m, i) ==
  /\ image[m].funcs[i].flags = EXTERN
  /\ \E o \in Handle : \E j \in DOMAIN image[o].funcs :
       /\ image[o].funcs[j] = [name |-> image[m].funcs[i].name, flags |-> 0,
                               len |-> bytes[m][i]]
       /\ funcs[m][i] = [item |-> Code(o, j), owner |-> o, flags |-> EXTERN + LINKED]
       /\ DependsOn(m, o)

ItemInv(m, i) == Own(m, i) \/ Cfunction(m, i) \/ Unresolved(m, i) \/ Resolved(m, i)

\* The tables of a module have an item for each entry of its file.
Shape ==
  /\ live \subseteq Handle /\ linked \subseteq Handle \X Handle
  /\ image \in [Handle -> Image]
  /\ DOMAIN funcs = Handle /\ DOMAIN bytes = Handle
  /\ \A m \in live : DOMAIN funcs[m] = DOMAIN image[m].funcs
                     /\ DOMAIN bytes[m] = DOMAIN image[m].funcs

IInv == Shape /\ \A m \in live : \A i \in DOMAIN image[m].funcs : ItemInv(m, i)

\* Entries of a file have names and sizes.
LEMMA EntryType ==
  ASSUME Shape, NEW m \in Handle, NEW i \in DOMAIN image[m].funcs
  PROVE  image[m].funcs[i] \in Entry
  BY DEF Shape, Image

\* A nonempty set of numbers has a first one.
LEMMA FirstIn == ASSUME NEW S \in SUBSET Nat, S # {} PROVE First(S) \in S
<1>1. PICK k \in S : \A l \in S : ~(<<l, k>> \in OpToRel(<, Nat))
  BY NatLessThanWellFounded, WFMin
<1>2. \A l \in S : ~(l < k)
  BY <1>1, Zenon DEF OpToRel
<1>3. \A l \in S : k <= l
  BY <1>2
<1> QED BY <1>3 DEF First

\* The address of an entry's code is not the null pointer.
LEMMA CodeNotNil ==
  ASSUME Shape, NEW m \in Handle, NEW i \in DOMAIN image[m].funcs
  PROVE  Code(m, i) # NIL
<1>1. image[m].funcs \in Seq(Entry)
  BY DEF Shape, Image
<1>2. i \in Nat \ {0}
  BY <1>1, LenProperties
<1> QED BY <1>2, LinkAssumption DEF Code, Address

\* With distinct hashes a search finds entries of the name searched for.
LEMMA FoundName ==
  ASSUME Shape, NamesHashApart, NEW m \in Handle, NEW k \in Name, NEW i \in FuncFound(m, k)
  PROVE  i \in DOMAIN image[m].funcs /\ image[m].funcs[i].name = k
<1>1. i \in DOMAIN image[m].funcs /\ Matches(image[m].funcs[i].name, k)
  BY DEF FuncFound, Found, FuncNames
<1>2. image[m].funcs[i].name \in Name
  BY <1>1, EntryType DEF Entry
<1> QED BY <1>1, <1>2 DEF Matches, NamesHashApart

\* The flags and the owner of an item that is not of the module's own bytecode.
LEMMA CfunctionFields ==
  ASSUME NEW m \in Handle, NEW i, Cfunction(m, i)
  PROVE  /\ funcs[m][i].owner = m /\ image[m].funcs[i].flags = NATIVE
         /\ funcs[m][i].flags \in {NATIVE, NATIVE + LINKED}
<1>1. CASE funcs[m][i] = [item |-> NIL, owner |-> m, flags |-> NATIVE]
  BY <1>1 DEF Cfunction
<1>2. CASE \E c \in CFunc : funcs[m][i] = [item |-> c, owner |-> m, flags |-> NATIVE + LINKED]
  <2>1. PICK c \in CFunc : funcs[m][i] = [item |-> c, owner |-> m, flags |-> NATIVE + LINKED]
    BY <1>2
  <2> QED BY <2>1 DEF Cfunction
<1> QED BY <1>1, <1>2 DEF Cfunction

LEMMA ResolvedFields ==
  ASSUME NEW m \in Handle, NEW i, Resolved(m, i)
  PROVE  funcs[m][i].flags = EXTERN + LINKED
<1>1. PICK o \in Handle : \E j \in DOMAIN image[o].funcs :
        funcs[m][i] = [item |-> Code(o, j), owner |-> o, flags |-> EXTERN + LINKED]
  BY DEF Resolved
<1>2. PICK j \in DOMAIN image[o].funcs :
        funcs[m][i] = [item |-> Code(o, j), owner |-> o, flags |-> EXTERN + LINKED]
  BY <1>1
<1> QED BY <1>2

\* An item that a step leaves alone keeps its invariant when the link relation grows
\* and the files of the modules loaded so far are kept.
LEMMA ItemKept ==
  ASSUME Shape, NEW m \in Handle, NEW i \in DOMAIN image[m].funcs, ItemInv(m, i),
         funcs'[m][i] = funcs[m][i], bytes'[m][i] = bytes[m][i],
         linked \subseteq linked',
         \A o \in Handle : image[o] # NoImage => image'[o] = image[o]
  PROVE  ItemInv(m, i)'
<1>1. image'[m] = image[m]
  BY DEF NoImage
<1>2. CASE Resolved(m, i)
  <2> DEFINE Target(o, j) ==
        /\ image[o].funcs[j] = [name |-> image[m].funcs[i].name, flags |-> 0,
                                len |-> bytes[m][i]]
        /\ funcs[m][i] = [item |-> Code(o, j), owner |-> o, flags |-> EXTERN + LINKED]
        /\ DependsOn(m, o)
  <2>0. PICK o \in Handle : \E j \in DOMAIN image[o].funcs : Target(o, j)
    BY <1>2 DEF Resolved
  <2>1. PICK j \in DOMAIN image[o].funcs : Target(o, j)
    BY <2>0
  <2>2. image'[o] = image[o]
    BY DEF NoImage
  <2>3. DependsOn(m, o)'
    BY <2>1 DEF DependsOn, Closed
  <2>4. Resolved(m, i)'
    BY <1>1, <1>2, <2>1, <2>2, <2>3 DEF Resolved, Code
  <2> QED BY <2>4 DEF ItemInv
<1>3. CASE Own(m, i) \/ Cfunction(m, i) \/ Unresolved(m, i)
  BY <1>1, <1>3 DEF ItemInv, Own, Cfunction, Unresolved, Code
<1> QED BY <1>2, <1>3 DEF ItemInv

\* Loading a module.
LEMMA NewIInv == ASSUME IInv, New PROVE IInv'
<1>1. PICK m \in Handle, im \in Images :
        /\ m \notin live /\ image[m] = NoImage
        /\ live' = live \cup {m}
        /\ image' = [image EXCEPT ![m] = im]
        /\ funcs' = [funcs EXCEPT ![m] = Loaded(m, im)]
        /\ bytes' = [bytes EXCEPT ![m] = [i \in DOMAIN im.funcs |-> im.funcs[i].len]]
        /\ UNCHANGED linked
  BY DEF New
<1>2. im \in Image
  BY LinkAssumption
<1>3. image'[m] = im /\ funcs'[m] = Loaded(m, im)
      /\ bytes'[m] = [i \in DOMAIN im.funcs |-> im.funcs[i].len]
  BY <1>1 DEF IInv, Shape
<1>4. Shape'
  BY <1>1, <1>2, <1>3 DEF IInv, Shape, Loaded
<1>5. ASSUME NEW l \in live', NEW i \in DOMAIN image'[l].funcs PROVE ItemInv(l, i)'
  <2>1. CASE l = m
    <3>1. im.funcs[i] \in Entry
      BY <1>2, <1>3, <1>5, <2>1 DEF Image
    <3> QED BY <1>3, <1>5, <2>1, <3>1
            DEF ItemInv, Own, Cfunction, Unresolved, Loaded, Entry, NATIVE, EXTERN, Code
  <2>2. CASE l # m
    <3>1. /\ l \in live /\ l \in Handle /\ i \in DOMAIN image[l].funcs
          /\ funcs'[l] = funcs[l] /\ bytes'[l] = bytes[l]
      BY <1>1, <1>5, <2>2 DEF IInv, Shape
    <3>2. \A o \in Handle : image[o] # NoImage => image'[o] = image[o]
      BY <1>1 DEF IInv, Shape
    <3> QED BY <1>1, <3>1, <3>2, ItemKept DEF IInv
  <2> QED BY <2>1, <2>2
<1> QED BY <1>4, <1>5 DEF IInv

\* Linking natives.
LEMMA NativesIInv == ASSUME IInv, LinkNatives PROVE IInv'
<1>1. PICK m \in live, natives \in NativeLists :
        /\ funcs' = [funcs EXCEPT ![m] = LinkedNatives(m, natives)]
        /\ UNCHANGED <<live, image, bytes, linked>>
  BY DEF LinkNatives
<1>2. m \in Handle /\ funcs'[m] = LinkedNatives(m, natives)
      /\ natives \in Seq([name : Name, cfunc : CFunc])
  BY <1>1, LinkAssumption DEF IInv, Shape
<1>3. natives \in [1 .. Len(natives) -> [name : Name, cfunc : CFunc]] /\ Len(natives) \in Nat
  BY <1>2, LenProperties
<1>4. Shape'
  BY <1>1, <1>2 DEF IInv, Shape, LinkedNatives
<1>5. ASSUME NEW l \in live', NEW i \in DOMAIN image'[l].funcs PROVE ItemInv(l, i)'
  <2>1. l \in live /\ l \in Handle /\ i \in DOMAIN image[l].funcs /\ ItemInv(l, i)
    BY <1>1, <1>5 DEF IInv, Shape
  <2>2. CASE funcs'[l][i] = funcs[l][i]
    BY <1>1, <2>1, <2>2, ItemKept DEF IInv
  <2>3. CASE funcs'[l][i] # funcs[l][i]
    <3>1. l = m /\ i \in DOMAIN funcs[m]
      BY <1>1, <2>1, <2>3 DEF IInv, Shape
    <3> DEFINE first == First(Naming(m, i, natives))
    <3>2. /\ Naming(m, i, natives) # {} /\ funcs[m][i].flags = NATIVE
          /\ funcs'[m][i] = [item |-> natives[first].cfunc, owner |-> funcs[m][i].owner,
                             flags |-> NATIVE + LINKED]
      BY <1>2, <2>3, <3>1 DEF LinkedNatives, Flags
    <3>3. first \in DOMAIN natives
      <4>1. Naming(m, i, natives) \in SUBSET Nat
        BY <1>3 DEF Naming
      <4>2. first \in Naming(m, i, natives)
        BY <4>1, <3>2, FirstIn
      <4> QED BY <4>2 DEF Naming
    <3> HIDE DEF first
    <3>4. natives[first].cfunc \in CFunc
      BY <1>3, <3>3
    <3>5. funcs[m][i].owner = m /\ image[m].funcs[i].flags = NATIVE
      <4>1. ~Own(m, i)
        BY <3>2 DEF Own, NATIVE
      <4>2. ~Unresolved(m, i)
        BY <3>2 DEF Unresolved, NATIVE, EXTERN
      <4>3. ~Resolved(m, i)
        BY <1>2, <3>2, ResolvedFields DEF NATIVE, EXTERN, LINKED
      <4>4. Cfunction(m, i)
        BY <2>1, <3>1, <4>1, <4>2, <4>3 DEF ItemInv
      <4> QED BY <1>2, <4>4, CfunctionFields
    <3>6. Cfunction(m, i)'
      BY <1>1, <3>2, <3>4, <3>5 DEF Cfunction
    <3> QED BY <3>1, <3>6 DEF ItemInv
  <2> QED BY <2>2, <2>3
<1> QED BY <1>4, <1>5 DEF IInv

\* Linking a module with a library, or with itself.
LEMMA ModuleIInv == ASSUME IInv, NamesHashApart, LinkModule PROVE IInv'
<1>1. PICK m \in live : \E lib \in live :
        /\ Linked(m, lib)
        /\ linked' = linked \cup ({m} \X ({lib} \ {m}))
        /\ UNCHANGED <<live, image>>
  BY DEF LinkModule
<1>2. PICK lib \in live :
        /\ Linked(m, lib)
        /\ linked' = linked \cup ({m} \X ({lib} \ {m}))
        /\ UNCHANGED <<live, image>>
  BY <1>1
<1> DEFINE j(i) == CHOOSE k \in Sources(m, i, lib) : TRUE
<1>3. /\ m \in Handle /\ lib \in Handle
      /\ funcs' = [funcs EXCEPT ![m] =
           [i \in DOMAIN funcs[m] |->
              IF i \in Links(m, lib)
              THEN [item  |-> funcs[lib][j(i)].item, owner |-> funcs[lib][j(i)].owner,
                    flags |-> EXTERN + LINKED]
              ELSE funcs[m][i]]]
      /\ bytes' = [bytes EXCEPT ![m] =
           [i \in DOMAIN funcs[m] |->
              IF i \in Links(m, lib) THEN bytes[lib][j(i)] ELSE bytes[m][i]]]
  BY <1>2 DEF Linked, IInv, Shape
<1>4. Shape'
  BY <1>2, <1>3 DEF IInv, Shape
<1>5. ASSUME NEW l \in live', NEW i \in DOMAIN image'[l].funcs PROVE ItemInv(l, i)'
  <2>1. l \in live /\ l \in Handle /\ i \in DOMAIN image[l].funcs /\ ItemInv(l, i)
    BY <1>2, <1>5 DEF IInv, Shape
  <2>2. CASE ~(l = m /\ i \in Links(m, lib))
    <3>1. funcs'[l][i] = funcs[l][i] /\ bytes'[l][i] = bytes[l][i]
      BY <1>3, <2>1, <2>2 DEF IInv, Shape
    <3> QED BY <1>2, <2>1, <3>1, ItemKept DEF IInv
  <2>3. CASE l = m /\ i \in Links(m, lib)
    <3>1. /\ funcs[m][i].flags = EXTERN /\ j(i) \in Sources(m, i, lib)
          /\ funcs'[m][i] = [item  |-> funcs[lib][j(i)].item,
                             owner |-> funcs[lib][j(i)].owner, flags |-> EXTERN + LINKED]
          /\ bytes'[m][i] = bytes[lib][j(i)]
      BY <1>3, <2>1, <2>3 DEF Links, Flags, IInv, Shape
    <3> DEFINE s == j(i)
    <3>2. /\ s \in FuncFound(lib, image[m].funcs[i].name)
          /\ funcs[lib][s].flags \notin {NATIVE, NATIVE + LINKED} /\ funcs[lib][s].item # NIL
      BY <3>1 DEF Sources, Flags
    <3> HIDE DEF j
    <3>3. image[m].funcs[i].name \in Name
      BY <1>3, <2>1, <2>3, EntryType DEF Entry, IInv
    <3>4. s \in DOMAIN image[lib].funcs /\ image[lib].funcs[s].name = image[m].funcs[i].name
      BY <1>3, <3>2, <3>3, FoundName DEF IInv
    <3>5. image[lib].funcs[s] \in Entry
      BY <1>3, <3>4, EntryType DEF IInv
    <3>6. image[m].funcs[i].flags = EXTERN
      <4>1. ~Own(m, i)
        BY <3>1 DEF Own, EXTERN
      <4>2. ~Cfunction(m, i)
        BY <1>3, <3>1, CfunctionFields DEF NATIVE, EXTERN, LINKED
      <4> QED BY <2>1, <2>3, <4>1, <4>2 DEF ItemInv, Unresolved, Resolved
    <3>7. ItemInv(lib, s)
      BY <3>4 DEF IInv
    <3>8. ~Cfunction(lib, s)
      BY <1>3, <3>2, CfunctionFields
    <3>9. ~Unresolved(lib, s)
      BY <3>2 DEF Unresolved
    <3>10. CASE Own(lib, s)
      <4>1. DependsOn(m, lib)'
        <5>1. SUFFICES ASSUME NEW S \in SUBSET Handle, m \in S,
                              \A p \in linked' : p[1] \in S => p[2] \in S
                       PROVE  lib \in S
          BY DEF DependsOn, Closed
        <5>2. CASE lib = m
          BY <5>1, <5>2
        <5>3. CASE lib # m
          <6>1. <<m, lib>> \in linked'
            BY <1>2, <5>3
          <6> QED BY <5>1, <6>1
        <5> QED BY <5>2, <5>3
      <4>2. image[lib].funcs[s] = [name |-> image[m].funcs[i].name, flags |-> 0,
                                   len |-> bytes[lib][s]]
        BY <3>4, <3>5, <3>10 DEF Own, Entry
      <4>3. funcs'[m][i] = [item |-> Code(lib, s), owner |-> lib, flags |-> EXTERN + LINKED]
        BY <3>1, <3>10 DEF Own
      <4>4. Resolved(m, i)'
        BY <1>2, <1>3, <3>1, <3>4, <3>6, <4>1, <4>2, <4>3 DEF Resolved, Code
      <4> QED BY <2>3, <4>4 DEF ItemInv
    <3>11. CASE Resolved(lib, s)
      <4> DEFINE Target(o, k) ==
            /\ image[o].funcs[k] = [name |-> image[lib].funcs[s].name, flags |-> 0,
                                    len |-> bytes[lib][s]]
            /\ funcs[lib][s] = [item |-> Code(o, k), owner |-> o, flags |-> EXTERN + LINKED]
            /\ DependsOn(lib, o)
      <4>1. PICK o \in Handle : \E k \in DOMAIN image[o].funcs : Target(o, k)
        BY <3>11 DEF Resolved
      <4>2. PICK k \in DOMAIN image[o].funcs : Target(o, k)
        BY <4>1
      <4>3. DependsOn(m, o)'
        <5>1. SUFFICES ASSUME NEW S \in SUBSET Handle, m \in S,
                              \A p \in linked' : p[1] \in S => p[2] \in S
                       PROVE  o \in S
          BY DEF DependsOn, Closed
        <5>2. lib \in S
          <6>1. CASE lib = m
            BY <5>1, <6>1
          <6>2. CASE lib # m
            <7>1. <<m, lib>> \in linked'
              BY <1>2, <6>2
            <7> QED BY <5>1, <7>1
          <6> QED BY <6>1, <6>2
        <5>3. Closed(S)
          BY <1>2, <5>1 DEF Closed
        <5> QED BY <4>2, <5>2, <5>3 DEF DependsOn
      <4>4. funcs'[m][i] = [item |-> Code(o, k), owner |-> o, flags |-> EXTERN + LINKED]
        BY <3>1, <4>2
      <4>5. Resolved(m, i)'
        BY <1>2, <1>3, <3>1, <3>4, <3>6, <4>2, <4>3, <4>4 DEF Resolved, Code
      <4> QED BY <2>3, <4>5 DEF ItemInv
    <3> QED BY <3>7, <3>8, <3>9, <3>10, <3>11 DEF ItemInv
  <2> QED BY <2>2, <2>3
<1> QED BY <1>4, <1>5 DEF IInv

\* Steps that leave the function tables of the modules that stay loaded alone.
LEMMA OtherIInv ==
  ASSUME IInv, LinkPtr \/ Free \/ UNCHANGED state
  PROVE  IInv'
<1>1. live' \subseteq live /\ UNCHANGED <<image, linked>>
  BY DEF LinkPtr, Free, state
<1>2. /\ DOMAIN funcs' = Handle /\ DOMAIN bytes' = Handle
      /\ \A l \in live' : funcs'[l] = funcs[l] /\ bytes'[l] = bytes[l]
  BY DEF LinkPtr, Free, state, IInv, Shape
<1>3. Shape'
  BY <1>1, <1>2 DEF IInv, Shape
<1>4. ASSUME NEW l \in live', NEW i \in DOMAIN image'[l].funcs PROVE ItemInv(l, i)'
  <2>1. l \in live /\ l \in Handle /\ i \in DOMAIN image[l].funcs /\ ItemInv(l, i)
    BY <1>1, <1>4 DEF IInv, Shape
  <2> QED BY <1>1, <1>2, <2>1, ItemKept DEF IInv
<1> QED BY <1>3, <1>4 DEF IInv

\* Before anything is loaded.
LEMMA InitIInv == Init => IInv
<1> SUFFICES ASSUME Init PROVE IInv
  OBVIOUS
<1>1. NoImage \in Image
  BY EmptySeq DEF NoImage, Image
<1> QED BY <1>1 DEF Init, IInv, Shape

\* Every item of every loaded module is what its file and the links made say.
THEOREM Invariance == NamesHashApart => (Spec => []IInv)
<1> SUFFICES ASSUME NamesHashApart PROVE Spec => []IInv
  OBVIOUS
<1>1. IInv /\ [Next]_state => IInv'
  BY NewIInv, NativesIInv, ModuleIInv, OtherIInv DEF Next, Finished
<1> QED BY <1>1, InitIInv, PTL DEF Spec

\* tagha_module_link_module: a linked extern is the bytecode that some module defines
\* under its name, with that module as owner, through any number of externs.
THEOREM LinksSound == NamesHashApart => (Spec => []LinkedToDefinition)
<1> SUFFICES ASSUME NamesHashApart PROVE Spec => []LinkedToDefinition
  OBVIOUS
<1>1. ASSUME IInv PROVE LinkedToDefinition
  <2> SUFFICES ASSUME NEW m \in live, NEW i \in DOMAIN funcs[m], Flags(m, i) = EXTERN + LINKED
               PROVE  \E o \in Handle : \E j \in DOMAIN image[o].funcs :
                        Defines(o, j, funcs[m][i], image[m].funcs[i].name, bytes[m][i])
    BY DEF LinkedToDefinition
  <2>1. m \in Handle /\ i \in DOMAIN image[m].funcs /\ ItemInv(m, i)
    BY <1>1 DEF IInv, Shape
  <2>2. ~Own(m, i) /\ ~Unresolved(m, i)
    BY DEF Own, Unresolved, Flags, EXTERN, LINKED
  <2>3. ~Cfunction(m, i)
    BY <2>1, CfunctionFields DEF Flags, NATIVE, EXTERN, LINKED
  <2> DEFINE Target(o, j) ==
        /\ image[o].funcs[j] = [name |-> image[m].funcs[i].name, flags |-> 0,
                                len |-> bytes[m][i]]
        /\ funcs[m][i] = [item |-> Code(o, j), owner |-> o, flags |-> EXTERN + LINKED]
  <2>4. PICK o \in Handle : \E j \in DOMAIN image[o].funcs : Target(o, j)
    BY <2>1, <2>2, <2>3 DEF ItemInv, Resolved
  <2>5. PICK j \in DOMAIN image[o].funcs : Target(o, j)
    BY <2>4
  <2>6. Defines(o, j, funcs[m][i], image[m].funcs[i].name, bytes[m][i])
    BY <2>5 DEF Defines
  <2> QED BY <2>6
<1> QED BY <1>1, Invariance, PTL

\* A module's functions are owned by modules that it was linked with, directly or not.
THEOREM DependenciesLinked == NamesHashApart => (Spec => []DependsOnLinkedOnly)
<1> SUFFICES ASSUME NamesHashApart PROVE Spec => []DependsOnLinkedOnly
  OBVIOUS
<1>1. ASSUME IInv PROVE DependsOnLinkedOnly
  <2> SUFFICES ASSUME NEW m \in live, NEW i \in DOMAIN funcs[m], funcs[m][i].owner # NIL
               PROVE  DependsOn(m, funcs[m][i].owner)
    BY DEF DependsOnLinkedOnly, DependsOn
  <2>1. m \in Handle /\ i \in DOMAIN image[m].funcs /\ ItemInv(m, i)
    BY <1>1 DEF IInv, Shape
  <2>2. CASE Own(m, i)
    BY <2>2 DEF Own, DependsOn
  <2>3. CASE Cfunction(m, i)
    BY <2>1, <2>3, CfunctionFields DEF DependsOn
  <2>4. CASE Unresolved(m, i)
    BY <2>4 DEF Unresolved
  <2>5. CASE Resolved(m, i)
    <3>1. PICK o \in Handle : \E j \in DOMAIN image[o].funcs :
            /\ funcs[m][i] = [item |-> Code(o, j), owner |-> o, flags |-> EXTERN + LINKED]
            /\ DependsOn(m, o)
      BY <2>5 DEF Resolved
    <3>2. PICK j \in DOMAIN image[o].funcs :
            /\ funcs[m][i] = [item |-> Code(o, j), owner |-> o, flags |-> EXTERN + LINKED]
            /\ DependsOn(m, o)
      BY <3>1
    <3> QED BY <3>2
  <2> QED BY <2>1, <2>2, <2>3, <2>4, <2>5 DEF ItemInv
<1> QED BY <1>1, Invariance, PTL

\* A function that exec_call cannot call has its error code as its flags.
THEOREM FailuresReported == NamesHashApart => (Spec => []UnlinkedReported)
<1> SUFFICES ASSUME NamesHashApart PROVE Spec => []UnlinkedReported
  OBVIOUS
<1>1. ASSUME IInv PROVE UnlinkedReported
  <2> DEFINE R(m, i) ==
        \/ funcs[m][i].item # NIL /\ funcs[m][i].owner # NIL
        \/ funcs[m][i].item = NIL /\ image[m].funcs[i].flags = NATIVE
           /\ funcs[m][i].flags = TaghaErrBadNative
        \/ funcs[m][i].item = NIL /\ funcs[m][i].owner = NIL
           /\ image[m].funcs[i].flags = EXTERN /\ funcs[m][i].flags = TaghaErrBadExtern
  <2> SUFFICES ASSUME NEW m \in live, NEW i \in DOMAIN funcs[m] PROVE R(m, i)
    BY DEF UnlinkedReported
  <2>1. m \in Handle /\ i \in DOMAIN image[m].funcs /\ ItemInv(m, i)
    BY <1>1 DEF IInv, Shape
  <2>2. CASE Own(m, i)
    BY <1>1, <2>1, <2>2, CodeNotNil, LinkAssumption DEF Own, IInv
  <2>3. CASE funcs[m][i] = [item |-> NIL, owner |-> m, flags |-> NATIVE]
             /\ image[m].funcs[i].flags = NATIVE
    BY <2>3 DEF TaghaErrBadNative, NATIVE
  <2>4. CASE \E c \in CFunc : funcs[m][i] = [item |-> c, owner |-> m, flags |-> NATIVE + LINKED]
    <3>1. PICK c \in CFunc : funcs[m][i] = [item |-> c, owner |-> m, flags |-> NATIVE + LINKED]
      BY <2>4
    <3> QED BY <3>1, <2>1, LinkAssumption
  <2>5. CASE Unresolved(m, i)
    BY <2>5 DEF Unresolved, TaghaErrBadExtern, EXTERN
  <2>6. CASE Resolved(m, i)
    <3>1. PICK o \in Handle : \E j \in DOMAIN image[o].funcs :
            funcs[m][i] = [item |-> Code(o, j), owner |-> o, flags |-> EXTERN + LINKED]
      BY <2>6 DEF Resolved
    <3>2. PICK j \in DOMAIN image[o].funcs :
            funcs[m][i] = [item |-> Code(o, j), owner |-> o, flags |-> EXTERN + LINKED]
      BY <3>1
    <3> QED BY <1>1, <3>2, CodeNotNil, LinkAssumption DEF IInv
  <2> QED BY <2>1, <2>2, <2>3, <2>4, <2>5, <2>6 DEF ItemInv, Cfunction
<1> QED BY <1>1, Invariance, PTL
\* A native knows its module before it is linked.
OwnedItem == {it \in Item : it.flags = NATIVE => it.owner \in Handle}

\* TypeOK, with the owners.
Typed ==
  /\ live \subseteq Handle /\ linked \subseteq Handle \X Handle
  /\ image \in [Handle -> Images \cup {NoImage}]
  /\ funcs \in [Handle -> Seq(OwnedItem)] /\ bytes \in [Handle -> Seq(Nat)]
  /\ vars \in [Handle -> Seq(Handle \cup {NIL})]
  /\ \A m \in live : /\ DOMAIN funcs[m] = DOMAIN image[m].funcs
                     /\ DOMAIN bytes[m] = DOMAIN image[m].funcs
                     /\ DOMAIN vars[m] = DOMAIN image[m].vars

\* A function on the indices of a sequence is a sequence.
LEMMA Along ==
  ASSUME NEW S, NEW q \in Seq(S), NEW T, NEW f, f = [i \in DOMAIN q |-> f[i]],
         \A i \in DOMAIN q : f[i] \in T
  PROVE  f \in Seq(T) /\ DOMAIN f = DOMAIN q
<1>1. Len(q) \in Nat /\ DOMAIN q = 1 .. Len(q)
  OBVIOUS
<1>2. f \in [1 .. Len(q) -> T]
  BY <1>1
<1> QED BY <1>1, <1>2

LEMMA NewTyped == ASSUME Typed, New PROVE Typed'
<1>1. PICK m \in Handle, im \in Images :
        /\ m \notin live
        /\ live' = live \cup {m}
        /\ image' = [image EXCEPT ![m] = im]
        /\ funcs' = [funcs EXCEPT ![m] = Loaded(m, im)]
        /\ bytes' = [bytes EXCEPT ![m] = [i \in DOMAIN im.funcs |-> im.funcs[i].len]]
        /\ vars' = [vars EXCEPT ![m] = [i \in DOMAIN im.vars |-> NIL]]
        /\ UNCHANGED linked
  BY DEF New
<1>2. im.funcs \in Seq(Entry) /\ im.vars \in Seq(Name)
  BY LinkAssumption DEF Image
<1>3. \A i \in DOMAIN im.funcs : im.funcs[i] \in Entry /\ i \in Nat \ {0}
  BY <1>2
<1>4. \A i \in DOMAIN im.funcs : Loaded(m, im)[i] \in OwnedItem
  <2> SUFFICES ASSUME NEW i \in DOMAIN im.funcs PROVE Loaded(m, im)[i] \in OwnedItem
    OBVIOUS
  <2>1. im.funcs[i].flags \in {0, NATIVE, EXTERN} /\ Code(m, i) \in Address
    BY <1>3 DEF Entry, Code, Address
  <2> QED BY <2>1 DEF Loaded, OwnedItem, Item, NATIVE, EXTERN, LINKED
<1>5. Loaded(m, im) \in Seq(OwnedItem) /\ DOMAIN Loaded(m, im) = DOMAIN im.funcs
  <2>1. Loaded(m, im) = [i \in DOMAIN im.funcs |-> Loaded(m, im)[i]]
    BY DEF Loaded
  <2> HIDE DEF Loaded
  <2> QED BY <2>1, <1>2, <1>4, Along
<1>6. [i \in DOMAIN im.funcs |-> im.funcs[i].len] \in Seq(Nat)
      /\ DOMAIN [i \in DOMAIN im.funcs |-> im.funcs[i].len] = DOMAIN im.funcs
  <2> DEFINE sizes == [i \in DOMAIN im.funcs |-> im.funcs[i].len]
  <2>1. \A i \in DOMAIN im.funcs : sizes[i] \in Nat
    BY <1>3 DEF Entry
  <2>2. sizes = [i \in DOMAIN im.funcs |-> sizes[i]]
    OBVIOUS
  <2> HIDE DEF sizes
  <2>3. sizes \in Seq(Nat) /\ DOMAIN sizes = DOMAIN im.funcs
    BY <1>2, <2>1, <2>2, Along
  <2> QED BY <2>3 DEF sizes
<1>7. [i \in DOMAIN im.vars |-> NIL] \in Seq(Handle \cup {NIL})
  BY <1>2
<1> QED BY <1>1, <1>5, <1>6, <1>7 DEF Typed

LEMMA NativesTyped == ASSUME Typed, LinkNatives PROVE Typed'
<1>1. PICK m \in live, natives \in NativeLists :
        /\ funcs' = [funcs EXCEPT ![m] = LinkedNatives(m, natives)]
        /\ UNCHANGED <<live, image, bytes, vars, linked>>
  BY DEF LinkNatives
<1>2. m \in Handle /\ funcs[m] \in Seq(OwnedItem)
  BY DEF Typed
<1>3. \A i \in DOMAIN funcs[m] : LinkedNatives(m, natives)[i] \in OwnedItem
  <2> SUFFICES ASSUME NEW i \in DOMAIN funcs[m] PROVE LinkedNatives(m, natives)[i] \in OwnedItem
    OBVIOUS
  <2>1. funcs[m][i] \in OwnedItem
    BY <1>2
  <2> DEFINE k == First(Naming(m, i, natives))
  <2>2. CASE Naming(m, i, natives) # {} /\ Flags(m, i) = NATIVE
    <3>1. Naming(m, i, natives) \in SUBSET Nat /\ Naming(m, i, natives) \subseteq DOMAIN natives
      BY LinkAssumption DEF Naming
    <3>2. k \in DOMAIN natives
      BY <2>2, <3>1, FirstIn
    <3> HIDE DEF k
    <3>3. natives \in Seq([name : Name, cfunc : CFunc])
      BY LinkAssumption
    <3>4. natives[k] \in [name : Name, cfunc : CFunc]
      BY <3>2, <3>3, ElementOfSeq, LenProperties
    <3>5. natives[k].cfunc \in CFunc
      BY <3>4
    <3>6. funcs[m][i].owner \in Handle
      BY <2>1, <2>2 DEF OwnedItem, Flags
    <3>7. LinkedNatives(m, natives)[i] =
            [item |-> natives[k].cfunc, owner |-> funcs[m][i].owner, flags |-> NATIVE + LINKED]
      BY <2>2 DEF LinkedNatives, k
    <3> QED BY <3>5, <3>6, <3>7 DEF OwnedItem, Item, NATIVE, LINKED
  <2>3. CASE ~(Naming(m, i, natives) # {} /\ Flags(m, i) = NATIVE)
    BY <2>1, <2>3 DEF LinkedNatives
  <2> QED BY <2>2, <2>3
<1>4. LinkedNatives(m, natives) = [i \in DOMAIN funcs[m] |-> LinkedNatives(m, natives)[i]]
  BY DEF LinkedNatives
<1>5. LinkedNatives(m, natives) \in Seq(OwnedItem)
      /\ DOMAIN LinkedNatives(m, natives) = DOMAIN funcs[m]
  BY <1>2, <1>3, <1>4, Along
<1> QED BY <1>1, <1>2, <1>5 DEF Typed

LEMMA ModuleTyped == ASSUME Typed, LinkModule PROVE Typed'
<1>1. PICK m \in live, lib \in live :
        /\ Linked(m, lib)
        /\ linked' = linked \cup ({m} \X ({lib} \ {m}))
        /\ UNCHANGED <<live, image, vars>>
  BY DEF LinkModule
<1>2. m \in Handle /\ lib \in Handle
      /\ funcs[m] \in Seq(OwnedItem) /\ funcs[lib] \in Seq(OwnedItem)
      /\ bytes[m] \in Seq(Nat) /\ bytes[lib] \in Seq(Nat)
      /\ DOMAIN bytes[lib] = DOMAIN funcs[lib] /\ DOMAIN bytes[m] = DOMAIN funcs[m]
  BY DEF Typed
<1> DEFINE j(i) == CHOOSE k \in Sources(m, i, lib) : TRUE
           items == [i \in DOMAIN funcs[m] |->
                       IF i \in Links(m, lib)
                       THEN [item  |-> funcs[lib][j(i)].item, owner |-> funcs[lib][j(i)].owner,
                             flags |-> EXTERN + LINKED]
                       ELSE funcs[m][i]]
           sizes == [i \in DOMAIN funcs[m] |->
                       IF i \in Links(m, lib) THEN bytes[lib][j(i)] ELSE bytes[m][i]]
<1>3. funcs' = [funcs EXCEPT ![m] = items] /\ bytes' = [bytes EXCEPT ![m] = sizes]
  BY <1>1 DEF Linked
<1>4. ASSUME NEW i \in DOMAIN funcs[m], i \in Links(m, lib)
      PROVE  /\ j(i) \in DOMAIN funcs[lib]
             /\ funcs[lib][j(i)].item \in Address /\ funcs[lib][j(i)].owner \in Handle
  <2>1. j(i) \in Sources(m, i, lib)
    BY <1>4 DEF Links
  <2>2. /\ j(i) \in DOMAIN funcs[lib] /\ funcs[lib][j(i)].item # NIL
        /\ funcs[lib][j(i)].flags \notin {NATIVE, NATIVE + LINKED}
    BY <2>1, <1>1 DEF Sources, Flags, FuncFound, Found, FuncNames, Typed
  <2>3. funcs[lib][j(i)] \in Item
    BY <2>2, <1>2 DEF OwnedItem
  <2> QED BY <2>2, <2>3 DEF Item
<1>5. \A i \in DOMAIN funcs[m] : items[i] \in OwnedItem /\ sizes[i] \in Nat
  <2> SUFFICES ASSUME NEW i \in DOMAIN funcs[m] PROVE items[i] \in OwnedItem /\ sizes[i] \in Nat
    OBVIOUS
  <2>1. CASE i \in Links(m, lib)
    <3>1. items[i] \in OwnedItem
      BY <1>4, <2>1 DEF OwnedItem, Item, NATIVE, EXTERN, LINKED
    <3>2. j(i) \in DOMAIN bytes[lib]
      BY <1>2, <1>4, <2>1
    <3>3. bytes[lib][j(i)] \in Nat
      <4> HIDE DEF j
      <4> QED BY <1>2, <3>2
    <3>4. sizes[i] \in Nat
      BY <3>3, <2>1
    <3> QED BY <3>1, <3>4
  <2>2. CASE i \notin Links(m, lib)
    BY <1>2, <2>2
  <2> QED BY <2>1, <2>2
<1>6. items \in Seq(OwnedItem) /\ sizes \in Seq(Nat)
      /\ DOMAIN items = DOMAIN funcs[m] /\ DOMAIN sizes = DOMAIN funcs[m]
  <2>1. items = [i \in DOMAIN funcs[m] |-> items[i]] /\ sizes = [i \in DOMAIN funcs[m] |-> sizes[i]]
    OBVIOUS
  <2> HIDE DEF items, sizes
  <2> QED BY <2>1, <1>2, <1>5, Along
<1> HIDE DEF items, sizes
<1> QED BY <1>1, <1>2, <1>3, <1>6 DEF Typed

LEMMA OtherTyped == ASSUME Typed, LinkPtr \/ Free \/ UNCHANGED state PROVE Typed'
<1>1. CASE LinkPtr
  <2>1. PICK m \in live, ptr \in live, s \in Name :
          /\ vars' = [vars EXCEPT ![m] =
                        [i \in DOMAIN vars[m] |-> IF i \in VarFound(m, s) THEN ptr ELSE vars[m][i]]]
          /\ UNCHANGED <<live, image, funcs, bytes, linked>>
    BY <1>1 DEF LinkPtr
  <2> DEFINE now == [i \in DOMAIN vars[m] |-> IF i \in VarFound(m, s) THEN ptr ELSE vars[m][i]]
  <2>2. vars[m] \in Seq(Handle \cup {NIL}) /\ m \in Handle /\ ptr \in Handle
    BY DEF Typed
  <2>3. now \in Seq(Handle \cup {NIL}) /\ DOMAIN now = DOMAIN vars[m]
    <3>1. Len(vars[m]) \in Nat /\ DOMAIN vars[m] = 1 .. Len(vars[m])
      BY <2>2
    <3>2. now \in [DOMAIN vars[m] -> Handle \cup {NIL}]
      BY <2>2
    <3> HIDE DEF now
    <3>3. now \in [1 .. Len(vars[m]) -> Handle \cup {NIL}]
      BY <3>1, <3>2
    <3>4. now \in Seq(Handle \cup {NIL})
      BY <3>1, <3>3
    <3> QED BY <3>2, <3>4
  <2> HIDE DEF now
  <2>4. vars' = [vars EXCEPT ![m] = now]
    BY <2>1 DEF now
  <2> QED BY <2>1, <2>2, <2>3, <2>4 DEF Typed
<1>2. CASE Free
  <2>1. PICK m \in live :
          /\ live' = live \ {m}
          /\ funcs' = [funcs EXCEPT ![m] = << >>]
          /\ bytes' = [bytes EXCEPT ![m] = << >>]
          /\ vars' = [vars EXCEPT ![m] = << >>]
          /\ UNCHANGED <<image, linked>>
    BY <1>2 DEF Free
  <2>2. /\ << >> \in Seq(OwnedItem) /\ << >> \in Seq(Nat) /\ << >> \in Seq(Handle \cup {NIL})
    BY EmptySeq
  <2> QED BY <2>1, <2>2 DEF Typed
<1>3. CASE UNCHANGED state
  BY <1>3 DEF state, Typed
<1> QED BY <1>1, <1>2, <1>3

LEMMA TypedAlways == Spec => []Typed
<1>1. Init => Typed
  <2> SUFFICES ASSUME Init PROVE Typed
    OBVIOUS
  <2>1. << >> \in Seq(OwnedItem) /\ << >> \in Seq(Nat) /\ << >> \in Seq(Handle \cup {NIL})
    BY EmptySeq
  <2> QED BY <2>1 DEF Init, Typed
<1>2. Typed /\ [Next]_state => Typed'
  BY NewTyped, NativesTyped, ModuleTyped, OtherTyped DEF Next, Finished
<1> QED BY <1>1, <1>2, PTL DEF Spec

\* Whatever is linked with whatever in any order, also with names that collide: each table
\* has an item for each entry of the file, no item says it is linked without the address of
\* a function, and every owner of bytecode is a module.
THEOREM TypeCorrect == Spec => []TypeOK
<1>1. Typed => TypeOK
  <2> SUFFICES ASSUME Typed, NEW m \in Handle PROVE funcs[m] \in Seq(Item)
    BY DEF Typed, TypeOK
  <2>1. funcs[m] \in Seq(OwnedItem)
    BY DEF Typed
  <2> QED BY <2>1 DEF OwnedItem
<1> QED BY <1>1, TypedAlways, PTL

\* What has the flags of an unlinked function has no function.
LEMMA UnlinkedIsNull ==
  ASSUME Typed, NEW m \in live, NEW i \in DOMAIN funcs[m], Flags(m, i) \in {NATIVE, EXTERN}
  PROVE  funcs[m][i].item = NIL
<1>1. funcs[m] \in Seq(OwnedItem)
  BY DEF Typed
<1>2. funcs[m][i] \in OwnedItem
  BY <1>1
<1> QED BY <1>2 DEF OwnedItem, Item, Flags, NATIVE, EXTERN, LINKED

\* The steps that give module a a new table b leave what can be called in it as it is.
LEMMA ChangedTable ==
  ASSUME Typed, NEW a \in live, NEW b, funcs' = [funcs EXCEPT ![a] = b],
         \A i \in DOMAIN funcs[a] : funcs[a][i].item # NIL => b[i] = funcs[a][i]
  PROVE  \A m \in live : \A i \in DOMAIN funcs[m] :
           funcs[m][i].item # NIL => funcs'[m][i] = funcs[m][i]
<1> SUFFICES ASSUME NEW m \in live, NEW i \in DOMAIN funcs[m], funcs[m][i].item # NIL
             PROVE  funcs'[m][i] = funcs[m][i]
  OBVIOUS
<1>1. DOMAIN funcs = Handle /\ live \subseteq Handle
  BY DEF Typed
<1>2. CASE m = a
  <2>1. funcs'[m] = b
    BY <1>1, <1>2
  <2> QED BY <1>2, <2>1
<1>3. CASE m # a
  <2>1. funcs'[m] = funcs[m]
    BY <1>1, <1>3
  <2> QED BY <2>1
<1> QED BY <1>2, <1>3

\* Whatever is loaded, linked and freed, with names that collide as well: a function of a
\* loaded module that could be called before a step is the same function after it.
THEOREM LinksStay == Spec => LinksStable
<1> DEFINE Stay == \A m \in live \cap live' : \A i \in DOMAIN funcs[m] :
                     funcs[m][i].item # NIL => funcs'[m][i] = funcs[m][i]
<1>1. ASSUME Typed, New PROVE Stay
  <2>1. PICK a, b : a \notin live /\ funcs' = [funcs EXCEPT ![a] = b]
    BY <1>1 DEF New
  <2>2. DOMAIN funcs = Handle /\ live \subseteq Handle
    BY <1>1 DEF Typed
  <2>3. \A m \in live : funcs'[m] = funcs[m]
    BY <2>1, <2>2
  <2> QED BY <2>3
<1>2. ASSUME Typed, LinkNatives PROVE Stay
  <2>1. PICK a \in live, natives \in NativeLists :
          funcs' = [funcs EXCEPT ![a] = LinkedNatives(a, natives)]
    BY <1>2 DEF LinkNatives
  <2>2. \A i \in DOMAIN funcs[a] :
          funcs[a][i].item # NIL => LinkedNatives(a, natives)[i] = funcs[a][i]
    BY <1>2, UnlinkedIsNull DEF LinkedNatives
  <2> HIDE DEF Stay
  <2>3. \A m \in live : \A i \in DOMAIN funcs[m] :
          funcs[m][i].item # NIL => funcs'[m][i] = funcs[m][i]
    BY <1>2, <2>1, <2>2, ChangedTable
  <2> QED BY <2>3 DEF Stay
<1>3. ASSUME Typed, LinkModule PROVE Stay
  <2>1. PICK a \in live : \E b : /\ funcs' = [funcs EXCEPT ![a] = b]
                                 /\ \A i \in DOMAIN funcs[a] :
                                      Flags(a, i) # EXTERN => b[i] = funcs[a][i]
    BY <1>3 DEF LinkModule, Linked, Links
  <2>2. PICK b : /\ funcs' = [funcs EXCEPT ![a] = b]
                 /\ \A i \in DOMAIN funcs[a] : Flags(a, i) # EXTERN => b[i] = funcs[a][i]
    BY <2>1
  <2>3. \A i \in DOMAIN funcs[a] : funcs[a][i].item # NIL => b[i] = funcs[a][i]
    BY <1>3, <2>2, UnlinkedIsNull
  <2> HIDE DEF Stay
  <2>4. \A m \in live : \A i \in DOMAIN funcs[m] :
          funcs[m][i].item # NIL => funcs'[m][i] = funcs[m][i]
    BY <1>3, <2>2, <2>3, ChangedTable
  <2> QED BY <2>4 DEF Stay
<1>4. ASSUME Typed, Free PROVE Stay
  <2>1. PICK a \in live : live' = live \ {a} /\ funcs' = [funcs EXCEPT ![a] = << >>]
    BY <1>4 DEF Free
  <2>2. DOMAIN funcs = Handle /\ live \subseteq Handle
    BY <1>4 DEF Typed
  <2>3. \A m \in live \cap live' : funcs'[m] = funcs[m]
    BY <2>1, <2>2
  <2> QED BY <2>3
<1>5. ASSUME LinkPtr \/ Finished \/ UNCHANGED state PROVE Stay
  BY <1>5 DEF LinkPtr, Finished, state
<1>6. Typed /\ [Next]_state => [Stay]_state
  BY <1>1, <1>2, <1>3, <1>4, <1>5 DEF Next
<1> QED BY <1>6, TypedAlways, PTL DEF Spec, LinksStable
=============================================================================
