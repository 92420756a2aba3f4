----------------------------- MODULE TaghaLink -----------------------------
(***************************************************************************)
(* Loading, linking and freeing modules: tagha_module_new_from_file (and    *)
(* _buffer), tagha_module_link_natives, tagha_module_link_ptr,              *)
(* tagha_module_link_module, tagha_module_free.  The host (or a script, by  *)
(* a native) does these in any order.                                      *)
(*                                                                         *)
(* The code of entry i of module m is at the address Code(m, i).  What the  *)
(* module TaghaVM calls Table is the state of funcs when it starts.         *)
(***************************************************************************)
EXTENDS Integers, Sequences, FiniteSets

CONSTANTS
  Handle,      \* module handles
  Name,        \* symbol names
  Hash,        \* Hash[s]: string_hash of the name s
  Buckets,     \* TAGHA_SYM_BUCKETS
  CFunc,       \* C functions
  NIL,         \* null pointer
  Images,      \* module files: [funcs, vars], each a sequence of entries
  NativeLists  \* arrays passed to tagha_module_link_natives

\* The flag bits of an item.
NATIVE == 1
EXTERN == 2
LINKED == 4

\* vm->err when a call fails is the flags of the function that was not linked.
TaghaErrBadNative == 1
TaghaErrBadExtern == 2

Entry == [name : Name, flags : {0, NATIVE, EXTERN}, len : Nat]
Image == [funcs : Seq(Entry), vars : Seq(Name)]

\* Addresses of bytecode.
Code(m, i) == <<m, i>>
Address    == Handle \X (Nat \ {0})

ASSUME LinkAssumption ==
  /\ Hash \in [Name -> Nat]
  /\ Buckets \in Nat \ {0}
  /\ Images \subseteq Image
  /\ NativeLists \subseteq Seq([name : Name, cfunc : CFunc])
  /\ NIL \notin Handle \cup CFunc \cup Address

VARIABLES
  live,    \* modules that are loaded
  image,   \* image[m]: the file that m was loaded from, kept when m is freed
  funcs,   \* funcs[m]: the items of m's function table
  bytes,   \* bytes[m]: the code sizes in the table
  vars,    \* vars[m]: the pointers stored in m's global variables
  linked   \* history: the pairs <<m, lib>>, m # lib, given to tagha_module_link_module

state == <<live, image, funcs, bytes, vars, linked>>

Item == [item : Address,       owner : Handle,          flags : {0, EXTERN + LINKED}]
   \cup [item : CFunc,         owner : Handle,          flags : {NATIVE + LINKED}]
   \cup [item : {NIL},         owner : Handle \cup {NIL}, flags : {NATIVE, EXTERN}]

NoImage == [funcs |-> << >>, vars |-> << >>]
Flags(m, i) == funcs[m][i].flags

Init ==
  /\ live = {}
  /\ image = [m \in Handle |-> NoImage]
  /\ funcs = [m \in Handle |-> << >>]
  /\ bytes = [m \in Handle |-> << >>]
  /\ vars = [m \in Handle |-> << >>]
  /\ linked = {}
----------------------------------------------------------------------------
(* Looking a name up: the first entry of its bucket that matches (SymTable *)
(* shows that the table finds that one).                                   *)

Matches(e, k) ==
  Hash[e] % Buckets = Hash[k] % Buckets /\ (Hash[e] = Hash[k] \/ e = k)

\* The indices of names, a sequence, that a search for k finds: one or none.
Found(names, k) ==
  {i \in DOMAIN names : Matches(names[i], k) /\ \A j \in 1 .. i - 1 : ~Matches(names[j], k)}

FuncNames(m) == [i \in DOMAIN image[m].funcs |-> image[m].funcs[i].name]
FuncFound(m, k) == Found(FuncNames(m), k)
VarFound(m, k)  == Found(image[m].vars, k)
----------------------------------------------------------------------------
\* _setup_func_table: bytecode starts after its entry, other entries have none; only
\* externs have no owner yet.
Loaded(m, im) ==
  [i \in DOMAIN im.funcs |->
     [item  |-> IF im.funcs[i].flags = 0 THEN Code(m, i) ELSE NIL,
      owner |-> IF im.funcs[i].flags = EXTERN THEN NIL ELSE m,
      flags |-> im.funcs[i].flags]]

\* A handle is used once: malloc may hand the address out again, which is left out.
New ==
  \E m \in Handle, im \in Images :
    /\ m \notin live /\ image[m] = NoImage
    /\ live' = live \cup {m}
    /\ image' = [image EXCEPT ![m] = im]
    /\ funcs' = [funcs EXCEPT ![m] = Loaded(m, im)]
    /\ bytes' = [bytes EXCEPT ![m] = [i \in DOMAIN im.funcs |-> im.funcs[i].len]]
    /\ vars' = [vars EXCEPT ![m] = [i \in DOMAIN im.vars |-> NIL]]
    /\ UNCHANGED linked

\* The entries of the array of natives whose search finds item i, and the first of them.
Naming(m, i, natives) == {k \in DOMAIN natives : i \in FuncFound(m, natives[k].name)}
First(S) == CHOOSE k \in S : \A l \in S : k <= l

\* Faulty: bytecode functions and externs are linked to natives as well.
LinkedNativesAny(m, natives) ==
  [i \in DOMAIN funcs[m] |->
     IF Naming(m, i, natives) # {}
     THEN [item  |-> natives[First(Naming(m, i, natives))].cfunc,
           owner |-> funcs[m][i].owner, flags |-> NATIVE + LINKED]
     ELSE funcs[m][i]]

\* tagha_module_link_natives: of the entries of the array that name a function, the
\* first one links it, since a linked function has other flags.
LinkedNatives(m, natives) ==
  [i \in DOMAIN funcs[m] |->
     IF Naming(m, i, natives) # {} /\ Flags(m, i) = NATIVE
     THEN [item  |-> natives[First(Naming(m, i, natives))].cfunc,
           owner |-> funcs[m][i].owner, flags |-> NATIVE + LINKED]
     ELSE funcs[m][i]]

LinkNatives ==
  \E m \in live, natives \in NativeLists :
    /\ funcs' = [funcs EXCEPT ![m] = LinkedNatives(m, natives)]
    /\ UNCHANGED <<live, image, bytes, vars, linked>>

\* tagha_module_link_ptr, here with pointers to modules; a name that no variable has changes nothing.
LinkPtr ==
  \E m, ptr \in live, s \in Name :
    /\ vars' = [vars EXCEPT ![m] =
                  [i \in DOMAIN vars[m] |-> IF i \in VarFound(m, s) THEN ptr ELSE vars[m][i]]]
    /\ UNCHANGED <<live, image, funcs, bytes, linked>>

\* Faulty: natives are linked too; externs that are not resolved are linked too.
SourcesNative(m, i, lib) ==
  {j \in FuncFound(lib, image[m].funcs[i].name) : funcs[lib][j].item # NIL}
SourcesUnresolved(m, i, lib) ==
  {j \in FuncFound(lib, image[m].funcs[i].name) : Flags(lib, j) \notin {NATIVE, NATIVE + LINKED}}

\* The item of lib, if any, that tagha_module_link_module copies for the extern i of m:
\* bytecode of lib, or an extern of lib that is linked itself.
Sources(m, i, lib) ==
  {j \in FuncFound(lib, image[m].funcs[i].name) :
     Flags(lib, j) \notin {NATIVE, NATIVE + LINKED} /\ funcs[lib][j].item # NIL}

\* Faulty: externs that are linked already are linked again.
LinksAgain(m, lib) ==
  {i \in DOMAIN funcs[m] : Flags(m, i) \in {EXTERN, EXTERN + LINKED} /\ Sources(m, i, lib) # {}}

\* Which entries of m a call of tagha_module_link_module(m, lib) links.
Links(m, lib) == {i \in DOMAIN funcs[m] : Flags(m, i) = EXTERN /\ Sources(m, i, lib) # {}}

\* Faulty: the owner of a linked function is the module it was found in.
LinkedOwner(m, lib) ==
  LET j(i) == CHOOSE k \in Sources(m, i, lib) : TRUE IN
    /\ funcs' = [funcs EXCEPT ![m] =
         [i \in DOMAIN funcs[m] |->
            IF i \in Links(m, lib)
            THEN [item |-> funcs[lib][j(i)].item, owner |-> lib, flags |-> EXTERN + LINKED]
            ELSE funcs[m][i]]]
    /\ UNCHANGED bytes

Linked(m, lib) ==
  LET j(i) == CHOOSE k \in Sources(m, i, lib) : TRUE IN
    /\ funcs' = [funcs EXCEPT ![m] =
         [i \in DOMAIN funcs[m] |->
            IF i \in Links(m, lib)
            THEN [item  |-> funcs[lib][j(i)].item, owner |-> funcs[lib][j(i)].owner,
                  flags |-> EXTERN + LINKED]
            ELSE funcs[m][i]]]
    /\ bytes' = [bytes EXCEPT ![m] =
         [i \in DOMAIN funcs[m] |->
            IF i \in Links(m, lib) THEN bytes[lib][j(i)] ELSE bytes[m][i]]]

\* Faulty: the roles of module and lib are swapped.
LinkModuleSwapped ==
  \E m, lib \in live :
    /\ Linked(lib, m)
    /\ linked' = linked \cup ({m} \X ({lib} \ {m}))
    /\ UNCHANGED <<live, image, vars>>

LinkModule ==
  \E m, lib \in live :
    /\ Linked(m, lib)
    /\ linked' = linked \cup ({m} \X ({lib} \ {m}))
    /\ UNCHANGED <<live, image, vars>>

\* tagha_module_free, whoever is linked to m: its memory is gone.
Free ==
  \E m \in live :
    /\ live' = live \ {m}
    /\ funcs' = [funcs EXCEPT ![m] = << >>]
    /\ bytes' = [bytes EXCEPT ![m] = << >>]
    /\ vars' = [vars EXCEPT ![m] = << >>]
    /\ UNCHANGED <<image, linked>>

\* A state of the model: every handle has been used.
Finished == live = {} /\ (\A m \in Handle : image[m] # NoImage) /\ UNCHANGED state

Next == New \/ LinkNatives \/ LinkPtr \/ LinkModule \/ Free \/ Finished

Spec == Init /\ [][Next]_state
----------------------------------------------------------------------------
(* Properties.                                                             *)

TypeOK ==
  /\ live \subseteq Handle
  /\ image \in [Handle -> Images \cup {NoImage}]
  /\ \A m \in Handle :
       /\ funcs[m] \in Seq(Item) /\ bytes[m] \in Seq(Nat) /\ vars[m] \in Seq(Handle \cup {NIL})
       /\ m \in live => /\ DOMAIN funcs[m] = DOMAIN image[m].funcs
                        /\ DOMAIN bytes[m] = DOMAIN image[m].funcs
                        /\ DOMAIN vars[m] = DOMAIN image[m].vars
  /\ linked \subseteq Handle \X Handle

\* Hashes tell the names apart.
NamesHashApart == \A s, t \in Name : Hash[s] = Hash[t] => s = t

\* it is entry i of the file of module o, a bytecode function of that name and size.
Defines(o, i, it, name, size) ==
  /\ i \in DOMAIN image[o].funcs
  /\ it.owner = o /\ it.item = Code(o, i)
  /\ image[o].funcs[i] = [name |-> name, flags |-> 0, len |-> size]

\* A linked extern runs the bytecode that some module defines under that name, with the
\* tables of that module and its size, however long the chain of externs it came by, and
\* whichever modules were freed since.
LinkedToDefinition ==
  \A m \in live : \A i \in DOMAIN funcs[m] :
    Flags(m, i) = EXTERN + LINKED =>
      \E o \in Handle : \E j \in DOMAIN image[o].funcs :
        Defines(o, j, funcs[m][i], image[m].funcs[i].name, bytes[m][i])

\* exec_call and exec_callr find a function that they can call, or put its flags into
\* vm->err: then the flags are the error code that says what is missing.
UnlinkedReported ==
  \A m \in live : \A i \in DOMAIN funcs[m] :
    LET it == funcs[m][i] IN
      \/ it.item # NIL /\ it.owner # NIL
      \/ it.item = NIL /\ image[m].funcs[i].flags = NATIVE /\ it.flags = TaghaErrBadNative
      \/ it.item = NIL /\ it.owner = NIL /\ image[m].funcs[i].flags = EXTERN
         /\ it.flags = TaghaErrBadExtern

\* A module depends on no module but those that it was linked with, that these were
\* linked with, and so on: freeing any other leaves its functions alone.
Closed(S) == \A p \in linked : p[1] \in S => p[2] \in S
DependsOnLinkedOnly ==
  \A m \in live : \A i \in DOMAIN funcs[m] :
    funcs[m][i].owner # NIL =>
      \A S \in SUBSET Handle : m \in S /\ Closed(S) => funcs[m][i].owner \in S

\* While a module is loaded, none of its functions that could be called changes: what
\* a script keeps in a register or the host in a TaghaFunc stays the same function.
LinksStable ==
  [][\A m \in live \cap live' : \A i \in DOMAIN funcs[m] :
       funcs[m][i].item # NIL => funcs'[m][i] = funcs[m][i]]_state
=============================================================================
