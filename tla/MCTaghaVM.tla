----------------------------- MODULE MCTaghaVM -----------------------------
(***************************************************************************)
(* Programs for model checking TaghaVM: functions main and f of the module *)
(* app, which runs, and g and h of the module lib, each with one of several *)
(* bodies that keep the calling convention of ISA.md (a function that      *)
(* calls bytecode saves and restores the link register, and gives back the *)
(* cells it takes).                                                        *)
(***************************************************************************)
EXTENDS TaghaVM, SequencesExt

CONSTANTS app, lib, main, f, g, h, plain, thrower, invoker

MCMod    == {app, lib}
MCFunc   == {main, f, g, h}
MCNative == {plain, thrower, invoker}

Bytecode(fn, m)   == [item |-> fn,  owner |-> m,   native |-> FALSE, extern |-> FALSE]
Linked(fn, m)     == [item |-> fn,  owner |-> m,   native |-> FALSE, extern |-> TRUE]
Cfunction(n, m)   == [item |-> n,   owner |-> m,   native |-> TRUE,  extern |-> FALSE]
UnlinkedNative(m) == [item |-> NIL, owner |-> m,   native |-> TRUE,  extern |-> FALSE]
UnlinkedExtern    == [item |-> NIL, owner |-> NIL, native |-> FALSE, extern |-> TRUE]

\* The two modules link to each other.
MCTable == (app :> <<Bytecode(main, app), Bytecode(f, app), Linked(g, lib),
                     Cfunction(plain, app), Cfunction(thrower, app), Cfunction(invoker, app),
                     UnlinkedNative(app), UnlinkedExtern>>)
        @@ (lib :> <<Bytecode(g, lib), Bytecode(h, lib), Linked(f, app),
                     Cfunction(plain, lib), Cfunction(thrower, lib)>>)

I3(op, a, b, c) == <<[op |-> op, a |-> a, b |-> b, c |-> c]>>
I(op, a, b) == I3(op, a, b, 0)
CallI(i)    == I("call", i, 0)
Apply(i)    == I("ldfn", 0, i) \o I("callr", 0, 0)

\* A function that calls no bytecode needs no frame, or gives it back before it returns.
Leafs == { I("movi", 0, 1) \o I("ret", 0, 0),
           I("alloc", 1, 0) \o I("mov", 1, 0) \o I("remit", 1, 0),
           I("alloc", 2, 0) \o I("nop", 0, 0) \o I("alu", 0, 1) \o I("alu1", 0, 0) \o I("redux", 2, 0) \o I("ret", 0, 0) }

Enclosed(c) == I("enter", 1, 0) \o c \o I("leave", 1, 0)
Spacious(c) == I("enter", 2, 0) \o c \o I("leave", 2, 0)

\* The three ways to save and restore the link register around c.
Framed(c) == { Enclosed(c),
               I("pushlr", 0, 0) \o I("alloc", 1, 0) \o c \o I("redux", 1, 0)
                 \o I("poplr", 0, 0) \o I("ret", 0, 0),
               I("pushlr", 0, 0) \o I("alloc", 2, 0) \o c \o I("redux", 2, 0)
                 \o I("restore", 0, 0) }

\* c or not, as a comparison decides.
Maybe(c)  == I("cmp", 0, 0) \o I("jz", 0, Len(c)) \o c
Either(c) == I("cmp", 0, 0) \o I("jnz", 0, 1) \o I("jmp", 0, Len(c)) \o c

Assemble(M, F, G, H) ==
  { (main :> m) @@ (f :> b) @@ (g :> c) @@ (h :> d) : m \in M, b \in F, c \in G, d \in H }
Leaf == { CHOOSE b \in Leafs : TRUE }

\* Calls inside app: recursion, natives, callbacks by a native, errors.
LocalPrograms ==
  Assemble(
    Framed(CallI(2))
      \cup { Enclosed(c) : c \in { CallI(4) \o CallI(2), CallI(5) \o CallI(2), CallI(7),
                                   I("lra", 0, 0) \o I("st8", 0, 0) \o I("ld8", 0, 0),
                                   I("lra", 0, 0) \o I3("st8", 0, 0, 9),
                                   I("lra", 0, 0) \o I("st", 0, 0) \o I("lra", 0, 0) \o I("ld", 0, 0),
                                   I("lra", 0, 0) \o I3("lea", 0, 0, 9) \o I("st", 0, 0),
                                   I("ld8", 0, 0),
                                   I("ldvar", 0, 0) \o I("movi", 1, 1) \o I("st8", 0, 1) \o I("ld8", 0, 0) } }
      \cup { Spacious(c) : c \in { Apply(2) \o CallI(2), Apply(5), CallI(8), Apply(7), Apply(8),
                                   I("movi", 0, 0) \o I("callr", 0, 0) } }
      \cup { I("pushlr", 0, 0) \o I("ldfn", 1, 2) \o CallI(6) \o CallI(6) \o I("restore", 0, 0),
             CallI(4) \o I("halt", 0, 0) },
    Leafs \cup Framed(Maybe(CallI(2)))
      \cup { Enclosed(CallI(2)), Spacious(Either(Apply(2))),
             CallI(4) \o I("ret", 0, 0), CallI(5) \o I("ret", 0, 0) },
    Leaf, Leaf)

\* A variable of lib is not in the segment of app, which runs.
OwnVariable == I("ldvar", 0, 0) \o I("ld8", 0, 0) \o I("ret", 0, 0)

\* Calls between the modules, whose callees raise no error while they hold a frame.
ExternPrograms ==
  Assemble(
    { Spacious(CallI(3)), Spacious(Apply(3) \o CallI(2)),
      I("alloc", 1, 0) \o CallI(3) \o I("remit", 1, 0) },
    Leafs,
    Leafs \cup Framed(CallI(2)) \cup { Spacious(CallI(3)), Spacious(Apply(2) \o CallI(3)), OwnVariable },
    Leafs)

\* A function of lib calls a native that throws.
ExternErrorPrograms ==
  Assemble({ Spacious(CallI(3)) }, Leaf, { Enclosed(CallI(5)) } , Leaf)

\* app passes one of its functions to lib as a function pointer, which lib calls.
CallbackPrograms ==
  Assemble({ I("pushlr", 0, 0) \o I("ldfn", 1, 2) \o CallI(3) \o I("poplr", 0, 0) \o I("ret", 0, 0) },
           { Enclosed(CallI(4)) },
           { I("pushlr", 0, 0) \o I("callr", 1, 0) \o I("poplr", 0, 0) \o I("ret", 0, 0) },
           Leaf)

\* A function with registers of its own passes a function pointer to a native, which
\* calls it back.
ReentryPrograms ==
  Assemble({ I("enter", 2, 0) \o I("ldfn", 1, 2) \o CallI(6) \o I("leave", 2, 0) },
           Leafs, Leaf, Leaf)

MCPrograms == LocalPrograms \cup ExternPrograms
MCExports  == { <<1, 1>>, <<2, 0>>, <<4, 1>>, <<7, 0>> }
=============================================================================
