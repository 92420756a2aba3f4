---------------------------- MODULE MCTaghaLink ----------------------------
(***************************************************************************)
(* Files for model checking TaghaLink: app calls f and g, which lib may    *)
(* define or get from elsewhere; one file defines f and may be loaded      *)
(* twice, one calls it by way of an extern of its own, and one has a native *)
(* called f.                                                               *)
(***************************************************************************)
EXTENDS TaghaLink, TLC

CONSTANTS m1, m2, m3, f, g, p, x, c1, c2

MCHandle == {m1, m2, m3}
MCName   == {f, g, p, x}
\* With two buckets, f, p and x share one.
MCHash   == (f :> 2) @@ (g :> 3) @@ (p :> 4) @@ (x :> 6)

E(name, flags, len) == [name |-> name, flags |-> flags, len |-> len]
File(fs, vs) == [funcs |-> fs, vars |-> vs]
MCImages == {
  File(<<E(p, NATIVE, 0), E(f, EXTERN, 0), E(g, EXTERN, 0)>>, << >>),
  File(<<E(g, 0, 1), E(f, EXTERN, 0)>>, << >>),
  File(<<E(f, 0, 2), E(g, EXTERN, 0)>>, << >>),
  File(<<E(f, NATIVE, 0)>>, <<x>>) }

N(name, c) == [name |-> name, cfunc |-> c]
MCNatives == { <<N(p, c1), N(p, c2), N(f, c2)>> }

ASSUME NamesHashApart

Handles == Permutations(MCHandle)
=============================================================================
