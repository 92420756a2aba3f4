----------------------------- MODULE MCSymTable -----------------------------
(* Tables of up to four names out of five; with two buckets the names k1, k2, *)
(* k3 share a bucket and k4, k5 the other, and k1 and k3 have the same hash.  *)
EXTENDS SymTable, TLC

CONSTANTS k1, k2, k3, k4, k5

MCKey    == {k1, k2, k3, k4, k5}
MCHash   == (k1 :> 2) @@ (k2 :> 4) @@ (k3 :> 2) @@ (k4 :> 1) @@ (k5 :> 3)
MCTables == UNION {[1 .. l -> MCKey] : l \in 0 .. 4}
=============================================================================
