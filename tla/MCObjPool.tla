----------------------------- MODULE MCObjPool -----------------------------
(***************************************************************************)
(* A pool of three small chunks for TLC.                                   *)
(***************************************************************************)
EXTENDS ObjPool, TLC

CONSTANTS c1, c2, c3

ThreeChunks == {c1, c2, c3}

Symmetry == Permutations({c2, c3})

\* Clients write the address of an object of the first chunk.
OneWord == {<<c1, 0>>}
=============================================================================
