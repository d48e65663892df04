------------------------------ MODULE MCVector ------------------------------
(***************************************************************************)
(* Arrays shorter and longer than the blocks, the empty one included.      *)
(***************************************************************************)
EXTENDS Vector

SomeBytes == {1, 2}
SomeArrays == UNION {[1..n -> SomeBytes] : n \in 0..2} \cup {<<1, 2, 1, 1, 2>>}
SomeSizes == {1, 2, 3}
=============================================================================
