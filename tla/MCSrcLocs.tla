------------------------------ MODULE MCSrcLocs ------------------------------
(***************************************************************************)
(* Small sources, a 16-bit range cut down so that wide locations happen.   *)
(***************************************************************************)
EXTENDS SrcLocs

SmallLengths == {1, 3}
SmallSpans == {s \in [from : 0..3, to : 0..4] : s.from <= s.to}
SmallGarbage == {[start |-> 0, end |-> 9]}
=============================================================================
