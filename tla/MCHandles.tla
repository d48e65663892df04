------------------------------ MODULE MCHandles ------------------------------
(***************************************************************************)
(* Few frames of few handles, and a handle and a frame too many.  Integers *)
(* that look like a counter or a frame, and an address that looks like     *)
(* neither.                                                                *)
(***************************************************************************)
EXTENDS Handles

SomeObjs == {[t |-> 0, v |-> 500], [t |-> 1, v |-> 0], [t |-> 1, v |-> 1], [t |-> 2, v |-> 500]}
=============================================================================
