----------------------------- MODULE Allocator -----------------------------
(***************************************************************************)
(* What a pool of objects promises: an object handed out is nobody else's  *)
(* until it is given back, alone or with all others of some chunks.        *)
(***************************************************************************)
EXTENDS Naturals

CONSTANT Addr   \* where objects can be

VARIABLE owners   \* how many clients have been handed each object and have it

Init == owners = [s \in Addr |-> 0]

Alloc == \E s \in Addr : owners[s] = 0 /\ owners' = [owners EXCEPT ![s] = 1]
Free == \E s \in Addr : owners[s] = 1 /\ owners' = [owners EXCEPT ![s] = 0]
Release == /\ owners' \in [Addr -> Nat]
           /\ \A s \in Addr : owners'[s] \in {0, owners[s]}

Next == Alloc \/ Free \/ Release

Spec == Init /\ [][Next]_owners
=============================================================================
