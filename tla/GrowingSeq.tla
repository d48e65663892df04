----------------------------- MODULE GrowingSeq -----------------------------
(***************************************************************************)
(* What the users of inc/wist/vector.h rely on: a sequence that grows at   *)
(* its end only, keeps what was put into it, and is released once.         *)
(***************************************************************************)
EXTENDS Sequences

CONSTANT Arrays   \* what may be pushed at once

VARIABLES life,   \* "none", "live" or "gone"
          items

Init == life = "none" /\ items = <<>>

Create == life = "none" /\ life' = "live" /\ items' = <<>>

Extend(a) == life = "live" /\ items' = items \o a /\ UNCHANGED life

Release == life = "live" /\ life' = "gone" /\ items' = <<>>

Next == Create \/ Release \/ \E a \in Arrays : Extend(a)

Spec == Init /\ [][Next]_<<life, items>>
=============================================================================
