----------------------------- MODULE HandleStack -----------------------------
(***************************************************************************)
(* What wist.h promises of handles: every handle belongs to the frame that *)
(* was current when it was made, keeps its value, and goes with its frame. *)
(* A client that goes beyond the limits of inc/wist/vm.h is promised       *)
(* nothing.                                                                *)
(***************************************************************************)
EXTENDS Naturals, Sequences, SequencesExt

CONSTANTS Values, PerFrame, NFrames

VARIABLES
  stack,  \* a sequence of frames, each the sequence of its handles' values
  lost    \* a limit was passed

Init == stack = <<<<>>>> /\ lost = FALSE

\* A new handle in the current frame.
Give ==
  /\ Len(Last(stack)) < PerFrame
  /\ \E v \in Values : stack' = Front(stack) \o <<Append(Last(stack), v)>>

Push == Len(stack) < NFrames /\ stack' = Append(stack, <<>>)

\* The outermost frame stays, without its handles.
Pop == stack' = IF Len(stack) = 1 THEN <<<<>>>> ELSE Front(stack)

PassLimit ==
  /\ Len(Last(stack)) = PerFrame \/ Len(stack) = NFrames
  /\ lost' = TRUE

Next ==
  \/ ~lost /\ (Give \/ Push \/ Pop) /\ UNCHANGED lost
  \/ ~lost /\ PassLimit
  \/ lost /\ UNCHANGED lost

Spec == Init /\ [][Next]_<<stack, lost>>
=============================================================================
