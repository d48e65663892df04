------------------------------- MODULE Handles -------------------------------
(***************************************************************************)
(* The handle frames at the end of struct wist_vm, word by word (8 bytes): *)
(* a frame is its handles, two words each, and behind them its counter;    *)
(* behind the last frame lies cur_frame.  Nothing checks either limit, so  *)
(* a handle too many is written over what lies there.                      *)
(***************************************************************************)
EXTENDS Integers, Sequences, SequencesExt, Functions

CONSTANTS
  PerFrame, NFrames,  \* WIST_HANDLES_PER_FRAME, WIST_MAX_HANDLE_FRAMES
  Objs,               \* values: a tag and a word, an integer or an address
  Padding,            \* a word's upper half, that a tag leaves to chance
  Junk,               \* what fresh memory holds
  MaxBeyond           \* bound: calls from the one on that passes a limit

ASSUME HandlesAssumption ==
  /\ PerFrame \in Nat \ {0} /\ NFrames \in Nat \ {0} /\ MaxBeyond \in Nat
  /\ Objs \subseteq [t : 0..2, v : Nat] /\ Padding \in Nat \ (0..2) /\ Junk \in Nat

VARIABLES
  words,     \* frames and cur_frame
  faulted,   \* memory behind the vm was touched
  given,     \* history: the frames and handles its client believes in
  beyond     \* history: how many calls the client has made beyond a limit

vars == <<words, faulted, given, beyond>>

Width == 2 * PerFrame + 1
CurFrameAt == NFrames * Width
HandleAt(f, k) == f * Width + 2 * k
CounterAt(f) == f * Width + 2 * PerFrame
Frame == words[CurFrameAt]

\* A handle's value (lib/handle.c): the tag is read from half a word.
Read(at) == [t |-> words[at] % Padding, v |-> words[at + 1]]

\* A struct's padding is copied or not, as the compiler likes; it is told apart only
\* where the program takes the word for a counter.
Paddings(at) == IF \E f \in 0..NFrames - 1 : at = CounterAt(f) THEN {0, Padding} ELSE {0}

exceeded == beyond > 0
\* The client's limits, which nothing in the code looks at.
Count(atLimit) ==
  /\ beyond < MaxBeyond
  /\ beyond' = IF exceeded \/ atLimit THEN beyond + 1 ELSE 0

Fault == faulted' = TRUE /\ UNCHANGED words

\* The handle is counted, and then has its value. (Mutant: the other way round.)
WrittenCountedLast(at, obj, pad) ==
  [words EXCEPT ![at] = obj.t + pad, ![at + 1] = obj.v, ![CounterAt(Frame)] = @ + 1]
Written(at, obj, pad) ==
  [words EXCEPT ![CounterAt(Frame)] = @ + 1, ![at] = obj.t + pad, ![at + 1] = obj.v]

\* wist_vm_add_handle, and the value its callers write to it at once (vm_gen.c) or
\* when the closure has been interpreted (wist_vm_eval); nothing else touches the
\* frames in between.
Give(obj) ==
  /\ Count(Len(Last(given)) = PerFrame)
  /\ IF CounterAt(Frame) > CurFrameAt
     THEN Fault /\ UNCHANGED given
     ELSE LET at == HandleAt(Frame, words[CounterAt(Frame)]) IN
          IF at + 1 > CurFrameAt
          THEN Fault /\ UNCHANGED given
          ELSE /\ \E pad \in Paddings(at) :
                    words' = Written(at, obj, pad)
               /\ given' = Front(given) \o <<Append(Last(given), [at |-> at, obj |-> obj])>>
               /\ UNCHANGED faulted

\* Mutant: the new frame begins where it was left.
PushedAsLeft(f) == [words EXCEPT ![CurFrameAt] = f]
Pushed(f) == [words EXCEPT ![CurFrameAt] = f, ![CounterAt(f)] = 0]

\* wist_handle_stack_push
Push ==
  /\ Count(Len(given) = NFrames)
  /\ LET f == Frame + 1 IN
     IF CounterAt(f) > CurFrameAt
     THEN Fault /\ UNCHANGED given
     ELSE /\ words' = Pushed(f)
          /\ given' = Append(given, <<>>)
          /\ UNCHANGED faulted

\* Mutant: the frame that becomes current again starts anew.
PoppedEmpty ==
  LET f == IF Frame = 0 THEN 0 ELSE Frame - 1 IN
  IF CounterAt(f) > CurFrameAt THEN words
  ELSE [words EXCEPT ![CurFrameAt] = f, ![CounterAt(f)] = 0]
Popped ==
  IF Frame = 0 THEN [words EXCEPT ![CounterAt(0)] = 0]
  ELSE [words EXCEPT ![CurFrameAt] = @ - 1]

\* wist_handle_stack_pop
Pop ==
  /\ words' = Popped
  /\ given' = IF Len(given) = 1 THEN <<<<>>>> ELSE Front(given)
  /\ Count(FALSE) /\ UNCHANGED faulted

\* wist_vm_create
Init ==
  /\ words = [i \in 0..CurFrameAt |-> IF i \in {CounterAt(0), CurFrameAt} THEN 0 ELSE Junk]
  /\ given = <<<<>>>> /\ faulted = FALSE /\ beyond = 0

Next == ~faulted /\ ((\E obj \in Objs : Give(obj)) \/ Push \/ Pop)

Spec == Init /\ [][Next]_vars

-----------------------------------------------------------------------------
Holds(h) == h.at \in 0..CurFrameAt - 1 /\ Read(h.at) = h.obj

\* However frames are pushed and popped, every handle of a frame that has not been
\* popped reads back the value it was made for: no handle's cell is given away twice.
\* So it is even after the first call that passes a limit, unless that one ran out of
\* the memory: the handle too many works, what it spoils is found by later calls.
HandlesHold ==
  /\ ~exceeded => ~faulted
  /\ ~faulted /\ beyond <= 1 => \A i \in DOMAIN given : \A h \in Range(given[i]) : Holds(h)

\* The frames are a stack of frames of handles, up to the limits: what the memory holds
\* below the counters is what the client was given and has not popped.
InMemory ==
  IF exceeded THEN <<>>
  ELSE [i \in 1..Frame + 1 |->
          [k \in 1..words[CounterAt(i - 1)] |->
             LET at == HandleAt(i - 1, k - 1) IN IF at < CurFrameAt THEN Read(at) ELSE Junk]]

Abstract == INSTANCE HandleStack WITH Values <- Objs, stack <- InMemory, lost <- exceeded
IsHandleStack == Abstract!Spec
=============================================================================
