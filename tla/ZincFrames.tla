----------------------------- MODULE ZincFrames -----------------------------
(***************************************************************************)
(* History of the return frames.  The return stack mixes two kinds of      *)
(* slots, return frames and bare arguments (a union in struct             *)
(* return_frame), and nothing in a slot says which it is: the interpreter  *)
(* finds a frame by counting extra_args slots down.  The history variable  *)
(* frames remembers where APPLY saved a frame and what it saved.           *)
(***************************************************************************)
EXTENDS ZincVM

VARIABLES
  frames,     \* [at, saved], the oldest first
  leftover    \* RETURN has passed a leftover argument on

frameVars == <<vars, frames, leftover>>

Frame == [at : Int, saved : Slot]
Older == SubSeq(frames, 1, Len(frames) - 1)
Base(k) == IF k = 0 THEN 0 ELSE frames[k].at + 1
CurBase == Base(Len(frames))

FInit == Init /\ frames = <<>> /\ leftover = FALSE

Saves ==
  /\ Apply
  /\ frames' = Append(frames, [at |-> rsp, saved |->
                                 [env |-> env, pc |-> Next1, extra |-> extra]])
  /\ UNCHANGED leftover

Restores ==
  /\ GrabPartial \/ ReturnToFrame
  /\ frames' = Older
  /\ UNCHANGED leftover

Starts == /\ \E h \in DOMAIN handles : Eval(h)
          /\ frames' = <<>> /\ leftover' = FALSE

PassesOn == ReturnToArg /\ leftover' = TRUE /\ UNCHANGED frames

Others ==
  /\ \/ Int64 \/ Closure \/ Push \/ PushMark \/ Let \/ EndLet \/ SetGlobal
     \/ GetGlobal \/ GrabArg \/ AppTerm \/ Access \/ MkB \/ ReturnToClient
     \/ Fault
     \/ \E s \in Syms : Register(s)
     \/ Generate
  /\ UNCHANGED <<frames, leftover>>

FNext == Saves \/ Restores \/ Starts \/ PassesOn \/ Others

FSpec == FInit /\ [][FNext]_frameVars

\* The return stack is the saved frames, each above the arguments its code had
\* when it called, and on top of the last one the arguments of the running code.
Layout ==
  /\ rsp = CurBase + extra
  /\ \A k \in DOMAIN frames :
       /\ 0 <= frames[k].at /\ frames[k].at < CurBase
       /\ frames[k].at = Base(k - 1) + frames[k].saved.extra
  /\ \A j, k \in DOMAIN frames : j < k => frames[j].at < frames[k].at

\* No bare argument has overwritten the frame in a slot.
Intact == \A k \in DOMAIN frames : rslots[frames[k].at] = frames[k].saved

\* Whatever bytes are executed, RETURN and GRAB find the frame APPLY saved, as
\* it was saved, until a RETURN has passed a leftover argument on.
FramesFound == leftover \/ (Layout /\ Intact)

-----------------------------------------------------------------------------
\* The machine without slots: what the slots of the return stack mean.
Contents(o) == IF IsObj(o) THEN Fields(o) ELSE <<>>
ScopeAt(top, n, o) == [i \in 1..n |-> rslots[top - i].env] \o Contents(o)
Scope == IF leftover THEN <<>> ELSE ScopeAt(rsp, extra, env)
CallerOf(f) == [scope |-> ScopeAt(f.at, f.saved.extra, f.saved.env),
                bound |-> f.saved.extra, pc |-> f.saved.pc]
Callers == IF leftover THEN <<>> ELSE [k \in DOMAIN frames |-> CallerOf(frames[k])]

Machine == INSTANCE ZincMachine
             WITH scope <- Scope, bound <- extra, callers <- Callers, lost <- leftover

\* Whatever bytes are executed, the interpreter is a machine with whole scopes and a
\* stack of callers: though a callee's arguments, its spilled variables and the frames
\* lie between the caller's, a caller goes on with every variable it had, and a closure
\* has those of the place where it was made. Until a leftover argument is passed on.
MachineSpec == Machine!Spec
=============================================================================
