---------------------------- MODULE ZincMachine ----------------------------
(***************************************************************************)
(* The machine lib/vm.c stands for.  Running code has a scope, the values  *)
(* of its variables, the innermost first; a call puts the caller's scope   *)
(* on a stack of callers, and a return takes it from there.  Nothing has   *)
(* to be counted: there are no slots that frames and arguments share, and  *)
(* a scope is the same wherever its variables are kept.                    *)
(***************************************************************************)
EXTENDS Bytecode, SequencesExt

VARIABLES
  code, heap, globals, handles,   \* as in ZincVM
  status, pc, accum, astack,
  scope,     \* the variables of the running code
  bound,     \* how many of them were bound since the others were captured
  callers,   \* what suspended code goes on with, [scope, bound, pc]
  lost       \* a leftover argument was passed on: nothing is promised any more

store == <<code, heap, globals, handles>>
vars == <<store, status, pc, accum, astack, scope, bound, callers, lost>>

Op == code[pc + 1].op
Operand == code[pc + 1].arg
After == pc + 1 + OperandBytes(Op)
At(op) == status = "running" /\ pc + 1 \in DOMAIN code /\ Op = op

AtMark == astack # <<>> /\ astack[Len(astack)].t = "mark"
Argument == astack[Len(astack)]
Taken == SubSeq(astack, 1, Len(astack) - 1)

\* The fields of an object; a closure's are the object it captured and its code.
Contents(o) == IF o.t \in Kinds /\ o.v \in DOMAIN heap THEN heap[o.v] ELSE <<>>

-----------------------------------------------------------------------------
\* Instructions that concern neither scopes nor callers.
Here == UNCHANGED <<scope, bound, callers>>
Sets(o) == /\ accum' = o /\ pc' = After
           /\ UNCHANGED <<store, status, astack>> /\ Here
Pushes(o) == /\ astack' = Append(astack, o) /\ pc' = After
             /\ UNCHANGED <<store, status, accum>> /\ Here

SetGlobal ==
  /\ At("SETGLOBAL") /\ Operand \in DOMAIN globals
  /\ globals' = [globals EXCEPT ![Operand] = accum] /\ pc' = After
  /\ UNCHANGED <<code, heap, handles, status, accum, astack>> /\ Here

MkB ==
  /\ At("MKB") /\ Operand \in 0..Len(astack) /\ pc' = After
  /\ LET rest == Len(astack) - Operand
     IN  /\ heap' = Append(heap, SubSeq(astack, rest + 1, Len(astack)))
         /\ astack' = SubSeq(astack, 1, rest)
  /\ accum' = Ref("tuple", Len(heap) + 1)
  /\ UNCHANGED <<code, globals, handles, status>> /\ Here

-----------------------------------------------------------------------------
\* A variable's index is its place in the scope. Beyond what was captured first
\* (the interpreter walks there) nothing is promised.
Access == At("ACCESS") /\ Sets(accum') /\ (Operand <= bound => accum' = scope[Operand + 1])

Binds(o) == /\ scope' = <<o>> \o scope /\ bound' = bound + 1 /\ pc' = After
            /\ UNCHANGED <<store, status, accum, callers>>

\* The innermost variable goes; when all are captured, so does the others' order.
EndLet ==
  /\ At("ENDLET") /\ scope # <<>> /\ pc' = After
  /\ IF bound > 0 THEN scope' = Tail(scope) /\ bound' = bound - 1
     ELSE scope' = Reverse(Tail(scope)) /\ bound' = Len(scope) - 1
  /\ UNCHANGED <<store, status, accum, astack, callers>>

\* A closure takes the whole scope with it. (A partial application tags it "clo".)
Captures(kind, entry) ==
  /\ heap' = heap \o <<<<Ref(kind, Len(heap) + 2), CodeIdx(entry)>>, scope>>
  /\ accum' = Ref("clo", Len(heap) + 1)
  /\ UNCHANGED <<code, globals, handles, status>>

Closure ==
  /\ At("CLOSURE") /\ Captures("env", After) /\ pc' = After + Operand
  /\ bound' = 0 /\ UNCHANGED <<scope, callers, astack>>

-----------------------------------------------------------------------------
Callable(o) == {1, 2} \subseteq DOMAIN Contents(o)

\* The code of the closure in accum runs in its own scope, with its argument.
Enters ==
  /\ astack # <<>> /\ astack' = Taken /\ Callable(accum)
  /\ pc' = Contents(accum)[2].v
  /\ scope' = <<Argument>> \o Contents(Contents(accum)[1]) /\ bound' = 1
  /\ UNCHANGED <<store, status, accum>>

Apply == /\ At("APPLY") /\ Enters
         /\ callers' = Append(callers, [scope |-> scope, bound |-> bound, pc |-> After])
AppTerm == At("APPTERM") /\ Enters /\ UNCHANGED callers

\* The caller called last goes on where it was, with every variable it had.
Resumes ==
  /\ callers # <<>> /\ AtMark /\ astack' = Taken
  /\ LET caller == callers[Len(callers)]
     IN  scope' = caller.scope /\ bound' = caller.bound /\ pc' = caller.pc
  /\ callers' = SubSeq(callers, 1, Len(callers) - 1)

Return == At("RETURN") /\ Resumes /\ UNCHANGED <<store, status, accum>>
GrabPartial == At("GRAB") /\ Captures("clo", After) /\ Resumes
GrabArg == At("GRAB") /\ ~AtMark /\ astack # <<>> /\ Binds(Argument) /\ astack' = Taken

ReturnToClient ==
  /\ At("RETURN") /\ callers = <<>> /\ bound = 0
  /\ handles' = [handles EXCEPT ![Len(handles)] = accum] /\ status' = "idle"
  /\ UNCHANGED <<code, heap, globals, pc, accum, astack>> /\ Here

\* An argument is left for the result: the interpreter loses count (lib/vm.c:230).
PassesOn == /\ At("RETURN") /\ astack # <<>> /\ ~AtMark
            /\ (callers # <<>> \/ bound > 0) /\ lost'

Stops == /\ status = "running" /\ status' = "fault"
         /\ UNCHANGED <<store, pc, accum, astack>> /\ Here

-----------------------------------------------------------------------------
\* The client's calls while nothing runs.
Register ==
  /\ status = "idle"
  /\ \A s \in DOMAIN globals : s \in DOMAIN globals' /\ globals'[s] = globals[s]
  /\ UNCHANGED <<code, heap, handles, status, pc, accum, astack>> /\ Here

Generate ==
  /\ status = "idle"
  /\ handles' = Append(handles, Ref("clo", Len(heap) + 1))
  /\ heap' = heap \o <<<<Ref("env", Len(heap) + 2), CodeIdx(Len(code))>>, <<>>>>
  /\ code' = code \o SubSeq(code', Len(code) + 1, Len(code'))
  /\ UNCHANGED <<globals, status, pc, accum, astack>> /\ Here

Eval(h) ==
  /\ status = "idle" /\ status' = "running" /\ Callable(handles[h])
  /\ handles' = Append(handles, Undef) /\ heap' = Append(heap, <<>>)
  /\ scope' = Contents(Contents(handles[h])[1]) /\ pc' = Contents(handles[h])[2].v
  /\ accum' = Undef /\ bound' = 0 /\ callers' = <<>> /\ astack' = <<>>
  /\ lost' = FALSE /\ UNCHANGED <<code, globals>>

Init ==
  /\ code = <<>> /\ heap = <<>> /\ handles = <<>> /\ DOMAIN globals = {}
  /\ status = "idle" /\ pc = 0 /\ accum = Undef /\ astack = <<>>
  /\ scope = <<>> /\ bound = 0 /\ callers = <<>> /\ lost = FALSE

Step ==
  \/ At("INT64") /\ Sets(IntObj(Operand))
  \/ At("GETGLOBAL") /\ Operand \in DOMAIN globals /\ Sets(globals[Operand])
  \/ At("PUSH") /\ Pushes(accum)
  \/ At("PUSHMARK") /\ Pushes(Mark)
  \/ At("LET") /\ Binds(accum) /\ UNCHANGED astack
  \/ SetGlobal \/ MkB \/ Access \/ EndLet \/ Closure \/ Apply \/ AppTerm \/ Return
  \/ GrabPartial \/ GrabArg \/ ReturnToClient \/ Stops \/ Register \/ Generate

Next ==
  \/ lost /\ lost'
  \/ ~lost /\ Step /\ UNCHANGED lost
  \/ ~lost /\ PassesOn
  \/ \E h \in DOMAIN handles : Eval(h)

Spec == Init /\ [][Next]_vars
=============================================================================
