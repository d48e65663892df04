------------------------------- MODULE ZincVM -------------------------------
(***************************************************************************)
(* The bytecode interpreter of lib/vm.c (a ZINC-style stack machine), the  *)
(* placing of generated code and the evaluation of closures around it.     *)
(*                                                                         *)
(* A struct wist_vm_obj is a tag and one payload word: an integer, the     *)
(* address of a heap object or an index of the code area.  The C code      *)
(* checks neither tags nor bounds; a step whose behaviour is undefined in  *)
(* C (a dereference of something that is no object, an access outside a    *)
(* stack, an object or the code area) leads to status "fault" for good.    *)
(* Heap objects are never freed while the VM lives (lib/vm_gc.c).          *)
(***************************************************************************)
EXTENDS Bytecode

CONSTANTS
  Chunks,      \* the code sequences a client may generate
  Syms,        \* addresses of the interned symbols that name globals
  AspMax,      \* WIST_VM_ASP_MAX_SIZE, slots of the argument stack
  RspMax,      \* WIST_VM_RSP_MAX_SIZE, slots of the return stack
  MaxHandles,  \* bound: handles the client creates in a session
  MaxCode      \* bound: bytes of code from which on no more is generated

ASSUME ChunksAssumption == Chunks \subseteq Seq(Cell)
ASSUME SymsAssumption == Syms \subseteq Int
ASSUME SizesAssumption ==
  /\ AspMax \in Nat \ {0} /\ RspMax \in Nat \ {0}
  /\ MaxHandles \in Nat /\ MaxCode \in Nat

VARIABLES
  code,     \* vm->code_area, byte 0 first
  heap,     \* the objects allocated by vm_gc_alloc, in order of allocation
  globals,  \* the vals of the toplevel entries registered so far
  handles,  \* the objects of the handles handed to the client
  status,   \* "idle" between API calls, "running" inside interpret, "fault"
  pc, accum, env, emptyEnv, extra,   \* the locals of wist_vm_interpret
  astack,   \* arg_stack below asp
  rslots,   \* return_stack: all its slots, those above rsp keep old contents (a
            \* slot never written has pc -1: to resume there is a fault)
  rsp       \* number of slots in use

store == <<code, heap, globals, handles>>
vars == <<code, heap, globals, handles, status, pc, accum, env, emptyEnv,
          extra, astack, rslots, rsp>>

-----------------------------------------------------------------------------
(* Objects.                                                                *)

Object == Seq(Value)
Slot == [env : Value, pc : Int, extra : Nat]

IsObj(o) == o.t \in Kinds /\ o.v \in DOMAIN heap
Fields(o) == heap[o.v]
HasField(o, n) == IsObj(o) /\ n \in DOMAIN Fields(o)
Field(o, n) == IF HasField(o, n) THEN Fields(o)[n] ELSE Undef

\* APPLY, APPTERM and RETURN read FIELD1 as environment and FIELD2 as address.
Callable(o) == HasField(o, 1) /\ HasField(o, 2) /\ Field(o, 2).t \notin Kinds

\* The extra arguments on the return stack, the newest first, and the whole
\* environment the running code sees: they come before the heap environment.
Extras == [i \in 1..extra |-> rslots[rsp - i].env]
FullEnv == Extras \o Fields(env)

\* Walking env as a list, FIELD2 by FIELD2, from extra_args up to idx.
Walk(idx) ==
  LET at[i \in extra..idx] == IF i = extra THEN env ELSE Field(at[i - 1], 2)
  IN  IF idx <= extra THEN env ELSE at[idx]

-----------------------------------------------------------------------------
Op == code[pc + 1].op
Arg == code[pc + 1].arg
Top == astack[Len(astack)]
Pop == SubSeq(astack, 1, Len(astack) - 1)
AtMark == astack # <<>> /\ Top.t = "mark"

\* What the executed instruction needs and the interpreter does not check.
Defined ==
  /\ pc + 1 \in DOMAIN code /\ Op \in Ops
  /\ Op \in {"PUSH", "PUSHMARK"} => Len(astack) < AspMax
  /\ Op = "LET" => rsp < RspMax
  /\ Op = "CLOSURE" => IsObj(env) /\ extra <= rsp
  /\ Op = "ENDLET" =>
       IF extra > 0 THEN rsp > 0
       ELSE HasField(env, 1) /\ rsp + Len(Fields(env)) - 1 <= RspMax
  /\ Op \in {"SETGLOBAL", "GETGLOBAL"} => Arg \in DOMAIN globals
  /\ Op = "GRAB" => /\ astack # <<>>
                    /\ IF AtMark THEN IsObj(env) /\ extra < rsp
                                 ELSE rsp < RspMax
  /\ Op = "APPLY" => astack # <<>> /\ rsp + 2 <= RspMax /\ Callable(accum)
  /\ Op = "APPTERM" => /\ astack # <<>> /\ Callable(accum)
                       /\ extra <= rsp /\ rsp - extra < RspMax
  /\ Op = "ACCESS" => IF Arg < extra THEN 0 <= Arg /\ Arg < rsp
                                     ELSE HasField(Walk(Arg), 1)
  /\ Op = "MKB" => Arg \in 0..Len(astack)
  /\ Op = "RETURN" /\ rsp > 0 =>
       /\ astack # <<>>
       /\ IF AtMark THEN extra < rsp
          ELSE extra <= rsp /\ rsp - extra + 1 < RspMax /\ Callable(accum)

Fault ==
  /\ status = "running" /\ ~Defined
  /\ status' = "fault"
  /\ UNCHANGED <<store, pc, accum, env, emptyEnv, extra, astack, rslots, rsp>>

Executing(op) == status = "running" /\ pc + 1 \in DOMAIN code /\ Op = op
Fetch(op) == Executing(op) /\ Defined
Next1 == pc + 1 + OperandBytes(Op)   \* pc after the instruction

-----------------------------------------------------------------------------
(* One action for each opcode.                                             *)

Goto(a) == pc' = a
Seg(n) == rsp..(rsp + n - 1)   \* the n slots above the return stack

Int64 ==
  /\ Fetch("INT64") /\ Goto(Next1)
  /\ accum' = IntObj(Arg)
  /\ UNCHANGED <<store, status, env, emptyEnv, extra, astack, rslots, rsp>>

\* Mutant: the heap variables are captured before the extra arguments.
ClosureCapturesSwapped ==
  /\ Fetch("CLOSURE") /\ Goto(Next1 + Arg)
  /\ heap' = heap \o <<<<Ref("env", Len(heap) + 2), CodeIdx(Next1)>>,
                       Fields(env) \o Extras>>
  /\ accum' = Ref("clo", Len(heap) + 1)
  /\ env' = Ref("env", Len(heap) + 2)
  /\ rsp' = rsp - extra /\ extra' = 0
  /\ UNCHANGED <<code, globals, handles, status, emptyEnv, astack, rslots>>

\* The environment is captured, and becomes the current heap environment.
Closure ==
  /\ Fetch("CLOSURE") /\ Goto(Next1 + Arg)
  /\ heap' = heap \o <<<<Ref("env", Len(heap) + 2), CodeIdx(Next1)>>, FullEnv>>
  /\ accum' = Ref("clo", Len(heap) + 1)
  /\ env' = Ref("env", Len(heap) + 2)
  /\ rsp' = rsp - extra /\ extra' = 0
  /\ UNCHANGED <<code, globals, handles, status, emptyEnv, astack, rslots>>

Push ==
  /\ Fetch("PUSH") /\ Goto(Next1)
  /\ astack' = Append(astack, accum)
  /\ UNCHANGED <<store, status, accum, env, emptyEnv, extra, rslots, rsp>>

PushMark ==
  /\ Fetch("PUSHMARK") /\ Goto(Next1)
  /\ astack' = Append(astack, Mark)
  /\ UNCHANGED <<store, status, accum, env, emptyEnv, extra, rslots, rsp>>

Let ==
  /\ Fetch("LET") /\ Goto(Next1)
  /\ rslots' = [rslots EXCEPT ![rsp].env = accum]
  /\ rsp' = rsp + 1 /\ extra' = extra + 1
  /\ UNCHANGED <<store, status, accum, env, emptyEnv, astack>>

\* Mutant: the spill begins with the let-bound value itself.
SpillKeepsFirst ==
  LET n == Len(Fields(env)) - 1
  IN  /\ rslots' = [i \in 0..RspMax - 1 |->
                      IF i \in Seg(n)
                      THEN [rslots[i] EXCEPT !.env = Fields(env)[i - rsp + 1]]
                      ELSE rslots[i]]
      /\ rsp' = rsp + n /\ extra' = n
      /\ env' = emptyEnv

\* Without extra arguments the let-bound value is in env: the fields behind
\* it are moved to the return stack.
Spill ==
  LET n == Len(Fields(env)) - 1
  IN  /\ rslots' = [i \in 0..RspMax - 1 |->
                      IF i \in Seg(n)
                      THEN [rslots[i] EXCEPT !.env = Fields(env)[i - rsp + 2]]
                      ELSE rslots[i]]
      /\ rsp' = rsp + n /\ extra' = n
      /\ env' = emptyEnv

\* Mutant: the extra area is taken to hold the variable always.
EndLetWithoutSpill ==
  /\ Fetch("ENDLET") /\ Goto(Next1)
  /\ rsp' = rsp - 1 /\ extra' = extra - 1 /\ UNCHANGED <<rslots, env>>
  /\ UNCHANGED <<store, status, accum, emptyEnv, astack>>

EndLet ==
  /\ Fetch("ENDLET") /\ Goto(Next1)
  /\ IF extra > 0
     THEN rsp' = rsp - 1 /\ extra' = extra - 1 /\ UNCHANGED <<rslots, env>>
     ELSE Spill
  /\ UNCHANGED <<store, status, accum, emptyEnv, astack>>

SetGlobal ==
  /\ Fetch("SETGLOBAL") /\ Goto(Next1)
  /\ globals' = [globals EXCEPT ![Arg] = accum]
  /\ UNCHANGED <<code, heap, handles, status, accum, env, emptyEnv, extra,
                 astack, rslots, rsp>>

GetGlobal ==
  /\ Fetch("GETGLOBAL") /\ Goto(Next1)
  /\ accum' = globals[Arg]
  /\ UNCHANGED <<store, status, env, emptyEnv, extra, astack, rslots, rsp>>

\* The return frame in slot f; the fields a bare argument left there are old.
Restore(f) ==
  /\ Goto(rslots[f].pc) /\ env' = rslots[f].env /\ extra' = rslots[f].extra
  /\ rsp' = f

\* Mutant: the partial application resumes at the GRAB, not after it.
GrabPartialAgain ==
  /\ Fetch("GRAB") /\ AtMark
  /\ heap' = heap \o <<<<Ref("clo", Len(heap) + 2), CodeIdx(pc)>>, FullEnv>>
  /\ accum' = Ref("clo", Len(heap) + 1)
  /\ Restore(rsp - extra - 1) /\ astack' = Pop
  /\ UNCHANGED <<code, globals, handles, status, emptyEnv, rslots>>

GrabPartial ==
  /\ Fetch("GRAB") /\ AtMark
  /\ heap' = heap \o <<<<Ref("clo", Len(heap) + 2), CodeIdx(Next1)>>, FullEnv>>
  /\ accum' = Ref("clo", Len(heap) + 1)
  /\ Restore(rsp - extra - 1) /\ astack' = Pop
  /\ UNCHANGED <<code, globals, handles, status, emptyEnv, rslots>>

GrabArg ==
  /\ Fetch("GRAB") /\ ~AtMark /\ Goto(Next1)
  /\ rslots' = [rslots EXCEPT ![rsp].env = Top]
  /\ rsp' = rsp + 1 /\ extra' = extra + 1 /\ astack' = Pop
  /\ UNCHANGED <<store, status, accum, env, emptyEnv>>

\* Continue in the closure in accum.
Enter == env' = Field(accum, 1) /\ Goto(Field(accum, 2).v) /\ extra' = 1

Apply ==
  /\ Fetch("APPLY") /\ Enter
  /\ rslots' = [rslots EXCEPT
                  ![rsp] = [env |-> env, pc |-> Next1, extra |-> extra],
                  ![rsp + 1].env = Top]
  /\ rsp' = rsp + 2 /\ astack' = Pop
  /\ UNCHANGED <<store, status, accum, emptyEnv>>

\* Mutant: the caller's arguments stay below the callee's.
AppTermKeepsArgs ==
  /\ Fetch("APPTERM") /\ Enter /\ rsp < RspMax
  /\ rslots' = [rslots EXCEPT ![rsp].env = Top]
  /\ rsp' = rsp + 1 /\ astack' = Pop
  /\ UNCHANGED <<store, status, accum, emptyEnv>>

AppTerm ==
  /\ Fetch("APPTERM") /\ Enter
  /\ rslots' = [rslots EXCEPT ![rsp - extra].env = Top]
  /\ rsp' = rsp - extra + 1 /\ astack' = Pop
  /\ UNCHANGED <<store, status, accum, emptyEnv>>

\* Mutant: index 0 is one slot too high.
AccessOffByOne ==
  /\ Fetch("ACCESS") /\ Goto(Next1)
  /\ accum' = IF Arg < extra THEN rslots[(rsp - Arg) % RspMax].env
                             ELSE Field(Walk(Arg), 1)
  /\ UNCHANGED <<store, status, env, emptyEnv, extra, astack, rslots, rsp>>

\* Mutant: pc stays at the instruction.
AccessWithoutAdvance ==
  /\ Fetch("ACCESS") /\ Goto(pc)
  /\ accum' = IF Arg < extra THEN rslots[rsp - 1 - Arg].env
                             ELSE Field(Walk(Arg), 1)
  /\ UNCHANGED <<store, status, env, emptyEnv, extra, astack, rslots, rsp>>

Access ==
  /\ Fetch("ACCESS") /\ Goto(Next1)
  /\ accum' = IF Arg < extra THEN rslots[rsp - 1 - Arg].env
                             ELSE Field(Walk(Arg), 1)
  /\ UNCHANGED <<store, status, env, emptyEnv, extra, astack, rslots, rsp>>

\* Mutant: the block's address is taken one object too far.
MkBBeyond ==
  /\ Fetch("MKB") /\ Goto(Next1)
  /\ heap' = Append(heap, SubSeq(astack, Len(astack) - Arg + 1, Len(astack)))
  /\ accum' = Ref("tuple", Len(heap) + 2)
  /\ astack' = SubSeq(astack, 1, Len(astack) - Arg)
  /\ UNCHANGED <<code, globals, handles, status, env, emptyEnv, extra, rslots,
                 rsp>>

MkB ==
  /\ Fetch("MKB") /\ Goto(Next1)
  /\ heap' = Append(heap, SubSeq(astack, Len(astack) - Arg + 1, Len(astack)))
  /\ accum' = Ref("tuple", Len(heap) + 1)
  /\ astack' = SubSeq(astack, 1, Len(astack) - Arg)
  /\ UNCHANGED <<code, globals, handles, status, env, emptyEnv, extra, rslots,
                 rsp>>

\* RETURN with an empty return stack ends wist_vm_interpret, and wist_vm_eval
\* puts the result in the handle it added before the call.
ReturnToClient ==
  /\ Fetch("RETURN") /\ rsp = 0
  /\ handles' = [handles EXCEPT ![Len(handles)] = accum]
  /\ status' = "idle"
  /\ UNCHANGED <<code, heap, globals, pc, accum, env, emptyEnv, extra, astack,
                 rslots, rsp>>

\* Mutant: the mark is looked at but not popped.
ReturnKeepsMark ==
  /\ Fetch("RETURN") /\ rsp > 0 /\ AtMark
  /\ Restore(rsp - extra - 1)
  /\ UNCHANGED <<store, status, accum, emptyEnv, rslots, astack>>

ReturnToFrame ==
  /\ Fetch("RETURN") /\ rsp > 0 /\ AtMark
  /\ Restore(rsp - extra - 1) /\ astack' = Pop
  /\ UNCHANGED <<store, status, accum, emptyEnv, rslots>>

\* More arguments are left: accum is applied to the next one. The code stores
\* the argument one slot above rsp and leaves rsp below it.
ReturnToArg ==
  /\ Fetch("RETURN") /\ rsp > 0 /\ ~AtMark /\ Enter
  /\ rslots' = [rslots EXCEPT ![rsp - extra + 1].env = Top]
  /\ rsp' = rsp - extra /\ astack' = Pop
  /\ UNCHANGED <<store, status, accum, emptyEnv>>

Step ==
  \/ Int64 \/ Closure \/ Push \/ PushMark \/ Let \/ EndLet \/ SetGlobal
  \/ GetGlobal \/ GrabPartial \/ GrabArg \/ Apply \/ AppTerm \/ Access
  \/ MkB \/ ReturnToClient \/ ReturnToFrame \/ ReturnToArg \/ Fault

-----------------------------------------------------------------------------
(* The API calls around the interpreter.                                   *)

locals == <<pc, accum, env, emptyEnv, extra, astack, rslots, rsp>>

\* Type inference of a declaration adds its name to the toplevel; the entry's
\* val is not set before the declaration is executed.
Register(s) ==
  /\ status = "idle" /\ s \notin DOMAIN globals
  /\ globals' = [g \in DOMAIN globals \cup {s} |->
                   IF g = s THEN Undef ELSE globals[g]]
  /\ UNCHANGED <<code, heap, handles, status, locals>>

\* wist_compiler_vm_gen_expr and _gen_decl, from the generated code on.
Place(chunk) ==
  /\ status = "idle" /\ Len(handles) < MaxHandles
  /\ heap' = heap \o <<<<Ref("env", Len(heap) + 2), CodeIdx(Len(code))>>, <<>>>>
  /\ code' = code \o chunk
  /\ handles' = Append(handles, Ref("clo", Len(heap) + 1))
  /\ UNCHANGED <<globals, status, locals>>

Generate == /\ status = "idle" /\ Len(code) < MaxCode
            /\ \E chunk \in Chunks : Place(chunk)

\* wist_vm_eval of a handle that holds a closure, up to the first instruction.
Eval(h) ==
  /\ status = "idle" /\ Len(handles) < MaxHandles
  /\ h \in DOMAIN handles /\ handles[h].t = "clo" /\ Callable(handles[h])
  /\ handles' = Append(handles, Undef)
  /\ heap' = Append(heap, <<>>)
  /\ emptyEnv' = Ref("env", Len(heap) + 1)
  /\ env' = Field(handles[h], 1) /\ Goto(Field(handles[h], 2).v)
  /\ accum' = Undef /\ extra' = 0 /\ astack' = <<>> /\ rsp' = 0
  /\ rslots' = [i \in 0..RspMax - 1 |-> [env |-> Undef, pc |-> -1, extra |-> 0]]
  /\ status' = "running"
  /\ UNCHANGED <<code, globals>>

Init ==
  /\ code = <<>> /\ heap = <<>> /\ handles = <<>>
  /\ globals = [s \in {} |-> Undef]
  /\ status = "idle"
  /\ pc = 0 /\ accum = Undef /\ env = Undef /\ emptyEnv = Undef /\ extra = 0
  /\ astack = <<>> /\ rsp = 0
  /\ rslots = [i \in 0..RspMax - 1 |-> [env |-> Undef, pc |-> -1, extra |-> 0]]

Next ==
  \/ Step
  \/ \E s \in Syms : Register(s)
  \/ Generate
  \/ \E h \in DOMAIN handles : Eval(h)

Spec == Init /\ [][Next]_vars

-----------------------------------------------------------------------------
(* Properties.                                                             *)

LiveIn(o, size) == o.t \in Kinds => o.v \in 1..size
Live(o) == LiveIn(o, Len(heap))

TypeOK ==
  /\ code \in Seq(Cell) /\ heap \in Seq(Object) /\ handles \in Seq(Value)
  /\ DOMAIN globals \subseteq Syms /\ globals \in [DOMAIN globals -> Value]
  /\ status \in {"idle", "running", "fault"}
  /\ pc \in Int /\ accum \in Value /\ env \in Value /\ emptyEnv \in Value
  /\ extra \in Nat /\ astack \in Seq(Value)
  /\ rslots \in [0..RspMax - 1 -> Slot] /\ rsp \in 0..RspMax

RegistersLive == Live(accum) /\ Live(env) /\ Live(emptyEnv)
StackLive == \A i \in DOMAIN astack : Live(astack[i])
SlotsLive == \A f \in DOMAIN rslots : Live(rslots[f].env)
HandlesLive == \A h \in DOMAIN handles : Live(handles[h])
GlobalsLive == \A s \in DOMAIN globals : Live(globals[s])
HeapLive == \A a \in DOMAIN heap : \A i \in DOMAIN heap[a] : Live(heap[a][i])

\* Whatever bytes are executed, the registers, both stacks (the old contents of
\* free slots too), the handles, the globals and the objects themselves refer
\* only to objects that were allocated (lib/vm.c checks no tag before it
\* follows a pointer).
NoDangling ==
  RegistersLive /\ StackLive /\ SlotsLive /\ HandlesLive /\ GlobalsLive /\ HeapLive

\* ENDLET in an empty extra area: the order of more than one variable is lost.
SpillsMany ==
  /\ Executing("ENDLET") /\ extra = 0 /\ IsObj(env) /\ Len(Fields(env)) > 2

\* FullEnv is defined: the extra arguments are there, and env is an object.
HasScope == extra <= rsp /\ IsObj(env)

\* CLOSURE moves the extra arguments into a heap environment and keeps running
\* with it: no variable of the code after it changes its meaning.
ClosureKeepsScope == [][Closure => FullEnv' = FullEnv]_vars

\* ENDLET ends the scope of the innermost variable and of no other, wherever a
\* CLOSURE in the let's body has moved the variables in the meantime.
EndLetDropsInnermost ==
  [][EndLet /\ HasScope /\ ~SpillsMany => FullEnv' = Tail(FullEnv)]_vars
=============================================================================
