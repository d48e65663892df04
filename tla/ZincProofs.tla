----------------------------- MODULE ZincProofs -----------------------------
(***************************************************************************)
(* Proofs about the interpreter for every code, whoever generated it, and  *)
(* for every size of the stacks: its state is typed and nothing dangles;   *)
(* it finds its return frames; and it is a machine with whole scopes and a *)
(* stack of callers.                                                       *)
(***************************************************************************)
EXTENDS ZincFrames, SequenceTheorems, TLAPS

-----------------------------------------------------------------------------
(* Lemmas about the operators of the machine.                              *)

\* A field that is read is an object, whatever it is read from.
LEMMA FieldType ==
  ASSUME heap \in Seq(Object), NEW o, NEW n
  PROVE  Field(o, n) \in Value
<1>1. CASE HasField(o, n)
  <2>1. heap[o.v] \in Seq(Value)
    BY <1>1 DEF HasField, IsObj, Object
  <2>2. n \in DOMAIN heap[o.v]
    BY <1>1 DEF HasField, Fields
  <2>3. heap[o.v][n] \in Value
    BY <2>1, <2>2
  <2> QED BY <1>1, <2>3 DEF Field, Fields
<1>2. CASE ~HasField(o, n)
  BY <1>2 DEF Field, Undef, Value
<1> QED BY <1>1, <1>2

\* The environment the running code sees is a sequence of objects.
LEMMA FullEnvType ==
  ASSUME TypeOK, IsObj(env), extra <= rsp
  PROVE  FullEnv \in Seq(Value)
<1>1. Extras \in Seq(Value)
  <2>1. ASSUME NEW i \in 1..extra PROVE rslots[rsp - i].env \in Value
    <3>1. rsp - i \in 0..RspMax - 1
      BY SizesAssumption DEF TypeOK
    <3> QED BY <3>1 DEF TypeOK, Slot
  <2>2. Extras \in [1..extra -> Value]
    BY <2>1 DEF Extras
  <2> QED BY <2>2, SeqDef DEF TypeOK
<1>2. Fields(env) \in Seq(Value)
  BY DEF TypeOK, IsObj, Fields, Object
<1> QED BY <1>1, <1>2 DEF FullEnv

\* The instruction at pc, its operand and the address behind it.
LEMMA InstrType ==
  ASSUME TypeOK, pc + 1 \in DOMAIN code
  PROVE  Arg \in Int /\ Next1 \in Int
<1>1. code[pc + 1] \in Cell
  BY DEF TypeOK
<1>2. OperandBytes(Op) \in Nat
  BY WordBytesAssumption DEF OperandBytes
<1> QED BY <1>1, <1>2 DEF Arg, Next1, Cell, TypeOK

\* What a return stack slot may hold.
LEMMA SlotType ==
  ASSUME TypeOK, NEW f \in 0..RspMax - 1
  PROVE  /\ rslots[f].pc \in Int /\ rslots[f].env \in Value
         /\ rslots[f].extra \in Nat
BY DEF TypeOK, Slot

\* Writing the env of a slot, which is what bare arguments do.
LEMMA SlotWrite ==
  ASSUME TypeOK, NEW f \in 0..RspMax - 1, NEW o \in Value
  PROVE  [rslots EXCEPT ![f].env = o] \in [0..RspMax - 1 -> Slot]
BY DEF TypeOK, Slot

\* The argument stack without its top.
LEMMA PopType ==
  ASSUME TypeOK, astack # <<>>
  PROVE  Pop \in Seq(Value) /\ Top \in Value
BY DEF TypeOK, Pop, Top

\* A closure and the environment it captures, added to the heap.
LEMMA CaptureType ==
  ASSUME TypeOK, NEW kind \in Kinds, NEW a \in Int, NEW fields \in Seq(Value)
  PROVE  heap \o <<<<Ref(kind, Len(heap) + 2), CodeIdx(a)>>, fields>>
           \in Seq(Object)
<1>1. Ref(kind, Len(heap) + 2) \in Value /\ CodeIdx(a) \in Value
  BY DEF Ref, CodeIdx, Value, TypeOK
<1>2. <<Ref(kind, Len(heap) + 2), CodeIdx(a)>> \in Object
  BY <1>1 DEF Object
<1> DEFINE clo == <<Ref(kind, Len(heap) + 2), CodeIdx(a)>>
<1> HIDE DEF clo
<1>3. <<clo, fields>> \in Seq(Object)
  BY <1>2 DEF Object, clo
<1> QED BY <1>3 DEF TypeOK, clo

-----------------------------------------------------------------------------
(* Type correctness.                                                       *)

\* Type correctness of wist_vm_interpret and the calls around it: whatever bytes
\* are executed, registers, stacks, heap, globals and handles hold what their C
\* types say, and rsp stays within return_stack.
THEOREM TypeCorrect == Spec => []TypeOK
<1>1. Init => TypeOK
  BY SizesAssumption DEF Init, TypeOK, Slot, Undef, Value, Kinds
<1>2. TypeOK /\ [Next]_vars => TypeOK'
  <2> SUFFICES ASSUME TypeOK, [Next]_vars PROVE TypeOK'
    OBVIOUS
  <2> USE DEF Fetch, Executing, Goto, store
  <2>0. Undef \in Value /\ Mark \in Value
    BY DEF Undef, Mark, Value
  <2>a. pc + 1 \in DOMAIN code => Arg \in Int /\ Next1 \in Int
    BY InstrType
  <2>b. \A f \in 0..RspMax - 1 : /\ rslots[f].pc \in Int /\ rslots[f].env \in Value
                                /\ rslots[f].extra \in Nat
    BY SlotType
  <2>c. \A f \in 0..RspMax - 1, o \in Value :
          [rslots EXCEPT ![f].env = o] \in [0..RspMax - 1 -> Slot]
    BY SlotWrite
  <2>d. astack # <<>> => Pop \in Seq(Value) /\ Top \in Value
    BY PopType
  <2>e. IsObj(env) /\ extra <= rsp => FullEnv \in Seq(Value)
    BY FullEnvType
  <2>f. \A kind \in Kinds, a \in Int, fields \in Seq(Value) :
          heap \o <<<<Ref(kind, Len(heap) + 2), CodeIdx(a)>>, fields>>
            \in Seq(Object)
    BY CaptureType
  <2>g. \A o, n : Field(o, n) \in Value
    BY FieldType DEF TypeOK
  <2>h. RspMax \in Nat /\ rsp \in 0..RspMax /\ extra \in Nat /\ Len(heap) \in Nat
    BY SizesAssumption DEF TypeOK
  <2>1. CASE Int64
    <3>1. accum' \in Value /\ pc' \in Int
      BY <2>1, <2>a DEF Int64, IntObj, Value
    <3> QED BY <2>1, <3>1 DEF Int64, TypeOK
  <2>2. CASE Closure
    <3>1. IsObj(env) /\ extra <= rsp
      BY <2>2 DEF Closure, Defined
    <3>2. heap' \in Seq(Object)
      BY <2>2, <3>1, <2>e, <2>a, <2>f DEF Closure, Kinds
    <3>3. accum' \in Value /\ env' \in Value
      BY <2>2 DEF Closure, Ref, Value, Kinds, TypeOK
    <3>4. pc' \in Int /\ extra' \in Nat /\ rsp' \in 0..RspMax
      BY <2>2, <3>1, <2>a, <2>h DEF Closure
    <3> QED BY <2>2, <3>2, <3>3, <3>4 DEF Closure, TypeOK
  <2>3. CASE Push
    BY <2>3, <2>a DEF Push, TypeOK
  <2>4. CASE PushMark
    BY <2>4, <2>0, <2>a DEF PushMark, TypeOK
  <2>5. CASE Let
    <3>1. rsp \in 0..RspMax - 1
      BY <2>5, <2>h DEF Let, Defined, TypeOK
    <3>2. rslots' \in [0..RspMax - 1 -> Slot]
      BY <2>5, <3>1, <2>c DEF Let, TypeOK
    <3>3. pc' \in Int /\ extra' \in Nat /\ rsp' \in 0..RspMax
      BY <2>5, <3>1, <2>a, <2>h DEF Let
    <3> QED BY <2>5, <3>2, <3>3 DEF Let, TypeOK
  <2>6. CASE EndLet
    <3>1. CASE extra > 0
      <4>1. rsp > 0
        BY <2>6, <3>1 DEF EndLet, Defined
      <4>2. pc' \in Int /\ extra' \in Nat /\ rsp' \in 0..RspMax
        BY <2>6, <3>1, <4>1, <2>a, <2>h DEF EndLet
      <4> QED BY <2>6, <3>1, <4>2 DEF EndLet, TypeOK
    <3>2. CASE extra = 0
      <4> DEFINE n == Len(Fields(env)) - 1
      <4>1. Fields(env) \in Seq(Value) /\ n \in Nat /\ rsp + n <= RspMax
        <5>1. HasField(env, 1) /\ rsp + Len(Fields(env)) - 1 <= RspMax
          BY <2>6, <3>2 DEF EndLet, Defined
        <5>2. Fields(env) \in Seq(Value)
          BY <5>1 DEF HasField, IsObj, Fields, Object, TypeOK
        <5>3. 1 \in DOMAIN Fields(env)
          BY <5>1 DEF HasField
        <5>4. Len(Fields(env)) \in Nat \ {0}
          BY <5>2, <5>3
        <5> QED BY <5>1, <5>2, <5>4, <2>h
      <4>2. rslots' \in [0..RspMax - 1 -> Slot]
        <5>1. ASSUME NEW i \in 0..RspMax - 1
              PROVE  rslots'[i] \in Slot
          <6>1. CASE i \in Seg(n)
            <7>1. i - rsp + 2 \in 1..Len(Fields(env))
              BY <6>1, <4>1, <2>h DEF Seg
            <7>2. Fields(env)[i - rsp + 2] \in Value
              BY <7>1, <4>1
            <7>3. rslots'[i] = [rslots[i] EXCEPT !.env = Fields(env)[i - rsp + 2]]
              BY <2>6, <3>2, <6>1, <5>1 DEF EndLet, Spill
            <7>4. rslots[i] \in Slot
              BY <5>1 DEF TypeOK
            <7> QED BY <7>2, <7>3, <7>4 DEF Slot
          <6>2. CASE i \notin Seg(n)
            <7>1. rslots'[i] = rslots[i]
              BY <2>6, <3>2, <6>2, <5>1 DEF EndLet, Spill
            <7> QED BY <7>1, <5>1 DEF TypeOK
          <6> QED BY <6>1, <6>2
        <5>2. \E e \in [0..RspMax - 1 -> {rslots'[i] : i \in 0..RspMax - 1}] :
                rslots' = e
          BY <2>6, <3>2 DEF EndLet, Spill
        <5> QED BY <5>1, <5>2
      <4>3. rsp' = rsp + n /\ extra' = n /\ env' = emptyEnv
        BY <2>6, <3>2 DEF EndLet, Spill
      <4> QED BY <2>6, <4>1, <4>2, <4>3, <2>a DEF EndLet, TypeOK
    <3> QED BY <3>1, <3>2 DEF TypeOK
  <2>7. CASE SetGlobal
    BY <2>7, <2>a DEF SetGlobal, TypeOK
  <2>8. CASE GetGlobal
    <3>1. accum' \in Value
      BY <2>8 DEF GetGlobal, Defined, TypeOK
    <3> QED BY <2>8, <3>1, <2>a DEF GetGlobal, TypeOK
  <2>9. CASE GrabPartial
    <3>1. IsObj(env) /\ extra < rsp /\ astack # <<>>
      BY <2>9 DEF GrabPartial, Defined, AtMark
    <3>2. heap' \in Seq(Object)
      BY <2>9, <3>1, <2>e, <2>a, <2>f, <2>h
         DEF GrabPartial, Kinds
    <3>3. accum' \in Value
      BY <2>9 DEF GrabPartial, Ref, Value, Kinds, TypeOK
    <3>4. rsp - extra - 1 \in 0..RspMax - 1
      BY <3>1, <2>h
    <3>5. pc' \in Int /\ env' \in Value /\ extra' \in Nat /\ rsp' \in 0..RspMax
      <4> DEFINE f == rsp - extra - 1
      <4>1. f \in 0..RspMax - 1 /\ f \in 0..RspMax
        BY <3>4, <2>h
      <4>2. rslots[f].pc \in Int /\ rslots[f].env \in Value /\ rslots[f].extra \in Nat
        BY <4>1, <2>b
      <4>3. /\ pc' = rslots[f].pc /\ env' = rslots[f].env
            /\ extra' = rslots[f].extra /\ rsp' = f
        BY <2>9 DEF GrabPartial, Restore
      <4> QED BY <4>1, <4>2, <4>3
    <3> QED BY <2>9, <3>1, <3>2, <3>3, <3>5, <2>d DEF GrabPartial, TypeOK
  <2>10. CASE GrabArg
    <3>1. rsp \in 0..RspMax - 1 /\ astack # <<>>
      BY <2>10, <2>h DEF GrabArg, Defined, TypeOK
    <3>2. rslots' \in [0..RspMax - 1 -> Slot]
      BY <2>10, <3>1, <2>c, <2>d DEF GrabArg
    <3>3. pc' \in Int /\ extra' \in Nat /\ rsp' \in 0..RspMax
      BY <2>10, <3>1, <2>a, <2>h DEF GrabArg
    <3>4. astack' \in Seq(Value)
      BY <2>10, <3>1, <2>d DEF GrabArg
    <3> QED BY <2>10, <3>2, <3>3, <3>4 DEF GrabArg, TypeOK
  <2>11. CASE Apply
    <3>1. rsp + 2 <= RspMax /\ astack # <<>>
      BY <2>11 DEF Apply, Defined
    <3>2. rslots' \in [0..RspMax - 1 -> Slot]
      <4> DEFINE saved == [env |-> env, pc |-> Next1, extra |-> extra]
      <4>1. saved \in Slot
        BY <2>11, <2>a DEF Apply, Slot, TypeOK
      <4> QED BY <2>11, <3>1, <4>1, <2>d DEF Apply, Slot, TypeOK
    <3>3. env' \in Value /\ pc' \in Int
      BY <2>11, <2>g DEF Apply, Enter, Value, TypeOK
    <3>4. extra' \in Nat /\ rsp' \in 0..RspMax /\ astack' \in Seq(Value)
      BY <2>11, <3>1, <2>d, <2>h DEF Apply, Enter
    <3> QED BY <2>11, <3>2, <3>3, <3>4 DEF Apply, TypeOK
  <2>12. CASE AppTerm
    <3>1. rsp - extra \in 0..RspMax - 1 /\ astack # <<>>
      BY <2>12, <2>h DEF AppTerm, Defined, TypeOK
    <3>2. rslots' \in [0..RspMax - 1 -> Slot]
      BY <2>12, <3>1, <2>c, <2>d DEF AppTerm
    <3>3. env' \in Value /\ pc' \in Int
      BY <2>12, <2>g DEF AppTerm, Enter, Value, TypeOK
    <3>4. extra' \in Nat /\ rsp' \in 0..RspMax /\ astack' \in Seq(Value)
      BY <2>12, <3>1, <2>d, <2>h DEF AppTerm, Enter
    <3> QED BY <2>12, <3>2, <3>3, <3>4 DEF AppTerm, TypeOK
  <2>13. CASE Access
    <3>1. accum' \in Value
      <4>1. CASE Arg < extra
        <5>1. rsp - 1 - Arg \in 0..RspMax - 1
          BY <2>13, <4>1, <2>a, <2>h DEF Access, Defined
        <5> QED BY <2>13, <4>1, <5>1, <2>b DEF Access
      <4>2. CASE ~(Arg < extra)
        BY <2>13, <4>2, <2>g DEF Access, TypeOK
      <4> QED BY <4>1, <4>2
    <3> QED BY <2>13, <3>1, <2>a DEF Access, TypeOK
  <2>14. CASE MkB
    <3>1. Arg \in 0..Len(astack)
      BY <2>14 DEF MkB, Defined
    <3>2. /\ SubSeq(astack, Len(astack) - Arg + 1, Len(astack)) \in Object
          /\ SubSeq(astack, 1, Len(astack) - Arg) \in Seq(Value)
      BY <3>1 DEF Object, TypeOK
    <3>3. accum' \in Value
      BY <2>14 DEF MkB, Ref, Value, Kinds, TypeOK
    <3>4. pc' \in Int /\ heap' \in Seq(Object)
      BY <2>14, <3>2, <2>a DEF MkB, TypeOK
    <3> QED BY <2>14, <3>2, <3>3, <3>4 DEF MkB, TypeOK
  <2>15. CASE ReturnToClient
    <3>1. handles' = [handles EXCEPT ![Len(handles)] = accum]
      BY <2>15 DEF ReturnToClient
    <3>2. handles \in Seq(Value) /\ accum \in Value
      BY DEF TypeOK
    <3>3. handles \in [1..Len(handles) -> Value] /\ Len(handles) \in Nat
      BY <3>2, LenProperties
    <3>4. handles' \in [1..Len(handles) -> Value]
      BY <3>1, <3>2, <3>3
    <3>5. handles' \in Seq(Value)
      BY <3>3, <3>4, SeqDef
    <3> QED BY <2>15, <3>5 DEF ReturnToClient, TypeOK
  <2>16. CASE ReturnToFrame
    <3>1. extra < rsp /\ astack # <<>>
      BY <2>16 DEF ReturnToFrame, Defined, AtMark
    <3>2. rsp - extra - 1 \in 0..RspMax - 1
      BY <3>1, <2>h
    <3>3. pc' \in Int /\ env' \in Value /\ extra' \in Nat /\ rsp' \in 0..RspMax
      BY <2>16, <3>2, <2>b, <2>h DEF ReturnToFrame, Restore
    <3> QED BY <2>16, <3>1, <3>3, <2>d DEF ReturnToFrame, TypeOK
  <2>17. CASE ReturnToArg
    <3>1. /\ extra <= rsp /\ rsp - extra + 1 \in 0..RspMax - 1
          /\ astack # <<>>
      BY <2>17, <2>h DEF ReturnToArg, Defined, TypeOK
    <3>2. rslots' \in [0..RspMax - 1 -> Slot]
      BY <2>17, <3>1, <2>c, <2>d DEF ReturnToArg
    <3>3. env' \in Value /\ pc' \in Int
      BY <2>17, <2>g DEF ReturnToArg, Enter, Value, TypeOK
    <3>4. extra' \in Nat /\ rsp' \in 0..RspMax /\ astack' \in Seq(Value)
      BY <2>17, <3>1, <2>d, <2>h DEF ReturnToArg, Enter
    <3> QED BY <2>17, <3>2, <3>3, <3>4 DEF ReturnToArg, TypeOK
  <2>18. CASE Fault
    BY <2>18 DEF Fault, TypeOK
  <2>19. CASE \E s \in Syms : Register(s)
    BY <2>19, <2>0 DEF Register, locals, TypeOK
  <2>20. CASE Generate
    <3>1. PICK chunk \in Chunks : Place(chunk)
      BY <2>20 DEF Generate
    <3>2. chunk \in Seq(Cell)
      BY ChunksAssumption
    <3>3. heap' \in Seq(Object)
      <4>1. <<>> \in Seq(Value) /\ Len(code) \in Int /\ "env" \in Kinds
        BY DEF Kinds, TypeOK
      <4> QED BY <3>1, <4>1, <2>f DEF Place
    <3>4. Ref("clo", Len(heap) + 1) \in Value
      BY DEF Ref, Value, Kinds, TypeOK
    <3> QED BY <3>1, <3>2, <3>3, <3>4 DEF Place, locals, TypeOK
  <2>21. CASE \E h \in DOMAIN handles : Eval(h)
    <3>1. PICK h \in DOMAIN handles : Eval(h)
      BY <2>21
    <3>2. Ref("env", Len(heap) + 1) \in Value /\ <<>> \in Object
      BY DEF Ref, Value, Kinds, Object, TypeOK
    <3>3. env' \in Value /\ pc' \in Int
      BY <3>1, <2>g DEF Eval, Value, TypeOK
    <3>4. rslots' \in [0..RspMax - 1 -> Slot]
      BY <3>1, <2>0 DEF Eval, Slot
    <3>5. heap' \in Seq(Object) /\ handles' \in Seq(Value) /\ astack' \in Seq(Value)
      BY <3>1, <3>2, <2>0 DEF Eval, TypeOK
    <3>6. accum' \in Value /\ emptyEnv' \in Value /\ extra' \in Nat /\ rsp' \in 0..RspMax
      BY <3>1, <3>2, <2>0, <2>h DEF Eval
    <3> QED BY <3>1, <3>3, <3>4, <3>5, <3>6 DEF Eval, TypeOK
  <2>22. CASE UNCHANGED vars
    BY <2>22 DEF vars, TypeOK
  <2> QED BY <2>1, <2>2, <2>3, <2>4, <2>5, <2>6, <2>7, <2>8, <2>9, <2>10,
             <2>11, <2>12, <2>13, <2>14, <2>15, <2>16, <2>17, <2>18, <2>19,
             <2>20, <2>21, <2>22 DEF Next, Step
<1> QED BY <1>1, <1>2, PTL DEF Spec
-----------------------------------------------------------------------------
(* No reference dangles, and CLOSURE, ENDLET and ACCESS treat the          *)
(* variables in scope rightly.                                             *)


\* Allocating a closure and its environment.
LEMMA CaptureLive ==
  ASSUME TypeOK, HeapLive, NEW kind \in Kinds, NEW a \in Int,
         NEW fields \in Seq(Value), \A i \in DOMAIN fields : Live(fields[i]),
         heap' = heap \o <<<<Ref(kind, Len(heap) + 2), CodeIdx(a)>>, fields>>
  PROVE  /\ HeapLive'
         /\ \A o : Live(o) => LiveIn(o, Len(heap'))
         /\ LiveIn(Ref("clo", Len(heap) + 1), Len(heap'))
         /\ LiveIn(Ref("env", Len(heap) + 2), Len(heap'))
<1> DEFINE clo == <<Ref(kind, Len(heap) + 2), CodeIdx(a)>>
           n == Len(heap)
<1>0. heap \in Seq(Object) /\ n \in Nat
  BY DEF TypeOK
<1>1. heap' = heap \o <<clo, fields>>
  OBVIOUS
<1>2. Len(clo) = 2 /\ clo[1] = Ref(kind, n + 2) /\ clo[2] = CodeIdx(a)
  OBVIOUS
<1> HIDE DEF clo
<1>3. /\ Len(heap') = n + 2 /\ heap'[n + 1] = clo /\ heap'[n + 2] = fields
      /\ \A b \in 1..n : heap'[b] = heap[b]
  BY <1>0, <1>1
<1>4. \A o : Live(o) => LiveIn(o, Len(heap'))
  BY <1>0, <1>3 DEF Live, LiveIn
<1>5. LiveIn(Ref("clo", n + 1), Len(heap')) /\ LiveIn(Ref("env", n + 2), Len(heap'))
  BY <1>0, <1>3 DEF Live, LiveIn, Ref
<1>6. HeapLive'
  <2> SUFFICES ASSUME NEW b \in DOMAIN heap', NEW i \in DOMAIN heap'[b]
               PROVE  LiveIn(heap'[b][i], Len(heap'))
    BY DEF HeapLive, Live
  <2>0. b \in 1..n \/ b = n + 1 \/ b = n + 2
    BY <1>0, <1>1
  <2>1. CASE b \in 1..n
    BY <2>1, <1>0, <1>3, <1>4 DEF HeapLive
  <2>2. CASE b = n + 1
    <3>1. clo = <<Ref(kind, n + 2), CodeIdx(a)>>
      BY DEF clo
    <3>2. i \in 1..2
      BY <2>2, <1>2, <1>3, <3>1
    <3>3. LiveIn(Ref(kind, n + 2), n + 2) /\ LiveIn(CodeIdx(a), n + 2)
      BY <1>0, <1>3 DEF Live, LiveIn, Ref, CodeIdx, Kinds
    <3> QED BY <2>2, <3>2, <3>3, <1>2, <1>3
  <2>3. CASE b = n + 2
    BY <2>3, <1>3, <1>4
  <2> QED BY <2>0, <2>1, <2>2, <2>3
<1> QED BY <1>4, <1>5, <1>6

\* Allocating one object.
LEMMA AllocLive ==
  ASSUME TypeOK, HeapLive, NEW kind \in Kinds,
         NEW fields \in Seq(Value), \A i \in DOMAIN fields : Live(fields[i]),
         heap' = Append(heap, fields)
  PROVE  /\ HeapLive'
         /\ \A o : Live(o) => LiveIn(o, Len(heap'))
         /\ LiveIn(Ref(kind, Len(heap) + 1), Len(heap'))
<1> DEFINE n == Len(heap)
<1>0. heap \in Seq(Object) /\ n \in Nat
  BY DEF TypeOK
<1>1. Len(heap') = n + 1 /\ heap'[n + 1] = fields /\ \A b \in 1..n : heap'[b] = heap[b]
  BY <1>0
<1>2. \A o : Live(o) => LiveIn(o, Len(heap'))
  BY <1>0, <1>1 DEF Live, LiveIn
<1>3. LiveIn(Ref(kind, n + 1), Len(heap'))
  BY <1>0, <1>1 DEF Live, LiveIn, Ref
<1>4. HeapLive'
  <2> SUFFICES ASSUME NEW b \in DOMAIN heap', NEW i \in DOMAIN heap'[b]
               PROVE  LiveIn(heap'[b][i], Len(heap'))
    BY DEF HeapLive, Live
  <2>0. b \in 1..n \/ b = n + 1
    BY <1>0
  <2>1. CASE b \in 1..n
    BY <2>1, <1>0, <1>1, <1>2 DEF HeapLive
  <2>2. CASE b = n + 1
    BY <2>2, <1>1, <1>2
  <2> QED BY <2>0, <2>1, <2>2
<1> QED BY <1>2, <1>3, <1>4

\* A field that is read is live, whatever it is read from.
LEMMA FieldLive ==
  ASSUME HeapLive, NEW o, NEW n
  PROVE  Live(Field(o, n))
<1>1. CASE HasField(o, n)
  BY <1>1 DEF HeapLive, HasField, IsObj, Fields, Field
<1>2. CASE ~HasField(o, n)
  BY <1>2 DEF Field, Undef, Live, LiveIn, Kinds
<1> QED BY <1>1, <1>2

\* What the running code sees is live.
LEMMA FullEnvLive ==
  ASSUME TypeOK, SlotsLive, HeapLive, IsObj(env), extra <= rsp
  PROVE  \A i \in DOMAIN FullEnv : Live(FullEnv[i])
<1>1. Fields(env) \in Seq(Value) /\ \A i \in DOMAIN Fields(env) : Live(Fields(env)[i])
  BY DEF TypeOK, IsObj, Fields, Object, HeapLive
<1>2. extra \in Nat /\ Len(Extras) = extra /\ Extras \in Seq({Extras[i] : i \in 1..extra})
  <2>1. extra \in Nat
    BY DEF TypeOK
  <2>2. Extras \in [1..extra -> {Extras[i] : i \in 1..extra}]
    BY DEF Extras
  <2>3. Extras \in Seq({Extras[i] : i \in 1..extra})
    BY <2>1, <2>2, SeqDef
  <2> QED BY <2>1, <2>2, <2>3, LenProperties
<1>3. \A i \in 1..extra : Live(Extras[i])
  <2> SUFFICES ASSUME NEW i \in 1..extra PROVE Live(Extras[i])
    OBVIOUS
  <2>1. rsp - i \in DOMAIN rslots
    BY SizesAssumption DEF TypeOK
  <2> QED BY <2>1 DEF Extras, SlotsLive
<1> SUFFICES ASSUME NEW i \in DOMAIN FullEnv PROVE Live(FullEnv[i])
  OBVIOUS
<1>4. i \in 1..extra + Len(Fields(env)) /\ Len(Fields(env)) \in Nat
  BY <1>1, <1>2 DEF FullEnv
<1>5. CASE i <= extra
  <2>1. FullEnv[i] = Extras[i]
    BY <1>1, <1>2, <1>4, <1>5 DEF FullEnv
  <2> QED BY <2>1, <1>2, <1>3, <1>4, <1>5
<1>6. CASE i > extra
  <2>1. FullEnv[i] = Fields(env)[i - extra] /\ i - extra \in DOMAIN Fields(env)
    BY <1>1, <1>2, <1>4, <1>6 DEF FullEnv
  <2> QED BY <2>1, <1>1
<1> QED BY <1>4, <1>5, <1>6, <1>2

\* Writing a live object into a slot of the return stack.
LEMMA SlotWriteLive ==
  ASSUME TypeOK, SlotsLive, NEW f \in 0..RspMax - 1, NEW o, Live(o),
         rslots' = [rslots EXCEPT ![f].env = o], UNCHANGED heap
  PROVE  SlotsLive'
BY DEF SlotsLive, Live, TypeOK, Slot

\* NoDangling holds of the interpreter running any code: nothing it holds or
\* follows refers to an object that was never allocated.
THEOREM NothingDangles == Spec => []NoDangling
<1>1. Init => NoDangling
  BY DEF Init, NoDangling, RegistersLive, StackLive, SlotsLive, HandlesLive,
         GlobalsLive, HeapLive, Live, LiveIn, Undef, Kinds
<1>2. TypeOK /\ NoDangling /\ [Next]_vars => NoDangling'
  <2> SUFFICES ASSUME TypeOK, NoDangling, [Next]_vars PROVE NoDangling'
    OBVIOUS
  <2> USE DEF Fetch, Executing, store
  <2>0. Live(Undef) /\ Live(Mark) /\ \A n : Live(IntObj(n))
    BY DEF Undef, Mark, IntObj, Live, LiveIn, Kinds
  <2>a. /\ RegistersLive /\ StackLive /\ SlotsLive /\ HandlesLive /\ GlobalsLive
        /\ HeapLive
    BY DEF NoDangling
  <2>b. \A o, n : Live(Field(o, n))
    BY <2>a, FieldLive
  <2>c. \A f \in 0..RspMax - 1 : Live(rslots[f].env)
    BY <2>a DEF SlotsLive, TypeOK
  <2>d. astack # <<>> => Live(Top) /\ \A i \in DOMAIN Pop : Live(Pop[i])
    BY <2>a DEF StackLive, TypeOK, Top, Pop
  <2>e. RspMax \in Nat /\ rsp \in 0..RspMax /\ extra \in Nat
    BY SizesAssumption DEF TypeOK
  <2>f. UNCHANGED heap => (\A o : Live(o) <=> LiveIn(o, Len(heap'))) /\ HeapLive'
    BY <2>a DEF Live, HeapLive
  <2>g. /\ UNCHANGED <<heap, astack>> => StackLive'
        /\ UNCHANGED <<heap, rslots>> => SlotsLive'
        /\ UNCHANGED <<heap, handles>> => HandlesLive'
        /\ UNCHANGED <<heap, globals>> => GlobalsLive'
    BY <2>a DEF StackLive, SlotsLive, HandlesLive, GlobalsLive, Live
  <2>h. ASSUME \A o : Live(o) => LiveIn(o, Len(heap'))
        PROVE  /\ UNCHANGED astack => StackLive'
               /\ UNCHANGED rslots => SlotsLive'
               /\ UNCHANGED handles => HandlesLive'
               /\ UNCHANGED globals => GlobalsLive'
    BY <2>a, <2>h DEF StackLive, SlotsLive, HandlesLive, GlobalsLive, Live
  <2>i. UNCHANGED heap /\ astack # <<>> /\ astack' = Pop => StackLive'
    BY <2>d, <2>f DEF StackLive, Live
  <2>j. UNCHANGED <<heap, handles, globals>> /\ StackLive' /\ SlotsLive'
          /\ Live(accum') /\ Live(env') /\ UNCHANGED emptyEnv => NoDangling'
    BY <2>a, <2>f, <2>g DEF NoDangling, RegistersLive, Live
  <2>k. Live(accum) /\ Live(env) /\ Live(emptyEnv)
    BY <2>a DEF RegistersLive
  <2>1. CASE Int64
    BY <2>1, <2>0, <2>g, <2>j, <2>k DEF Int64
  <2>2. CASE Closure
    <3>1. IsObj(env) /\ extra <= rsp /\ Next1 \in Int
      BY <2>2, InstrType DEF Closure, Defined
    <3>2. /\ HeapLive' /\ \A o : Live(o) => LiveIn(o, Len(heap'))
          /\ LiveIn(accum', Len(heap')) /\ LiveIn(env', Len(heap'))
      <4>1. FullEnv \in Seq(Value) /\ \A i \in DOMAIN FullEnv : Live(FullEnv[i])
        BY <3>1, <2>a, FullEnvType, FullEnvLive
      <4>2. "env" \in Kinds
        BY DEF Kinds
      <4> QED BY <2>2, <2>a, <3>1, <4>1, <4>2, CaptureLive DEF Closure
    <3> QED BY <2>2, <2>h, <2>k, <3>2 DEF Closure, NoDangling, RegistersLive, Live
  <2>3. CASE Push
    <3>1. StackLive'
      BY <2>3, <2>a, <2>k DEF Push, StackLive, TypeOK, Live
    <3> QED BY <2>3, <3>1, <2>g, <2>j, <2>k DEF Push
  <2>4. CASE PushMark
    <3>1. StackLive'
      BY <2>4, <2>a, <2>0 DEF PushMark, StackLive, TypeOK, Live
    <3> QED BY <2>4, <3>1, <2>g, <2>j, <2>k DEF PushMark
  <2>5. CASE Let
    <3>1. rsp \in 0..RspMax - 1
      BY <2>5, <2>e DEF Let, Defined, TypeOK
    <3>2. SlotsLive'
      BY <2>5, <3>1, <2>a, <2>k, SlotWriteLive DEF Let
    <3> QED BY <2>5, <3>2, <2>g, <2>j, <2>k DEF Let
  <2>6. CASE EndLet
    <3>1. CASE extra > 0
      BY <2>6, <3>1, <2>g, <2>j, <2>k DEF EndLet
    <3>2. CASE extra = 0
      <4> DEFINE n == Len(Fields(env)) - 1
      <4>1. HasField(env, 1) /\ Fields(env) \in Seq(Value)
        BY <2>6, <3>2 DEF EndLet, Defined, HasField, IsObj, Fields, Object, TypeOK
      <4>2. \A i \in DOMAIN Fields(env) : Live(Fields(env)[i])
        BY <4>1, <2>a DEF HeapLive, HasField, IsObj, Fields
      <4>3. ASSUME NEW f \in 0..RspMax - 1
            PROVE  Live(rslots'[f].env)
        <5>1. CASE f \in Seg(n)
          <6>1. f - rsp + 2 \in DOMAIN Fields(env)
            BY <5>1, <4>1, <2>e DEF Seg
          <6>2. rslots'[f] = [rslots[f] EXCEPT !.env = Fields(env)[f - rsp + 2]]
            BY <2>6, <3>2, <5>1 DEF EndLet, Spill
          <6>3. rslots'[f].env = Fields(env)[f - rsp + 2]
            BY <6>2 DEF TypeOK, Slot
          <6> QED BY <6>1, <6>3, <4>2
        <5>2. CASE f \notin Seg(n)
          BY <2>6, <3>2, <5>2, <2>c DEF EndLet, Spill
        <5> QED BY <5>1, <5>2
      <4>4. SlotsLive'
        BY <2>6, <3>2, <4>3 DEF EndLet, Spill, SlotsLive, Live
      <4> QED BY <2>6, <3>2, <4>4, <2>g, <2>j, <2>k DEF EndLet, Spill
    <3> QED BY <3>1, <3>2, <2>e
  <2>7. CASE SetGlobal
    <3>1. GlobalsLive'
      BY <2>7, <2>a, <2>k DEF SetGlobal, GlobalsLive, Live, TypeOK
    <3> QED BY <2>7, <3>1, <2>f, <2>g, <2>k
            DEF SetGlobal, NoDangling, RegistersLive, Live
  <2>8. CASE GetGlobal
    <3>1. Live(accum')
      BY <2>8, <2>a DEF GetGlobal, Defined, GlobalsLive
    <3> QED BY <2>8, <3>1, <2>g, <2>j, <2>k DEF GetGlobal
  <2>9. CASE GrabPartial
    <3>1. IsObj(env) /\ extra < rsp /\ astack # <<>> /\ Next1 \in Int
      BY <2>9, InstrType DEF GrabPartial, Defined, AtMark
    <3>2. /\ HeapLive' /\ \A o : Live(o) => LiveIn(o, Len(heap'))
          /\ LiveIn(accum', Len(heap'))
      <4>1. FullEnv \in Seq(Value) /\ \A i \in DOMAIN FullEnv : Live(FullEnv[i])
        BY <3>1, <2>a, <2>e, FullEnvType, FullEnvLive
      <4>2. "clo" \in Kinds
        BY DEF Kinds
      <4> QED BY <2>9, <2>a, <3>1, <4>1, <4>2, CaptureLive DEF GrabPartial
    <3>3. Live(env') /\ StackLive'
      <4>1. rsp - extra - 1 \in 0..RspMax - 1
        BY <3>1, <2>e
      <4> QED BY <2>9, <3>1, <3>2, <4>1, <2>c, <2>d
              DEF GrabPartial, Restore, StackLive, Live
    <3> QED BY <2>9, <2>h, <2>k, <3>2, <3>3
            DEF GrabPartial, NoDangling, RegistersLive, Live
  <2>10. CASE GrabArg
    <3>1. rsp \in 0..RspMax - 1 /\ astack # <<>>
      BY <2>10, <2>e DEF GrabArg, Defined, TypeOK
    <3>2. SlotsLive' /\ StackLive'
      BY <2>10, <3>1, <2>a, <2>d, <2>i, SlotWriteLive DEF GrabArg
    <3> QED BY <2>10, <3>2, <2>j, <2>k DEF GrabArg
  <2>11. CASE Apply
    <3>1. rsp + 2 <= RspMax /\ astack # <<>>
      BY <2>11 DEF Apply, Defined
    <3>2. SlotsLive'
      <4>1. ASSUME NEW f \in 0..RspMax - 1
            PROVE  \/ rslots'[f].env = env \/ rslots'[f].env = Top
                   \/ rslots'[f].env = rslots[f].env
        BY <2>11, <3>1, <2>e DEF Apply, TypeOK, Slot
      <4> QED BY <2>11, <3>1, <4>1, <2>c, <2>d, <2>k DEF Apply, SlotsLive, TypeOK, Live
    <3>3. StackLive' /\ Live(env')
      BY <2>11, <3>1, <2>b, <2>i DEF Apply, Enter
    <3> QED BY <2>11, <3>2, <3>3, <2>j, <2>k DEF Apply
  <2>12. CASE AppTerm
    <3>1. rsp - extra \in 0..RspMax - 1 /\ astack # <<>>
      BY <2>12, <2>e DEF AppTerm, Defined, TypeOK
    <3>2. SlotsLive' /\ StackLive' /\ Live(env')
      BY <2>12, <3>1, <2>a, <2>b, <2>d, <2>i, SlotWriteLive DEF AppTerm, Enter
    <3> QED BY <2>12, <3>2, <2>j, <2>k DEF AppTerm
  <2>13. CASE Access
    <3>1. Live(accum')
      <4>1. CASE Arg < extra
        <5>1. rsp - 1 - Arg \in 0..RspMax - 1
          BY <2>13, <4>1, <2>e, InstrType DEF Access, Defined
        <5> QED BY <2>13, <4>1, <5>1, <2>c DEF Access
      <4>2. CASE ~(Arg < extra)
        BY <2>13, <4>2, <2>b DEF Access
      <4> QED BY <4>1, <4>2
    <3> QED BY <2>13, <3>1, <2>g, <2>j, <2>k DEF Access
  <2>14. CASE MkB
    <3> DEFINE fields == SubSeq(astack, Len(astack) - Arg + 1, Len(astack))
               rest == SubSeq(astack, 1, Len(astack) - Arg)
    <3>1. Arg \in 0..Len(astack)
      BY <2>14 DEF MkB, Defined
    <3>2. /\ fields \in Seq(Value) /\ \A i \in DOMAIN fields : Live(fields[i])
          /\ \A i \in DOMAIN rest : Live(rest[i])
      <4>1. astack \in Seq(Value) /\ Arg \in Nat /\ Arg <= Len(astack)
        BY <3>1 DEF TypeOK
      <4>2. fields \in Seq(Value) /\ Len(fields) = Arg
            /\ \A i \in 1..Arg : fields[i] = astack[Len(astack) - Arg + i]
        BY <4>1
      <4>3. \A i \in 1..Len(astack) - Arg : rest[i] = astack[i]
        BY <4>1
      <4>4. Len(rest) = Len(astack) - Arg /\ rest \in Seq(Value)
        BY <4>1
      <4>5. \A i \in 1..Len(astack) : Live(astack[i])
        BY <2>a DEF StackLive, TypeOK
      <4>6. ASSUME NEW i \in DOMAIN fields PROVE Live(fields[i])
        <5>1. i \in 1..Arg /\ Len(astack) - Arg + i \in 1..Len(astack)
          BY <4>1, <4>2
        <5> QED BY <5>1, <4>2, <4>5
      <4>7. ASSUME NEW i \in DOMAIN rest PROVE Live(rest[i])
        <5>1. i \in 1..Len(astack) - Arg /\ i \in 1..Len(astack)
          BY <4>1, <4>4
        <5> QED BY <5>1, <4>3, <4>5
      <4> QED BY <4>2, <4>6, <4>7
    <3>3. /\ HeapLive' /\ \A o : Live(o) => LiveIn(o, Len(heap'))
          /\ LiveIn(accum', Len(heap'))
      <4>1. "tuple" \in Kinds
        BY DEF Kinds
      <4> QED BY <2>14, <3>2, <4>1, <2>a, AllocLive DEF MkB
    <3>4. StackLive'
      BY <2>14, <3>2, <3>3 DEF MkB, StackLive, Live
    <3> QED BY <2>14, <3>3, <3>4, <2>h, <2>k DEF MkB, NoDangling, RegistersLive, Live
  <2>15. CASE ReturnToClient
    <3>1. HandlesLive'
      BY <2>15, <2>a, <2>k DEF ReturnToClient, HandlesLive, Live, TypeOK
    <3> QED BY <2>15, <3>1, <2>f, <2>g, <2>k
            DEF ReturnToClient, NoDangling, RegistersLive, Live
  <2>16. CASE ReturnToFrame
    <3>1. extra < rsp /\ astack # <<>>
      BY <2>16 DEF ReturnToFrame, Defined, AtMark
    <3>2. rsp - extra - 1 \in 0..RspMax - 1
      BY <3>1, <2>e
    <3> QED BY <2>16, <3>1, <3>2, <2>c, <2>g, <2>i, <2>j, <2>k
            DEF ReturnToFrame, Restore
  <2>17. CASE ReturnToArg
    <3>1. rsp - extra + 1 \in 0..RspMax - 1 /\ astack # <<>>
      BY <2>17, <2>e DEF ReturnToArg, Defined, TypeOK
    <3>2. SlotsLive' /\ StackLive' /\ Live(env')
      BY <2>17, <3>1, <2>a, <2>b, <2>d, <2>i, SlotWriteLive DEF ReturnToArg, Enter
    <3> QED BY <2>17, <3>2, <2>j, <2>k DEF ReturnToArg
  <2>18. CASE Fault
    BY <2>18, <2>g, <2>j, <2>k DEF Fault
  <2>19. CASE \E s \in Syms : Register(s)
    <3>1. PICK s \in Syms : Register(s)
      BY <2>19
    <3>2. GlobalsLive'
      BY <3>1, <2>a, <2>0 DEF Register, GlobalsLive, Live
    <3> QED BY <3>1, <3>2, <2>f, <2>g, <2>k
            DEF Register, locals, NoDangling, RegistersLive, Live
  <2>20. CASE Generate
    <3>1. PICK chunk \in Chunks : Place(chunk)
      BY <2>20 DEF Generate
    <3>2. /\ HeapLive' /\ \A o : Live(o) => LiveIn(o, Len(heap'))
          /\ LiveIn(Ref("clo", Len(heap) + 1), Len(heap'))
      <4>1. "env" \in Kinds /\ <<>> \in Seq(Value) /\ Len(code) \in Int
        BY DEF Kinds, TypeOK
      <4>2. \A i \in DOMAIN <<>> : Live(<<>>[i])
        OBVIOUS
      <4> QED BY <3>1, <4>1, <4>2, <2>a, CaptureLive DEF Place
    <3>3. HandlesLive'
      BY <3>1, <3>2, <2>a DEF Place, HandlesLive, Live, TypeOK
    <3> QED BY <3>1, <3>2, <3>3, <2>h, <2>k
            DEF Place, locals, NoDangling, RegistersLive, Live
  <2>21. CASE \E h \in DOMAIN handles : Eval(h)
    <3>1. PICK h \in DOMAIN handles : Eval(h)
      BY <2>21
    <3>2. /\ HeapLive' /\ \A o : Live(o) => LiveIn(o, Len(heap'))
          /\ LiveIn(Ref("env", Len(heap) + 1), Len(heap'))
      <4>1. "env" \in Kinds /\ <<>> \in Seq(Value)
        BY DEF Kinds
      <4>2. \A i \in DOMAIN <<>> : Live(<<>>[i])
        OBVIOUS
      <4> QED BY <3>1, <4>1, <4>2, <2>a, AllocLive DEF Eval
    <3>3. HandlesLive'
      BY <3>1, <3>2, <2>0, <2>a DEF Eval, HandlesLive, Live, TypeOK
    <3>4. StackLive' /\ SlotsLive' /\ Live(env')
      BY <3>1, <3>2, <2>0, <2>b DEF Eval, StackLive, SlotsLive, Live, LiveIn, Undef, Kinds
    <3>5. RegistersLive'
      BY <3>1, <3>2, <2>0, <2>b DEF Eval, RegistersLive, Live
    <3> QED BY <3>1, <3>2, <3>3, <3>4, <3>5, <2>h DEF Eval, NoDangling
  <2>22. CASE UNCHANGED vars
    BY <2>22, <2>g, <2>j, <2>k DEF vars
  <2> QED BY <2>1, <2>2, <2>3, <2>4, <2>5, <2>6, <2>7, <2>8, <2>9, <2>10,
             <2>11, <2>12, <2>13, <2>14, <2>15, <2>16, <2>17, <2>18, <2>19,
             <2>20, <2>21, <2>22 DEF Next, Step
<1> QED BY <1>1, <1>2, TypeCorrect, PTL DEF Spec

-----------------------------------------------------------------------------
(* The variables in scope: the action properties of ZincVM as theorems.    *)

\* The object env_empty of wist_vm_interpret has no fields while code runs.
EmptyEnvOK ==
  status = "running" =>
    emptyEnv.t = "env" /\ emptyEnv.v \in DOMAIN heap /\ heap[emptyEnv.v] = <<>>

\* No step changes an object the heap holds: objects are only added.
LEMMA HeapOnlyGrows ==
  ASSUME TypeOK, [Next]_vars
  PROVE  \A a \in DOMAIN heap : a \in DOMAIN heap' /\ heap'[a] = heap[a]
<1>0. heap \in Seq(Object)
  BY DEF TypeOK
<1>1. CASE UNCHANGED heap
  BY <1>1
<1>2. ASSUME NEW o, NEW p, heap' = heap \o <<o, p>>
      PROVE  \A a \in DOMAIN heap : a \in DOMAIN heap' /\ heap'[a] = heap[a]
  BY <1>0, <1>2
<1>3. ASSUME NEW o, heap' = Append(heap, o)
      PROVE  \A a \in DOMAIN heap : a \in DOMAIN heap' /\ heap'[a] = heap[a]
  BY <1>0, <1>3
<1>4. CASE Closure \/ GrabPartial \/ \E chunk \in Chunks : Place(chunk)
  BY <1>4, <1>2 DEF Closure, GrabPartial, Place
<1>5. CASE MkB \/ \E h \in DOMAIN handles : Eval(h)
  BY <1>5, <1>3 DEF MkB, Eval
<1> QED BY <1>1, <1>4, <1>5
        DEF Next, Step, Generate, vars, store, Int64, Push, PushMark, Let, EndLet,
            SetGlobal, GetGlobal, GrabArg, Apply, AppTerm, Access, ReturnToClient,
            ReturnToFrame, ReturnToArg, Fault, Register

\* The initial empty environment survives every step of the running code.
LEMMA EmptyEnvStays == Spec => [](TypeOK /\ EmptyEnvOK)
<1>1. Init => EmptyEnvOK
  BY DEF Init, EmptyEnvOK
<1>2. TypeOK /\ EmptyEnvOK /\ [Next]_vars => EmptyEnvOK'
  <2> SUFFICES ASSUME TypeOK, EmptyEnvOK, [Next]_vars PROVE EmptyEnvOK'
    OBVIOUS
  <2>1. CASE \E h \in DOMAIN handles : Eval(h)
    <3>1. heap \in Seq(Object)
      BY DEF TypeOK
    <3>2. heap' = Append(heap, <<>>) /\ emptyEnv' = Ref("env", Len(heap) + 1)
      BY <2>1 DEF Eval
    <3> QED BY <3>1, <3>2 DEF EmptyEnvOK, Ref
  <2>2. CASE ~(\E h \in DOMAIN handles : Eval(h))
    <3>1. UNCHANGED emptyEnv /\ (status' = "running" => status = "running")
      BY <2>2 DEF Next, Step, Generate, Place, vars, store, locals, Int64, Closure,
                  Push, PushMark, Let, EndLet, SetGlobal, GetGlobal, GrabPartial,
                  GrabArg, Apply, AppTerm, Access, MkB, ReturnToClient,
                  ReturnToFrame, ReturnToArg, Fault, Register
    <3> QED BY <3>1, HeapOnlyGrows DEF EmptyEnvOK
  <2> QED BY <2>1, <2>2
<1> QED BY <1>1, <1>2, TypeCorrect, PTL DEF Spec

-----------------------------------------------------------------------------
\* ClosureKeepsScope holds of the interpreter running any code: capturing the
\* variables in the heap leaves the code that goes on with all of them.
THEOREM ClosureScope == Spec => ClosureKeepsScope
<1>1. TypeOK /\ Closure => FullEnv' = FullEnv
  <2> SUFFICES ASSUME TypeOK, Closure PROVE FullEnv' = FullEnv
    OBVIOUS
  <2>1. IsObj(env) /\ extra <= rsp
    BY DEF Closure, Fetch, Defined, Executing
  <2>2. FullEnv \in Seq(Value) /\ heap \in Seq(Object) /\ Len(heap) \in Nat
    BY <2>1, FullEnvType DEF TypeOK
  <2>3. extra' = 0 /\ env' = Ref("env", Len(heap) + 2)
    BY DEF Closure
  <2>4. heap'[Len(heap) + 2] = FullEnv
    BY <2>2 DEF Closure
  <2>5. Fields(env)' = FullEnv
    BY <2>3, <2>4 DEF Fields, Ref
  <2>6. Extras' = <<>>
    BY <2>3 DEF Extras
  <2> HIDE DEF FullEnv
  <2>7. FullEnv' = <<>> \o Fields(env)'
    BY <2>6 DEF FullEnv
  <2> QED BY <2>2, <2>5, <2>7
<1>2. TypeOK /\ [Next]_vars => [Closure => FullEnv' = FullEnv]_vars
  BY <1>1
<1> QED BY <1>2, TypeCorrect, PTL DEF Spec, ClosureKeepsScope

\* Dropping the first element of a sequence that another one follows.
LEMMA TailOfConcat ==
  ASSUME NEW S, NEW d \in Seq(S), NEW e \in Seq(S), NEW f \in Seq(S),
         Len(e) = Len(d) + 1, \A i \in 1..Len(d) : d[i] = e[i + 1]
  PROVE  d \o f = Tail(e \o f)
<1>0. Len(d) \in Nat /\ Len(e) \in Nat /\ Len(f) \in Nat
  BY LenProperties
<1>1. /\ e \o f \in Seq(S) /\ Len(e \o f) = Len(e) + Len(f)
      /\ \A i \in 1..Len(e) + Len(f) :
           (e \o f)[i] = IF i <= Len(e) THEN e[i] ELSE f[i - Len(e)]
  BY ConcatProperties, Zenon
<1>2. /\ d \o f \in Seq(S) /\ Len(d \o f) = Len(d) + Len(f)
      /\ \A i \in 1..Len(d) + Len(f) :
           (d \o f)[i] = IF i <= Len(d) THEN d[i] ELSE f[i - Len(d)]
  BY ConcatProperties, Zenon
<1>3. e \o f # <<>>
  BY <1>0, <1>1, EmptySeq
<1>4. /\ Tail(e \o f) \in Seq(S) /\ Len(Tail(e \o f)) = Len(e \o f) - 1
      /\ \A i \in 1..Len(Tail(e \o f)) : Tail(e \o f)[i] = (e \o f)[i + 1]
  BY <1>1, <1>3, HeadTailProperties, Zenon
<1>5. Len(Tail(e \o f)) = Len(d \o f)
  BY <1>0, <1>1, <1>2, <1>4
<1>6. ASSUME NEW i \in 1..Len(d \o f)
      PROVE  (d \o f)[i] = Tail(e \o f)[i]
  <2>1. i \in Nat /\ i + 1 \in 1..Len(e) + Len(f) /\ i \in 1..Len(d) + Len(f)
    BY <1>0, <1>2
  <2>2. Tail(e \o f)[i] = (e \o f)[i + 1]
    BY <1>4, <1>5
  <2>3. CASE i <= Len(d)
    BY <1>0, <1>1, <1>2, <2>1, <2>2, <2>3
  <2>4. CASE ~(i <= Len(d))
    <3>1. i + 1 - Len(e) = i - Len(d) /\ ~(i + 1 <= Len(e))
      BY <1>0, <2>1, <2>4
    <3>2. (e \o f)[i + 1] = f[i + 1 - Len(e)] /\ (d \o f)[i] = f[i - Len(d)]
      BY <1>1, <1>2, <2>1, <2>4, <3>1
    <3> QED BY <2>2, <3>1, <3>2
  <2> QED BY <2>3, <2>4
<1> QED BY <1>2, <1>4, <1>5, <1>6, SeqEqual, Zenon

\* Dropping the newest extra argument drops the innermost variable.
LEMMA DropsExtra ==
  ASSUME TypeOK, HasScope, extra > 0, EndLet
  PROVE  FullEnv' = Tail(FullEnv)
<1>1. /\ rsp' = rsp - 1 /\ extra' = extra - 1 /\ UNCHANGED <<rslots, env, heap>>
      /\ extra \in Nat /\ rsp \in Nat
  BY SizesAssumption DEF EndLet, store, TypeOK
<1>2. Fields(env)' = Fields(env) /\ Fields(env) \in Seq(Value)
  BY <1>1 DEF Fields, HasScope, IsObj, TypeOK, Object
<1> DEFINE V == {rslots[rsp - i].env : i \in 1..extra}
           E == [i \in 1..extra |-> rslots[rsp - i].env]
           D == [i \in 1..extra - 1 |-> rslots[rsp - 1 - i].env]
<1>3. Extras = E /\ Extras' = D
  BY <1>1 DEF Extras
<1>4. E \in Seq(V) /\ Len(E) = extra
  <2>1. E \in [1..extra -> V] /\ extra \in Nat
    BY <1>1
  <2> HIDE DEF E, V
  <2>2. E \in Seq(V)
    BY <2>1, SeqDef
  <2>3. DOMAIN E = 1..extra
    BY <2>1
  <2> QED BY <2>1, <2>2, <2>3, LenProperties
<1>5. D \in Seq(V) /\ Len(D) = extra - 1
  <2>1. ASSUME NEW i \in 1..extra - 1 PROVE rslots[rsp - 1 - i].env \in V
    <3>1. i + 1 \in 1..extra /\ rsp - 1 - i = rsp - (i + 1)
      BY <1>1
    <3> QED BY <3>1
  <2>2. D \in [1..extra - 1 -> V]
    BY <2>1
  <2>3. extra - 1 \in Nat
    BY <1>1
  <2> HIDE DEF D, V
  <2>4. D \in Seq(V)
    BY <2>2, <2>3, SeqDef
  <2>5. DOMAIN D = 1..extra - 1
    BY <2>2
  <2> QED BY <2>3, <2>4, <2>5, LenProperties
<1>6. ASSUME NEW i \in 1..extra - 1 PROVE D[i] = E[i + 1]
  BY <1>1
<1>7. FullEnv = E \o Fields(env) /\ FullEnv' = D \o Fields(env)
  BY <1>2, <1>3 DEF FullEnv
<1> HIDE DEF E, D
<1> DEFINE S == V \cup Value
           F == Fields(env)
<1>8. E \in Seq(S) /\ D \in Seq(S) /\ F \in Seq(S)
  BY <1>2, <1>4, <1>5
<1> HIDE DEF F, S
<1>9. D \o F = Tail(E \o F)
  <2>1. Len(E) = Len(D) + 1
    BY <1>1, <1>4, <1>5
  <2>2. \A i \in 1..Len(D) : D[i] = E[i + 1]
    BY <1>5, <1>6
  <2> QED BY <2>1, <2>2, <1>8, TailOfConcat, Zenon
<1> QED BY <1>7, <1>9 DEF F

\* With one variable in the heap environment, or two, the spill drops it.
LEMMA SpillDrops ==
  ASSUME TypeOK, EmptyEnvOK, HasScope, extra = 0, EndLet, ~SpillsMany
  PROVE  FullEnv' = Tail(FullEnv)
<1> DEFINE F == Fields(env)
<1>1. /\ HasField(env, 1) /\ rsp + Len(F) - 1 <= RspMax /\ Executing("ENDLET")
      /\ status = "running" /\ Spill /\ UNCHANGED heap
  BY DEF EndLet, Fetch, Defined, Executing, store
<1>2. F \in Seq(Value) /\ Len(F) \in {1, 2} /\ rsp \in Nat /\ RspMax \in Nat
  <2>1. IsObj(env) /\ 1 \in DOMAIN F
    BY <1>1 DEF HasField
  <2>2. F \in Seq(Value)
    BY <2>1 DEF IsObj, Fields, Object, TypeOK
  <2>3. ~(Len(F) > 2)
    BY <1>1, <2>1 DEF SpillsMany
  <2>4. Len(F) \in {1, 2}
    <3>1. Len(F) \in Nat /\ 1 <= Len(F)
      BY <2>1, <2>2
    <3>2. \A n \in Nat : 1 <= n /\ ~(n > 2) => n \in {1, 2}
      OBVIOUS
    <3> QED BY <2>3, <3>1, <3>2, Zenon
  <2> QED BY <2>2, <2>4, SizesAssumption DEF TypeOK
<1>3. Fields(env)' = <<>> /\ rsp' = rsp + Len(F) - 1 /\ extra' = Len(F) - 1
  BY <1>1, <1>2 DEF Spill, EmptyEnvOK, Fields
<1>4. FullEnv = F
  <2>1. Extras = <<>>
    BY DEF Extras
  <2> QED BY <2>1, <1>2 DEF FullEnv
<1>5. CASE Len(F) = 1
  <2>1. Extras' = <<>>
    BY <1>3, <1>5 DEF Extras
  <2>2. FullEnv' = <<>>
    BY <1>3, <2>1 DEF FullEnv
  <2>3. Tail(F) = <<>>
    <3>1. F # <<>>
      BY <1>2, <1>5
    <3>2. Tail(F) \in Seq(Value) /\ Len(Tail(F)) = 0
      BY <1>2, <1>5, <3>1, HeadTailProperties
    <3> QED BY <3>2, EmptySeq
  <2> QED BY <1>4, <2>2, <2>3
<1>6. CASE Len(F) = 2
  <2>1. rslots'[rsp].env = F[2]
    <3>1. rsp \in 0..RspMax - 1 /\ rsp \in Seg(1) /\ rsp - rsp + 2 = 2
      BY <1>1, <1>2, <1>6 DEF Seg
    <3>2. rslots'[rsp] = [rslots[rsp] EXCEPT !.env = F[2]]
      BY <1>1, <1>6, <3>1 DEF Spill
    <3> QED BY <3>1, <3>2 DEF TypeOK, Slot
  <2>2. Extras' = <<F[2]>>
    <3>1. rsp' = rsp + 1 /\ extra' = 1 /\ rsp' - 1 = rsp
      BY <1>2, <1>3, <1>6
    <3>2. Extras' = [i \in 1..1 |-> rslots'[rsp' - i].env]
      BY <3>1 DEF Extras
    <3>3. Extras' = [i \in 1..1 |-> F[2]]
      BY <3>1, <3>2, <2>1
    <3> QED BY <3>3
  <2>3. FullEnv' = <<F[2]>>
    BY <1>2, <1>3, <1>6, <2>2 DEF FullEnv
  <2>4. Tail(F) = <<F[2]>>
    <3>1. F # <<>>
      BY <1>2, <1>6
    <3>2. Tail(F) \in Seq(Value) /\ Len(Tail(F)) = 1 /\ Tail(F)[1] = F[2]
      BY <1>2, <1>6, <3>1, HeadTailProperties
    <3>3. <<F[2]>> \in Seq(Value) /\ Len(<<F[2]>>) = 1 /\ <<F[2]>>[1] = F[2]
      BY <1>2, <1>6
    <3>4. \A i \in 1..1 : Tail(F)[i] = <<F[2]>>[i]
      BY <3>2, <3>3
    <3> QED BY <3>2, <3>3, <3>4, SeqEqual
  <2> QED BY <1>4, <2>3, <2>4
<1> QED BY <1>2, <1>5, <1>6

\* EndLetDropsInnermost holds of the interpreter running any code: apart from
\* the spill that loses the order, ENDLET ends one scope, the innermost.
THEOREM EndLetScope == Spec => EndLetDropsInnermost
<1>1. TypeOK /\ EmptyEnvOK /\ EndLet /\ HasScope /\ ~SpillsMany
        => FullEnv' = Tail(FullEnv)
  BY DropsExtra, SpillDrops DEF TypeOK
<1>2. TypeOK /\ EmptyEnvOK /\ [Next]_vars
        => [EndLet /\ HasScope /\ ~SpillsMany => FullEnv' = Tail(FullEnv)]_vars
  BY <1>1
<1> QED BY <1>2, EmptyEnvStays, PTL DEF Spec, EndLetDropsInnermost

-----------------------------------------------------------------------------
(* The history of the return frames.                                       *)

FramesTypeOK == frames \in Seq(Frame) /\ leftover \in BOOLEAN

\* With the history hidden, a step is a step of the interpreter.
LEMMA HistoryStep == [FNext]_frameVars => [Next]_vars
<1> SUFFICES ASSUME [FNext]_frameVars PROVE [Next]_vars
  OBVIOUS
<1>1. CASE FNext
  BY <1>1 DEF FNext, Saves, Restores, Starts, PassesOn, Others, Next, Step
<1>2. CASE UNCHANGED frameVars
  BY <1>2 DEF frameVars
<1> QED BY <1>1, <1>2

LEMMA HistoryIsHidden == FSpec => Spec
<1>1. FInit => Init
  BY DEF FInit
<1> QED BY <1>1, HistoryStep, PTL DEF FSpec, Spec

\* So the interpreter's state is typed along the history, too.
THEOREM HistoryTypeCorrect == FSpec => []TypeOK
BY HistoryIsHidden, TypeCorrect, PTL

\* The history's own variables: every saved frame is what a slot can hold.
LEMMA FrameType ==
  ASSUME FramesTypeOK, NEW k \in DOMAIN frames
  PROVE  /\ k \in 1..Len(frames) /\ Len(frames) \in Nat
         /\ frames[k].at \in Int /\ frames[k].saved \in Slot
         /\ frames[k].saved.extra \in Nat
<1>1. k \in 1..Len(frames) /\ Len(frames) \in Nat
  BY DEF FramesTypeOK
<1>2. frames[k] \in Frame
  BY <1>1 DEF FramesTypeOK
<1> QED BY <1>1, <1>2 DEF Frame, Slot

\* Where the base of the running code's arguments lies.
LEMMA BaseType ==
  ASSUME TypeOK, FramesTypeOK, Layout
  PROVE  CurBase \in Nat /\ CurBase <= rsp /\ rsp <= RspMax
<1>1. CurBase \in Nat
  <2>1. CASE Len(frames) = 0
    BY <2>1 DEF CurBase, Base
  <2>2. CASE Len(frames) # 0
    <3>1. Len(frames) \in DOMAIN frames
      BY <2>2 DEF FramesTypeOK
    <3>2. frames[Len(frames)].at \in Int /\ 0 <= frames[Len(frames)].at
      BY <3>1, FrameType DEF Layout
    <3> QED BY <2>2, <3>2 DEF CurBase, Base
  <2> QED BY <2>1, <2>2
<1> QED BY <1>1, SizesAssumption DEF Layout, TypeOK

\* A step that saves and restores nothing, keeps the slots below the running
\* code's arguments, and counts those arguments, keeps the frames.
LEMMA KeepsFrames ==
  ASSUME TypeOK, FramesTypeOK, Layout, Intact, UNCHANGED frames,
         rsp' = CurBase + extra',
         \A f \in 0..CurBase - 1 : rslots'[f] = rslots[f]
  PROVE  Layout' /\ Intact'
<1>1. CurBase' = CurBase /\ \A k \in Int : Base(k)' = Base(k)
  BY DEF CurBase, Base
<1>2. Layout'
  BY <1>1 DEF Layout, FramesTypeOK
<1>3. ASSUME NEW k \in DOMAIN frames
      PROVE  rslots'[frames[k].at] = frames[k].saved
  <2>1. frames[k].at \in 0..CurBase - 1
    BY BaseType, FrameType DEF Layout
  <2> QED BY <2>1 DEF Intact
<1> QED BY <1>2, <1>3 DEF Intact

-----------------------------------------------------------------------------
\* The frame a RETURN or a GRAB at a mark restores is the one saved last.
LEMMA RestoresFrames ==
  ASSUME TypeOK, FramesTypeOK, Layout, Intact, extra < rsp,
         Restore(rsp - extra - 1), frames' = Older, UNCHANGED rslots
  PROVE  Layout' /\ Intact'
<1> DEFINE n == Len(frames)
<1>1. n \in Nat \ {0} /\ n \in DOMAIN frames
  <2>1. n \in Nat /\ (n # 0 => n \in DOMAIN frames)
    BY DEF FramesTypeOK
  <2>2. n # 0
    BY DEF Layout, CurBase, Base, TypeOK
  <2> QED BY <2>1, <2>2
<1>2. frames[n].at = rsp - extra - 1
  <2>1. rsp = frames[n].at + 1 + extra
    BY <1>1 DEF Layout, CurBase, Base
  <2>2. frames[n].at \in Int
    BY <1>1, FrameType
  <2>3. rsp \in Int /\ extra \in Int
    BY DEF TypeOK
  <2> QED BY <2>1, <2>2, <2>3
<1>3. rslots[rsp - extra - 1] = frames[n].saved
  BY <1>1, <1>2 DEF Intact
<1>4. rsp' = frames[n].at /\ extra' = frames[n].saved.extra
  BY <1>2, <1>3 DEF Restore
<1>5. /\ Len(frames') = n - 1
      /\ \A k \in 1..n - 1 : frames'[k] = frames[k] /\ k \in DOMAIN frames
      /\ DOMAIN frames' = 1..n - 1
  <2>1. frames \in Seq(Frame) /\ 1 \in 1..n + 1 /\ n - 1 \in 1 - 1..n
    BY <1>1 DEF FramesTypeOK
  <2>2. frames' = SubSeq(frames, 1, n - 1)
    BY DEF Older
  <2>3. DOMAIN frames = 1..n
    BY <2>1
  <2> QED BY <2>1, <2>2, <2>3, <1>1
<1>6. \A k \in 0..n - 1 : Base(k)' = Base(k)
  BY <1>1, <1>5 DEF Base
<1>7. CurBase' = Base(n - 1)
  BY <1>1, <1>5, <1>6 DEF CurBase
<1>8. Layout'
  <2>1. rsp' = CurBase' + extra'
    BY <1>1, <1>4, <1>7 DEF Layout
  <2>2. ASSUME NEW k \in DOMAIN frames'
        PROVE  /\ 0 <= frames'[k].at /\ frames'[k].at < CurBase'
               /\ frames'[k].at = Base(k - 1)' + frames'[k].saved.extra
    <3>1. k \in 1..n - 1 /\ frames'[k] = frames[k] /\ k \in DOMAIN frames
      BY <2>2, <1>5
    <3>2. frames[k].at \in Int /\ frames[n - 1].at \in Int /\ n - 1 \in DOMAIN frames
      BY <3>1, <1>1, <1>5, FrameType
    <3>3. k < n - 1 => frames[k].at < frames[n - 1].at
      BY <3>1, <3>2 DEF Layout
    <3>4. CurBase' = frames[n - 1].at + 1
      BY <1>7, <3>1, <1>1 DEF Base
    <3>5. frames[k].at < CurBase'
      BY <3>1, <3>2, <3>3, <3>4, <1>1
    <3>6. Base(k - 1)' = Base(k - 1)
      BY <3>1, <1>1, <1>6
    <3>7. 0 <= frames[k].at /\ frames[k].at = Base(k - 1) + frames[k].saved.extra
      BY <3>1 DEF Layout
    <3> QED BY <3>1, <3>5, <3>6, <3>7
  <2>3. \A j, k \in DOMAIN frames' : j < k => frames'[j].at < frames'[k].at
    BY <1>5 DEF Layout
  <2> QED BY <2>1, <2>2, <2>3 DEF Layout
<1>9. Intact'
  BY <1>5 DEF Intact
<1> QED BY <1>8, <1>9

\* APPLY saves a frame on top of the arguments of the running code.
LEMMA SavesFrame ==
  ASSUME TypeOK, FramesTypeOK, Layout, Intact, Saves
  PROVE  Layout' /\ Intact'
<1> DEFINE n == Len(frames)
           new == [env |-> env, pc |-> Next1, extra |-> extra]
<1>1. n \in Nat /\ CurBase \in Nat /\ extra \in Nat /\ rsp = CurBase + extra
  BY BaseType DEF FramesTypeOK, TypeOK, Layout
<1>2. /\ frames' = Append(frames, [at |-> rsp, saved |-> new])
      /\ rsp' = rsp + 2 /\ extra' = 1 /\ rsp + 2 <= RspMax
      /\ rslots' = [rslots EXCEPT ![rsp] = new, ![rsp + 1].env = Top]
  BY DEF Saves, Apply, Fetch, Executing, Defined, Enter
<1>a. /\ rslots'[rsp] = new
      /\ \A f \in 0..rsp - 1 : rslots'[f] = rslots[f]
  <2>1. rsp \in 0..RspMax - 1 /\ rsp + 1 \in 0..RspMax - 1 /\ rsp # rsp + 1
    BY <1>1, <1>2, SizesAssumption
  <2>2. rslots \in [0..RspMax - 1 -> Slot]
    BY DEF TypeOK
  <2> HIDE DEF new
  <2>3. rslots'[rsp] = new
    BY <1>2, <2>1, <2>2
  <2>4. ASSUME NEW f \in 0..rsp - 1 PROVE rslots'[f] = rslots[f]
    <3>1. f \in 0..RspMax - 1 /\ f # rsp /\ f # rsp + 1
      BY <2>1, SizesAssumption
    <3> QED BY <3>1, <1>2, <2>2
  <2> QED BY <2>3, <2>4
<1>3. /\ Len(frames') = n + 1 /\ DOMAIN frames' = 1..n + 1
      /\ DOMAIN frames = 1..n
      /\ frames'[n + 1] = [at |-> rsp, saved |-> new]
      /\ \A k \in 1..n : frames'[k] = frames[k]
  BY <1>1, <1>2 DEF FramesTypeOK
<1>4. \A k \in 0..n : Base(k)' = Base(k)
  BY <1>1, <1>3 DEF Base
<1>5. CurBase' = rsp + 1
  BY <1>1, <1>3 DEF CurBase, Base
<1>6. ASSUME NEW k \in 1..n
      PROVE  /\ frames[k].at \in Int /\ 0 <= frames[k].at
             /\ frames[k].at < CurBase /\ frames[k].at < rsp
             /\ frames[k].at = Base(k - 1) + frames[k].saved.extra
  BY <1>1, <1>3, FrameType DEF Layout
<1>7. Layout'
  <2>1. rsp' = CurBase' + extra'
    BY <1>1, <1>2, <1>5
  <2>2. ASSUME NEW k \in 1..n + 1
        PROVE  /\ 0 <= frames'[k].at /\ frames'[k].at < CurBase'
               /\ frames'[k].at = Base(k - 1)' + frames'[k].saved.extra
    <3>1. CASE k = n + 1
      <4>1. Base(k - 1)' = CurBase
        BY <3>1, <1>1, <1>4 DEF CurBase
      <4> QED BY <3>1, <4>1, <1>1, <1>3, <1>5
    <3>2. CASE k \in 1..n
      <4>1. Base(k - 1)' = Base(k - 1)
        BY <3>2, <1>1, <1>4
      <4> QED BY <3>2, <4>1, <1>1, <1>3, <1>5, <1>6
    <3> QED BY <3>1, <3>2, <1>1
  <2>3. \A j, k \in 1..n + 1 : j < k => frames'[j].at < frames'[k].at
    <3> SUFFICES ASSUME NEW j \in 1..n + 1, NEW k \in 1..n + 1, j < k
                 PROVE  frames'[j].at < frames'[k].at
      OBVIOUS
    <3>1. CASE k = n + 1
      BY <3>1, <1>1, <1>3, <1>6
    <3>2. CASE k \in 1..n
      <4>1. j \in 1..n
        BY <3>2, <1>1
      <4>2. frames[j].at < frames[k].at
        BY <3>2, <4>1, <1>1, <1>3 DEF Layout
      <4> QED BY <3>2, <4>1, <4>2, <1>3
    <3> QED BY <3>1, <3>2, <1>1
  <2> QED BY <2>1, <2>2, <2>3, <1>3 DEF Layout
<1>8. Intact'
  <2> SUFFICES ASSUME NEW k \in 1..n + 1
               PROVE  rslots'[frames'[k].at] = frames'[k].saved
    BY <1>3 DEF Intact
  <2>1. CASE k = n + 1
    BY <2>1, <1>a, <1>3
  <2>2. CASE k \in 1..n
    <3>0. frames[k].at \in 0..rsp - 1
      BY <2>2, <1>1, <1>6
    <3>1. rslots'[frames[k].at] = rslots[frames[k].at]
      BY <3>0, <1>a
    <3> QED BY <2>2, <3>1, <1>3 DEF Intact
  <2> QED BY <2>1, <2>2, <1>1
<1> QED BY <1>7, <1>8

-----------------------------------------------------------------------------
\* FramesFound is inductive beside the types of the interpreter's state and of
\* the history.
LEMMA FramesStay == FSpec => [](FramesTypeOK /\ FramesFound)
<1>1. FInit => FramesTypeOK /\ FramesFound
  <2> SUFFICES ASSUME FInit PROVE FramesTypeOK /\ FramesFound
    OBVIOUS
  <2>1. frames = <<>> /\ leftover = FALSE /\ rsp = 0 /\ extra = 0
    BY DEF FInit, Init
  <2>2. Layout /\ Intact
    BY <2>1 DEF Layout, Intact, CurBase, Base
  <2>3. <<>> \in Seq(Frame)
    OBVIOUS
  <2> QED BY <2>1, <2>2, <2>3 DEF FramesTypeOK, FramesFound
<1>2. TypeOK /\ TypeOK' /\ FramesTypeOK /\ FramesFound /\ [FNext]_frameVars
        => FramesTypeOK' /\ FramesFound'
  <2> SUFFICES ASSUME TypeOK, TypeOK', FramesTypeOK, FramesFound, [FNext]_frameVars
               PROVE  FramesTypeOK' /\ FramesFound'
    OBVIOUS
  <2> USE DEF Fetch, Executing, FramesFound
  <2>a. ~leftover => CurBase \in Nat /\ CurBase <= rsp /\ rsp = CurBase + extra
    BY BaseType DEF Layout
  <2>b. RspMax \in Nat /\ rsp \in 0..RspMax /\ extra \in Nat
        /\ rslots \in [0..RspMax - 1 -> Slot] /\ leftover \in BOOLEAN
    BY SizesAssumption DEF TypeOK, FramesTypeOK
  <2>c. ASSUME UNCHANGED <<frames, leftover>>,
               ~leftover => rsp' = CurBase + extra',
               ~leftover => \A f \in 0..CurBase - 1 : rslots'[f] = rslots[f]
        PROVE  FramesTypeOK' /\ FramesFound'
    BY <2>c, KeepsFrames DEF FramesTypeOK
  <2>1. CASE Saves
    <3>1. FramesTypeOK'
      <4>1. [at |-> rsp, saved |-> [env |-> env, pc |-> Next1, extra |-> extra]]
              \in Frame
        <5>1. Next1 \in Int
          BY <2>1, InstrType DEF Saves, Apply
        <5>2. [env |-> env, pc |-> Next1, extra |-> extra] \in Slot
          BY <5>1 DEF Slot, TypeOK
        <5> QED BY <5>2, <2>b DEF Frame
      <4> QED BY <2>1, <4>1 DEF Saves, FramesTypeOK
    <3> QED BY <2>1, <3>1, SavesFrame DEF Saves
  <2>2. CASE Restores
    <3>1. /\ extra < rsp /\ Restore(rsp - extra - 1) /\ UNCHANGED rslots
          /\ frames' = Older /\ UNCHANGED leftover
      BY <2>2 DEF Restores, GrabPartial, ReturnToFrame, Defined
    <3>2. FramesTypeOK'
      BY <3>1 DEF Older, FramesTypeOK
    <3> QED BY <3>1, <3>2, RestoresFrames
  <2>3. CASE Starts
    <3>1. frames' = <<>> /\ leftover' = FALSE /\ rsp' = 0 /\ extra' = 0
      BY <2>3 DEF Starts, Eval
    <3>2. Layout' /\ Intact'
      BY <3>1 DEF Layout, Intact, CurBase, Base
    <3>3. <<>> \in Seq(Frame)
      OBVIOUS
    <3> QED BY <3>1, <3>2, <3>3 DEF FramesTypeOK
  <2>4. CASE PassesOn
    BY <2>4 DEF PassesOn, FramesTypeOK
  <2>5. CASE Others
    <3>1. UNCHANGED <<frames, leftover>>
      BY <2>5 DEF Others
    <3>2. CASE Closure
      BY <3>1, <3>2, <2>a, <2>b, <2>c DEF Closure
    <3>3. CASE Let
      <4>1. rsp < RspMax
        BY <3>3 DEF Let, Defined
      <4>2. ~leftover => \A f \in 0..CurBase - 1 : rslots'[f] = rslots[f]
        BY <3>3, <4>1, <2>a, <2>b DEF Let
      <4> QED BY <3>1, <3>3, <4>2, <2>a, <2>b, <2>c DEF Let
    <3>4. CASE EndLet
      <4>1. CASE extra > 0
        BY <3>1, <3>4, <4>1, <2>a, <2>b, <2>c DEF EndLet
      <4>2. CASE extra = 0
        <5> DEFINE m == Len(Fields(env)) - 1
        <5>1. Spill
          BY <3>4, <4>2 DEF EndLet
        <5>2. rsp' = rsp + m /\ extra' = m
          BY <5>1 DEF Spill
        <5>3. ASSUME ~leftover, NEW f \in 0..CurBase - 1
              PROVE  rslots'[f] = rslots[f]
          <6>1. f \in 0..RspMax - 1 /\ f \notin Seg(m)
            BY <5>3, <2>a, <2>b DEF Seg
          <6> QED BY <5>1, <6>1 DEF Spill
        <5> QED BY <3>1, <4>2, <5>2, <5>3, <2>a, <2>b, <2>c
      <4> QED BY <4>1, <4>2, <2>b
    <3>5. CASE GrabArg
      <4>1. rsp < RspMax
        BY <3>5 DEF GrabArg, Defined
      <4>2. ~leftover => \A f \in 0..CurBase - 1 : rslots'[f] = rslots[f]
        BY <3>5, <4>1, <2>a, <2>b DEF GrabArg
      <4> QED BY <3>1, <3>5, <4>2, <2>a, <2>b, <2>c DEF GrabArg
    <3>6. CASE AppTerm
      <4>1. rsp - extra < RspMax
        BY <3>6 DEF AppTerm, Defined
      <4>2. ~leftover => \A f \in 0..CurBase - 1 : rslots'[f] = rslots[f]
        BY <3>6, <4>1, <2>a, <2>b DEF AppTerm
      <4> QED BY <3>1, <3>6, <4>2, <2>a, <2>b, <2>c DEF AppTerm, Enter
    <3>7. CASE UNCHANGED <<rsp, extra, rslots>>
      BY <3>1, <3>7, <2>a, <2>c
    <3> QED BY <2>5, <3>2, <3>3, <3>4, <3>5, <3>6, <3>7
            DEF Others, Int64, Push, PushMark, SetGlobal, GetGlobal, Access, MkB,
                ReturnToClient, Fault, Register, Generate, Place, locals
  <2>6. CASE UNCHANGED frameVars
    BY <2>6, <2>a, <2>c DEF frameVars, vars
  <2> QED BY <2>1, <2>2, <2>3, <2>4, <2>5, <2>6 DEF FNext
<1> QED BY <1>1, <1>2, HistoryTypeCorrect, PTL DEF FSpec

\* FramesFound holds of the interpreter running any code: as long as no RETURN
\* has passed on a leftover argument, the frame that a RETURN or a GRAB takes
\* from the return stack is the one the matching APPLY put there, unchanged.
THEOREM FramesAreFound == FSpec => []FramesFound
BY FramesStay, PTL

-----------------------------------------------------------------------------
(* What the slots stand for: scopes.                                       *)

\* The heap of a step: objects are added and keep their fields.
HeapGrows == \A a \in DOMAIN heap : a \in DOMAIN heap' /\ heap'[a] = heap[a]

\* The fields of an object that is there do not change.
LEMMA ContentsStay ==
  ASSUME TypeOK, HeapGrows, NEW o, Live(o)
  PROVE  Contents(o)' = Contents(o)
BY DEF HeapGrows, Live, LiveIn, Contents, IsObj, Fields, TypeOK

LEMMA ContentsType ==
  ASSUME TypeOK, NEW o
  PROVE  Contents(o) \in Seq(Value) /\ Len(Contents(o)) \in Nat
<1>1. Contents(o) \in Seq(Value)
  BY DEF TypeOK, Contents, IsObj, Fields, Object
<1> QED BY <1>1, LenProperties

\* The variables of a scope: first the slots, then the fields.
IsScope(s, slots, top, n, fields) ==
  /\ s \in Seq(Value) /\ Len(s) = n + Len(fields)
  /\ \A i \in 1..n : s[i] = slots[top - i].env
  /\ \A j \in 1..Len(fields) : s[n + j] = fields[j]

LEMMA ScopeType ==
  ASSUME TypeOK, NEW top \in 0..RspMax, NEW n \in 0..top, NEW o
  PROVE  IsScope(ScopeAt(top, n, o), rslots, top, n, Contents(o))
<1> DEFINE E == [i \in 1..n |-> rslots[top - i].env]
           F == Contents(o)
<1>1. F \in Seq(Value) /\ Len(F) \in Nat /\ n \in Nat /\ RspMax \in Nat
  BY ContentsType, SizesAssumption
<1>2. E \in Seq(Value) /\ Len(E) = n
  <2>1. \A i \in 1..n : top - i \in 0..RspMax - 1
    BY <1>1
  <2>2. \A i \in 1..n : rslots[top - i].env \in Value
    BY <2>1, SlotType
  <2> QED BY <1>1, <2>2
<1>3. \A i \in 1..n : E[i] = rslots[top - i].env
  OBVIOUS
<1>4. ScopeAt(top, n, o) = E \o F
  BY DEF ScopeAt
<1> HIDE DEF E, F
<1>5. E \o F \in Seq(Value) /\ Len(E \o F) = n + Len(F)
  BY <1>1, <1>2
<1>6. /\ \A i \in 1..n : (E \o F)[i] = E[i]
      /\ \A j \in 1..Len(F) : (E \o F)[n + j] = F[j]
  BY <1>1, <1>2
<1>7. IsScope(E \o F, rslots, top, n, F)
  BY <1>3, <1>5, <1>6 DEF IsScope
<1> QED BY <1>4, <1>7 DEF F

\* The same as a formula about a state, for the next state too.
ScopesTyped ==
  TypeOK => \A top \in 0..RspMax : \A n \in 0..top : \A o :
    IsScope(ScopeAt(top, n, o), rslots, top, n, Contents(o))

LEMMA ScopesAreTyped == ScopesTyped'
<1>1. ScopesTyped
  BY ScopeType DEF ScopesTyped
<1> QED BY <1>1, PTL

LEMMA NextScopeType ==
  ASSUME TypeOK', NEW top \in 0..RspMax, NEW n \in 0..top, NEW o
  PROVE  IsScope(ScopeAt(top, n, o)', rslots', top, n, Contents(o)')
BY ScopesAreTyped DEF ScopesTyped

\* A scope whose slots are not written stays.
LEMMA ScopeStays ==
  ASSUME TypeOK, HeapGrows, NEW top \in Nat, NEW n \in 0..top, NEW o, Live(o),
         \A f \in top - n..top - 1 : rslots'[f].env = rslots[f].env
  PROVE  ScopeAt(top, n, o)' = ScopeAt(top, n, o)
<1>1. \A i \in 1..n : rslots'[top - i].env = rslots[top - i].env
  OBVIOUS
<1>2. [i \in 1..n |-> rslots'[top - i].env] = [i \in 1..n |-> rslots[top - i].env]
  BY <1>1
<1>3. Contents(o)' = Contents(o)
  BY ContentsStay
<1> QED BY <1>2, <1>3 DEF ScopeAt

\* Sequences that are given as functions: one more element, and one less.
LEMMA AppendIs ==
  ASSUME NEW N \in Nat, NEW s, s = [k \in 1..N |-> s[k]], NEW c
  PROVE  Append(s, c) = [k \in 1..N + 1 |-> IF k = N + 1 THEN c ELSE s[k]]
<1> DEFINE V == {s[k] : k \in 1..N} \cup {c}
           T == [k \in 1..N + 1 |-> IF k = N + 1 THEN c ELSE s[k]]
<1>1. s \in [1..N -> V] /\ c \in V
  OBVIOUS
<1>2. T \in [1..N + 1 -> V]
  OBVIOUS
<1>3. T[N + 1] = c /\ \A k \in 1..N : T[k] = s[k]
  OBVIOUS
<1> HIDE DEF V, T
<1>4. s \in Seq(V) /\ T \in Seq(V) /\ Len(s) = N /\ Len(T) = N + 1
  <2>1. N + 1 \in Nat
    OBVIOUS
  <2>2. s \in Seq(V) /\ T \in Seq(V)
    BY <1>1, <1>2, <2>1, SeqDef
  <2>3. DOMAIN s = 1..N /\ DOMAIN T = 1..N + 1
    BY <1>1, <1>2
  <2> QED BY <2>1, <2>2, <2>3, LenProperties
<1>5. /\ Append(s, c) \in Seq(V) /\ Len(Append(s, c)) = N + 1
      /\ Append(s, c)[N + 1] = c /\ \A k \in 1..N : Append(s, c)[k] = s[k]
  BY <1>1, <1>4
<1>6. ASSUME NEW k \in 1..Len(T) PROVE Append(s, c)[k] = T[k]
  <2>1. k \in 1..N \/ k = N + 1
    BY <1>4
  <2> QED BY <2>1, <1>3, <1>5
<1>7. Append(s, c) = T
  BY <1>4, <1>5, <1>6, SeqEqual, Zenon
<1> QED BY <1>7 DEF T

LEMMA FrontIs ==
  ASSUME NEW N \in Nat, N # 0, NEW s, s = [k \in 1..N |-> s[k]]
  PROVE  /\ SubSeq(s, 1, N - 1) = [k \in 1..N - 1 |-> s[k]]
         /\ Len(s) = N
<1> DEFINE V == {s[k] : k \in 1..N}
           T == [k \in 1..N - 1 |-> s[k]]
<1>1. s \in [1..N -> V] /\ T \in [1..N - 1 -> V] /\ \A k \in 1..N - 1 : T[k] = s[k]
  OBVIOUS
<1> HIDE DEF V, T
<1>2. s \in Seq(V) /\ T \in Seq(V) /\ Len(s) = N /\ Len(T) = N - 1 /\ N - 1 \in Nat
  <2>1. N - 1 \in Nat
    OBVIOUS
  <2>2. s \in Seq(V) /\ T \in Seq(V)
    BY <1>1, <2>1, SeqDef
  <2>3. DOMAIN s = 1..N /\ DOMAIN T = 1..N - 1
    BY <1>1
  <2> QED BY <2>1, <2>2, <2>3, LenProperties
<1>3. /\ SubSeq(s, 1, N - 1) \in Seq(V) /\ Len(SubSeq(s, 1, N - 1)) = N - 1
      /\ \A k \in 1..N - 1 : SubSeq(s, 1, N - 1)[k] = s[k]
  BY <1>2
<1>4. SubSeq(s, 1, N - 1) = T
  BY <1>1, <1>2, <1>3, SeqEqual
<1> QED BY <1>2, <1>4 DEF T

\* Two sequences of values with the same elements are the same.
LEMMA SameValues ==
  ASSUME NEW s \in Seq(Value), NEW t \in Seq(Value), Len(s) = Len(t),
         \A i \in 1..Len(s) : s[i] = t[i]
  PROVE  s = t
BY SeqEqual, Zenon

LEMMA ConsIs ==
  ASSUME NEW x \in Value, NEW s \in Seq(Value)
  PROVE  /\ <<x>> \o s \in Seq(Value) /\ Len(<<x>> \o s) = 1 + Len(s)
         /\ (<<x>> \o s)[1] = x
         /\ \A i \in 1..Len(s) : (<<x>> \o s)[i + 1] = s[i]
OBVIOUS

\* An object written above a scope's slots is a variable bound in it.
LEMMA ScopeBinds ==
  ASSUME TypeOK, TypeOK', HeapGrows, NEW top \in 0..RspMax - 1, NEW n \in 0..top,
         NEW o, Live(o), NEW x \in Value, rslots'[top].env = x,
         \A f \in top - n..top - 1 : rslots'[f].env = rslots[f].env
  PROVE  ScopeAt(top + 1, n + 1, o)' = <<x>> \o ScopeAt(top, n, o)
<1>0. RspMax \in Nat /\ top \in 0..RspMax /\ top + 1 \in 0..RspMax
      /\ n + 1 \in 0..top + 1 /\ n \in Nat
  BY SizesAssumption
<1>3. PICK m \in Nat, h \in Nat : m = n + 1 /\ h = top + 1
  BY <1>0
<1>a. IsScope(ScopeAt(top, n, o), rslots, top, n, Contents(o))
  BY <1>0, ScopeType
<1>b. IsScope(ScopeAt(h, m, o)', rslots', h, m, Contents(o)')
  <2>1. h \in 0..RspMax /\ m \in 0..h
    BY <1>0, <1>3
  <2> QED BY <2>1, NextScopeType
<1>c. Contents(o)' = Contents(o)
  BY ContentsStay
<1> DEFINE S == ScopeAt(top, n, o)
           T == ScopeAt(top + 1, n + 1, o)'
           F == Contents(o)
<1>5. F \in Seq(Value) /\ Len(F) \in Nat
  BY ContentsType
<1>d. T = ScopeAt(h, m, o)'
  BY <1>3
<1> HIDE DEF S, T, F
<1>1. /\ S \in Seq(Value) /\ Len(S) = n + Len(F)
      /\ \A i \in 1..n : S[i] = rslots[top - i].env
      /\ \A j \in 1..Len(F) : S[n + j] = F[j]
  BY <1>a DEF S, F, IsScope
<1>4. /\ T \in Seq(Value) /\ Len(T) = m + Len(F)
      /\ \A i \in 1..m : T[i] = rslots'[h - i].env
      /\ \A j \in 1..Len(F) : T[m + j] = F[j]
  BY <1>b, <1>c, <1>d DEF F, IsScope
<1>6. /\ <<x>> \o S \in Seq(Value) /\ Len(<<x>> \o S) = 1 + Len(S)
      /\ (<<x>> \o S)[1] = x
      /\ \A i \in 1..Len(S) : (<<x>> \o S)[i + 1] = S[i]
  <2>1. S \in Seq(Value)
    BY <1>1
  <2> HIDE DEF S
  <2> QED BY <2>1, ConsIs, Zenon
<1>7. ASSUME NEW i \in 1..Len(T)
      PROVE  T[i] = (<<x>> \o S)[i]
  <2>1. i \in 1..n + 1 + Len(F)
    BY <1>3, <1>4
  <2>2. CASE i = 1
    BY <2>2, <1>0, <1>3, <1>4, <1>6
  <2>3. CASE i \in 2..n + 1
    <3>1. i - 1 \in 1..n /\ i - 1 \in 1..Len(S) /\ (i - 1) + 1 = i /\ i \in 1..m
          /\ h - i = top - (i - 1) /\ top - (i - 1) \in top - n..top - 1
      BY <2>3, <1>0, <1>1, <1>3, <1>5
    <3>2. T[i] = rslots'[top - (i - 1)].env
      BY <3>1, <1>4
    <3>3. S[i - 1] = rslots[top - (i - 1)].env
      BY <3>1, <1>1
    <3>4. (<<x>> \o S)[i] = S[i - 1]
      BY <3>1, <1>6
    <3> QED BY <3>1, <3>2, <3>3, <3>4
  <2>4. CASE i > n + 1
    <3>1. i - m \in 1..Len(F) /\ i - 1 \in 1..Len(S) /\ (i - 1) + 1 = i
          /\ m + (i - m) = i /\ n + (i - m) = i - 1
      BY <2>1, <2>4, <1>0, <1>1, <1>3, <1>5
    <3>2. T[i] = F[i - m] /\ S[i - 1] = F[i - m]
      BY <3>1, <1>1, <1>4
    <3>3. (<<x>> \o S)[i] = S[i - 1]
      BY <3>1, <1>6
    <3> QED BY <3>2, <3>3
  <2>5. i = 1 \/ i \in 2..n + 1 \/ i > n + 1
    BY <2>1, <1>0, <1>5
  <2> QED BY <2>2, <2>3, <2>4, <2>5, Zenon
<1>8. Len(T) = Len(<<x>> \o S)
  BY <1>0, <1>1, <1>3, <1>4, <1>5, <1>6
<1>9. T = <<x>> \o S
  BY <1>4, <1>6, <1>7, <1>8, SameValues, Zenon
<1> QED BY <1>9 DEF S, T
\* Without the topmost slot a scope has lost its innermost variable.
LEMMA ScopeDrops ==
  ASSUME TypeOK, TypeOK', HeapGrows, NEW top \in 1..RspMax, NEW n \in 1..top,
         NEW o, Live(o),
         \A f \in top - n..top - 1 : rslots'[f].env = rslots[f].env
  PROVE  /\ ScopeAt(top - 1, n - 1, o)' = Tail(ScopeAt(top, n, o))
         /\ ScopeAt(top, n, o) # <<>>
<1>0. RspMax \in Nat /\ top \in 0..RspMax /\ top - 1 \in 0..RspMax
      /\ n - 1 \in 0..top - 1 /\ n \in 0..top /\ n \in Nat
  BY SizesAssumption
<1>1. PICK m \in Nat, h \in Nat : m = n - 1 /\ h = top - 1
  BY <1>0
<1>2. IsScope(ScopeAt(top, n, o), rslots, top, n, Contents(o))
  BY <1>0, ScopeType
<1>3. IsScope(ScopeAt(h, m, o)', rslots', h, m, Contents(o)')
  <2>1. h \in 0..RspMax /\ m \in 0..h
    BY <1>0, <1>1
  <2> QED BY <2>1, NextScopeType
<1>4. Contents(o)' = Contents(o)
  BY ContentsStay
<1> DEFINE S == ScopeAt(top, n, o)
           T == ScopeAt(top - 1, n - 1, o)'
           F == Contents(o)
<1>5. F \in Seq(Value) /\ Len(F) \in Nat
  BY ContentsType
<1>6. T = ScopeAt(h, m, o)'
  BY <1>1
<1> HIDE DEF S, T, F
<1>7. /\ S \in Seq(Value) /\ Len(S) = n + Len(F)
      /\ \A i \in 1..n : S[i] = rslots[top - i].env
      /\ \A j \in 1..Len(F) : S[n + j] = F[j]
  BY <1>2 DEF S, F, IsScope
<1>8. /\ T \in Seq(Value) /\ Len(T) = m + Len(F)
      /\ \A i \in 1..m : T[i] = rslots'[h - i].env
      /\ \A j \in 1..Len(F) : T[m + j] = F[j]
  BY <1>3, <1>4, <1>6 DEF F, IsScope
<1>9. S # <<>>
  BY <1>0, <1>5, <1>7
<1>10. /\ Tail(S) \in Seq(Value) /\ Len(Tail(S)) = Len(S) - 1
       /\ \A i \in 1..Len(S) - 1 : Tail(S)[i] = S[i + 1]
  BY <1>7, <1>9
<1>11. ASSUME NEW i \in 1..Len(T)
       PROVE  T[i] = Tail(S)[i]
  <2>1. i \in 1..n - 1 + Len(F)
    BY <1>1, <1>8
  <2>2. i \in 1..Len(S) - 1
    BY <2>1, <1>0, <1>5, <1>7
  <2>3. CASE i \in 1..n - 1
    <3>1. i \in 1..m /\ i + 1 \in 1..n /\ h - i = top - (i + 1)
          /\ top - (i + 1) \in top - n..top - 1
      BY <2>3, <1>0, <1>1
    <3>2. T[i] = rslots'[top - (i + 1)].env
      BY <3>1, <1>8
    <3>3. S[i + 1] = rslots[top - (i + 1)].env
      BY <3>1, <1>7
    <3> QED BY <2>2, <3>1, <3>2, <3>3, <1>10
  <2>4. CASE i > n - 1
    <3>1. i - m \in 1..Len(F) /\ m + (i - m) = i /\ n + (i - m) = i + 1
      BY <2>1, <2>4, <1>0, <1>1, <1>5
    <3>2. T[i] = F[i - m] /\ S[i + 1] = F[i - m]
      BY <3>1, <1>7, <1>8
    <3> QED BY <2>2, <3>2, <1>10
  <2>5. i \in 1..n - 1 \/ i > n - 1
    BY <2>1, <1>0, <1>5
  <2> QED BY <2>3, <2>4, <2>5, Zenon
<1>12. Len(T) = Len(Tail(S))
  BY <1>0, <1>1, <1>5, <1>7, <1>8, <1>10
<1>13. T = Tail(S)
  BY <1>8, <1>10, <1>11, <1>12, SameValues, Zenon
<1> QED BY <1>9, <1>13 DEF S, T

\* The fields behind the first, moved to the return stack, are a scope that has
\* them in reverse.
LEMMA ScopeSpills ==
  ASSUME TypeOK, TypeOK', NEW o, NEW e, Contents(e)' = <<>>,
         NEW low \in Nat, NEW n \in Nat, Len(Contents(o)) = n + 1, low + n <= RspMax,
         \A f \in low..low + n - 1 : rslots'[f].env = Contents(o)[f - low + 2]
  PROVE  ScopeAt(low + n, n, e)' = Machine!Reverse(Tail(Contents(o)))
<1>1. PICK h \in Nat : h = low + n
  OBVIOUS
<1>2. IsScope(ScopeAt(h, n, e)', rslots', h, n, Contents(e)')
  <2>1. h \in 0..RspMax /\ n \in 0..h
    BY <1>1, SizesAssumption
  <2> QED BY <2>1, NextScopeType
<1>3. Contents(o) \in Seq(Value)
  BY ContentsType
<1> DEFINE T == ScopeAt(low + n, n, e)'
           F == Contents(o)
<1>4. T = ScopeAt(h, n, e)'
  BY <1>1
<1> HIDE DEF T, F
<1>5. /\ T \in Seq(Value) /\ Len(T) = n
      /\ \A i \in 1..n : T[i] = rslots'[h - i].env
  BY <1>2, <1>4 DEF IsScope
<1>6. F \in Seq(Value) /\ Len(F) = n + 1
  BY <1>3 DEF F
<1>7. /\ Tail(F) \in Seq(Value) /\ Len(Tail(F)) = n
      /\ \A i \in 1..n : Tail(F)[i] = F[i + 1]
  BY <1>6
<1>8. /\ Machine!Reverse(Tail(F)) \in Seq(Value)
      /\ Len(Machine!Reverse(Tail(F))) = n
      /\ \A i \in 1..n : Machine!Reverse(Tail(F))[i] = F[n - i + 2]
  <2>1. \A i \in 1..n : n - i + 1 \in 1..n /\ (n - i + 1) + 1 = n - i + 2
    OBVIOUS
  <2>2. \A i \in 1..n : Tail(F)[n - i + 1] = F[n - i + 2] /\ Tail(F)[n - i + 1] \in Value
    BY <2>1, <1>7
  <2>3. Machine!Reverse(Tail(F)) = [i \in 1..n |-> Tail(F)[(n - i) + 1]]
    BY <1>7 DEF Machine!Reverse
  <2>4. Machine!Reverse(Tail(F)) \in Seq(Value) /\ Len(Machine!Reverse(Tail(F))) = n
    <3> DEFINE R == [i \in 1..n |-> Tail(F)[(n - i) + 1]]
    <3>1. R \in [1..n -> Value]
      BY <2>2
    <3>2. Machine!Reverse(Tail(F)) = R
      BY <2>3
    <3> HIDE DEF R
    <3>3. R \in Seq(Value) /\ Len(R) = n
      BY <3>1
    <3> QED BY <3>2, <3>3
  <2> QED BY <2>2, <2>3, <2>4
<1>9. ASSUME NEW i \in 1..Len(T)
      PROVE  T[i] = Machine!Reverse(Tail(F))[i]
  <2>1. i \in 1..n /\ h - i \in low..low + n - 1 /\ (h - i) - low + 2 = n - i + 2
    BY <1>1, <1>5
  <2>2. rslots'[h - i].env = F[(h - i) - low + 2]
    BY <2>1 DEF F
  <2> QED BY <2>1, <2>2, <1>5, <1>8
<1>10. T = Machine!Reverse(Tail(F))
  <2>1. Len(T) = Len(Machine!Reverse(Tail(F)))
    BY <1>5, <1>8
  <2> QED BY <2>1, <1>5, <1>8, <1>9, SameValues, Zenon
<1> QED BY <1>10 DEF T, F
-----------------------------------------------------------------------------
(* What the slots stand for: the running code and its callers.             *)

FramesInv == TypeOK /\ NoDangling /\ EmptyEnvOK /\ FramesTypeOK /\ FramesFound

\* Everything that is known of the states the interpreter can reach.
LEMMA FramesInvHolds == FSpec => []FramesInv
BY HistoryIsHidden, EmptyEnvStays, NothingDangles, FramesStay, PTL DEF FramesInv

\* Scope and Callers in terms of values that do not change with the state.
Mapped ==
  ~leftover =>
    /\ \A top, n, o : top = rsp /\ n = extra /\ o = env => Scope = ScopeAt(top, n, o)
    /\ DOMAIN Callers = DOMAIN frames
    /\ Callers = [k \in DOMAIN frames |-> Callers[k]]
    /\ \A k \in DOMAIN frames : \A f : f = frames[k] => Callers[k] = CallerOf(f)

LEMMA IsMapped == Mapped /\ Mapped'
<1>1. Mapped
  BY DEF Mapped, Scope, Callers
<1> QED BY <1>1, PTL

\* What the names of the abstract machine stand for.
LEMMA Names ==
  /\ Machine!Op = Op /\ Machine!Operand = Arg /\ Machine!After = Next1
  /\ Machine!AtMark = AtMark /\ Machine!Argument = Top /\ Machine!Taken = Pop
  /\ Machine!Undef = Undef /\ Machine!Mark = Mark
  /\ \A n : Machine!IntObj(n) = IntObj(n) /\ Machine!CodeIdx(n) = CodeIdx(n)
  /\ \A k, n : Machine!Ref(k, n) = Ref(k, n)
  /\ \A o : Machine!Contents(o) = Contents(o)
<1>1. Machine!Op = Op /\ Machine!Operand = Arg
  BY DEF Machine!Op, Op, Machine!Operand, Arg
<1>2. \A op : Machine!OperandBytes(op) = OperandBytes(op)
  BY DEF Machine!OperandBytes, OperandBytes
<1>3. Machine!After = Next1
  BY <1>1, <1>2 DEF Machine!After, Next1
<1>4. /\ Machine!AtMark = AtMark /\ Machine!Argument = Top /\ Machine!Taken = Pop
  BY DEF Machine!AtMark, AtMark, Top, Machine!Argument, Machine!Taken, Pop
<1>5. /\ Machine!Undef = Undef /\ Machine!Mark = Mark
      /\ \A n : Machine!IntObj(n) = IntObj(n) /\ Machine!CodeIdx(n) = CodeIdx(n)
      /\ \A k, n : Machine!Ref(k, n) = Ref(k, n)
  BY DEF Machine!Undef, Undef, Machine!Mark, Mark, Machine!IntObj, IntObj,
         Machine!CodeIdx, CodeIdx, Machine!Ref, Ref
<1>6. \A o : Machine!Contents(o) = Contents(o)
  BY DEF Machine!Contents, Contents, Machine!Kinds, Kinds, IsObj, Fields
<1> QED BY <1>1, <1>3, <1>4, <1>5, <1>6

\* Where a frame and the arguments of its code lie.
LEMMA FramePlace ==
  ASSUME FramesInv, ~leftover, NEW k \in DOMAIN frames
  PROVE  /\ frames[k].at \in 0..CurBase - 1 /\ CurBase \in Nat /\ CurBase <= rsp
         /\ frames[k].saved.extra \in 0..frames[k].at
         /\ Live(frames[k].saved.env)
<1>1. TypeOK /\ FramesTypeOK /\ Layout /\ Intact /\ SlotsLive
  BY DEF FramesInv, FramesFound, NoDangling
<1>2. CurBase \in Nat /\ CurBase <= rsp /\ rsp <= RspMax
  BY <1>1, BaseType
<1>3. /\ k \in 1..Len(frames) /\ Len(frames) \in Nat /\ frames[k].at \in Int
      /\ frames[k].saved.extra \in Nat
  BY <1>1, FrameType
<1>4. /\ 0 <= frames[k].at /\ frames[k].at < CurBase
      /\ frames[k].at = Base(k - 1) + frames[k].saved.extra
  BY <1>1 DEF Layout
<1>5. Base(k - 1) \in Nat
  <2>1. CASE k = 1
    BY <2>1 DEF Base
  <2>2. CASE k # 1
    <3>1. k - 1 \in DOMAIN frames
      BY <2>2, <1>1, <1>3 DEF FramesTypeOK
    <3>2. frames[k - 1].at \in Int /\ 0 <= frames[k - 1].at
      BY <3>1, <1>1, FrameType DEF Layout
    <3> QED BY <2>2, <3>2, <1>3 DEF Base
  <2> QED BY <2>1, <2>2
<1>6. frames[k].at \in 0..CurBase - 1 /\ frames[k].saved.extra \in 0..frames[k].at
  BY <1>2, <1>3, <1>4, <1>5
<1>7. Live(frames[k].saved.env)
  <2>1. frames[k].at \in DOMAIN rslots
    BY <1>1, <1>2, <1>6, SizesAssumption DEF TypeOK
  <2>2. rslots[frames[k].at] = frames[k].saved
    BY <1>1 DEF Intact
  <2> QED BY <2>1, <2>2, <1>1 DEF SlotsLive
<1> QED BY <1>2, <1>6, <1>7

\* A caller's variables stay while nothing is written below its frame.
LEMMA CallerStays ==
  ASSUME FramesInv, ~leftover, HeapGrows, NEW k \in DOMAIN frames, NEW f, f = frames[k],
         \A s \in 0..f.at - 1 : rslots'[s].env = rslots[s].env
  PROVE  CallerOf(f)' = CallerOf(f)
<1>1. f.at \in Nat /\ f.saved.extra \in 0..f.at /\ Live(f.saved.env)
  BY FramePlace
<1>2. PICK top, n, o : top = f.at /\ n = f.saved.extra /\ o = f.saved.env
  OBVIOUS
<1>3. ScopeAt(top, n, o)' = ScopeAt(top, n, o)
  <2>1. TypeOK /\ top \in Nat /\ n \in 0..top /\ Live(o)
    BY <1>1, <1>2 DEF FramesInv
  <2>2. \A s \in top - n..top - 1 : rslots'[s].env = rslots[s].env
    BY <2>1, <1>2
  <2> QED BY <2>1, <2>2, ScopeStays
<1>4. ScopeAt(f.at, f.saved.extra, f.saved.env)' = ScopeAt(f.at, f.saved.extra, f.saved.env)
  BY <1>2, <1>3
<1> QED BY <1>4 DEF CallerOf

\* All callers stay while nothing is written below the running code's arguments.
LEMMA CallersStay ==
  ASSUME FramesInv, ~leftover, ~leftover', HeapGrows, UNCHANGED frames,
         \A s \in 0..CurBase - 1 : rslots'[s].env = rslots[s].env
  PROVE  Callers' = Callers
<1>1. ASSUME NEW k \in DOMAIN frames PROVE Callers'[k] = Callers[k]
  <2>1. PICK f : f = frames[k] /\ f = frames'[k]
    OBVIOUS
  <2>2. \A s \in 0..f.at - 1 : rslots'[s].env = rslots[s].env
    BY <2>1, FramePlace
  <2>3. CallerOf(f)' = CallerOf(f)
    BY <2>1, <2>2, CallerStays
  <2> QED BY <2>1, <2>3, IsMapped DEF Mapped
<1> QED BY <1>1, IsMapped DEF Mapped
-----------------------------------------------------------------------------
(* Every step of the interpreter is one of the abstract machine.           *)

\* What the running code has in a state that keeps count.
LEMMA Running ==
  ASSUME FramesInv, ~leftover
  PROVE  /\ TypeOK /\ rsp \in 0..RspMax /\ RspMax \in Nat /\ extra \in 0..rsp
         /\ CurBase \in 0..rsp /\ rsp = CurBase + extra /\ rsp - extra = CurBase
         /\ Live(env) /\ Live(accum) /\ \A o, n : Live(Field(o, n))
         /\ Scope = ScopeAt(rsp, extra, env)
         /\ Len(heap) \in Nat
<1>1. TypeOK /\ FramesTypeOK /\ Layout /\ RegistersLive /\ HeapLive
  BY DEF FramesInv, FramesFound, NoDangling
<1>2. CurBase \in Nat /\ CurBase <= rsp /\ rsp <= RspMax
  BY <1>1, BaseType
<1>3. rsp = CurBase + extra /\ extra \in Nat /\ rsp \in 0..RspMax /\ RspMax \in Nat
  BY <1>1, SizesAssumption DEF Layout, TypeOK
<1>4. Scope = ScopeAt(rsp, extra, env)
  BY DEF Scope
<1>5. \A o, n : Live(Field(o, n))
  BY <1>1, FieldLive
<1>6. Len(heap) \in Nat
  BY <1>1 DEF TypeOK
<1> QED BY <1>1, <1>2, <1>3, <1>4, <1>5, <1>6 DEF RegistersLive

\* An instruction that leaves the return stack alone concerns no scope.
LEMMA StaysHere ==
  ASSUME FramesInv, ~leftover, ~leftover', HeapGrows,
         UNCHANGED <<frames, rsp, extra, env, rslots>>
  PROVE  Machine!Here
<1>1. PICK top, n, o : top = rsp /\ n = extra /\ o = env
  OBVIOUS
<1>2. ScopeAt(top, n, o)' = ScopeAt(top, n, o)
  <2>1. TypeOK /\ top \in Nat /\ n \in 0..top /\ Live(o)
    BY <1>1, Running
  <2> QED BY <2>1, ScopeStays
<1>3. Scope' = Scope
  BY <1>1, <1>2, IsMapped DEF Mapped
<1>4. Callers' = Callers
  BY CallersStay
<1> QED BY <1>3, <1>4 DEF Machine!Here

\* In the state after a step: the scope of the running code.
LEMMA NextScope ==
  ASSUME ~leftover', NEW top, NEW n, NEW o, top = rsp', n = extra', o = env'
  PROVE  Scope' = ScopeAt(top, n, o)'
BY IsMapped DEF Mapped

\* CLOSURE: the captured scope is the one the code goes on with.
LEMMA ClosureMaps ==
  ASSUME FramesInv, TypeOK', ~leftover, HeapGrows, Closure, UNCHANGED <<frames, leftover>>
  PROVE  Machine!Closure
<1>1. /\ IsObj(env) /\ status = "running" /\ pc + 1 \in DOMAIN code /\ Op = "CLOSURE"
      /\ pc' = Next1 + Arg
      /\ heap' = heap \o <<<<Ref("env", Len(heap) + 2), CodeIdx(Next1)>>, FullEnv>>
      /\ accum' = Ref("clo", Len(heap) + 1) /\ env' = Ref("env", Len(heap) + 2)
      /\ rsp' = rsp - extra /\ extra' = 0
      /\ UNCHANGED <<code, globals, handles, status, astack, rslots>>
  BY DEF Closure, Fetch, Executing, Defined, Goto
<1>2. Scope = FullEnv
  BY <1>1 DEF Scope, ScopeAt, Contents, FullEnv, Extras
<1>3. PICK top, o : top = rsp' /\ o = env'
  OBVIOUS
<1>4. Contents(o)' = FullEnv
  <2>1. FullEnv \in Seq(Value) /\ heap \in Seq(Object) /\ Len(heap) \in Nat
    BY <1>1, Running, FullEnvType DEF TypeOK
  <2>2. o.t \in Kinds /\ o.v = Len(heap) + 2
    BY <1>1, <1>3 DEF Ref, Kinds
  <2> HIDE DEF FullEnv
  <2>3. heap'[Len(heap) + 2] = FullEnv /\ Len(heap) + 2 \in DOMAIN heap'
    BY <2>1, <1>1
  <2> QED BY <2>2, <2>3 DEF Contents, IsObj, Fields
<1>5. Scope' = Scope
  <2>1. Scope' = ScopeAt(top, 0, o)'
    BY <1>1, <1>3, NextScope
  <2>2. FullEnv \in Seq(Value)
    BY <1>1, Running, FullEnvType
  <2>3. [i \in 1..0 |-> rslots'[top - i].env] = <<>>
    OBVIOUS
  <2>4. ScopeAt(top, 0, o)' = <<>> \o FullEnv
    BY <1>4, <2>3 DEF ScopeAt
  <2> QED BY <2>1, <2>2, <2>4, <1>2
<1>6. Callers' = Callers
  BY <1>1, CallersStay
<1>7. Machine!Captures("env", Machine!After)
  BY <1>1, <1>2, Names DEF Machine!Captures
<1> QED BY <1>1, <1>5, <1>6, <1>7, Names DEF Machine!Closure, Machine!At
\* LET and GRAB: the object written on top of the return stack is the innermost
\* variable.
LEMMA BindsMaps ==
  ASSUME FramesInv, TypeOK', ~leftover, HeapGrows, NEW x \in Value, rsp < RspMax,
         rslots' = [rslots EXCEPT ![rsp].env = x],
         rsp' = rsp + 1, extra' = extra + 1, pc' = Next1,
         UNCHANGED <<store, status, accum, env, frames, leftover>>
  PROVE  Machine!Binds(x)
<1>1. PICK top, n, o : top = rsp /\ n = extra /\ o = env
  OBVIOUS
<1>2. /\ top \in 0..RspMax - 1 /\ n \in 0..top /\ Live(o) /\ top \in Nat
      /\ RspMax \in Nat /\ CurBase \in 0..top
  BY <1>1, Running
<1>3. /\ rslots'[top].env = x
      /\ \A s \in 0..top - 1 : rslots'[s] = rslots[s]
  <2>1. rslots \in [0..RspMax - 1 -> Slot]
    BY Running DEF TypeOK
  <2>2. rslots'[top].env = x
    BY <2>1, <1>1, <1>2 DEF Slot
  <2>3. ASSUME NEW s \in 0..top - 1 PROVE rslots'[s] = rslots[s]
    BY <2>1, <1>1, <1>2
  <2> QED BY <2>2, <2>3
<1>4. ScopeAt(top + 1, n + 1, o)' = <<x>> \o ScopeAt(top, n, o)
  <2>1. ASSUME NEW s \in top - n..top - 1 PROVE rslots'[s].env = rslots[s].env
    <3>1. s \in 0..top - 1
      BY <1>2
    <3>2. rslots'[s] = rslots[s]
      BY <3>1, <1>3, Zenon
    <3> QED BY <3>2, Zenon
  <2> QED BY <2>1, <1>2, <1>3, ScopeBinds, Running
<1>5. Scope' = <<x>> \o Scope
  <2>1. PICK h, m : h = top + 1 /\ m = n + 1
    OBVIOUS
  <2>2. Scope' = ScopeAt(h, m, o)'
    BY <2>1, <1>1, NextScope
  <2> QED BY <2>1, <2>2, <1>1, <1>4, Running
<1>6. Callers' = Callers
  <2>1. ASSUME NEW s \in 0..CurBase - 1 PROVE rslots'[s].env = rslots[s].env
    <3>1. s \in 0..top - 1
      BY <1>2
    <3>2. rslots'[s] = rslots[s]
      BY <3>1, <1>3, Zenon
    <3> QED BY <3>2, Zenon
  <2> QED BY <2>1, CallersStay
<1> QED BY <1>5, <1>6, Names DEF Machine!Binds, Machine!store, store

\* ENDLET: the innermost variable goes, from the return stack or, with the order
\* of the others, from the environment.
LEMMA EndLetMaps ==
  ASSUME FramesInv, TypeOK', EmptyEnvOK', ~leftover, HeapGrows, EndLet,
         UNCHANGED <<frames, leftover>>
  PROVE  Machine!EndLet
<1>1. /\ status = "running" /\ pc + 1 \in DOMAIN code /\ Op = "ENDLET"
      /\ pc' = Next1 /\ UNCHANGED <<store, status, accum, emptyEnv, astack>>
      /\ extra = 0 => HasField(env, 1) /\ rsp + Len(Fields(env)) - 1 <= RspMax /\ Spill
      /\ extra > 0 => rsp' = rsp - 1 /\ extra' = extra - 1 /\ UNCHANGED <<rslots, env>>
  BY Running DEF EndLet, Fetch, Executing, Defined, Goto
<1>2. PICK top, n, o : top = rsp /\ n = extra /\ o = env
  OBVIOUS
<1>3. /\ top \in 0..RspMax /\ n \in 0..top /\ Live(o) /\ top \in Nat /\ n \in Nat
      /\ RspMax \in Nat /\ CurBase \in 0..top /\ Scope = ScopeAt(top, n, o) /\ TypeOK
  BY <1>2, Running
<1>4. Machine!At("ENDLET") /\ pc' = Machine!After
      /\ UNCHANGED <<Machine!store, status, accum, astack>>
  BY <1>1, Names DEF Machine!At, Machine!store, store
<1>5. CASE extra > 0
  <2>1. Scope' = Tail(Scope) /\ Scope # <<>>
    <3>1. PICK h, m : h = top - 1 /\ m = n - 1
      OBVIOUS
    <3>2. Scope' = ScopeAt(h, m, o)'
      BY <3>1, <1>1, <1>2, <1>5, NextScope
    <3>3. top \in 1..RspMax /\ n \in 1..top
      BY <1>2, <1>3, <1>5
    <3>4. ScopeAt(top - 1, n - 1, o)' = Tail(ScopeAt(top, n, o)) /\ ScopeAt(top, n, o) # <<>>
      BY <3>3, <1>1, <1>3, <1>5, ScopeDrops
    <3> QED BY <3>1, <3>2, <3>4, <1>3
  <2>2. Callers' = Callers
    BY <1>1, <1>5, CallersStay
  <2> QED BY <2>1, <2>2, <1>1, <1>4, <1>5 DEF Machine!EndLet
<1>6. CASE extra = 0
  <2> DEFINE F == Contents(o)
             low == top
  <2>1. IsObj(o) /\ F = Fields(o) /\ 1 \in DOMAIN F
    BY <1>1, <1>2, <1>6 DEF HasField, Contents
  <2>2. F \in Seq(Value) /\ Len(F) \in Nat
    BY <1>3, ContentsType
  <2>3. PICK m \in Nat : m = Len(F) - 1
    BY <2>1, <2>2
  <2>4. PICK e : e = emptyEnv /\ e = env'
    BY <1>1, <1>6 DEF Spill
  <2>5. Contents(e)' = <<>>
    <3>1. status' = "running" /\ emptyEnv' = e
      BY <1>1, <2>4
    <3> QED BY <3>1 DEF EmptyEnvOK, Contents, IsObj, Fields, Kinds
  <2>6. rsp' = top + m /\ extra' = m /\ top + m <= RspMax
    BY <1>1, <1>2, <1>3, <1>6, <2>1, <2>2, <2>3 DEF Spill
  <2>7. \A s \in top..top + m - 1 : rslots'[s].env = F[s - top + 2]
    <3>1. rslots \in [0..RspMax - 1 -> Slot]
      BY <1>3 DEF TypeOK
    <3>2. rslots' = [i \in 0..RspMax - 1 |->
                       IF i \in top..top + m - 1
                       THEN [rslots[i] EXCEPT !.env = F[i - top + 2]] ELSE rslots[i]]
      BY <1>1, <1>2, <1>3, <1>6, <2>1, <2>2, <2>3 DEF Spill, Seg
    <3> HIDE DEF F
    <3>3. ASSUME NEW s \in top..top + m - 1 PROVE rslots'[s].env = F[s - top + 2]
      <4>1. s \in 0..RspMax - 1
        BY <1>3, <2>6
      <4> QED BY <3>1, <3>2, <4>1 DEF Slot
    <3> QED BY <3>3
  <2>8. \A s \in 0..CurBase - 1 : rslots'[s] = rslots[s]
    BY <1>1, <1>2, <1>3, <1>6 DEF Spill, Seg
  <2>9. Scope = F
    <3>1. [i \in 1..n |-> rslots[top - i].env] = <<>>
      BY <1>2, <1>6
    <3> HIDE DEF F
    <3>2. ScopeAt(top, n, o) = <<>> \o F
      BY <3>1 DEF ScopeAt, F
    <3> QED BY <3>2, <2>2, <1>3
  <2>10. Scope' = Machine!Reverse(Tail(Scope))
    <3>1. PICK h : h = top + m
      OBVIOUS
    <3>2. Scope' = ScopeAt(h, m, e)'
      BY <3>1, <2>4, <2>6, NextScope
    <3>3. Len(F) = m + 1
      BY <2>2, <2>3
    <3> HIDE DEF F
    <3>4. ScopeAt(top + m, m, e)' = Machine!Reverse(Tail(Contents(o)))
      BY <1>3, <2>5, <2>6, <2>7, <3>3, ScopeSpills DEF F
    <3> QED BY <3>1, <3>2, <3>4, <2>9 DEF F
  <2>11. Callers' = Callers
    BY <2>8, CallersStay
  <2>12. Scope # <<>> /\ extra' = Len(Scope) - 1 /\ ~(extra > 0)
    <3> HIDE DEF F
    <3> QED BY <1>6, <2>1, <2>2, <2>3, <2>6, <2>9
  <2> QED BY <2>10, <2>11, <2>12, <1>4 DEF Machine!EndLet
<1> QED BY <1>2, <1>3, <1>5, <1>6

\* Contents of the object that APPLY and APPTERM enter.
LEMMA EnteredScope ==
  ASSUME FramesInv, TypeOK', ~leftover, ~leftover', HeapGrows, UNCHANGED heap,
         Callable(accum), Enter, NEW low \in 0..RspMax - 1,
         rsp' = low + 1, rslots'[low].env = Top
  PROVE  /\ Scope' = <<Top>> \o Machine!Contents(Machine!Contents(accum)[1])
         /\ pc' = Machine!Contents(accum)[2].v /\ extra' = 1
         /\ Machine!Callable(accum)
<1>1. /\ IsObj(accum) /\ 1 \in DOMAIN Fields(accum) /\ 2 \in DOMAIN Fields(accum)
      /\ Field(accum, 1) = Contents(accum)[1] /\ Field(accum, 2) = Contents(accum)[2]
      /\ Contents(accum) = Fields(accum)
  BY DEF Callable, HasField, Field, Contents
<1>2. PICK o : o = Field(accum, 1) /\ o = env'
  BY DEF Enter
<1>3. /\ Live(o) /\ TypeOK /\ RspMax \in Nat
  BY <1>2, Running
<1>4. Contents(o)' = Contents(o) /\ Contents(o) \in Seq(Value)
  BY <1>3, ContentsStay, ContentsType
<1>5. extra' = 1 /\ pc' = Contents(accum)[2].v
  BY <1>1 DEF Enter, Goto
<1>6. PICK h : h = low + 1 /\ h = rsp'
  OBVIOUS
<1>7. Scope' = ScopeAt(h, 1, o)'
  BY <1>2, <1>5, <1>6, NextScope
<1>8. [i \in 1..1 |-> rslots'[h - i].env] = <<Top>>
  <2>1. \A i \in 1..1 : h - i = low
    BY <1>6
  <2>2. \A i \in 1..1 : rslots'[h - i].env = Top
    BY <2>1
  <2> QED BY <2>2
<1>9. ScopeAt(h, 1, o)' = <<Top>> \o Contents(o)
  BY <1>4, <1>8 DEF ScopeAt
<1>10. Machine!Contents(Machine!Contents(accum)[1]) = Contents(o)
  BY <1>1, <1>2, Names
<1>11. Machine!Callable(accum)
  BY <1>1, Names DEF Machine!Callable
<1>12. Machine!Contents(accum) = Contents(accum)
  BY Names
<1> QED BY <1>5, <1>7, <1>9, <1>10, <1>11, <1>12

\* APPTERM: the arguments of the running code make room for those of the next.
LEMMA AppTermMaps ==
  ASSUME FramesInv, TypeOK', ~leftover, HeapGrows, AppTerm, UNCHANGED <<frames, leftover>>
  PROVE  Machine!AppTerm
<1>1. /\ status = "running" /\ pc + 1 \in DOMAIN code /\ Op = "APPTERM"
      /\ astack # <<>> /\ Callable(accum) /\ rsp - extra < RspMax
      /\ Enter /\ rslots' = [rslots EXCEPT ![rsp - extra].env = Top]
      /\ rsp' = rsp - extra + 1 /\ astack' = Pop
      /\ UNCHANGED <<store, status, accum, emptyEnv>>
  BY DEF AppTerm, Fetch, Executing, Defined
<1>2. PICK low : low = CurBase /\ low = rsp - extra
  BY Running
<1>3. low \in 0..RspMax - 1 /\ rsp' = low + 1
  BY <1>1, <1>2, Running
<1>4. /\ rslots'[low].env = Top
      /\ \A s \in 0..low - 1 : rslots'[s].env = rslots[s].env
  <2>1. rslots \in [0..RspMax - 1 -> Slot] /\ RspMax \in Nat
    BY Running DEF TypeOK
  <2>2. rslots' = [rslots EXCEPT ![low].env = Top]
    BY <1>1, <1>2
  <2>3. rslots'[low].env = Top
    BY <2>1, <2>2, <1>3 DEF Slot
  <2>4. ASSUME NEW s \in 0..low - 1 PROVE rslots'[s].env = rslots[s].env
    BY <2>1, <2>2, <1>3
  <2> QED BY <2>3, <2>4
<1>5. Callers' = Callers
  BY <1>2, <1>4, CallersStay
<1>6. UNCHANGED heap
  BY <1>1 DEF store
<1>7. Machine!Enters
  <2>1. /\ Scope' = <<Top>> \o Machine!Contents(Machine!Contents(accum)[1])
        /\ pc' = Machine!Contents(accum)[2].v /\ extra' = 1
        /\ Machine!Callable(accum)
    BY <1>1, <1>3, <1>4, <1>6, EnteredScope
  <2> QED BY <2>1, <1>1, Names DEF Machine!Enters, Machine!store, store
<1> QED BY <1>1, <1>5, <1>7, Names DEF Machine!AppTerm, Machine!At

\* APPLY: what the frame saves is what the running code goes on with.
LEMMA ApplyMaps ==
  ASSUME FramesInv, TypeOK', ~leftover, HeapGrows, Saves
  PROVE  Machine!Apply
<1> DEFINE new == [at |-> rsp, saved |-> [env |-> env, pc |-> Next1, extra |-> extra]]
<1>1. /\ status = "running" /\ pc + 1 \in DOMAIN code /\ Op = "APPLY"
      /\ astack # <<>> /\ Callable(accum) /\ rsp + 2 <= RspMax
      /\ Enter /\ rsp' = rsp + 2 /\ astack' = Pop
      /\ rslots' = [rslots EXCEPT
                      ![rsp] = [env |-> env, pc |-> Next1, extra |-> extra],
                      ![rsp + 1].env = Top]
      /\ UNCHANGED <<store, status, accum, emptyEnv>>
      /\ frames' = Append(frames, new) /\ UNCHANGED leftover
  BY DEF Saves, Apply, Fetch, Executing, Defined
<1>2. PICK low, f : low = rsp + 1 /\ f = new
  OBVIOUS
<1>3. low \in 1..RspMax - 1 /\ rsp' = low + 1 /\ CurBase \in 0..low - 1 /\ low - 1 = rsp
  BY <1>1, <1>2, Running
<1>4. /\ rslots'[low].env = Top
      /\ \A s \in 0..low - 2 : rslots'[s].env = rslots[s].env
  <2>1. rslots \in [0..RspMax - 1 -> Slot] /\ RspMax \in Nat
    BY Running DEF TypeOK
  <2>2. PICK old : old = [rslots EXCEPT ![rsp] = f.saved]
    OBVIOUS
  <2>3. rslots' = [old EXCEPT ![low].env = Top]
    BY <1>1, <1>2, <2>2
  <2>4. DOMAIN old = 0..RspMax - 1 /\ old[low] \in Slot
        /\ \A s \in 0..low - 2 : old[s] = rslots[s]
    BY <2>1, <2>2, <1>3
  <2>5. rslots'[low].env = Top
    BY <2>3, <2>4, <1>3 DEF Slot
  <2>6. ASSUME NEW s \in 0..low - 2 PROVE rslots'[s].env = rslots[s].env
    BY <2>1, <2>3, <2>4, <1>3
  <2> QED BY <2>5, <2>6
<1>5. UNCHANGED heap
  BY <1>1 DEF store
<1>6. Machine!Enters
  <2>1. low \in 0..RspMax - 1
    BY <1>3
  <2>2. /\ Scope' = <<Top>> \o Machine!Contents(Machine!Contents(accum)[1])
        /\ pc' = Machine!Contents(accum)[2].v /\ extra' = 1
        /\ Machine!Callable(accum)
    BY <2>1, <1>1, <1>3, <1>4, <1>5, EnteredScope
  <2> QED BY <2>2, <1>1, Names DEF Machine!Enters, Machine!store, store
<1>7. CallerOf(f)' = [scope |-> Scope, bound |-> extra, pc |-> Next1]
  <2>1. /\ f.at = rsp /\ f.saved.env = env /\ f.saved.extra = extra /\ f.saved.pc = Next1
    BY <1>2
  <2>2. PICK top, n, o : top = rsp /\ n = extra /\ o = env
    OBVIOUS
  <2>3. ScopeAt(top, n, o)' = ScopeAt(top, n, o)
    <3>1. TypeOK /\ top \in Nat /\ n \in 0..top /\ Live(o) /\ top = low - 1
      BY <2>2, <1>3, Running
    <3>2. ASSUME NEW s \in top - n..top - 1 PROVE rslots'[s].env = rslots[s].env
      <4>1. s \in 0..low - 2
        BY <3>1, <1>3
      <4> QED BY <4>1, <1>4, Zenon
    <3> QED BY <3>1, <3>2, ScopeStays
  <2>4. ScopeAt(f.at, f.saved.extra, f.saved.env)' = Scope
    BY <2>1, <2>2, <2>3, Running
  <2> QED BY <2>1, <2>4 DEF CallerOf
<1>8. Callers' = Append(Callers, [scope |-> Scope, bound |-> extra, pc |-> Next1])
  <2> DEFINE c == [scope |-> Scope, bound |-> extra, pc |-> Next1]
             N == Len(frames)
  <2>1. N \in Nat /\ DOMAIN frames = 1..N /\ DOMAIN frames' = 1..N + 1
        /\ frames'[N + 1] = f /\ \A k \in 1..N : frames'[k] = frames[k]
    <3> HIDE DEF new
    <3> QED BY <1>1, <1>2 DEF FramesInv, FramesTypeOK
  <2> HIDE DEF c, N, new
  <2>2. Callers'[N + 1] = c
    BY <2>1, <1>1, <1>7, IsMapped DEF Mapped, c
  <2>3. ASSUME NEW k \in 1..N PROVE Callers'[k] = Callers[k]
    <3>1. PICK g : g = frames[k] /\ g = frames'[k]
      BY <2>1
    <3>2. \A s \in 0..g.at - 1 : rslots'[s].env = rslots[s].env
      BY <3>1, <2>1, <1>3, <1>4, FramePlace
    <3>3. CallerOf(g)' = CallerOf(g)
      BY <3>1, <3>2, <2>1, CallerStays
    <3> QED BY <3>1, <3>3, <2>1, <1>1, IsMapped DEF Mapped
  <2>4. /\ Callers = [k \in 1..N |-> Callers[k]]
        /\ Callers' = [k \in 1..N + 1 |-> Callers'[k]]
    BY <2>1, <1>1, IsMapped DEF Mapped
  <2>5. Append(Callers, c) = [k \in 1..N + 1 |-> IF k = N + 1 THEN c ELSE Callers[k]]
    BY <2>1, <2>4, AppendIs
  <2>6. \A k \in 1..N + 1 : Callers'[k] = IF k = N + 1 THEN c ELSE Callers[k]
    BY <2>1, <2>2, <2>3
  <2> QED BY <2>4, <2>5, <2>6 DEF c
<1> QED BY <1>1, <1>6, <1>8, Names DEF Machine!Apply, Machine!At

\* RETURN and GRAB at a mark: the frame that is found is the last caller.
LEMMA ResumesMaps ==
  ASSUME FramesInv, TypeOK', ~leftover, ~leftover', HeapGrows, extra < rsp, AtMark,
         Restore(rsp - extra - 1), astack' = Pop, frames' = Older, UNCHANGED rslots
  PROVE  Machine!Resumes
<1> DEFINE N == Len(frames)
<1>1. /\ N \in Nat \ {0} /\ DOMAIN frames = 1..N /\ N \in DOMAIN frames
      /\ CurBase = frames[N].at + 1
  <2>1. N \in Nat /\ DOMAIN frames = 1..N
    BY DEF FramesInv, FramesTypeOK
  <2>2. CurBase > 0
    BY Running
  <2>3. N # 0
    BY <2>2 DEF CurBase, Base
  <2> QED BY <2>1, <2>3 DEF CurBase, Base
<1>2. PICK f : f = frames[N]
  OBVIOUS
<1>3. /\ f.at \in Nat /\ f.at = rsp - extra - 1 /\ rslots[f.at] = f.saved
      /\ f.at < CurBase
  <2>1. frames[N].at \in 0..CurBase - 1
    BY <1>1, FramePlace
  <2>2. Intact
    BY DEF FramesInv, FramesFound
  <2>3. rsp \in Nat /\ extra \in Nat /\ CurBase \in Nat /\ rsp - extra = CurBase
    BY Running
  <2>4. rslots[f.at] = f.saved
    BY <1>1, <1>2, <2>2 DEF Intact
  <2> QED BY <1>1, <1>2, <2>1, <2>3, <2>4
<1>4. pc' = f.saved.pc /\ env' = f.saved.env /\ extra' = f.saved.extra /\ rsp' = f.at
  BY <1>3 DEF Restore, Goto
<1>5. CallerOf(f)' = CallerOf(f)
  BY <1>1, <1>2, CallerStays
<1>6. Callers[N] = CallerOf(f)
  BY <1>1, <1>2, IsMapped DEF Mapped
<1>7. Scope' = Callers[N].scope /\ extra' = Callers[N].bound /\ pc' = Callers[N].pc
  <2>1. PICK top, n, o : top = f.at /\ n = f.saved.extra /\ o = f.saved.env
    OBVIOUS
  <2>2. Scope' = ScopeAt(top, n, o)'
    BY <2>1, <1>4, NextScope
  <2>3. CallerOf(f)'.scope = ScopeAt(top, n, o)'
    BY <2>1 DEF CallerOf
  <2>4. CallerOf(f).bound = f.saved.extra /\ CallerOf(f).pc = f.saved.pc
    BY DEF CallerOf
  <2> QED BY <2>2, <2>3, <2>4, <1>4, <1>5, <1>6
<1>8. Callers' = SubSeq(Callers, 1, N - 1) /\ Len(Callers) = N
  <2>1. DOMAIN frames' = 1..N - 1 /\ \A k \in 1..N - 1 : frames'[k] = frames[k]
    <3>1. frames' = SubSeq(frames, 1, N - 1)
      BY DEF Older
    <3>2. frames \in Seq(Frame)
      BY DEF FramesInv, FramesTypeOK
    <3> QED BY <3>1, <3>2, <1>1
  <2> HIDE DEF N
  <2>2. ASSUME NEW k \in 1..N - 1 PROVE Callers'[k] = Callers[k]
    <3>1. k \in DOMAIN frames /\ k \in DOMAIN frames'
      BY <2>1, <1>1
    <3>2. PICK g : g = frames[k] /\ g = frames'[k]
      BY <2>1
    <3>3. CallerOf(g)' = CallerOf(g)
      BY <3>1, <3>2, CallerStays
    <3>4. Callers[k] = CallerOf(g)
      BY <3>1, <3>2, IsMapped, Zenon DEF Mapped
    <3>5. Callers'[k] = CallerOf(g)'
      BY <3>1, <3>2, IsMapped, Zenon DEF Mapped
    <3> QED BY <3>3, <3>4, <3>5
  <2>3. /\ Callers = [k \in 1..N |-> Callers[k]]
        /\ Callers' = [k \in 1..N - 1 |-> Callers'[k]]
    BY <2>1, <1>1, IsMapped DEF Mapped
  <2>4. SubSeq(Callers, 1, N - 1) = [k \in 1..N - 1 |-> Callers[k]] /\ Len(Callers) = N
    BY <2>3, <1>1, FrontIs
  <2> QED BY <2>2, <2>3, <2>4
<1>9. Callers # <<>>
  BY <1>1, <1>8
<1> HIDE DEF N
<1> QED BY <1>7, <1>8, <1>9, Names DEF Machine!Resumes

LEMMA ReturnMaps ==
  ASSUME FramesInv, TypeOK', ~leftover, HeapGrows, ReturnToFrame, frames' = Older,
         UNCHANGED leftover
  PROVE  Machine!Return
<1>1. /\ status = "running" /\ pc + 1 \in DOMAIN code /\ Op = "RETURN"
      /\ extra < rsp /\ AtMark /\ Restore(rsp - extra - 1) /\ astack' = Pop
      /\ UNCHANGED <<store, status, accum, rslots>>
  BY DEF ReturnToFrame, Fetch, Executing, Defined
<1>2. Machine!Resumes
  BY <1>1, ResumesMaps
<1> QED BY <1>1, <1>2, Names DEF Machine!Return, Machine!At, Machine!store, store

LEMMA GrabPartialMaps ==
  ASSUME FramesInv, TypeOK', ~leftover, HeapGrows, GrabPartial, frames' = Older,
         UNCHANGED leftover
  PROVE  Machine!GrabPartial
<1>1. /\ status = "running" /\ pc + 1 \in DOMAIN code /\ Op = "GRAB"
      /\ IsObj(env) /\ extra < rsp /\ AtMark /\ Restore(rsp - extra - 1)
      /\ astack' = Pop /\ accum' = Ref("clo", Len(heap) + 1)
      /\ heap' = heap \o <<<<Ref("clo", Len(heap) + 2), CodeIdx(Next1)>>, FullEnv>>
      /\ UNCHANGED <<code, globals, handles, status, rslots>>
  BY DEF GrabPartial, Fetch, Executing, Defined
<1>2. Machine!Resumes
  BY <1>1, ResumesMaps
<1>3. Scope = FullEnv
  BY <1>1 DEF Scope, ScopeAt, Contents, FullEnv, Extras
<1>4. Machine!Captures("clo", Machine!After)
  BY <1>1, <1>3, Names DEF Machine!Captures
<1> QED BY <1>1, <1>2, <1>4, Names DEF Machine!GrabPartial, Machine!At

\* ACCESS: up to the first variable of the environment, the scope's variable.
LEMMA AccessMaps ==
  ASSUME FramesInv, ~leftover, HeapGrows, Access, UNCHANGED <<frames, leftover>>
  PROVE  Machine!Access
<1>1. /\ status = "running" /\ pc + 1 \in DOMAIN code /\ Op = "ACCESS" /\ pc' = Next1
      /\ Arg < extra => 0 <= Arg /\ accum' = rslots[rsp - 1 - Arg].env
      /\ ~(Arg < extra) => HasField(Walk(Arg), 1) /\ accum' = Field(Walk(Arg), 1)
      /\ UNCHANGED <<store, status, env, extra, astack, rslots, rsp>>
  BY DEF Access, Fetch, Executing, Defined, Goto
<1>2. PICK top, n, o : top = rsp /\ n = extra /\ o = env
  OBVIOUS
<1>3. /\ TypeOK /\ top \in 0..RspMax /\ n \in 0..top /\ n \in Nat /\ top \in Nat
      /\ Scope = ScopeAt(top, n, o)
  BY <1>2, Running
<1>4. IsScope(Scope, rslots, top, n, Contents(o)) /\ Contents(o) \in Seq(Value)
  BY <1>3, ScopeType, ContentsType
<1>5. Arg \in Int
  BY <1>1, <1>3, InstrType
<1>6. ASSUME Arg <= extra PROVE accum' = Scope[Arg + 1]
  <2>1. CASE Arg < extra
    <3>1. Arg + 1 \in 1..n /\ top - (Arg + 1) = rsp - 1 - Arg
      BY <2>1, <1>1, <1>2, <1>3, <1>5
    <3>2. Scope[Arg + 1] = rslots[top - (Arg + 1)].env
      BY <3>1, <1>4 DEF IsScope
    <3> QED BY <3>1, <3>2, <2>1, <1>1
  <2>2. CASE Arg = extra
    <3>1. Walk(Arg) = env /\ ~(Arg < extra) /\ Arg + 1 = n + 1
      BY <2>2, <1>2, <1>3 DEF Walk
    <3>2. HasField(o, 1) /\ accum' = Field(o, 1)
      BY <3>1, <1>1, <1>2
    <3>3. accum' = Contents(o)[1] /\ 1 \in DOMAIN Contents(o)
      BY <3>2 DEF HasField, Field, Contents
    <3>4. 1 \in 1..Len(Contents(o))
      BY <3>3, <1>4
    <3>5. Scope[n + 1] = Contents(o)[1]
      BY <3>4, <1>4 DEF IsScope
    <3> QED BY <3>1, <3>3, <3>5
  <2> QED BY <2>1, <2>2, <1>2, <1>3, <1>5, <1>6
<1>7. Machine!Here
  BY <1>1, StaysHere
<1>8. Machine!Sets(accum')
  BY <1>1, <1>7, Names DEF Machine!Sets, Machine!store, store
<1> QED BY <1>1, <1>6, <1>8, Names DEF Machine!Access, Machine!At

\* The client's calls: generated code is added behind the code that is there.
LEMMA SuffixIs ==
  ASSUME NEW S, NEW a \in Seq(S), NEW b \in Seq(S)
  PROVE  SubSeq(a \o b, Len(a) + 1, Len(a \o b)) = b
<1>1. Len(a) \in Nat /\ Len(b) \in Nat /\ a \o b \in Seq(S)
      /\ Len(a \o b) = Len(a) + Len(b)
      /\ \A i \in 1..Len(b) : (a \o b)[Len(a) + i] = b[i] /\ b[i] \in S
  OBVIOUS
<1> DEFINE s == a \o b
<1> HIDE DEF s
<1>2. PICK m \in Nat, n \in Nat : m = Len(a) + 1 /\ n = Len(s) /\ n = m - 1 + Len(b)
  BY <1>1 DEF s
<1>3. \A i \in m..n : s[i] \in S
  BY <1>1, <1>2 DEF s
<1>4. /\ SubSeq(s, m, n) \in Seq(S) /\ Len(SubSeq(s, m, n)) = Len(b)
      /\ \A i \in 1..Len(b) : SubSeq(s, m, n)[i] = s[m + i - 1]
  BY <1>1, <1>2, <1>3, SubSeqProperties
<1>5. \A i \in 1..Len(b) : SubSeq(s, m, n)[i] = b[i]
  BY <1>1, <1>2, <1>4 DEF s
<1>6. SubSeq(s, m, n) = b
  BY <1>4, <1>5, SeqEqual
<1> QED BY <1>2, <1>6 DEF s

LEMMA GenerateMaps ==
  ASSUME FramesInv, ~leftover, HeapGrows, Generate, UNCHANGED <<frames, leftover>>
  PROVE  Machine!Generate
<1>1. PICK chunk \in Chunks : Place(chunk)
  BY DEF Generate
<1>2. /\ status = "idle"
      /\ heap' = heap \o <<<<Ref("env", Len(heap) + 2), CodeIdx(Len(code))>>, <<>>>>
      /\ code' = code \o chunk
      /\ handles' = Append(handles, Ref("clo", Len(heap) + 1))
      /\ UNCHANGED <<globals, status, pc, accum, env, extra, astack, rslots, rsp>>
  BY <1>1 DEF Place, locals
<1>3. code' = code \o SubSeq(code', Len(code) + 1, Len(code'))
  <2>1. code \in Seq(Cell) /\ chunk \in Seq(Cell)
    BY ChunksAssumption, Running DEF TypeOK
  <2> QED BY <2>1, <1>2, SuffixIs
<1>4. Machine!Here
  BY <1>2, StaysHere
<1> QED BY <1>2, <1>3, <1>4, Names DEF Machine!Generate

LEMMA EvalMaps ==
  ASSUME FramesInv, HeapGrows, NEW h \in DOMAIN handles, Eval(h),
         frames' = <<>>, leftover' = FALSE
  PROVE  Machine!Eval(h)
<1>1. /\ status = "idle" /\ status' = "running" /\ Callable(handles[h])
      /\ handles' = Append(handles, Undef) /\ heap' = Append(heap, <<>>)
      /\ env' = Field(handles[h], 1) /\ pc' = Field(handles[h], 2).v
      /\ accum' = Undef /\ extra' = 0 /\ astack' = <<>> /\ rsp' = 0
      /\ UNCHANGED <<code, globals>>
  BY DEF Eval, Goto
<1>2. PICK o : o = env'
  OBVIOUS
<1>3. PICK c : c = handles[h]
  OBVIOUS
<1>4. /\ 1 \in DOMAIN Contents(c) /\ 2 \in DOMAIN Contents(c)
      /\ Field(c, 1) = Contents(c)[1] /\ Field(c, 2) = Contents(c)[2]
  BY <1>1, <1>3 DEF Callable, HasField, Field, Contents
<1>5. Contents(o)' = Contents(o) /\ Contents(o) \in Seq(Value)
  <2>1. TypeOK /\ HeapLive
    BY DEF FramesInv, NoDangling
  <2>2. Live(o)
    BY <2>1, <1>1, <1>2, FieldLive
  <2> QED BY <2>1, <2>2, ContentsStay, ContentsType
<1>6. Scope' = Contents(o)
  <2>1. Scope' = ScopeAt(0, 0, o)'
    BY <1>1, <1>2, NextScope
  <2>2. [i \in 1..0 |-> rslots'[0 - i].env] = <<>>
    OBVIOUS
  <2>3. ScopeAt(0, 0, o)' = <<>> \o Contents(o)
    BY <2>2, <1>5 DEF ScopeAt
  <2> QED BY <2>1, <2>3, <1>5
<1>7. Callers' = <<>>
  BY DEF Callers
<1>8. Machine!Callable(handles[h])
  BY <1>3, <1>4, Names DEF Machine!Callable
<1>9. /\ Scope' = Machine!Contents(Machine!Contents(handles[h])[1])
      /\ pc' = Machine!Contents(handles[h])[2].v
  BY <1>1, <1>2, <1>3, <1>4, <1>6, Names
<1> QED BY <1>1, <1>7, <1>8, <1>9, Names DEF Machine!Eval

\* The steps that save and restore nothing.
LEMMA OthersMap ==
  ASSUME FramesInv, FramesInv', ~leftover, HeapGrows, Others
  PROVE  Machine!Step
<1> USE DEF Fetch, Executing, Goto, Machine!At, Machine!store, store
<1>1. UNCHANGED <<frames, leftover>> /\ TypeOK /\ TypeOK' /\ EmptyEnvOK'
  BY DEF Others, FramesInv
<1>2. UNCHANGED <<rsp, extra, env, rslots>> => Machine!Here
  BY <1>1, StaysHere
<1>3. CASE Int64
  <2>1. Machine!Sets(Machine!IntObj(Machine!Operand))
    BY <1>2, <1>3, Names DEF Int64, Machine!Sets
  <2> QED BY <1>3, <2>1, Names DEF Int64, Machine!Step
<1>4. CASE Closure
  BY <1>1, <1>4, ClosureMaps DEF Machine!Step
<1>5. CASE Push
  <2>1. Machine!Pushes(accum)
    BY <1>2, <1>5, Names DEF Push, Machine!Pushes
  <2> QED BY <1>5, <2>1, Names DEF Push, Machine!Step
<1>6. CASE PushMark
  <2>1. Machine!Pushes(Machine!Mark)
    BY <1>2, <1>6, Names DEF PushMark, Machine!Pushes
  <2> QED BY <1>6, <2>1, Names DEF PushMark, Machine!Step
<1>7. CASE Let
  <2>1. accum \in Value /\ rsp < RspMax
    BY <1>1, <1>7 DEF Let, Defined, TypeOK
  <2>2. Machine!Binds(accum)
    BY <1>1, <1>7, <2>1, BindsMaps DEF Let
  <2> QED BY <1>7, <2>2, Names DEF Let, Machine!Step
<1>8. CASE EndLet
  BY <1>1, <1>8, EndLetMaps DEF Machine!Step
<1>9. CASE SetGlobal
  BY <1>2, <1>9, Names DEF SetGlobal, Defined, Machine!SetGlobal, Machine!Step
<1>10. CASE GetGlobal
  <2>1. Machine!Sets(globals[Machine!Operand])
    BY <1>2, <1>10, Names DEF GetGlobal, Machine!Sets
  <2> QED BY <1>10, <2>1, Names DEF GetGlobal, Defined, Machine!Step
<1>11. CASE GrabArg
  <2>1. astack # <<>> /\ ~AtMark /\ rsp < RspMax
    BY <1>11 DEF GrabArg, Defined
  <2>2. Top \in Value
    BY <1>1, <2>1, PopType
  <2>3. Machine!Binds(Top)
    BY <1>1, <1>11, <2>1, <2>2, BindsMaps DEF GrabArg
  <2> QED BY <1>11, <2>1, <2>3, Names DEF GrabArg, Machine!GrabArg, Machine!Step
<1>12. CASE AppTerm
  BY <1>1, <1>12, AppTermMaps DEF Machine!Step
<1>13. CASE Access
  BY <1>1, <1>13, AccessMaps DEF Machine!Step
<1>14. CASE MkB
  BY <1>2, <1>14, Names DEF MkB, Defined, Machine!MkB, Machine!Step
<1>15. CASE ReturnToClient
  <2>1. rsp = 0 /\ extra = 0
    BY <1>15, Running DEF ReturnToClient
  <2>2. Callers = <<>>
    <3>1. frames = <<>>
      <4>1. \A k \in DOMAIN frames : FALSE
        BY <2>1, FramePlace, Running
      <4>2. frames \in Seq(Frame) /\ Len(frames) \in Nat /\ DOMAIN frames = 1..Len(frames)
        BY DEF FramesInv, FramesTypeOK
      <4>3. Len(frames) = 0
        <5>1. ~(1 \in 1..Len(frames))
          BY <4>1, <4>2
        <5> QED BY <5>1, <4>2
      <4> QED BY <4>2, <4>3, EmptySeq
    <3> QED BY <3>1 DEF Callers
  <2> QED BY <1>2, <1>15, <2>1, <2>2, Names
          DEF ReturnToClient, Machine!ReturnToClient, Machine!Step
<1>16. CASE Fault
  BY <1>2, <1>16 DEF Fault, Machine!Stops, Machine!Step
<1>17. CASE \E s \in Syms : Register(s)
  BY <1>2, <1>17 DEF Register, locals, Machine!Register, Machine!Step
<1>18. CASE Generate
  BY <1>1, <1>18, GenerateMaps DEF Machine!Step
<1> QED BY <1>3, <1>4, <1>5, <1>6, <1>7, <1>8, <1>9, <1>10, <1>11, <1>12, <1>13,
           <1>14, <1>15, <1>16, <1>17, <1>18 DEF Others

LEMMA StepMaps == FramesInv /\ FramesInv' /\ [FNext]_frameVars => [Machine!Next]_Machine!vars
<1> SUFFICES ASSUME FramesInv, FramesInv', [FNext]_frameVars
             PROVE  [Machine!Next]_Machine!vars
  OBVIOUS
<1>1. TypeOK /\ TypeOK' /\ HeapGrows
  BY HistoryStep, HeapOnlyGrows DEF FramesInv, HeapGrows
<1>2. CASE UNCHANGED frameVars
  <2>1. Scope' = Scope /\ Callers' = Callers
    BY <1>2 DEF frameVars, vars, Scope, Callers, CallerOf, ScopeAt, Contents, IsObj, Fields
  <2> QED BY <1>2, <2>1 DEF frameVars, vars, Machine!vars, Machine!store
<1>3. CASE Starts
  <2>1. PICK h \in DOMAIN handles : Eval(h)
    BY <1>3 DEF Starts
  <2>2. frames' = <<>> /\ leftover' = FALSE
    BY <1>3 DEF Starts
  <2> QED BY <1>1, <2>1, <2>2, EvalMaps DEF Machine!Next
<1>4. CASE leftover /\ FNext /\ ~Starts
  BY <1>4 DEF FNext, Saves, Restores, PassesOn, Others, Machine!Next
<1>5. CASE ~leftover /\ Saves
  <2>1. UNCHANGED leftover
    BY <1>5 DEF Saves
  <2> QED BY <1>1, <1>5, <2>1, ApplyMaps DEF Machine!Next, Machine!Step
<1>6. CASE ~leftover /\ Restores
  <2>1. frames' = Older /\ UNCHANGED leftover /\ (GrabPartial \/ ReturnToFrame)
    BY <1>6 DEF Restores
  <2> QED BY <1>1, <1>6, <2>1, GrabPartialMaps, ReturnMaps DEF Machine!Next, Machine!Step
<1>7. CASE ~leftover /\ PassesOn
  <2>1. /\ status = "running" /\ pc + 1 \in DOMAIN code /\ Op = "RETURN"
        /\ astack # <<>> /\ ~AtMark /\ rsp > 0 /\ leftover'
    BY <1>7 DEF PassesOn, ReturnToArg, Fetch, Executing, Defined
  <2>2. Callers # <<>> \/ extra > 0
    <3>1. CASE Len(frames) = 0
      BY <3>1, <1>7, <2>1, Running DEF CurBase, Base
    <3>2. CASE Len(frames) # 0
      <4>1. 1 \in DOMAIN frames
        BY <3>2 DEF FramesInv, FramesTypeOK
      <4>2. DOMAIN Callers = DOMAIN frames
        BY <1>7, IsMapped DEF Mapped
      <4> QED BY <4>1, <4>2
    <3> QED BY <3>1, <3>2
  <2> QED BY <1>7, <2>1, <2>2, Names DEF Machine!PassesOn, Machine!At, Machine!Next
<1>8. CASE ~leftover /\ Others
  <2>1. UNCHANGED leftover
    BY <1>8 DEF Others
  <2> QED BY <1>1, <1>8, <2>1, OthersMap DEF Machine!Next
<1> QED BY <1>2, <1>3, <1>4, <1>5, <1>6, <1>7, <1>8 DEF FNext

\* MachineSpec holds of the interpreter running any code on stacks of any size:
\* with slots, frames and counts hidden, it is the machine of whole scopes and a
\* stack of callers, as long as no RETURN has passed on a leftover argument.
THEOREM IsMachine == FSpec => MachineSpec
<1>1. FInit => Machine!Init
  <2> SUFFICES ASSUME FInit PROVE Machine!Init
    OBVIOUS
  <2>1. /\ frames = <<>> /\ leftover = FALSE /\ rsp = 0 /\ extra = 0 /\ env = Undef
        /\ code = <<>> /\ heap = <<>> /\ handles = <<>> /\ DOMAIN globals = {}
        /\ status = "idle" /\ pc = 0 /\ accum = Undef /\ astack = <<>>
    BY DEF FInit, Init
  <2>2. Contents(Undef) = <<>>
    BY DEF Contents, IsObj, Undef, Kinds
  <2>3. [i \in 1..0 |-> rslots[0 - i].env] = <<>>
    OBVIOUS
  <2>4. Scope = <<>> \o <<>>
    BY <2>1, <2>2, <2>3 DEF Scope, ScopeAt
  <2>5. Scope = <<>> /\ Callers = <<>>
    BY <2>1, <2>4 DEF Callers
  <2> QED BY <2>1, <2>5, Names DEF Machine!Init
<1> QED BY <1>1, StepMaps, FramesInvHolds, PTL DEF FSpec, MachineSpec, Machine!Spec
=============================================================================
