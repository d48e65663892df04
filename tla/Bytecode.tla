------------------------------ MODULE Bytecode ------------------------------
(***************************************************************************)
(* The instruction set of inc/wist/vm_ops.h, the bytes of the code area    *)
(* (vm->code_area), shared by the code generator and the interpreter, and  *)
(* the objects instructions handle (inc/wist/vm_obj.h).                    *)
(***************************************************************************)
EXTENDS Integers, Sequences

CONSTANT WordBytes   \* bytes of an int64 or pointer operand (8 in the code)

ASSUME WordBytesAssumption == WordBytes \in Nat \ {0}

Ops == {"INT64", "RETURN", "CLOSURE", "PUSH", "PUSHMARK", "ACCESS", "APPLY",
        "APPTERM", "MKB", "GRAB", "LET", "ENDLET", "SETGLOBAL", "GETGLOBAL"}

\* One byte of the code area. An operand is kept whole beside its opcode; the
\* bytes it occupies are there, so that addresses are those of the program.
Cell == [op : Ops \cup {"operand"}, arg : Int]

\* How far lib/vm.c moves pc over the operand. (The table of vm_ops.h, which
\* only the printer uses, says 0 for GETGLOBAL.)
OperandBytes(op) ==
  CASE op \in {"CLOSURE", "MKB"} -> 2
    [] op = "ACCESS" -> 1
    [] op \in {"INT64", "SETGLOBAL", "GETGLOBAL"} -> WordBytes
    [] OTHER -> 0

Instr(op, arg) == [i \in 1..1 + OperandBytes(op) |->
                     IF i = 1 THEN [op |-> op, arg |-> arg]
                              ELSE [op |-> "operand", arg |-> 0]]

-----------------------------------------------------------------------------
Kinds == {"clo", "tuple", "env"}
Value == [t : Kinds \cup {"int", "mark", "undef"}, v : Int]

Undef == [t |-> "undef", v |-> 0]
Mark == [t |-> "mark", v |-> 0]
IntObj(n) == [t |-> "int", v |-> n]
Ref(kind, a) == [t |-> kind, v |-> a]
CodeIdx(i) == [t |-> "undef", v |-> i]  \* FIELD2 of a closure sets idx, not t
=============================================================================
