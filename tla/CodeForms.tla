----------------------------- MODULE CodeForms -----------------------------
(***************************************************************************)
(* What lib/vm_gen.c puts code together from: a form for each kind of      *)
(* expression and place.  CodeGen chooses the form for an expression and   *)
(* does nothing else, so that what holds of everything built from them     *)
(* holds of its code (CodeProofs).                                         *)
(***************************************************************************)
EXTENDS Bytecode

\* An operand is cut to the bytes it is written to.
U8 == 2^8
U16 == 2^16

IntCode(v) == Instr("INT64", v)
VarCode(index) == Instr("ACCESS", index % U8)
GVarCode(sym) == Instr("GETGLOBAL", sym)
\* The argument closest to the function is pushed last.
PushedBefore(arg, args) == arg \o Instr("PUSH", 0) \o args
LamCode(body) == LET whole == body \o Instr("RETURN", 0)
                 IN  Instr("CLOSURE", Len(whole) % U16) \o whole
AppCode(args, fun) == Instr("PUSHMARK", 0) \o args \o fun \o Instr("APPLY", 0)
MkbCode(fields, n) == fields \o Instr("MKB", n % U16)
LetCode(val, body) == val \o Instr("LET", 0) \o body \o Instr("ENDLET", 0)

\* In tail position of a lambda.
TailApp(args, fun) == args \o fun \o Instr("APPTERM", 0)
TailLam(body) == Instr("GRAB", 0) \o body
TailLet(val, body) == val \o Instr("LET", 0) \o body

\* Whole sources.
ExprMain(body) == body \o Instr("RETURN", 0)
DeclMain(sym, body) == body \o Instr("SETGLOBAL", sym) \o Instr("RETURN", 0)
=============================================================================
