------------------------------- MODULE MCZinc -------------------------------
(***************************************************************************)
(* The interpreter on bytecode no compiler made: every short sequence of   *)
(* instructions as the body of a function that is applied to two           *)
(* arguments, with a let-bound variable around the call.                   *)
(***************************************************************************)
EXTENDS ZincFrames, SequencesExt

Global == 7

Instrs == {Instr("INT64", 5), Instr("CLOSURE", 0), Instr("PUSH", 0),
           Instr("PUSHMARK", 0), Instr("ACCESS", 0), Instr("ACCESS", 1),
           Instr("APPLY", 0), Instr("APPTERM", 0), Instr("MKB", 1),
           Instr("GRAB", 0), Instr("LET", 0), Instr("ENDLET", 0),
           Instr("SETGLOBAL", Global), Instr("GETGLOBAL", Global),
           Instr("RETURN", 0)}

RETURN == Instr("RETURN", 0)
PushInt(n) == Instr("INT64", n) \o Instr("PUSH", 0)

Called(body) ==
  Instr("INT64", 1) \o Instr("LET", 0) \o Instr("PUSHMARK", 0) \o PushInt(2)
    \o PushInt(3) \o Instr("CLOSURE", Len(body)) \o body
    \o Instr("APPLY", 0) \o Instr("ENDLET", 0) \o RETURN

AnyCode(n) == {Called(FlattenSeq(is) \o RETURN) : is \in [1..n -> Instrs]}

Bytes == AnyCode(3)
=============================================================================
