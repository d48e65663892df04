------------------------------ MODULE CodeGen ------------------------------
(***************************************************************************)
(* The compiler's back half: lib/lir.c turns a typed AST into terms with   *)
(* de Bruijn indices, lib/vm_gen.c turns those into bytecode.              *)
(***************************************************************************)
EXTENDS CodeForms, Ast, SequencesExt

-----------------------------------------------------------------------------
(* lib/lir.c.                                                              *)

\* map is the list of enclosing binders, the innermost first.
RECURSIVE LirGen(_, _)
LirGen(e, map) ==
  CASE e.k = "app" -> [k |-> "app", fun |-> LirGen(e.fun, map),
                       arg |-> LirGen(e.arg, map)]
    [] e.k = "lam" -> [k |-> "lam", body |-> LirGen(e.body, <<e.var>> \o map)]
    [] e.k = "let" -> [k |-> "let", val |-> LirGen(e.val, map),
                       body |-> LirGen(e.body, <<e.var>> \o map)]
    [] e.k = "var" -> [k |-> "var",
                       index |-> SelectInSeq(map, LAMBDA x : x = e.var) - 1]
    [] e.k = "tuple" -> [k |-> "mkb", fields |-> [i \in DOMAIN e.fields |->
                                                    LirGen(e.fields[i], map)]]
    [] OTHER -> e

-----------------------------------------------------------------------------
(* lib/vm_gen.c.                                                           *)

RECURSIVE SpineHead(_)
SpineHead(e) == IF e.k = "app" THEN SpineHead(e.fun) ELSE e

RECURSIVE GenExpr(_), GenTail(_), PushArgs(_), PushFields(_)

\* Mutant: the first argument is pushed first.
PushArgsInOrder(e) == IF e.k = "app"
                      THEN PushArgs(e.fun) \o PushedBefore(GenExpr(e.arg), <<>>)
                      ELSE <<>>

\* The arguments of an application, the last one first.
PushArgs(e) == IF e.k = "app" THEN PushedBefore(GenExpr(e.arg), PushArgs(e.fun)) ELSE <<>>

PushFields(fields) == IF fields = <<>> THEN <<>>
                      ELSE PushedBefore(GenExpr(Head(fields)), PushFields(Tail(fields)))

\* Mutant: a call in tail position as any other, but without a mark.
GenTailApplies(e) ==
  CASE e.k = "app" -> PushArgs(e) \o GenExpr(SpineHead(e)) \o Instr("APPLY", 0)
    [] e.k = "lam" -> TailLam(GenTail(e.body))
    [] OTHER -> GenExpr(e)

\* gen_expr_tco_rec: code in tail position of a lambda.
GenTail(e) ==
  CASE e.k = "app" -> TailApp(PushArgs(e), GenExpr(SpineHead(e)))
    [] e.k = "lam" -> TailLam(GenTail(e.body))
    [] e.k = "let" -> TailLet(GenExpr(e.val), GenTail(e.body))
    [] OTHER -> GenExpr(e)

\* gen_expr_rec
GenExpr(e) ==
  CASE e.k = "int" -> IntCode(e.val)
    [] e.k = "lam" -> LamCode(GenTail(e.body))
    [] e.k = "app" -> AppCode(PushArgs(e), GenExpr(SpineHead(e)))
    [] e.k = "var" -> VarCode(e.index)
    [] e.k = "gvar" -> GVarCode(e.sym)
    [] e.k = "mkb" -> MkbCode(PushFields(e.fields), Len(e.fields))
    [] e.k = "let" -> LetCode(GenExpr(e.val), GenExpr(e.body))

\* wist_compiler_vm_gen_expr and wist_compiler_vm_gen_decl.
ExprCode(e) == ExprMain(GenExpr(LirGen(e, <<>>)))
\* Mutant: the code of a declaration has no end.
DeclCodeWithoutReturn(sym, e) ==
  GenExpr(LirGen(e, <<>>)) \o Instr("SETGLOBAL", sym)

DeclCode(sym, e) == DeclMain(sym, GenExpr(LirGen(e, <<>>)))
=============================================================================
