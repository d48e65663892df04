-------------------------------- MODULE Ast --------------------------------
(***************************************************************************)
(* The expressions of inc/wist/ast.h: a node is a record with its kind in  *)
(* k.  Variables and binders carry a symbol after parsing, and the entry   *)
(* the binder made (wist_ast_var_entry) after type inference; a variable   *)
(* that names a declaration has become a gvar by then.                     *)
(***************************************************************************)

App(f, a) == [k |-> "app", fun |-> f, arg |-> a]
Lam(x, b) == [k |-> "lam", var |-> x, body |-> b]
LetIn(x, e, b) == [k |-> "let", var |-> x, val |-> e, body |-> b]
Var(x) == [k |-> "var", var |-> x]
GVar(s) == [k |-> "gvar", sym |-> s]
Tuple(es) == [k |-> "tuple", fields |-> es]
IntLit(n) == [k |-> "int", val |-> n]
=============================================================================
