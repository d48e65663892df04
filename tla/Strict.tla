------------------------------- MODULE Strict -------------------------------
(***************************************************************************)
(* What a Wist expression means: strict evaluation, arguments before the   *)
(* call, with what the variables name bound to values.  It knows nothing   *)
(* of types, bytecode, stacks or de Bruijn indices, and is what the result *)
(* of an inference or of an evaluation is compared with.                   *)
(***************************************************************************)
EXTENDS Integers, Sequences, SequencesExt

Bind(f, x, v) == [y \in DOMAIN f \cup {x} |-> IF y = x THEN v ELSE f[y]]
Empty == [x \in {} |-> 0]

\* Evaluation met an unknown name or applied what is no function.
Wrong == [k |-> "wrong"]
IsWrong(v) == v.k = "wrong"

\* rho gives the variables in scope their values, defs the globals.
RECURSIVE Denote(_, _, _)
Denote(e, rho, defs) ==
  CASE e.k = "int" -> e
    [] e.k = "var" -> IF e.var \in DOMAIN rho THEN rho[e.var]
                      ELSE IF e.var \in DOMAIN defs THEN defs[e.var] ELSE Wrong
    [] e.k = "gvar" -> IF e.sym \in DOMAIN defs THEN defs[e.sym] ELSE Wrong
    [] e.k = "lam" -> [k |-> "fun", lam |-> e, rho |-> rho]
    [] e.k = "tuple" ->
         LET vs == [i \in DOMAIN e.fields |-> Denote(e.fields[i], rho, defs)]
         IN  IF \E i \in DOMAIN vs : IsWrong(vs[i]) THEN Wrong
             ELSE [k |-> "tuple", fields |-> vs]
    [] e.k = "let" ->
         LET v == Denote(e.val, rho, defs)
         IN  IF IsWrong(v) THEN Wrong ELSE Denote(e.body, Bind(rho, e.var, v), defs)
    [] e.k = "app" ->
         LET f == Denote(e.fun, rho, defs)
             a == Denote(e.arg, rho, defs)
         IN  IF f.k # "fun" \/ IsWrong(a) THEN Wrong
             ELSE Denote(f.lam.body, Bind(f.rho, f.lam.var, a), defs)

\* What a client can tell of a value: functions are opaque.
RECURSIVE Shown(_)
Shown(d) ==
  CASE d.k = "int" -> <<"int", d.val>>
    [] d.k = "fun" -> <<"closure">>
    [] d.k = "tuple" -> <<"tuple">> \o [i \in DOMAIN d.fields |-> Shown(d.fields[i])]
    [] OTHER -> <<"wrong">>

\* The globals an expression reads.
RECURSIVE Reads(_)
Reads(e) ==
  CASE e.k = "gvar" -> {e.sym}
    [] e.k = "lam" -> Reads(e.body)
    [] e.k = "let" -> Reads(e.val) \cup Reads(e.body)
    [] e.k = "app" -> Reads(e.fun) \cup Reads(e.arg)
    [] e.k = "tuple" -> UNION {Reads(e.fields[i]) : i \in DOMAIN e.fields}
    [] OTHER -> {}
=============================================================================
