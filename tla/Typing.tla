------------------------------- MODULE Typing -------------------------------
(***************************************************************************)
(* The principal type of an expression, by definition: a variable for the  *)
(* type of every node, named by the path to it, the equations the typing   *)
(* rules put between them, and their most general solution by              *)
(* substitution.  There is no scope list, no binding in place and no       *)
(* pruning here; lib/sema.c is compared with it.                           *)
(***************************************************************************)
EXTENDS Integers, Sequences, SequencesExt

TInt == [t |-> "int"]
TVar(p) == [t |-> "var", id |-> p]
TFun(a, b) == [t |-> "fun", in |-> a, out |-> b]
TTuple(ts) == [t |-> "tuple", fields |-> ts]

Node(p, i) == Append(p, i)
Extend(env, x, b) == [y \in DOMAIN env \cup {x} |-> IF y = x THEN b ELSE env[y]]

\* The equations of e at path p. env gives the names in scope
\* their types: those of lambdas' arguments and of let-bound values alike.
RECURSIVE Equations(_, _, _)
Equations(e, p, env) ==
  LET Child(i, sub, in) == Equations(sub, Node(p, i), in)
  IN  CASE e.k = "int" -> <<<<TVar(p), TInt>>>>
        [] e.k = "var" ->
             IF e.var \in DOMAIN env THEN <<<<TVar(p), env[e.var]>>>>
                                     ELSE <<<<TInt, TTuple(<<>>)>>>>
        [] e.k = "lam" ->
             Child(1, e.body, Extend(env, e.var, TVar(Node(p, 2))))
               \o <<<<TVar(p), TFun(TVar(Node(p, 2)), TVar(Node(p, 1)))>>>>
        [] e.k = "let" ->
             Child(1, e.val, env)
               \o Child(2, e.body, Extend(env, e.var, TVar(Node(p, 1))))
               \o <<<<TVar(p), TVar(Node(p, 2))>>>>
        [] e.k = "app" ->
             Child(1, e.fun, env) \o Child(2, e.arg, env)
               \o <<<<TVar(Node(p, 1)), TFun(TVar(Node(p, 2)), TVar(p))>>>>
        [] e.k = "tuple" ->
             FlattenSeq([i \in DOMAIN e.fields |-> Child(i, e.fields[i], env)])
               \o <<<<TVar(p), TTuple([i \in DOMAIN e.fields |-> TVar(Node(p, i))])>>>>

RECURSIVE Names(_)
Names(ty) == CASE ty.t = "var" -> <<ty.id>>
               [] ty.t = "fun" -> Names(ty.in) \o Names(ty.out)
               [] ty.t = "tuple" -> FlattenSeq([i \in DOMAIN ty.fields |-> Names(ty.fields[i])])
               [] OTHER -> <<>>

RECURSIVE Replace1(_, _, _)
Replace1(ty, v, by) ==
  CASE ty.t = "var" -> IF ty.id = v THEN by ELSE ty
    [] ty.t = "fun" -> TFun(Replace1(ty.in, v, by), Replace1(ty.out, v, by))
    [] ty.t = "tuple" -> TTuple([i \in DOMAIN ty.fields |-> Replace1(ty.fields[i], v, by)])
    [] OTHER -> ty

Unsolvable == [ok |-> FALSE, type |-> TInt]

\* The solution of a list of equations, applied to the type ty.
RECURSIVE Solve(_, _)
Solve(eqs, ty) ==
  IF eqs = <<>> THEN [ok |-> TRUE, type |-> ty]
  ELSE LET a == Head(eqs)[1]
           b == Head(eqs)[2]
           rest == Tail(eqs)
           With(v, by) == IF v \in ToSet(Names(by)) THEN Unsolvable
                          ELSE Solve([i \in DOMAIN rest |->
                                        <<Replace1(rest[i][1], v, by),
                                          Replace1(rest[i][2], v, by)>>],
                                     Replace1(ty, v, by))
       IN  CASE a = b -> Solve(rest, ty)
             [] a # b /\ a.t = "var" -> With(a.id, b)
             [] a.t # "var" /\ b.t = "var" -> With(b.id, a)
             [] a # b /\ a.t = "fun" /\ b.t = "fun" ->
                  Solve(<<<<a.in, b.in>>, <<a.out, b.out>>>> \o rest, ty)
             [] a # b /\ a.t = "tuple" /\ b.t = "tuple" /\ Len(a.fields) = Len(b.fields) ->
                  Solve([i \in DOMAIN a.fields |-> <<a.fields[i], b.fields[i]>>] \o rest, ty)
             [] OTHER -> Unsolvable

\* Type variables numbered from 0 in the order they appear.
Numbered(ty) ==
  LET seen == FoldLeft(LAMBDA acc, v : IF v \in ToSet(acc) THEN acc ELSE Append(acc, v),
                       <<>>, Names(ty))
      Num[i \in 0..Len(seen)] ==
        IF i = 0 THEN ty
        ELSE Replace1(Num[i - 1], seen[i], [t |-> "gen", id |-> i - 1])
  IN  Num[Len(seen)]

Principal(e) ==
  LET s == Solve(Equations(e, <<>>, [x \in {} |-> 0]), TVar(<<>>))
  IN  IF s.ok THEN [s EXCEPT !.type = Numbered(@)] ELSE s
=============================================================================
