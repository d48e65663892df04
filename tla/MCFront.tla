------------------------------ MODULE MCFront ------------------------------
(***************************************************************************)
(* Sources for type inference: every term up to a size, well-typed or not, *)
(* and the sources each known failure takes.                               *)
(***************************************************************************)
EXTENDS Front

Sym(n, l) == [name |-> n, len |-> l]
x == Sym("x", 1)
y == Sym("y", 1)
a == Sym("a", 1)
bb == Sym("bb", 2)
b == Sym("b", 1)

Expr(e) == [sym |-> NoSym, body |-> e]
Decl(s, e) == [sym |-> s, body |-> e]

\* The terms of n nodes over the names free, with binders from binders: a recursive
\* function, so that TLC evaluates the programs once.
Scoped(binders) ==
  LET T[free \in SUBSET {x, y, a, bb}, n \in Nat] ==
        IF n = 1 THEN {Var(v) : v \in free} \cup {IntLit(1)}
        ELSE UNION {{Lam(v, t) : t \in T[free \cup {v}, n - 1]} : v \in binders}
          \cup UNION {{App(s, t) : s \in T[free, m], t \in T[free, n - 1 - m]} : m \in 1..n - 2}
          \cup UNION {{Tuple(<<s, t>>) : s \in T[free, m], t \in T[free, n - 1 - m]}
                        : m \in 1..n - 2}
          \cup UNION {{LetIn(v, s, t) : s \in T[free, m], t \in T[free \cup {v}, n - 1 - m]}
                        : m \in 1..n - 2, v \in binders}
  IN  T
UpTo(free, binders, n) == UNION {Scoped(binders)[free, m] : m \in 1..n}

\* Alone: every closed term of up to 6 nodes over two names; terms under a y that is let
\* to be, or is given, the identity, or whose type is that of an enclosing lambda's
\* argument by way of a variable of its own; and terms beside an application of one argument
\* to another, which bind type variables that are the same by then.
Id == Lam(x, Var(x))
Chained(e) == App(Lam(x, LetIn(y, App(Id, Var(x)), e)), IntLit(5))
Beside(e) == Lam(x, Lam(y, Tuple(<<App(Var(x), Var(y)), e>>)))
AloneTerms == UpTo({}, {x, y}, 6)
         \cup {LetIn(y, Id, e) : e \in UpTo({y}, {x}, 5)}
         \cup {App(Lam(y, e), Id) : e \in UpTo({y}, {x}, 5)}
         \cup {Chained(e) : e \in UpTo({x, y}, {x}, 4)}
         \cup {Beside(e) : e \in UpTo({x, y}, {x}, 4)}

\* In a row: declarations of a, bb and b, a's length being b's, with the expressions that
\* read them.
Small == UpTo({a, bb}, {a}, 3)
Tiny == UpTo({a, bb}, {a}, 2)
SmallDecls == {Decl(s, e) : s \in {a, bb}, e \in Small} \cup {Decl(b, IntLit(1))}
TinyDecls == {Decl(s, e) : s \in {a, bb}, e \in Tiny} \cup {Decl(b, IntLit(1))}
Exprs(es) == {Expr(e) : e \in es}
SomePlans ==
  <<<<Exprs(AloneTerms)>>,
    <<SmallDecls, SmallDecls, Exprs(Small \cup {Var(b)})>>,
    <<SmallDecls, SmallDecls, TinyDecls>>,
    <<SmallDecls, Exprs(Small), TinyDecls>>>>

\* (\x -> let y = (\x -> x) x in x 1 end) 5
UnsafePlan == <<<<{Expr(Chained(App(Var(x), IntLit(1))))}>>>>
=============================================================================
