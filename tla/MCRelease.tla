----------------------------- MODULE MCRelease -----------------------------
(***************************************************************************)
(* Every closed term up to a size, parsed and released; and expressions    *)
(* after declarations they read, well-typed or not.                        *)
(***************************************************************************)
EXTENDS Release

Sym(n, l) == [name |-> n, len |-> l]
x == Sym("x", 1)
y == Sym("y", 1)
a == Sym("a", 1)
bb == Sym("bb", 2)
Expr(e) == [sym |-> NoSym, body |-> e]
Decl(s, e) == [sym |-> s, body |-> e]

\* The terms of n nodes over the names free, with binders from binders: a recursive
\* function, so that TLC evaluates the programs once.
Scoped(binders) ==
  LET T[free \in SUBSET {x, y, a}, n \in Nat] ==
        IF n = 1 THEN {Var(v) : v \in free} \cup {IntLit(1)}
        ELSE UNION {{Lam(v, t) : t \in T[free \cup {v}, n - 1]} : v \in binders}
          \cup UNION {{App(s, t) : s \in T[free, m], t \in T[free, n - 1 - m]} : m \in 1..n - 2}
          \cup UNION {{Tuple(<<s, t>>) : s \in T[free, m], t \in T[free, n - 1 - m]}
                        : m \in 1..n - 2}
          \cup UNION {{LetIn(v, s, t) : s \in T[free, m], t \in T[free \cup {v}, n - 1 - m]}
                        : m \in 1..n - 2, v \in binders}
  IN  T
UpTo(free, binders, n) == UNION {Scoped(binders)[free, m] : m \in 1..n}

Pair == Tuple(<<IntLit(1), IntLit(1)>>)
Id == Lam(x, Var(x))
AloneTerms == UpTo({}, {x, y}, 5)
         \cup {App(Lam(y, e), Pair) : e \in UpTo({y}, {x}, 4)}
         \cup {LetIn(y, Pair, e) : e \in UpTo({y}, {x}, 4)}
         \cup {LetIn(y, Lam(x, e), f) : e \in UpTo({x}, {x}, 3), f \in UpTo({y}, {x}, 3)}

Declared == {Pair, Id, Lam(x, Tuple(<<Var(x), IntLit(1)>>))}
Readers == UpTo({a}, {x}, 3)
Later == {Var(a), App(Var(a), IntLit(1)), Var(bb), Var(y), Tuple(<<Var(a), Var(a)>>),
          App(IntLit(1), Id), Tuple(<<App(IntLit(1), Var(a)), Var(bb)>>),
          Tuple(<<Lam(x, App(Var(x), Var(x))), Var(bb)>>)}

SomePrograms ==
  {<<Expr(e)>> : e \in AloneTerms}
    \cup {<<Decl(a, d), Expr(e), Expr(f)>> : d \in Declared, e \in Readers, f \in Later}
    \cup {<<Decl(a, d), Decl(bb, e), Expr(Tuple(<<Var(a), Var(bb)>>))>>
            : d \in Declared, e \in Readers}
=============================================================================
