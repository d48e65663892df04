----------------------------- MODULE MCSession -----------------------------
(***************************************************************************)
(* Sessions for TLC: every small expression, a handful of declarations     *)
(* that use one another, and single programs the interpreter fails on.     *)
(***************************************************************************)
EXTENDS Session

-----------------------------------------------------------------------------
(* The well-typed programs up to a size: what a client may have compiled.  *)
(* Terms of a type are built from the variables in scope, so every one     *)
(* passes type inference.                                                  *)

INT == <<"int">>
Fun(a, b) == <<"fun", a, b>>
Pair(a, b) == <<"pair", a, b>>

I == INT
II == Fun(I, I)
III == Fun(I, II)
P == Pair(I, I)

ArgTypes == {I, II}
Types == {I, II, III, Fun(II, I), Fun(II, II), Fun(I, P), P}

\* ctx holds the types of the enclosing binders, the outermost first; the
\* entry of a binder is its position.  n is the number of nodes.
RECURSIVE Terms(_, _, _)
Terms(ctx, ty, n) ==
  IF n = 1
  THEN {Var(i) : i \in {j \in DOMAIN ctx : ctx[j] = ty}}
         \cup (IF ty = I THEN {IntLit(Len(ctx) + 1)} ELSE {})
  ELSE (IF ty[1] = "fun"
        THEN {Lam(Len(ctx) + 1, b) : b \in Terms(Append(ctx, ty[2]), ty[3], n - 1)}
        ELSE {})
    \cup (IF ty[1] = "pair"
          THEN UNION {{Tuple(<<a, b>>) : a \in Terms(ctx, ty[2], m),
                                         b \in Terms(ctx, ty[3], n - 1 - m)}
                        : m \in 1..n - 2}
          ELSE {})
    \cup UNION {{App(f, a) : f \in Terms(ctx, Fun(aty, ty), m),
                             a \in Terms(ctx, aty, n - 1 - m)}
                  : m \in 1..n - 2, aty \in {x \in ArgTypes : Fun(x, ty) \in Types}}
    \cup UNION {{LetIn(Len(ctx) + 1, v, b) : v \in Terms(ctx, vty, m),
                            b \in Terms(Append(ctx, vty), ty, n - 1 - m)}
                  : m \in 1..n - 2, vty \in ArgTypes}

TermsUpTo(ty, n) == UNION {Terms(<<>>, ty, m) : m \in 1..n}

\* Two ints in scope, brought there in each of the ways the code generator and
\* the interpreter tell apart: by let, as arguments of one application, and one
\* captured by a partial application before the other arrives.
Bodies(ty, n) == UNION {Terms(<<I, I>>, ty, m) : m \in 1..n}
LetBound(b) == LetIn(1, IntLit(1), LetIn(2, IntLit(2), b))
Applied(b) == App(App(Lam(1, Lam(2, b)), IntLit(1)), IntLit(2))
Captured(b) == LetIn(9, App(Lam(1, Lam(2, b)), IntLit(1)), App(Var(9), IntLit(2)))
InScope(ty, n) == UNION {{LetBound(b), Applied(b), Captured(b)} : b \in Bodies(ty, n)}

-----------------------------------------------------------------------------
(* Sessions.                                                               *)

Expr(e) == [sym |-> NoSym, body |-> e]
Decl(s, e) == [sym |-> s, body |-> e]

SessionChunks == {CodeOf(s) : s \in Alone \cup Together}

SmallSources == {Expr(e) : e \in TermsUpTo(I, 8) \cup TermsUpTo(P, 8) \cup InScope(P, 6)}

\* let k = \x -> \y -> (y, x), let p = k 5, and (p 6, k 7 8): a partial
\* application kept in a global outlives the evaluation that made it.
K == 101
Part == 102
ProjectSources ==
  {Decl(K, Lam(1, Lam(2, Tuple(<<Var(2), Var(1)>>)))),
   Decl(Part, App(GVar(K), IntLit(5))),
   Expr(Tuple(<<App(GVar(Part), IntLit(6)),
                App(App(GVar(K), IntLit(7)), IntLit(8))>>))}

\* let a = 1 in let b = 2 in (\c -> a) 3 end end
DeepSource == {Expr(LetIn(1, IntLit(1), LetIn(2, IntLit(2),
                      App(Lam(3, Var(1)), IntLit(3)))))}
=============================================================================
