------------------------------- MODULE Parser -------------------------------
(***************************************************************************)
(* The recursive descent of lib/parser.c.  The state p of a parse is       *)
(*   toks, at      the tokens and the number of the current one            *)
(*   diags, ix     the diagnostics of the result, and comp->srclocs        *)
(*   fault         the parser has followed a NULL pointer or read behind   *)
(*                 the token for the end of the input                      *)
(* and every function returns the node it built, or Null, in e.  Nodes are *)
(* those of Ast with their location; a binder without a name has NoName.   *)
(***************************************************************************)
EXTENDS SrcLoc, Ast, SequencesExt

Null == [k |-> "null"]
NoName == 0

Peek(p) == IF p.at <= Len(p.toks) THEN p.toks[p.at].t ELSE "NONE"
PeekTok(p) == p.toks[p.at]
Skip(p) == [p EXCEPT !.at = @ + 1]
Faulty(p) == [p EXCEPT !.fault = TRUE]
Report(p, kind, tok) == [p EXCEPT !.diags = Append(@, [kind |-> kind, loc |-> tok.loc])]
Gives(e, p) == [e |-> e, p |-> p]

At(e, loc) == e @@ [loc |-> loc]
\* A node from the location l1 to l2. (Tokens are not empty and the sources that
\* are parsed are short, so that locations are narrow and combine to one.)
Spanning(e, l1, l2, p) ==
  LET r == CHOOSE c \in Combine(p.ix, l1, l2) : TRUE
  IN  Gives(At(e, r.loc), [p EXCEPT !.ix = r.ix])

NoToken == [t |-> "NONE", val |-> 0, loc |-> [start |-> 0, len |-> 1]]

\* The token is taken whatever it is. (Mutant: the one behind it is reported.)
ExpectReportsNext(p, t) ==
  IF p.fault \/ Peek(p) = "NONE" THEN [tok |-> NoToken, p |-> Faulty(p)]
  ELSE LET next == Skip(p) IN
       [tok |-> PeekTok(p),
        p |-> IF Peek(p) = t THEN next
              ELSE Report(next, "EXPECTED_TOKEN",
                          IF Peek(next) = "NONE" THEN NoToken ELSE PeekTok(next))]
Expect(p, t) ==
  IF p.fault \/ Peek(p) = "NONE" THEN [tok |-> NoToken, p |-> Faulty(p)]
  ELSE [tok |-> PeekTok(p),
        p |-> IF Peek(p) = t THEN Skip(p)
              ELSE Report(Skip(p), "EXPECTED_TOKEN", PeekTok(p))]

\* The name in a token, garbage unless it is a symbol.
NameIn(tok) == IF tok.t = "SYM" THEN tok.val ELSE NoName

\* f applied to a. (Mutant: a to f.)
ApplySwapped(f, a, p) == Spanning(App(a, f), f.loc, a.loc, p)
Apply(f, a, p) == Spanning(App(f, a), f.loc, a.loc, p)

RECURSIVE ParseExpr(_), ParseLam(_), ParseApp(_), ParseArgs(_, _), ParseAtom(_),
          ParseAtomMaybe(_), ParseParen(_), ParseLet(_), ParseTuple(_, _, _)

LamOf(open, name, body) ==
  IF body.p.fault \/ body.e = Null THEN Gives(Null, Faulty(body.p))
  ELSE Spanning(Lam(NameIn(name.tok), body.e), open.loc, body.e.loc, body.p)

ParseLam(p) ==
  LET name == Expect(Skip(p), "SYM")
  IN  LamOf(PeekTok(p), name, ParseExpr(Expect(name.p, "THIN_ARROW").p))

\* Mutant: what parse_atomic_expr_maybe found is not reported.
ParseAtomInSilence(p) == ParseAtomMaybe(p)
ParseAtom(p) ==
  LET r == ParseAtomMaybe(p)
  IN  IF r.e # Null \/ r.p.fault THEN r
      ELSE IF Peek(r.p) = "NONE" THEN Gives(Null, Faulty(r.p))
      ELSE Gives(Null, Report(r.p, "EXPECTED_EXPR", PeekTok(r.p)))

\* parse_app_expr, and the loop over its arguments.
ParseApp(p) == LET f == ParseAtom(p) IN ParseArgs(f.e, f.p)

ParseArgs(full, p) ==
  LET a == ParseAtomMaybe(p)
      app == Apply(full, a.e, a.p)
  IN  IF p.fault THEN Gives(Null, p)
      ELSE IF a.p.fault \/ (a.e # Null /\ full = Null) THEN Gives(Null, Faulty(a.p))
      ELSE IF a.e = Null THEN Gives(full, a.p)
      ELSE ParseArgs(app.e, app.p)

ParseExpr(p) == IF p.fault \/ Peek(p) = "NONE" THEN Gives(Null, Faulty(p))
                ELSE IF Peek(p) = "BACKSLASH" THEN ParseLam(p) ELSE ParseApp(p)

\* A tuple from its first comma on; only its first field may be a whole expression.
ParseTuple(open, fields, p) ==
  LET f == ParseAtom(Skip(p))
      close == Expect(p, "RPAREN")
  IN  IF p.fault \/ Peek(p) = "NONE" THEN Gives(Null, Faulty(p))
      ELSE IF Peek(p) = "COMMA" THEN ParseTuple(open, Append(fields, f.e), f.p)
      ELSE Spanning(Tuple(fields), open.loc, close.tok.loc, close.p)

\* Behind "(": a tuple, or an expression whose location takes the parentheses in.
ParenOf(open, inner, close) ==
  IF inner.p.fault THEN inner
  ELSE IF Peek(inner.p) = "COMMA" THEN ParseTuple(open, <<inner.e>>, inner.p)
  ELSE IF close.p.fault \/ inner.e = Null THEN Gives(inner.e, close.p)
  ELSE Spanning([x \in DOMAIN inner.e \ {"loc"} |-> inner.e[x]],
                open.loc, close.tok.loc, close.p)

ParseParen(p) ==
  LET inner == ParseExpr(Skip(p))
  IN  ParenOf(PeekTok(p), inner, Expect(inner.p, "RPAREN"))

LetOf(open, name, val, body, close) ==
  IF close.p.fault THEN Gives(Null, close.p)
  ELSE Spanning(LetIn(NameIn(name.tok), val.e, body.e), open.loc, close.tok.loc, close.p)

ParseLet(p) ==
  LET name == Expect(Skip(p), "SYM")
      val == ParseExpr(Expect(name.p, "EQ").p)
      body == ParseExpr(Expect(val.p, "IN").p)
  IN  LetOf(PeekTok(p), name, val, body, Expect(body.p, "END"))

\* parse_atomic_expr_maybe: Null without a word where an expression may end.
ParseAtomMaybe(p) ==
  LET t == Peek(p)
  IN  CASE p.fault \/ t = "NONE" -> Gives(Null, Faulty(p))
        [] ~p.fault /\ t = "LPAREN" -> ParseParen(p)
        [] ~p.fault /\ t = "LET" -> ParseLet(p)
        [] ~p.fault /\ t = "SYM" -> Gives(At(Var(PeekTok(p).val), PeekTok(p).loc), Skip(p))
        [] ~p.fault /\ t = "INT" -> Gives(At(IntLit(PeekTok(p).val), PeekTok(p).loc), Skip(p))
        [] ~p.fault /\ t \in {"EOI", "RPAREN", "COMMA", "IN", "END"} -> Gives(Null, p)
        [] ~p.fault /\ t \in {"BACKSLASH", "THIN_ARROW", "EQ"} ->
             Gives(Null, Report(p, "EXPECTED_EXPR", PeekTok(p)))

Fresh(toks, diags, ix) ==
  [toks |-> toks, at |-> 1, diags |-> diags, ix |-> ix, fault |-> FALSE]

\* wist_parse_expr and wist_parse_decl.
WistParseExpr(toks, diags, ix) == ParseExpr(Fresh(toks, diags, ix))

BindOf(name, body) ==
  IF body.p.fault \/ body.e = Null THEN Gives(Null, Faulty(body.p))
  ELSE Spanning([k |-> "bind", sym |-> NameIn(name.tok), body |-> body.e],
                name.tok.loc, body.e.loc, body.p)

WistParseDecl(toks, diags, ix) ==
  LET name == Expect(Fresh(toks, diags, ix), "SYM")
  IN  BindOf(name, ParseExpr(Expect(name.p, "EQ").p))
=============================================================================
