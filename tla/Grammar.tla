------------------------------ MODULE Grammar ------------------------------
(***************************************************************************)
(* The language lib/parser.c is for, as a grammar:                         *)
(*   decl ::= SYM "=" expr                                                 *)
(*   expr ::= "\" SYM "->" expr  |  atom+                                  *)
(*   atom ::= SYM | INT | "(" expr ")" | "(" expr ("," atom)+ ")"          *)
(*          | "let" SYM "=" expr "in" expr "end"                           *)
(* Each operator gives the trees that the tokens i..j-1 of T derive, every *)
(* node with the span of its tokens, parentheses included.  Nothing is     *)
(* read ahead and no state is kept: the parser is compared with it.        *)
(***************************************************************************)
EXTENDS Integers, Sequences, Ast, TLC

Over(T, i, j, e) == e @@ [loc |-> [start |-> T[i].from, len |-> T[j - 1].to - T[i].from]]
Is(T, i, kinds) == \A n \in DOMAIN kinds : T[i + n - 1].t = kinds[n]

RECURSIVE Exprs(_, _, _), Apps(_, _, _), Atoms(_, _, _), FieldLists(_, _, _)

Exprs(T, i, j) ==
  Apps(T, i, j) \cup
  (IF j - i > 3 /\ Is(T, i, <<"BACKSLASH", "SYM", "THIN_ARROW">>)
   THEN {Over(T, i, j, Lam(T[i + 1].val, b)) : b \in Exprs(T, i + 3, j)} ELSE {})

Apps(T, i, j) ==
  Atoms(T, i, j) \cup
  UNION {LET as == Atoms(T, m, j)
         IN  IF as = {} THEN {}
             ELSE {Over(T, i, j, App(f, a)) : f \in Apps(T, i, m), a \in as}
           : m \in i + 1..j - 1}

\* ("," atom)+
FieldLists(T, i, j) ==
  IF j - i < 2 \/ ~Is(T, i, <<"COMMA">>) THEN {}
  ELSE {<<a>> : a \in Atoms(T, i + 1, j)} \cup
       UNION {{<<a>> \o rest : a \in Atoms(T, i + 1, m), rest \in FieldLists(T, m, j)}
                : m \in i + 2..j - 1}

Paren(T, i, j) ==
  {Over(T, i, j, [x \in DOMAIN e \ {"loc"} |-> e[x]]) : e \in Exprs(T, i + 1, j - 1)}
Tuples(T, i, j) ==
  UNION {{Over(T, i, j, Tuple(<<e>> \o rest)) : e \in Exprs(T, i + 1, m),
                                                rest \in FieldLists(T, m, j - 1)}
           : m \in {n \in i + 2..j - 2 : Is(T, n, <<"COMMA">>)}}
Lets(T, i, j) ==
  UNION {{Over(T, i, j, LetIn(T[i + 1].val, v, b)) : v \in Exprs(T, i + 3, m),
                                                     b \in Exprs(T, m + 1, j - 1)}
           : m \in {n \in i + 4..j - 2 : Is(T, n, <<"IN">>)}}

Atoms(T, i, j) ==
  CASE j = i + 1 /\ Is(T, i, <<"SYM">>) -> {Over(T, i, j, Var(T[i].val))}
    [] j = i + 1 /\ Is(T, i, <<"INT">>) -> {Over(T, i, j, IntLit(T[i].val))}
    [] j > i + 2 /\ Is(T, i, <<"LPAREN">>) /\ Is(T, j - 1, <<"RPAREN">>) ->
         Paren(T, i, j) \cup Tuples(T, i, j)
    [] j > i + 6 /\ Is(T, i, <<"LET", "SYM", "EQ">>) /\ Is(T, j - 1, <<"END">>) ->
         Lets(T, i, j)
    [] OTHER -> {}

Decls(T, i, j) ==
  IF j - i > 2 /\ Is(T, i, <<"SYM", "EQ">>)
  THEN {Over(T, i, j, [k |-> "bind", sym |-> T[i].val, body |-> b])
          : b \in Exprs(T, i + 2, j)}
  ELSE {}
=============================================================================
