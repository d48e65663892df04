------------------------------- MODULE Reader -------------------------------
(***************************************************************************)
(* From text to tree: wist_compiler_parse_expr and wist_compiler_parse_decl*)
(* of lib/compiler.c up to the point where type inference is called.  A    *)
(* client has a program, a sequence of sources, read by one compiler: the  *)
(* symbols and the locations of one are there for the next.                *)
(***************************************************************************)
EXTENDS Lexer, Parser, Grammar

CONSTANT Programs   \* sequences of [text, decl]

VARIABLES
  program,   \* what the client reads, in order
  result,    \* what became of the last source: "none" so far, "read" or "crashed"
  tree,      \* the node the parser returned
  at,        \* and the token it stopped at
  handed     \* the node type inference was given, or Null

readerVars == <<lexVars, program, result, tree, at, handed>>

IsDecl == program[texts].decl

\* A source is taken up: the result is new and the text is lexed.
TakeUp(s) ==
  /\ WistLex(s.text, s.decl)
  /\ result' = "none" /\ tree' = Null /\ at' = 0 /\ handed' = Null
  /\ UNCHANGED program

ReadNext ==
  /\ mode = "idle" /\ result # "crashed" /\ texts < Len(program)
  /\ TakeUp(program[texts + 1])

Lex == LexNext /\ UNCHANGED <<program, result, tree, at, handed>>

\* Mutant: errors do not keep an expression from type inference.
HandOnAnyway(r) == r.e

\* An expression goes on to type inference unless errors were reported, a
\* declaration whatever was reported (lib/compiler.c:63, 97).
HandOn(r) == IF ~IsDecl /\ r.p.diags # <<>> THEN Null ELSE r.e

Parse ==
  LET r == IF IsDecl THEN WistParseDecl(tokens, diags, ix)
                     ELSE WistParseExpr(tokens, diags, ix)
  IN  /\ mode = "done"
      /\ mode' = "idle"
      /\ diags' = r.p.diags /\ ix' = r.p.ix
      /\ tree' = r.e /\ at' = r.p.at
      /\ IF r.p.fault THEN result' = "crashed" /\ handed' = Null
                      ELSE result' = "read" /\ handed' = HandOn(r)
      /\ UNCHANGED <<src, start, end, invalid, neg, total, tokens, syms, texts,
                     skipped, program>>

ReaderInit ==
  /\ LexInit /\ program \in Programs
  /\ result = "none" /\ tree = Null /\ at = 0 /\ handed = Null

ReaderNext == ReadNext \/ Lex \/ Parse

\* wist_lex calls lex_next until it returns the end of the input.
ReaderSpec == ReaderInit /\ [][ReaderNext]_readerVars /\ WF_readerVars(Lex)

-----------------------------------------------------------------------------
\* The parser had nothing to report.
Clean == result = "read" /\ \A n \in DOMAIN diags : diags[n].kind = "UNEXPECTED_CHAR"
Derived(j) == IF IsDecl THEN Decls(tokens, 1, j) ELSE Exprs(tokens, 1, j)

\* What is read without a parser's diagnostic is what the grammar derives from the tokens it
\* took, every node where its tokens are; and what is a sentence of the grammar as
\* a whole is read without one, to its end. (What follows a sentence that
\* cannot go on is not looked at.)
ParsesGrammar ==
  result # "none" =>
    /\ Clean /\ tree # Null => Derived(at) = {tree}
    /\ \A t \in Derived(Len(tokens)) : Clean /\ tree = t /\ at = Len(tokens)

RECURSIVE Complete(_)
Complete(e) ==
  CASE e.k = "null" -> FALSE
    [] e.k = "lam" -> e.var # NoName /\ Complete(e.body)
    [] e.k = "app" -> Complete(e.fun) /\ Complete(e.arg)
    [] e.k = "let" -> e.var # NoName /\ Complete(e.val) /\ Complete(e.body)
    [] e.k = "tuple" -> \A i \in DOMAIN e.fields : Complete(e.fields[i])
    [] e.k = "bind" -> e.sym # NoName /\ Complete(e.body)
    [] OTHER -> TRUE

\* Whenever the parser leaves something out it has told why, and not the lexer for it;
\* and type inference is given no incomplete expression at all. (A declaration it is
\* given as it is, lib/compiler.c:61.)
NoSilentHole ==
  /\ result = "read" /\ ~Complete(tree) => ~Clean
  /\ handed # Null /\ ~IsDecl => Complete(handed)

\* What is told of the token n.
Told(kind, n) == \E i \in DOMAIN diags : diags[i].kind = kind /\ diags[i].loc = tokens[n].loc

\* The parser comes to stand behind its tokens (lib/parser.c:73) only when expect took the
\* one for the end of the input for another, one token and no more, and the report of
\* that is its last; whether it reads there, then, or comes back. Where it still stands
\* among them, all that stops it is a NULL pointer whose location it reads
\* (lib/parser.c:113, 121, 231), and there it has told at which token an expression is missing.
CrashesExplained ==
  result # "none" =>
    /\ at > Len(tokens) =>
         /\ at = Len(tokens) + 1
         /\ Last(diags) = [kind |-> "EXPECTED_TOKEN", loc |-> Last(tokens).loc]
    /\ at <= Len(tokens) /\ result = "crashed" => \E n \in 1..at : Told("EXPECTED_EXPR", n)
=============================================================================
