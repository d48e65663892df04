------------------------------ MODULE MCReader ------------------------------
(***************************************************************************)
(* Programs for TLC: every short string of characters, every small term    *)
(* written out, whole and damaged, and pairs of sources.                   *)
(***************************************************************************)
EXTENDS Reader

Strings(chars, n) == UNION {[1..m -> chars] : m \in 0..n}

ShortTexts == Strings({"x", "1", "-", ">", " ", "$", "_"}, 4) \cup
              Strings({"0", "9", "-"}, 5) \cup
              Strings({"x", "(", ")", ",", "\\", "-", ">", "="}, 4)

\* The words of a term, and a term's arguments in parentheses where they must be.
w(s) == CASE s = "let" -> StrLet [] s = "in" -> StrIn [] s = "end" -> StrEnd
          [] s = "->" -> <<"-", ">">> [] OTHER -> <<s>>

RECURSIVE Written(_), AtomOf(_)
AtomOf(e) == IF e.k \in {"lam", "app"} THEN <<"(">> \o Written(e) \o <<")">> ELSE Written(e)
Written(e) ==
  CASE e.k = "var" -> <<e.var>>
    [] e.k = "int" -> <<"7">>
    [] e.k = "lam" -> <<"\\", e.var, "->">> \o Written(e.body)
    [] e.k = "app" -> (IF e.fun.k = "app" THEN Written(e.fun) ELSE AtomOf(e.fun))
                        \o AtomOf(e.arg)
    [] e.k = "let" -> <<"let", e.var, "=">> \o Written(e.val) \o <<"in">>
                        \o Written(e.body) \o <<"end">>
    [] e.k = "tuple" -> <<"(">> \o Written(e.fields[1]) \o <<",">> \o AtomOf(e.fields[2])
                          \o <<")">>

RECURSIVE TermsOf(_)
TermsOf(n) ==
  IF n = 1 THEN {Var("x"), IntLit(7)}
  ELSE {Lam("y", t) : t \in TermsOf(n - 1)}
    \cup UNION {UNION {{App(s, t), Tuple(<<s, t>>), LetIn("z", s, t)}
                  : s \in TermsOf(m), t \in TermsOf(n - 1 - m)} : m \in 1..n - 2}

Sentences == {Written(t) : t \in TermsOf(1) \cup TermsOf(2) \cup TermsOf(3) \cup TermsOf(4)}

\* One word lost, the rest cut off, or one word replaced by another.
AllWords == {"x", "7", "(", ")", ",", "\\", "->", "=", "let", "in", "end"}
Damaged(s) == {SubSeq(s, 1, i) : i \in 0..Len(s)}
         \cup {RemoveAt(s, i) : i \in DOMAIN s}
         \cup {ReplaceAt(s, i, v) : i \in DOMAIN s, v \in AllWords}

\* Words apart by a space.
TextFor(s) == FlattenSeq([i \in DOMAIN s |-> w(s[i]) \o (IF i < Len(s) THEN <<" ">> ELSE <<>>)])

ExprTexts == {TextFor(s) : s \in UNION {Damaged(s) : s \in Sentences}}
LongTexts == {TextFor(Written(t)) : t \in TermsOf(5)}
DeclTexts == {TextFor(<<"y", "=">> \o s) : s \in Sentences}
       \cup {TextFor(s) : s \in UNION {Damaged(<<"y", "=">> \o Written(t))
                                         : t \in TermsOf(1) \cup TermsOf(2)}}

\* Names again, and an unexpected character just before the end.
PairTexts == {<<"x">>, <<"x", "1">>, StrLet, StrLet \o <<"x">>, <<"i">>, <<"$", "x", "$">>,
              <<"x", "-">>, <<"x", " ", "=", " ", "x">>}

\* Literals about the least and the greatest integer (IntHalf = 512), with a leading zero
\* and with a digit more.
BoundaryTexts == {sign \o n : sign \in {<<>>, <<"-">>},
                  n \in {<<"5", "1", "1">>, <<"5", "1", "2">>, <<"5", "1", "3">>,
                         <<"0", "5", "1", "2">>, <<"5", "1", "2", "0">>, <<"1", "0", "2", "4">>}}

One(texts_, d) == {<<[text |-> t, decl |-> d]>> : t \in texts_}
ReaderPrograms ==
  One(ShortTexts \cup BoundaryTexts, FALSE) \cup One(ExprTexts \cup LongTexts, FALSE) \cup One(DeclTexts, TRUE)
    \cup {<<[text |-> s, decl |-> c], [text |-> t, decl |-> d]>>
            : s \in PairTexts, t \in PairTexts, c \in BOOLEAN, d \in BOOLEAN}
NoTexts == {}
NoGarbage == {}
=============================================================================
