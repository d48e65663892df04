------------------------------ MODULE SymIndex ------------------------------
(***************************************************************************)
(* Interned symbols (lib/sym.c): a list of strings, the newest first, that *)
(* is searched from its head.  A symbol, a pointer to its entry in the     *)
(* code, is the entry's number counted from the oldest.                    *)
(***************************************************************************)
EXTENDS Integers, Sequences, SequencesExt

StrLet == <<"l", "e", "t">>
StrIn == <<"i", "n">>
StrEnd == <<"e", "n", "d">>

\* wist_sym_index_init interns the keywords.
KeywordSyms == <<StrEnd, StrIn, StrLet>>
LetSym == 1
InSym == 2
EndSym == 3

SymAt(syms, i) == Len(syms) - i + 1
StrOf(syms, sym) == syms[SymAt(syms, sym)]

\* Mutant: strings of one length are taken for the same.
SearchByLength(syms, str) ==
  LET i == SelectInSeq(syms, LAMBDA s : Len(s) = Len(str))
  IN  IF i > 0 THEN [syms |-> syms, sym |-> SymAt(syms, i)]
      ELSE [syms |-> <<str>> \o syms, sym |-> Len(syms) + 1]

\* The index and the symbol after wist_sym_index_search.
Search(syms, str) ==
  LET i == SelectInSeq(syms, LAMBDA s : s = str)
  IN  IF i > 0 THEN [syms |-> syms, sym |-> SymAt(syms, i)]
      ELSE [syms |-> <<str>> \o syms, sym |-> Len(syms) + 1]
=============================================================================
