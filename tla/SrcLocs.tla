------------------------------ MODULE SrcLocs -------------------------------
(***************************************************************************)
(* The source location index of a compiler over a session.  A declaration  *)
(* adds its text as a segment (lib/compiler.c:50), an expression does not. *)
(* Lexer and parser then locate tokens in the text they read, and combine  *)
(* the locations of tokens and nodes of that text.                         *)
(***************************************************************************)
EXTENDS SrcLoc

CONSTANTS
  Lengths,    \* lengths of sources
  Spans,      \* [from, to]: what is located in a source
  MaxMade,    \* bound: locations made
  MaxTexts    \* bound: sources read

ASSUME SourcesAssumption ==
  /\ Lengths \subseteq Nat
  /\ Spans \subseteq {s \in [from : Nat, to : Nat] : s.from <= s.to}

VARIABLES
  ix,     \* comp->srclocs
  text,   \* the source being read: its number, segment (0: none) and length
  made    \* history: the locations made, and what each was made for

locVars == <<ix, text, made>>

Text == [no : Nat, seg : Nat, len : Nat]

ReadDecl(len) ==
  /\ text.no < MaxTexts
  /\ ix' = AddSegment(ix, len)
  /\ text' = [no |-> text.no + 1, seg |-> Len(ix.segments) + 1, len |-> len]
  /\ UNCHANGED made

ReadExpr(len) ==
  /\ text.no < MaxTexts
  /\ text' = [no |-> text.no + 1, seg |-> 0, len |-> len]
  /\ UNCHANGED <<ix, made>>

Made(loc, from, to) == [loc |-> loc, text |-> text, from |-> from, to |-> to]

\* lexer_get_loc: tokens up to the one for the end of the source, which is
\* located one beyond it, and characters not expected, without a length.
Locate(from, to) ==
  /\ text.no > 0 /\ to <= text.len + 1 /\ Cardinality(made) < MaxMade
  /\ ix' = Add(ix, from, to).ix
  /\ made' = made \cup {Made(Add(ix, from, to).loc, from, to)}
  /\ UNCHANGED text

\* The parser combines locations of tokens and nodes of the source it reads,
\* none of them empty.
Join(m, n) ==
  /\ m.text = text /\ n.text = text /\ Cardinality(made) < MaxMade
  /\ m.from < m.to /\ n.from < n.to /\ m.from <= n.from /\ m.to <= n.to
  /\ \E r \in Combine(ix, m.loc, n.loc) :
       /\ ix' = r.ix
       /\ made' = made \cup {Made(r.loc, m.from, n.to)}
  /\ UNCHANGED text

Init == ix = EmptyIndex /\ text = [no |-> 0, seg |-> 0, len |-> 0] /\ made = {}

Next == \/ \E len \in Lengths : ReadDecl(len) \/ ReadExpr(len)
        \/ \E s \in Spans : Locate(s.from, s.to)
        \/ \E m, n \in made : Join(m, n)

Spec == Init /\ [][Next]_locVars

-----------------------------------------------------------------------------
TypeOK ==
  /\ ix \in Index
  /\ text \in Text
  /\ \A m \in made : m.loc \in Loc /\ m.text \in Text /\ m.from \in Nat /\ m.to \in Nat

Meant(m) == [seg |-> m.text.seg, at |-> m.from, len |-> m.to - m.from]

\* A location made while the first declaration is read, neither empty nor ending
\* beyond what 16 bits hold, stands for ever for the text it was made for,
\* combined ones included and whatever is read and located later.
FirstSourceKept ==
  \A m \in made : m.text.seg = 1 /\ m.from < m.to /\ m.to <= MaxNarrow =>
                    Slices(ix, m.loc) = {Meant(m)}

\* What a narrow location stands for never changes once it stands for anything:
\* later sources and wide locations do not move it.
NarrowIsStable ==
  [][\A m \in made : m.loc.len # 0 /\ Nowhere \notin Slices(ix, m.loc) =>
                       Slices(ix', m.loc) = Slices(ix, m.loc)]_locVars
=============================================================================
