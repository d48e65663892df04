------------------------------- MODULE Front -------------------------------
(***************************************************************************)
(* The compiler as its client sees it before code is generated             *)
(* (lib/compiler.c): expressions and declarations are parsed and typed one *)
(* after the other, and what a declaration leaves in the toplevel map is   *)
(* there for all that follows.                                             *)
(***************************************************************************)
EXTENDS Sema, Strict, Typing

\* What clients may have parsed, one source after the other: for each plan a sequence of
\* sets of sources [sym, body], declarations of sym and expressions (NoSym).
CONSTANT Plans
Offers == Plans  \* (by this name TLC evaluates them once)

VARIABLES
  plan,     \* the client's plan
  toplvl,   \* the toplevel map
  status,   \* "ready", "hung" in a call that does not return, or "crashed"
  parsed    \* history: each source parsed, and what its inference gave

frontVars == <<plan, toplvl, status, parsed>>

NoSym == [name |-> "", len |-> 0]

Result(s) == InferExpr(s.body, toplvl)

ParseExpr(s) ==
  LET r == Result(s)
  IN  /\ s.sym = NoSym
      /\ parsed' = Append(parsed, [src |-> s, got |-> r])
      /\ status' = IF r.fate = "never" THEN "hung" ELSE "ready"
      /\ UNCHANGED toplvl

RegisterWithoutType(s, r) == Insert(toplvl, s.sym, NoType)   \* mutant

\* A declaration is registered when inference comes through, errors or not.
Register(s, r) == Insert(toplvl, s.sym, r.type)

ParseDecl(s) ==
  LET r == Result(s)
  IN  /\ s.sym # NoSym
      /\ parsed' = Append(parsed, [src |-> s, got |-> r])
      /\ \/ r.fate = "never" /\ status' = "hung" /\ UNCHANGED toplvl
         \/ r.fate = "failed" /\ UNCHANGED <<toplvl, status>>
         \/ /\ r.fate = "done"
            /\ \/ /\ Absent(toplvl, s.sym)
                  /\ toplvl' = Register(s, r)
                  /\ UNCHANGED status
               \/ Found(toplvl, s.sym) /\ status' = "crashed" /\ UNCHANGED toplvl
               \/ SearchHangs(toplvl, s.sym) /\ status' = "hung" /\ UNCHANGED toplvl

Init ==
  /\ plan \in DOMAIN Plans
  /\ toplvl = [b \in 0..BucketsLen - 1 |-> <<>>]
  /\ status = "ready"
  /\ parsed = <<>>

Next ==
  /\ status = "ready" /\ Len(parsed) < Len(Offers[plan])
  /\ \E s \in Offers[plan][Len(parsed) + 1] : ParseExpr(s) \/ ParseDecl(s)
  /\ UNCHANGED plan

Spec == Init /\ [][Next]_frontVars

-----------------------------------------------------------------------------
(* What the client made of it.                                             *)

Accepted(p) == p.got.fate = "done" /\ ~p.got.errors
IsDecl(p) == p.src.sym # NoSym

\* The values of the declarations a client can execute, the accepted ones that
\* read only others of them: with the names resolved as inference resolved them,
\* and as they are written.
Execute(d, p) == IF IsDecl(p) /\ Accepted(p) /\ Reads(p.got.e) \subseteq DOMAIN d.resolved
                 THEN [resolved |-> Bind(d.resolved, p.src.sym, Denote(p.got.e, Empty, d.resolved)),
                       written |-> Bind(d.written, p.src.sym, Denote(p.src.body, Empty, d.written))]
                 ELSE d
Defs == FoldLeft(Execute, [resolved |-> Empty, written |-> Empty], parsed)
Resolved == Defs.resolved
Written == Defs.written

LatestExpr == parsed # <<>> /\ ~IsDecl(Last(parsed)) /\ status = "ready"

\* Inference is known to go wrong: a type variable was taken for generic that is
\* not, or a declaration is read that was reported as wrong.
Deviant ==
  parsed # <<>> /\
  (\/ \E i \in DOMAIN parsed : parsed[i].got.copied
   \/ ~(Reads(Last(parsed).got.e) \subseteq DOMAIN Resolved))

-----------------------------------------------------------------------------
(* Properties.                                                             *)

\* README.md:3, "Wist is a statically typed ... language", taken at its word: what
\* is accepted evaluates without applying what is no function.
AcceptedIsSafe == LatestExpr /\ Accepted(Last(parsed)) =>
                    ~IsWrong(Denote(Last(parsed).got.e, Empty, Resolved))

\* An expression that is accepted, after any accepted declarations, evaluates
\* without applying what is no function and without reading what is not there,
\* unless inference went one of its two known wrong ways.
NeverGoesWrong == ~Deviant => AcceptedIsSafe

\* The entries inference hangs on the variables are the binders the source means,
\* whatever shadows what: both evaluate alike.
ResolvesNames ==
  LatestExpr /\ Accepted(Last(parsed)) /\ ~Deviant =>
    Shown(Denote(Last(parsed).got.e, Empty, Resolved))
      = Shown(Denote(Last(parsed).src.body, Empty, Written))

\* Inference comes back from every expression, a declaration's too, that reads no global
\* and has a simple type, and accepts it: no occurs check that finds something, and no
\* cycle it leaves, is due to the types alone. And, unless a type variable was wrongly
\* copied, nothing else is accepted, and the type found is the principal one.
InfersPrincipalType ==
  parsed # <<>> /\ Reads(Last(parsed).got.e) = {} =>
    LET p == Last(parsed)
        m == Principal(p.src.body)
    IN  /\ m.ok => Accepted(p)
        /\ Accepted(p) /\ ~p.got.copied => m.ok /\ p.got.type = m.type

\* Every declaration that came through inference is found afterwards with the type that
\* was found for it, whatever was parsed in between: the last one too, once its call has
\* returned, and those before it even if that call does not.
DeclarationsAreFound ==
  \A i \in DOMAIN parsed :
    /\ IsDecl(parsed[i]) /\ parsed[i].got.fate = "done"
    /\ status = "ready" \/ i < Len(parsed)
    => /\ Found(toplvl, parsed[i].src.sym)
       /\ Head(Bucket(toplvl, parsed[i].src.sym)).type = parsed[i].got.type
=============================================================================
