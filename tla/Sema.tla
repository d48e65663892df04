-------------------------------- MODULE Sema --------------------------------
(***************************************************************************)
(* Type inference (lib/sema.c) with the local scopes of lib/ast.c and the  *)
(* toplevel map of inc/wist/map.h.                                         *)
(*                                                                         *)
(* A type is a record with its kind in t.  Type variables are numbered     *)
(* from 1; what the code keeps in the nodes, the instance of a variable    *)
(* and so on, is in the inference state st:                                *)
(*   inst     instance of each variable (NoType: none)                     *)
(*   entries  number of variable entries made                              *)
(*   diags    the diagnostics added, all of level error                    *)
(*   cyclic   a variable has been bound to a type that contains it         *)
(*   hangs    a search of the toplevel map does not end                    *)
(*   copied   a variable was taken for generic that is not (see Fresh)     *)
(***************************************************************************)
EXTENDS Integers, Sequences, Ast, SequencesExt

NoType == [t |-> "none"]
IntT == [t |-> "int"]
VarT(i) == [t |-> "var", id |-> i]
GenT(i) == [t |-> "gen", id |-> i]
FunT(a, b) == [t |-> "fun", in |-> a, out |-> b]
TupT(ts) == [t |-> "tuple", fields |-> ts]

Start == [inst |-> <<>>, entries |-> 0, diags |-> <<>>, cyclic |-> FALSE,
          hangs |-> FALSE, copied |-> FALSE]

NewVar(st) == VarT(Len(st.inst) + 1)
WithVar(st) == [st EXCEPT !.inst = Append(@, NoType)]
Diag(st, kind) == [st EXCEPT !.diags = Append(@, kind)]

-----------------------------------------------------------------------------
(* The toplevel map: its buckets, each a list of [sym, type], the newest    *)
(* first, with the search loops of wist_map_einsert and wist_map_efind,     *)
(* which look at the first entry of a bucket again and again.               *)

BucketsLen == 16
Bucket(tops, s) == tops[s.len % BucketsLen]
Absent(tops, s) == Bucket(tops, s) = <<>>
Found(tops, s) == Bucket(tops, s) # <<>> /\ Head(Bucket(tops, s)).sym = s
SearchHangs(tops, s) == ~Absent(tops, s) /\ ~Found(tops, s)
Insert(tops, s, ty) ==
  [tops EXCEPT ![s.len % BucketsLen] = <<[sym |-> s, type |-> ty]>> \o @]

-----------------------------------------------------------------------------
(* Pruning and unification.                                                *)

RECURSIVE Prune(_, _)
Prune(ty, inst) == IF ty.t = "var" /\ inst[ty.id] # NoType
                   THEN Prune(inst[ty.id], inst) ELSE ty

\* The variables of a type in the order prune_full_type meets them.
RECURSIVE VarsOf(_, _)
VarsOf(ty, inst) ==
  LET p == Prune(ty, inst)
  IN  CASE p.t = "var" -> <<p.id>>
        [] p.t = "fun" -> VarsOf(p.in, inst) \o VarsOf(p.out, inst)
        [] p.t = "tuple" -> FlattenSeq([i \in DOMAIN p.fields |->
                                          VarsOf(p.fields[i], inst)])
        [] OTHER -> <<>>
FreeVars(ty, inst) == ToSet(VarsOf(ty, inst))

\* occurs_in_type does not look into tuples.
RECURSIVE OccursIn(_, _, _)
OccursIn(v, ty, inst) ==
  LET p == Prune(ty, inst)
  IN  p = v \/ (p.t = "fun" /\ (OccursIn(v, p.in, inst) \/ OccursIn(v, p.out, inst)))

\* The binding is made whether the occurs check found something or not.
\* (Mutant: a variable is bound to itself, and pruning it does not end.)
BindVarToItself(v, ty, st) ==
  LET told == IF ty # v /\ OccursIn(v, ty, st.inst) THEN Diag(st, "RECURSIVE_TYPE") ELSE st
  IN  [told EXCEPT !.inst[v.id] = IF ty = v THEN @ ELSE ty,
                   !.cyclic = v.id \in FreeVars(ty, st.inst)]
BindVar(v, ty, st) ==
  IF ty = v THEN st
  ELSE LET told == IF OccursIn(v, ty, st.inst) THEN Diag(st, "RECURSIVE_TYPE") ELSE st
       IN  [told EXCEPT !.inst[v.id] = ty, !.cyclic = v.id \in FreeVars(ty, st.inst)]

\* Mutant: the results of two functions are not unified.
RECURSIVE UnifyInputsOnly(_, _, _), Unify(_, _, _)
UnifyInputsOnly(ty1, ty2, st) ==
  LET a == Prune(ty1, st.inst)
      b == Prune(ty2, st.inst)
  IN  IF a.t = "fun" /\ b.t = "fun" /\ ~st.cyclic THEN Unify(a.in, b.in, st)
      ELSE IF a = b \/ st.cyclic THEN st
      ELSE IF a.t = "var" THEN BindVar(a, b, st)
      ELSE IF b.t = "var" THEN BindVar(b, a, st)
      ELSE Diag(st, "TYPE_MISMATCH")

\* Once a variable is bound to a type that contains it the code recurses without
\* end; the model goes no further, and InferExpr tells of it.
Unify(ty1, ty2, st) ==
  IF st.cyclic THEN st
  ELSE LET a == Prune(ty1, st.inst)
           b == Prune(ty2, st.inst)
       IN  CASE a.t = "var" -> BindVar(a, b, st)
             [] a.t # "var" /\ b.t = "var" -> BindVar(b, a, st)
             [] a.t = "fun" /\ b.t = "fun" ->
                  Unify(a.out, b.out, Unify(a.in, b.in, st))
             [] a.t = "tuple" /\ b.t = "tuple" /\ Len(a.fields) = Len(b.fields) ->
                  FoldLeft(LAMBDA s, i : Unify(a.fields[i], b.fields[i], s),
                           st, [i \in DOMAIN a.fields |-> i])
             [] a.t = b.t /\ a.t \in {"int", "gen"} -> st
             [] OTHER -> Diag(st, "TYPE_MISMATCH")

-----------------------------------------------------------------------------
(* infer_expr_rec.                                                         *)

\* Mutant: an enclosing lambda's argument is generic too.
FreshOfArgument(ty, chain, st) ==
  LET p == Prune(ty, st.inst)
  IN  IF p.t = "var" THEN [ty |-> NewVar(st), st |-> WithVar(st)]
      ELSE [ty |-> IF p.t = "gen" THEN NoType ELSE p, st |-> st]

\* fresh_type copies a type only when it is a variable that no enclosing
\* lambda's argument is (chain). It is not generic all the same if it occurs in
\* what the argument has become: then st.copied.
Fresh(ty, chain, st) ==
  LET p == Prune(ty, st.inst)
      held == IF st.cyclic THEN {}
              ELSE UNION {FreeVars(VarT(chain[i]), st.inst) : i \in DOMAIN chain}
  IN  CASE p.t = "var" /\ p.id \notin ToSet(chain) ->
             [ty |-> NewVar(st),
              st |-> [WithVar(st) EXCEPT !.copied = @ \/ p.id \in held]]
        [] p.t = "gen" -> [ty |-> NoType, st |-> st]
        [] OTHER -> [ty |-> p, st |-> st]

Fails(st) == [ok |-> FALSE, ty |-> NoType, e |-> IntLit(0), st |-> st]
Gives(ty, e, st) == [ok |-> TRUE, ty |-> ty, e |-> e, st |-> st]

\* Mutants: the outermost binder of a name; a declaration before a local variable.
OutermostVar(x, scope, chain, tops, st) ==
  LET i == SelectLastInSeq(scope, LAMBDA b : b.sym = x)
  IN  IF i = 0 THEN Fails(Diag(st, "UNKNOWN_VAR"))
      ELSE LET f == Fresh(scope[i].ty, chain, st)
           IN  Gives(f.ty, Var(scope[i].entry), f.st)
GlobalFirst(x, scope, chain, tops, st) ==
  LET i == SelectInSeq(scope, LAMBDA b : b.sym = x)
  IN  IF Found(tops, x) THEN Gives(Head(Bucket(tops, x)).type, GVar(x), st)
      ELSE IF i = 0 THEN Fails(Diag(st, "UNKNOWN_VAR"))
      ELSE LET f == Fresh(scope[i].ty, chain, st)
           IN  Gives(f.ty, Var(scope[i].entry), f.st)

\* scope: the entries in scope, the innermost first. chain: non_generics.
InferVar(x, scope, chain, tops, st) ==
  LET i == SelectInSeq(scope, LAMBDA b : b.sym = x)
  IN  IF i > 0
      THEN LET f == Fresh(scope[i].ty, chain, st)
           IN  IF f.ty = NoType THEN Fails(f.st)
                                ELSE Gives(f.ty, Var(scope[i].entry), f.st)
      ELSE CASE Absent(tops, x) -> Fails(Diag(st, "UNKNOWN_VAR"))
             [] Found(tops, x) -> Gives(Head(Bucket(tops, x)).type, GVar(x), st)
             [] SearchHangs(tops, x) -> Fails([st EXCEPT !.hangs = TRUE])

Entry(x, ty, st) == [sym |-> x, entry |-> st.entries + 1, ty |-> ty]
WithEntry(st) == [st EXCEPT !.entries = @ + 1]

RECURSIVE Infer(_, _, _, _, _)
Infer(e, scope, chain, tops, st) ==
  CASE e.k = "var" -> InferVar(e.var, scope, chain, tops, st)
    [] e.k = "int" -> Gives(IntT, e, st)
    [] e.k = "let" ->
         LET v == Infer(e.val, scope, chain, tops, st)
             x == Entry(e.var, v.ty, v.st)
             b == Infer(e.body, <<x>> \o scope, chain, tops, WithEntry(v.st))
         IN  IF ~v.ok THEN v ELSE IF ~b.ok THEN b
             ELSE Gives(b.ty, LetIn(x.entry, v.e, b.e), b.st)
    [] e.k = "lam" ->
         LET a == NewVar(st)
             x == Entry(e.var, a, st)
             b == Infer(e.body, <<x>> \o scope, <<a.id>> \o chain, tops,
                        WithEntry(WithVar(st)))
         IN  IF ~b.ok THEN b ELSE Gives(FunT(a, b.ty), Lam(x.entry, b.e), b.st)
    [] e.k = "app" ->
         LET f == Infer(e.fun, scope, chain, tops, st)
             a == Infer(e.arg, scope, chain, tops, f.st)
             r == NewVar(a.st)
         IN  IF ~f.ok THEN f ELSE IF ~a.ok THEN a
             ELSE Gives(r, App(f.e, a.e), Unify(FunT(a.ty, r), f.ty, WithVar(a.st)))
    [] e.k = "tuple" ->
         LET Field(acc, f) ==
               LET r == Infer(f, scope, chain, tops, acc.st)
               IN  IF ~acc.ok THEN acc ELSE IF ~r.ok THEN r
                   ELSE Gives(Append(acc.ty, r.ty), Append(acc.e, r.e), r.st)
             all == FoldLeft(Field, Gives(<<>>, <<>>, st), e.fields)
         IN  IF ~all.ok THEN all ELSE Gives(TupT(all.ty), Tuple(all.e), all.st)

-----------------------------------------------------------------------------
(* wist_sema_infer_expr.                                                   *)

\* prune_full_type: variables become GEN types, numbered as they are met.
RECURSIVE Generalize(_, _, _)
Generalize(ty, inst, order) ==
  LET p == Prune(ty, inst)
  IN  CASE p.t = "var" -> GenT(SelectInSeq(order, LAMBDA v : v = p.id) - 1)
        [] p.t = "fun" -> FunT(Generalize(p.in, inst, order),
                               Generalize(p.out, inst, order))
        [] p.t = "tuple" -> TupT([i \in DOMAIN p.fields |->
                                    Generalize(p.fields[i], inst, order)])
        [] OTHER -> p

Distinct(s) == FoldLeft(LAMBDA acc, v : IF v \in ToSet(acc) THEN acc ELSE Append(acc, v),
                        <<>>, s)

\* The result of an inference. Through a cyclic binding prune_full_type (or
\* unify and occurs_in_type before it) does not come to an end.
Fate(r) == CASE r.st.hangs \/ (r.ok /\ r.st.cyclic) -> "never"
             [] r.ok /\ ~r.st.cyclic -> "done"
             [] OTHER -> "failed"
Inferred(r) ==
  [fate |-> Fate(r), errors |-> r.st.diags # <<>>, copied |-> r.st.copied, e |-> r.e,
   type |-> IF Fate(r) = "done"
            THEN Generalize(r.ty, r.st.inst, Distinct(VarsOf(r.ty, r.st.inst)))
            ELSE NoType]
InferExpr(e, tops) == Inferred(Infer(e, <<>>, <<>>, tops, Start))
=============================================================================
