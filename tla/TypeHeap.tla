------------------------------ MODULE TypeHeap ------------------------------
(***************************************************************************)
(* Type inference once more, on the objects lib/sema.c works on: who       *)
(* refers to which type object, which objects share one vector of fields,  *)
(* and what has been released.  Sema.tla says what types come out; this    *)
(* module says what is left in memory.                                     *)
(*                                                                         *)
(* A heap h has                                                            *)
(*   nodes   the type objects, numbered as they are made; 0 is NULL        *)
(*   vecs    the data of tuple types' vectors: sequences of nodes          *)
(*   pool    the variables in type_var_pool                                *)
(*   gone    variables whose pool was released                             *)
(*   freed   vectors released                                              *)
(*   bad     a released vector was read or released again                  *)
(*   shared  history: a tuple type was copied, with its vector             *)
(* and of the inference that goes on its diags, renamer, cyclic and hangs. *)
(* (Prune also shortens the chains of instances, which nobody can tell.)   *)
(***************************************************************************)
EXTENDS Sema

Typed(e, n) == [ty |-> n] @@ e

EmptyHeap == [nodes |-> <<>>, vecs |-> <<>>, pool |-> {}, gone |-> {}, freed |-> {},
              bad |-> FALSE, shared |-> FALSE, diags |-> <<>>, renamer |-> <<>>,
              cyclic |-> FALSE, hangs |-> FALSE]

New(h, node) == [h EXCEPT !.nodes = Append(@, node)]
Newest(h) == Len(h.nodes)
NewVarNode(h) ==
  [New(h, [t |-> "var", inst |-> 0]) EXCEPT !.pool = @ \cup {Newest(h) + 1}]
NewFun(h, a, b) == New(h, [t |-> "fun", in |-> a, out |-> b])
NewTuple(h, vec) == New(h, [t |-> "tuple", vec |-> vec])
NewVec(h, ns) == [h EXCEPT !.vecs = Append(@, ns)]
\* A vector that was finished has no fields; one whose data is gone must not be read.
Fields(h, n) == LET v == h.nodes[n].vec IN IF v = 0 THEN <<>> ELSE h.vecs[v]
Stale(h, n) == h.nodes[n].vec \in h.freed
Told(h, kind, ns) == [h EXCEPT !.diags = Append(@, [kind |-> kind, types |-> ns])]

RECURSIVE PruneNode(_, _)
PruneNode(n, h) == IF h.nodes[n].t = "var" /\ h.nodes[n].inst # 0
                   THEN PruneNode(h.nodes[n].inst, h) ELSE n

\* The nodes a type consists of.
RECURSIVE Parts(_, _)
Parts(n, h) ==
  LET p == PruneNode(n, h)
  IN  {p} \cup CASE h.nodes[p].t = "fun" -> Parts(h.nodes[p].in, h) \cup Parts(h.nodes[p].out, h)
                 [] h.nodes[p].t = "tuple" -> UNION {Parts(m, h) : m \in ToSet(Fields(h, p))}
                 [] OTHER -> {}

RECURSIVE OccursNode(_, _, _)
OccursNode(v, n, h) ==
  LET p == PruneNode(n, h)
  IN  p = v \/ (h.nodes[p].t = "fun" /\ (\/ OccursNode(v, h.nodes[p].in, h)
                                         \/ OccursNode(v, h.nodes[p].out, h)))

RECURSIVE BindNode(_, _, _), UnifyNodes(_, _, _), UnifyPruned(_, _, _)
BindNode(v, n, h) ==
  IF n = v THEN h
  ELSE [(IF OccursNode(v, n, h) THEN Told(h, "RECURSIVE_TYPE", {v, n}) ELSE h)
          EXCEPT !.nodes[v].inst = n, !.cyclic = v \in Parts(n, h)]

UnifyPruned(p, q, h) ==
  LET a == h.nodes[p]
      b == h.nodes[q]
      fs == Fields(h, p)
      gs == Fields(h, q)
  IN  CASE a.t = "var" -> BindNode(p, q, h)
        [] a.t # "var" /\ b.t = "var" -> BindNode(q, p, h)
        [] a.t = "fun" /\ b.t = "fun" ->
             UnifyNodes(a.out, b.out, UnifyNodes(a.in, b.in, h))
        [] a.t = "tuple" /\ b.t = "tuple" /\ (Stale(h, p) \/ Stale(h, q)) ->
             [h EXCEPT !.bad = TRUE]
        [] a.t = "tuple" /\ b.t = "tuple" /\ ~Stale(h, p) /\ ~Stale(h, q)
             /\ Len(fs) = Len(gs) ->
             FoldLeft(LAMBDA s, i : UnifyNodes(fs[i], gs[i], s), h, [i \in DOMAIN fs |-> i])
        [] a.t = b.t /\ a.t \in {"int", "gen"} -> h
        [] OTHER -> Told(h, "TYPE_MISMATCH", {p, q})

UnifyNodes(n1, n2, h) ==
  IF h.cyclic THEN h ELSE UnifyPruned(PruneNode(n1, h), PruneNode(n2, h), h)

-----------------------------------------------------------------------------
(* infer_expr_rec.                                                         *)

FailsIn(h) == [ok |-> FALSE, n |-> 0, e |-> IntLit(0), h |-> h]
GivesNode(n, e, h) == [ok |-> TRUE, n |-> n, e |-> Typed(e, n), h |-> h]
GivesNew(e, h) == GivesNode(Newest(h), e, h)

\* Mutant: the arguments of enclosing lambdas are copied as well.
FreshNodeAlways(x, n, chain, h) ==
  IF h.nodes[PruneNode(n, h)].t = "var" THEN GivesNew(Var(x), NewVarNode(h))
  ELSE GivesNode(PruneNode(n, h), Var(x), h)

\* fresh_type of a local variable's type: a tuple's copy has the same data.
FreshPruned(x, p, node, chain, h) ==
  CASE node.t = "var" -> IF p \in ToSet(chain) THEN GivesNode(p, Var(x), h)
                         ELSE GivesNew(Var(x), NewVarNode(h))
    [] node.t = "tuple" -> GivesNew(Var(x), [New(h, node) EXCEPT !.shared = TRUE])
    [] node.t = "gen" -> FailsIn(h)
    [] OTHER -> GivesNew(Var(x), New(h, node))
FreshNode(x, n, chain, h) ==
  FreshPruned(x, PruneNode(n, h), h.nodes[PruneNode(n, h)], chain, h)

\* i: the place of x's innermost binder in scope, 0 when it has none.
InferVarAt(x, i, scope, chain, tops, h) ==
  CASE i > 0 -> FreshNode(x, scope[i].ty, chain, h)
    [] i = 0 /\ Absent(tops, x) -> FailsIn(Told(h, "UNKNOWN_VAR", {}))
    [] i = 0 /\ Found(tops, x) -> GivesNode(Head(Bucket(tops, x)).type, GVar(x), h)
    [] i = 0 /\ SearchHangs(tops, x) -> FailsIn([h EXCEPT !.hangs = TRUE])

\* The node for an expression whose parts came out as given, v before b, f before a.
LetNode(x, v, b) == IF b.ok THEN GivesNode(b.n, LetIn(x, v.e, b.e), b.h) ELSE b
LamNode(x, arg, b) == IF b.ok THEN GivesNew(Lam(x, b.e), NewFun(b.h, arg, b.n)) ELSE b
CallNode(f, a, call) ==  \* call: the heap with the function's type wanted as its newest node
  GivesNode(Newest(call) - 1, App(f.e, a.e), UnifyNodes(Newest(call), f.n, call))
AppNode(f, a) ==
  IF a.ok THEN CallNode(f, a, NewFun(NewVarNode(a.h), a.n, Newest(a.h) + 1)) ELSE a
FieldNode(acc, r) ==
  IF r.ok THEN [r EXCEPT !.n = Append(acc.n, r.n), !.e = Append(acc.e, r.e)] ELSE r
TupleNode(all) ==
  IF all.ok THEN GivesNew(Tuple(all.e), NewTuple(NewVec(all.h, all.n), Len(all.h.vecs) + 1))
  ELSE all

RECURSIVE InferNode(_, _, _, _, _), InferBody(_, _, _, _, _), InferArg(_, _, _, _, _)
InferBody(e, v, scope, chain, tops) ==
  IF v.ok THEN LetNode(e.var, v, InferNode(e.body, <<[sym |-> e.var, ty |-> v.n]>> \o scope,
                                         chain, tops, v.h))
  ELSE v
InferArg(e, f, scope, chain, tops) ==
  IF f.ok THEN AppNode(f, InferNode(e.arg, scope, chain, tops, f.h)) ELSE f
InferNode(e, scope, chain, tops, h) ==
  CASE e.k = "var" ->
         InferVarAt(e.var, SelectInSeq(scope, LAMBDA b : b.sym = e.var), scope, chain, tops, h)
    [] e.k = "int" -> GivesNew(e, New(h, [t |-> "int"]))
    [] e.k = "let" -> InferBody(e, InferNode(e.val, scope, chain, tops, h), scope, chain, tops)
    [] e.k = "lam" ->
         LamNode(e.var, Newest(h) + 1,
               InferNode(e.body, <<[sym |-> e.var, ty |-> Newest(h) + 1]>> \o scope,
                         <<Newest(h) + 1>> \o chain, tops, NewVarNode(h)))
    [] e.k = "app" -> InferArg(e, InferNode(e.fun, scope, chain, tops, h), scope, chain, tops)
    [] e.k = "tuple" ->
         TupleNode(FoldLeft(LAMBDA acc, f : IF acc.ok
                                          THEN FieldNode(acc, InferNode(f, scope, chain, tops, acc.h))
                                          ELSE acc,
                          [ok |-> TRUE, n |-> <<>>, e |-> <<>>, h |-> h], e.fields))

-----------------------------------------------------------------------------
(* wist_sema_infer_expr.                                                   *)

\* prune_full_type, in place; a variable gives a new object at each of its occurrences.
\* (Mutant: what a type consists of is left as it is.)
PruneFullTop(n, h) ==
  LET p == PruneNode(n, h)
  IN  IF h.nodes[p].t = "var" THEN [n |-> Newest(h) + 1, h |-> New(h, [t |-> "gen", id |-> 0])]
      ELSE [n |-> p, h |-> h]
Named(p, h) == IF p \in ToSet(h.renamer) THEN h ELSE [h EXCEPT !.renamer = Append(@, p)]
GenOf(p, h) ==
  [n |-> Newest(h) + 1,
   h |-> New(h, [t |-> "gen", id |-> SelectInSeq(h.renamer, LAMBDA v : v = p) - 1])]
FunNode(p, a, b) == [n |-> p, h |-> [b.h EXCEPT !.nodes[p].in = a.n, !.nodes[p].out = b.n]]
WithField(v, i, f) == [f.h EXCEPT !.vecs[v][i] = f.n]

RECURSIVE PruneFull(_, _), PruneOut(_, _, _), PruneFields(_, _, _), PruneKind(_, _, _)
PruneOut(p, node, a) == FunNode(p, a, PruneFull(node.out, a.h))
PruneFields(p, v, h) ==
  FoldLeft(LAMBDA acc, i : WithField(v, i, PruneFull(acc.vecs[v][i], acc)),
           h, [i \in DOMAIN Fields(h, p) |-> i])
PruneKind(p, node, h) ==
  CASE node.t = "fun" -> PruneOut(p, node, PruneFull(node.in, h))
    [] node.t = "tuple" /\ Stale(h, p) -> [n |-> p, h |-> [h EXCEPT !.bad = TRUE]]
    [] node.t = "tuple" /\ ~Stale(h, p) -> [n |-> p, h |-> PruneFields(p, node.vec, h)]
    [] node.t = "var" -> GenOf(p, Named(p, h))
    [] OTHER -> [n |-> p, h |-> h]
PruneFull(n, h) == PruneKind(PruneNode(n, h), h.nodes[PruneNode(n, h)], h)

\* prune_full_expr: an expression's own type first, then those of its parts.
LamWith(top, b) == [e |-> [top EXCEPT !.body = b.e], h |-> b.h]
AppWith(top, f, a) == [e |-> [top EXCEPT !.fun = f.e, !.arg = a.e], h |-> a.h]
LetWith(top, v, b) == [e |-> [top EXCEPT !.val = v.e, !.body = b.e], h |-> b.h]
TupleWith(top, all) == [e |-> [top EXCEPT !.fields = all.e], h |-> all.h]
WithPart(acc, r) == [e |-> Append(acc.e, r.e), h |-> r.h]

RECURSIVE PruneExpr(_, _), PruneArg(_, _), PruneBody(_, _), PruneParts(_, _)
PruneArg(top, f) == AppWith(top, f, PruneExpr(top.arg, f.h))
PruneBody(top, v) == LetWith(top, v, PruneExpr(top.body, v.h))
PruneParts(top, h) ==
  CASE top.k = "lam" -> LamWith(top, PruneExpr(top.body, h))
    [] top.k = "app" -> PruneArg(top, PruneExpr(top.fun, h))
    [] top.k = "let" -> PruneBody(top, PruneExpr(top.val, h))
    [] top.k = "tuple" ->
         TupleWith(top, FoldLeft(LAMBDA acc, c : WithPart(acc, PruneExpr(c, acc.h)),
                                 [e |-> <<>>, h |-> h], top.fields))
    [] OTHER -> [e |-> top, h |-> h]
PruneTop(e, f) == PruneParts(Typed(e, f.n), f.h)
PruneExpr(e, h) == PruneTop(e, PruneFull(e.ty, h))

PoolReleased(h) == [h EXCEPT !.gone = @ \cup h.pool, !.pool = {}]

\* Mutant: the pool is released on the way out after a failure, too.
EndedClean(h) == PoolReleased(h)
\* When inference fails the pool is left behind.
Ended(h) == [h EXCEPT !.pool = {}]

Freed(p) == [fate |-> "done", e |-> p.e, h |-> PoolReleased(p.h)]
Outcome(r) ==
  CASE r.h.hangs \/ (r.ok /\ r.h.cyclic) -> [fate |-> "never", e |-> r.e, h |-> r.h]
    [] r.ok /\ ~r.h.cyclic -> Freed(PruneExpr(r.e, r.h))
    [] OTHER -> [fate |-> "failed", e |-> r.e, h |-> Ended(r.h)]
InferInHeap(e, tops, heap) ==
  Outcome(InferNode(e, <<>>, <<>>, tops, [heap EXCEPT !.diags = <<>>, !.renamer = <<>>]))
=============================================================================
