------------------------------- MODULE Release -------------------------------
(***************************************************************************)
(* A client that has sources parsed and releases the expressions and parse *)
(* results it was given (lib/ast.c, lib/compiler.c), in any order.         *)
(***************************************************************************)
EXTENDS TypeHeap

CONSTANT Programs  \* sequences of sources [sym, body]: declarations and expressions (NoSym)

VARIABLES
  todo,     \* sources not parsed yet
  h,        \* the heap
  toplvl,   \* the toplevel map; the types are nodes
  exprs,    \* expressions the client has: [e, type], type: what was found
  results,  \* parse results the client has: [diags, fate]
  status,   \* "ready", "hung" or "crashed"
  structural, \* history: the toplevel with the types themselves, as Sema has it
  latest,   \* history: what the latest inference gave here and in Sema
  spoiled   \* history: an expression was released that reads a declared tuple, or any
            \* when a tuple type had been copied

vars == <<todo, h, toplvl, exprs, results, status, structural, latest, spoiled>>

NoSym == [name |-> "", len |-> 0]
Lost == [t |-> "lost"]

\* The type in a node as it can be read now.
RECURSIVE ReadType(_, _)
ReadType(n, heap) ==
  LET node == heap.nodes[n]
  IN  CASE n \in heap.gone -> Lost
        [] n \notin heap.gone /\ node.t = "var" ->
             IF node.inst = 0 THEN VarT(n) ELSE ReadType(node.inst, heap)
        [] node.t = "fun" -> FunT(ReadType(node.in, heap), ReadType(node.out, heap))
        [] node.t = "tuple" ->
             IF node.vec \in heap.freed THEN Lost
             ELSE TupT([i \in DOMAIN Fields(heap, n) |-> ReadType(Fields(heap, n)[i], heap)])
        [] node.t = "int" -> IntT
        [] node.t = "gen" -> GenT(node.id)

-----------------------------------------------------------------------------
(* wist_ast_type_destroy and wist_ast_expr_destroy.                        *)

\* Mutant: the finished vector keeps its data pointer.
FinishedOpen(heap, n) == [heap EXCEPT !.freed = @ \cup {heap.nodes[n].vec}]
Finished(heap, n) ==
  [heap EXCEPT !.freed = (@ \cup {heap.nodes[n].vec}) \ {0}, !.nodes[n].vec = 0]

RECURSIVE DestroyType(_, _)
DestroyType(heap, n) ==
  LET node == heap.nodes[n]
  IN  CASE heap.bad -> heap
        [] ~heap.bad /\ (n \in heap.gone \/ (node.t = "tuple" /\ Stale(heap, n))) ->
             [heap EXCEPT !.bad = TRUE]
        [] ~heap.bad /\ node.t = "fun" -> DestroyType(DestroyType(heap, node.in), node.out)
        [] ~heap.bad /\ node.t = "tuple" /\ ~Stale(heap, n) ->
             Finished(FoldLeft(DestroyType, heap, Fields(heap, n)), n)
        [] OTHER -> heap

\* (The expressions' own blocks and the scopes of lambdas form a tree.)
RECURSIVE DestroyExpr(_, _)
DestroyExpr(heap, e) ==
  LET Parts1 == CASE e.k = "lam" -> <<e.body>>
                  [] e.k = "app" -> <<e.fun, e.arg>>
                  [] e.k = "let" -> <<e.val, e.body>>
                  [] e.k = "tuple" -> e.fields
                  [] OTHER -> <<>>
  IN  DestroyType(FoldLeft(DestroyExpr, heap, Parts1), e.ty)

RECURSIVE Globals(_)
Globals(e) ==
  CASE e.k = "gvar" -> {e}
    [] e.k = "lam" -> Globals(e.body)
    [] e.k = "app" -> Globals(e.fun) \cup Globals(e.arg)
    [] e.k = "let" -> Globals(e.val) \cup Globals(e.body)
    [] e.k = "tuple" -> UNION {Globals(f) : f \in ToSet(e.fields)}
    [] OTHER -> {}
ReadsTuple(e) == \E g \in Globals(e) : \E n \in Parts(g.ty, h) : h.nodes[n].t = "tuple"

-----------------------------------------------------------------------------
\* r: what inference gives here; m: what it gives in Sema; type: the type found.
Finding(r, type) == [fate |-> r.fate, errors |-> r.h.diags # <<>>, type |-> type]
Parsed(s, r, m, type) ==
  /\ h' = [r.h EXCEPT !.diags = <<>>, !.renamer = <<>>]
  /\ latest' = [here |-> Finding(r, type),
                sema |-> [fate |-> m.fate, errors |-> m.errors, type |-> m.type]]
  /\ results' = Append(results, [diags |-> r.h.diags, fate |-> r.fate])
  /\ IF s.sym = NoSym
     THEN /\ exprs' = IF r.fate = "done" THEN Append(exprs, [e |-> r.e, type |-> type])
                      ELSE exprs
          /\ status' = IF r.fate = "never" THEN "hung" ELSE status
          /\ UNCHANGED <<toplvl, structural>>
     ELSE /\ UNCHANGED exprs
          /\ IF r.fate = "done" /\ Absent(toplvl, s.sym)
             THEN /\ toplvl' = Insert(toplvl, s.sym, r.e.ty)
                  /\ structural' = Insert(structural, s.sym, m.type)
                  /\ UNCHANGED status
             ELSE /\ status' = CASE r.fate = "failed" -> status
                                 [] r.fate = "done" /\ Found(toplvl, s.sym) -> "crashed"
                                 [] OTHER -> "hung"
                  /\ UNCHANGED <<toplvl, structural>>

Parse(s) ==
  \E r \in {InferInHeap(s.body, toplvl, h)}, m \in {InferExpr(s.body, structural)} :
    Parsed(s, r, m, IF r.fate = "done" THEN ReadType(r.e.ty, r.h) ELSE NoType)

ParseNext ==
  /\ todo # <<>> /\ Parse(Head(todo)) /\ todo' = Tail(todo)
  /\ UNCHANGED spoiled

ReleaseExpr(i) ==
  /\ h' = DestroyExpr(h, exprs[i].e)
  /\ spoiled' = (spoiled \/ h.shared \/ ReadsTuple(exprs[i].e))
  /\ exprs' = RemoveAt(exprs, i)
  /\ UNCHANGED <<todo, toplvl, results, status, structural, latest>>

\* wist_parse_result_destroy
ReleaseResult(i) ==
  /\ results' = RemoveAt(results, i)
  /\ UNCHANGED <<todo, h, toplvl, exprs, status, structural, latest, spoiled>>

NoTypes == [b \in 0..BucketsLen - 1 |-> <<>>]

Init ==
  /\ todo \in Programs /\ h = EmptyHeap /\ toplvl = NoTypes /\ exprs = <<>> /\ results = <<>>
  /\ status = "ready" /\ structural = NoTypes /\ spoiled = FALSE
  /\ latest = [here |-> NoType, sema |-> NoType]

Next ==
  /\ status = "ready" /\ ~h.bad
  /\ \/ ParseNext
     \/ \E i \in DOMAIN exprs : ReleaseExpr(i)
     \/ \E i \in DOMAIN results : ReleaseResult(i)

Spec == Init /\ [][Next]_vars

-----------------------------------------------------------------------------
RECURSIVE Types(_)
Types(e) == {e.ty} \cup
  CASE e.k = "lam" -> Types(e.body)
    [] e.k = "app" -> Types(e.fun) \cup Types(e.arg)
    [] e.k = "let" -> Types(e.val) \cup Types(e.body)
    [] e.k = "tuple" -> UNION {Types(f) : f \in ToSet(e.fields)}
    [] OTHER -> {}

Refers(n, heap) ==
  LET node == heap.nodes[n]
  IN  CASE n \in heap.gone -> {}
        [] n \notin heap.gone /\ node.t = "var" -> {node.inst} \ {0}
        [] node.t = "fun" -> {node.in, node.out}
        [] node.t = "tuple" -> ToSet(Fields(heap, n))
        [] OTHER -> {}
RECURSIVE Reach(_, _)
Reach(ns, heap) == LET more == ns \cup UNION {Refers(n, heap) : n \in ns}
                   IN  IF more = ns THEN ns ELSE Reach(more, heap)
\* Whoever follows the type to its end meets nothing that was released.
Readable(n, heap) ==
  \A m \in Reach({n}, heap) :
    m \notin heap.gone /\ (heap.nodes[m].t = "tuple" => ~Stale(heap, m))

\* The one way to a vector that two tuple types own is a copy of a tuple type: without
\* one, releasing expressions in any order releases every vector once, although their
\* types share objects.
ReleasedOnce == h.bad => h.shared

\* However parsing and releasing alternate, the types of declarations and of the
\* expressions a client still has read as they were found: no pool released after
\* inference (lib/sema.c:100) took a part of them along. Only a release after a tuple
\* type was copied, or of a reader of a declared tuple, spoils them.
TypesSurvive ==
  ~spoiled =>
    /\ \A b \in DOMAIN toplvl : \A i \in DOMAIN toplvl[b] :
         ReadType(toplvl[b][i].type, h) = structural[b][i].type
    /\ \A i \in DOMAIN exprs :
         /\ ReadType(exprs[i].e.ty, h) = exprs[i].type
         /\ \A n \in Types(exprs[i].e) : Readable(n, h)

\* Sharing objects changes no type: binding and pruning in place give what inference
\* on types as values gives, with the same outcome and the same errors.
AgreesWithSema == ~spoiled /\ ~h.bad => latest.here = latest.sema

\* The types a diagnostic names can be read for as long as the client has the result,
\* if inference stopped at the error. (If it went on they may be gone: sema.c:100.)
DiagnosticsSurvive ==
  \A i \in DOMAIN results :
    results[i].fate = "failed" /\ ~spoiled =>
      \A j \in DOMAIN results[i].diags : \A n \in results[i].diags[j].types :
        Readable(n, h)

\* wist.h:153: "Releases an AST expression generated by the compiler."
ReleaseIsClean == ~h.bad
=============================================================================
