------------------------------ MODULE Session ------------------------------
(***************************************************************************)
(* A client's session: declarations are parsed (which registers their      *)
(* names), sources are compiled to closures, closures are evaluated.  It   *)
(* composes the code generator and the interpreter, and relates them to    *)
(* the abstract EvalSpec.  The type checker appears as the sets of         *)
(* well-typed sources and as the order it forces: a global must be         *)
(* registered before a source that reads it is compiled.                   *)
(***************************************************************************)
EXTENDS ZincShapes, CodeGen, Strict

\* Sources [sym, body]: a declaration of sym, an expression for 0.
CONSTANTS
  Alone,     \* each in a session of its own, evaluated once
  Together   \* in one session, in every order

VARIABLES
  source,    \* history: per handle its source, and whether it holds an answer
  defs,      \* history: what the executed declarations mean
  deviant    \* history: the interpreter took a step it does not do right

sessionVars == <<shapeVars, source, defs, deviant>>

NoSym == 0
CodeOf(s) == IF s.sym = NoSym THEN ExprCode(s.body) ELSE DeclCode(s.sym, s.body)
CompiledAlone == {<<s, CodeOf(s)>> : s \in Alone}
CompiledTogether == {<<s, CodeOf(s)>> : s \in Together}
Known == Alone \cup Together
Single == source # <<>> /\ source[1].src \notin Together

-----------------------------------------------------------------------------
(* The three places where the interpreter is known to go wrong.            *)

\* The environment is laid out as an array and walked as a list.
DeepAccess == Executing("ACCESS") /\ Arg > extra
\* The function took fewer arguments than it was given.
LeftoverArgs == Executing("RETURN") /\ rsp > 0 /\ astack # <<>> /\ ~AtMark

Deviates == DeepAccess \/ SpillsMany \/ LeftoverArgs

-----------------------------------------------------------------------------
Parse(s) == s.sym # NoSym /\ Registers(s.sym) /\ UNCHANGED <<source, defs, deviant>>

Compile(s, chunk) ==
  /\ Reads(s.body) \subseteq DOMAIN globals
  /\ s.sym # NoSym => s.sym \in DOMAIN globals
  /\ Compiles(chunk)
  /\ source' = Append(source, [src |-> s, evaluated |-> FALSE])
  /\ UNCHANGED <<defs, deviant>>

\* The client executes declarations before what depends on them.
Evaluate(h) ==
  /\ ~source[h].evaluated
  /\ Reads(source[h].src.body) \subseteq DOMAIN defs
  /\ Calls(h)
  /\ source' = Append(source, [src |-> source[h].src, evaluated |-> TRUE])
  /\ UNCHANGED <<defs, deviant>>

Run ==
  /\ Runs
  /\ deviant' = (deviant \/ Deviates)
  /\ LET s == Last(source).src
     IN  defs' = IF status' = "idle" /\ s.sym # NoSym
                 THEN Bind(defs, s.sym, Denote(s.body, Empty, defs)) ELSE defs
  /\ UNCHANGED source

SessionInit == ShInit /\ source = <<>> /\ defs = Empty /\ deviant = FALSE

SessionNext ==
  \/ Run
  \/ ~Single /\ \E s \in Together : Parse(s)
  \/ /\ status = "idle" /\ code = <<>> /\ globals = Empty
     /\ \E c \in CompiledAlone : Compile(c[1], c[2])
  \/ /\ status = "idle" /\ ~Single /\ Len(code) < MaxCode
     /\ \E c \in CompiledTogether : Compile(c[1], c[2])
  \/ /\ Single => Len(handles) = 1
     /\ \E h \in DOMAIN handles : Evaluate(h)

\* wist_vm_interpret loops until it returns.
SessionSpec == SessionInit /\ [][SessionNext]_sessionVars /\ WF_sessionVars(Run)

-----------------------------------------------------------------------------
(* What the client sees, and the abstract specification.                   *)

RECURSIVE Seen(_)
Seen(o) ==
  CASE o.t = "int" -> <<"int", o.v>>
    [] o.t = "clo" -> <<"closure">>
    [] o.t = "tuple" -> <<"tuple">> \o [i \in DOMAIN Fields(o) |-> Seen(Fields(o)[i])]
    [] OTHER -> <<"junk">>

InFlight(h) == status # "idle" /\ h = Len(handles)

Answers == [h \in DOMAIN handles |->
              IF ~source[h].evaluated THEN <<"code", source[h].src>>
              ELSE IF InFlight(h) THEN <<"pending", source[h].src>>
              ELSE Seen(handles[h])]

Promise == INSTANCE EvalSpec WITH answers <- Answers, broken <- deviant,
                                  Sources <- Known

\* Every evaluation answers with the value strict evaluation gives the source,
\* and a handle keeps its answer whatever is compiled and evaluated later,
\* unless the interpreter took one of the three wrong steps.
KeepsPromise == Promise!Spec

\* Compiled code never makes the interpreter leave the stacks, an object or the
\* code area, never sends it into an operand, and never has it call what is no
\* function, but for those three steps.
FaultsOnlyWhenDeviant == status = "fault" \/ astray => deviant

\* wist.h:65, "Evaluates a closure and returns the final value", taken at its
\* word: no evaluation of compiled source crashes, and each answers with the
\* value strict evaluation gives the source.
ReturnsFinalValue ==
  /\ status # "fault"
  /\ \A h \in DOMAIN handles : source[h].evaluated /\ ~InFlight(h) =>
       Seen(handles[h]) = Shown(Denote(source[h].src.body, Empty, defs))

\* Every evaluation of well-typed source comes to an end.
Terminates == [](status = "running" => <>(status # "running"))
=============================================================================
