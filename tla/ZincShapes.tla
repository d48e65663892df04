----------------------------- MODULE ZincShapes -----------------------------
(***************************************************************************)
(* What compiled code can rely on.  Well-formed code has a shape at every  *)
(* instruction: what the running code itself has on the argument stack,    *)
(* and how many variables are in scope.  No instruction of such code looks *)
(* below what is its own, so that the interpreter, which checks nothing,   *)
(* stays within its stacks, objects and code; except that it says nothing  *)
(* of types, nor of the two instructions that go wrong on their own.       *)
(***************************************************************************)
EXTENDS ZincFrames

VARIABLES
  compiled,   \* history: the handles of compiled sources
  astray      \* history: the interpreter has left what well-formed code can rely on

shapeVars == <<frameVars, compiled, astray>>

-----------------------------------------------------------------------------
(* Shapes: own is what the running code has pushed, above the arguments it *)
(* was called with; a source's code (main) was called with none.           *)

Shape == [main : BOOLEAN, own : Seq({"mark", "value"}), scope : Nat]
MainEntry == [main |-> TRUE, own |-> <<>>, scope |-> 0]
Inside(s) == [main |-> FALSE, own |-> <<>>, scope |-> s.scope + 1]

Lower(own, n) == SubSeq(own, 1, Len(own) - n)
AllValues(own, n) == \A i \in n + 1..Len(own) : own[i] = "value"
LastMark(own) == CHOOSE k \in 0..Len(own) : AllValues(own, k) /\ (k > 0 => own[k] = "mark")

\* What an instruction needs of the shape it meets.
Allows(cell, s) ==
  CASE cell.op = "ACCESS" -> cell.arg \in 0..s.scope - 1
    [] cell.op = "ENDLET" -> s.scope > 0
    [] cell.op = "CLOSURE" -> cell.arg \in Nat
    [] cell.op = "MKB" -> /\ cell.arg \in 0..Len(s.own)
                          /\ AllValues(s.own, Len(s.own) - cell.arg)
    [] cell.op = "GRAB" -> ~s.main /\ s.own = <<>>
    [] cell.op = "APPLY" -> \E k \in 1..Len(s.own) - 1 : s.own[k] = "mark" /\ AllValues(s.own, k)
    [] cell.op = "APPTERM" -> ~s.main /\ s.own # <<>> /\ AllValues(s.own, 0)
    [] cell.op = "RETURN" -> s.own = <<>> /\ (s.main => s.scope = 0)
    [] OTHER -> TRUE

\* The shape at the instruction behind it. (Behind APPTERM is a RETURN that nothing
\* reaches, lib/vm_gen.c:188.)
After(cell, s) ==
  CASE cell.op = "PUSH" -> [s EXCEPT !.own = Append(@, "value")]
    [] cell.op = "PUSHMARK" -> [s EXCEPT !.own = Append(@, "mark")]
    [] cell.op = "MKB" -> [s EXCEPT !.own = Lower(@, cell.arg)]
    [] cell.op = "APPLY" -> [s EXCEPT !.own = SubSeq(@, 1, LastMark(@) - 1)]
    [] cell.op = "APPTERM" -> [s EXCEPT !.own = <<>>]
    [] cell.op \in {"LET", "GRAB"} -> [s EXCEPT !.scope = @ + 1]
    [] cell.op = "ENDLET" -> [s EXCEPT !.scope = @ - 1]
    [] cell.op = "CLOSURE" -> Inside(s)
    [] OTHER -> s

Behind(c, i) == i + 1 + OperandBytes(c[i].op)
IsInstr(c, i) == i \in DOMAIN c /\ c[i].op \in Ops
Reaches(c, shapes, i, s) == IsInstr(c, i) /\ shapes[i] = s

\* The shapes agree with one another wherever control can go.
Fits(c, shapes) ==
  /\ shapes \in Seq(Shape) /\ Len(shapes) = Len(c)
  /\ \A i \in DOMAIN c : IsInstr(c, i) =>
       /\ Allows(c[i], shapes[i])
       /\ c[i].op \notin {"RETURN", "APPTERM"} =>
            Reaches(c, shapes, Behind(c, i), After(c[i], shapes[i]))
       /\ c[i].op = "CLOSURE" => Reaches(c, shapes, Behind(c, i) + c[i].arg, shapes[i])

\* The only shapes code can have: those of the instruction before, or behind a
\* closure's body those of its CLOSURE.
ShapesOf(c) ==
  LET Skips(k, i) == c[k].op = "CLOSURE" /\ Behind(c, k) + c[k].arg = i
      sh[i \in DOMAIN c] ==
        IF i = 1 THEN MainEntry
        ELSE IF \E k \in 1..i - 1 : Skips(k, i)
             THEN sh[CHOOSE k \in 1..i - 1 : Skips(k, i)]
        ELSE IF c[i - 1].op = "operand" THEN sh[i - 1]
             ELSE After(c[i - 1], sh[i - 1])
  IN  sh

Shaped(c, shapes) == IsInstr(c, 1) /\ shapes[1] = MainEntry /\ Fits(c, shapes)
WellFormed(c) == Shaped(c, ShapesOf(c))

-----------------------------------------------------------------------------
(* The interpreter and its client, with the history.                       *)

\* Where more is taken for granted than the shape says: a variable behind the first
\* of the heap environment, a call with too many arguments, a call of no function.
Strays ==
  \/ Op = "ACCESS" /\ Arg > extra
  \/ Op = "RETURN" /\ rsp > 0 /\ astack # <<>> /\ ~AtMark
  \/ Op \in {"APPLY", "APPTERM"} /\ accum.t # "clo"

Runs ==
  /\ status = "running" /\ FNext
  /\ astray' = (astray \/ (pc + 1 \in DOMAIN code /\ Strays))
  /\ UNCHANGED compiled

Registers(s) == Register(s) /\ UNCHANGED <<frames, leftover, compiled, astray>>

Compiles(chunk) == /\ Place(chunk) /\ compiled' = compiled \cup {Len(handles')}
                   /\ UNCHANGED <<frames, leftover, astray>>

\* A client evaluates what it had compiled; an answer that is a function has
\* arguments to wait for.
Calls(h) == /\ Eval(h) /\ frames' = <<>> /\ leftover' = FALSE
            /\ astray' = (astray \/ h \notin compiled)
            /\ UNCHANGED compiled

ShInit == FInit /\ compiled = {} /\ astray = FALSE

ShNext ==
  \/ Runs
  \/ \E s \in Syms : Registers(s)
  \/ Len(code) < MaxCode /\ \E chunk \in Chunks : Compiles(chunk)
  \/ \E h \in DOMAIN handles : Calls(h)

ShSpec == ShInit /\ [][ShNext]_shapeVars

-----------------------------------------------------------------------------
\* The code generator emits well-formed code for every source a client has compiled.
CompilesWellFormed ==
  [][compiled' # compiled =>
       WellFormed(SubSeq(code', Len(code) + 1, Len(code')))]_compiled

\* The arrays of lib/vm.c are full, and the instruction writes one more slot.
NoRoom ==
  \/ Op \in {"PUSH", "PUSHMARK"} /\ Len(astack) = AspMax
  \/ Op \in {"LET", "GRAB", "APPTERM"} /\ rsp = RspMax
  \/ Op = "APPLY" /\ rsp + 2 > RspMax
  \/ Op = "ENDLET" /\ extra = 0 /\ rsp + Len(Fields(env)) - 1 > RspMax

Unregistered == Op \in {"SETGLOBAL", "GETGLOBAL"} /\ Arg \notin DOMAIN globals

\* Well-formed code never makes the interpreter leave the code area or run into an
\* operand, read below a stack's bottom, take more than there is, or follow what is
\* no object, until it has gone astray; only a full array stops it, or a global that
\* was never declared.
FaultsExplained ==
  status = "fault" /\ ~astray => pc + 1 \in DOMAIN code /\ (NoRoom \/ Unregistered)

\* An evaluation leaves no argument or mark behind on the argument stack.
BalancedAtReturn == status = "idle" /\ ~astray => astack = <<>>
=============================================================================
