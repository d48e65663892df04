------------------------------ MODULE EvalSpec ------------------------------
(***************************************************************************)
(* What wist.h promises of compiled code, without a machine: a handle of   *)
(* compiled code stands for its source, evaluating it answers, once, with  *)
(* the value the source has (wist.h:65), and a declaration also gives its  *)
(* name that value (wist.h:149).                                           *)
(***************************************************************************)
EXTENDS Strict

CONSTANT Sources   \* what may be compiled: expressions, and [sym, body]

VARIABLES
  answers,   \* one entry per handle: a source, <<"pending">> or a value shown
  defs,      \* the values of the executed declarations
  broken     \* the machine has taken a step that is known to be wrong

NoSym == 0
Body(s) == s.body
Meaning(s) == Denote(s.body, Empty, defs)
Compiled(s) == <<"code", s>>
Pending(s) == <<"pending", s>>

Compile ==
  /\ Len(answers') = Len(answers) + 1
  /\ LET s == Last(answers')[2]
     IN  s \in Sources /\ answers' = Append(answers, Compiled(s))
  /\ UNCHANGED defs

Begin(h) ==
  /\ answers[h][1] = "code"
  /\ answers' = Append(answers, Pending(answers[h][2]))
  /\ UNCHANGED defs

Answer ==
  LET s == Last(answers)[2]
  IN  /\ Last(answers)[1] = "pending"
      /\ answers' = [answers EXCEPT ![Len(answers)] = Shown(Meaning(s))]
      /\ defs' = IF s.sym = NoSym THEN defs ELSE Bind(defs, s.sym, Meaning(s))

Init == answers = <<>> /\ defs = Empty /\ broken = FALSE

Next ==
  \/ /\ UNCHANGED broken
     /\ \/ Compile
        \/ \E h \in DOMAIN answers : Begin(h)
        \/ answers # <<>> /\ Answer
  \/ broken'   \* nothing is promised from here on

Spec == Init /\ [][Next]_<<answers, defs, broken>>
=============================================================================
