---------------------------- MODULE ShapesProofs ----------------------------
(***************************************************************************)
(* Well-formed code keeps the interpreter, which checks nothing, within    *)
(* its stacks, its objects and its code.  The invariant lays the shapes    *)
(* over the argument stack: it is divided by the marks at which suspended  *)
(* calls wait, and each part holds what the shape at the call says.        *)
(***************************************************************************)
EXTENDS ZincProofs, ZincShapes

\* What one code has on the argument stack, from above low, the mark it will
\* return at, to up: up to base arguments it was given too many, and its own.
Level(own, st, low, base, up) ==
  /\ base \in Nat /\ low <= base /\ base <= up /\ up <= Len(st)
  /\ Len(own) = up - base
  /\ \A i \in low + 1..base : st[i].t # "mark"
  /\ \A i \in 1..Len(own) : (own[i] = "mark") <=> (st[base + i].t = "mark")

\* A source was called by the client, with nothing below.
Stands(s, st, low, up) ==
  /\ s.main <=> low = 0
  /\ \E base : Level(s.own, st, low, base, up) /\ (s.main => base = 0)

\* A value can be pushed, bound and called.
Fine(clos, o) == o.t # "mark" /\ (o.t = "clo" => o.v \in clos)
AllFine(clos, f) == \A i \in DOMAIN f : Fine(clos, f[i])

\* Code can go on at p with this scope.
Ready(c, sh, clos, st, p, scope, low, up) ==
  /\ IsInstr(c, p + 1) /\ Stands(sh[p + 1], st, low, up)
  /\ Len(scope) = sh[p + 1].scope /\ AllFine(clos, scope)

\* The callers, the oldest first, each below the mark its call pushed.
Floor(calls, k) == IF k = 0 THEN 0 ELSE calls[k]
Suspended(c, sh, clos, st, callers, calls) ==
  /\ calls \in Seq(Nat) /\ DOMAIN callers = 1..Len(calls)
  /\ \A j, k \in 1..Len(calls) : j < k => calls[j] < calls[k]
  /\ \A k \in 1..Len(calls) :
       /\ calls[k] \in 1..Len(st) /\ st[calls[k]].t = "mark"
       /\ Ready(c, sh, clos, st, callers[k].pc, callers[k].scope,
                Floor(calls, k - 1), calls[k] - 1)

\* The closures that values refer to: an environment of such values, and the entry
\* of a body that has one variable more.
Closed(c, sh, hp, clos, a) ==
  /\ a \in DOMAIN hp /\ {1, 2} \subseteq DOMAIN hp[a]
  /\ hp[a][1].t \in Kinds /\ hp[a][1].v \in DOMAIN hp /\ hp[a][2].t \notin Kinds
  /\ AllFine(clos, hp[hp[a][1].v])
  /\ IsInstr(c, hp[a][2].v + 1)
  /\ sh[hp[a][2].v + 1] = [main |-> FALSE, own |-> <<>>, scope |-> Len(hp[hp[a][1].v]) + 1]
Objects(c, sh, hp, clos) == \A a \in clos : Closed(c, sh, hp, clos, a)

\* What a compiled source's handle holds: no variables, and the source's first byte.
Entry(c, sh, hp, o) ==
  /\ o.t \in Kinds /\ o.v \in DOMAIN hp /\ {1, 2} \subseteq DOMAIN hp[o.v]
  /\ hp[o.v][1].t \in Kinds /\ hp[o.v][1].v \in DOMAIN hp /\ hp[hp[o.v][1].v] = <<>>
  /\ hp[o.v][2].t \notin Kinds
  /\ IsInstr(c, hp[o.v][2].v + 1) /\ sh[hp[o.v][2].v + 1] = MainEntry

-----------------------------------------------------------------------------
(* Levels of the argument stack.                                           *)

LEMMA ShapeType ==
  ASSUME NEW c, NEW sh, Fits(c, sh), NEW i \in DOMAIN c, c \in Seq(Cell)
  PROVE  /\ sh[i] \in Shape /\ sh[i].main \in BOOLEAN /\ sh[i].own \in Seq({"mark", "value"})
         /\ Len(sh[i].own) \in Nat /\ sh[i].scope \in Nat
<1>1. sh[i] \in Shape
  BY DEF Fits
<1> QED BY <1>1, LenProperties DEF Shape

\* The same level seen on a stack that agrees with it.
LEMMA LevelStays ==
  ASSUME NEW own, Len(own) \in Nat, NEW st, NEW st2, NEW low \in Nat, NEW base,
         NEW up \in Nat, Level(own, st, low, base, up),
         up <= Len(st2), \A i \in 1..up : st2[i] = st[i]
  PROVE  Level(own, st2, low, base, up)
<1>1. \A i \in low + 1..base : st2[i] = st[i]
  BY DEF Level
<1>2. \A i \in 1..Len(own) : st2[base + i] = st[base + i]
  BY DEF Level
<1> QED BY <1>1, <1>2 DEF Level

LEMMA LevelPushes ==
  ASSUME NEW own \in Seq({"mark", "value"}), NEW st \in Seq(Value), NEW low \in Nat,
         NEW base, Level(own, st, low, base, Len(st)), NEW o \in Value,
         NEW m \in {"mark", "value"}, (m = "mark") <=> (o.t = "mark")
  PROVE  Level(Append(own, m), Append(st, o), low, base, Len(st) + 1)
<1> DEFINE new == Append(own, m)
           st2 == Append(st, o)
<1>1. /\ Len(own) \in Nat /\ Len(st) \in Nat
      /\ Len(new) = Len(own) + 1 /\ Len(st2) = Len(st) + 1
      /\ new[Len(own) + 1] = m /\ st2[Len(st) + 1] = o
      /\ (\A i \in 1..Len(own) : new[i] = own[i]) /\ (\A i \in 1..Len(st) : st2[i] = st[i])
  OBVIOUS
<1> HIDE DEF new, st2
<1>2. base \in Nat /\ base + Len(own) = Len(st) /\ low <= base
  BY <1>1 DEF Level
<1>3. ASSUME NEW i \in low + 1..base PROVE st2[i].t # "mark"
  <2>1. i \in 1..Len(st)
    BY <1>1, <1>2
  <2>2. st[i].t # "mark"
    BY DEF Level
  <2> QED BY <2>1, <2>2, <1>1
<1>4. ASSUME NEW i \in 1..Len(new) PROVE (new[i] = "mark") <=> (st2[base + i].t = "mark")
  <2>1. CASE i = Len(own) + 1
    BY <2>1, <1>1, <1>2
  <2>2. CASE i \in 1..Len(own)
    <3>1. base + i \in 1..Len(st)
      BY <2>2, <1>1, <1>2
    <3> QED BY <2>2, <3>1, <1>1 DEF Level
  <2> QED BY <2>1, <2>2, <1>1
<1> QED BY <1>1, <1>2, <1>3, <1>4 DEF Level, new, st2

\* With the lowest n of its own slots only.
LEMMA LevelLowers ==
  ASSUME NEW own \in Seq({"mark", "value"}), NEW st \in Seq(Value), NEW low \in Nat,
         NEW base, NEW up \in Nat, Level(own, st, low, base, up), NEW n \in 0..Len(own),
         NEW st2, base + n <= Len(st2), \A i \in 1..base + n : st2[i] = st[i]
  PROVE  Level(SubSeq(own, 1, n), st2, low, base, base + n)
<1> DEFINE new == SubSeq(own, 1, n)
<1>1. Len(own) \in Nat /\ Len(new) = n /\ \A i \in 1..n : new[i] = own[i]
  OBVIOUS
<1> HIDE DEF new
<1>2. base \in Nat /\ low <= base
  BY <1>1 DEF Level
<1>3. ASSUME NEW i \in low + 1..base PROVE st2[i].t # "mark"
  BY <1>1, <1>2 DEF Level
<1>4. ASSUME NEW i \in 1..Len(new) PROVE (new[i] = "mark") <=> (st2[base + i].t = "mark")
  <2>1. base + i \in 1..base + n /\ i \in 1..Len(own)
    BY <1>1, <1>2
  <2> QED BY <2>1, <1>1 DEF Level
<1> QED BY <1>1, <1>2, <1>3, <1>4 DEF Level, new

\* What is above the last mark becomes the callee's, without its first argument;
\* what is below stays with the caller.
LEMMA LastMarkIs ==
  ASSUME NEW own \in Seq({"mark", "value"}),
         NEW k \in 1..Len(own) - 1, own[k] = "mark", AllValues(own, k)
  PROVE  LastMark(own) = k
<1>1. Len(own) \in Nat
  OBVIOUS
<1>2. ASSUME NEW j \in 0..Len(own), AllValues(own, j), j > 0 => own[j] = "mark"
      PROVE  j = k
  <2>1. ~(j < k)
    BY <1>1, <1>2 DEF AllValues
  <2>2. ~(j > k)
    BY <1>1, <1>2 DEF AllValues
  <2> QED BY <1>1, <2>1, <2>2
<1>3. k \in 0..Len(own)
  BY <1>1
<1> QED BY <1>2, <1>3 DEF LastMark

LEMMA LevelCalls ==
  ASSUME NEW own \in Seq({"mark", "value"}), NEW st \in Seq(Value), NEW low \in Nat,
         NEW base, Level(own, st, low, base, Len(st)),
         NEW k \in 1..Len(own) - 1, own[k] = "mark", AllValues(own, k),
         NEW st2 \in Seq(Value), Len(st2) = Len(st) - 1,
         \A i \in 1..Len(st2) : st2[i] = st[i]
  PROVE  /\ base + k \in 1..Len(st2) /\ low < base + k /\ st2[base + k].t = "mark"
         /\ Level(<<>>, st2, base + k, Len(st2), Len(st2))
         /\ Level(SubSeq(own, 1, k - 1), st2, low, base, base + k - 1)
<1>1. /\ Len(own) \in Nat /\ Len(st) \in Nat /\ base \in Nat /\ low <= base
      /\ base + Len(own) = Len(st)
  BY DEF Level
<1>2. base + k \in 1..Len(st2) /\ low < base + k /\ k \in 1..Len(own)
  BY <1>1
<1>3. st2[base + k].t = "mark"
  BY <1>1, <1>2 DEF Level
<1>4. Level(<<>>, st2, base + k, Len(st2), Len(st2))
  <2>1. ASSUME NEW i \in base + k + 1..Len(st2) PROVE st2[i].t # "mark"
    <3>1. PICK j \in k + 1..Len(own) : base + j = i /\ i \in 1..Len(st2)
      <4>1. i - base \in k + 1..Len(own) /\ base + (i - base) = i /\ i \in 1..Len(st2)
        BY <1>1
      <4> QED BY <4>1
    <3>2. own[j] = "value"
      BY <3>1 DEF AllValues
    <3>3. j \in 1..Len(own)
      BY <1>1
    <3>4. st[i].t # "mark"
      BY <3>1, <3>2, <3>3 DEF Level
    <3> QED BY <3>1, <3>4
  <2>2. Len(<<>>) = 0
    OBVIOUS
  <2> QED BY <2>1, <2>2, <1>1, <1>2 DEF Level
<1>5. Level(SubSeq(own, 1, k - 1), st2, low, base, base + k - 1)
  <2>1. PICK n \in 0..Len(own) : n = k - 1
    <3>1. k - 1 \in 0..Len(own)
      BY <1>1
    <3> QED BY <3>1
  <2>2. base + n = base + k - 1 /\ base + n <= Len(st2)
    BY <2>1, <1>1, <1>2
  <2>3. Level(SubSeq(own, 1, n), st2, low, base, base + n)
    <3>1. \A i \in 1..base + n : i \in 1..Len(st2)
      BY <2>2, <1>1
    <3>2. \A i \in 1..base + n : st2[i] = st[i]
      BY <3>1
    <3> QED BY <2>2, <3>2, <1>1, LevelLowers
  <2> QED BY <2>1, <2>2, <2>3
<1> QED BY <1>2, <1>3, <1>4, <1>5

\* Code that leaves nothing but values passes them on, without the topmost.
LEMMA LevelTakes ==
  ASSUME NEW own \in Seq({"mark", "value"}), NEW st \in Seq(Value), NEW low \in Nat,
         NEW base, Level(own, st, low, base, Len(st)), AllValues(own, 0), low < Len(st),
         NEW st2 \in Seq(Value), Len(st2) = Len(st) - 1,
         \A i \in 1..Len(st2) : st2[i] = st[i]
  PROVE  Level(<<>>, st2, low, Len(st2), Len(st2))
<1>1. /\ Len(own) \in Nat /\ Len(st) \in Nat /\ base \in Nat /\ low <= base
      /\ base + Len(own) = Len(st) /\ Len(<<>>) = 0
  BY DEF Level
<1>2. ASSUME NEW i \in low + 1..Len(st2) PROVE st2[i].t # "mark"
  <2>1. CASE i <= base
    BY <2>1, <1>1 DEF Level
  <2>2. CASE i > base
    <3>1. i - base \in 1..Len(own) /\ base + (i - base) = i /\ i \in 1..Len(st2)
      BY <2>2, <1>1
    <3>2. own[i - base] = "value"
      BY <3>1 DEF AllValues
    <3> QED BY <3>1, <3>2 DEF Level
  <2> QED BY <2>1, <2>2, <1>1
<1> QED BY <1>1, <1>2 DEF Level

-----------------------------------------------------------------------------
(* Suspended code.                                                         *)

\* A stack that agrees up to there, and more closures.
LEMMA ReadyStays ==
  ASSUME NEW c \in Seq(Cell), NEW sh, Fits(c, sh), NEW clos, NEW clos2, clos \subseteq clos2,
         NEW st, NEW st2, NEW p, NEW scope, NEW low \in Nat, NEW up \in Nat,
         Ready(c, sh, clos, st, p, scope, low, up),
         up <= Len(st2), \A i \in 1..up : st2[i] = st[i]
  PROVE  Ready(c, sh, clos2, st2, p, scope, low, up)
<1>1. IsInstr(c, p + 1) /\ p + 1 \in DOMAIN c
  BY DEF Ready, IsInstr
<1>2. PICK own : own = sh[p + 1].own
  OBVIOUS
<1>3. PICK base : Level(own, st, low, base, up) /\ (sh[p + 1].main => base = 0)
  BY <1>2 DEF Ready, Stands
<1>4. Len(own) \in Nat
  BY <1>1, <1>2, ShapeType
<1>5. Level(own, st2, low, base, up)
  BY <1>3, <1>4, LevelStays
<1>6. Stands(sh[p + 1], st2, low, up)
  BY <1>2, <1>3, <1>5 DEF Ready, Stands
<1>7. AllFine(clos2, scope)
  BY DEF Ready, AllFine, Fine
<1> QED BY <1>1, <1>6, <1>7 DEF Ready

LEMMA FloorType ==
  ASSUME NEW calls \in Seq(Nat), NEW k \in 0..Len(calls)
  PROVE  Floor(calls, k) \in Nat
BY DEF Floor

LEMMA SuspendedStays ==
  ASSUME NEW c \in Seq(Cell), NEW sh, Fits(c, sh), NEW clos, NEW clos2, clos \subseteq clos2,
         NEW st, NEW st2, Len(st2) \in Nat, NEW callers, NEW calls,
         Suspended(c, sh, clos, st, callers, calls),
         Floor(calls, Len(calls)) <= Len(st2),
         \A i \in 1..Floor(calls, Len(calls)) : st2[i] = st[i]
  PROVE  Suspended(c, sh, clos2, st2, callers, calls)
<1>1. calls \in Seq(Nat) /\ Len(calls) \in Nat
  BY DEF Suspended
<1>2. ASSUME NEW k \in 1..Len(calls)
      PROVE  /\ calls[k] \in 1..Len(st2) /\ st2[calls[k]].t = "mark"
             /\ Ready(c, sh, clos2, st2, callers[k].pc, callers[k].scope,
                      Floor(calls, k - 1), calls[k] - 1)
  <2>1. /\ calls[k] \in 1..Len(st) /\ st[calls[k]].t = "mark"
        /\ Ready(c, sh, clos, st, callers[k].pc, callers[k].scope,
                 Floor(calls, k - 1), calls[k] - 1)
    BY DEF Suspended
  <2>2. calls[k] <= Floor(calls, Len(calls)) /\ calls[k] \in Nat
        /\ Floor(calls, Len(calls)) \in Nat
    <3>1. k < Len(calls) => calls[k] < calls[Len(calls)]
      BY <1>1 DEF Suspended
    <3> QED BY <3>1, <1>1 DEF Floor
  <2>3. calls[k] \in 1..Len(st2) /\ st2[calls[k]] = st[calls[k]]
    BY <2>1, <2>2
  <2>4. PICK low \in Nat, up \in Nat : low = Floor(calls, k - 1) /\ up = calls[k] - 1
    <3>1. k - 1 \in 0..Len(calls) /\ calls[k] - 1 \in Nat
      BY <1>1, <2>1, <2>2
    <3>2. Floor(calls, k - 1) \in Nat
      BY <3>1, <1>1, FloorType
    <3> QED BY <3>1, <3>2
  <2>5. up <= Len(st2) /\ \A i \in 1..up : st2[i] = st[i]
    BY <2>2, <2>3, <2>4
  <2>6. Ready(c, sh, clos2, st2, callers[k].pc, callers[k].scope, low, up)
    BY <2>1, <2>4, <2>5, ReadyStays
  <2> QED BY <2>1, <2>3, <2>4, <2>6
<1> QED BY <1>1, <1>2 DEF Suspended

\* A call suspends the code that makes it.
LEMMA SuspendedGrows ==
  ASSUME NEW c \in Seq(Cell), NEW sh, NEW clos, NEW st, NEW callers, NEW calls,
         Suspended(c, sh, clos, st, callers, calls),
         NEW m \in 1..Len(st), Floor(calls, Len(calls)) < m, st[m].t = "mark",
         NEW caller, Ready(c, sh, clos, st, caller.pc, caller.scope,
                           Floor(calls, Len(calls)), m - 1),
         callers = [k \in 1..Len(calls) |-> callers[k]]
  PROVE  /\ Suspended(c, sh, clos, st, Append(callers, caller), Append(calls, m))
         /\ Len(Append(calls, m)) = Len(calls) + 1
         /\ Floor(Append(calls, m), Len(calls) + 1) = m
<1> DEFINE new == Append(calls, m)
           all == Append(callers, caller)
<1>1. PICK n \in Nat : n = Len(calls)
  BY DEF Suspended
<1>2. /\ calls \in Seq(Nat) /\ new \in Seq(Nat) /\ Len(new) = n + 1 /\ new[n + 1] = m
      /\ \A k \in 1..n : new[k] = calls[k] /\ calls[k] \in Nat
  BY <1>1 DEF Suspended
<1>3. DOMAIN all = 1..n + 1 /\ all[n + 1] = caller /\ \A k \in 1..n : all[k] = callers[k]
  <2>1. all = [k \in 1..n + 1 |-> IF k = n + 1 THEN caller ELSE callers[k]]
    BY <1>1, AppendIs
  <2> QED BY <2>1
<1> HIDE DEF new, all
<1>4. ASSUME NEW k \in 0..n PROVE Floor(new, k) = Floor(calls, k)
  <2>1. k # 0 => k \in 1..n
    OBVIOUS
  <2> QED BY <2>1, <1>2 DEF Floor
<1>5. ASSUME NEW j \in 1..n + 1, NEW k \in 1..n + 1, j < k PROVE new[j] < new[k]
  <2>1. CASE k \in 1..n
    <3>1. j \in 1..n
      BY <2>1, <1>5
    <3>2. calls[j] < calls[k]
      BY <2>1, <3>1, <1>1, <1>5 DEF Suspended
    <3> QED BY <2>1, <3>1, <3>2, <1>2
  <2>2. CASE k = n + 1
    <3>1. j \in 1..n /\ n \in 1..n
      BY <2>2, <1>5
    <3>2. j < n => calls[j] < calls[n]
      BY <3>1, <1>1 DEF Suspended
    <3>3. calls[n] < m /\ calls[n] \in Nat /\ calls[j] \in Nat
      BY <3>1, <1>1, <1>2 DEF Floor
    <3>4. calls[j] < m
      BY <3>1, <3>2, <3>3
    <3> QED BY <2>2, <3>1, <3>4, <1>2
  <2> QED BY <2>1, <2>2
<1>6. ASSUME NEW k \in 1..n + 1
      PROVE  /\ new[k] \in 1..Len(st) /\ st[new[k]].t = "mark"
             /\ Ready(c, sh, clos, st, all[k].pc, all[k].scope,
                      Floor(new, k - 1), new[k] - 1)
  <2>1. CASE k \in 1..n
    <3>0. k - 1 \in 0..n
      BY <2>1
    <3>1. new[k] = calls[k] /\ all[k] = callers[k]
      BY <2>1, <1>2, <1>3, Zenon
    <3>2. /\ calls[k] \in 1..Len(st) /\ st[calls[k]].t = "mark"
          /\ Ready(c, sh, clos, st, callers[k].pc, callers[k].scope,
                   Floor(calls, k - 1), calls[k] - 1)
      BY <2>1, <1>1 DEF Suspended
    <3> QED BY <3>0, <3>1, <3>2, <1>4
  <2>2. CASE k = n + 1
    <3>0. k - 1 = n /\ n \in 0..n
      BY <2>2
    <3>1. new[k] = m /\ all[k] = caller
      BY <2>2, <1>2, <1>3, Zenon
    <3> QED BY <3>0, <3>1, <1>1, <1>4
  <2> QED BY <2>1, <2>2
<1>7. Suspended(c, sh, clos, st, all, new)
  BY <1>2, <1>3, <1>5, <1>6 DEF Suspended
<1> QED BY <1>1, <1>2, <1>7 DEF new, all, Floor

\* The last caller goes on, the others wait as before.
LEMMA SuspendedShrinks ==
  ASSUME NEW c \in Seq(Cell), NEW sh, NEW clos, NEW st, NEW callers, NEW calls,
         Suspended(c, sh, clos, st, callers, calls), Len(calls) # 0,
         callers = [k \in 1..Len(calls) |-> callers[k]]
  PROVE  LET n == Len(calls) - 1
             less == SubSeq(calls, 1, n)
         IN  /\ Suspended(c, sh, clos, st, SubSeq(callers, 1, n), less)
             /\ Len(less) = n /\ Floor(less, n) = Floor(calls, n)
<1>1. PICK n \in Nat : n = Len(calls) - 1
  BY DEF Suspended
<1> DEFINE less == SubSeq(calls, 1, n)
           rest == SubSeq(callers, 1, n)
<1>2. /\ calls \in Seq(Nat) /\ less \in Seq(Nat) /\ Len(less) = n
      /\ \A k \in 1..n : less[k] = calls[k]
  <2>1. calls \in Seq(Nat) /\ Len(calls) = n + 1
    BY <1>1 DEF Suspended
  <2> QED BY <2>1
<1>3. DOMAIN rest = 1..n /\ \A k \in 1..n : rest[k] = callers[k]
  <2>1. rest = [k \in 1..n |-> callers[k]]
    BY <1>1, FrontIs
  <2> QED BY <2>1
<1> HIDE DEF less, rest
<1>4. \A k \in 0..n : Floor(less, k) = Floor(calls, k)
  BY <1>2 DEF Floor
<1>5. \A k \in 1..n : k \in 1..Len(calls) /\ k - 1 \in 0..n
  BY <1>1
<1>6. Suspended(c, sh, clos, st, rest, less)
  BY <1>2, <1>3, <1>4, <1>5 DEF Suspended
<1> QED BY <1>1, <1>2, <1>4, <1>6 DEF less, rest

-----------------------------------------------------------------------------
(* Objects and code.                                                       *)

\* More code, with the same shapes where there was some.
Extends(c2, sh2, c, sh) ==
  \A i \in DOMAIN c : i \in DOMAIN c2 /\ c2[i] = c[i] /\ sh2[i] = sh[i]

LEMMA ObjectsStay ==
  ASSUME NEW c, NEW sh, NEW hp, NEW clos, Objects(c, sh, hp, clos),
         NEW c2, NEW sh2, Extends(c2, sh2, c, sh),
         NEW hp2, \A a \in DOMAIN hp : a \in DOMAIN hp2 /\ hp2[a] = hp[a],
         NEW clos2, clos \subseteq clos2
  PROVE  \A a \in clos : Closed(c2, sh2, hp2, clos2, a)
<1> SUFFICES ASSUME NEW a \in clos PROVE Closed(c2, sh2, hp2, clos2, a)
  OBVIOUS
<1>1. Closed(c, sh, hp, clos, a)
  BY DEF Objects
<1>2. /\ hp2[a] = hp[a] /\ a \in DOMAIN hp2 /\ hp[a][1].v \in DOMAIN hp2
      /\ hp2[hp[a][1].v] = hp[hp[a][1].v]
  BY <1>1 DEF Closed
<1>3. AllFine(clos2, hp[hp[a][1].v])
  BY <1>1 DEF Closed, AllFine, Fine
<1>4. IsInstr(c2, hp[a][2].v + 1) /\ sh2[hp[a][2].v + 1] = sh[hp[a][2].v + 1]
  BY <1>1 DEF Closed, Extends, IsInstr
<1> QED BY <1>1, <1>2, <1>3, <1>4 DEF Closed

LEMMA EntryStays ==
  ASSUME NEW c, NEW sh, NEW hp, NEW o, Entry(c, sh, hp, o),
         NEW c2, NEW sh2, Extends(c2, sh2, c, sh),
         NEW hp2, \A a \in DOMAIN hp : a \in DOMAIN hp2 /\ hp2[a] = hp[a]
  PROVE  Entry(c2, sh2, hp2, o)
<1>1. IsInstr(c2, hp[o.v][2].v + 1) /\ sh2[hp[o.v][2].v + 1] = sh[hp[o.v][2].v + 1]
  BY DEF Entry, Extends, IsInstr
<1> QED BY <1>1 DEF Entry

\* A closure made where its code has these variables.
LEMMA ObjectsCapture ==
  ASSUME NEW c, NEW sh, NEW hp \in Seq(Object), NEW clos, Objects(c, sh, hp, clos),
         NEW kind \in Kinds, NEW x, NEW fields \in Seq(Value), AllFine(clos, fields),
         IsInstr(c, x + 1),
         sh[x + 1] = [main |-> FALSE, own |-> <<>>, scope |-> Len(fields) + 1],
         NEW hp2, hp2 = hp \o <<<<Ref(kind, Len(hp) + 2), CodeIdx(x)>>, fields>>
  PROVE  Objects(c, sh, hp2, clos \cup {Len(hp) + 1})
<1>1. /\ Len(hp) \in Nat /\ \A a \in DOMAIN hp : a \in DOMAIN hp2 /\ hp2[a] = hp[a]
      /\ Len(hp) + 1 \in DOMAIN hp2 /\ Len(hp) + 2 \in DOMAIN hp2
      /\ hp2[Len(hp) + 1] = <<Ref(kind, Len(hp) + 2), CodeIdx(x)>>
      /\ hp2[Len(hp) + 2] = fields
  OBVIOUS
<1>2. PICK a, e : a = Len(hp) + 1 /\ e = Len(hp) + 2
  OBVIOUS
<1>3. Extends(c, sh, c, sh)
  BY DEF Extends
<1>4. \A b \in clos : Closed(c, sh, hp2, clos \cup {a}, b)
  BY <1>1, <1>3, ObjectsStay
<1>5. /\ a \in DOMAIN hp2 /\ e \in DOMAIN hp2 /\ hp2[e] = fields
      /\ {1, 2} \subseteq DOMAIN hp2[a]
      /\ hp2[a][1] = Ref(kind, e) /\ hp2[a][2] = CodeIdx(x)
  BY <1>1, <1>2
<1>6. /\ Ref(kind, e).t = kind /\ Ref(kind, e).v = e
      /\ CodeIdx(x).t \notin Kinds /\ CodeIdx(x).v = x
  BY DEF Ref, CodeIdx, Kinds
<1>7. AllFine(clos \cup {a}, fields)
  BY DEF AllFine, Fine
<1>8. Closed(c, sh, hp2, clos \cup {a}, a)
  BY <1>5, <1>6, <1>7 DEF Closed
<1> QED BY <1>2, <1>4, <1>8 DEF Objects

LEMMA OperandBytesType == \A op : OperandBytes(op) \in Nat
BY WordBytesAssumption DEF OperandBytes

LEMMA Joined ==
  ASSUME NEW S, NEW s \in Seq(S), NEW t \in Seq(S)
  PROVE  /\ s \o t \in Seq(S) /\ Len(s \o t) = Len(s) + Len(t)
         /\ \A i \in 1..Len(s) : (s \o t)[i] = s[i]
         /\ \A i \in 1..Len(t) : (s \o t)[Len(s) + i] = t[i]
OBVIOUS

LEMMA ShapesJoined ==
  ASSUME NEW s \in Seq(Shape), NEW t \in Seq(Shape)
  PROVE  /\ s \o t \in Seq(Shape) /\ Len(s \o t) = Len(s) + Len(t)
         /\ \A i \in 1..Len(s) : (s \o t)[i] = s[i]
         /\ \A i \in 1..Len(t) : (s \o t)[Len(s) + i] = t[i]
BY Joined

\* Code behind code that fits.
LEMMA FitsTogether ==
  ASSUME NEW c \in Seq(Cell), NEW d \in Seq(Cell), NEW sc, NEW sd, Fits(c, sc), Fits(d, sd)
  PROVE  /\ Fits(c \o d, sc \o sd) /\ Extends(c \o d, sc \o sd, c, sc)
<1> DEFINE e == c \o d
           se == sc \o sd
<1>1. PICK m \in Nat, n \in Nat : m = Len(c) /\ n = Len(d)
  OBVIOUS
<1>2. sc \in Seq(Shape) /\ sd \in Seq(Shape) /\ Len(sc) = m /\ Len(sd) = n
  BY <1>1 DEF Fits
<1>3. /\ e \in Seq(Cell) /\ Len(e) = m + n /\ DOMAIN e = 1..m + n
      /\ DOMAIN c = 1..m /\ DOMAIN d = 1..n
      /\ \A i \in 1..m : e[i] = c[i]
      /\ \A i \in 1..n : e[m + i] = d[i]
  BY <1>1
<1>4. /\ se \in Seq(Shape) /\ Len(se) = m + n
      /\ \A i \in 1..m : se[i] = sc[i]
      /\ \A i \in 1..n : se[m + i] = sd[i]
  <2>1. /\ sc \o sd \in Seq(Shape) /\ Len(sc \o sd) = Len(sc) + Len(sd)
        /\ \A i \in 1..Len(sc) : (sc \o sd)[i] = sc[i]
        /\ \A i \in 1..Len(sd) : (sc \o sd)[Len(sc) + i] = sd[i]
    BY <1>2, ShapesJoined, Zenon
  <2> QED BY <2>1, <1>2, Zenon
<1> HIDE DEF e, se
<1>5. \A i, s : Reaches(c, sc, i, s) => Reaches(e, se, i, s)
  BY <1>3, <1>4 DEF Reaches, IsInstr
<1>6. \A i, s : Reaches(d, sd, i, s) => Reaches(e, se, m + i, s)
  BY <1>3, <1>4 DEF Reaches, IsInstr
<1>7. ASSUME NEW i \in 1..m + n, IsInstr(e, i)
      PROVE  /\ Allows(e[i], se[i])
             /\ e[i].op \notin {"RETURN", "APPTERM"} =>
                  Reaches(e, se, Behind(e, i), After(e[i], se[i]))
             /\ e[i].op = "CLOSURE" => Reaches(e, se, Behind(e, i) + e[i].arg, se[i])
  <2>1. CASE i \in 1..m
    <3>1. e[i] = c[i] /\ se[i] = sc[i] /\ IsInstr(c, i) /\ Behind(e, i) = Behind(c, i)
      BY <2>1, <1>3, <1>4, <1>7 DEF IsInstr, Behind
    <3>2. /\ Allows(c[i], sc[i])
          /\ c[i].op \notin {"RETURN", "APPTERM"} =>
               Reaches(c, sc, Behind(c, i), After(c[i], sc[i]))
          /\ c[i].op = "CLOSURE" => Reaches(c, sc, Behind(c, i) + c[i].arg, sc[i])
      BY <2>1, <3>1, <1>3 DEF Fits
    <3> QED BY <3>1, <3>2, <1>5
  <2>2. CASE i \in m + 1..m + n
    <3>1. PICK j \in 1..n : i = m + j
      <4>1. i - m \in 1..n /\ i = m + (i - m)
        BY <2>2
      <4> QED BY <4>1
    <3>2. e[i] = d[j] /\ se[i] = sd[j] /\ IsInstr(d, j)
      BY <3>1, <1>3, <1>4, <1>7 DEF IsInstr
    <3>3. PICK b \in Nat : b = OperandBytes(d[j].op)
      BY OperandBytesType
    <3>4. d[j].arg \in Int
      <4>1. d[j] \in Cell
        BY <1>1
      <4> QED BY <4>1 DEF Cell
    <3>5. /\ Behind(e, i) = m + Behind(d, j)
          /\ Behind(e, i) + d[j].arg = m + (Behind(d, j) + d[j].arg)
      <4>1. Behind(e, i) = m + j + 1 + b /\ Behind(d, j) = j + 1 + b
        BY <3>1, <3>2, <3>3 DEF Behind
      <4>2. \A k \in Int : /\ m + j + 1 + b = m + (j + 1 + b)
                          /\ (m + j + 1 + b) + k = m + ((j + 1 + b) + k)
        OBVIOUS
      <4> QED BY <4>1, <4>2, <3>4, Zenon
    <3>6. /\ Allows(d[j], sd[j])
          /\ d[j].op \notin {"RETURN", "APPTERM"} =>
               Reaches(d, sd, Behind(d, j), After(d[j], sd[j]))
          /\ d[j].op = "CLOSURE" => Reaches(d, sd, Behind(d, j) + d[j].arg, sd[j])
      BY <3>2, <1>3 DEF Fits
    <3> QED BY <3>2, <3>5, <3>6, <1>6
  <2> QED BY <2>1, <2>2
<1>8. Fits(e, se)
  BY <1>3, <1>4, <1>7 DEF Fits
<1>9. Extends(e, se, c, sc)
  BY <1>3, <1>4 DEF Extends
<1> QED BY <1>8, <1>9 DEF e, se

-----------------------------------------------------------------------------
(* The invariant.                                                          *)

\* What outlives an evaluation.
Keeps(sh, clos) ==
  /\ Fits(code, sh) /\ Objects(code, sh, heap, clos)
  /\ \A s \in DOMAIN globals : Fine(clos, globals[s])
  /\ \A h \in compiled : h \in DOMAIN handles /\ Entry(code, sh, heap, handles[h])

Executes(sh, calls, clos) ==
  /\ ~leftover /\ Len(handles) \notin compiled
  /\ env.t \in Kinds /\ \A k \in DOMAIN frames : frames[k].saved.env.t \in Kinds
  /\ Fine(clos, accum) /\ Len(astack) <= AspMax
  /\ \A i \in DOMAIN astack : astack[i].t = "clo" => astack[i].v \in clos
  /\ Suspended(code, sh, clos, astack, Callers, calls)
  /\ Ready(code, sh, clos, astack, pc, Scope, Floor(calls, Len(calls)), Len(astack))

Sound ==
  \E sh, clos : /\ Keeps(sh, clos)
                /\ status = "running" => \E calls : Executes(sh, calls, clos)

\* All that is needed of compiled code: shapes that fit, however they are found.
HasShapes(c) == \E sh : Shaped(c, sh)
CompilesShaped ==
  [][compiled' # compiled => HasShapes(SubSeq(code', Len(code) + 1, Len(code')))]_compiled

\* FaultsExplained and BalancedAtReturn say nothing of the states in between.
ShapesInv == (astray \/ Sound) /\ FaultsExplained /\ BalancedAtReturn

\* The situation of every step of the interpreter.
Stepping(sh, calls, clos) ==
  /\ FramesInv /\ FramesInv' /\ HeapGrows /\ status = "running" /\ UNCHANGED compiled
  /\ Keeps(sh, clos) /\ Executes(sh, calls, clos) /\ ~Strays

\* What the instruction finds.
LEMMA Finds ==
  ASSUME NEW sh, NEW calls, NEW clos, Stepping(sh, calls, clos),
         NEW s, s = sh[pc + 1], NEW low, low = Floor(calls, Len(calls))
  PROVE  /\ TypeOK /\ code \in Seq(Cell) /\ astack \in Seq(Value) /\ heap \in Seq(Object)
         /\ IsInstr(code, pc + 1) /\ pc + 1 \in DOMAIN code /\ Arg \in Int /\ Next1 \in Int
         /\ s \in Shape /\ s.own \in Seq({"mark", "value"}) /\ Len(s.own) \in Nat
         /\ s.scope \in Nat /\ s.main \in BOOLEAN /\ low \in Nat /\ Len(astack) \in Nat
         /\ Stands(s, astack, low, Len(astack)) /\ low <= Len(astack)
         /\ Len(Scope) = s.scope /\ AllFine(clos, Scope) /\ Scope \in Seq(Value)
         /\ Len(Scope) = extra + Len(Contents(env)) /\ Contents(env) \in Seq(Value)
         /\ IsObj(env)
<1>1. Fits(code, sh) /\ Executes(sh, calls, clos) /\ FramesInv /\ ~leftover
  BY DEF Stepping, Keeps, Executes
<1>2. TypeOK /\ code \in Seq(Cell) /\ astack \in Seq(Value) /\ heap \in Seq(Object)
  BY <1>1 DEF FramesInv, TypeOK
<1>3. Ready(code, sh, clos, astack, pc, Scope, low, Len(astack))
  BY <1>1 DEF Executes
<1>4. IsInstr(code, pc + 1) /\ pc + 1 \in DOMAIN code /\ Stands(s, astack, low, Len(astack))
      /\ Len(Scope) = s.scope /\ AllFine(clos, Scope)
  BY <1>3 DEF Ready, IsInstr
<1>5. Arg \in Int /\ Next1 \in Int
  BY <1>2, <1>4, InstrType
<1>6. s \in Shape /\ s.own \in Seq({"mark", "value"}) /\ Len(s.own) \in Nat
      /\ s.scope \in Nat /\ s.main \in BOOLEAN
  BY <1>1, <1>2, <1>4, ShapeType
<1>7. low \in Nat /\ Len(astack) \in Nat
  <2>1. calls \in Seq(Nat) /\ Len(calls) \in 0..Len(calls)
    BY <1>1 DEF Executes, Suspended
  <2> QED BY <2>1, <1>2, FloorType
<1>8. low <= Len(astack)
  <2>1. PICK base : Level(s.own, astack, low, base, Len(astack))
    BY <1>4 DEF Stands
  <2> QED BY <2>1, <1>7 DEF Level
<1>9. /\ Scope \in Seq(Value) /\ Len(Scope) = extra + Len(Contents(env))
      /\ Contents(env) \in Seq(Value)
  <2>1. PICK top, n, o : /\ top = rsp /\ n = extra /\ o = env /\ top \in Nat /\ n \in Nat
                         /\ top \in 0..RspMax /\ n \in 0..top
    <3>1. rsp \in Nat /\ extra \in Nat /\ rsp \in 0..RspMax /\ extra \in 0..rsp
      BY <1>1, Running
    <3> QED BY <3>1
  <2>2. IsScope(ScopeAt(top, n, o), rslots, top, n, Contents(o)) /\ Scope = ScopeAt(top, n, o)
    BY <1>1, <1>2, <2>1, ScopeType, Running
  <2> QED BY <2>1, <2>2, <1>2, ContentsType DEF IsScope
<1>10. IsObj(env)
  <2>1. env.t \in Kinds /\ Live(env)
    BY <1>1, Running DEF Executes
  <2> QED BY <2>1, <1>2 DEF Live, LiveIn, IsObj
<1> QED BY <1>2, <1>4, <1>5, <1>6, <1>7, <1>8, <1>9, <1>10

\* The running code, unless a source's, was called at a mark.
LEMMA CalledAt ==
  ASSUME NEW sh, NEW calls, NEW clos, Stepping(sh, calls, clos),
         NEW low, low = Floor(calls, Len(calls)), low # 0
  PROVE  /\ Len(calls) \in Nat \ {0} /\ low = calls[Len(calls)] /\ low \in 1..Len(astack)
         /\ astack[low].t = "mark"
<1>1. Suspended(code, sh, clos, astack, Callers, calls)
  BY DEF Stepping, Executes
<1>2. Len(calls) \in 1..Len(calls) /\ low = calls[Len(calls)]
  BY <1>1 DEF Suspended, Floor
<1> QED BY <1>1, <1>2 DEF Suspended

\* Where the code goes on.
LEMMA GoesTo ==
  ASSUME NEW c \in Seq(Cell), NEW sh, Fits(c, sh), NEW i \in Int, IsInstr(c, i)
  PROVE  LET q == i + OperandBytes(c[i].op) IN
         /\ Allows(c[i], sh[i]) /\ c[i].arg \in Int /\ OperandBytes(c[i].op) \in Nat
         /\ c[i].op \notin {"RETURN", "APPTERM"} =>
              IsInstr(c, q + 1) /\ sh[q + 1] = After(c[i], sh[i])
         /\ c[i].op = "CLOSURE" => /\ IsInstr(c, q + c[i].arg + 1)
                                   /\ sh[q + c[i].arg + 1] = sh[i]
<1>1. PICK b : b = OperandBytes(c[i].op) /\ b \in Nat
  BY OperandBytesType
<1>2. i \in DOMAIN c
  BY DEF IsInstr
<1>3. c[i].arg \in Int
  <2>1. c[i] \in Cell
    BY <1>2
  <2> QED BY <2>1 DEF Cell
<1>4. Behind(c, i) = i + b + 1 /\ Behind(c, i) + c[i].arg = i + b + c[i].arg + 1
  <2>1. Behind(c, i) = i + 1 + b
    BY <1>1 DEF Behind
  <2> QED BY <2>1, <1>1, <1>3
<1>5. /\ Allows(c[i], sh[i])
      /\ c[i].op \notin {"RETURN", "APPTERM"} => Reaches(c, sh, Behind(c, i), After(c[i], sh[i]))
      /\ c[i].op = "CLOSURE" => Reaches(c, sh, Behind(c, i) + c[i].arg, sh[i])
  BY <1>2 DEF Fits
<1> QED BY <1>1, <1>3, <1>4, <1>5 DEF Reaches

LEMMA Follows ==
  ASSUME NEW sh, NEW calls, NEW clos, Stepping(sh, calls, clos), NEW s, s = sh[pc + 1]
  PROVE  /\ Allows(code[pc + 1], s)
         /\ Op \notin {"RETURN", "APPTERM"} =>
              IsInstr(code, Next1 + 1) /\ sh[Next1 + 1] = After(code[pc + 1], s)
         /\ Op = "CLOSURE" => IsInstr(code, Next1 + Arg + 1) /\ sh[Next1 + Arg + 1] = s
<1>1. Fits(code, sh)
  BY DEF Stepping, Keeps
<1>2. code \in Seq(Cell) /\ IsInstr(code, pc + 1) /\ pc \in Int
  BY Finds DEF TypeOK
<1>3. PICK i \in Int : i = pc + 1
  BY <1>2
<1> QED BY <1>1, <1>2, <1>3, GoesTo DEF Op, Arg, Next1

\* The argument stack with one more and with one less.
LEMMA AppendedIs ==
  ASSUME NEW s \in Seq(Value), NEW o \in Value, NEW n \in Nat, n = Len(s)
  PROVE  /\ Append(s, o) \in Seq(Value) /\ Len(Append(s, o)) = n + 1
         /\ Append(s, o)[n + 1] = o /\ \A i \in 1..n : Append(s, o)[i] = s[i]
OBVIOUS

LEMMA LoweredIs ==
  ASSUME NEW s \in Seq(Value), NEW n \in Nat, n = Len(s), NEW m \in 0..n
  PROVE  /\ SubSeq(s, 1, m) \in Seq(Value) /\ Len(SubSeq(s, 1, m)) = m
         /\ \A i \in 1..m : SubSeq(s, 1, m)[i] = s[i]
OBVIOUS

LEMMA PopIs ==
  ASSUME astack \in Seq(Value), NEW n \in Nat, n = Len(astack), n # 0
  PROVE  /\ Pop \in Seq(Value) /\ Len(Pop) = n - 1
         /\ \A i \in 1..n - 1 : Pop[i] = astack[i]
<1>1. n - 1 \in 0..n
  OBVIOUS
<1> QED BY <1>1, LoweredIs DEF Pop

-----------------------------------------------------------------------------
(* Every instruction keeps the invariant.                                  *)

LEMMA KeepsOn ==
  ASSUME NEW sh, NEW calls, NEW clos, Stepping(sh, calls, clos), NEW clos2,
         UNCHANGED <<code, handles>>, Objects(code, sh, heap', clos2),
         \A s \in DOMAIN globals' : Fine(clos2, globals'[s])
  PROVE  Keeps(sh, clos2)'
<1>1. Keeps(sh, clos) /\ compiled' = compiled /\ code' = code /\ handles' = handles
      /\ \A a \in DOMAIN heap : a \in DOMAIN heap' /\ heap'[a] = heap[a]
  BY DEF Stepping, HeapGrows
<1>2. Extends(code, sh, code, sh)
  BY DEF Extends
<1>3. \A h \in compiled : h \in DOMAIN handles /\ Entry(code, sh, heap', handles[h])
  BY <1>1, <1>2, EntryStays DEF Keeps
<1> QED BY <1>1, <1>3 DEF Keeps

\* The running code goes on, with what is its own on the argument stack.
LEMMA GoesOn ==
  ASSUME NEW sh, NEW calls, NEW clos, Stepping(sh, calls, clos),
         NEW clos2, clos \subseteq clos2, NEW low, low = Floor(calls, Len(calls)),
         UNCHANGED <<code, handles, frames, leftover>>, Callers' = Callers,
         Objects(code, sh, heap', clos2), env'.t \in Kinds, Fine(clos2, accum'),
         \A s \in DOMAIN globals' : Fine(clos2, globals'[s]),
         Len(astack') \in Nat, low <= Len(astack'), Len(astack') <= AspMax,
         \A i \in 1..low : astack'[i] = astack[i],
         \A i \in DOMAIN astack' : astack'[i].t = "clo" => astack'[i].v \in clos2,
         Ready(code, sh, clos2, astack', pc', Scope', low, Len(astack'))
  PROVE  Sound'
<1>1. Keeps(sh, clos2)'
  BY KeepsOn
<1>2. Suspended(code, sh, clos2, astack', Callers, calls)
  <2>1. Suspended(code, sh, clos, astack, Callers, calls) /\ Fits(code, sh)
    BY DEF Stepping, Executes, Keeps
  <2>2. code \in Seq(Cell)
    BY Finds
  <2> QED BY <2>1, <2>2, SuspendedStays
<1>3. Executes(sh, calls, clos2)'
  BY <1>2 DEF Executes, Stepping
<1> QED BY <1>1, <1>3 DEF Sound

\* Nothing but the registers changes.
LEMMA SetsAccum ==
  ASSUME NEW sh, NEW calls, NEW clos, Stepping(sh, calls, clos),
         Op \in {"INT64", "ACCESS", "SETGLOBAL", "GETGLOBAL"}, pc' = Next1,
         UNCHANGED <<code, heap, handles, frames, leftover, env, extra, rsp, rslots, astack>>,
         Fine(clos, accum'), \A s \in DOMAIN globals' : Fine(clos, globals'[s])
  PROVE  Sound'
<1> DEFINE low == Floor(calls, Len(calls))
<1>1. PICK s : s = sh[pc + 1]
  OBVIOUS
<1>2. Executes(sh, calls, clos) /\ Keeps(sh, clos) /\ FramesInv /\ HeapGrows /\ ~leftover
  BY DEF Stepping, Executes
<1>3. Machine!Here
  BY <1>2, StaysHere
<1>4. Scope' = Scope /\ Callers' = Callers
  BY <1>3 DEF Machine!Here
<1>5. IsInstr(code, Next1 + 1) /\ sh[Next1 + 1] = s
  <2>1. After(code[pc + 1], s) = s
    BY DEF After, Op
  <2> QED BY <2>1, <1>1, Follows
<1>6. Ready(code, sh, clos, astack, Next1, Scope, low, Len(astack))
  BY <1>1, <1>2, <1>5 DEF Executes, Ready
<1>7. low <= Len(astack) /\ Len(astack) \in Nat
  BY Finds
<1> HIDE DEF low
<1> QED BY <1>2, <1>4, <1>6, <1>7, GoesOn DEF Executes, Keeps, low

LEMMA Sets ==
  ASSUME NEW sh, NEW calls, NEW clos, Stepping(sh, calls, clos), UNCHANGED <<frames, leftover>>,
         Int64 \/ GetGlobal \/ SetGlobal
  PROVE  Sound'
<1>1. Fine(clos, accum) /\ \A s \in DOMAIN globals : Fine(clos, globals[s])
  BY DEF Stepping, Executes, Keeps
<1>2. CASE Int64
  <2>1. Fine(clos, accum')
    BY <1>2 DEF Int64, IntObj, Fine
  <2> QED BY <1>1, <1>2, <2>1, SetsAccum DEF Int64, Fetch, Executing, Goto, store
<1>3. CASE GetGlobal
  <2>1. Fine(clos, accum')
    BY <1>1, <1>3 DEF GetGlobal, Fetch, Executing, Defined
  <2> QED BY <1>1, <1>3, <2>1, SetsAccum DEF GetGlobal, Fetch, Executing, Goto, store
<1>4. CASE SetGlobal
  <2>1. \A s \in DOMAIN globals' : Fine(clos, globals'[s])
    BY <1>1, <1>4 DEF SetGlobal
  <2> QED BY <1>1, <1>4, <2>1, SetsAccum DEF SetGlobal, Fetch, Executing, Goto
<1> QED BY <1>2, <1>3, <1>4

\* A variable's index is within the scope.
LEMMA Accesses ==
  ASSUME NEW sh, NEW calls, NEW clos, Stepping(sh, calls, clos), UNCHANGED <<frames, leftover>>,
         Access
  PROVE  Sound'
<1>1. FramesInv /\ HeapGrows /\ ~leftover /\ ~Strays
      /\ \A s \in DOMAIN globals : Fine(clos, globals[s])
  BY DEF Stepping, Executes, Keeps
<1>2. Op = "ACCESS" /\ pc' = Next1
      /\ UNCHANGED <<store, env, extra, rsp, rslots, astack>>
  BY DEF Access, Fetch, Executing, Goto
<1>3. Arg \in 0..Len(Scope) - 1
  <2>1. Arg \in 0..sh[pc + 1].scope - 1
    BY <1>2, Follows DEF Allows, Op, Arg
  <2> QED BY <2>1, Finds
<1>4. accum' = Scope[Arg + 1]
  <2>1. Machine!Access
    BY <1>1, AccessMaps
  <2>2. Arg <= extra
    <3>1. ~(Arg > extra) /\ Arg \in Int /\ extra \in Int
      BY <1>1, <1>2, Finds DEF Strays, TypeOK
    <3> QED BY <3>1
  <2> QED BY <2>1, <2>2, Names DEF Machine!Access
<1>5. Fine(clos, accum')
  <2>1. Arg + 1 \in DOMAIN Scope
    BY <1>3, Finds
  <2> QED BY <2>1, <1>4, Finds DEF AllFine
<1> QED BY <1>1, <1>2, <1>5, SetsAccum DEF store

\* One more on the argument stack.
LEMMA PushesOn ==
  ASSUME NEW sh, NEW calls, NEW clos, Stepping(sh, calls, clos), UNCHANGED <<frames, leftover>>,
         NEW o \in Value, o.t = "clo" => o.v \in clos,
         NEW m \in {"mark", "value"}, (m = "mark") <=> (o.t = "mark"),
         Op = IF m = "mark" THEN "PUSHMARK" ELSE "PUSH", Len(astack) < AspMax,
         astack' = Append(astack, o), pc' = Next1,
         UNCHANGED <<store, accum, env, extra, rslots, rsp>>
  PROVE  Sound'
<1>1. PICK s, low, n : /\ s = sh[pc + 1] /\ low = Floor(calls, Len(calls))
                       /\ n = Len(astack) /\ n \in Nat
  BY Finds
<1>2. Executes(sh, calls, clos) /\ Keeps(sh, clos) /\ FramesInv /\ HeapGrows /\ ~leftover
  BY DEF Stepping, Executes
<1>3. Scope' = Scope /\ Callers' = Callers
  <2>1. Machine!Here
    BY <1>2, StaysHere DEF store
  <2> QED BY <2>1 DEF Machine!Here
<1>4. PICK next : /\ IsInstr(code, Next1 + 1) /\ next = sh[Next1 + 1]
                  /\ next = [s EXCEPT !.own = Append(@, m)]
  <2>1. After(code[pc + 1], s) = [s EXCEPT !.own = Append(@, m)]
    <3>1. CASE m = "mark"
      BY <3>1 DEF After, Op
    <3>2. CASE m = "value"
      BY <3>2 DEF After, Op
    <3> QED BY <3>1, <3>2
  <2>2. Op \notin {"RETURN", "APPTERM"}
    OBVIOUS
  <2> QED BY <2>1, <2>2, <1>1, Follows
<1>5. /\ s \in Shape /\ s.own \in Seq({"mark", "value"}) /\ astack \in Seq(Value)
      /\ low \in Nat /\ low <= n /\ Stands(s, astack, low, n)
      /\ Len(Scope) = s.scope /\ AllFine(clos, Scope)
  BY <1>1, Finds
<1>6. next.own = Append(s.own, m) /\ next.main = s.main /\ next.scope = s.scope
  BY <1>4, <1>5 DEF Shape
<1>7. PICK st \in Seq(Value) : /\ st = astack' /\ Len(st) = n + 1 /\ st = Append(astack, o)
                               /\ \A i \in 1..n : st[i] = astack[i]
                               /\ st[n + 1] = o
  BY <1>1, <1>5, AppendedIs
<1>8. Stands(next, st, low, n + 1)
  <2>1. PICK base : Level(s.own, astack, low, base, n) /\ (s.main => base = 0)
    BY <1>5 DEF Stands
  <2>2. Level(next.own, st, low, base, n + 1)
    BY <2>1, <1>1, <1>5, <1>6, <1>7, LevelPushes
  <2> QED BY <2>1, <2>2, <1>5, <1>6 DEF Stands
<1>9. Ready(code, sh, clos, st, Next1, Scope, low, n + 1)
  BY <1>4, <1>5, <1>6, <1>8 DEF Ready
<1>10. ASSUME NEW i \in DOMAIN st, st[i].t = "clo" PROVE st[i].v \in clos
  BY <1>1, <1>2, <1>5, <1>7, <1>10 DEF Executes
<1>11. low <= n + 1 /\ n + 1 <= AspMax /\ n + 1 \in Nat /\ \A i \in 1..low : st[i] = astack[i]
  <2>1. AspMax \in Nat
    BY SizesAssumption
  <2> QED BY <2>1, <1>1, <1>5, <1>7
<1> QED BY <1>1, <1>2, <1>3, <1>7, <1>9, <1>10, <1>11, GoesOn DEF Executes, Keeps, store

LEMMA BoundFine ==
  ASSUME NEW clos, NEW scope \in Seq(Value), AllFine(clos, scope), NEW o \in Value, Fine(clos, o)
  PROVE  Len(<<o>> \o scope) = Len(scope) + 1 /\ AllFine(clos, <<o>> \o scope)
<1>1. <<o>> \o scope \in Seq(Value) /\ Len(<<o>> \o scope) = Len(scope) + 1
      /\ (<<o>> \o scope)[1] = o /\ Len(scope) \in Nat
      /\ \A i \in 1..Len(scope) : (<<o>> \o scope)[i + 1] = scope[i]
  OBVIOUS
<1>2. PICK new : new = <<o>> \o scope
  OBVIOUS
<1>3. ASSUME NEW i \in DOMAIN new PROVE Fine(clos, new[i])
  <2>1. i = 1 \/ \E j \in 1..Len(scope) : i = j + 1
    <3>1. i \in 1..Len(scope) + 1
      BY <1>1, <1>2
    <3>2. i # 1 => i - 1 \in 1..Len(scope) /\ i = (i - 1) + 1
      BY <3>1, <1>1
    <3> QED BY <3>2
  <2> QED BY <2>1, <1>1, <1>2 DEF AllFine
<1> QED BY <1>1, <1>2, <1>3 DEF AllFine

LEMMA Pushes ==
  ASSUME NEW sh, NEW calls, NEW clos, Stepping(sh, calls, clos), UNCHANGED <<frames, leftover>>,
         Push \/ PushMark
  PROVE  Sound'
<1>1. Fine(clos, accum) /\ accum \in Value
  BY Finds DEF Stepping, Executes, TypeOK
<1>2. CASE Push
  BY <1>1, <1>2, PushesOn DEF Push, Fetch, Executing, Defined, Goto, Fine
<1>3. CASE PushMark
  <2>1. Mark \in Value /\ Mark.t = "mark"
    BY DEF Mark, Value
  <2> QED BY <1>3, <2>1, PushesOn DEF PushMark, Fetch, Executing, Defined, Goto
<1> QED BY <1>2, <1>3

\* A variable more, from accum or from the argument stack.
LEMMA Lets ==
  ASSUME NEW sh, NEW calls, NEW clos, Stepping(sh, calls, clos), UNCHANGED <<frames, leftover>>,
         Let
  PROVE  Sound'
<1>1. PICK s, low, n : /\ s = sh[pc + 1] /\ low = Floor(calls, Len(calls))
                       /\ n = Len(astack) /\ n \in Nat
  BY Finds
<1>2. Executes(sh, calls, clos) /\ Keeps(sh, clos) /\ FramesInv /\ FramesInv' /\ HeapGrows
      /\ ~leftover
  BY DEF Stepping, Executes
<1>3. /\ Op = "LET" /\ rsp < RspMax /\ pc' = Next1
      /\ rslots' = [rslots EXCEPT ![rsp].env = accum] /\ rsp' = rsp + 1 /\ extra' = extra + 1
      /\ UNCHANGED <<store, status, accum, env, emptyEnv, astack>>
  BY DEF Let, Fetch, Executing, Defined, Goto
<1>4. Scope' = <<accum>> \o Scope /\ Callers' = Callers
  <2>1. accum \in Value /\ TypeOK'
    BY <1>2 DEF FramesInv, TypeOK
  <2>2. Machine!Binds(accum)
    BY <1>2, <1>3, <2>1, BindsMaps
  <2> QED BY <2>2 DEF Machine!Binds
<1>5. PICK next : /\ IsInstr(code, Next1 + 1) /\ next = sh[Next1 + 1]
                  /\ next = [s EXCEPT !.scope = @ + 1]
  BY <1>1, <1>3, Follows DEF After, Op
<1>6. /\ s \in Shape /\ Scope \in Seq(Value) /\ accum \in Value
      /\ low \in Nat /\ low <= n /\ Stands(s, astack, low, n)
      /\ Len(Scope) = s.scope /\ AllFine(clos, Scope)
  BY <1>1, Finds DEF TypeOK
<1>7. next.own = s.own /\ next.main = s.main /\ next.scope = s.scope + 1
  BY <1>5, <1>6 DEF Shape
<1>8. Stands(next, astack, low, n)
  BY <1>6, <1>7 DEF Stands
<1>9. Len(<<accum>> \o Scope) = Len(Scope) + 1 /\ AllFine(clos, <<accum>> \o Scope)
  BY <1>2, <1>6, BoundFine DEF Executes
<1>10. Ready(code, sh, clos, astack, Next1, <<accum>> \o Scope, low, n)
  BY <1>5, <1>6, <1>7, <1>8, <1>9 DEF Ready
<1> QED BY <1>1, <1>2, <1>3, <1>4, <1>6, <1>10, GoesOn DEF Executes, Keeps, store

LEMMA GrabsArg ==
  ASSUME NEW sh, NEW calls, NEW clos, Stepping(sh, calls, clos), UNCHANGED <<frames, leftover>>,
         GrabArg
  PROVE  Sound'
<1>1. PICK s, low, n : /\ s = sh[pc + 1] /\ low = Floor(calls, Len(calls))
                       /\ n = Len(astack) /\ n \in Nat
  BY Finds
<1>2. Executes(sh, calls, clos) /\ Keeps(sh, clos) /\ FramesInv /\ FramesInv' /\ HeapGrows
      /\ ~leftover
  BY DEF Stepping, Executes
<1>3. /\ Op = "GRAB" /\ rsp < RspMax /\ pc' = Next1 /\ astack # <<>> /\ ~AtMark
      /\ rslots' = [rslots EXCEPT ![rsp].env = Top] /\ rsp' = rsp + 1 /\ extra' = extra + 1
      /\ astack' = Pop /\ UNCHANGED <<store, status, accum, env, emptyEnv>>
  BY DEF GrabArg, Fetch, Executing, Defined, Goto
<1>4. /\ s \in Shape /\ Scope \in Seq(Value) /\ TypeOK /\ astack \in Seq(Value)
      /\ low \in Nat /\ low <= n /\ Stands(s, astack, low, n)
      /\ Len(Scope) = s.scope /\ AllFine(clos, Scope)
  BY <1>1, Finds
<1>5. Top \in Value /\ Fine(clos, Top) /\ n # 0 /\ Top = astack[n]
  <2>1. n # 0 /\ Top = astack[n] /\ n \in DOMAIN astack
    BY <1>1, <1>3, <1>4 DEF Top
  <2>2. Top.t # "mark"
    BY <1>3 DEF AtMark
  <2> QED BY <2>1, <2>2, <1>2, <1>4 DEF Executes, Fine
<1>6. Scope' = <<Top>> \o Scope /\ Callers' = Callers
  <2>1. TypeOK'
    BY <1>2 DEF FramesInv
  <2>2. Machine!Binds(Top)
    BY <1>2, <1>3, <1>5, <2>1, BindsMaps
  <2> QED BY <2>2 DEF Machine!Binds
<1>7. PICK next : /\ IsInstr(code, Next1 + 1) /\ next = sh[Next1 + 1]
                  /\ next = [s EXCEPT !.scope = @ + 1] /\ s.own = <<>> /\ ~s.main
  BY <1>1, <1>3, Follows DEF After, Op, Allows
<1>8. next.own = <<>> /\ ~next.main /\ next.scope = s.scope + 1
  BY <1>4, <1>7 DEF Shape
<1>9. PICK st \in Seq(Value) : /\ st = astack' /\ Len(st) = n - 1
                               /\ \A i \in 1..n - 1 : st[i] = astack[i]
  BY <1>1, <1>3, <1>4, <1>5, PopIs
<1>10. low < n /\ low # 0
  <2>1. low # 0
    BY <1>4, <1>7 DEF Stands
  <2>2. astack[low].t = "mark"
    BY <2>1, <1>1, CalledAt
  <2>3. low # n
    BY <2>2, <1>5 DEF Fine
  <2> QED BY <2>1, <2>3, <1>1, <1>4
<1>11. Stands(next, st, low, n - 1)
  <2>1. PICK base : Level(<<>>, astack, low, base, n)
    BY <1>4, <1>7 DEF Stands
  <2>2. AllValues(<<>>, 0) /\ <<>> \in Seq({"mark", "value"})
    BY DEF AllValues
  <2>3. Level(<<>>, st, low, Len(st), Len(st))
    BY <2>1, <2>2, <1>1, <1>4, <1>9, <1>10, LevelTakes
  <2> QED BY <2>3, <1>8, <1>9, <1>10 DEF Stands
<1>12. Len(<<Top>> \o Scope) = Len(Scope) + 1 /\ AllFine(clos, <<Top>> \o Scope)
  BY <1>4, <1>5, BoundFine
<1>13. Ready(code, sh, clos, st, Next1, <<Top>> \o Scope, low, n - 1)
  BY <1>4, <1>7, <1>8, <1>11, <1>12 DEF Ready
<1>14. /\ n - 1 \in Nat /\ low <= n - 1 /\ n - 1 <= AspMax
       /\ \A i \in 1..low : st[i] = astack[i]
       /\ \A i \in DOMAIN st : st[i].t = "clo" => st[i].v \in clos
  <2>1. n \in Nat /\ n # 0 /\ n <= AspMax /\ AspMax \in Nat /\ low \in Nat /\ low < n
    BY <1>1, <1>2, <1>4, <1>5, <1>10, SizesAssumption DEF Executes
  <2>2. n - 1 \in Nat /\ low <= n - 1 /\ n - 1 <= AspMax
    BY <2>1
  <2>3. \A i \in 1..n - 1 : i \in DOMAIN astack
    BY <1>1, <1>4, <2>1
  <2>4. \A i \in 1..low : i \in 1..n - 1
    BY <2>1
  <2> QED BY <2>2, <2>3, <2>4, <1>2, <1>9 DEF Executes
<1> QED BY <1>1, <1>2, <1>3, <1>6, <1>9, <1>13, <1>14, GoesOn DEF Executes, Keeps, store

LEMMA DroppedFine ==
  ASSUME NEW clos, NEW scope \in Seq(Value), AllFine(clos, scope), scope # <<>>
  PROVE  /\ Len(Tail(scope)) = Len(scope) - 1 /\ AllFine(clos, Tail(scope))
         /\ Len(Machine!Reverse(Tail(scope))) = Len(scope) - 1
         /\ AllFine(clos, Machine!Reverse(Tail(scope)))
<1>1. PICK n \in Nat : n = Len(scope) - 1
  OBVIOUS
<1>2. PICK t \in Seq(Value) : /\ t = Tail(scope) /\ Len(t) = n
                              /\ \A i \in 1..n : t[i] = scope[i + 1]
  <2>1. /\ Tail(scope) \in Seq(Value) /\ Len(Tail(scope)) = n
        /\ \A i \in 1..n : Tail(scope)[i] = scope[i + 1]
    BY <1>1
  <2> QED BY <2>1
<1>3. ASSUME NEW i \in 1..n PROVE Fine(clos, t[i])
  <2>1. i + 1 \in DOMAIN scope
    BY <1>1
  <2> QED BY <2>1, <1>2 DEF AllFine
<1>4. PICK r : r = [i \in 1..n |-> t[(n - i) + 1]] /\ r = Machine!Reverse(t)
  BY <1>2 DEF Machine!Reverse
<1>5. r \in Seq(Value) /\ Len(r) = n
  <2>1. \A i \in 1..n : (n - i) + 1 \in 1..n
    OBVIOUS
  <2>2. r \in [1..n -> Value]
    BY <2>1, <1>2, <1>4
  <2> QED BY <2>2
<1>6. ASSUME NEW i \in 1..n PROVE Fine(clos, r[i])
  <2>1. (n - i) + 1 \in 1..n /\ r[i] = t[(n - i) + 1]
    BY <1>4
  <2> QED BY <2>1, <1>3
<1>7. DOMAIN t = 1..n /\ DOMAIN r = 1..n
  BY <1>2, <1>4
<1> QED BY <1>1, <1>2, <1>3, <1>4, <1>5, <1>6, <1>7 DEF AllFine

LEMMA EndsLet ==
  ASSUME NEW sh, NEW calls, NEW clos, Stepping(sh, calls, clos), UNCHANGED <<frames, leftover>>,
         EndLet
  PROVE  Sound'
<1>1. PICK s, low, n : /\ s = sh[pc + 1] /\ low = Floor(calls, Len(calls))
                       /\ n = Len(astack) /\ n \in Nat
  BY Finds
<1>2. Executes(sh, calls, clos) /\ Keeps(sh, clos) /\ FramesInv /\ FramesInv' /\ HeapGrows
      /\ ~leftover /\ status = "running"
  BY DEF Stepping, Executes
<1>3. /\ Op = "ENDLET" /\ pc' = Next1 /\ UNCHANGED <<store, status, accum, emptyEnv, astack>>
      /\ env' \in {env, emptyEnv}
  BY DEF EndLet, Spill, Fetch, Executing, Goto
<1>4. env'.t \in Kinds
  BY <1>2, <1>3 DEF Executes, FramesInv, EmptyEnvOK, Kinds
<1>5. /\ Callers' = Callers /\ Scope # <<>>
      /\ Scope' = Tail(Scope) \/ Scope' = Machine!Reverse(Tail(Scope))
  <2>1. Machine!EndLet
    BY <1>2, EndLetMaps DEF FramesInv
  <2> QED BY <2>1 DEF Machine!EndLet
<1>6. PICK next : /\ IsInstr(code, Next1 + 1) /\ next = sh[Next1 + 1]
                  /\ next = [s EXCEPT !.scope = @ - 1]
  BY <1>1, <1>3, Follows DEF After, Op
<1>7. /\ s \in Shape /\ Scope \in Seq(Value) /\ low \in Nat /\ low <= n
      /\ Stands(s, astack, low, n) /\ Len(Scope) = s.scope /\ AllFine(clos, Scope)
  BY <1>1, Finds
<1>8. next.own = s.own /\ next.main = s.main /\ next.scope = s.scope - 1
  BY <1>6, <1>7 DEF Shape
<1>9. Stands(next, astack, low, n)
  BY <1>7, <1>8 DEF Stands
<1>10. Len(Scope') = Len(Scope) - 1 /\ AllFine(clos, Scope')
  BY <1>5, <1>7, DroppedFine
<1>11. Ready(code, sh, clos, astack, Next1, Scope', low, n)
  BY <1>6, <1>7, <1>8, <1>9, <1>10 DEF Ready
<1> QED BY <1>1, <1>2, <1>3, <1>4, <1>5, <1>7, <1>11, GoesOn DEF Executes, Keeps, store

LEMMA MakesBlock ==
  ASSUME NEW sh, NEW calls, NEW clos, Stepping(sh, calls, clos), UNCHANGED <<frames, leftover>>,
         MkB
  PROVE  Sound'
<1>1. PICK s, low, n : /\ s = sh[pc + 1] /\ low = Floor(calls, Len(calls))
                       /\ n = Len(astack) /\ n \in Nat
  BY Finds
<1>2. Executes(sh, calls, clos) /\ Keeps(sh, clos) /\ FramesInv /\ HeapGrows /\ ~leftover
  BY DEF Stepping, Executes
<1>3. /\ Op = "MKB" /\ pc' = Next1 /\ accum' = Ref("tuple", Len(heap) + 1)
      /\ astack' = SubSeq(astack, 1, Len(astack) - Arg)
      /\ UNCHANGED <<code, globals, handles, status, env, emptyEnv, extra, rslots, rsp>>
  BY DEF MkB, Fetch, Executing, Defined, Goto
<1>4. Scope' = Scope /\ Callers' = Callers
  <2>1. Machine!Here
    BY <1>2, <1>3, StaysHere
  <2> QED BY <2>1 DEF Machine!Here
<1>5. PICK next : /\ IsInstr(code, Next1 + 1) /\ next = sh[Next1 + 1]
                  /\ next = [s EXCEPT !.own = Lower(@, Arg)] /\ Arg \in 0..Len(s.own)
  BY <1>1, <1>3, Follows DEF After, Op, Arg, Allows
<1>6. /\ s \in Shape /\ s.own \in Seq({"mark", "value"}) /\ astack \in Seq(Value)
      /\ low \in Nat /\ low <= n /\ Stands(s, astack, low, n) /\ Len(s.own) \in Nat
      /\ Len(Scope) = s.scope /\ AllFine(clos, Scope)
  BY <1>1, Finds
<1>7. PICK k \in 0..Len(s.own) : k = Len(s.own) - Arg
  <2>1. Len(s.own) - Arg \in 0..Len(s.own)
    BY <1>5, <1>6
  <2> QED BY <2>1
<1>8. next.own = SubSeq(s.own, 1, k) /\ next.main = s.main /\ next.scope = s.scope
  BY <1>5, <1>6, <1>7 DEF Shape, Lower
<1>9. PICK base : Level(s.own, astack, low, base, n) /\ (s.main => base = 0)
  BY <1>6 DEF Stands
<1>10. PICK m \in Nat : m = base + k /\ m = n - Arg /\ m <= n /\ low <= m
  <2>1. base \in Nat /\ base + Len(s.own) = n /\ low <= base /\ Arg \in Int
    BY <1>1, <1>5, <1>6, <1>9 DEF Level
  <2>2. base + k = n - Arg /\ base + k <= n /\ low <= base + k /\ base + k \in Nat
    BY <2>1, <1>6, <1>7
  <2> QED BY <2>2
<1>11. PICK st \in Seq(Value) : st = astack' /\ Len(st) = m /\ \A i \in 1..m : st[i] = astack[i]
  <2>1. astack' = SubSeq(astack, 1, m)
    BY <1>1, <1>3, <1>10
  <2>2. m \in 0..n
    BY <1>1, <1>10
  <2> QED BY <2>1, <2>2, <1>1, <1>6, LoweredIs
<1>12. Stands(next, st, low, m)
  <2>1. Level(SubSeq(s.own, 1, k), st, low, base, base + k)
    <3>1. base + k <= Len(st) /\ \A i \in 1..base + k : st[i] = astack[i]
      BY <1>10, <1>11
    <3>2. Level(s.own, astack, low, base, n) /\ n \in Nat
      BY <1>1, <1>9
    <3> QED BY <3>1, <3>2, <1>6, LevelLowers, Zenon
  <2>2. Level(next.own, st, low, base, m)
    BY <2>1, <1>8, <1>10, Zenon
  <2> QED BY <2>2, <1>6, <1>8, <1>9 DEF Stands
<1>13. Ready(code, sh, clos, st, Next1, Scope, low, m)
  BY <1>5, <1>6, <1>8, <1>12 DEF Ready
<1>14. Objects(code, sh, heap', clos)
  <2>1. Extends(code, sh, code, sh)
    BY DEF Extends
  <2> QED BY <2>1, <1>2, ObjectsStay DEF Keeps, HeapGrows, Objects
<1>15. Fine(clos, accum')
  BY <1>3 DEF Fine, Ref
<1>16. /\ m <= AspMax /\ \A i \in 1..low : st[i] = astack[i]
       /\ \A i \in DOMAIN st : st[i].t = "clo" => st[i].v \in clos
  BY <1>1, <1>2, <1>6, <1>10, <1>11, SizesAssumption DEF Executes
<1> QED BY <1>1, <1>2, <1>3, <1>4, <1>10, <1>11, <1>13, <1>14, <1>15, <1>16, GoesOn
        DEF Executes, Keeps

\* The closure's body has the scope's variables and one more.
LEMMA Closes ==
  ASSUME NEW sh, NEW calls, NEW clos, Stepping(sh, calls, clos), UNCHANGED <<frames, leftover>>,
         Closure
  PROVE  Sound'
<1>1. PICK s, low, n : /\ s = sh[pc + 1] /\ low = Floor(calls, Len(calls))
                       /\ n = Len(astack) /\ n \in Nat
  BY Finds
<1>2. Executes(sh, calls, clos) /\ Keeps(sh, clos) /\ FramesInv /\ FramesInv' /\ HeapGrows
      /\ ~leftover
  BY DEF Stepping, Executes
<1>3. /\ Op = "CLOSURE" /\ pc' = Next1 + Arg /\ accum' = Ref("clo", Len(heap) + 1)
      /\ env'.t \in Kinds /\ UNCHANGED <<code, globals, handles, astack>>
  BY DEF Closure, Fetch, Executing, Goto, Ref, Kinds
<1>4. /\ Scope' = Scope /\ Callers' = Callers
      /\ heap' = heap \o <<<<Ref("env", Len(heap) + 2), CodeIdx(Next1)>>, Scope>>
  <2>1. Machine!Closure
    BY <1>2, ClosureMaps DEF FramesInv
  <2> QED BY <2>1, Names DEF Machine!Closure, Machine!Captures
<1>5. /\ IsInstr(code, Next1 + 1) /\ sh[Next1 + 1] = Inside(s)
      /\ IsInstr(code, Next1 + Arg + 1) /\ sh[Next1 + Arg + 1] = s
  BY <1>1, <1>3, Follows DEF After, Op
<1>6. /\ Scope \in Seq(Value) /\ low \in Nat /\ low <= n /\ Stands(s, astack, low, n)
      /\ Len(Scope) = s.scope /\ AllFine(clos, Scope) /\ heap \in Seq(Object)
  BY <1>1, Finds
<1>7. PICK clos2 : clos2 = clos \cup {Len(heap) + 1}
  OBVIOUS
<1>8. Objects(code, sh, heap', clos2)
  <2>1. sh[Next1 + 1] = [main |-> FALSE, own |-> <<>>, scope |-> Len(Scope) + 1]
    BY <1>5, <1>6 DEF Inside
  <2>2. "env" \in Kinds
    BY DEF Kinds
  <2> QED BY <2>1, <2>2, <1>2, <1>4, <1>5, <1>6, <1>7, ObjectsCapture DEF Keeps
<1>9. Fine(clos2, accum')
  BY <1>3, <1>7 DEF Fine, Ref
<1>10. Ready(code, sh, clos2, astack, Next1 + Arg, Scope, low, n)
  BY <1>5, <1>6, <1>7 DEF Ready, AllFine, Fine
<1>11. /\ \A i \in DOMAIN astack : astack[i].t = "clo" => astack[i].v \in clos2
       /\ \A g \in DOMAIN globals : Fine(clos2, globals[g])
  BY <1>2, <1>7 DEF Executes, Keeps, Fine
<1> QED BY <1>1, <1>2, <1>3, <1>4, <1>6, <1>7, <1>8, <1>9, <1>10, <1>11, GoesOn DEF Executes

-----------------------------------------------------------------------------
(* Calls and returns.                                                      *)

\* An argument on top of the argument stack.
LEMMA TakesTop ==
  ASSUME NEW sh, NEW calls, NEW clos, Stepping(sh, calls, clos), NEW s, s = sh[pc + 1],
         Len(s.own) # 0, s.own[Len(s.own)] = "value"
  PROVE  /\ Top \in Value /\ Fine(clos, Top) /\ Len(astack) # 0
         /\ Pop \in Seq(Value) /\ Len(Pop) = Len(astack) - 1
         /\ \A i \in 1..Len(Pop) : Pop[i] = astack[i]
         /\ \A i \in DOMAIN Pop : Pop[i].t = "clo" => Pop[i].v \in clos
<1>1. PICK low, n \in Nat : low = Floor(calls, Len(calls)) /\ n = Len(astack)
  BY Finds
<1>2. /\ astack \in Seq(Value) /\ low \in Nat /\ low <= n /\ Len(s.own) \in Nat
      /\ Stands(s, astack, low, n)
  BY <1>1, Finds
<1>3. PICK base : Level(s.own, astack, low, base, n)
  BY <1>2 DEF Stands
<1>4. base \in Nat /\ base + Len(s.own) = n
  BY <1>2, <1>3 DEF Level
<1>5. n # 0 /\ Top = astack[n] /\ n \in DOMAIN astack
  BY <1>1, <1>2, <1>4 DEF Top
<1>6. astack[n].t # "mark"
  <2>1. Len(s.own) \in 1..Len(s.own)
    BY <1>2
  <2> QED BY <2>1, <1>3, <1>4 DEF Level
<1>7. \A i \in DOMAIN astack : astack[i].t = "clo" => astack[i].v \in clos
  BY DEF Stepping, Executes
<1>8. Fine(clos, Top) /\ Top \in Value
  BY <1>2, <1>5, <1>6, <1>7 DEF Fine
<1>9. Pop \in Seq(Value) /\ Len(Pop) = n - 1 /\ \A i \in 1..n - 1 : Pop[i] = astack[i]
  BY <1>1, <1>2, <1>5 DEF Pop
<1>10. \A i \in 1..n - 1 : i \in DOMAIN astack
  BY <1>1, <1>2
<1> QED BY <1>1, <1>5, <1>7, <1>8, <1>9, <1>10

\* The closure that is called is one that values refer to.
LEMMA Entered ==
  ASSUME NEW sh, NEW calls, NEW clos, Stepping(sh, calls, clos), accum.t = "clo", Enter,
         Top \in Value, Fine(clos, Top),
         Scope' = <<Top>> \o Machine!Contents(Machine!Contents(accum)[1])
  PROVE  /\ env'.t \in Kinds /\ IsInstr(code, pc' + 1)
         /\ sh[pc' + 1] = [main |-> FALSE, own |-> <<>>, scope |-> Len(Scope')]
         /\ AllFine(clos, Scope')
<1>1. Closed(code, sh, heap, clos, accum.v) /\ heap \in Seq(Object)
  BY Finds DEF Stepping, Executes, Keeps, Fine, Objects
<1>2. PICK o : o = heap[accum.v]
  OBVIOUS
<1>3. PICK taken : taken = heap[o[1].v] /\ o[1].v \in DOMAIN heap
  BY <1>1, <1>2 DEF Closed
<1>4. /\ IsObj(accum) /\ Contents(accum) = o /\ 1 \in DOMAIN o /\ 2 \in DOMAIN o
      /\ Field(accum, 1) = o[1] /\ Field(accum, 2) = o[2]
  BY <1>1, <1>2 DEF Closed, IsObj, Kinds, Contents, Fields, Field, HasField
<1>5. env' = o[1] /\ pc' = o[2].v
  BY <1>4 DEF Enter, Goto
<1>6. Contents(o[1]) = taken /\ o[1].t \in Kinds
  BY <1>1, <1>2, <1>3 DEF Closed, Contents, IsObj, Fields
<1>7. Scope' = <<Top>> \o taken
  BY <1>4, <1>6, Names
<1>8. taken \in Seq(Value) /\ AllFine(clos, taken)
  BY <1>1, <1>2, <1>3 DEF Closed, Object
<1>9. Len(Scope') = Len(taken) + 1 /\ AllFine(clos, Scope')
  BY <1>7, <1>8, BoundFine
<1> QED BY <1>1, <1>2, <1>3, <1>5, <1>6, <1>9 DEF Closed

LEMMA AppliesLast ==
  ASSUME NEW sh, NEW calls, NEW clos, Stepping(sh, calls, clos), UNCHANGED <<frames, leftover>>,
         AppTerm
  PROVE  Sound'
<1>1. PICK s, low, n : /\ s = sh[pc + 1] /\ low = Floor(calls, Len(calls))
                       /\ n = Len(astack) /\ n \in Nat
  BY Finds
<1>2. Executes(sh, calls, clos) /\ Keeps(sh, clos) /\ FramesInv /\ FramesInv' /\ HeapGrows
      /\ ~leftover /\ ~Strays
  BY DEF Stepping, Executes
<1>3. /\ Op = "APPTERM" /\ Enter /\ astack' = Pop /\ UNCHANGED <<store, status, accum>>
  BY DEF AppTerm, Fetch, Executing
<1>4. accum.t = "clo"
  BY <1>2, <1>3 DEF Strays
<1>5. /\ Scope' = <<Top>> \o Machine!Contents(Machine!Contents(accum)[1]) /\ Callers' = Callers
  <2>1. Machine!AppTerm
    BY <1>2, AppTermMaps DEF FramesInv
  <2> QED BY <2>1, Names DEF Machine!AppTerm, Machine!Enters
<1>6. ~s.main /\ s.own # <<>> /\ AllValues(s.own, 0)
  BY <1>1, <1>3, Follows DEF Allows, Op
<1>7. /\ s.own \in Seq({"mark", "value"}) /\ Len(s.own) \in Nat /\ astack \in Seq(Value)
      /\ low \in Nat /\ low <= n /\ Stands(s, astack, low, n)
  BY <1>1, Finds
<1>8. Len(s.own) # 0 /\ s.own[Len(s.own)] = "value"
  BY <1>6, <1>7 DEF AllValues
<1>9. /\ Top \in Value /\ Fine(clos, Top) /\ n # 0
      /\ Pop \in Seq(Value) /\ Len(Pop) = n - 1
      /\ \A i \in 1..Len(Pop) : Pop[i] = astack[i]
      /\ \A i \in DOMAIN Pop : Pop[i].t = "clo" => Pop[i].v \in clos
  BY <1>1, <1>8, TakesTop
<1>10. PICK st \in Seq(Value) : st = Pop
  BY <1>9
<1>11. PICK base : Level(s.own, astack, low, base, n)
  BY <1>7 DEF Stands
<1>12. low < n /\ low # 0
  <2>1. base \in Nat /\ low <= base /\ base + Len(s.own) = n
    BY <1>1, <1>7, <1>11 DEF Level
  <2>2. low # 0
    BY <1>6, <1>7 DEF Stands
  <2> QED BY <2>1, <2>2, <1>7, <1>8
<1>13. Level(<<>>, st, low, n - 1, n - 1)
  <2>1. Level(<<>>, st, low, Len(st), Len(st))
    BY <1>1, <1>6, <1>7, <1>9, <1>10, <1>11, <1>12, LevelTakes
  <2> QED BY <2>1, <1>9, <1>10
<1>14. /\ env'.t \in Kinds /\ IsInstr(code, pc' + 1)
       /\ sh[pc' + 1] = [main |-> FALSE, own |-> <<>>, scope |-> Len(Scope')]
       /\ AllFine(clos, Scope')
  BY <1>3, <1>4, <1>5, <1>9, Entered
<1>15. Ready(code, sh, clos, st, pc', Scope', low, n - 1)
  BY <1>12, <1>13, <1>14 DEF Ready, Stands
<1>16. n - 1 \in Nat /\ low <= n - 1 /\ n - 1 <= AspMax /\ \A i \in 1..low : st[i] = astack[i]
  BY <1>1, <1>2, <1>7, <1>9, <1>10, <1>12, SizesAssumption DEF Executes
<1> QED BY <1>1, <1>2, <1>3, <1>5, <1>9, <1>10, <1>14, <1>15, <1>16, GoesOn
        DEF Executes, Keeps, store

LEMMA CallersAre ==
  ASSUME NEW sh, NEW calls, NEW clos, Stepping(sh, calls, clos)
  PROVE  /\ Callers = [k \in 1..Len(calls) |-> Callers[k]]
         /\ DOMAIN frames = 1..Len(calls) /\ Len(calls) \in Nat /\ Len(frames) = Len(calls)
<1>1. /\ Suspended(code, sh, clos, astack, Callers, calls) /\ ~leftover
      /\ frames \in Seq(Frame)
  BY DEF Stepping, Executes, FramesInv, FramesTypeOK
<1>2. DOMAIN Callers = 1..Len(calls) /\ Len(calls) \in Nat
  BY <1>1 DEF Suspended
<1>3. DOMAIN Callers = DOMAIN frames /\ Callers = [k \in DOMAIN frames |-> Callers[k]]
  BY <1>1, IsMapped DEF Mapped
<1>4. DOMAIN frames = 1..Len(frames) /\ Len(frames) \in Nat
  BY <1>1
<1>5. Len(frames) = Len(calls)
  <2>1. 1..Len(frames) = 1..Len(calls)
    BY <1>2, <1>3, <1>4
  <2> QED BY <2>1, <1>2, <1>4
<1> QED BY <1>2, <1>3, <1>5

LEMMA Applies ==
  ASSUME NEW sh, NEW calls, NEW clos, Stepping(sh, calls, clos), Saves
  PROVE  Sound'
<1>1. PICK s, low, n : /\ s = sh[pc + 1] /\ low = Floor(calls, Len(calls))
                       /\ n = Len(astack) /\ n \in Nat
  BY Finds
<1>2. Executes(sh, calls, clos) /\ Keeps(sh, clos) /\ FramesInv /\ FramesInv' /\ HeapGrows
      /\ ~leftover /\ ~Strays /\ UNCHANGED compiled
  BY DEF Stepping, Executes
<1>3. /\ Op = "APPLY" /\ Enter /\ astack' = Pop /\ UNCHANGED <<store, status, accum, leftover>>
      /\ frames' = Append(frames, [at |-> rsp, saved |->
                                     [env |-> env, pc |-> Next1, extra |-> extra]])
  BY DEF Saves, Apply, Fetch, Executing
<1>4. accum.t = "clo"
  BY <1>2, <1>3 DEF Strays
<1>5. PICK caller : /\ caller = [scope |-> Scope, bound |-> extra, pc |-> Next1]
                    /\ Callers' = Append(Callers, caller)
                    /\ Scope' = <<Top>> \o Machine!Contents(Machine!Contents(accum)[1])
  <2>1. Machine!Apply
    BY <1>2, ApplyMaps DEF FramesInv
  <2> QED BY <2>1, Names DEF Machine!Apply, Machine!Enters
<1>6. PICK k \in 1..Len(s.own) - 1 : s.own[k] = "mark" /\ AllValues(s.own, k)
  BY <1>1, <1>3, Follows DEF Allows, Op
<1>7. /\ s.own \in Seq({"mark", "value"}) /\ Len(s.own) \in Nat /\ astack \in Seq(Value)
      /\ low \in Nat /\ low <= n /\ Stands(s, astack, low, n) /\ s \in Shape
      /\ Len(Scope) = s.scope /\ AllFine(clos, Scope) /\ code \in Seq(Cell)
  BY <1>1, Finds
<1>8. Len(s.own) # 0 /\ s.own[Len(s.own)] = "value"
  BY <1>6, <1>7 DEF AllValues
<1>9. /\ Top \in Value /\ Fine(clos, Top) /\ n # 0
      /\ Pop \in Seq(Value) /\ Len(Pop) = n - 1
      /\ \A i \in 1..Len(Pop) : Pop[i] = astack[i]
      /\ \A i \in DOMAIN Pop : Pop[i].t = "clo" => Pop[i].v \in clos
  BY <1>1, <1>8, TakesTop
<1>10. PICK st \in Seq(Value) : st = Pop
  BY <1>9
<1>11. PICK base : Level(s.own, astack, low, base, n) /\ (s.main => base = 0)
  BY <1>7 DEF Stands
<1>12. PICK m : m = base + k
  OBVIOUS
<1>13. /\ m \in 1..Len(st) /\ low < m /\ st[m].t = "mark"
       /\ Level(<<>>, st, m, Len(st), Len(st))
       /\ Level(SubSeq(s.own, 1, k - 1), st, low, base, m - 1)
  <2>1. /\ base + k \in 1..Len(st) /\ low < base + k /\ st[base + k].t = "mark"
        /\ Level(<<>>, st, base + k, Len(st), Len(st))
        /\ Level(SubSeq(s.own, 1, k - 1), st, low, base, base + k - 1)
    <3>1. /\ Level(s.own, astack, low, base, Len(astack)) /\ Len(st) = Len(astack) - 1
          /\ \A i \in 1..Len(st) : st[i] = astack[i]
      BY <1>1, <1>9, <1>10, <1>11
    <3> QED BY <3>1, <1>6, <1>7, LevelCalls
  <2>2. base + k - 1 = m - 1
    <3>1. base \in Nat /\ k \in Int
      BY <1>7, <1>11 DEF Level
    <3> QED BY <3>1, <1>12
  <2> QED BY <2>1, <2>2, <1>12, Zenon
<1>14. PICK next : /\ IsInstr(code, Next1 + 1) /\ next = sh[Next1 + 1]
                   /\ next = [s EXCEPT !.own = SubSeq(@, 1, k - 1)]
  <2>1. LastMark(s.own) = k
    BY <1>6, <1>7, LastMarkIs
  <2> QED BY <2>1, <1>1, <1>3, Follows DEF After, Op
<1>15. next.own = SubSeq(s.own, 1, k - 1) /\ next.main = s.main /\ next.scope = s.scope
  BY <1>7, <1>14 DEF Shape
<1>16. Ready(code, sh, clos, st, caller.pc, caller.scope, low, m - 1)
  <2>1. Stands(next, st, low, m - 1)
    BY <1>7, <1>11, <1>13, <1>15 DEF Stands
  <2> QED BY <2>1, <1>5, <1>7, <1>14, <1>15 DEF Ready
<1>17. /\ env'.t \in Kinds /\ IsInstr(code, pc' + 1)
       /\ sh[pc' + 1] = [main |-> FALSE, own |-> <<>>, scope |-> Len(Scope')]
       /\ AllFine(clos, Scope')
  BY <1>3, <1>4, <1>5, <1>9, Entered
<1>18. Ready(code, sh, clos, st, pc', Scope', m, Len(st))
  <2>1. Stands(sh[pc' + 1], st, m, Len(st))
    BY <1>13, <1>17 DEF Stands
  <2> QED BY <2>1, <1>17 DEF Ready
<1>19. low <= Len(st) /\ Len(st) \in Nat /\ (\A i \in 1..low : st[i] = astack[i])
       /\ Len(st) <= AspMax
  <2>1. Len(st) = n - 1 /\ n \in Nat /\ n # 0 /\ n <= AspMax /\ AspMax \in Nat /\ low \in Nat
    BY <1>1, <1>2, <1>7, <1>9, <1>10, SizesAssumption DEF Executes
  <2>2. low <= n - 1
    BY <2>1, <1>13
  <2>3. \A i \in 1..low : i \in 1..Len(st)
    BY <2>1, <2>2
  <2> QED BY <2>1, <2>2, <2>3, <1>9, <1>10
<1>20. Suspended(code, sh, clos, st, Callers, calls)
  BY <1>1, <1>2, <1>7, <1>10, <1>19, SuspendedStays DEF Executes, Keeps
<1>21. PICK calls2 : /\ Suspended(code, sh, clos, st, Append(Callers, caller), calls2)
                     /\ Floor(calls2, Len(calls2)) = m
  <2>1. Callers = [j \in 1..Len(calls) |-> Callers[j]]
    BY CallersAre
  <2>2. /\ Floor(calls, Len(calls)) < m /\ m \in 1..Len(st) /\ st[m].t = "mark"
        /\ Ready(code, sh, clos, st, caller.pc, caller.scope, Floor(calls, Len(calls)), m - 1)
    BY <1>1, <1>13, <1>16
  <2>3. PICK waiting : waiting = Callers
    OBVIOUS
  <2>4. /\ Suspended(code, sh, clos, st, Append(waiting, caller), Append(calls, m))
        /\ Len(Append(calls, m)) = Len(calls) + 1
        /\ Floor(Append(calls, m), Len(calls) + 1) = m
    BY <2>1, <2>2, <2>3, <1>7, <1>20, SuspendedGrows
  <2> QED BY <2>3, <2>4
<1>22. \A j \in DOMAIN frames' : frames'[j].saved.env.t \in Kinds
  <2>1. frames \in Seq(Frame)
    BY <1>2 DEF FramesInv, FramesTypeOK
  <2>2. PICK f : f = [at |-> rsp, saved |-> [env |-> env, pc |-> Next1, extra |-> extra]]
    OBVIOUS
  <2>3. frames' = Append(frames, f) /\ f.saved.env = env
    BY <2>2, <1>3
  <2>4. \A j \in DOMAIN frames' : frames'[j] = f \/ (j \in DOMAIN frames /\ frames'[j] = frames[j])
    BY <2>1, <2>3
  <2> QED BY <2>3, <2>4, <1>2 DEF Executes
<1>23. Executes(sh, calls2, clos)'
  BY <1>2, <1>3, <1>5, <1>9, <1>10, <1>17, <1>18, <1>19, <1>21, <1>22 DEF Executes, store
<1>24. Keeps(sh, clos)'
  BY <1>2, <1>3, KeepsOn DEF Keeps, store
<1> QED BY <1>23, <1>24 DEF Sound

\* Code with nothing of its own on the argument stack, at a mark: at the one it was
\* called at.
LEMMA AtFloor ==
  ASSUME NEW sh, NEW calls, NEW clos, Stepping(sh, calls, clos), sh[pc + 1].own = <<>>, AtMark
  PROVE  /\ Len(calls) \in Nat \ {0} /\ Len(astack) = calls[Len(calls)] /\ Len(astack) # 0
         /\ Floor(calls, Len(calls)) = Len(astack)
<1>1. PICK s, low, n : /\ s = sh[pc + 1] /\ low = Floor(calls, Len(calls))
                       /\ n = Len(astack) /\ n \in Nat
  BY Finds
<1>2. /\ Stands(s, astack, low, n) /\ low \in Nat /\ low <= n /\ astack \in Seq(Value)
      /\ s.own = <<>>
  BY <1>1, Finds
<1>3. n # 0 /\ astack[n].t = "mark"
  BY <1>1, <1>2 DEF AtMark, Top
<1>4. PICK base : Level(<<>>, astack, low, base, n)
  BY <1>2 DEF Stands
<1>5. base = n /\ \A i \in low + 1..n : astack[i].t # "mark"
  <2>1. base \in Nat /\ 0 = n - base /\ n \in Nat
    BY <1>1, <1>4 DEF Level
  <2>2. base = n
    BY <2>1
  <2> QED BY <2>2, <1>4 DEF Level
<1>6. low = n
  <2>1. low < n => n \in low + 1..n
    BY <1>1, <1>2
  <2> QED BY <2>1, <1>1, <1>2, <1>3, <1>5
<1>7. low # 0
  BY <1>3, <1>6
<1>8. Len(calls) \in Nat \ {0} /\ low = calls[Len(calls)]
  BY <1>1, <1>7, CalledAt
<1> QED BY <1>1, <1>3, <1>6, <1>8

\* The caller called last goes on.
LEMMA Resumes ==
  ASSUME NEW sh, NEW calls, NEW clos, Stepping(sh, calls, clos), sh[pc + 1].own = <<>>,
         AtMark, extra < rsp, Restore(rsp - extra - 1), astack' = Pop, frames' = Older,
         UNCHANGED <<code, globals, handles, leftover, rslots>>,
         NEW clos2, clos \subseteq clos2, Objects(code, sh, heap', clos2), Fine(clos2, accum')
  PROVE  Sound'
<1>1. PICK n \in Nat, m \in Nat : n = Len(astack) /\ Len(calls) = m + 1
  <2>1. Len(calls) - 1 \in Nat /\ Len(calls) = (Len(calls) - 1) + 1
    BY AtFloor
  <2> QED BY <2>1, Finds
<1>2. /\ Executes(sh, calls, clos) /\ Keeps(sh, clos) /\ FramesInv /\ FramesInv' /\ HeapGrows
      /\ ~leftover /\ UNCHANGED compiled /\ code \in Seq(Cell) /\ astack \in Seq(Value)
  BY Finds DEF Stepping, Executes
<1>3. /\ calls[m + 1] = n /\ n # 0 /\ calls \in Seq(Nat)
      /\ Suspended(code, sh, clos, astack, Callers, calls)
  BY <1>1, <1>2, AtFloor DEF Executes, Suspended
<1>4. /\ Callers = [k \in 1..m + 1 |-> Callers[k]] /\ Len(frames) = m + 1
      /\ DOMAIN frames = 1..m + 1
  BY <1>1, CallersAre
<1>5. /\ Scope' = Callers[m + 1].scope /\ pc' = Callers[m + 1].pc
      /\ Callers' = SubSeq(Callers, 1, m)
  <2>1. Machine!Resumes
    BY <1>2, ResumesMaps DEF FramesInv
  <2>2. Len(Callers) = m + 1
    BY <1>4, FrontIs
  <2>3. (m + 1) - 1 = m
    OBVIOUS
  <2> QED BY <2>1, <2>2, <2>3 DEF Machine!Resumes
<1>6. PICK st \in Seq(Value) : st = Pop /\ Len(st) = n - 1 /\ \A i \in 1..n - 1 : st[i] = astack[i]
  BY <1>1, <1>2, <1>3, PopIs
<1>7. PICK low \in Nat : low = Floor(calls, m)
  <2>1. m \in 0..Len(calls)
    BY <1>1
  <2> QED BY <2>1, <1>3, FloorType
<1>8. low <= n - 1
  <2>1. m # 0 => calls[m] < calls[m + 1]
    BY <1>1, <1>3 DEF Suspended
  <2> QED BY <2>1, <1>3, <1>7 DEF Floor
<1>9. PICK less : /\ Suspended(code, sh, clos, astack, Callers', less)
                  /\ Floor(less, Len(less)) = low
  <2>1. Len(calls) - 1 = m /\ Len(calls) # 0
    BY <1>1
  <2>2. PICK waiting : waiting = Callers /\ waiting = [k \in 1..Len(calls) |-> waiting[k]]
    BY CallersAre
  <2>3. LET n1 == Len(calls) - 1
            front == SubSeq(calls, 1, n1)
        IN  /\ Suspended(code, sh, clos, astack, SubSeq(waiting, 1, n1), front)
            /\ Len(front) = n1 /\ Floor(front, n1) = Floor(calls, n1)
    BY <2>1, <2>2, <1>2, <1>3, SuspendedShrinks
  <2> QED BY <2>1, <2>2, <2>3, <1>5, <1>7
<1>10. Suspended(code, sh, clos2, st, Callers', less)
  BY <1>2, <1>6, <1>8, <1>9, SuspendedStays DEF Keeps
<1>11. Ready(code, sh, clos2, st, pc', Scope', low, n - 1)
  <2>1. Ready(code, sh, clos, astack, Callers[m + 1].pc, Callers[m + 1].scope,
              Floor(calls, m), n - 1)
    <3>1. m + 1 \in 1..Len(calls) /\ (m + 1) - 1 = m
      BY <1>1
    <3> QED BY <3>1, <1>3 DEF Suspended
  <2>2. n - 1 \in Nat
    BY <1>3
  <2> QED BY <2>1, <2>2, <1>2, <1>5, <1>6, <1>7, ReadyStays DEF Keeps
<1>12. /\ env'.t \in Kinds /\ \A k \in DOMAIN frames' : frames'[k].saved.env.t \in Kinds
  <2>1. rslots[rsp - extra - 1] = frames[m + 1].saved
    <3>1. CurBase = rsp - extra /\ Intact /\ frames \in Seq(Frame)
      BY <1>2, Running DEF FramesInv, FramesFound, FramesTypeOK
    <3>2. m + 1 \in DOMAIN frames /\ CurBase = frames[m + 1].at + 1 /\ m + 1 # 0
      BY <1>4 DEF CurBase, Base
    <3>3. frames[m + 1].at \in Int
      BY <3>2, <1>2, FrameType DEF FramesInv
    <3>4. frames[m + 1].at = rsp - extra - 1
      <4>1. rsp \in Int /\ extra \in Int
        BY <1>2, Running DEF TypeOK
      <4> QED BY <4>1, <3>1, <3>2, <3>3
    <3> QED BY <3>1, <3>2, <3>4 DEF Intact
  <2>2. env'.t \in Kinds
    BY <2>1, <1>2, <1>4 DEF Restore, Executes
  <2>3. \A k \in DOMAIN frames' : k \in DOMAIN frames /\ frames'[k] = frames[k]
    <3>1. frames' = SubSeq(frames, 1, m)
      BY <1>4 DEF Older
    <3>2. frames \in Seq(Frame)
      BY <1>2 DEF FramesInv, FramesTypeOK
    <3> QED BY <3>1, <3>2, <1>4
  <2> QED BY <2>2, <2>3, <1>2 DEF Executes
<1>13. /\ \A i \in DOMAIN st : st[i].t = "clo" => st[i].v \in clos2
       /\ n - 1 <= AspMax
  BY <1>1, <1>2, <1>6, SizesAssumption DEF Executes
<1>14. Keeps(sh, clos2)'
  BY <1>2, KeepsOn DEF Keeps, Fine
<1>15. Executes(sh, less, clos2)'
  BY <1>2, <1>6, <1>9, <1>10, <1>11, <1>12, <1>13 DEF Executes
<1> QED BY <1>14, <1>15 DEF Sound

LEMMA Returns ==
  ASSUME NEW sh, NEW calls, NEW clos, Stepping(sh, calls, clos), Restores
  PROVE  Sound'
<1>1. frames' = Older /\ UNCHANGED leftover
  BY DEF Restores
<1>2. Executes(sh, calls, clos) /\ Keeps(sh, clos) /\ FramesInv /\ FramesInv' /\ HeapGrows
      /\ ~leftover
  BY DEF Stepping, Executes
<1>3. CASE ReturnToFrame
  <2>1. /\ Op = "RETURN" /\ AtMark /\ extra < rsp /\ Restore(rsp - extra - 1) /\ astack' = Pop
        /\ UNCHANGED <<store, status, accum, rslots>>
    BY <1>3 DEF ReturnToFrame, Fetch, Executing, Defined
  <2>2. sh[pc + 1].own = <<>>
    BY <2>1, Follows DEF Allows, Op
  <2> QED BY <1>1, <1>2, <2>1, <2>2, Resumes DEF Keeps, Executes, store
<1>4. CASE GrabPartial
  <2>1. /\ Op = "GRAB" /\ AtMark /\ extra < rsp /\ Restore(rsp - extra - 1) /\ astack' = Pop
        /\ accum' = Ref("clo", Len(heap) + 1) /\ UNCHANGED <<code, globals, handles, rslots>>
    BY <1>4 DEF GrabPartial, Fetch, Executing, Defined
  <2>2. PICK s : s = sh[pc + 1]
    OBVIOUS
  <2>3. /\ s.own = <<>> /\ ~s.main /\ IsInstr(code, Next1 + 1)
        /\ sh[Next1 + 1] = [s EXCEPT !.scope = @ + 1]
    BY <2>1, <2>2, Follows DEF Allows, After, Op
  <2>4. /\ s \in Shape /\ Scope \in Seq(Value) /\ Len(Scope) = s.scope /\ AllFine(clos, Scope)
        /\ heap \in Seq(Object)
    BY <2>2, Finds
  <2>5. sh[Next1 + 1] = [main |-> FALSE, own |-> <<>>, scope |-> Len(Scope) + 1]
    BY <2>3, <2>4 DEF Shape
  <2>6. heap' = heap \o <<<<Ref("clo", Len(heap) + 2), CodeIdx(Next1)>>, Scope>>
    <3>1. Machine!GrabPartial
      BY <1>1, <1>2, <1>4, GrabPartialMaps DEF FramesInv
    <3> QED BY <3>1, Names DEF Machine!GrabPartial, Machine!Captures
  <2>7. PICK clos2 : clos2 = clos \cup {Len(heap) + 1}
    OBVIOUS
  <2>8. Objects(code, sh, heap', clos2)
    <3>1. "clo" \in Kinds
      BY DEF Kinds
    <3> QED BY <3>1, <1>2, <2>3, <2>4, <2>5, <2>6, <2>7, ObjectsCapture DEF Keeps
  <2>9. Fine(clos2, accum')
    BY <2>1, <2>7 DEF Fine, Ref
  <2> QED BY <1>1, <2>1, <2>2, <2>3, <2>7, <2>8, <2>9, Resumes
<1> QED BY <1>3, <1>4 DEF Restores

-----------------------------------------------------------------------------
(* No instruction goes wrong.                                              *)

\* There is a return frame just when code waits.
LEMMA FramesCount ==
  ASSUME NEW sh, NEW calls, NEW clos, Stepping(sh, calls, clos)
  PROVE  /\ Len(calls) # 0 => extra < rsp
         /\ Len(calls) = 0 => rsp = extra
<1>1. FramesInv /\ ~leftover /\ Len(frames) = Len(calls) /\ Len(calls) \in Nat
      /\ DOMAIN frames = 1..Len(calls)
  BY CallersAre DEF Stepping, Executes
<1>2. CurBase \in 0..rsp /\ rsp = CurBase + extra /\ rsp \in Nat /\ extra \in Nat
  BY <1>1, Running DEF TypeOK
<1>3. ASSUME Len(calls) # 0 PROVE extra < rsp
  <2>1. Len(calls) \in DOMAIN frames
    BY <1>1, <1>3
  <2>2. \E i \in 0..CurBase - 1 : TRUE
    BY <2>1, <1>1, FramePlace
  <2>3. CurBase > 0
    BY <2>2, <1>2
  <2> QED BY <2>3, <1>2
<1>4. ASSUME Len(calls) = 0 PROVE rsp = extra
  <2>1. CurBase = 0
    BY <1>1, <1>4 DEF CurBase, Base
  <2> QED BY <2>1, <1>2
<1> QED BY <1>3, <1>4

\* Code that was called has its caller's mark below it.
LEMMA NotAtBottom ==
  ASSUME NEW sh, NEW calls, NEW clos, Stepping(sh, calls, clos)
  PROVE  /\ ~sh[pc + 1].main => astack # <<>> /\ Len(astack) # 0
         /\ sh[pc + 1].main => Len(calls) = 0
<1>1. PICK s, low, n : /\ s = sh[pc + 1] /\ low = Floor(calls, Len(calls))
                       /\ n = Len(astack) /\ n \in Nat
  BY Finds
<1>2. Stands(s, astack, low, n) /\ low <= n /\ low \in Nat /\ astack \in Seq(Value)
  BY <1>1, Finds
<1>3. s.main <=> low = 0
  BY <1>2 DEF Stands
<1>4. ASSUME low = 0 PROVE Len(calls) = 0
  <2> SUFFICES ASSUME Len(calls) # 0 PROVE FALSE
    OBVIOUS
  <2>1. Suspended(code, sh, clos, astack, Callers, calls) /\ Len(calls) \in Nat
    BY CallersAre DEF Stepping, Executes
  <2>2. Len(calls) \in 1..Len(calls)
    BY <2>1
  <2>3. calls[Len(calls)] \in 1..Len(astack)
    BY <2>1, <2>2 DEF Suspended
  <2>4. low = calls[Len(calls)]
    BY <1>1 DEF Floor
  <2> QED BY <2>3, <2>4, <1>1, <1>4
<1>5. ASSUME low # 0 PROVE astack # <<>> /\ n # 0
  BY <1>1, <1>2, <1>5
<1> QED BY <1>1, <1>3, <1>4, <1>5

LEMMA AccumCallable ==
  ASSUME NEW sh, NEW calls, NEW clos, Stepping(sh, calls, clos), accum.t = "clo"
  PROVE  Callable(accum)
<1>1. Closed(code, sh, heap, clos, accum.v)
  BY DEF Stepping, Executes, Keeps, Fine, Objects
<1>2. PICK o : o = heap[accum.v]
  OBVIOUS
<1>3. IsObj(accum) /\ Fields(accum) = o /\ 1 \in DOMAIN o /\ 2 \in DOMAIN o
  BY <1>1, <1>2 DEF Closed, IsObj, Kinds, Fields
<1>4. o[2].t \notin Kinds
  BY <1>1, <1>2 DEF Closed
<1> QED BY <1>3, <1>4 DEF Callable, HasField, Field

\* What an instruction of well-formed code needs is there, unless an array is full
\* or a global was not registered.
LEMMA NeverUndefined ==
  ASSUME NEW sh, NEW calls, NEW clos, Stepping(sh, calls, clos), ~NoRoom, ~Unregistered
  PROVE  Defined
<1>1. PICK s, low, n : /\ s = sh[pc + 1] /\ low = Floor(calls, Len(calls))
                       /\ n = Len(astack) /\ n \in Nat
  BY Finds
<1>2. /\ FramesInv /\ ~leftover /\ ~Strays /\ n <= AspMax /\ AspMax \in Nat /\ RspMax \in Nat
  BY <1>1, SizesAssumption DEF Stepping, Executes
<1>3. /\ IsInstr(code, pc + 1) /\ Arg \in Int /\ astack \in Seq(Value)
      /\ Len(s.own) \in Nat /\ s.scope \in Nat /\ low \in Nat /\ low <= n
      /\ Stands(s, astack, low, n) /\ IsObj(env)
      /\ s.scope = extra + Len(Contents(env)) /\ Contents(env) \in Seq(Value)
  BY <1>1, Finds
<1>4. /\ rsp \in 0..RspMax /\ extra \in 0..rsp /\ extra \in Nat /\ rsp \in Nat
  BY <1>2, Running DEF TypeOK
<1>5. Allows(code[pc + 1], s)
  BY <1>1, Follows
<1>6. Contents(env) = Fields(env) /\ DOMAIN Fields(env) = 1..Len(Contents(env))
      /\ Len(Contents(env)) \in Nat
  BY <1>3 DEF Contents
<1>7. Len(s.own) <= n
  <2>1. PICK base : Level(s.own, astack, low, base, n)
    BY <1>3 DEF Stands
  <2> QED BY <2>1, <1>1, <1>3 DEF Level
<1>8. pc + 1 \in DOMAIN code /\ Op \in Ops
  BY <1>3 DEF IsInstr, Op
<1>9. Op \in {"PUSH", "PUSHMARK"} => Len(astack) < AspMax
  BY <1>1, <1>2 DEF NoRoom
<1>10. Op = "LET" => rsp < RspMax
  BY <1>2, <1>4 DEF NoRoom
<1>11. Op = "CLOSURE" => IsObj(env) /\ extra <= rsp
  BY <1>3, <1>4
<1>12. ASSUME Op = "ENDLET"
       PROVE  IF extra > 0 THEN rsp > 0
              ELSE HasField(env, 1) /\ rsp + Len(Fields(env)) - 1 <= RspMax
  <2>1. s.scope > 0
    BY <1>5, <1>12 DEF Allows, Op
  <2>2. extra > 0 => rsp > 0
    BY <1>4
  <2>3. ASSUME ~(extra > 0)
        PROVE  HasField(env, 1) /\ rsp + Len(Fields(env)) - 1 <= RspMax
    <3>1. extra = 0
      BY <2>3, <1>4
    <3>2. 1 \in 1..Len(Contents(env))
      BY <2>1, <3>1, <1>3, <1>6
    <3>3. HasField(env, 1)
      BY <3>2, <1>3, <1>6 DEF HasField
    <3>4. ~(rsp + Len(Fields(env)) - 1 > RspMax)
      BY <3>1, <1>12 DEF NoRoom
    <3> QED BY <3>3, <3>4, <1>2, <1>4, <1>6
  <2> QED BY <2>2, <2>3
<1>13. Op \in {"SETGLOBAL", "GETGLOBAL"} => Arg \in DOMAIN globals
  BY DEF Unregistered
<1>14. ASSUME Op = "GRAB"
       PROVE  astack # <<>> /\ IF AtMark THEN IsObj(env) /\ extra < rsp ELSE rsp < RspMax
  <2>1. ~s.main /\ s.own = <<>>
    BY <1>5, <1>14 DEF Allows, Op
  <2>2. AtMark => extra < rsp
    BY <2>1, <1>1, AtFloor, FramesCount
  <2>3. rsp < RspMax
    BY <1>2, <1>4, <1>14 DEF NoRoom
  <2> QED BY <2>1, <2>2, <2>3, <1>1, <1>3, NotAtBottom
<1>15. Op \in {"APPLY", "APPTERM"} => Callable(accum)
  BY <1>2, AccumCallable DEF Strays
<1>16. ASSUME Op = "APPLY" PROVE astack # <<>> /\ rsp + 2 <= RspMax
  <2>1. \E k \in 1..Len(s.own) - 1 : TRUE
    BY <1>5, <1>16 DEF Allows, Op
  <2>2. n # 0
    BY <2>1, <1>3, <1>7
  <2>3. ~(rsp + 2 > RspMax)
    BY <1>16 DEF NoRoom
  <2> QED BY <2>2, <2>3, <1>1, <1>2, <1>3, <1>4
<1>17. ASSUME Op = "APPTERM" PROVE astack # <<>> /\ extra <= rsp /\ rsp - extra < RspMax
  <2>1. ~s.main
    BY <1>5, <1>17 DEF Allows, Op
  <2>2. rsp < RspMax
    BY <1>2, <1>4, <1>17 DEF NoRoom
  <2> QED BY <2>1, <2>2, <1>1, <1>2, <1>4, NotAtBottom
<1>18. ASSUME Op = "ACCESS"
       PROVE  IF Arg < extra THEN 0 <= Arg /\ Arg < rsp ELSE HasField(Walk(Arg), 1)
  <2>1. Arg \in 0..s.scope - 1
    BY <1>5, <1>18 DEF Allows, Op, Arg
  <2>2. Arg <= extra
    <3>1. ~(Arg > extra)
      BY <1>2, <1>18 DEF Strays
    <3> QED BY <3>1, <1>3, <1>4
  <2>3. ASSUME ~(Arg < extra) PROVE HasField(Walk(Arg), 1)
    <3>1. Arg = extra
      BY <2>2, <2>3, <1>3, <1>4
    <3>2. Walk(Arg) = env
      BY <2>2 DEF Walk
    <3>3. 1 \in 1..Len(Contents(env))
      BY <2>1, <3>1, <1>3, <1>4, <1>6
    <3> QED BY <3>2, <3>3, <1>3, <1>6 DEF HasField
  <2> QED BY <2>1, <2>3, <1>3, <1>4
<1>19. ASSUME Op = "MKB" PROVE Arg \in 0..Len(astack)
  <2>1. Arg \in 0..Len(s.own)
    BY <1>5, <1>19 DEF Allows, Op, Arg
  <2> QED BY <2>1, <1>1, <1>3, <1>7
<1>20. ASSUME Op = "RETURN", rsp > 0 PROVE astack # <<>> /\ AtMark /\ extra < rsp
  <2>1. s.own = <<>> /\ (s.main => s.scope = 0)
    BY <1>5, <1>20 DEF Allows, Op
  <2>2. ~s.main
    <3> SUFFICES ASSUME s.main PROVE FALSE
      OBVIOUS
    <3>1. rsp = extra
      BY <1>1, NotAtBottom, FramesCount
    <3>2. extra = 0
      BY <2>1, <1>3, <1>4, <1>6
    <3> QED BY <3>1, <3>2, <1>20
  <2>3. astack # <<>>
    BY <2>2, <1>1, NotAtBottom
  <2>4. AtMark
    BY <2>3, <1>2, <1>20 DEF Strays
  <2>5. extra < rsp
    BY <2>1, <2>4, <1>1, AtFloor, FramesCount
  <2> QED BY <2>3, <2>4, <2>5
<1> QED BY <1>8, <1>9, <1>10, <1>11, <1>12, <1>13, <1>14, <1>15, <1>16, <1>17, <1>18,
           <1>19, <1>20 DEF Defined

\* The interpreter returns to its caller with nothing on the argument stack.
LEMMA EndsEval ==
  ASSUME NEW sh, NEW calls, NEW clos, Stepping(sh, calls, clos), ReturnToClient
  PROVE  Sound' /\ astack' = <<>>
<1>1. PICK s, low, n : /\ s = sh[pc + 1] /\ low = Floor(calls, Len(calls))
                       /\ n = Len(astack) /\ n \in Nat
  BY Finds
<1>2. /\ Op = "RETURN" /\ rsp = 0 /\ handles' = [handles EXCEPT ![Len(handles)] = accum]
      /\ status' = "idle" /\ UNCHANGED <<code, heap, globals, astack>>
  BY DEF ReturnToClient, Fetch, Executing
<1>3. Len(calls) = 0 /\ low = 0
  <2>1. extra \in 0..rsp
    BY Running DEF Stepping, Executes
  <2>2. ~(extra < rsp)
    BY <2>1, <1>2
  <2>3. Len(calls) = 0
    BY <2>2, FramesCount
  <2> QED BY <2>3, <1>1 DEF Floor
<1>4. s.own = <<>>
  BY <1>1, <1>2, Follows DEF Allows, Op
<1>5. PICK base : Level(<<>>, astack, 0, base, n) /\ base = 0
  <2>1. Stands(s, astack, 0, n)
    BY <1>1, <1>3, Finds
  <2> QED BY <2>1, <1>4 DEF Stands
<1>6. astack = <<>>
  <2>1. n = 0
    BY <1>1, <1>5 DEF Level
  <2> QED BY <2>1, <1>1, Finds, EmptySeq
<1>7. /\ Keeps(sh, clos) /\ Len(handles) \notin compiled /\ UNCHANGED compiled
  BY DEF Stepping, Executes
<1>8. \A h \in compiled : h \in DOMAIN handles' /\ handles'[h] = handles[h]
  BY <1>2, <1>7 DEF Keeps
<1>9. Keeps(sh, clos)'
  BY <1>2, <1>7, <1>8 DEF Keeps
<1> QED BY <1>2, <1>6, <1>9 DEF Sound

-----------------------------------------------------------------------------
(* Every step of the interpreter and of its client keeps the invariant.    *)

LEMMA RunsKeep ==
  ASSUME FramesInv, FramesInv', HeapGrows, Runs, ShapesInv
  PROVE  ShapesInv'
<1> SUFFICES ASSUME ~astray' PROVE Sound' /\ FaultsExplained' /\ BalancedAtReturn'
  BY DEF ShapesInv, FaultsExplained, BalancedAtReturn
<1>1. /\ status = "running" /\ FNext /\ ~astray /\ UNCHANGED compiled
      /\ pc + 1 \in DOMAIN code => ~Strays
  BY DEF Runs
<1>2. PICK sh, clos, calls : Keeps(sh, clos) /\ Executes(sh, calls, clos)
  BY <1>1 DEF ShapesInv, Sound
<1>3. pc + 1 \in DOMAIN code
  BY <1>2 DEF Executes, Ready, IsInstr
<1>4. Stepping(sh, calls, clos)
  BY <1>1, <1>2, <1>3 DEF Stepping
<1>5. status' = "running" => FaultsExplained' /\ BalancedAtReturn'
  BY DEF FaultsExplained, BalancedAtReturn
<1>6. CASE Saves
  <2>1. status' = "running"
    BY <1>1, <1>6 DEF Saves, Apply
  <2> QED BY <2>1, <1>4, <1>5, <1>6, Applies
<1>7. CASE Restores
  <2>1. status' = "running"
    BY <1>1, <1>7 DEF Restores, ReturnToFrame, GrabPartial
  <2> QED BY <2>1, <1>4, <1>5, <1>7, Returns
<1>8. CASE Starts
  BY <1>1, <1>8 DEF Starts, Eval
<1>9. CASE PassesOn
  BY <1>1, <1>3, <1>9 DEF PassesOn, ReturnToArg, Fetch, Executing, Defined, Strays
<1>10. CASE Others
  <2>1. UNCHANGED <<frames, leftover>>
    BY <1>10 DEF Others
  <2>2. CASE Int64 \/ GetGlobal \/ SetGlobal
    <3>1. status' = "running"
      BY <1>1, <2>2 DEF Int64, GetGlobal, SetGlobal
    <3> QED BY <3>1, <2>1, <2>2, <1>4, <1>5, Sets
  <2>3. CASE Push \/ PushMark
    <3>1. status' = "running"
      BY <1>1, <2>3 DEF Push, PushMark
    <3> QED BY <3>1, <2>1, <2>3, <1>4, <1>5, Pushes
  <2>4. CASE Closure
    BY <2>1, <2>4, <1>1, <1>4, <1>5, Closes DEF Closure
  <2>5. CASE Let
    BY <2>1, <2>5, <1>1, <1>4, <1>5, Lets DEF Let
  <2>6. CASE EndLet
    BY <2>1, <2>6, <1>1, <1>4, <1>5, EndsLet DEF EndLet
  <2>7. CASE GrabArg
    BY <2>1, <2>7, <1>1, <1>4, <1>5, GrabsArg DEF GrabArg
  <2>8. CASE AppTerm
    BY <2>1, <2>8, <1>1, <1>4, <1>5, AppliesLast DEF AppTerm
  <2>9. CASE Access
    BY <2>1, <2>9, <1>1, <1>4, <1>5, Accesses DEF Access
  <2>10. CASE MkB
    BY <2>1, <2>10, <1>1, <1>4, <1>5, MakesBlock DEF MkB
  <2>11. CASE ReturnToClient
    <3>1. Sound' /\ astack' = <<>> /\ status' = "idle"
      BY <2>11, <1>4, EndsEval DEF ReturnToClient
    <3> QED BY <3>1 DEF FaultsExplained, BalancedAtReturn
  <2>12. CASE Fault
    <3>1. /\ ~Defined /\ status' = "fault"
          /\ UNCHANGED <<store, pc, accum, env, emptyEnv, extra, astack, rslots, rsp>>
      BY <2>12 DEF Fault
    <3>2. NoRoom \/ Unregistered
      BY <3>1, <1>4, NeverUndefined
    <3>3. NoRoom' = NoRoom /\ Unregistered' = Unregistered /\ code' = code /\ pc' = pc
      BY <3>1 DEF NoRoom, Unregistered, Op, Arg, Fields, store
    <3>4. Keeps(sh, clos)'
      BY <3>1, <1>1, <1>2 DEF Keeps, store
    <3> QED BY <3>1, <3>2, <3>3, <3>4, <1>3 DEF Sound, FaultsExplained, BalancedAtReturn
  <2>13. CASE (\E s \in Syms : Register(s)) \/ Generate
    BY <2>13, <1>1 DEF Register, Generate
  <2> QED BY <1>10, <2>2, <2>3, <2>4, <2>5, <2>6, <2>7, <2>8, <2>9, <2>10, <2>11,
             <2>12, <2>13 DEF Others
<1> QED BY <1>1, <1>6, <1>7, <1>8, <1>9, <1>10 DEF FNext

\* A declaration's global has no value yet.
LEMMA RegistersKeep ==
  ASSUME ShapesInv, NEW s, Registers(s)
  PROVE  ShapesInv'
<1>1. /\ status = "idle" /\ status' = "idle" /\ astray' = astray /\ astack' = astack
      /\ UNCHANGED <<code, heap, handles, compiled>>
      /\ \A g \in DOMAIN globals' : g = s \/ (g \in DOMAIN globals /\ globals'[g] = globals[g])
      /\ s \in DOMAIN globals' => globals'[s] = Undef
  BY DEF Registers, Register, locals
<1>2. FaultsExplained' /\ BalancedAtReturn'
  BY <1>1 DEF FaultsExplained, BalancedAtReturn, ShapesInv
<1>3. ASSUME ~astray PROVE Sound'
  <2>1. PICK sh, clos : Keeps(sh, clos)
    BY <1>3 DEF ShapesInv, Sound
  <2>2. Fine(clos, Undef)
    BY DEF Fine, Undef
  <2>3. \A g \in DOMAIN globals' : Fine(clos, globals'[g])
    BY <1>1, <2>1, <2>2 DEF Keeps
  <2>4. Keeps(sh, clos)'
    BY <1>1, <2>1, <2>3 DEF Keeps
  <2> QED BY <1>1, <2>4 DEF Sound
<1> QED BY <1>1, <1>2, <1>3 DEF ShapesInv

\* Well-formed code behind what is there, and its handle.
LEMMA CompilesKeep ==
  ASSUME FramesInv, HeapGrows, ShapesInv, NEW chunk \in Chunks, Compiles(chunk),
         compiled' # compiled => HasShapes(SubSeq(code', Len(code) + 1, Len(code')))
  PROVE  ShapesInv'
<1>1. /\ status = "idle" /\ status' = "idle" /\ astray' = astray /\ astack' = astack
      /\ heap' = heap \o <<<<Ref("env", Len(heap) + 2), CodeIdx(Len(code))>>, <<>>>>
      /\ code' = code \o chunk /\ handles' = Append(handles, Ref("clo", Len(heap) + 1))
      /\ compiled' = compiled \cup {Len(handles')} /\ UNCHANGED globals
  BY DEF Compiles, Place, locals
<1>2. FaultsExplained' /\ BalancedAtReturn'
  BY <1>1 DEF FaultsExplained, BalancedAtReturn, ShapesInv
<1>3. ASSUME ~astray PROVE Sound'
  <2>1. PICK sh, clos : Keeps(sh, clos)
    BY <1>3 DEF ShapesInv, Sound
  <2>2. /\ code \in Seq(Cell) /\ chunk \in Seq(Cell) /\ heap \in Seq(Object)
        /\ handles \in Seq(Value)
    BY ChunksAssumption DEF FramesInv, TypeOK
  <2>3. PICK o, m, a : /\ o = Ref("clo", a) /\ m = Len(handles) + 1
                       /\ a = Len(heap) + 1 /\ m \in Nat /\ a \in Nat
    BY <2>2
  <2>4. /\ Len(handles') = m /\ DOMAIN handles = 1..m - 1 /\ DOMAIN handles' = 1..m
        /\ handles'[m] = o /\ \A h \in 1..m - 1 : handles'[h] = handles[h]
    <3>1. o \in Value
      BY <2>3 DEF Ref, Value, Kinds
    <3> QED BY <3>1, <2>2, <2>3, <1>1
  <2>5. compiled \subseteq 1..m - 1 /\ compiled' = compiled \cup {m}
    BY <1>1, <2>1, <2>4 DEF Keeps
  <2>6. HasShapes(chunk)
    <3>1. m \notin compiled
      BY <2>3, <2>5
    <3>2. SubSeq(code', Len(code) + 1, Len(code')) = chunk
      BY <1>1, <2>2, SuffixIs
    <3> QED BY <3>1, <3>2, <2>5
  <2>7. PICK sd : Shaped(chunk, sd)
    BY <2>6 DEF HasShapes
  <2>8. IsInstr(chunk, 1) /\ sd[1] = MainEntry /\ Fits(chunk, sd)
    BY <2>7 DEF Shaped
  <2>9. PICK sh2 : sh2 = sh \o sd
    OBVIOUS
  <2>10. /\ Fits(code', sh2) /\ Extends(code', sh2, code, sh)
         /\ IsInstr(code', Len(code) + 1) /\ sh2[Len(code) + 1] = MainEntry
    <3>1. Fits(code, sh)
      BY <2>1 DEF Keeps
    <3>2. /\ Fits(code \o chunk, sh \o sd)
          /\ Extends(code \o chunk, sh \o sd, code, sh)
      BY <3>1, <2>2, <2>8, FitsTogether, Zenon
    <3>3. code' = code \o chunk
      BY <1>1
    <3>4. IsInstr(code', Len(code) + 1) /\ sh2[Len(code) + 1] = sd[1]
      <4>1. PICK k, n : k \in Nat /\ n \in Nat /\ k = Len(code) /\ n = Len(chunk)
        <5>1. Len(code) \in Nat /\ Len(chunk) \in Nat
          BY <2>2
        <5> QED BY <5>1, Zenon
      <4>2. sh \in Seq(Shape) /\ sd \in Seq(Shape) /\ Len(sh) = k /\ Len(sd) = n
        BY <3>1, <2>8, <4>1 DEF Fits
      <4>3. 1 \in 1..n /\ chunk[1].op \in Ops
        BY <2>2, <2>8, <4>1 DEF IsInstr
      <4>4. k + 1 \in DOMAIN code' /\ code'[k + 1] = chunk[1]
        BY <2>2, <3>3, <4>1, <4>3
      <4>5. sh2[k + 1] = sd[1]
        <5>1. \A i \in 1..Len(sd) : (sh \o sd)[Len(sh) + i] = sd[i]
          BY <4>2, ShapesJoined, Zenon
        <5> QED BY <5>1, <4>2, <4>3, <2>9, Zenon
      <4> QED BY <4>1, <4>3, <4>4, <4>5 DEF IsInstr
    <3> QED BY <3>2, <3>3, <3>4, <2>8, <2>9, Zenon
  <2>11. \A b \in DOMAIN heap : b \in DOMAIN heap' /\ heap'[b] = heap[b]
    BY DEF HeapGrows
  <2>12. Objects(code', sh2, heap', clos)
    BY <2>1, <2>10, <2>11, ObjectsStay DEF Keeps, Objects
  <2>13. Entry(code', sh2, heap', o)
    <3>1. PICK e : /\ e = <<Ref("env", a + 1), CodeIdx(Len(code))>>
                   /\ heap' = heap \o <<e, <<>>>>
      <4>1. Len(heap) + 2 = a + 1
        BY <2>2, <2>3
      <4> QED BY <4>1, <1>1
    <3>2. /\ a \in DOMAIN heap' /\ a + 1 \in DOMAIN heap' /\ heap'[a] = e /\ heap'[a + 1] = <<>>
      BY <2>2, <2>3, <3>1
    <3>3. /\ {1, 2} \subseteq DOMAIN e /\ e[1].t = "env" /\ e[1].v = a + 1
          /\ e[2].t = "undef" /\ e[2].v = Len(code)
      BY <3>1 DEF Ref, CodeIdx
    <3>4. o.t = "clo" /\ o.v = a
      BY <2>3 DEF Ref
    <3>5. "clo" \in Kinds /\ "env" \in Kinds /\ "undef" \notin Kinds
      BY DEF Kinds
    <3> QED BY <3>2, <3>3, <3>4, <3>5, <2>10 DEF Entry
  <2>14. \A h \in compiled' : h \in DOMAIN handles' /\ Entry(code', sh2, heap', handles'[h])
    <3>1. \A h \in compiled : Entry(code', sh2, heap', handles[h])
      BY <2>1, <2>10, <2>11, EntryStays DEF Keeps
    <3>2. \A h \in compiled : h \in 1..m - 1 /\ h \in 1..m
      BY <2>3, <2>5
    <3>3. m \in 1..m
      BY <2>3
    <3> QED BY <3>1, <3>2, <3>3, <2>4, <2>5, <2>13
  <2>15. Keeps(sh2, clos)'
    BY <1>1, <2>1, <2>10, <2>12, <2>14 DEF Keeps
  <2> QED BY <1>1, <2>15 DEF Sound
<1> QED BY <1>1, <1>2, <1>3 DEF ShapesInv

\* A client evaluates what it had compiled.
LEMMA CallsKeep ==
  ASSUME FramesInv, HeapGrows, ShapesInv, NEW h \in DOMAIN handles, Calls(h)
  PROVE  ShapesInv'
<1>1. /\ Eval(h) /\ frames' = <<>> /\ leftover' = FALSE
      /\ astray' = (astray \/ h \notin compiled) /\ UNCHANGED compiled
  BY DEF Calls
<1>2. /\ status' = "running" /\ handles' = Append(handles, Undef) /\ accum' = Undef
      /\ astack' = <<>> /\ env' = Field(handles[h], 1) /\ UNCHANGED <<code, globals>>
  BY <1>1 DEF Eval
<1>3. FaultsExplained' /\ BalancedAtReturn'
  BY <1>2 DEF FaultsExplained, BalancedAtReturn
<1>4. ASSUME ~astray, h \in compiled PROVE Sound'
  <2>1. PICK sh, clos : Keeps(sh, clos)
    BY <1>4 DEF ShapesInv, Sound
  <2>2. handles \in Seq(Value) /\ Len(handles) \in Nat
    BY DEF FramesInv, TypeOK
  <2>3. PICK o, e, taken : o = handles[h] /\ e = heap[o.v] /\ taken = heap[e[1].v]
    OBVIOUS
  <2>4. Entry(code, sh, heap, o)
    BY <1>4, <2>1, <2>3 DEF Keeps
  <2>5. /\ o.t \in Kinds /\ o.v \in DOMAIN heap /\ {1, 2} \subseteq DOMAIN e
        /\ e[1].t \in Kinds /\ e[1].v \in DOMAIN heap /\ taken = <<>>
        /\ IsInstr(code, e[2].v + 1) /\ sh[e[2].v + 1] = MainEntry
    BY <2>3, <2>4 DEF Entry
  <2>6. Contents(o) = e /\ Contents(e[1]) = taken /\ Field(o, 1) = e[1]
    BY <2>3, <2>5 DEF Contents, IsObj, Fields, Field, HasField
  <2>7. /\ Scope' = <<>> /\ pc' = e[2].v /\ Callers' = <<>>
    <3>1. Machine!Eval(h)
      BY <1>1, EvalMaps
    <3> QED BY <3>1, <2>3, <2>5, <2>6, Names DEF Machine!Eval
  <2>8. Objects(code, sh, heap', clos)
    <3>1. Extends(code, sh, code, sh)
      BY DEF Extends
    <3> QED BY <3>1, <2>1, ObjectsStay DEF Keeps, HeapGrows, Objects
  <2>9. /\ Len(handles') = Len(handles) + 1
        /\ \A k \in DOMAIN handles : k \in DOMAIN handles' /\ handles'[k] = handles[k]
        /\ Len(handles) + 1 \notin DOMAIN handles
    BY <1>2, <2>2
  <2>10. \A k \in compiled : k \in DOMAIN handles' /\ Entry(code, sh, heap', handles'[k])
    <3>1. Extends(code, sh, code, sh)
      BY DEF Extends
    <3>2. \A k \in compiled : k \in DOMAIN handles /\ Entry(code, sh, heap', handles[k])
      BY <3>1, <2>1, EntryStays DEF Keeps, HeapGrows
    <3> QED BY <3>2, <2>9
  <2>11. Keeps(sh, clos)'
    BY <1>1, <1>2, <2>1, <2>8, <2>10 DEF Keeps
  <2>12. Fine(clos, Undef)
    BY DEF Fine, Undef
  <2>13. Suspended(code, sh, clos, <<>>, <<>>, <<>>)
    <3>1. <<>> \in Seq(Nat) /\ Len(<<>>) = 0 /\ DOMAIN <<>> = 1..0
      OBVIOUS
    <3> QED BY <3>1 DEF Suspended
  <2>14. Ready(code, sh, clos, <<>>, pc', <<>>, 0, 0)
    <3>1. Level(<<>>, <<>>, 0, 0, 0)
      BY DEF Level
    <3>2. Stands(MainEntry, <<>>, 0, 0)
      BY <3>1 DEF Stands, MainEntry
    <3> QED BY <3>2, <2>5, <2>7 DEF Ready, MainEntry, AllFine
  <2>15. Len(handles') \notin compiled
    BY <2>1, <2>9 DEF Keeps
  <2>16. Floor(<<>>, Len(<<>>)) = 0 /\ Len(<<>>) = 0 /\ 0 <= AspMax
    BY SizesAssumption DEF Floor
  <2>17. Executes(sh, <<>>, clos)'
    BY <1>1, <1>2, <2>5, <2>6, <2>7, <2>12, <2>13, <2>14, <2>15, <2>16, <2>3 DEF Executes
  <2> QED BY <2>11, <2>17 DEF Sound
<1> QED BY <1>1, <1>3, <1>4 DEF ShapesInv

LEMMA Waits ==
  ASSUME ShapesInv, UNCHANGED shapeVars
  PROVE  ShapesInv'
<1> USE DEF shapeVars, frameVars, vars
<1>1. Scope' = Scope /\ Callers' = Callers
  BY DEF Scope, Callers, CallerOf, ScopeAt, Contents, IsObj, Fields
<1>2. NoRoom' = NoRoom /\ Unregistered' = Unregistered
  BY DEF NoRoom, Unregistered, Op, Arg, Fields
<1>3. FaultsExplained' /\ BalancedAtReturn'
  BY <1>2 DEF ShapesInv, FaultsExplained, BalancedAtReturn
<1>4. \A sh, clos : Keeps(sh, clos) => Keeps(sh, clos)'
  BY DEF Keeps
<1>5. \A sh, calls, clos : Executes(sh, calls, clos) => Executes(sh, calls, clos)'
  BY <1>1 DEF Executes
<1>6. Sound => Sound'
  BY <1>4, <1>5 DEF Sound
<1> QED BY <1>3, <1>6 DEF ShapesInv

LEMMA StartsSound == ShInit => ShapesInv
<1> SUFFICES ASSUME ShInit PROVE ShapesInv
  OBVIOUS
<1>1. /\ code = <<>> /\ DOMAIN globals = {} /\ compiled = {} /\ status = "idle"
      /\ astack = <<>> /\ heap = <<>>
  BY DEF ShInit, FInit, Init
<1>2. Fits(<<>>, <<>>)
  <2>1. <<>> \in Seq(Shape) /\ Len(<<>>) = 0 /\ DOMAIN <<>> = {}
    OBVIOUS
  <2> QED BY <2>1 DEF Fits
<1>3. Keeps(<<>>, {})
  BY <1>1, <1>2 DEF Keeps, Objects
<1> QED BY <1>1, <1>3 DEF ShapesInv, Sound, FaultsExplained, BalancedAtReturn

\* What the interpreter and its client do is what ZincProofs is about.
LEMMA ShapesHistory == [ShNext]_shapeVars => [FNext]_frameVars
<1> SUFFICES ASSUME [ShNext]_shapeVars PROVE [FNext]_frameVars
  OBVIOUS
<1>1. CASE Runs
  BY <1>1 DEF Runs
<1>2. CASE \E s \in Syms : Registers(s)
  BY <1>2 DEF Registers, FNext, Others
<1>3. CASE Len(code) < MaxCode /\ \E chunk \in Chunks : Compiles(chunk)
  <2>1. Generate
    BY <1>3 DEF Compiles, Generate, Place
  <2>2. UNCHANGED <<frames, leftover>>
    BY <1>3 DEF Compiles
  <2> QED BY <2>1, <2>2 DEF FNext, Others
<1>4. CASE \E h \in DOMAIN handles : Calls(h)
  BY <1>4 DEF Calls, FNext, Starts
<1>5. CASE UNCHANGED shapeVars
  BY <1>5 DEF shapeVars
<1> QED BY <1>1, <1>2, <1>3, <1>4, <1>5 DEF ShNext

LEMMA FramesHold == ShSpec => FSpec /\ []FramesInv
<1>1. ShInit => FInit
  BY DEF ShInit
<1>2. ShSpec => FSpec
  BY <1>1, ShapesHistory, PTL DEF ShSpec, FSpec
<1> QED BY <1>2, FramesInvHolds, PTL

LEMMA ShapesStep ==
  ASSUME FramesInv, FramesInv', [ShNext]_shapeVars, ShapesInv,
         \/ compiled' # compiled => HasShapes(SubSeq(code', Len(code) + 1, Len(code')))
         \/ UNCHANGED compiled
  PROVE  ShapesInv'
<1>1. HeapGrows
  BY ShapesHistory, HistoryStep, HeapOnlyGrows DEF FramesInv, HeapGrows
<1>2. CASE Runs
  BY <1>1, <1>2, RunsKeep
<1>3. CASE \E s \in Syms : Registers(s)
  BY <1>3, RegistersKeep
<1>4. CASE \E chunk \in Chunks : Compiles(chunk)
  BY <1>1, <1>4, CompilesKeep
<1>5. CASE \E h \in DOMAIN handles : Calls(h)
  BY <1>1, <1>5, CallsKeep
<1>6. CASE UNCHANGED shapeVars
  BY <1>6, Waits
<1> QED BY <1>2, <1>3, <1>4, <1>5, <1>6 DEF ShNext

LEMMA ShapesStay == ShSpec /\ CompilesShaped => []ShapesInv
BY StartsSound, FramesHold, ShapesStep, PTL DEF ShSpec, CompilesShaped

LEMMA WellFormedIsShaped == CompilesWellFormed => CompilesShaped
<1>1. ASSUME [compiled' # compiled =>
                WellFormed(SubSeq(code', Len(code) + 1, Len(code')))]_compiled
      PROVE  [compiled' # compiled =>
                HasShapes(SubSeq(code', Len(code) + 1, Len(code')))]_compiled
  BY <1>1 DEF WellFormed, HasShapes
<1> QED BY <1>1, PTL DEF CompilesWellFormed, CompilesShaped

\* FaultsExplained holds of the interpreter running any well-formed code on stacks of
\* any size, whatever the types: until it goes astray it stays within its stacks, its
\* objects and its code (lib/vm.c checks none of them), unless a stack is full or a
\* global was not registered.
THEOREM FaultsAreExplained == ShSpec /\ CompilesWellFormed => []FaultsExplained
BY WellFormedIsShaped, ShapesStay, PTL DEF ShapesInv

\* BalancedAtReturn holds likewise: when wist_vm_interpret returns, everything the
\* code and all the code it called pushed on the argument stack was taken.
THEOREM ReturnsBalanced == ShSpec /\ CompilesWellFormed => []BalancedAtReturn
BY WellFormedIsShaped, ShapesStay, PTL DEF ShapesInv
=============================================================================
