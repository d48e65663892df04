----------------------------- MODULE CodeProofs -----------------------------
(***************************************************************************)
(* Whatever is built from the forms of CodeForms is well-formed, of any    *)
(* size and nested in any way; and so the interpreter is safe with it.     *)
(***************************************************************************)
EXTENDS ShapesProofs, CodeForms

-----------------------------------------------------------------------------
(* Code of an expression, of one in tail position, and of count arguments  *)
(* or fields that are pushed, where scope variables are bound.             *)

Piece == [kind : {"expr", "tail", "args"}, scope : Nat, count : Nat, code : Seq(Cell)]
ExprPiece(n, c) == [kind |-> "expr", scope |-> n, count |-> 0, code |-> c]
TailPiece(n, c) == [kind |-> "tail", scope |-> n, count |-> 0, code |-> c]
PushPiece(n, k, c) == [kind |-> "args", scope |-> n, count |-> k, code |-> c]

Code == Seq(Cell)
Uncut(n, width) == n % width = n

\* F has the forms of whatever it has the parts of. A variable is one of those bound,
\* and no operand is cut.
HasForms(F) ==
  /\ \A n \in Nat, v \in Int : ExprPiece(n, IntCode(v)) \in F /\ ExprPiece(n, GVarCode(v)) \in F
  /\ \A n \in Nat, i \in Nat : i < n /\ Uncut(i, U8) => ExprPiece(n, VarCode(i)) \in F
  /\ \A n \in Nat, b \in Code : TailPiece(n + 1, b) \in F /\ Uncut(Len(b) + 1, U16) =>
       ExprPiece(n, LamCode(b)) \in F
  /\ \A n \in Nat : PushPiece(n, 0, <<>>) \in F
  /\ \A n \in Nat, k \in Nat, a \in Code, as \in Code :
       ExprPiece(n, a) \in F /\ PushPiece(n, k, as) \in F =>
         PushPiece(n, k + 1, PushedBefore(a, as)) \in F
  /\ \A n \in Nat, k \in Nat \ {0}, as \in Code, f \in Code :
       PushPiece(n, k, as) \in F /\ ExprPiece(n, f) \in F =>
         ExprPiece(n, AppCode(as, f)) \in F /\ TailPiece(n, TailApp(as, f)) \in F
  /\ \A n \in Nat, k \in Nat, as \in Code : PushPiece(n, k, as) \in F /\ Uncut(k, U16) =>
       ExprPiece(n, MkbCode(as, k)) \in F
  /\ \A n \in Nat, v \in Code, b \in Code :
       /\ ExprPiece(n, v) \in F /\ ExprPiece(n + 1, b) \in F => ExprPiece(n, LetCode(v, b)) \in F
       /\ ExprPiece(n, v) \in F /\ TailPiece(n + 1, b) \in F => TailPiece(n, TailLet(v, b)) \in F
  /\ \A n \in Nat, b \in Code :
       /\ TailPiece(n + 1, b) \in F => TailPiece(n, TailLam(b)) \in F
       /\ ExprPiece(n, b) \in F => TailPiece(n, b) \in F

\* The least such family: what the generator puts together, and nothing else.
Generated == {p \in Piece : \A F \in SUBSET Piece : HasForms(F) => p \in F}

\* Whole sources made of them.
Emitted == {ExprMain(c) : c \in {d \in Code : ExprPiece(0, d) \in Generated}}
     \cup {DeclMain(x[1], x[2]) : x \in {y \in Int \X Code : ExprPiece(0, y[2]) \in Generated}}

-----------------------------------------------------------------------------
(* Ways through code.                                                      *)

\* w are the shapes at each place of c, and behind its last.
Comes(c, w, i, s) == (i = Len(c) + 1 \/ IsInstr(c, i)) /\ w[i] = s
Way(c, w) ==
  /\ w \in [1..Len(c) + 1 -> Shape] /\ (c # <<>> => IsInstr(c, 1))
  /\ \A i \in DOMAIN c : IsInstr(c, i) =>
       /\ Allows(c[i], w[i])
       /\ c[i].op \notin {"RETURN", "APPTERM"} => Comes(c, w, Behind(c, i), After(c[i], w[i]))
       /\ c[i].op = "CLOSURE" => Comes(c, w, Behind(c, i) + c[i].arg, w[i])

\* From one shape before the code to another behind it.
Leads(c, s, t) == \E w : Way(c, w) /\ w[1] = s /\ w[Len(c) + 1] = t

\* An operand's byte is no instruction.
LEMMA InstrIs ==
  ASSUME NEW op \in Ops, NEW arg \in Int
  PROVE  LET b == OperandBytes(op)
             c == Instr(op, arg)
         IN
         /\ c \in Code /\ b \in Nat /\ Len(c) = 1 + b /\ DOMAIN c = 1..1 + b
         /\ c[1] = [op |-> op, arg |-> arg] /\ IsInstr(c, 1) /\ Behind(c, 1) = 2 + b
         /\ \A i \in DOMAIN c : IsInstr(c, i) => i = 1
<1> DEFINE b == OperandBytes(op)
           c == Instr(op, arg)
<1>1. b \in Nat
  BY WordBytesAssumption DEF OperandBytes
<1>2. c = [i \in 1..1 + b |-> IF i = 1 THEN [op |-> op, arg |-> arg]
                                       ELSE [op |-> "operand", arg |-> 0]]
  BY DEF Instr
<1> HIDE DEF b, c
<1>3. \A i \in 1..1 + b : c[i] \in Cell
  BY <1>2 DEF Cell
<1>4. c \in [1..1 + b -> Cell]
  BY <1>2, <1>3
<1>5. c \in Code /\ Len(c) = 1 + b /\ DOMAIN c = 1..1 + b
  BY <1>1, <1>4 DEF Code
<1>6. c[1] = [op |-> op, arg |-> arg]
  BY <1>1, <1>2
<1>7. \A i \in DOMAIN c : IsInstr(c, i) => i = 1
  BY <1>2, <1>5 DEF IsInstr, Ops
<1>8. IsInstr(c, 1) /\ Behind(c, 1) = 2 + b
  BY <1>1, <1>5, <1>6 DEF IsInstr, Behind, b
<1> QED BY <1>1, <1>5, <1>6, <1>7, <1>8 DEF b, c

\* One instruction leads to the shape behind it; nothing reaches what is behind a call in
\* tail position or a return, whatever shape is taken there.
LEMMA OneLeads ==
  ASSUME NEW op \in Ops \ {"CLOSURE"}, NEW arg \in Int, NEW s \in Shape, NEW t \in Shape,
         Allows([op |-> op, arg |-> arg], s),
         op \notin {"RETURN", "APPTERM"} => t = After([op |-> op, arg |-> arg], s)
  PROVE  Instr(op, arg) \in Code /\ Leads(Instr(op, arg), s, t)
<1>1. PICK c, b : c = Instr(op, arg) /\ b = OperandBytes(op)
  OBVIOUS
<1>2. /\ c \in Code /\ b \in Nat /\ Len(c) = 1 + b /\ DOMAIN c = 1..1 + b
      /\ c[1] = [op |-> op, arg |-> arg] /\ IsInstr(c, 1) /\ Behind(c, 1) = 2 + b
      /\ \A i \in DOMAIN c : IsInstr(c, i) => i = 1
  BY <1>1, InstrIs
<1>3. PICK w : w = [i \in 1..2 + b |-> IF i = 2 + b THEN t ELSE s]
  OBVIOUS
<1>4. w \in [1..Len(c) + 1 -> Shape] /\ w[1] = s /\ w[Len(c) + 1] = t /\ c # <<>>
  BY <1>2, <1>3
<1>5. /\ Allows(c[1], w[1])
      /\ c[1].op \notin {"RETURN", "APPTERM"} => Comes(c, w, Behind(c, 1), After(c[1], w[1]))
      /\ c[1].op # "CLOSURE"
  BY <1>2, <1>4 DEF Comes
<1>6. Way(c, w)
  BY <1>2, <1>4, <1>5 DEF Way
<1> QED BY <1>1, <1>2, <1>4, <1>6 DEF Leads

\* Code behind code.
LEMMA LeadsOn ==
  ASSUME NEW c \in Code, NEW d \in Code, NEW s, NEW t, NEW r, Leads(c, s, t), Leads(d, t, r)
  PROVE  c \o d \in Code /\ Leads(c \o d, s, r)
<1>1. PICK m \in Nat, n \in Nat, e \in Code : m = Len(c) /\ n = Len(d) /\ e = c \o d
  <2>1. c \o d \in Code /\ Len(c) \in Nat /\ Len(d) \in Nat
    BY DEF Code
  <2> QED BY <2>1
<1>2. PICK u : Way(c, u) /\ u[1] = s /\ u[m + 1] = t
  BY <1>1 DEF Leads
<1>3. PICK v : Way(d, v) /\ v[1] = t /\ v[n + 1] = r
  BY <1>1 DEF Leads
<1>4. /\ e \in Code /\ Len(e) = m + n /\ DOMAIN e = 1..m + n
      /\ DOMAIN c = 1..m /\ DOMAIN d = 1..n
      /\ \A i \in 1..m : e[i] = c[i]
      /\ \A i \in 1..n : e[m + i] = d[i]
  BY <1>1 DEF Code
<1>5. u \in [1..m + 1 -> Shape] /\ v \in [1..n + 1 -> Shape]
  BY <1>1, <1>2, <1>3 DEF Way
<1>6. PICK w : w = [i \in 1..m + n + 1 |-> IF i <= m THEN u[i] ELSE v[i - m]]
  OBVIOUS
<1>7. /\ w \in [1..Len(e) + 1 -> Shape] /\ \A i \in 1..n + 1 : w[m + i] = v[i]
  <2>1. \A i \in 1..m + n + 1 : w[i] \in Shape
    <3> SUFFICES ASSUME NEW i \in 1..m + n + 1 PROVE w[i] \in Shape
      OBVIOUS
    <3>1. CASE i <= m
      BY <3>1, <1>1, <1>5, <1>6
    <3>2. CASE ~(i <= m)
      <4>1. i - m \in 1..n + 1
        BY <3>2, <1>1
      <4> QED BY <3>2, <4>1, <1>5, <1>6
    <3> QED BY <3>1, <3>2
  <2>2. ASSUME NEW i \in 1..n + 1 PROVE w[m + i] = v[i]
    <3>1. m + i \in 1..m + n + 1 /\ ~(m + i <= m) /\ (m + i) - m = i
      BY <1>1
    <3> QED BY <3>1, <1>6
  <2>3. Len(e) + 1 = m + n + 1
    BY <1>4
  <2> QED BY <2>1, <2>2, <2>3, <1>6
<1>8. \A i \in 1..m + 1 : w[i] = u[i]
  <2>1. \A i \in 1..m : w[i] = u[i]
    BY <1>1, <1>6
  <2>2. w[m + 1] = u[m + 1]
    BY <1>1, <1>2, <1>3, <1>7
  <2> QED BY <2>1, <2>2, <1>1
<1>9. n > 0 => IsInstr(d, 1)
  BY <1>1, <1>3, <1>4 DEF Way
<1>10. \A i, x : Comes(c, u, i, x) => Comes(e, w, i, x)
  BY <1>1, <1>4, <1>8, <1>9 DEF Comes, IsInstr
<1>11. \A i, x : Comes(d, v, i, x) => Comes(e, w, m + i, x)
  <2> SUFFICES ASSUME NEW i, NEW x, Comes(d, v, i, x) PROVE Comes(e, w, m + i, x)
    OBVIOUS
  <2>1. i \in 1..n + 1 /\ v[i] = x /\ (i # n + 1 => IsInstr(d, i))
    BY <1>1, <1>4 DEF Comes, IsInstr
  <2>2. w[m + i] = x
    BY <2>1, <1>7
  <2>3. CASE i = n + 1
    <3>1. m + i = Len(e) + 1
      BY <2>3, <1>1, <1>4
    <3> QED BY <3>1, <2>2 DEF Comes
  <2>4. CASE i # n + 1
    <3>1. i \in 1..n /\ d[i].op \in Ops
      BY <2>1, <2>4, <1>4 DEF IsInstr
    <3>2. m + i \in DOMAIN e /\ e[m + i].op \in Ops
      BY <3>1, <1>1, <1>4
    <3> QED BY <3>2, <2>2 DEF Comes, IsInstr
  <2> QED BY <2>3, <2>4
<1>12. ASSUME NEW i \in 1..m + n, IsInstr(e, i)
       PROVE  /\ Allows(e[i], w[i])
              /\ e[i].op \notin {"RETURN", "APPTERM"} =>
                   Comes(e, w, Behind(e, i), After(e[i], w[i]))
              /\ e[i].op = "CLOSURE" => Comes(e, w, Behind(e, i) + e[i].arg, w[i])
  <2>1. CASE i \in 1..m
    <3>1. e[i] = c[i] /\ w[i] = u[i] /\ IsInstr(c, i) /\ Behind(e, i) = Behind(c, i)
      BY <2>1, <1>1, <1>4, <1>8, <1>12 DEF IsInstr, Behind
    <3>2. /\ Allows(c[i], u[i])
          /\ c[i].op \notin {"RETURN", "APPTERM"} =>
               Comes(c, u, Behind(c, i), After(c[i], u[i]))
          /\ c[i].op = "CLOSURE" => Comes(c, u, Behind(c, i) + c[i].arg, u[i])
      BY <2>1, <3>1, <1>2, <1>4 DEF Way
    <3> QED BY <3>1, <3>2, <1>10
  <2>2. CASE i \in m + 1..m + n
    <3>1. PICK j \in 1..n : i = m + j
      <4>1. i - m \in 1..n /\ i = m + (i - m)
        BY <2>2, <1>1
      <4> QED BY <4>1
    <3>2. e[i] = d[j] /\ w[i] = v[j] /\ IsInstr(d, j)
      BY <3>1, <1>1, <1>4, <1>7, <1>12 DEF IsInstr
    <3>3. PICK b \in Nat : b = OperandBytes(d[j].op)
      BY OperandBytesType
    <3>4. d[j].arg \in Int
      <4>1. d[j] \in Cell
        BY <1>1 DEF Code
      <4> QED BY <4>1 DEF Cell
    <3>5. /\ Behind(e, i) = m + Behind(d, j)
          /\ Behind(e, i) + d[j].arg = m + (Behind(d, j) + d[j].arg)
      <4>1. Behind(e, i) = m + j + 1 + b /\ Behind(d, j) = j + 1 + b
        BY <3>1, <3>2, <3>3 DEF Behind
      <4>2. \A k \in Int : /\ m + j + 1 + b = m + (j + 1 + b)
                          /\ (m + j + 1 + b) + k = m + ((j + 1 + b) + k)
        BY <1>1
      <4> QED BY <4>1, <4>2, <3>4, Zenon
    <3>6. /\ Allows(d[j], v[j])
          /\ d[j].op \notin {"RETURN", "APPTERM"} =>
               Comes(d, v, Behind(d, j), After(d[j], v[j]))
          /\ d[j].op = "CLOSURE" => Comes(d, v, Behind(d, j) + d[j].arg, v[j])
      BY <3>2, <1>3, <1>4 DEF Way
    <3> QED BY <3>2, <3>5, <3>6, <1>11
  <2> QED BY <2>1, <2>2, <1>1
<1>13. e # <<>> => IsInstr(e, 1)
  <2>1. CASE m > 0
    BY <2>1, <1>1, <1>2, <1>4 DEF Way, IsInstr
  <2>2. CASE m = 0
    BY <2>2, <1>1, <1>4, <1>9 DEF IsInstr
  <2> QED BY <2>1, <2>2, <1>1
<1>14. Way(e, w)
  BY <1>4, <1>7, <1>12, <1>13 DEF Way
<1>15. w[1] = s /\ w[Len(e) + 1] = r
  <2>1. w[1] = s
    BY <1>1, <1>2, <1>8
  <2>2. Len(e) + 1 = m + (n + 1) /\ n + 1 \in 1..n + 1
    BY <1>1, <1>4
  <2>3. w[m + (n + 1)] = v[n + 1]
    BY <2>2, <1>7
  <2> QED BY <2>1, <2>2, <2>3, <1>3
<1> QED BY <1>1, <1>4, <1>14, <1>15 DEF Leads

\* A closure: control goes on behind its body, whose shape is its own.
LEMMA ClosureLeads ==
  ASSUME NEW d \in Code, NEW s \in Shape, Leads(d, Inside(s), s), d # <<>>
  PROVE  /\ Instr("CLOSURE", Len(d)) \o d \in Code
         /\ Leads(Instr("CLOSURE", Len(d)) \o d, s, s)
<1>1. PICK n \in Nat, c \in Code, e \in Code :
        n = Len(d) /\ c = Instr("CLOSURE", n) /\ e = c \o d
  <2>1. Len(d) \in Nat /\ Len(d) \in Int
    BY DEF Code
  <2>2. Instr("CLOSURE", Len(d)) \in Code
    BY <2>1, InstrIs DEF Ops
  <2>3. Instr("CLOSURE", Len(d)) \o d \in Code
    BY <2>2 DEF Code
  <2> QED BY <2>1, <2>2, <2>3
<1>2. /\ Len(c) = 3 /\ DOMAIN c = 1..3 /\ c[1] = [op |-> "CLOSURE", arg |-> n]
      /\ \A i \in DOMAIN c : IsInstr(c, i) => i = 1
  <2>1. OperandBytes("CLOSURE") = 2 /\ "CLOSURE" \in Ops /\ n \in Int
    BY DEF OperandBytes, Ops
  <2>2. /\ Len(c) = 1 + OperandBytes("CLOSURE") /\ DOMAIN c = 1..1 + OperandBytes("CLOSURE")
        /\ c[1] = [op |-> "CLOSURE", arg |-> n]
        /\ \A i \in DOMAIN c : IsInstr(c, i) => i = 1
    BY <2>1, <1>1, InstrIs, Zenon
  <2> QED BY <2>1, <2>2
<1>3. PICK v : Way(d, v) /\ v[1] = Inside(s) /\ v[n + 1] = s
  BY <1>1 DEF Leads
<1>4. /\ Len(e) = n + 3 /\ DOMAIN e = 1..n + 3 /\ DOMAIN d = 1..n /\ n > 0
      /\ \A i \in 1..3 : e[i] = c[i]
      /\ \A i \in 1..n : e[3 + i] = d[i]
  <2>1. PICK m \in Nat : m = Len(c)
    BY <1>2
  <2>2. /\ Len(e) = m + n /\ DOMAIN e = 1..m + n /\ DOMAIN d = 1..n
        /\ \A i \in 1..m : e[i] = c[i]
        /\ \A i \in 1..n : e[m + i] = d[i]
    BY <2>1, <1>1 DEF Code
  <2>3. n # 0
    BY <1>1 DEF Code
  <2>4. m = 3 /\ 3 + n = n + 3
    BY <2>1, <1>1, <1>2
  <2>5. \A i \in 1..3 : e[i] = c[i]
    BY <2>2, <2>4
  <2>6. \A i \in 1..n : e[3 + i] = d[i]
    BY <2>2, <2>4
  <2>7. Len(e) = n + 3 /\ DOMAIN e = 1..n + 3
    BY <2>2, <2>4
  <2> QED BY <2>2, <2>3, <2>5, <2>6, <2>7
<1>5. v \in [1..n + 1 -> Shape] /\ IsInstr(d, 1)
  BY <1>1, <1>3 DEF Way
<1>6. PICK w : w = [i \in 1..n + 4 |-> IF i <= 3 THEN s ELSE v[i - 3]]
  OBVIOUS
<1>7. /\ w \in [1..Len(e) + 1 -> Shape] /\ \A i \in 1..n + 1 : w[3 + i] = v[i]
      /\ \A i \in 1..3 : w[i] = s
  <2>1. \A i \in 1..n + 4 : w[i] \in Shape
    <3> SUFFICES ASSUME NEW i \in 1..n + 4 PROVE w[i] \in Shape
      OBVIOUS
    <3>1. CASE i <= 3
      BY <3>1, <1>6
    <3>2. CASE ~(i <= 3)
      <4>1. i - 3 \in 1..n + 1
        BY <3>2
      <4> QED BY <3>2, <4>1, <1>5, <1>6
    <3> QED BY <3>1, <3>2
  <2>2. ASSUME NEW i \in 1..n + 1 PROVE w[3 + i] = v[i]
    <3>1. 3 + i \in 1..n + 4 /\ ~(3 + i <= 3) /\ (3 + i) - 3 = i
      OBVIOUS
    <3> QED BY <3>1, <1>6
  <2>3. Len(e) + 1 = n + 4
    BY <1>4
  <2>4. \A i \in 1..3 : w[i] = s
    BY <1>6
  <2> QED BY <2>1, <2>2, <2>3, <2>4, <1>6
<1>8. \A i, x : Comes(d, v, i, x) => Comes(e, w, 3 + i, x)
  <2> SUFFICES ASSUME NEW i, NEW x, Comes(d, v, i, x) PROVE Comes(e, w, 3 + i, x)
    OBVIOUS
  <2>1. i \in 1..n + 1 /\ v[i] = x /\ (i # n + 1 => IsInstr(d, i))
    BY <1>1, <1>4 DEF Comes, IsInstr
  <2>2. w[3 + i] = x
    BY <2>1, <1>7
  <2>3. CASE i = n + 1
    <3>1. 3 + i = Len(e) + 1
      BY <2>3, <1>4
    <3> QED BY <3>1, <2>2 DEF Comes
  <2>4. CASE i # n + 1
    <3>1. i \in 1..n /\ d[i].op \in Ops
      BY <2>1, <2>4, <1>4 DEF IsInstr
    <3>2. 3 + i \in DOMAIN e /\ e[3 + i].op \in Ops
      BY <3>1, <1>4
    <3> QED BY <3>2, <2>2 DEF Comes, IsInstr
  <2> QED BY <2>3, <2>4
<1>9. ASSUME NEW i \in 1..n + 3, IsInstr(e, i)
      PROVE  /\ Allows(e[i], w[i])
             /\ e[i].op \notin {"RETURN", "APPTERM"} =>
                  Comes(e, w, Behind(e, i), After(e[i], w[i]))
             /\ e[i].op = "CLOSURE" => Comes(e, w, Behind(e, i) + e[i].arg, w[i])
  <2>1. CASE i \in 1..3
    <3>1. i = 1 /\ e[1] = [op |-> "CLOSURE", arg |-> n] /\ w[1] = s
      BY <2>1, <1>2, <1>4, <1>7, <1>9 DEF IsInstr
    <3>2. Behind(e, 1) = 4 /\ Allows(e[1], s) /\ After(e[1], s) = Inside(s)
      BY <3>1 DEF Behind, OperandBytes, Allows, After
    <3>3. Comes(d, v, 1, Inside(s))
      BY <1>3, <1>5 DEF Comes
    <3>4. Comes(e, w, 4, Inside(s))
      <4>1. Comes(e, w, 3 + 1, Inside(s))
        BY <3>3, <1>8
      <4> QED BY <4>1
    <3>5. Comes(e, w, 4 + n, s)
      <4>1. 4 + n = Len(e) + 1 /\ 4 + n = 3 + (n + 1) /\ n + 1 \in 1..n + 1
        BY <1>4
      <4>2. w[3 + (n + 1)] = s
        BY <4>1, <1>3, <1>7
      <4> QED BY <4>1, <4>2 DEF Comes
    <3> QED BY <3>1, <3>2, <3>4, <3>5
  <2>2. CASE i \in 4..n + 3
    <3>1. PICK j \in 1..n : i = 3 + j
      <4>1. i - 3 \in 1..n /\ i = 3 + (i - 3)
        BY <2>2
      <4> QED BY <4>1
    <3>2. e[i] = d[j] /\ w[i] = v[j] /\ IsInstr(d, j)
      BY <3>1, <1>4, <1>7, <1>9 DEF IsInstr
    <3>3. PICK b \in Nat : b = OperandBytes(d[j].op)
      BY OperandBytesType
    <3>4. d[j].arg \in Int
      <4>1. d[j] \in Cell
        BY <1>1 DEF Code
      <4> QED BY <4>1 DEF Cell
    <3>5. /\ Behind(e, i) = 3 + Behind(d, j)
          /\ Behind(e, i) + d[j].arg = 3 + (Behind(d, j) + d[j].arg)
      <4>1. Behind(e, i) = 3 + j + 1 + b /\ Behind(d, j) = j + 1 + b
        BY <3>1, <3>2, <3>3 DEF Behind
      <4> QED BY <4>1, <3>4
    <3>6. /\ Allows(d[j], v[j])
          /\ d[j].op \notin {"RETURN", "APPTERM"} =>
               Comes(d, v, Behind(d, j), After(d[j], v[j]))
          /\ d[j].op = "CLOSURE" => Comes(d, v, Behind(d, j) + d[j].arg, v[j])
      BY <3>2, <1>3, <1>4 DEF Way
    <3> QED BY <3>2, <3>5, <3>6, <1>8
  <2> QED BY <2>1, <2>2
<1>10. e # <<>> /\ IsInstr(e, 1)
  BY <1>2, <1>4 DEF IsInstr, Ops
<1>11. Way(e, w)
  BY <1>4, <1>7, <1>9, <1>10 DEF Way
<1>12. w[1] = s /\ w[Len(e) + 1] = s
  <2>1. Len(e) + 1 = 3 + (n + 1) /\ n + 1 \in 1..n + 1
    BY <1>4
  <2>2. w[3 + (n + 1)] = v[n + 1]
    BY <2>1, <1>7
  <2> QED BY <2>1, <2>2, <1>3, <1>7
<1> QED BY <1>1, <1>11, <1>12 DEF Leads

\* A RETURN behind code of a source.
LEMMA MainShaped ==
  ASSUME NEW c \in Code, Leads(c, MainEntry, MainEntry)
  PROVE  ExprMain(c) \in Code /\ HasShapes(ExprMain(c))
<1>1. PICK m \in Nat, r \in Code, e \in Code :
        m = Len(c) /\ r = Instr("RETURN", 0) /\ e = ExprMain(c) /\ e = c \o r
  <2>1. Instr("RETURN", 0) \in Code
    <3>1. "RETURN" \in Ops /\ 0 \in Int
      BY DEF Ops
    <3> QED BY <3>1, InstrIs
  <2>2. c \o Instr("RETURN", 0) \in Code /\ Len(c) \in Nat
    BY <2>1 DEF Code
  <2> QED BY <2>1, <2>2 DEF ExprMain
<1>2. Len(r) = 1 /\ DOMAIN r = 1..1 /\ r[1] = [op |-> "RETURN", arg |-> 0]
  <2>1. OperandBytes("RETURN") = 0 /\ "RETURN" \in Ops /\ 0 \in Int
    BY DEF OperandBytes, Ops
  <2>2. /\ Len(r) = 1 + OperandBytes("RETURN") /\ DOMAIN r = 1..1 + OperandBytes("RETURN")
        /\ r[1] = [op |-> "RETURN", arg |-> 0]
    BY <2>1, <1>1, InstrIs, Zenon
  <2> QED BY <2>1, <2>2
<1>3. PICK u : Way(c, u) /\ u[1] = MainEntry /\ u[m + 1] = MainEntry
  BY <1>1 DEF Leads
<1>4. /\ Len(e) = m + 1 /\ DOMAIN e = 1..m + 1 /\ DOMAIN c = 1..m
      /\ \A i \in 1..m : e[i] = c[i]
      /\ e[m + 1] = [op |-> "RETURN", arg |-> 0]
  BY <1>1, <1>2 DEF Code
<1>5. u \in Seq(Shape) /\ Len(u) = m + 1
  <2>1. u \in [1..m + 1 -> Shape]
    BY <1>1, <1>3 DEF Way
  <2> QED BY <2>1
<1>6. IsInstr(e, m + 1)
  BY <1>4 DEF IsInstr, Ops
<1>7. \A i, x : Comes(c, u, i, x) => Reaches(e, u, i, x)
  <2> SUFFICES ASSUME NEW i, NEW x, Comes(c, u, i, x) PROVE Reaches(e, u, i, x)
    OBVIOUS
  <2>1. CASE i = m + 1
    BY <2>1, <1>6 DEF Comes, Reaches
  <2>2. CASE i # m + 1
    <3>1. IsInstr(c, i) /\ u[i] = x
      BY <2>2, <1>1 DEF Comes
    <3>2. IsInstr(e, i)
      BY <3>1, <1>4 DEF IsInstr
    <3> QED BY <3>1, <3>2 DEF Reaches
  <2> QED BY <2>1, <2>2
<1>8. ASSUME NEW i \in DOMAIN e, IsInstr(e, i)
      PROVE  /\ Allows(e[i], u[i])
             /\ e[i].op \notin {"RETURN", "APPTERM"} =>
                  Reaches(e, u, Behind(e, i), After(e[i], u[i]))
             /\ e[i].op = "CLOSURE" => Reaches(e, u, Behind(e, i) + e[i].arg, u[i])
  <2>1. CASE i \in 1..m
    <3>1. e[i] = c[i] /\ IsInstr(c, i) /\ Behind(e, i) = Behind(c, i)
      BY <2>1, <1>4, <1>8 DEF IsInstr, Behind
    <3>2. /\ Allows(c[i], u[i])
          /\ c[i].op \notin {"RETURN", "APPTERM"} =>
               Comes(c, u, Behind(c, i), After(c[i], u[i]))
          /\ c[i].op = "CLOSURE" => Comes(c, u, Behind(c, i) + c[i].arg, u[i])
      BY <2>1, <3>1, <1>3, <1>4 DEF Way
    <3> QED BY <3>1, <3>2, <1>7
  <2>2. CASE i = m + 1
    BY <2>2, <1>3, <1>4 DEF Allows, MainEntry
  <2> QED BY <2>1, <2>2, <1>4
<1>9. Fits(e, u)
  BY <1>4, <1>5, <1>8 DEF Fits
<1>10. IsInstr(e, 1)
  <2>1. CASE m = 0
    BY <2>1, <1>6
  <2>2. CASE m > 0
    <3>1. IsInstr(c, 1)
      BY <2>2, <1>1, <1>3 DEF Way
    <3> QED BY <3>1, <1>4 DEF IsInstr
  <2> QED BY <2>1, <2>2, <1>1
<1> QED BY <1>1, <1>3, <1>9, <1>10 DEF HasShapes, Shaped
-----------------------------------------------------------------------------
(* Shapes behind code.                                                     *)

Marks == {"mark", "value"}
Owns(s, own) == [s EXCEPT !.own = own]
Deeper(s) == [s EXCEPT !.scope = @ + 1]
Values(k) == [i \in 1..k |-> "value"]
Plus(s, k) == Owns(s, s.own \o Values(k))

LEMMA OwnType ==
  ASSUME NEW s \in Shape
  PROVE  /\ s.own \in Seq(Marks) /\ Len(s.own) \in Nat /\ s.scope \in Nat /\ s.main \in BOOLEAN
         /\ Owns(s, s.own) = s
BY DEF Shape, Owns, Marks

LEMMA OwnsIs ==
  ASSUME NEW s \in Shape, NEW own \in Seq(Marks)
  PROVE  /\ Owns(s, own) \in Shape /\ Owns(s, own).own = own
         /\ Owns(s, own).main = s.main /\ Owns(s, own).scope = s.scope
         /\ \A o : Owns(Owns(s, own), o) = Owns(s, o)
BY DEF Shape, Owns, Marks

LEMMA DeeperIs ==
  ASSUME NEW s \in Shape
  PROVE  /\ Deeper(s) \in Shape /\ Deeper(s).own = s.own
         /\ Deeper(s).main = s.main /\ Deeper(s).scope = s.scope + 1
         /\ [Deeper(s) EXCEPT !.scope = @ - 1] = s
<1>1. PICK m \in BOOLEAN, o \in Seq({"mark", "value"}), n \in Nat :
        s = [main |-> m, own |-> o, scope |-> n]
  BY DEF Shape
<1>2. Deeper(s) = [main |-> m, own |-> o, scope |-> n + 1]
  BY <1>1 DEF Deeper
<1>3. [Deeper(s) EXCEPT !.scope = @ - 1] = [main |-> m, own |-> o, scope |-> n]
  <2>1. (n + 1) - 1 = n
    OBVIOUS
  <2> QED BY <2>1, <1>2
<1> QED BY <1>1, <1>2, <1>3 DEF Shape

LEMMA ValuesType ==
  ASSUME NEW k \in Nat
  PROVE  /\ Values(k) \in Seq(Marks) /\ Len(Values(k)) = k
         /\ \A i \in 1..k : Values(k)[i] = "value"
<1>1. Values(k) \in [1..k -> Marks]
  BY DEF Values, Marks
<1>2. \A i \in 1..k : Values(k)[i] = "value"
  BY DEF Values
<1> QED BY <1>1, <1>2

LEMMA OwnOn ==
  ASSUME NEW a \in Seq(Marks), NEW b \in Seq(Marks)
  PROVE  /\ a \o b \in Seq(Marks) /\ Len(a \o b) = Len(a) + Len(b)
         /\ \A i \in 1..Len(a) : (a \o b)[i] = a[i]
         /\ \A i \in 1..Len(b) : (a \o b)[Len(a) + i] = b[i]
OBVIOUS

LEMMA PlusIs ==
  ASSUME NEW s \in Shape, NEW k \in Nat
  PROVE  /\ Plus(s, k) \in Shape
         /\ Plus(s, k).main = s.main /\ Plus(s, k).scope = s.scope
         /\ Plus(s, k).own \in Seq(Marks)
         /\ Len(Plus(s, k).own) = Len(s.own) + k
         /\ \A i \in 1..Len(s.own) : Plus(s, k).own[i] = s.own[i]
         /\ AllValues(Plus(s, k).own, Len(s.own))
         /\ SubSeq(Plus(s, k).own, 1, Len(s.own)) = s.own
         /\ \A o : Owns(Plus(s, k), o) = Owns(s, o)
<1> DEFINE own == s.own \o Values(k)
<1>3. /\ own \in Seq(Marks) /\ Len(own) = Len(s.own) + k /\ Len(s.own) \in Nat
      /\ \A i \in 1..Len(s.own) : own[i] = s.own[i]
      /\ \A i \in 1..k : own[Len(s.own) + i] = "value"
  <2>1. s.own \in Seq(Marks) /\ Values(k) \in Seq(Marks) /\ Len(Values(k)) = k
    BY OwnType, ValuesType
  <2>2. /\ own \in Seq(Marks) /\ Len(own) = Len(s.own) + k /\ Len(s.own) \in Nat
        /\ \A i \in 1..Len(s.own) : own[i] = s.own[i]
        /\ \A i \in 1..k : own[Len(s.own) + i] = Values(k)[i]
    BY <2>1
  <2> QED BY <2>2, ValuesType
<1>4. Plus(s, k) = Owns(s, own)
  BY DEF Plus
<1> HIDE DEF own
<1>5. /\ Plus(s, k) \in Shape /\ Plus(s, k).own = own
      /\ Plus(s, k).main = s.main /\ Plus(s, k).scope = s.scope
      /\ \A o : Owns(Plus(s, k), o) = Owns(s, o)
  BY <1>3, <1>4, OwnsIs
<1>6. AllValues(own, Len(s.own))
  <2>1. ASSUME NEW i \in Len(s.own) + 1..Len(own) PROVE own[i] = "value"
    <3>1. i - Len(s.own) \in 1..k /\ Len(s.own) + (i - Len(s.own)) = i
      BY <1>3
    <3> QED BY <3>1, <1>3
  <2> QED BY <2>1 DEF AllValues
<1>7. SubSeq(own, 1, Len(s.own)) = s.own
  <2>1. /\ Len(SubSeq(own, 1, Len(s.own))) = Len(s.own)
        /\ SubSeq(own, 1, Len(s.own)) \in Seq(Marks)
        /\ \A i \in 1..Len(s.own) : SubSeq(own, 1, Len(s.own))[i] = own[i]
    BY <1>3
  <2>2. \A i \in 1..Len(s.own) : SubSeq(own, 1, Len(s.own))[i] = s.own[i]
    BY <2>1, <1>3
  <2> QED BY <2>1, <2>2, OwnType, SeqEqual
<1> QED BY <1>3, <1>5, <1>6, <1>7

LEMMA PlusNone ==
  ASSUME NEW s \in Shape
  PROVE  Plus(s, 0) = s
<1>1. s.own \in Seq(Marks) /\ Values(0) = <<>>
  <2>1. Len(Values(0)) = 0 /\ Values(0) \in Seq(Marks)
    BY ValuesType
  <2> QED BY <2>1, OwnType, EmptySeq
<1>2. s.own \o Values(0) = s.own
  BY <1>1
<1> QED BY <1>2, OwnType DEF Plus

LEMMA PlusMore ==
  ASSUME NEW s \in Shape, NEW k \in Nat
  PROVE  /\ Owns(s, Append(s.own, "value")) \in Shape
         /\ Plus(Owns(s, Append(s.own, "value")), k) = Plus(s, k + 1)
<1>1. PICK own \in Seq(Marks), vals \in Seq(Marks), more \in Seq(Marks), one \in Seq(Marks) :
        /\ own = s.own /\ vals = Values(k) /\ more = Values(k + 1) /\ one = Append(own, "value")
  <2>1. s.own \in Seq(Marks) /\ Values(k) \in Seq(Marks) /\ Values(k + 1) \in Seq(Marks)
    BY OwnType, ValuesType
  <2>2. Append(s.own, "value") \in Seq(Marks)
    BY <2>1 DEF Marks
  <2> QED BY <2>1, <2>2
<1>2. /\ Len(vals) = k /\ \A i \in 1..k : vals[i] = "value"
      /\ Len(more) = k + 1 /\ \A i \in 1..k + 1 : more[i] = "value"
  BY <1>1, ValuesType
<1>3. PICK n \in Nat : n = Len(own)
  OBVIOUS
<1>4. /\ Len(one) = n + 1 /\ one[n + 1] = "value" /\ \A i \in 1..n : one[i] = own[i]
  BY <1>1, <1>3
<1>5. /\ one \o vals \in Seq(Marks) /\ Len(one \o vals) = (n + 1) + k
      /\ \A i \in 1..n + 1 : (one \o vals)[i] = one[i]
      /\ \A i \in 1..k : (one \o vals)[(n + 1) + i] = vals[i]
  <2>1. Len(one) = n + 1 /\ Len(vals) = k
    BY <1>2, <1>4
  <2>2. /\ one \o vals \in Seq(Marks) /\ Len(one \o vals) = Len(one) + Len(vals)
        /\ \A i \in 1..Len(one) : (one \o vals)[i] = one[i]
        /\ \A i \in 1..Len(vals) : (one \o vals)[Len(one) + i] = vals[i]
    BY OwnOn, Zenon
  <2> QED BY <2>1, <2>2, Zenon
<1>6. /\ own \o more \in Seq(Marks) /\ Len(own \o more) = n + (k + 1)
      /\ \A i \in 1..n : (own \o more)[i] = own[i]
      /\ \A i \in 1..k + 1 : (own \o more)[n + i] = more[i]
  <2>1. Len(own) = n /\ Len(more) = k + 1
    BY <1>2, <1>3
  <2>2. /\ own \o more \in Seq(Marks) /\ Len(own \o more) = Len(own) + Len(more)
        /\ \A i \in 1..Len(own) : (own \o more)[i] = own[i]
        /\ \A i \in 1..Len(more) : (own \o more)[Len(own) + i] = more[i]
    BY OwnOn, Zenon
  <2> QED BY <2>1, <2>2, Zenon
<1>7. ASSUME NEW i \in 1..n + 1 + k PROVE (one \o vals)[i] = (own \o more)[i]
  <2>1. CASE i <= n
    BY <2>1, <1>4, <1>5, <1>6
  <2>2. CASE i > n
    <3>1. PICK j \in 1..k + 1 : i = n + j
      <4>1. i - n \in 1..k + 1 /\ n + (i - n) = i
        BY <2>2
      <4> QED BY <4>1
    <3>2. (own \o more)[i] = "value"
      BY <3>1, <1>2, <1>6
    <3>3. CASE j = 1
      BY <3>1, <3>2, <3>3, <1>4, <1>5
    <3>4. CASE j > 1
      <4>1. j - 1 \in 1..k /\ (n + 1) + (j - 1) = i
        BY <3>1, <3>4
      <4>2. (one \o vals)[i] = vals[j - 1]
        BY <4>1, <1>5
      <4> QED BY <4>1, <4>2, <3>2, <1>2
    <3>5. j = 1 \/ j > 1
      OBVIOUS
    <3> QED BY <3>3, <3>4, <3>5, Zenon
  <2>3. i <= n \/ i > n
    OBVIOUS
  <2> QED BY <2>1, <2>2, <2>3, Zenon
<1>8. one \o vals = own \o more
  <2>1. Len(one \o vals) = n + 1 + k /\ Len(own \o more) = n + 1 + k
    BY <1>5, <1>6
  <2> QED BY <2>1, <1>5, <1>6, <1>7, SeqEqual
<1>9. Owns(s, one) \in Shape /\ Owns(s, one).own = one
      /\ \A o : Owns(Owns(s, one), o) = Owns(s, o)
  BY <1>1, OwnsIs
<1> QED BY <1>1, <1>8, <1>9 DEF Plus
-----------------------------------------------------------------------------
(* What each instruction leads to.                                         *)

LEMMA StaysLeads ==
  ASSUME NEW s \in Shape, NEW v \in Int, NEW op \in {"INT64", "GETGLOBAL", "SETGLOBAL"}
  PROVE  Instr(op, v) \in Code /\ Leads(Instr(op, v), s, s)
<1>1. Allows([op |-> op, arg |-> v], s) /\ After([op |-> op, arg |-> v], s) = s
  BY DEF Allows, After
<1>2. op \in Ops \ {"CLOSURE"}
  BY DEF Ops
<1> QED BY <1>1, <1>2, OneLeads

LEMMA AccessLeads ==
  ASSUME NEW s \in Shape, NEW i \in Nat, i < s.scope
  PROVE  Instr("ACCESS", i) \in Code /\ Leads(Instr("ACCESS", i), s, s)
<1>1. i \in 0..s.scope - 1 /\ i \in Int
  BY OwnType
<1>2. /\ Allows([op |-> "ACCESS", arg |-> i], s) /\ After([op |-> "ACCESS", arg |-> i], s) = s
  BY <1>1 DEF Allows, After
<1>3. "ACCESS" \in Ops \ {"CLOSURE"}
  BY DEF Ops
<1> QED BY <1>1, <1>2, <1>3, OneLeads

LEMMA PushLeads ==
  ASSUME NEW s \in Shape
  PROVE  /\ Instr("PUSH", 0) \in Code
         /\ Leads(Instr("PUSH", 0), s, Owns(s, Append(s.own, "value")))
<1>1. Allows([op |-> "PUSH", arg |-> 0], s)
  BY DEF Allows
<1>2. After([op |-> "PUSH", arg |-> 0], s) = Owns(s, Append(s.own, "value"))
  BY DEF After, Owns
<1>3. "PUSH" \in Ops \ {"CLOSURE"} /\ 0 \in Int
  BY DEF Ops
<1>4. Owns(s, Append(s.own, "value")) \in Shape
  <2>1. Append(s.own, "value") \in Seq(Marks)
    BY OwnType DEF Marks
  <2> QED BY <2>1, OwnsIs
<1> QED BY <1>1, <1>2, <1>3, <1>4, OneLeads

LEMMA PushMarkLeads ==
  ASSUME NEW s \in Shape
  PROVE  /\ Instr("PUSHMARK", 0) \in Code /\ Append(s.own, "mark") \in Seq(Marks)
         /\ Leads(Instr("PUSHMARK", 0), s, Owns(s, Append(s.own, "mark")))
<1>1. Allows([op |-> "PUSHMARK", arg |-> 0], s)
  BY DEF Allows
<1>2. After([op |-> "PUSHMARK", arg |-> 0], s) = Owns(s, Append(s.own, "mark"))
  BY DEF After, Owns
<1>3. "PUSHMARK" \in Ops \ {"CLOSURE"} /\ 0 \in Int
  BY DEF Ops
<1>4. Append(s.own, "mark") \in Seq(Marks)
  BY OwnType DEF Marks
<1>5. Owns(s, Append(s.own, "mark")) \in Shape
  BY <1>4, OwnsIs
<1> QED BY <1>1, <1>2, <1>3, <1>4, <1>5, OneLeads

LEMMA LetLeads ==
  ASSUME NEW s \in Shape
  PROVE  /\ Instr("LET", 0) \in Code /\ Leads(Instr("LET", 0), s, Deeper(s))
         /\ Instr("ENDLET", 0) \in Code /\ Leads(Instr("ENDLET", 0), Deeper(s), s)
<1>1. "LET" \in Ops \ {"CLOSURE"} /\ "ENDLET" \in Ops \ {"CLOSURE"} /\ 0 \in Int
  BY DEF Ops
<1>2. Allows([op |-> "LET", arg |-> 0], s) /\ After([op |-> "LET", arg |-> 0], s) = Deeper(s)
  BY DEF Allows, After, Deeper
<1>3. /\ Allows([op |-> "ENDLET", arg |-> 0], Deeper(s))
      /\ After([op |-> "ENDLET", arg |-> 0], Deeper(s)) = s
  <2>1. Deeper(s).scope > 0
    BY DeeperIs, OwnType
  <2>2. After([op |-> "ENDLET", arg |-> 0], Deeper(s)) = [Deeper(s) EXCEPT !.scope = @ - 1]
    BY DEF After
  <2>3. Allows([op |-> "ENDLET", arg |-> 0], Deeper(s))
    BY <2>1 DEF Allows
  <2> QED BY <2>2, <2>3, DeeperIs
<1>4. Deeper(s) \in Shape
  BY DeeperIs
<1>5. Instr("LET", 0) \in Code /\ Leads(Instr("LET", 0), s, Deeper(s))
  BY <1>1, <1>2, <1>4, OneLeads
<1>6. Instr("ENDLET", 0) \in Code /\ Leads(Instr("ENDLET", 0), Deeper(s), s)
  BY <1>1, <1>3, <1>4, OneLeads
<1> QED BY <1>5, <1>6

LEMMA GrabLeads ==
  ASSUME NEW s \in Shape, ~s.main, s.own = <<>>
  PROVE  Instr("GRAB", 0) \in Code /\ Leads(Instr("GRAB", 0), s, Deeper(s))
<1>1. "GRAB" \in Ops \ {"CLOSURE"} /\ 0 \in Int
  BY DEF Ops
<1>2. Allows([op |-> "GRAB", arg |-> 0], s) /\ After([op |-> "GRAB", arg |-> 0], s) = Deeper(s)
  BY DEF Allows, After, Deeper
<1>3. Deeper(s) \in Shape
  BY DeeperIs
<1> QED BY <1>1, <1>2, <1>3, OneLeads

LEMMA MkbLeads ==
  ASSUME NEW s \in Shape, NEW k \in Nat
  PROVE  Instr("MKB", k) \in Code /\ Leads(Instr("MKB", k), Plus(s, k), s)
<1>1. "MKB" \in Ops \ {"CLOSURE"} /\ k \in Int
  BY DEF Ops
<1>2. PICK p \in Shape : p = Plus(s, k)
  BY PlusIs
<1>3. /\ Len(s.own) \in Nat /\ Len(p.own) = Len(s.own) + k /\ AllValues(p.own, Len(s.own))
      /\ SubSeq(p.own, 1, Len(s.own)) = s.own /\ Owns(p, s.own) = s
  BY <1>2, PlusIs, OwnType
<1>4. k \in 0..Len(p.own) /\ Len(p.own) - k = Len(s.own)
  BY <1>3
<1>5. Allows([op |-> "MKB", arg |-> k], p)
  BY <1>3, <1>4 DEF Allows
<1>6. After([op |-> "MKB", arg |-> k], p) = Owns(p, s.own)
  BY <1>3, <1>4 DEF After, Owns, Lower
<1> QED BY <1>1, <1>2, <1>3, <1>5, <1>6, OneLeads

\* The mark was pushed before the arguments.
LEMMA ApplyLeads ==
  ASSUME NEW s \in Shape, NEW k \in Nat \ {0}
  PROVE  /\ Instr("APPLY", 0) \in Code
         /\ Leads(Instr("APPLY", 0), Plus(Owns(s, Append(s.own, "mark")), k), s)
<1>1. "APPLY" \in Ops \ {"CLOSURE"} /\ 0 \in Int
  BY DEF Ops
<1>2. PICK o \in Seq(Marks), m \in Shape, p \in Shape :
        o = Append(s.own, "mark") /\ m = Owns(s, o) /\ p = Plus(m, k)
  <2>1. Append(s.own, "mark") \in Seq(Marks)
    BY PushMarkLeads
  <2>2. Owns(s, Append(s.own, "mark")) \in Shape
    BY <2>1, OwnsIs
  <2>3. Plus(Owns(s, Append(s.own, "mark")), k) \in Shape
    BY <2>2, PlusIs
  <2> QED BY <2>1, <2>2, <2>3
<1>3. m.own = o /\ \A x : Owns(m, x) = Owns(s, x)
  <2>1. Owns(s, o).own = o /\ \A x : Owns(Owns(s, o), x) = Owns(s, x)
    BY OwnsIs, Zenon
  <2> QED BY <2>1, <1>2
<1>4. /\ p.own \in Seq(Marks) /\ Len(p.own) = Len(o) + k
      /\ \A i \in 1..Len(o) : p.own[i] = o[i]
      /\ AllValues(p.own, Len(o)) /\ \A x : Owns(p, x) = Owns(s, x)
  <2>1. k \in Nat
    OBVIOUS
  <2>2. /\ p.own \in Seq(Marks) /\ Len(p.own) = Len(m.own) + k
        /\ \A i \in 1..Len(m.own) : p.own[i] = m.own[i]
        /\ AllValues(p.own, Len(m.own)) /\ \A x : Owns(p, x) = Owns(m, x)
    <3>1. LET q == Plus(m, k)
          IN  /\ q.own \in Seq(Marks) /\ Len(q.own) = Len(m.own) + k
              /\ \A i \in 1..Len(m.own) : q.own[i] = m.own[i]
              /\ AllValues(q.own, Len(m.own)) /\ \A x : Owns(q, x) = Owns(m, x)
      BY <2>1, PlusIs, Zenon
    <3> QED BY <3>1, <1>2
  <2> QED BY <2>2, <1>3
<1>5. PICK n \in Nat : n = Len(s.own)
  BY OwnType
<1>6. /\ s.own \in Seq(Marks) /\ Len(o) = n + 1 /\ o[n + 1] = "mark"
      /\ \A i \in 1..n : o[i] = s.own[i]
  BY <1>2, <1>5, OwnType
<1>7. PICK j \in 1..Len(p.own) - 1 : j = n + 1
  <2>1. n + 1 \in 1..Len(p.own) - 1
    BY <1>4, <1>6
  <2> QED BY <2>1
<1>8. p.own[j] = "mark" /\ AllValues(p.own, j)
  BY <1>4, <1>6, <1>7
<1>9. Allows([op |-> "APPLY", arg |-> 0], p)
  BY <1>8 DEF Allows
<1>10. LastMark(p.own) = j
  BY <1>4, <1>8, LastMarkIs DEF Marks
<1>11. SubSeq(p.own, 1, j - 1) = s.own
  <2>1. j - 1 = n
    BY <1>7
  <2>2. /\ Len(SubSeq(p.own, 1, n)) = n /\ SubSeq(p.own, 1, n) \in Seq(Marks)
        /\ \A i \in 1..n : SubSeq(p.own, 1, n)[i] = p.own[i]
    BY <1>4, <1>6
  <2>3. \A i \in 1..n : SubSeq(p.own, 1, n)[i] = s.own[i]
    BY <2>2, <1>4, <1>6
  <2> QED BY <2>1, <2>2, <2>3, <1>5, <1>6, SeqEqual
<1>12. After([op |-> "APPLY", arg |-> 0], p) = s
  <2>1. After([op |-> "APPLY", arg |-> 0], p) = Owns(p, SubSeq(p.own, 1, LastMark(p.own) - 1))
    BY DEF After, Owns
  <2> QED BY <2>1, <1>4, <1>10, <1>11, OwnType
<1> QED BY <1>1, <1>2, <1>9, <1>12, OneLeads

LEMMA AppTermLeads ==
  ASSUME NEW s \in Shape, ~s.main, s.own = <<>>, NEW k \in Nat \ {0}
  PROVE  Instr("APPTERM", 0) \in Code /\ Leads(Instr("APPTERM", 0), Plus(s, k), s)
<1>1. "APPTERM" \in Ops \ {"CLOSURE"} /\ 0 \in Int
  BY DEF Ops
<1>2. PICK p \in Shape : p = Plus(s, k)
  BY PlusIs
<1>3. p.own \in Seq(Marks) /\ Len(p.own) = k /\ AllValues(p.own, 0) /\ ~p.main
  BY <1>2, PlusIs
<1>4. p.own # <<>>
  BY <1>3
<1>5. Allows([op |-> "APPTERM", arg |-> 0], p)
  BY <1>3, <1>4 DEF Allows
<1> QED BY <1>1, <1>2, <1>5, OneLeads

LEMMA ReturnLeads ==
  ASSUME NEW s \in Shape, ~s.main, s.own = <<>>, NEW t \in Shape
  PROVE  Instr("RETURN", 0) \in Code /\ Leads(Instr("RETURN", 0), s, t)
<1>1. "RETURN" \in Ops \ {"CLOSURE"} /\ 0 \in Int
  BY DEF Ops
<1>2. Allows([op |-> "RETURN", arg |-> 0], s)
  BY DEF Allows
<1> QED BY <1>1, <1>2, OneLeads
-----------------------------------------------------------------------------
(* Each form does its part of the work, if its parts do theirs.            *)

\* An expression leaves the shape as it was; arguments are on the stack; code in tail
\* position leaves a lambda with nothing of its own.
WorksExpr(n, c) == \A s \in Shape : s.scope = n => Leads(c, s, s)
WorksPush(n, k, c) == \A s \in Shape : s.scope = n => Leads(c, s, Plus(s, k))
Bare(s) == ~s.main /\ s.own = <<>>
WorksTail(n, c) ==
  \A s \in Shape : s.scope = n /\ Bare(s) => \E t \in Shape : Bare(t) /\ Leads(c, s, t)

LEMMA CodeOn ==
  ASSUME NEW a \in Code, NEW b \in Code
  PROVE  a \o b \in Code /\ Len(a) \in Nat /\ Len(a \o b) = Len(a) + Len(b)
BY DEF Code

LEMMA LeafWorks ==
  ASSUME NEW n \in Nat, NEW v \in Int
  PROVE  /\ IntCode(v) \in Code /\ WorksExpr(n, IntCode(v))
         /\ GVarCode(v) \in Code /\ WorksExpr(n, GVarCode(v))
<1>1. Instr("INT64", v) \in Code /\ Instr("GETGLOBAL", v) \in Code
  <2>1. MainEntry \in Shape
    BY DEF MainEntry, Shape
  <2> QED BY <2>1, StaysLeads
<1>2. WorksExpr(n, Instr("INT64", v)) /\ WorksExpr(n, Instr("GETGLOBAL", v))
  BY StaysLeads DEF WorksExpr
<1> QED BY <1>1, <1>2 DEF IntCode, GVarCode

LEMMA VarWorks ==
  ASSUME NEW n \in Nat, NEW i \in Nat, i < n, Uncut(i, U8)
  PROVE  VarCode(i) \in Code /\ WorksExpr(n, VarCode(i))
<1>1. VarCode(i) = Instr("ACCESS", i)
  BY DEF VarCode, Uncut
<1>2. "ACCESS" \in Ops /\ i \in Int
  BY DEF Ops
<1>3. Instr("ACCESS", i) \in Code
  BY <1>2, InstrIs
<1>4. WorksExpr(n, Instr("ACCESS", i))
  BY AccessLeads DEF WorksExpr
<1> QED BY <1>1, <1>3, <1>4

LEMMA LamWorks ==
  ASSUME NEW n \in Nat, NEW b \in Code, WorksTail(n + 1, b), Uncut(Len(b) + 1, U16)
  PROVE  LamCode(b) \in Code /\ WorksExpr(n, LamCode(b))
<1>1. "RETURN" \in Ops /\ "CLOSURE" \in Ops /\ 0 \in Int
  BY DEF Ops
<1>2. PICK r \in Code, whole \in Code : r = Instr("RETURN", 0) /\ whole = b \o r
  <2>1. Instr("RETURN", 0) \in Code
    BY <1>1, InstrIs
  <2>2. b \o Instr("RETURN", 0) \in Code
    BY <2>1 DEF Code
  <2> QED BY <2>1, <2>2
<1>3. Len(whole) = Len(b) + 1 /\ whole # <<>> /\ Len(whole) \in Int
  <2>1. Len(Instr("RETURN", 0)) = 1 + OperandBytes("RETURN") /\ OperandBytes("RETURN") = 0
    <3>1. Len(Instr("RETURN", 0)) = 1 + OperandBytes("RETURN")
      BY <1>1, InstrIs, Zenon
    <3> QED BY <3>1 DEF OperandBytes
  <2>2. Len(r) = 1 /\ Len(b) \in Nat
    <3>1. Len(r) = 1 + 0
      BY <2>1, <1>2, Zenon
    <3> QED BY <3>1, CodeOn
  <2>3. Len(whole) = Len(b) + 1
    BY <2>2, <1>2, CodeOn
  <2> QED BY <2>2, <2>3
<1>4. LamCode(b) = Instr("CLOSURE", Len(whole)) \o whole
  <2>1. LamCode(b) = Instr("CLOSURE", Len(whole) % U16) \o whole
    BY <1>2 DEF LamCode
  <2>2. Len(whole) % U16 = Len(whole)
    BY <1>3 DEF Uncut
  <2> QED BY <2>1, <2>2
<1>5. LamCode(b) \in Code
  <2>1. Instr("CLOSURE", Len(whole)) \in Code
    BY <1>1, <1>3, InstrIs
  <2> QED BY <2>1, <1>4 DEF Code
<1>6. ASSUME NEW s \in Shape, s.scope = n PROVE Leads(LamCode(b), s, s)
  <2>1. PICK in \in Shape : in = Inside(s)
    <3>1. Inside(s) \in Shape
      BY OwnType, EmptySeq DEF Inside, Shape
    <3> QED BY <3>1
  <2>2. in.scope = n + 1 /\ Bare(in)
    BY <2>1, <1>6 DEF Inside, Bare
  <2>3. PICK t \in Shape : Bare(t) /\ Leads(b, in, t)
    BY <2>2 DEF WorksTail
  <2>4. Leads(r, t, s)
    BY <2>3, <1>2, ReturnLeads DEF Bare
  <2>5. Leads(whole, Inside(s), s)
    BY <2>1, <2>3, <2>4, <1>2, LeadsOn
  <2> QED BY <2>5, <1>3, <1>4, ClosureLeads
<1> QED BY <1>5, <1>6 DEF WorksExpr

LEMMA NoneWorks ==
  ASSUME NEW n \in Nat
  PROVE  <<>> \in Code /\ WorksPush(n, 0, <<>>)
<1>1. <<>> \in Code /\ Len(<<>>) = 0
  BY DEF Code
<1>2. ASSUME NEW s \in Shape PROVE Leads(<<>>, s, s)
  <2>1. PICK w : w = [i \in 1..1 |-> s]
    OBVIOUS
  <2>2. w \in [1..Len(<<>>) + 1 -> Shape] /\ w[1] = s /\ w[Len(<<>>) + 1] = s
    BY <2>1, <1>1
  <2>3. Way(<<>>, w)
    BY <2>2 DEF Way
  <2> QED BY <2>2, <2>3 DEF Leads
<1>3. WorksPush(n, 0, <<>>)
  BY <1>2, PlusNone DEF WorksPush
<1> QED BY <1>1, <1>3

LEMMA PushedWorks ==
  ASSUME NEW n \in Nat, NEW k \in Nat, NEW a \in Code, NEW as \in Code,
         WorksExpr(n, a), WorksPush(n, k, as)
  PROVE  PushedBefore(a, as) \in Code /\ WorksPush(n, k + 1, PushedBefore(a, as))
<1>1. PICK p \in Code : p = Instr("PUSH", 0)
  <2>1. "PUSH" \in Ops /\ 0 \in Int
    BY DEF Ops
  <2>2. Instr("PUSH", 0) \in Code
    BY <2>1, InstrIs
  <2> QED BY <2>2
<1>2. a \o p \in Code /\ (a \o p) \o as \in Code /\ PushedBefore(a, as) = (a \o p) \o as
  <2>1. a \o p \in Code
    BY CodeOn
  <2>2. (a \o p) \o as \in Code
    BY <2>1, CodeOn
  <2> QED BY <2>1, <2>2, <1>1 DEF PushedBefore
<1>3. ASSUME NEW s \in Shape, s.scope = n PROVE Leads((a \o p) \o as, s, Plus(s, k + 1))
  <2>1. PICK o \in Seq(Marks) : o = Append(s.own, "value")
    <3>1. Append(s.own, "value") \in Seq(Marks)
      BY OwnType DEF Marks
    <3> QED BY <3>1
  <2>2. PICK m \in Shape : m = Owns(s, o) /\ m.scope = n
    BY <1>3, OwnsIs
  <2>3. Leads(a, s, s)
    BY <1>3 DEF WorksExpr
  <2>4. Leads(p, s, m)
    BY <1>1, <2>1, <2>2, PushLeads
  <2>5. Leads(as, m, Plus(m, k))
    BY <2>2 DEF WorksPush
  <2>6. Plus(m, k) = Plus(s, k + 1)
    BY <2>1, <2>2, PlusMore
  <2>7. Leads(a \o p, s, m)
    BY <2>3, <2>4, LeadsOn
  <2>8. Leads((a \o p) \o as, s, Plus(m, k))
    BY <2>5, <2>7, <1>2, LeadsOn
  <2> QED BY <2>6, <2>8
<1> QED BY <1>2, <1>3 DEF WorksPush

LEMMA AppWorks ==
  ASSUME NEW n \in Nat, NEW k \in Nat \ {0}, NEW as \in Code, NEW f \in Code,
         WorksPush(n, k, as), WorksExpr(n, f)
  PROVE  /\ AppCode(as, f) \in Code /\ WorksExpr(n, AppCode(as, f))
         /\ TailApp(as, f) \in Code /\ WorksTail(n, TailApp(as, f))
<1>0. k \in Nat
  OBVIOUS
<1>1. PICK p \in Code, a \in Code, t \in Code :
        p = Instr("PUSHMARK", 0) /\ a = Instr("APPLY", 0) /\ t = Instr("APPTERM", 0)
  <2>1. "PUSHMARK" \in Ops /\ "APPLY" \in Ops /\ "APPTERM" \in Ops /\ 0 \in Int
    BY DEF Ops
  <2>2. Instr("PUSHMARK", 0) \in Code /\ Instr("APPLY", 0) \in Code /\ Instr("APPTERM", 0) \in Code
    BY <2>1, InstrIs
  <2> QED BY <2>2
<1>2. /\ p \o as \in Code /\ (p \o as) \o f \in Code /\ ((p \o as) \o f) \o a \in Code
      /\ as \o f \in Code /\ (as \o f) \o t \in Code
  <2>1. p \o as \in Code /\ as \o f \in Code
    BY CodeOn
  <2>2. (p \o as) \o f \in Code /\ (as \o f) \o t \in Code
    BY <2>1, CodeOn
  <2>3. ((p \o as) \o f) \o a \in Code
    BY <2>2, CodeOn
  <2> QED BY <2>1, <2>2, <2>3
<1>3. AppCode(as, f) = ((p \o as) \o f) \o a /\ TailApp(as, f) = (as \o f) \o t
  BY <1>1 DEF AppCode, TailApp
<1>4. ASSUME NEW s \in Shape, s.scope = n PROVE Leads(((p \o as) \o f) \o a, s, s)
  <2>1. PICK o \in Seq(Marks) : o = Append(s.own, "mark")
    BY PushMarkLeads
  <2>2. PICK m \in Shape : m = Owns(s, o) /\ m.scope = n
    BY <1>4, OwnsIs
  <2>3. PICK q \in Shape : q = Plus(m, k) /\ q.scope = n
    BY <1>0, <2>2, PlusIs
  <2>4. Leads(p, s, m)
    BY <1>1, <2>1, <2>2, PushMarkLeads
  <2>5. Leads(as, m, q)
    BY <2>2, <2>3 DEF WorksPush
  <2>6. Leads(f, q, q)
    BY <2>3 DEF WorksExpr
  <2>7. Leads(a, q, s)
    BY <1>1, <2>1, <2>2, <2>3, ApplyLeads
  <2>8. Leads(p \o as, s, q)
    BY <2>4, <2>5, LeadsOn
  <2>9. Leads((p \o as) \o f, s, q)
    BY <2>6, <2>8, <1>2, LeadsOn
  <2> QED BY <2>7, <2>9, <1>2, LeadsOn
<1>5. ASSUME NEW s \in Shape, s.scope = n, Bare(s) PROVE Leads((as \o f) \o t, s, s)
  <2>1. PICK q \in Shape : q = Plus(s, k) /\ q.scope = n
    BY <1>0, <1>5, PlusIs
  <2>2. Leads(as, s, q)
    BY <1>5, <2>1 DEF WorksPush
  <2>3. Leads(f, q, q)
    BY <2>1 DEF WorksExpr
  <2>4. Leads(t, q, s)
    BY <1>1, <1>5, <2>1, AppTermLeads DEF Bare
  <2>5. Leads(as \o f, s, q)
    BY <2>2, <2>3, LeadsOn
  <2> QED BY <2>4, <2>5, <1>2, LeadsOn
<1>6. WorksExpr(n, AppCode(as, f))
  BY <1>3, <1>4 DEF WorksExpr
<1>7. WorksTail(n, TailApp(as, f))
  BY <1>3, <1>5 DEF WorksTail
<1> QED BY <1>2, <1>3, <1>6, <1>7

LEMMA MkbWorks ==
  ASSUME NEW n \in Nat, NEW k \in Nat, NEW as \in Code, WorksPush(n, k, as), Uncut(k, U16)
  PROVE  MkbCode(as, k) \in Code /\ WorksExpr(n, MkbCode(as, k))
<1>1. PICK m \in Code : m = Instr("MKB", k)
  <2>1. "MKB" \in Ops /\ k \in Int
    BY DEF Ops
  <2>2. Instr("MKB", k) \in Code
    BY <2>1, InstrIs
  <2> QED BY <2>2
<1>2. as \o m \in Code /\ MkbCode(as, k) = as \o m
  <2>1. MkbCode(as, k) = as \o m
    BY <1>1 DEF MkbCode, Uncut
  <2> QED BY <2>1, CodeOn
<1>3. ASSUME NEW s \in Shape, s.scope = n PROVE Leads(as \o m, s, s)
  <2>1. Leads(as, s, Plus(s, k))
    BY <1>3 DEF WorksPush
  <2>2. Leads(m, Plus(s, k), s)
    BY <1>1, MkbLeads
  <2> QED BY <2>1, <2>2, LeadsOn
<1> QED BY <1>2, <1>3 DEF WorksExpr

LEMMA LetWorks ==
  ASSUME NEW n \in Nat, NEW v \in Code, NEW b \in Code, WorksExpr(n, v)
  PROVE  /\ LetCode(v, b) \in Code /\ TailLet(v, b) \in Code
         /\ WorksExpr(n + 1, b) => WorksExpr(n, LetCode(v, b))
         /\ WorksTail(n + 1, b) => WorksTail(n, TailLet(v, b))
<1>1. PICK l \in Code, e \in Code : l = Instr("LET", 0) /\ e = Instr("ENDLET", 0)
  <2>1. "LET" \in Ops /\ "ENDLET" \in Ops /\ 0 \in Int
    BY DEF Ops
  <2>2. Instr("LET", 0) \in Code /\ Instr("ENDLET", 0) \in Code
    BY <2>1, InstrIs
  <2> QED BY <2>2
<1>2. v \o l \in Code /\ (v \o l) \o b \in Code /\ ((v \o l) \o b) \o e \in Code
  BY DEF Code
<1>3. LetCode(v, b) = ((v \o l) \o b) \o e /\ TailLet(v, b) = (v \o l) \o b
  BY <1>1 DEF LetCode, TailLet
<1>4. ASSUME NEW s \in Shape, s.scope = n
      PROVE  /\ Leads(v \o l, s, Deeper(s)) /\ Leads(e, Deeper(s), s)
             /\ Deeper(s) \in Shape /\ Deeper(s).scope = n + 1
             /\ Deeper(s).main = s.main /\ Deeper(s).own = s.own
  <2>1. Leads(v, s, s)
    BY <1>4 DEF WorksExpr
  <2>2. Leads(l, s, Deeper(s)) /\ Leads(e, Deeper(s), s)
    BY <1>1, LetLeads
  <2>3. Leads(v \o l, s, Deeper(s))
    BY <2>1, <2>2, LeadsOn
  <2> QED BY <2>2, <2>3, <1>4, DeeperIs
<1>5. ASSUME WorksExpr(n + 1, b), NEW s \in Shape, s.scope = n
      PROVE  Leads(((v \o l) \o b) \o e, s, s)
  <2>1. Leads(b, Deeper(s), Deeper(s))
    BY <1>4, <1>5 DEF WorksExpr
  <2>2. Leads((v \o l) \o b, s, Deeper(s))
    BY <2>1, <1>2, <1>4, <1>5, LeadsOn
  <2> QED BY <2>2, <1>2, <1>4, <1>5, LeadsOn
<1>6. ASSUME WorksTail(n + 1, b), NEW s \in Shape, s.scope = n, Bare(s)
      PROVE  \E t \in Shape : Bare(t) /\ Leads((v \o l) \o b, s, t)
  <2>1. Bare(Deeper(s))
    BY <1>4, <1>6 DEF Bare
  <2>2. PICK t \in Shape : Bare(t) /\ Leads(b, Deeper(s), t)
    BY <2>1, <1>4, <1>6 DEF WorksTail
  <2>3. Leads((v \o l) \o b, s, t)
    BY <2>2, <1>2, <1>4, <1>6, LeadsOn
  <2> QED BY <2>2, <2>3
<1>7. WorksExpr(n + 1, b) => WorksExpr(n, LetCode(v, b))
  BY <1>3, <1>5 DEF WorksExpr
<1>8. WorksTail(n + 1, b) => WorksTail(n, TailLet(v, b))
  BY <1>3, <1>6 DEF WorksTail
<1> QED BY <1>2, <1>3, <1>7, <1>8

LEMMA TailWorks ==
  ASSUME NEW n \in Nat, NEW b \in Code
  PROVE  /\ WorksExpr(n, b) => WorksTail(n, b)
         /\ TailLam(b) \in Code
         /\ WorksTail(n + 1, b) => WorksTail(n, TailLam(b))
<1>1. PICK g \in Code : g = Instr("GRAB", 0)
  <2>1. "GRAB" \in Ops /\ 0 \in Int
    BY DEF Ops
  <2>2. Instr("GRAB", 0) \in Code
    BY <2>1, InstrIs
  <2> QED BY <2>2
<1>2. g \o b \in Code /\ TailLam(b) = g \o b
  BY <1>1 DEF Code, TailLam
<1>3. ASSUME WorksTail(n + 1, b), NEW s \in Shape, s.scope = n, Bare(s)
      PROVE  \E t \in Shape : Bare(t) /\ Leads(g \o b, s, t)
  <2>1. Leads(g, s, Deeper(s))
    BY <1>1, <1>3, GrabLeads DEF Bare
  <2>2. Deeper(s) \in Shape /\ Deeper(s).scope = n + 1 /\ Bare(Deeper(s))
    BY <1>3, DeeperIs DEF Bare
  <2>3. PICK t \in Shape : Bare(t) /\ Leads(b, Deeper(s), t)
    BY <2>2, <1>3 DEF WorksTail
  <2>4. Leads(g \o b, s, t)
    BY <2>1, <2>3, LeadsOn
  <2> QED BY <2>3, <2>4
<1>4. WorksExpr(n, b) => WorksTail(n, b)
  BY DEF WorksExpr, WorksTail
<1>5. WorksTail(n + 1, b) => WorksTail(n, TailLam(b))
  BY <1>2, <1>3 DEF WorksTail
<1> QED BY <1>2, <1>4, <1>5
-----------------------------------------------------------------------------
(* By induction over the forms, all that is built from them works.         *)

Works(p) ==
  /\ p.kind = "expr" => WorksExpr(p.scope, p.code)
  /\ p.kind = "tail" => WorksTail(p.scope, p.code)
  /\ p.kind = "args" => WorksPush(p.scope, p.count, p.code)
Good == {p \in Piece : Works(p)}

LEMMA GoodIs ==
  ASSUME NEW n \in Nat, NEW k \in Nat, NEW c \in Code
  PROVE  /\ ExprPiece(n, c) \in Good <=> WorksExpr(n, c)
         /\ TailPiece(n, c) \in Good <=> WorksTail(n, c)
         /\ PushPiece(n, k, c) \in Good <=> WorksPush(n, k, c)
<1>1. ExprPiece(n, c) \in Piece /\ TailPiece(n, c) \in Piece /\ PushPiece(n, k, c) \in Piece
  BY DEF ExprPiece, TailPiece, PushPiece, Piece, Code
<1>2. Works(ExprPiece(n, c)) <=> WorksExpr(n, c)
  BY DEF Works, ExprPiece
<1>3. Works(TailPiece(n, c)) <=> WorksTail(n, c)
  BY DEF Works, TailPiece
<1>4. Works(PushPiece(n, k, c)) <=> WorksPush(n, k, c)
  BY DEF Works, PushPiece
<1> QED BY <1>1, <1>2, <1>3, <1>4 DEF Good

LEMMA GoodHasForms == HasForms(Good)
<1>1. ASSUME NEW n \in Nat, NEW v \in Int
      PROVE  ExprPiece(n, IntCode(v)) \in Good /\ ExprPiece(n, GVarCode(v)) \in Good
  BY LeafWorks, GoodIs
<1>2. ASSUME NEW n \in Nat, NEW i \in Nat, i < n, Uncut(i, U8)
      PROVE  ExprPiece(n, VarCode(i)) \in Good
  BY <1>2, VarWorks, GoodIs
<1>3. ASSUME NEW n \in Nat, NEW b \in Code, TailPiece(n + 1, b) \in Good, Uncut(Len(b) + 1, U16)
      PROVE  ExprPiece(n, LamCode(b)) \in Good
  <2>1. WorksTail(n + 1, b)
    <3>1. n + 1 \in Nat
      OBVIOUS
    <3> QED BY <3>1, <1>3, GoodIs
  <2>2. LamCode(b) \in Code /\ WorksExpr(n, LamCode(b))
    BY <2>1, <1>3, LamWorks
  <2> QED BY <2>2, GoodIs
<1>4. ASSUME NEW n \in Nat PROVE PushPiece(n, 0, <<>>) \in Good
  BY NoneWorks, GoodIs
<1>5. ASSUME NEW n \in Nat, NEW k \in Nat, NEW a \in Code, NEW as \in Code,
             ExprPiece(n, a) \in Good, PushPiece(n, k, as) \in Good
      PROVE  PushPiece(n, k + 1, PushedBefore(a, as)) \in Good
  <2>1. WorksExpr(n, a) /\ WorksPush(n, k, as)
    BY <1>5, GoodIs
  <2>2. PushedBefore(a, as) \in Code /\ WorksPush(n, k + 1, PushedBefore(a, as))
    BY <2>1, PushedWorks
  <2>3. k + 1 \in Nat
    OBVIOUS
  <2> QED BY <2>2, <2>3, GoodIs
<1>6. ASSUME NEW n \in Nat, NEW k \in Nat \ {0}, NEW as \in Code, NEW f \in Code,
             PushPiece(n, k, as) \in Good, ExprPiece(n, f) \in Good
      PROVE  ExprPiece(n, AppCode(as, f)) \in Good /\ TailPiece(n, TailApp(as, f)) \in Good
  <2>1. WorksPush(n, k, as) /\ WorksExpr(n, f)
    <3>1. k \in Nat
      OBVIOUS
    <3> QED BY <3>1, <1>6, GoodIs
  <2>2. /\ AppCode(as, f) \in Code /\ WorksExpr(n, AppCode(as, f))
        /\ TailApp(as, f) \in Code /\ WorksTail(n, TailApp(as, f))
    BY <2>1, AppWorks
  <2> QED BY <2>2, GoodIs
<1>7. ASSUME NEW n \in Nat, NEW k \in Nat, NEW as \in Code, PushPiece(n, k, as) \in Good,
             Uncut(k, U16)
      PROVE  ExprPiece(n, MkbCode(as, k)) \in Good
  <2>1. WorksPush(n, k, as)
    BY <1>7, GoodIs
  <2>2. MkbCode(as, k) \in Code /\ WorksExpr(n, MkbCode(as, k))
    BY <2>1, <1>7, MkbWorks
  <2> QED BY <2>2, GoodIs
<1>8. ASSUME NEW n \in Nat, NEW v \in Code, NEW b \in Code, ExprPiece(n, v) \in Good
      PROVE  /\ ExprPiece(n + 1, b) \in Good => ExprPiece(n, LetCode(v, b)) \in Good
             /\ TailPiece(n + 1, b) \in Good => TailPiece(n, TailLet(v, b)) \in Good
  <2>1. WorksExpr(n, v)
    BY <1>8, GoodIs
  <2>2. /\ LetCode(v, b) \in Code /\ TailLet(v, b) \in Code
        /\ WorksExpr(n + 1, b) => WorksExpr(n, LetCode(v, b))
        /\ WorksTail(n + 1, b) => WorksTail(n, TailLet(v, b))
    BY <2>1, LetWorks
  <2>3. n + 1 \in Nat
    OBVIOUS
  <2> QED BY <2>2, <2>3, GoodIs
<1>9. ASSUME NEW n \in Nat, NEW b \in Code
      PROVE  /\ TailPiece(n + 1, b) \in Good => TailPiece(n, TailLam(b)) \in Good
             /\ ExprPiece(n, b) \in Good => TailPiece(n, b) \in Good
  <2>1. n + 1 \in Nat
    OBVIOUS
  <2> QED BY <2>1, TailWorks, GoodIs
<1> QED BY <1>1, <1>2, <1>3, <1>4, <1>5, <1>6, <1>7, <1>8, <1>9 DEF HasForms

LEMMA GeneratedWorks ==
  ASSUME NEW c \in Code, ExprPiece(0, c) \in Generated
  PROVE  WorksExpr(0, c)
<1>1. Good \in SUBSET Piece
  BY DEF Good
<1>2. ExprPiece(0, c) \in Good
  BY <1>1, GoodHasForms DEF Generated
<1> QED BY <1>2, GoodIs

-----------------------------------------------------------------------------
(* What follows for the interpreter.                                       *)

\* Whatever lib/vm_gen.c puts together of its forms, of any size, is well-formed.
THEOREM EmittedIsShaped ==
  ASSUME NEW c \in Emitted
  PROVE  c \in Code /\ HasShapes(c)
<1>1. MainEntry \in Shape /\ MainEntry.scope = 0
  BY EmptySeq DEF MainEntry, Shape
<1>2. CASE \E d \in Code : ExprPiece(0, d) \in Generated /\ c = ExprMain(d)
  <2>1. PICK d \in Code : ExprPiece(0, d) \in Generated /\ c = ExprMain(d)
    BY <1>2
  <2>2. Leads(d, MainEntry, MainEntry)
    BY <2>1, <1>1, GeneratedWorks DEF WorksExpr
  <2> QED BY <2>1, <2>2, MainShaped
<1>3. CASE \E sym \in Int, d \in Code : ExprPiece(0, d) \in Generated /\ c = DeclMain(sym, d)
  <2>1. PICK sym \in Int, d \in Code : ExprPiece(0, d) \in Generated /\ c = DeclMain(sym, d)
    BY <1>3
  <2>2. Leads(d, MainEntry, MainEntry)
    BY <2>1, <1>1, GeneratedWorks DEF WorksExpr
  <2>3. Instr("SETGLOBAL", sym) \in Code /\ Leads(Instr("SETGLOBAL", sym), MainEntry, MainEntry)
    BY <1>1, StaysLeads
  <2>4. d \o Instr("SETGLOBAL", sym) \in Code
        /\ Leads(d \o Instr("SETGLOBAL", sym), MainEntry, MainEntry)
    BY <2>2, <2>3, LeadsOn
  <2>5. c = ExprMain(d \o Instr("SETGLOBAL", sym))
    BY <2>1 DEF DeclMain, ExprMain
  <2> QED BY <2>4, <2>5, MainShaped
<1>4. \/ \E d \in Code : ExprPiece(0, d) \in Generated /\ c = ExprMain(d)
      \/ \E sym \in Int, d \in Code : ExprPiece(0, d) \in Generated /\ c = DeclMain(sym, d)
  <2>1. CASE c \in {ExprMain(d) : d \in {e \in Code : ExprPiece(0, e) \in Generated}}
    BY <2>1
  <2>2. CASE c \in {DeclMain(x[1], x[2]) :
                      x \in {y \in Int \X Code : ExprPiece(0, y[2]) \in Generated}}
    <3>1. PICK x \in Int \X Code : ExprPiece(0, x[2]) \in Generated /\ c = DeclMain(x[1], x[2])
      BY <2>2
    <3>2. x[1] \in Int /\ x[2] \in Code
      OBVIOUS
    <3> QED BY <3>1, <3>2
  <2> QED BY <2>1, <2>2 DEF Emitted
<1> QED BY <1>2, <1>3, <1>4

\* All a client compiles is such code.
LEMMA CompiledIsShaped ==
  ASSUME Chunks \subseteq Emitted, FramesInv, [ShNext]_shapeVars
  PROVE  [compiled' # compiled =>
            HasShapes(SubSeq(code', Len(code) + 1, Len(code')))]_compiled
<1>1. ASSUME NEW chunk \in Chunks, Compiles(chunk)
      PROVE  HasShapes(SubSeq(code', Len(code) + 1, Len(code')))
  <2>1. chunk \in Code /\ HasShapes(chunk)
    BY EmittedIsShaped
  <2>2. code' = code \o chunk /\ code \in Code
    BY <1>1 DEF Compiles, Place, FramesInv, TypeOK, Code
  <2>3. SubSeq(code', Len(code) + 1, Len(code')) = chunk
    BY <2>1, <2>2, SuffixIs DEF Code
  <2> QED BY <2>1, <2>3
<1>2. CASE UNCHANGED compiled
  BY <1>2
<1>3. CASE \E chunk \in Chunks : Compiles(chunk)
  BY <1>1, <1>3
<1>4. UNCHANGED compiled \/ \E chunk \in Chunks : Compiles(chunk)
  BY DEF ShNext, Runs, Registers, Calls, shapeVars
<1> QED BY <1>2, <1>3, <1>4

LEMMA EmittedStaysSound ==
  ASSUME Chunks \subseteq Emitted
  PROVE  ShSpec => []ShapesInv
<1>1. ASSUME FramesInv, [ShNext]_shapeVars
      PROVE  [compiled' # compiled =>
                HasShapes(SubSeq(code', Len(code) + 1, Len(code')))]_compiled
  BY <1>1, CompiledIsShaped
<1>2. ShSpec => CompilesShaped
  BY <1>1, FramesHold, PTL DEF ShSpec, CompilesShaped
<1> QED BY <1>2, ShapesStay, PTL

\* The interpreter, lib/vm.c, which checks nothing, is safe with what lib/vm_gen.c puts
\* together, whatever a client has compiled and in whatever order it evaluates it: until
\* it goes astray (by type, a deep access or arguments too many) it stays within its
\* stacks, its objects and its code, unless a stack is full or a global not registered.
THEOREM EmittedCodeIsSafe ==
  ASSUME Chunks \subseteq Emitted
  PROVE  ShSpec => []FaultsExplained
BY EmittedStaysSound, PTL DEF ShapesInv

\* And it returns with nothing of its own left on the argument stack.
THEOREM EmittedCodeReturnsBalanced ==
  ASSUME Chunks \subseteq Emitted
  PROVE  ShSpec => []BalancedAtReturn
BY EmittedStaysSound, PTL DEF ShapesInv
=============================================================================
