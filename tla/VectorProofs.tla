---------------------------- MODULE VectorProofs ----------------------------
(***************************************************************************)
(* A vector is a growing sequence, whatever is pushed and however large it *)
(* becomes, and the allocator is told true sizes.                          *)
(***************************************************************************)
EXTENDS Vector, SequenceTheorems, TLAPS

Cells == Bytes \cup {Junk}

TypeOK ==
  /\ phase \in {"none", "idle", "growing", "fixed", "freed"}
  /\ alloc \in Nat /\ used \in Nat /\ new \in Nat
  /\ data \in Seq(Cells) /\ arg \in Seq(Bytes)

\* The block is as long as the vector believes, and is outgrown only in a push.
Fits ==
  /\ phase \in {"none", "freed"} => used = 0 /\ data = <<>>
  /\ phase \in {"idle", "growing"} => alloc = Len(data) /\ used <= alloc
  /\ phase = "growing" => arg \in Arrays /\ alloc <= new
  /\ phase = "fixed" => used = Len(data)
  /\ claims.told = claims.is

IInv == TypeOK /\ Fits

LEMMA FreshTypes ==
  ASSUME NEW n \in Nat
  PROVE  Fresh(n) \in Seq(Cells) /\ Len(Fresh(n)) = n
BY DEF Fresh, Cells

LEMMA ResizedTypes ==
  ASSUME NEW n \in Nat, data \in Seq(Cells)
  PROVE  /\ Resized(n) \in Seq(Cells) /\ Len(Resized(n)) = n
         /\ \A i \in 1..n : i <= Len(data) => Resized(n)[i] = data[i]
BY DEF Resized, Cells

\* What fits is copied behind what is used, which stays.
LEMMA CopiedBehind ==
  ASSUME NEW b \in Seq(Cells), NEW a \in Seq(Bytes), used \in Nat, used + Len(a) <= Len(b)
  PROVE  /\ Copied(b, a) \in Seq(Cells) /\ Len(Copied(b, a)) = Len(b)
         /\ SubSeq(Copied(b, a), 1, used + Len(a)) = SubSeq(b, 1, used) \o a
<1>. DEFINE c == Copied(b, a)
<1>0. Len(b) \in Nat /\ DOMAIN b = 1..Len(b) /\ Len(a) \in Nat
      /\ \A i \in 1..Len(b) : b[i] \in Cells
  OBVIOUS
<1>1. c = [i \in 1..Len(b) |-> IF used < i /\ i <= used + Len(a) THEN a[i - used] ELSE b[i]]
  BY <1>0 DEF Copied
<1>2. \A i \in 1..Len(b) : used < i /\ i <= used + Len(a) => a[i - used] \in Cells
  <2> SUFFICES ASSUME NEW i \in 1..Len(b), used < i, i <= used + Len(a)
               PROVE  a[i - used] \in Cells
    OBVIOUS
  <2>1. i - used \in 1..Len(a)
    BY <1>0
  <2>2. a[i - used] \in Bytes
    BY <2>1
  <2> QED BY <2>2 DEF Cells
<1>3. c \in Seq(Cells) /\ Len(c) = Len(b)
  BY <1>0, <1>1, <1>2
<1>4. SubSeq(c, 1, used + Len(a)) = SubSeq(b, 1, used) \o a
  <2>. DEFINE l == SubSeq(c, 1, used + Len(a))
              m == SubSeq(b, 1, used)
  <2>1. l \in Seq(Cells) /\ Len(l) = used + Len(a)
        /\ \A i \in 1..used + Len(a) : l[i] = c[i]
    BY <1>0, <1>3
  <2>2. m \in Seq(Cells) /\ Len(m) = used /\ \A i \in 1..used : m[i] = b[i]
    BY <1>0
  <2>3. a \in Seq(Cells)
    BY DEF Cells
  <2>4. m \o a \in Seq(Cells) /\ Len(m \o a) = used + Len(a)
    BY <2>2, <2>3
  <2>5. \A i \in 1..used + Len(a) : l[i] = (m \o a)[i]
    <3> TAKE i \in 1..used + Len(a)
    <3>1. CASE i <= used
      <4>1. i \in 1..used /\ i \in 1..Len(b)
        BY <1>0, <3>1
      <4>2. (m \o a)[i] = m[i]
        BY <2>2, <2>3, <4>1
      <4> QED BY <1>0, <1>1, <2>1, <2>2, <3>1, <4>1, <4>2
    <3>2. CASE ~(i <= used)
      <4>1. i \in 1..Len(b) /\ i - used \in 1..Len(a)
        BY <1>0, <3>2
      <4>2. (m \o a)[i] = a[i - used]
        BY <2>2, <2>3, <3>2, <4>1
      <4> QED BY <1>0, <1>1, <2>1, <3>2, <4>1, <4>2
    <3> QED BY <3>1, <3>2
  <2>. HIDE DEF l, m
  <2>. DEFINE k == m \o a
  <2>6. Len(l) = Len(k) /\ \A i \in 1..Len(l) : l[i] = k[i]
    BY <2>1, <2>4, <2>5
  <2>7. k \in Seq(Cells)
    BY <2>4
  <2>. HIDE DEF k
  <2>8. l = k
    BY <2>1, <2>6, <2>7, SeqEqual
  <2> QED BY <2>8 DEF l, m, k
<1> QED BY <1>3, <1>4

LEMMA StartsWell == Init => IInv
BY DEF Init, IInv, TypeOK, Fits, Cells

LEMMA StepsWell == IInv /\ [Next]_vars => IInv'
<1> SUFFICES ASSUME IInv, [Next]_vars PROVE IInv'
  OBVIOUS
<1>0. TypeOK /\ Fits /\ Len(data) \in Nat
  BY DEF IInv, TypeOK
<1>1. ASSUME NEW n \in InitSizes, Create(n) PROVE IInv'
  <2>1. n \in Nat
    BY VectorAssumption
  <2> QED BY <1>0, <1>1, <2>1, FreshTypes DEF IInv, TypeOK, Fits, Create
<1>2. ASSUME NEW a \in Arrays, Push(a) PROVE IInv'
  <2>1. a \in Seq(Bytes) /\ Len(a) \in Nat
    BY VectorAssumption
  <2>2. CASE MustGrow(Len(a))
    BY <1>0, <1>2, <2>1, <2>2 DEF IInv, TypeOK, Fits, Push
  <2>3. CASE ~MustGrow(Len(a))
    <3>1. used + Len(a) <= Len(data)
      BY <1>0, <1>2, <2>1, <2>3 DEF MustGrow, Push, TypeOK, Fits
    <3>2. data' = Copied(data, a) /\ used' = used + Len(a) /\ phase = "idle"
          /\ UNCHANGED <<phase, alloc, arg, new, claims>>
      BY <1>2, <2>3 DEF Push
    <3>3. data' \in Seq(Cells) /\ Len(data') = Len(data)
      BY <1>0, <2>1, <3>1, <3>2, CopiedBehind DEF TypeOK
    <3> QED BY <1>0, <2>1, <3>1, <3>2, <3>3 DEF IInv, TypeOK, Fits
  <2> QED BY <2>2, <2>3
<1>3. CASE Grow
  <2>1. new' = new * 2 /\ phase = "growing" /\ UNCHANGED <<phase, alloc, used, data, arg, claims>>
    BY <1>3 DEF Grow, Twice
  <2> QED BY <1>0, <2>1 DEF IInv, TypeOK, Fits
<1>4. CASE Resize
  <2>. DEFINE b == Resized(new)
  <2>1. b \in Seq(Cells) /\ Len(b) = new
    BY <1>0, ResizedTypes DEF TypeOK
  <2>2. /\ data' = Copied(b, arg) /\ alloc' = new /\ used' = used + Len(arg)
        /\ phase' = "idle" /\ UNCHANGED <<arg, new>> /\ phase = "growing"
        /\ used + Len(arg) <= new /\ claims' = [told |-> alloc, is |-> Len(data)]
    BY <1>0, <1>4 DEF Resize, NewAlloc, Claim, TypeOK
  <2>. HIDE DEF b
  <2>3. data' \in Seq(Cells) /\ Len(data') = new
    BY <1>0, <2>1, <2>2, CopiedBehind DEF TypeOK
  <2>4. Len(arg) \in Nat
    BY <1>0 DEF TypeOK
  <2> QED BY <1>0, <2>2, <2>3, <2>4 DEF IInv, TypeOK, Fits
<1>5. CASE FixSize
  <2>1. Resized(used) \in Seq(Cells) /\ Len(Resized(used)) = used
    BY <1>0, ResizedTypes DEF TypeOK
  <2> QED BY <1>0, <1>5, <2>1 DEF IInv, TypeOK, Fits, FixSize, Claim
<1>6. CASE Finish \/ FreeFixed
  <2>1. <<>> \in Seq(Cells)
    OBVIOUS
  <2>2. /\ data' = <<>> /\ used' = 0 /\ alloc' \in Nat /\ phase' = "freed"
        /\ claims'.told = claims'.is /\ UNCHANGED <<arg, new>>
    BY <1>0, <1>6 DEF TypeOK, Fits, Finish, FreeFixed, Claim
  <2> QED BY <1>0, <2>1, <2>2 DEF IInv, TypeOK, Fits
<1>7. CASE UNCHANGED vars
  BY <1>0, <1>7 DEF IInv, TypeOK, Fits, vars
<1> QED BY <1>1, <1>2, <1>3, <1>4, <1>5, <1>6, <1>7 DEF Next

\* SizesAreTrue holds whatever is pushed (inc/wist/vector.h:28, lib/ctx.c:59).
THEOREM SizesStayTrue == Spec => []SizesAreTrue
<1>1. IInv => SizesAreTrue
  BY DEF IInv, TypeOK, Fits, SizesAreTrue
<1> QED BY <1>1, StartsWell, StepsWell, PTL DEF Spec

Items == SubSeq(data, 1, used)

\* Every step of a vector is one of the abstract sequence, or none.
LEMMA StepsRefine == IInv /\ [Next]_vars => [Abstract!Next]_<<Life, Items>>
<1> SUFFICES ASSUME IInv, [Next]_vars PROVE [Abstract!Next]_<<Life, Items>>
  OBVIOUS
<1>. USE DEF Items
<1>0. TypeOK /\ Fits /\ Len(data) \in Nat
  BY DEF IInv, TypeOK
<1>1. \A s : SubSeq(s, 1, 0) = <<>>
  OBVIOUS
<1>2. ASSUME NEW n \in InitSizes, Create(n) PROVE Abstract!Create
  BY <1>1, <1>2 DEF Create, Abstract!Create, Life
<1>3. ASSUME NEW a \in Arrays, Push(a)
      PROVE  Abstract!Extend(a) \/ UNCHANGED <<Life, Items>>
  <2>1. a \in Seq(Bytes) /\ Len(a) \in Nat
    BY VectorAssumption
  <2>2. CASE MustGrow(Len(a))
    BY <1>3, <2>2 DEF Push, Life
  <2>3. CASE ~MustGrow(Len(a))
    <3>1. used + Len(a) <= Len(data)
      BY <1>0, <1>3, <2>1, <2>3 DEF MustGrow, Push, TypeOK, Fits
    <3>2. /\ data' = Copied(data, a) /\ used' = used + Len(a) /\ phase = "idle"
          /\ phase' = "idle"
      BY <1>3, <2>3 DEF Push
    <3>3. SubSeq(data', 1, used') = SubSeq(data, 1, used) \o a
      BY <1>0, <2>1, <3>1, <3>2, CopiedBehind DEF TypeOK
    <3> QED BY <3>2, <3>3 DEF Abstract!Extend, Life
  <2> QED BY <2>2, <2>3
<1>4. CASE Grow
  BY <1>4 DEF Grow, Life
<1>5. CASE Resize
  <2>. DEFINE b == Resized(new)
  <2>1. /\ b \in Seq(Cells) /\ Len(b) = new
        /\ \A i \in 1..new : i <= Len(data) => b[i] = data[i]
    BY <1>0, ResizedTypes DEF TypeOK
  <2>2. /\ data' = Copied(b, arg) /\ used' = used + Len(arg)
        /\ phase' = "idle" /\ phase = "growing" /\ used + Len(arg) <= new
    BY <1>0, <1>5 DEF Resize, TypeOK
  <2>. HIDE DEF b
  <2>3. SubSeq(data', 1, used') = SubSeq(b, 1, used) \o arg
    BY <1>0, <2>1, <2>2, CopiedBehind DEF TypeOK
  <2>4. SubSeq(b, 1, used) = SubSeq(data, 1, used)
    BY <1>0, <2>1, <2>2 DEF TypeOK, Fits
  <2>5. arg \in Arrays
    BY <1>0, <2>2 DEF Fits
  <2>6. Abstract!Extend(arg)
    BY <2>2, <2>3, <2>4 DEF Abstract!Extend, Life
  <2> QED BY <2>5, <2>6 DEF Abstract!Next
<1>6. CASE FixSize
  <2>1. SubSeq(Resized(used), 1, used) = SubSeq(data, 1, used)
    <3>. DEFINE b == Resized(used)
    <3>1. used \in Nat /\ used <= Len(data) /\ data \in Seq(Cells)
      BY <1>0, <1>6 DEF TypeOK, Fits, FixSize
    <3>2. /\ b \in Seq(Cells) /\ Len(b) = used
          /\ \A i \in 1..used : i <= Len(data) => b[i] = data[i]
      BY <3>1, ResizedTypes
    <3>. HIDE DEF b
    <3>3. SubSeq(b, 1, used) = SubSeq(data, 1, used)
      BY <1>0, <3>1, <3>2
    <3> QED BY <3>3 DEF b
  <2> QED BY <1>6, <2>1 DEF FixSize, Life
<1>7. CASE Finish \/ FreeFixed
  <2>1. Abstract!Release
    BY <1>1, <1>7 DEF Finish, FreeFixed, Abstract!Release, Life
  <2> QED BY <2>1 DEF Abstract!Next
<1>8. CASE UNCHANGED vars
  BY <1>8 DEF vars, Life
<1> QED BY <1>2, <1>3, <1>4, <1>5, <1>6, <1>7, <1>8 DEF Next, Abstract!Next

\* IsGrowingSeq: the vector implements the sequence its users rely on.
THEOREM VectorIsGrowingSeq == Spec => IsGrowingSeq
<1>1. Init => Abstract!Init
  BY DEF Init, Abstract!Init, Life
<1> QED BY <1>1, StartsWell, StepsWell, StepsRefine, PTL
        DEF Spec, IsGrowingSeq, Abstract!Spec, Items
=============================================================================
