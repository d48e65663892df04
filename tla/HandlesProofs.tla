---------------------------- MODULE HandlesProofs ----------------------------
(***************************************************************************)
(* Below the limits the words of the frames hold a stack of handles: the   *)
(* cells of two handles, of two counters, and of a handle and a counter    *)
(* never meet, however many frames and handles there are.                  *)
(***************************************************************************)
EXTENDS Handles, SequenceTheorems, TLAPS

Handle == [at : Nat, obj : Objs]
Frames == Seq(Handle)

Types ==
  /\ words \in [0..CurFrameAt -> Nat] /\ faulted \in BOOLEAN /\ beyond \in Nat
  /\ given \in Seq(Frames) /\ Len(given) >= 1

\* Frame number i is where its counter says, with what the client was given.
FrameHeld(i) ==
  /\ Len(given[i]) <= PerFrame /\ words[CounterAt(i - 1)] = Len(given[i])
  /\ \A k \in 1..Len(given[i]) :
       /\ given[i][k].at = HandleAt(i - 1, k - 1)
       /\ Read(HandleAt(i - 1, k - 1)) = given[i][k].obj

Held ==
  /\ ~faulted /\ Len(given) \in 1..NFrames /\ Frame = Len(given) - 1
  /\ \A i \in 1..Len(given) : FrameHeld(i)

IInv == Types /\ (~exceeded => Held)

-----------------------------------------------------------------------------
(* Where things lie.                                                       *)

LEMMA Sizes ==
  /\ PerFrame \in Nat /\ PerFrame >= 1 /\ NFrames \in Nat /\ NFrames >= 1
  /\ Width \in Nat /\ Width = 2 * PerFrame + 1 /\ CurFrameAt \in Nat
  /\ CurFrameAt = NFrames * Width
<1>1. PerFrame \in Nat /\ PerFrame >= 1 /\ NFrames \in Nat /\ NFrames >= 1
  BY HandlesAssumption
<1>2. Width \in Nat /\ Width = 2 * PerFrame + 1
  BY <1>1 DEF Width
<1>. HIDE DEF Width
<1>3. CurFrameAt \in Nat /\ CurFrameAt = NFrames * Width
  BY <1>1, <1>2 DEF CurFrameAt
<1> QED BY <1>1, <1>2, <1>3

LEMMA Steps ==
  ASSUME NEW a \in Nat, NEW b \in Nat, NEW w \in Nat, a < b
  PROVE  a * w + w <= b * w
<1>1. PICK d \in Nat : b = a + 1 + d
  <2>1. b - a - 1 \in Nat /\ b = a + 1 + (b - a - 1)
    OBVIOUS
  <2> QED BY <2>1
<1>2. b * w = a * w + w + d * w
  BY <1>1
<1>3. d * w \in Nat /\ a * w \in Nat
  OBVIOUS
<1>. QED BY <1>2, <1>3

\* Words of the frames, and no two alike.
LEMMA InFrames ==
  ASSUME NEW f \in 0..NFrames - 1, NEW j \in 0..2 * PerFrame
  PROVE  f * Width + j \in 0..CurFrameAt - 1
<1>1. f * Width + Width <= CurFrameAt
  BY Sizes, Steps
<1>2. f * Width \in Nat
  BY Sizes
<1> QED BY <1>1, <1>2, Sizes

LEMMA FramesApart ==
  ASSUME NEW f \in 0..NFrames - 1, NEW j \in 0..2 * PerFrame,
         NEW g \in 0..NFrames - 1, NEW l \in 0..2 * PerFrame, f # g
  PROVE  f * Width + j # g * Width + l
<1>0. f * Width \in Nat /\ g * Width \in Nat
  BY Sizes
<1>1. CASE f < g
  <2>1. f * Width + Width <= g * Width
    BY <1>1, Sizes, Steps
  <2> QED BY <1>0, <2>1, Sizes
<1>2. CASE g < f
  <2>1. g * Width + Width <= f * Width
    BY <1>2, Sizes, Steps
  <2> QED BY <1>0, <2>1, Sizes
<1> QED BY <1>1, <1>2, Sizes

LEMMA Places ==
  /\ \A f \in 0..NFrames - 1 :
       /\ CounterAt(f) \in 0..CurFrameAt - 1
       /\ \A k \in 0..PerFrame - 1 :
            HandleAt(f, k) \in 0..CurFrameAt - 1 /\ HandleAt(f, k) + 1 \in 0..CurFrameAt - 1
  /\ \A f, g \in 0..NFrames - 1 :
       /\ f # g => CounterAt(f) # CounterAt(g)
       /\ \A k \in 0..PerFrame - 1 :
            CounterAt(g) # HandleAt(f, k) /\ CounterAt(g) # HandleAt(f, k) + 1
  /\ \A f, g \in 0..NFrames - 1 : \A k, l \in 0..PerFrame - 1 :
       f # g \/ k # l => /\ HandleAt(f, k) # HandleAt(g, l)
                         /\ HandleAt(f, k) # HandleAt(g, l) + 1
                         /\ HandleAt(f, k) + 1 # HandleAt(g, l)
<1>0. \A k \in 0..PerFrame - 1 : 2 * k \in 0..2 * PerFrame /\ 2 * k + 1 \in 0..2 * PerFrame
                                 /\ 2 * k + 1 < 2 * PerFrame
  BY Sizes
<1>1. \A f \in 0..NFrames - 1 : CounterAt(f) = f * Width + 2 * PerFrame
  BY DEF CounterAt
<1>2. \A f \in 0..NFrames - 1 : \A k \in 0..PerFrame - 1 :
        /\ HandleAt(f, k) = f * Width + 2 * k
        /\ HandleAt(f, k) + 1 = f * Width + (2 * k + 1)
  <2> SUFFICES ASSUME NEW f \in 0..NFrames - 1, NEW k \in 0..PerFrame - 1
               PROVE  /\ HandleAt(f, k) = f * Width + 2 * k
                      /\ HandleAt(f, k) + 1 = f * Width + (2 * k + 1)
    OBVIOUS
  <2>1. f * Width \in Nat /\ 2 * k \in Nat
    BY Sizes
  <2> QED BY <2>1 DEF HandleAt
<1>3. 2 * PerFrame \in 0..2 * PerFrame
  BY Sizes
<1>4. ASSUME NEW f \in 0..NFrames - 1
      PROVE  /\ CounterAt(f) \in 0..CurFrameAt - 1
             /\ \A k \in 0..PerFrame - 1 :
                  HandleAt(f, k) \in 0..CurFrameAt - 1 /\ HandleAt(f, k) + 1 \in 0..CurFrameAt - 1
  BY <1>0, <1>1, <1>2, <1>3, InFrames
<1>5. ASSUME NEW f \in 0..NFrames - 1, NEW g \in 0..NFrames - 1
      PROVE  /\ f # g => CounterAt(f) # CounterAt(g)
             /\ \A k \in 0..PerFrame - 1 :
                  CounterAt(g) # HandleAt(f, k) /\ CounterAt(g) # HandleAt(f, k) + 1
  <2>1. CASE f # g
    BY <2>1, <1>0, <1>1, <1>2, <1>3, FramesApart
  <2>2. CASE f = g
    <3>1. f * Width \in Nat
      BY Sizes
    <3> QED BY <2>2, <3>1, <1>0, <1>1, <1>2, Sizes
  <2> QED BY <2>1, <2>2
<1>6. ASSUME NEW f \in 0..NFrames - 1, NEW g \in 0..NFrames - 1,
             NEW k \in 0..PerFrame - 1, NEW l \in 0..PerFrame - 1, f # g \/ k # l
      PROVE  /\ HandleAt(f, k) # HandleAt(g, l)
             /\ HandleAt(f, k) # HandleAt(g, l) + 1
             /\ HandleAt(f, k) + 1 # HandleAt(g, l)
  <2>1. CASE f # g
    BY <2>1, <1>0, <1>2, FramesApart
  <2>2. CASE f = g /\ k # l
    <3>1. f * Width \in Nat
      BY Sizes
    <3>2. 2 * k # 2 * l /\ 2 * k # 2 * l + 1 /\ 2 * k + 1 # 2 * l
      BY <2>2
    <3> QED BY <2>2, <3>1, <3>2, <1>0, <1>2
  <2> QED BY <1>6, <2>1, <2>2
<1> QED BY <1>4, <1>5, <1>6

-----------------------------------------------------------------------------
(* What the helpers yield.                                                 *)

\* Front and Last of the community module, element by element.
LEMMA FrontLast ==
  ASSUME NEW S, NEW s \in Seq(S), Len(s) >= 1
  PROVE  /\ Front(s) \in Seq(S) /\ Len(Front(s)) = Len(s) - 1
         /\ \A i \in 1..Len(s) - 1 : Front(s)[i] = s[i]
         /\ Last(s) \in S /\ Last(s) = s[Len(s)]
<1>1. Front(s) = [i \in 1..Len(s) - 1 |-> s[i]]
  BY DEF Front
<1>2. Last(s) = s[Len(s)]
  BY DEF Last
<1> QED BY <1>1, <1>2

LEMMA Counted ==
  ASSUME NEW atLimit \in BOOLEAN, beyond \in Nat, Count(atLimit)
  PROVE  beyond' \in Nat /\ (exceeded' <=> exceeded \/ atLimit)
BY DEF Count, exceeded

LEMMA TagIsRead ==
  ASSUME NEW obj \in Objs
  PROVE  /\ obj.t \in 0..2 /\ obj.v \in Nat /\ Padding \in Nat /\ Padding > 2
         /\ obj.t % Padding = obj.t
<1>1. obj.t \in 0..2 /\ obj.v \in Nat /\ Padding \in Nat /\ Padding > 2
  BY HandlesAssumption
<1>2. \A t \in 0..2 : t % Padding = t
  BY <1>1
<1> QED BY <1>1, <1>2

-----------------------------------------------------------------------------
(* The invariant.                                                          *)

LEMMA InitIInv == Init => IInv
<1> SUFFICES ASSUME Init PROVE IInv
  OBVIOUS
<1>1. /\ words \in [0..CurFrameAt -> Nat] /\ words[CurFrameAt] = 0
      /\ words[CounterAt(0)] = 0 /\ 0 \in 0..NFrames - 1
  <2>1. CounterAt(0) \in 0..CurFrameAt - 1 /\ 0 \in 0..NFrames - 1
    BY Places, Sizes
  <2> QED BY <2>1, Sizes, HandlesAssumption DEF Init
<1>2. given \in Seq(Frames) /\ Len(given) = 1 /\ given[1] = <<>>
  <2>1. <<>> \in Frames /\ given = <<<<>>>>
    BY DEF Init, Frames
  <2>2. given \in Seq(Frames)
    BY <2>1
  <2>3. Len(given) = 1 /\ given[1] = <<>>
    BY <2>1
  <2> QED BY <2>2, <2>3
<1>3. Types
  <2>1. faulted \in BOOLEAN /\ beyond \in Nat
    BY DEF Init
  <2>2. Len(given) >= 1
    BY <1>2
  <2> QED BY <1>1, <1>2, <2>1, <2>2, Zenon DEF Types
<1>4. FrameHeld(1)
  BY <1>1, <1>2, Sizes DEF FrameHeld
<1>5. Held
  BY <1>1, <1>2, <1>4, Sizes DEF Held, Frame, Init
<1> QED BY <1>3, <1>5 DEF IInv

\* The current frame, below the limits.
LEMMA Current ==
  ASSUME IInv, ~exceeded
  PROVE  /\ Frame \in 0..NFrames - 1 /\ Frame = Len(given) - 1 /\ ~faulted
         /\ Last(given) = given[Len(given)] /\ Last(given) \in Frames
         /\ words[CounterAt(Frame)] = Len(Last(given)) /\ Len(Last(given)) <= PerFrame
<1>1. /\ Frame = Len(given) - 1 /\ Len(given) \in 1..NFrames /\ ~faulted
      /\ FrameHeld(Len(given)) /\ given \in Seq(Frames)
  BY Sizes DEF IInv, Held, Types
<1>2. Last(given) = given[Len(given)] /\ Last(given) \in Frames
  <2>1. given \in Seq(Frames) /\ Len(given) >= 1
    BY DEF IInv, Types
  <2> QED BY <2>1, FrontLast, Zenon
<1> HIDE DEF Last, Frame
<1> QED BY <1>1, <1>2, Sizes DEF FrameHeld

\* A frame keeps what it holds where neither its words nor its handles change.
LEMMA FrameKept ==
  ASSUME Types, NEW i \in 1..NFrames, i <= Len(given), FrameHeld(i),
         given'[i] = given[i],
         words'[CounterAt(i - 1)] = words[CounterAt(i - 1)],
         \A k \in 0..PerFrame - 1 : /\ words'[HandleAt(i - 1, k)] = words[HandleAt(i - 1, k)]
                                    /\ words'[HandleAt(i - 1, k) + 1] = words[HandleAt(i - 1, k) + 1]
  PROVE  FrameHeld(i)'
<1>1. given[i] \in Seq(Handle) /\ Len(given[i]) <= PerFrame
  BY DEF Types, FrameHeld, Frames
<1>2. \A k \in 1..Len(given[i]) : k - 1 \in 0..PerFrame - 1
  <2> DEFINE n == Len(given[i])
  <2>1. n \in Nat /\ n <= PerFrame
    BY <1>1
  <2> HIDE DEF n
  <2>2. \A k \in 1..n : k - 1 \in 0..PerFrame - 1
    BY <2>1, Sizes
  <2> QED BY <2>2 DEF n
<1>3. CounterAt(i - 1)' = CounterAt(i - 1) /\ \A k \in Nat : HandleAt(i - 1, k)' = HandleAt(i - 1, k)
  BY DEF CounterAt, HandleAt, Width
<1>4. ASSUME NEW k \in 1..Len(given[i])
      PROVE  /\ given'[i][k].at = HandleAt(i - 1, k - 1)
             /\ Read(HandleAt(i - 1, k - 1))' = given'[i][k].obj
  <2>1. Read(HandleAt(i - 1, k - 1)) = given[i][k].obj /\ given[i][k].at = HandleAt(i - 1, k - 1)
    BY DEF FrameHeld
  <2>2. Read(HandleAt(i - 1, k - 1))' = Read(HandleAt(i - 1, k - 1))
    BY <1>2, <1>3 DEF Read, HandleAt, Width
  <2> QED BY <2>1, <2>2
<1> QED BY <1>1, <1>3, <1>4 DEF FrameHeld, HandleAt, CounterAt, Width

LEMMA PopIInv == IInv /\ Pop => IInv'
<1> SUFFICES ASSUME IInv, Pop PROVE IInv'
  OBVIOUS
<1>1. /\ words \in [0..CurFrameAt -> Nat] /\ faulted \in BOOLEAN /\ beyond \in Nat
  BY DEF IInv, Types
<1>0. given \in Seq(Frames) /\ Len(given) \in Nat /\ Len(given) >= 1
  BY DEF IInv, Types
<1>2. beyond' \in Nat /\ (exceeded' <=> exceeded)
  BY <1>1, Counted DEF Pop
<1>3. /\ given' \in Seq(Frames) /\ Len(given') >= 1
      /\ Len(given) = 1 => given' = <<<<>>>>
      /\ Len(given) # 1 => /\ Len(given') = Len(given) - 1
                           /\ \A i \in 1..Len(given) - 1 : given'[i] = given[i]
  <2>1. CASE Len(given) = 1
    <3>1. <<>> \in Frames /\ given' = <<<<>>>>
      BY <2>1 DEF Pop, Frames
    <3> QED BY <2>1, <3>1
  <2>2. CASE Len(given) # 1
    <3>1. given' = Front(given)
      BY <1>0, <2>2 DEF Pop
    <3>2. /\ Front(given) \in Seq(Frames) /\ Len(Front(given)) = Len(given) - 1
          /\ \A i \in 1..Len(given) - 1 : Front(given)[i] = given[i]
      BY <1>0, <1>1, FrontLast, Zenon
    <3> QED BY <1>0, <2>2, <3>1, <3>2
  <2> QED BY <1>0, <2>1, <2>2
<1>4. Frame \in Nat /\ CounterAt(0) \in 0..CurFrameAt - 1
  <2>1. 0 \in 0..NFrames - 1
    BY Sizes
  <2> QED BY <1>1, <2>1, Sizes, Places DEF Frame
<1>5. words' \in [0..CurFrameAt -> Nat] /\ faulted' \in BOOLEAN
  BY <1>1, <1>4, Sizes DEF Pop, Popped, Frame
<1>6. Types'
  <2>1. CurFrameAt' = CurFrameAt /\ Frames' = Frames
    BY DEF CurFrameAt, Width, Handle, Frames
  <2> QED BY <1>2, <1>3, <1>5 DEF Types, CurFrameAt, Width, Handle, Frames
<1>7. ASSUME ~exceeded PROVE Held'
  <2>1. /\ Frame = Len(given) - 1 /\ Len(given) \in 1..NFrames /\ ~faulted'
        /\ \A i \in 1..Len(given) : FrameHeld(i)
    BY <1>7 DEF IInv, Held, Pop
  <2>2. CASE Len(given) = 1
    <3>1. /\ given' = <<<<>>>> /\ words'[CurFrameAt] = 0 /\ words'[CounterAt(0)] = 0
      BY <1>1, <1>3, <1>4, <2>1, <2>2, Sizes DEF Pop, Popped, Frame
    <3>2. FrameHeld(1)'
      BY <3>1, Sizes DEF FrameHeld, CounterAt, Width
    <3> QED BY <2>1, <3>1, <3>2, Sizes DEF Held, Frame, CurFrameAt, Width
  <2>3. CASE Len(given) # 1
    <3>1. /\ words'[CurFrameAt] = Len(given) - 2 
          /\ \A x \in 0..CurFrameAt - 1 : words'[x] = words[x]
      <4>1. Frame # 0 /\ words' = [words EXCEPT ![CurFrameAt] = Frame - 1]
        BY <1>0, <1>1, <2>1, <2>3 DEF Pop, Popped, Frame
      <4>2. CurFrameAt \in 0..CurFrameAt /\ CurFrameAt \notin 0..CurFrameAt - 1
        BY Sizes
      <4>3. Frame - 1 = Len(given) - 2
        BY <1>0, <2>1
      <4> QED BY <1>1, <4>1, <4>2, <4>3, Sizes
    <3>2. ASSUME NEW i \in 1..Len(given') PROVE FrameHeld(i)'
      <4>1. i \in 1..Len(given) - 1 /\ i \in 1..NFrames /\ i - 1 \in 0..NFrames - 1
        BY <1>0, <1>3, <2>1, <2>3, Sizes
      <4>2. given'[i] = given[i] /\ FrameHeld(i)
        BY <1>3, <2>1, <2>3, <4>1
      <4>3. /\ words'[CounterAt(i - 1)] = words[CounterAt(i - 1)]
            /\ \A k \in 0..PerFrame - 1 :
                 /\ words'[HandleAt(i - 1, k)] = words[HandleAt(i - 1, k)]
                 /\ words'[HandleAt(i - 1, k) + 1] = words[HandleAt(i - 1, k) + 1]
        BY <3>1, <4>1, Places
      <4>4. Types
        BY DEF IInv
      <4>5. i <= Len(given)
        BY <1>0, <4>1
      <4> QED BY <4>1, <4>2, <4>3, <4>4, <4>5, FrameKept
    <3>3. Len(given') \in 1..NFrames /\ words'[CurFrameAt] = Len(given') - 1
      BY <1>0, <1>3, <2>1, <2>3, <3>1, Sizes
    <3> QED BY <2>1, <3>2, <3>3 DEF Held, Frame, CurFrameAt, Width
  <2> QED BY <1>0, <2>2, <2>3
<1> QED BY <1>2, <1>6, <1>7 DEF IInv
LEMMA PushIInv == IInv /\ Push => IInv'
<1> SUFFICES ASSUME IInv, Push PROVE IInv'
  OBVIOUS
<1>1. /\ words \in [0..CurFrameAt -> Nat] /\ faulted \in BOOLEAN /\ beyond \in Nat
      /\ Frame \in Nat
  BY Sizes DEF IInv, Types, Frame
<1>2. given \in Seq(Frames) /\ Len(given) \in Nat /\ Len(given) >= 1
  BY DEF IInv, Types
<1>3. beyond' \in Nat /\ (exceeded' <=> exceeded \/ Len(given) = NFrames)
  <2>1. Count(Len(given) = NFrames)
    BY DEF Push
  <2> QED BY <1>1, <2>1, Counted
<1>4. CASE CounterAt(Frame + 1) > CurFrameAt
  <2>1. faulted' = TRUE /\ words' = words /\ given' = given
    BY <1>4 DEF Push, Fault
  <2>2. Types'
    BY <1>1, <1>2, <1>3, <2>1 DEF Types, CurFrameAt, Width, Handle, Frames
  <2>3. exceeded'
    <3>1. SUFFICES ASSUME ~exceeded, Len(given) # NFrames PROVE FALSE
      BY <1>3
    <3>2. Frame + 1 \in 0..NFrames - 1
      BY <1>2, <3>1, Sizes DEF IInv, Held
    <3> QED BY <1>4, <3>2, Places, Sizes
  <2> QED BY <2>2, <2>3 DEF IInv
<1>5. CASE ~(CounterAt(Frame + 1) > CurFrameAt)
  <2>1. /\ words' = Pushed(Frame + 1) /\ given' = Append(given, <<>>) /\ faulted' = faulted
    BY <1>5 DEF Push
  <2>2. <<>> \in Frames
    BY DEF Frames
  <2>3. /\ given' \in Seq(Frames) /\ Len(given') = Len(given) + 1
        /\ given'[Len(given) + 1] = <<>> /\ \A i \in 1..Len(given) : given'[i] = given[i]
    BY <1>2, <2>1, <2>2
  <2>4. words' \in [0..CurFrameAt -> Nat]
    <3>1. Frame + 1 \in Nat
      BY <1>1
    <3> QED BY <1>1, <2>1, <3>1 DEF Pushed
  <2>5. Types'
    <3>1. Len(given') >= 1
      BY <1>2, <2>3
    <3> QED BY <1>1, <1>3, <2>1, <2>3, <2>4, <3>1 DEF Types, CurFrameAt, Width, Handle, Frames
  <2>6. ASSUME ~exceeded' PROVE Held'
    <3>1. /\ Frame = Len(given) - 1 /\ ~faulted /\ \A i \in 1..Len(given) : FrameHeld(i)
          /\ Len(given) + 1 \in 1..NFrames
      BY <1>2, <1>3, <2>6, Sizes DEF IInv, Held
    <3>2. Frame + 1 \in 0..NFrames - 1 /\ Frame + 1 = Len(given)
      BY <1>2, <3>1, Sizes
    <3>3. /\ CounterAt(Frame + 1) \in 0..CurFrameAt - 1
          /\ words'[CurFrameAt] = Len(given) /\ words'[CounterAt(Frame + 1)] = 0
          /\ \A x \in 0..CurFrameAt - 1 : x # CounterAt(Frame + 1) => words'[x] = words[x]
      <4>1. CounterAt(Frame + 1) \in 0..CurFrameAt - 1
        BY <3>2, Places
      <4> QED BY <1>1, <2>1, <3>2, <4>1, Sizes DEF Pushed
    <3>4. ASSUME NEW i \in 1..Len(given) PROVE FrameHeld(i)'
      <4>1. i \in 1..NFrames /\ i - 1 \in 0..NFrames - 1 /\ i - 1 # Frame + 1 /\ i <= Len(given)
        BY <1>2, <3>1, <3>2, Sizes
      <4>2. given'[i] = given[i] /\ FrameHeld(i) /\ Types
        BY <2>3, <3>1 DEF IInv
      <4>3. /\ words'[CounterAt(i - 1)] = words[CounterAt(i - 1)]
            /\ \A k \in 0..PerFrame - 1 :
                 /\ words'[HandleAt(i - 1, k)] = words[HandleAt(i - 1, k)]
                 /\ words'[HandleAt(i - 1, k) + 1] = words[HandleAt(i - 1, k) + 1]
        BY <3>2, <3>3, <4>1, Places
      <4> QED BY <4>1, <4>2, <4>3, FrameKept
    <3>5. ASSUME NEW i \in Nat, i = Len(given) + 1 PROVE FrameHeld(i)'
      <4>1. given'[i] = <<>> /\ i - 1 = Len(given) /\ Len(given'[i]) = 0
        BY <1>2, <2>3, <3>5
      <4>2. words'[CounterAt(i - 1)] = 0
        BY <3>2, <3>3, <4>1
      <4> QED BY <4>1, <4>2, Sizes DEF FrameHeld, CounterAt, Width
    <3>6. ASSUME NEW i \in 1..Len(given') PROVE FrameHeld(i)'
      <4>1. i \in 1..Len(given) \/ i = Len(given) + 1
        BY <1>2, <2>3
      <4> QED BY <3>4, <3>5, <4>1
    <3>7. Len(given') \in 1..NFrames /\ words'[CurFrameAt] = Len(given') - 1
      BY <1>2, <2>3, <3>1, <3>3
    <3> QED BY <2>1, <3>1, <3>6, <3>7 DEF Held, Frame, CurFrameAt, Width
  <2> QED BY <2>5, <2>6 DEF IInv
<1> QED BY <1>4, <1>5
LEMMA GiveIInv == ASSUME NEW obj \in Objs PROVE IInv /\ Give(obj) => IInv'
<1> SUFFICES ASSUME IInv, Give(obj) PROVE IInv'
  OBVIOUS
<1> DEFINE c == CounterAt(Frame)
           at == HandleAt(Frame, words[c])
<1>1. /\ words \in [0..CurFrameAt -> Nat] /\ faulted \in BOOLEAN /\ beyond \in Nat
      /\ Frame \in Nat /\ c \in Nat
  <2>1. words \in [0..CurFrameAt -> Nat] /\ faulted \in BOOLEAN /\ beyond \in Nat
    BY DEF IInv, Types
  <2>2. Frame \in Nat
    BY <2>1, Sizes DEF Frame
  <2>3. \A f \in Nat : CounterAt(f) \in Nat
    BY Sizes DEF CounterAt
  <2> QED BY <2>1, <2>2, <2>3
<1>2. given \in Seq(Frames) /\ Len(given) \in Nat /\ Len(given) >= 1
  BY DEF IInv, Types
<1>3. beyond' \in Nat /\ (exceeded' <=> exceeded \/ Len(Last(given)) = PerFrame)
  <2>1. Count(Len(Last(given)) = PerFrame)
    BY DEF Give
  <2> QED BY <1>1, <2>1, Counted
<1>4. Last(given) \in Frames /\ Last(given) = given[Len(given)]
  BY <1>2, FrontLast, Zenon
\* The new handle lies in its frame, unless a limit has been passed.
<1>5. ASSUME ~exceeded'
      PROVE  /\ ~exceeded /\ Frame \in 0..NFrames - 1 /\ Frame = Len(given) - 1
             /\ words[c] \in 0..PerFrame - 1 /\ words[c] = Len(Last(given))
             /\ c \in 0..CurFrameAt - 1 /\ at \in 0..CurFrameAt - 1 /\ at + 1 \in 0..CurFrameAt - 1
  <2>1. ~exceeded /\ Len(Last(given)) # PerFrame
    BY <1>3, <1>5
  <2>2. /\ Frame \in 0..NFrames - 1 /\ Frame = Len(given) - 1
        /\ words[c] = Len(Last(given)) /\ Len(Last(given)) <= PerFrame
    BY <2>1, Current
  <2>3. c \in 0..CurFrameAt - 1
    BY <2>2, Places
  <2>4. words[c] \in 0..PerFrame - 1
    <3>1. words[c] \in Nat
      BY <1>1, <2>3, Sizes
    <3> QED BY <2>1, <2>2, <3>1, Sizes
  <2> QED BY <2>1, <2>2, <2>3, <2>4, Places
<1>6. CASE c > CurFrameAt \/ at + 1 > CurFrameAt
  <2>1. faulted' = TRUE /\ words' = words /\ given' = given
    BY <1>6 DEF Give, Fault
  <2>2. Types'
    BY <1>1, <1>2, <1>3, <2>1 DEF Types, CurFrameAt, Width, Handle, Frames
  <2>3. exceeded'
    BY <1>5, <1>6, Sizes
  <2> QED BY <2>2, <2>3 DEF IInv
<1>7. CASE ~(c > CurFrameAt) /\ ~(at + 1 > CurFrameAt)
  <2> DEFINE new == Append(Last(given), [at |-> at, obj |-> obj])
  <2>1. PICK pad \in Paddings(at) :
          words' = [words EXCEPT ![c] = @ + 1, ![at] = obj.t + pad, ![at + 1] = obj.v]
    BY <1>7 DEF Give, Written
  <2>2. given' = Front(given) \o <<new>> /\ faulted' = faulted
    BY <1>7 DEF Give
  <2>3. words[c] \in Nat /\ at \in Nat
    <3>1. c \in 0..CurFrameAt
      BY <1>1, <1>7, Sizes
    <3>2. words[c] \in Nat
      BY <1>1, <3>1
    <3>3. \A f, k \in Nat : HandleAt(f, k) \in Nat
      BY Sizes DEF HandleAt
    <3> QED BY <1>1, <3>2, <3>3
  <2>4. /\ new \in Frames /\ Len(new) = Len(Last(given)) + 1
        /\ new[Len(Last(given)) + 1] = [at |-> at, obj |-> obj]
        /\ \A k \in 1..Len(Last(given)) : new[k] = Last(given)[k]
    <3>1. [at |-> at, obj |-> obj] \in Handle
      BY <2>3 DEF Handle
    <3> HIDE DEF at
    <3> QED BY <1>4, <3>1 DEF Frames
  <2> HIDE DEF new
  <2>5. /\ given' \in Seq(Frames) /\ Len(given') = Len(given) /\ given'[Len(given)] = new
        /\ \A i \in 1..Len(given) - 1 : given'[i] = given[i]
    <3>1. /\ Front(given) \in Seq(Frames) /\ Len(Front(given)) = Len(given) - 1
          /\ \A i \in 1..Len(given) - 1 : Front(given)[i] = given[i]
      BY <1>2, FrontLast, Zenon
    <3> DEFINE front == Front(given)
               n == Len(given)
    <3> HIDE DEF front, n
    <3>2. /\ front \in Seq(Frames) /\ Len(front) = n - 1 /\ n \in Nat /\ n >= 1
          /\ \A i \in 1..n - 1 : front[i] = given[i]
      BY <1>2, <3>1 DEF front, n
    <3>3. given' = front \o <<new>>
      BY <2>2 DEF front
    <3>4. given' \in Seq(Frames) /\ Len(given') = n
      BY <2>4, <3>2, <3>3
    <3>5. given'[n] = new /\ \A i \in 1..n - 1 : given'[i] = front[i]
      BY <2>4, <3>2, <3>3
    <3> QED BY <3>2, <3>4, <3>5 DEF n
  <2>6. obj.t + pad \in Nat /\ obj.v \in Nat
    <3>1. pad \in {0, Padding}
      BY DEF Paddings
    <3> QED BY <3>1, TagIsRead
  <2>7. words' \in [0..CurFrameAt -> Nat]
    <3>1. words[c] + 1 \in Nat
      BY <2>3
    <3> HIDE DEF c, at
    <3> QED BY <1>1, <2>1, <2>6, <3>1
  <2>8. Types'
    <3>1. Len(given') >= 1
      BY <1>2, <2>5
    <3> QED BY <1>1, <1>3, <2>2, <2>5, <2>7, <3>1 DEF Types, CurFrameAt, Width, Handle, Frames
  <2>9. ASSUME ~exceeded' PROVE Held'
    <3>1. /\ Frame \in 0..NFrames - 1 /\ Frame = Len(given) - 1
          /\ words[c] \in 0..PerFrame - 1 /\ words[c] = Len(Last(given))
          /\ c \in 0..CurFrameAt - 1 /\ at \in 0..CurFrameAt - 1 /\ at + 1 \in 0..CurFrameAt - 1
      BY <1>5, <2>9
    <3>2. /\ ~faulted /\ Len(given) \in 1..NFrames
          /\ \A i \in 1..Len(given) : FrameHeld(i)
      BY <1>5, <2>9 DEF IInv, Held
    <3>3. pad = 0
      <4>1. \A f \in 0..NFrames - 1 : at # CounterAt(f)
        BY <3>1, Places
      <4> QED BY <4>1 DEF Paddings
    <3>4. c # at /\ c # at + 1
      BY <3>1, Places
    <3>5. /\ words'[c] = words[c] + 1 /\ words'[at] = obj.t /\ words'[at + 1] = obj.v
          /\ \A x \in 0..CurFrameAt : x \notin {c, at, at + 1} => words'[x] = words[x]
      <4>1. c \in 0..CurFrameAt /\ at \in 0..CurFrameAt /\ at + 1 \in 0..CurFrameAt
            /\ at # at + 1 /\ obj.t + pad = obj.t
        <5>1. obj.t + pad = obj.t
          BY <3>3, TagIsRead
        <5>2. c \in 0..CurFrameAt /\ at \in 0..CurFrameAt /\ at + 1 \in 0..CurFrameAt
          BY <3>1, Sizes
        <5> HIDE DEF c, at
        <5>3. at # at + 1
          BY <5>2, Sizes
        <5> QED BY <5>1, <5>2, <5>3
      <4> HIDE DEF c, at
      <4> QED BY <1>1, <2>1, <3>4, <4>1
    <3>6. Frame' = Frame
      <4>1. CurFrameAt \in 0..CurFrameAt /\ CurFrameAt \notin {c, at, at + 1}
        BY <3>1, Sizes
      <4> HIDE DEF c, at
      <4> QED BY <3>5, <4>1 DEF Frame, CurFrameAt, Width
    <3>7. ASSUME NEW i \in 1..Len(given) - 1 PROVE FrameHeld(i)'
      <4>1. /\ i \in 1..NFrames /\ i - 1 \in 0..NFrames - 1 /\ i - 1 # Frame /\ i <= Len(given)
        BY <1>2, <3>1, <3>2, Sizes
      <4>2. given'[i] = given[i] /\ FrameHeld(i) /\ Types
        BY <2>5, <3>2 DEF IInv
      <4>3. /\ CounterAt(i - 1) \in 0..CurFrameAt /\ CounterAt(i - 1) \notin {c, at, at + 1}
            /\ \A k \in 0..PerFrame - 1 :
                 /\ HandleAt(i - 1, k) \in 0..CurFrameAt
                 /\ HandleAt(i - 1, k) \notin {c, at, at + 1}
                 /\ HandleAt(i - 1, k) + 1 \in 0..CurFrameAt
                 /\ HandleAt(i - 1, k) + 1 \notin {c, at, at + 1}
        <5>1. \A x \in 0..CurFrameAt - 1 : x \in 0..CurFrameAt
          BY Sizes
        <5>2. /\ CounterAt(i - 1) \in 0..CurFrameAt /\ CounterAt(i - 1) \notin {c, at, at + 1}
          BY <3>1, <4>1, <5>1, Places
        <5>3. ASSUME NEW k \in 0..PerFrame - 1
              PROVE  /\ HandleAt(i - 1, k) \in 0..CurFrameAt
                     /\ HandleAt(i - 1, k) \notin {c, at, at + 1}
                     /\ HandleAt(i - 1, k) + 1 \in 0..CurFrameAt
                     /\ HandleAt(i - 1, k) + 1 \notin {c, at}
          BY <3>1, <4>1, <5>1, Places
        <5>4. ASSUME NEW k \in 0..PerFrame - 1
              PROVE  HandleAt(i - 1, k) + 1 # at + 1
          <6>1. HandleAt(i - 1, k) \in Nat /\ at \in Nat /\ HandleAt(i - 1, k) # at
            BY <2>3, <4>1, <5>3, Places, Sizes
          <6> HIDE DEF at
          <6> QED BY <6>1
        <5> QED BY <5>2, <5>3, <5>4
      <4> HIDE DEF c, at
      <4> QED BY <3>5, <4>1, <4>2, <4>3, FrameKept
    <3>8. ASSUME NEW i \in Nat, i = Len(given) PROVE FrameHeld(i)'
      <4> DEFINE n == Len(Last(given))
      <4>1. /\ i - 1 = Frame /\ given'[i] = new /\ given[i] = Last(given) /\ FrameHeld(i)
            /\ n = words[c] /\ n \in 0..PerFrame - 1
        BY <1>2, <1>4, <2>5, <3>1, <3>2, <3>8
      <4>2. Len(given'[i]) <= PerFrame /\ words'[CounterAt(i - 1)] = Len(given'[i])
        BY <2>4, <3>5, <4>1, Sizes
      <4>3. ASSUME NEW k \in 1..n
            PROVE  /\ given'[i][k].at = HandleAt(i - 1, k - 1)
                   /\ Read(HandleAt(i - 1, k - 1))' = given'[i][k].obj
        <5>1. /\ given'[i][k] = given[i][k] /\ given[i][k].at = HandleAt(i - 1, k - 1)
              /\ Read(HandleAt(i - 1, k - 1)) = given[i][k].obj
          BY <2>4, <4>1 DEF FrameHeld
        <5>2. k - 1 \in 0..PerFrame - 1 /\ k - 1 # n
          BY <4>1, Sizes
        <5> DEFINE h == HandleAt(Frame, k - 1)
        <5>3. /\ h \in 0..CurFrameAt - 1 /\ h + 1 \in 0..CurFrameAt - 1
              /\ h \notin {c, at, at + 1} /\ h + 1 \notin {c, at}
          BY <3>1, <4>1, <5>2, Places
        <5>4. h + 1 # at + 1
          <6>1. h \in Nat /\ at \in Nat /\ h # at
            BY <2>3, <5>3, Sizes
          <6> HIDE DEF at, h
          <6> QED BY <6>1
        <5>5. words'[h] = words[h] /\ words'[h + 1] = words[h + 1]
          <6>1. h \in 0..CurFrameAt /\ h + 1 \in 0..CurFrameAt
            BY <5>3, Sizes
          <6> HIDE DEF h, at, c
          <6> QED BY <3>5, <5>3, <5>4, <6>1
        <5>6. Read(HandleAt(i - 1, k - 1))' = Read(HandleAt(i - 1, k - 1))
          BY <4>1, <5>5 DEF Read, HandleAt, Width
        <5> QED BY <5>1, <5>6
      <4>4. ASSUME NEW k \in Nat, k = n + 1
            PROVE  /\ given'[i][k].at = HandleAt(i - 1, k - 1)
                   /\ Read(HandleAt(i - 1, k - 1))' = given'[i][k].obj
        <5>1. given'[i][k] = [at |-> at, obj |-> obj] /\ k - 1 = n
          BY <2>4, <4>1, <4>4
        <5>2. at = HandleAt(i - 1, k - 1)
          BY <4>1, <5>1
        <5>3. Read(HandleAt(i - 1, k - 1))' = [t |-> words'[at] % Padding, v |-> words'[at + 1]]
          BY <5>2 DEF Read, HandleAt, Width
        <5>4. obj = [t |-> obj.t, v |-> obj.v]
          BY HandlesAssumption
        <5> QED BY <3>5, <5>1, <5>2, <5>3, <5>4, TagIsRead
      <4>5. \A k \in 1..Len(given'[i]) : k \in 1..n \/ k = n + 1
        BY <2>4, <4>1
      <4> HIDE DEF n
      <4> QED BY <4>2, <4>3, <4>4, <4>5 DEF FrameHeld, HandleAt, CounterAt, Width
    <3>9. ASSUME NEW i \in 1..Len(given') PROVE FrameHeld(i)'
      <4>1. i \in 1..Len(given) - 1 \/ i = Len(given)
        BY <1>2, <2>5
      <4> QED BY <3>7, <3>8, <4>1
    <3> QED BY <2>2, <2>5, <3>1, <3>2, <3>6, <3>9 DEF Held
  <2> QED BY <2>8, <2>9 DEF IInv
<1> QED BY <1>6, <1>7
LEMMA NextIInv == IInv /\ [Next]_vars => IInv'
<1>1. ASSUME IInv, UNCHANGED vars PROVE IInv'
  BY <1>1 DEF vars, IInv, Types, Held, FrameHeld, exceeded, Frame, Read, Handle, Frames,
              CounterAt, HandleAt, CurFrameAt, Width
<1> QED BY <1>1, GiveIInv, PushIInv, PopIInv DEF Next

LEMMA Invariant == Spec => []IInv
BY InitIInv, NextIInv, PTL DEF Spec

-----------------------------------------------------------------------------
(* What follows from it.                                                   *)

AllHold == \A i \in DOMAIN given : \A h \in Range(given[i]) : Holds(h)

LEMMA BelowLimits == IInv /\ ~exceeded => ~faulted /\ AllHold
<1> SUFFICES ASSUME IInv, ~exceeded, NEW i \in DOMAIN given, NEW h \in Range(given[i])
             PROVE  ~faulted /\ Holds(h)
  BY DEF AllHold, IInv, Held
<1>1. /\ given \in Seq(Frames) /\ Len(given) \in Nat /\ Len(given) <= NFrames /\ ~faulted
      /\ \A j \in 1..Len(given) : FrameHeld(j)
  BY Sizes DEF IInv, Types, Held
<1>2. i \in 1..Len(given) /\ i - 1 \in 0..NFrames - 1 /\ given[i] \in Seq(Handle)
  BY <1>1, Sizes DEF Frames
<1>3. PICK k \in 1..Len(given[i]) : h = given[i][k]
  BY <1>2 DEF Range
<1>4. /\ Len(given[i]) <= PerFrame /\ given[i][k].at = HandleAt(i - 1, k - 1)
      /\ Read(HandleAt(i - 1, k - 1)) = given[i][k].obj
  BY <1>1, <1>2 DEF FrameHeld
<1>5. k - 1 \in 0..PerFrame - 1
  BY <1>2, <1>4, Sizes
<1>6. HandleAt(i - 1, k - 1) \in 0..CurFrameAt - 1
  BY <1>2, <1>5, Places
<1> QED BY <1>1, <1>3, <1>4, <1>6 DEF Holds

\* A handle's words lie before the word behind the counter of its own or a later frame.
LEMMA BeforeOverrun ==
  ASSUME NEW g \in 0..NFrames - 1, NEW f \in 0..g, NEW k \in 0..PerFrame - 1
  PROVE  HandleAt(f, k) + 1 < CounterAt(g)
<1>1. f * Width \in Nat /\ g * Width \in Nat /\ f * Width <= g * Width
  <2>1. CASE f = g
    BY <2>1, Sizes
  <2>2. CASE f < g
    <3>1. f * Width + Width <= g * Width
      BY <2>2, Sizes, Steps
    <3>2. f * Width \in Nat /\ g * Width \in Nat
      BY Sizes
    <3> QED BY <3>1, <3>2, Sizes
  <2> QED BY <2>1, <2>2
<1>2. 2 * k + 1 < 2 * PerFrame
  BY Sizes
<1>3. HandleAt(f, k) = f * Width + 2 * k /\ CounterAt(g) = g * Width + 2 * PerFrame
  BY DEF HandleAt, CounterAt
<1> QED BY <1>1, <1>2, <1>3, Sizes

\* The handle too many is written over the counter of its frame and the word behind it,
\* where no handle of the client's has its own.
LEMMA OneTooMany ==
  ASSUME IInv, ~exceeded, NEW obj \in Objs, Give(obj), Len(Last(given)) = PerFrame
  PROVE  AllHold'
<1> DEFINE c == CounterAt(Frame)
           n == Len(given)
           new == [at |-> c, obj |-> obj]
           \* h holds after the call.
           Stays(h) == /\ h.at \in 0..CurFrameAt - 1
                       /\ [t |-> words'[h.at] % Padding, v |-> words'[h.at + 1]] = h.obj
<1>1. /\ Frame \in 0..NFrames - 1 /\ Frame = n - 1 /\ Last(given) = given[n]
      /\ Last(given) \in Frames /\ words[c] = PerFrame
  BY Current
<1>2. /\ given \in Seq(Frames) /\ n \in 1..NFrames /\ words \in [0..CurFrameAt -> Nat]
  BY Sizes DEF IInv, Types, Held
<1>3. /\ c \in Nat /\ c < CurFrameAt /\ CurFrameAt \in Nat /\ HandleAt(Frame, PerFrame) = c
  <2>1. c \in 0..CurFrameAt - 1
    BY <1>1, Places
  <2> QED BY <2>1, Sizes DEF HandleAt, CounterAt
<1>4. /\ \E pad \in Paddings(c) :
           words' = [words EXCEPT ![c] = @ + 1, ![c] = obj.t + pad, ![c + 1] = obj.v]
      /\ given' = Front(given) \o <<Append(Last(given), new)>>
  <2>1. HandleAt(Frame, words[c]) = c
    BY <1>1, <1>3
  <2>2. ~(c > CurFrameAt) /\ ~(c + 1 > CurFrameAt)
    BY <1>3
  <2> HIDE DEF c
  <2> QED BY <2>1, <2>2 DEF Give, Written, c
<1>5. PICK pad \in {0, Padding} :
        words' = [words EXCEPT ![c] = @ + 1, ![c] = obj.t + pad, ![c + 1] = obj.v]
  BY <1>4 DEF Paddings
<1>6. /\ words'[c] % Padding = obj.t /\ words'[c + 1] = obj.v
      /\ \A x \in 0..CurFrameAt : x # c /\ x # c + 1 => words'[x] = words[x]
  <2>1. (obj.t + pad) % Padding = obj.t
    <3>1. obj.t \in 0..2 /\ Padding \in Nat /\ Padding > 2
      BY TagIsRead
    <3>2. \A t \in 0..2 : (t + 0) % Padding = t /\ (t + Padding) % Padding = t
      BY <3>1
    <3> QED BY <3>1, <3>2
  <2>2. c \in 0..CurFrameAt /\ c + 1 \in 0..CurFrameAt /\ c # c + 1
    BY <1>3
  <2> HIDE DEF c
  <2>3. /\ words'[c] = obj.t + pad /\ words'[c + 1] = obj.v
        /\ \A x \in 0..CurFrameAt : x # c /\ x # c + 1 => words'[x] = words[x]
    BY <1>2, <1>5, <2>2
  <2> QED BY <2>1, <2>3
<1>7. /\ DOMAIN given' = 1..n /\ given'[n] = Append(given[n], new)
      /\ \A i \in 1..n - 1 : given'[i] = given[i]
  <2>1. new \in Handle
    BY <1>3 DEF Handle
  <2> HIDE DEF new, c
  <2>2. Append(Last(given), new) \in Frames
    BY <1>1, <2>1 DEF Frames
  <2>3. /\ Front(given) \in Seq(Frames) /\ Len(Front(given)) = n - 1
        /\ \A i \in 1..n - 1 : Front(given)[i] = given[i]
    <3>1. given \in Seq(Frames) /\ Len(given) >= 1
      BY DEF IInv, Types
    <3> QED BY <3>1, FrontLast, Zenon
  <2> DEFINE last == Append(Last(given), new)
             front == Front(given)
  <2>4. last \in Frames /\ given' = front \o <<last>> /\ last = Append(given[n], new)
    BY <1>1, <1>4, <2>2
  <2>5. /\ front \in Seq(Frames) /\ Len(front) = n - 1 /\ n \in Nat /\ n >= 1
        /\ \A i \in 1..n - 1 : front[i] = given[i]
    BY <1>2, <2>3, Sizes
  <2> HIDE DEF last, front, n
  <2>6. given' \in Seq(Frames) /\ Len(given') = n
    BY <2>4, <2>5
  <2>7. given'[n] = last
    BY <2>4, <2>5
  <2>8. \A i \in 1..n - 1 : given'[i] = front[i]
    BY <2>4, <2>5
  <2>9. DOMAIN given' = 1..n
    BY <2>6
  <2> QED BY <2>4, <2>5, <2>7, <2>8, <2>9
<1>8. ASSUME NEW i \in 1..n, NEW k \in 1..Len(given[i])
      PROVE  Stays(given[i][k])
  <2>1. /\ FrameHeld(i) /\ i - 1 \in 0..Frame /\ i - 1 \in 0..NFrames - 1
        /\ given[i] \in Seq(Handle)
    BY <1>1, <1>2, Sizes DEF IInv, Held, Frames
  <2> DEFINE a == HandleAt(i - 1, k - 1)
  <2>2. /\ given[i][k].at = a /\ Read(a) = given[i][k].obj /\ k - 1 \in 0..PerFrame - 1
    BY <2>1, Sizes DEF FrameHeld
  <2>3. a \in 0..CurFrameAt - 1 /\ a + 1 < c
    BY <1>1, <2>1, <2>2, Places, BeforeOverrun
  <2> HIDE DEF a, c
  <2>4. words'[a] = words[a] /\ words'[a + 1] = words[a + 1]
    BY <1>3, <1>6, <2>3
  <2> QED BY <2>2, <2>3, <2>4 DEF Read
<1>9. Stays(new)
  <2>1. obj = [t |-> obj.t, v |-> obj.v]
    BY HandlesAssumption
  <2>2. new.at = c /\ new.obj = obj /\ c \in 0..CurFrameAt - 1
    BY <1>3
  <2> HIDE DEF new, c
  <2> QED BY <1>6, <2>1, <2>2
<1> HIDE DEF Stays, new, n
<1>10. ASSUME NEW i \in 1..n, NEW h \in Range(given'[i]) PROVE Stays(h)
  <2>1. given[i] \in Seq(Handle)
    BY <1>2 DEF Frames, n
  <2>2. PICK k \in DOMAIN given'[i] : h = given'[i][k]
    BY DEF Range
  <2>3. CASE i # n
    <3>1. given'[i] = given[i]
      BY <1>2, <1>7, <2>3
    <3> QED BY <1>8, <2>1, <2>2, <3>1
  <2>4. CASE i = n
    <3>1. (k \in 1..Len(given[i]) /\ h = given[i][k]) \/ h = new
      BY <1>7, <2>1, <2>2, <2>4
    <3> QED BY <1>8, <1>9, <3>1
  <2> QED BY <2>3, <2>4
<1>11. \A h : Stays(h) => Holds(h)'
  BY DEF Stays, Holds, Read, CurFrameAt, Width
<1> QED BY <1>7, <1>10, <1>11 DEF AllHold

\* A first frame too many ends outside the memory.
LEMMA FrameTooMany ==
  ASSUME IInv, ~exceeded, Push, Len(given) = NFrames
  PROVE  faulted'
<1>1. Frame + 1 = NFrames
  BY Current, Sizes
<1>2. CounterAt(NFrames) > CurFrameAt
  BY Sizes DEF CounterAt
<1> QED BY <1>1, <1>2 DEF Push, Fault

\* Every handle reads back its value (lib/handle.c:15-40), for any number of frames and
\* handles, any nesting of push and pop and any values, below the limits and after the
\* call that passes one.
THEOREM HandlesStayTrue == Spec => []HandlesHold
<1>1. Init => HandlesHold
  <2>1. Init => beyond = 0
    BY DEF Init
  <2> QED BY <2>1, InitIInv, BelowLimits DEF HandlesHold, exceeded, AllHold
<1>2. IInv /\ IInv' /\ HandlesHold /\ [Next]_vars => HandlesHold'
  <2>a. IInv' /\ ~exceeded' => ~faulted' /\ AllHold'
    BY BelowLimits, PTL
  <2> SUFFICES ASSUME IInv, IInv', HandlesHold, [Next]_vars PROVE HandlesHold'
    OBVIOUS
  <2>1. CASE ~exceeded'
    BY <2>1, <2>a DEF HandlesHold, AllHold
  <2>2. CASE UNCHANGED vars
    BY <2>2 DEF HandlesHold, vars, exceeded, Holds, Read, CurFrameAt, Width
  <2>3. ASSUME exceeded', Next, ~faulted', beyond' <= 1 PROVE AllHold'
    <3>0. beyond \in Nat
      BY DEF IInv, Types
    <3>1. \A atLimit \in BOOLEAN : Count(atLimit) => ~exceeded /\ atLimit
      BY <2>3, <3>0 DEF Count, exceeded
    <3>2. ASSUME NEW obj \in Objs, Give(obj) PROVE AllHold'
      <4>1. ~exceeded /\ Len(Last(given)) = PerFrame
        BY <3>1, <3>2 DEF Give
      <4> QED BY <3>2, <4>1, OneTooMany
    <3>3. ~Push
      <4>1. Push => ~exceeded /\ Len(given) = NFrames
        BY <3>1 DEF Push
      <4> QED BY <2>3, <4>1, FrameTooMany
    <3>4. ~Pop
      BY <3>1 DEF Pop
    <3> QED BY <2>3, <3>2, <3>3, <3>4 DEF Next
  <2> QED BY <2>1, <2>2, <2>3 DEF HandlesHold, AllHold
<1> QED BY <1>1, <1>2, InitIInv, NextIInv, PTL DEF Spec

\* The values the client was given and has not popped.
Kept == [i \in 1..Len(given) |-> [k \in 1..Len(given[i]) |-> given[i][k].obj]]

LEMMA MemoryHolds == IInv /\ ~exceeded => InMemory = Kept
<1> SUFFICES ASSUME IInv, ~exceeded PROVE InMemory = Kept
  OBVIOUS
<1>1. /\ given \in Seq(Frames) /\ Len(given) \in Nat /\ Len(given) <= NFrames
      /\ Frame + 1 = Len(given) /\ \A j \in 1..Len(given) : FrameHeld(j)
  BY Sizes DEF IInv, Types, Held
<1>2. ASSUME NEW i \in 1..Len(given)
      PROVE  [k \in 1..words[CounterAt(i - 1)] |->
                LET at == HandleAt(i - 1, k - 1) IN IF at < CurFrameAt THEN Read(at) ELSE Junk]
             = [k \in 1..Len(given[i]) |-> given[i][k].obj]
  <2>1. words[CounterAt(i - 1)] = Len(given[i]) /\ i - 1 \in 0..NFrames - 1
    BY <1>1, Sizes DEF FrameHeld
  <2>2. ASSUME NEW k \in 1..Len(given[i])
        PROVE  HandleAt(i - 1, k - 1) < CurFrameAt /\ Read(HandleAt(i - 1, k - 1)) = given[i][k].obj
    <3>1. given[i] \in Seq(Handle) /\ Len(given[i]) <= PerFrame
      BY <1>1 DEF FrameHeld, Frames
    <3>2. k - 1 \in 0..PerFrame - 1
      BY <3>1, Sizes
    <3>3. HandleAt(i - 1, k - 1) \in 0..CurFrameAt - 1
      BY <2>1, <3>2, Places
    <3> QED BY <1>1, <3>3, Sizes DEF FrameHeld
  <2> QED BY <2>1, <2>2
<1> QED BY <1>1, <1>2 DEF InMemory, Kept

\* The function f of 1..n - 1, with e for n.
With(f, n, e) == [i \in 1..n |-> IF i = n THEN e ELSE f[i]]

LEMMA OneMore ==
  ASSUME NEW n \in Nat, n >= 1, NEW e, NEW f, f = [i \in 1..n - 1 |-> f[i]]
  PROVE  f \o <<e>> = With(f, n, e)
<1> DEFINE S == {f[i] : i \in 1..n - 1}
<1>1. f \in Seq(S) /\ Len(f) = n - 1
  <2>1. \A i \in 1..n - 1 : f[i] \in S
    OBVIOUS
  <2>2. n - 1 \in Nat
    OBVIOUS
  <2> HIDE DEF S
  <2> QED BY <2>1, <2>2
<1> HIDE DEF S
<1>2. f \o <<e>> = [i \in 1..n |-> (f \o <<e>>)[i]]
  <2> DEFINE s == f \o <<e>>
  <2>1. s \in Seq(S \cup {e}) /\ Len(s) = n
    <3>1. f \in Seq(S \cup {e}) /\ <<e>> \in Seq(S \cup {e}) /\ Len(<<e>>) = 1
      BY <1>1
    <3> QED BY <1>1, <3>1
  <2> HIDE DEF s
  <2>2. s = [i \in 1..n |-> s[i]]
    BY <2>1
  <2> QED BY <2>2 DEF s
<1>3. \A i \in 1..n : (f \o <<e>>)[i] = IF i = n THEN e ELSE f[i]
  BY <1>1
<1> QED BY <1>2, <1>3 DEF With

\* The values of one more handle in the last frame.
LEMMA KeptGiven ==
  ASSUME NEW obj \in Objs, Give(obj), ~faulted', IInv
  PROVE  Kept' = Front(Kept) \o <<Append(Last(Kept), obj)>>
<1>1. PICK at : given' = Front(given) \o <<Append(Last(given), [at |-> at, obj |-> obj])>>
  BY DEF Give, Fault
<1> DEFINE h == [at |-> at, obj |-> obj]
           n == Len(given)
           objs(f) == [k \in 1..Len(f) |-> f[k].obj]
<1>2. given \in Seq(Frames) /\ n \in Nat /\ n >= 1
  BY DEF IInv, Types
<1>3. /\ Front(given) \in Seq(Frames) /\ Len(Front(given)) = n - 1
      /\ \A i \in 1..n - 1 : Front(given)[i] = given[i]
      /\ Last(given) \in Frames /\ Last(given) = given[n]
  BY <1>2, FrontLast, Zenon
<1>4. /\ Len(given') = n /\ given'[n] = Append(Last(given), h)
      /\ \A i \in 1..n - 1 : given'[i] = given[i]
  <2> DEFINE last == Append(Last(given), h)
             front == Front(given)
  <2>1. given' = front \o <<last>>
    BY <1>1
  <2>2. front \in Seq(Frames) /\ Len(front) = n - 1
    BY <1>3
  <2>3. n \in Nat /\ n >= 1
    BY <1>2
  <2> HIDE DEF last, front, n
  <2>4. Len(given') = n
    BY <2>1, <2>2, <2>3
  <2>5. given'[n] = last
    BY <2>1, <2>2, <2>3
  <2>6. \A i \in 1..n - 1 : given'[i] = front[i]
    BY <2>1, <2>2, <2>3
  <2> QED BY <1>3, <2>4, <2>5, <2>6 DEF last, front
<1>5. Kept \in Seq({objs(given[i]) : i \in 1..n}) /\ Len(Kept) = n
      /\ \A i \in 1..n : Kept[i] = objs(given[i])
  BY <1>2 DEF Kept
<1>6. /\ Front(Kept) = [i \in 1..n - 1 |-> objs(given[i])]
      /\ Last(Kept) = objs(Last(given))
  <2>1. Front(Kept) = [i \in 1..n - 1 |-> Kept[i]] /\ Last(Kept) = Kept[n]
    BY <1>5 DEF Front, Last
  <2> HIDE DEF objs, n, Front, Last, Kept
  <2>2. \A i \in 1..n - 1 : i \in 1..n
    BY <1>2
  <2>3. n \in 1..n
    BY <1>2
  <2> QED BY <1>3, <1>5, <2>1, <2>2, <2>3
<1>7. objs(Append(Last(given), h)) = Append(objs(Last(given)), obj)
  <2>1. Last(given) \in Seq(Handle)
    BY <1>3 DEF Frames
  <2> QED BY <2>1
<1>8. Kept' = [i \in 1..n |-> objs(given'[i])]
  BY <1>4 DEF Kept
<1>9. \A i \in 1..n : objs(given'[i]) = IF i = n THEN Append(Last(Kept), obj) ELSE Front(Kept)[i]
  <2> HIDE DEF objs, n, h, Kept, Front, Last
  <2>1. objs(given'[n]) = Append(Last(Kept), obj)
    BY <1>4, <1>6, <1>7
  <2>2. ASSUME NEW i \in 1..n, i # n
        PROVE  objs(given'[i]) = Front(Kept)[i]
    <3>1. i \in 1..n - 1
      BY <1>2, <2>2
    <3> QED BY <1>4, <1>6, <3>1
  <2> QED BY <2>1, <2>2
<1>10. Kept' = With(Front(Kept), n, Append(Last(Kept), obj))
  <2> HIDE DEF objs, n, h, Kept, Front, Last
  <2> QED BY <1>8, <1>9 DEF With
<1> HIDE DEF objs, n, h, Kept, Front, Last
<1>11. Front(Kept) = [i \in 1..n - 1 |-> Front(Kept)[i]]
  BY <1>6
<1>12. Front(Kept) \o <<Append(Last(Kept), obj)>>
         = With(Front(Kept), n, Append(Last(Kept), obj))
  BY <1>2, <1>11, OneMore, Zenon
<1> QED BY <1>10, <1>12
\* The values of one more frame.
LEMMA KeptPushed ==
  ASSUME Push, ~faulted', IInv PROVE Kept' = Append(Kept, <<>>)
<1> DEFINE n == Len(given)
           objs(f) == [k \in 1..Len(f) |-> f[k].obj]
<1>1. given' = Append(given, <<>>)
  BY DEF Push, Fault
<1>2. given \in Seq(Frames) /\ n \in Nat /\ n >= 1
  BY DEF IInv, Types
<1>3. /\ Len(given') = n + 1 /\ given'[n + 1] = <<>>
      /\ \A i \in 1..n : given'[i] = given[i]
  <2>1. <<>> \in Frames
    BY DEF Frames
  <2> QED BY <1>1, <1>2, <2>1
<1>4. objs(<<>>) = <<>>
  OBVIOUS
<1>5. Kept = [i \in 1..(n + 1) - 1 |-> Kept[i]] /\ n + 1 \in Nat /\ n + 1 >= 1
  BY <1>2 DEF Kept
<1>6. Kept' = [i \in 1..n + 1 |-> objs(given'[i])] /\ \A i \in 1..n : Kept[i] = objs(given[i])
  BY <1>3 DEF Kept
<1> HIDE DEF objs, n, Kept
<1>7. Kept' = With(Kept, n + 1, <<>>)
  <2>1. \A i \in 1..n + 1 : objs(given'[i]) = IF i = n + 1 THEN <<>> ELSE Kept[i]
    <3>1. \A i \in 1..n + 1 : i # n + 1 => i \in 1..n
      BY <1>2
    <3> QED BY <1>3, <1>4, <1>6, <3>1
  <2> QED BY <1>6, <2>1 DEF With
<1>8. Kept \o <<<<>>>> = With(Kept, n + 1, <<>>)
  BY <1>5, OneMore, Zenon
<1>9. Append(Kept, <<>>) = Kept \o <<<<>>>>
  <2>1. Kept \in Seq({Kept[i] : i \in 1..n} \cup {<<>>})
    <3> DEFINE S == {Kept[i] : i \in 1..n} \cup {<<>>}
    <3>1. \A i \in 1..n : Kept[i] \in S
      OBVIOUS
    <3>2. Kept = [i \in 1..n |-> Kept[i]]
      BY <1>2, <1>5
    <3> HIDE DEF S
    <3>3. Kept \in Seq(S)
      BY <1>2, <3>1, <3>2
    <3> QED BY <3>3 DEF S
  <2> QED BY <2>1
<1> QED BY <1>7, <1>8, <1>9

\* The values left when the last frame goes.
LEMMA KeptPopped ==
  ASSUME Pop, IInv PROVE Kept' = IF Len(Kept) = 1 THEN <<<<>>>> ELSE Front(Kept)
<1> DEFINE n == Len(given)
           objs(f) == [k \in 1..Len(f) |-> f[k].obj]
<1>1. given \in Seq(Frames) /\ n \in Nat /\ n >= 1
  BY DEF IInv, Types
<1>2. Kept = [i \in 1..n |-> objs(given[i])] /\ Len(Kept) = n
  BY <1>1 DEF Kept
<1>3. CASE n = 1
  <2>1. given' = <<<<>>>>
    BY <1>3 DEF Pop
  <2>2. Len(given') = 1 /\ given'[1] = <<>>
    BY <2>1
  <2>3. Kept' = [i \in 1..1 |-> objs(<<>>)]
    BY <2>2 DEF Kept
  <2>4. objs(<<>>) = <<>>
    OBVIOUS
  <2>5. Kept' = <<<<>>>>
    BY <2>3, <2>4
  <2> QED BY <1>2, <1>3, <2>5
<1>4. CASE n # 1
  <2>1. given' = Front(given)
    BY <1>4 DEF Pop
  <2>2. /\ Len(Front(given)) = n - 1 /\ \A i \in 1..n - 1 : Front(given)[i] = given[i]
    BY <1>1, FrontLast, Zenon
  <2>3. Kept' = [i \in 1..n - 1 |-> objs(given[i])]
    <3>1. Kept' = [i \in 1..n - 1 |-> objs(given'[i])]
      BY <2>1, <2>2 DEF Kept
    <3> HIDE DEF objs, n, Front
    <3> QED BY <2>1, <2>2, <3>1
  <2>4. Front(Kept) = [i \in 1..n - 1 |-> Kept[i]]
    BY <1>2 DEF Front
  <2>5. Front(Kept) = Kept'
    <3>1. \A i \in 1..n - 1 : i \in 1..n
      BY <1>1
    <3> HIDE DEF objs, n, Front, Kept
    <3> QED BY <1>2, <2>3, <2>4, <3>1
  <2> QED BY <1>2, <1>4, <2>5
<1> QED BY <1>3, <1>4

\* Every call is one of the stack of frames, or one that may do anything.
LEMMA StepsRefine == IInv /\ IInv' /\ [Next]_vars => [Abstract!Next]_<<InMemory, exceeded>>
<1>a. IInv' /\ ~exceeded' => (InMemory = Kept)'
  BY MemoryHolds, PTL
<1> SUFFICES ASSUME IInv, IInv', [Next]_vars PROVE [Abstract!Next]_<<InMemory, exceeded>>
  OBVIOUS
<1>b. (~exceeded => InMemory = Kept) /\ (~exceeded' => InMemory' = Kept')
  BY <1>a, MemoryHolds
<1>c. \A s : Abstract!Front(s) = Front(s) /\ Abstract!Last(s) = Last(s)
  BY DEF Abstract!Front, Abstract!Last, Front, Last
<1>0. given \in Seq(Frames) /\ Len(given) \in Nat /\ Len(given) >= 1 /\ beyond \in Nat
  BY DEF IInv, Types
<1>1. ~exceeded => /\ Len(Kept) = Len(given) /\ Len(Last(Kept)) = Len(Last(given))
                   /\ Len(Last(given)) <= PerFrame /\ Len(given) <= NFrames
                   /\ Len(Last(given)) \in Nat
  <2> SUFFICES ASSUME ~exceeded
               PROVE  /\ Len(Kept) = Len(given) /\ Len(Last(Kept)) = Len(Last(given))
                      /\ Len(Last(given)) <= PerFrame /\ Len(given) <= NFrames
                      /\ Len(Last(given)) \in Nat
    OBVIOUS
  <2>1. /\ Last(given) = given[Len(given)] /\ Last(given) \in Frames
        /\ Len(Last(given)) <= PerFrame
    BY Current
  <2>2. Len(Kept) = Len(given) /\ Kept[Len(given)] = [k \in 1..Len(given[Len(given)]) |-> given[Len(given)][k].obj]
    BY <1>0 DEF Kept
  <2>3. Last(Kept) = Kept[Len(given)]
    BY <2>2 DEF Last
  <2>4. Len(given) <= NFrames
    BY Sizes DEF IInv, Held
  <2>5. Len(Last(given)) \in Nat
    BY <2>1 DEF Frames
  <2>6. Len(Kept[Len(given)]) = Len(given[Len(given)])
    BY <2>1, <2>2, <2>5
  <2> QED BY <2>1, <2>2, <2>3, <2>4, <2>5, <2>6
<1>2. ASSUME NEW atLimit \in BOOLEAN, Count(atLimit),
             ~exceeded /\ atLimit =>
               \/ Len(Last(Kept)) = PerFrame \/ Len(Kept) = NFrames,
             ~exceeded' => /\ InMemory = Kept /\ ~exceeded
                           /\ Abstract!Give \/ Abstract!Push \/ Abstract!Pop
      PROVE  Abstract!Next
  <2>1. (exceeded' <=> exceeded \/ atLimit) /\ exceeded \in BOOLEAN /\ exceeded' \in BOOLEAN
    BY <1>0, <1>2, Counted DEF exceeded
  <2>2. CASE exceeded
    BY <2>1, <2>2 DEF Abstract!Next
  <2>3. CASE ~exceeded /\ atLimit
    <3>1. exceeded' = TRUE /\ InMemory = Kept
      BY <1>b, <2>1, <2>3
    <3>2. Len(Abstract!Last(InMemory)) = PerFrame \/ Len(InMemory) = NFrames
      BY <1>2, <1>c, <2>3, <3>1
    <3> QED BY <2>3, <3>1, <3>2, Zenon DEF Abstract!Next, Abstract!PassLimit
  <2>4. CASE ~exceeded /\ ~atLimit
    <3>1. exceeded' = exceeded
      BY <2>1, <2>4
    <3> QED BY <1>2, <2>1, <2>4, <3>1, Zenon DEF Abstract!Next
  <2> QED BY <2>2, <2>3, <2>4
<1>3. ~exceeded' => ~faulted'
  BY DEF IInv, Held
<1>4. ASSUME NEW obj \in Objs, Give(obj) PROVE Abstract!Next
  <2>1. Count(Len(Last(given)) = PerFrame)
    BY <1>4 DEF Give
  <2>2. exceeded' <=> exceeded \/ Len(Last(given)) = PerFrame
    BY <1>0, <2>1, Counted
  <2>3. ASSUME ~exceeded' PROVE InMemory = Kept /\ ~exceeded /\ Abstract!Give
    <3>1. Kept' = Front(Kept) \o <<Append(Last(Kept), obj)>>
      BY <1>3, <1>4, <2>3, KeptGiven
    <3>2. ~exceeded /\ InMemory = Kept /\ InMemory' = Kept'
      BY <1>b, <2>2, <2>3
    <3>3. Len(Last(Kept)) < PerFrame
      BY <1>1, <2>2, <2>3, <3>2, Sizes
    <3> QED BY <1>c, <3>1, <3>2, <3>3 DEF Abstract!Give
  <2> QED BY <1>1, <1>2, <2>1, <2>3
<1>5. ASSUME Push PROVE Abstract!Next
  <2>1. Count(Len(given) = NFrames)
    BY <1>5 DEF Push
  <2>2. exceeded' <=> exceeded \/ Len(given) = NFrames
    BY <1>0, <2>1, Counted
  <2>3. ASSUME ~exceeded' PROVE InMemory = Kept /\ ~exceeded /\ Abstract!Push
    <3>1. Kept' = Append(Kept, <<>>)
      BY <1>3, <1>5, <2>3, KeptPushed
    <3>2. ~exceeded /\ InMemory = Kept /\ InMemory' = Kept'
      BY <1>b, <2>2, <2>3
    <3>3. Len(Kept) < NFrames
      BY <1>0, <1>1, <2>2, <2>3, <3>2, Sizes
    <3> QED BY <3>1, <3>2, <3>3 DEF Abstract!Push
  <2> QED BY <1>1, <1>2, <2>1, <2>3
<1>6. ASSUME Pop PROVE Abstract!Next
  <2>1. Count(FALSE)
    BY <1>6 DEF Pop
  <2>2. exceeded' <=> exceeded
    BY <1>0, <2>1, Counted
  <2>3. ASSUME ~exceeded' PROVE InMemory = Kept /\ ~exceeded /\ Abstract!Pop
    <3>1. Kept' = IF Len(Kept) = 1 THEN <<<<>>>> ELSE Front(Kept)
      BY <1>6, KeptPopped
    <3>2. ~exceeded /\ InMemory = Kept /\ InMemory' = Kept'
      BY <1>b, <2>2, <2>3
    <3> QED BY <1>c, <3>1, <3>2 DEF Abstract!Pop
  <2> QED BY <1>2, <2>1, <2>3
<1>7. CASE UNCHANGED vars
  BY <1>7 DEF vars, InMemory, exceeded, Frame, CurFrameAt, CounterAt, HandleAt, Width, Read
<1> QED BY <1>4, <1>5, <1>6, <1>7 DEF Next

\* IsHandleStack: the words implement the stack of frames that wist.h:51-60 promises.
THEOREM MemoryIsHandleStack == Spec => IsHandleStack
<1>1. Init => Abstract!Init
  <2> SUFFICES ASSUME Init PROVE InMemory = <<<<>>>> /\ ~exceeded
    BY DEF Abstract!Init
  <2>1. IInv /\ ~exceeded
    BY InitIInv DEF Init, exceeded
  <2>2. InMemory = Kept
    BY <2>1, MemoryHolds
  <2>3. Len(given) = 1 /\ given[1] = <<>>
    BY DEF Init
  <2>4. Kept = [i \in 1..1 |-> [k \in 1..Len(<<>>) |-> <<>>[k].obj]]
    BY <2>3 DEF Kept
  <2>5. [k \in 1..Len(<<>>) |-> <<>>[k].obj] = <<>>
    OBVIOUS
  <2>6. Kept = <<<<>>>>
    BY <2>4, <2>5
  <2> QED BY <2>1, <2>2, <2>6
<1> QED BY <1>1, InitIInv, NextIInv, StepsRefine, PTL
        DEF Spec, IsHandleStack, Abstract!Spec
=============================================================================
