--------------------------- MODULE ObjPoolProofs ---------------------------
(***************************************************************************)
(* The free list of the object pool stays whole, and the pool implements   *)
(* an allocator, for every chunk length and every set of addresses.        *)
(***************************************************************************)
EXTENDS ObjPool, SequenceTheorems, TLAPS

\* The inductive invariant.
IInv == TypeOK /\ FreeListIntact

-----------------------------------------------------------------------------
(* The objects of one chunk.                                               *)

\* new_chunk pushes every object of the chunk, each once, the last one first.
LEMMA PushedChunk ==
  ASSUME NEW c \in Chunks
  PROVE  /\ Pushed(c) \in Seq(Addr) /\ Len(Pushed(c)) = ChunkLen
         /\ \A i \in 1..ChunkLen : Pushed(c)[i] = <<c, ChunkLen - i>>
         /\ Top(c) \in Addr
         /\ \A s \in Addr : s[1] = c => \E i \in 1..ChunkLen : Pushed(c)[i] = s
<1>1. \A i \in 1..ChunkLen : <<c, ChunkLen - i>> \in Addr
  BY LenAssumption DEF Addr
<1>2. Pushed(c) \in Seq(Addr) /\ Len(Pushed(c)) = ChunkLen
  BY <1>1, LenAssumption DEF Pushed
<1>3. \A i \in 1..ChunkLen : Pushed(c)[i] = <<c, ChunkLen - i>>
  BY DEF Pushed
<1>4. Top(c) \in Addr
  BY LenAssumption DEF Top, Addr
<1>5. ASSUME NEW s \in Addr, s[1] = c
      PROVE  \E i \in 1..ChunkLen : Pushed(c)[i] = s
  <2>1. s = <<c, s[2]>> /\ s[2] \in 0..ChunkLen - 1
    BY <1>5 DEF Addr
  <2>2. ChunkLen - s[2] \in 1..ChunkLen /\ ChunkLen - (ChunkLen - s[2]) = s[2]
    BY <2>1, LenAssumption
  <2> QED BY <2>1, <2>2, <1>3
<1> QED BY <1>2, <1>3, <1>4, <1>5

\* The loop of new_chunk links each object to the one before it, the first to
\* what was free before, and touches no other chunk.
LEMMA ThreadedChunk ==
  ASSUME NEW c \in Chunks, NEW rest \in Pointer, link \in [Addr -> Pointer]
  PROVE  /\ Thread(c, rest) \in [Addr -> Pointer]
         /\ \A i \in 1..ChunkLen : Thread(c, rest)[Pushed(c)[i]] =
              IF i = ChunkLen THEN rest ELSE Pushed(c)[i + 1]
         /\ \A s \in Addr : s[1] # c => Thread(c, rest)[s] = link[s]
<1>1. ASSUME NEW s \in Addr, s[1] = c, s[2] # 0
      PROVE  <<c, s[2] - 1>> \in Pointer
  BY <1>1, LenAssumption DEF Addr, Pointer
<1>2. Thread(c, rest) \in [Addr -> Pointer]
  BY <1>1 DEF Thread
<1>3. ASSUME NEW i \in 1..ChunkLen
      PROVE  Thread(c, rest)[Pushed(c)[i]] =
               IF i = ChunkLen THEN rest ELSE Pushed(c)[i + 1]
  <2>1. <<c, ChunkLen - i>> \in Addr
    BY <1>3, LenAssumption DEF Addr
  <2>2. Thread(c, rest)[<<c, ChunkLen - i>>] =
          IF ChunkLen - i = 0 THEN rest ELSE <<c, ChunkLen - i - 1>>
    BY <2>1 DEF Thread
  <2>3. i # ChunkLen => /\ i + 1 \in 1..ChunkLen
                        /\ ChunkLen - (i + 1) = ChunkLen - i - 1
    BY <1>3, LenAssumption
  <2>4. Pushed(c)[i] = <<c, ChunkLen - i>>
    BY PushedChunk
  <2>5. CASE i = ChunkLen
    BY <2>2, <2>4, <2>5, LenAssumption
  <2>6. CASE i # ChunkLen
    <3>1. ChunkLen - i # 0
      BY <2>6, LenAssumption
    <3>2. Pushed(c)[i + 1] = <<c, ChunkLen - i - 1>>
      BY <2>3, <2>6, PushedChunk
    <3> QED BY <2>2, <2>4, <2>6, <3>1, <3>2
  <2> QED BY <2>5, <2>6
<1>4. \A s \in Addr : s[1] # c => Thread(c, rest)[s] = link[s]
  BY DEF Thread
<1> QED BY <1>2, <1>3, <1>4

-----------------------------------------------------------------------------
(* The objects clients have.                                               *)

\* An object that is handed out is live then, and all others are what they were.
LEMMA HandOutAdds ==
  ASSUME TypeOK, NEW s \in Addr, s \notin live, HandOut(s)
  PROVE  /\ owners' \in [Addr -> Nat] /\ owners'[s] = 1 /\ owners[s] = 0
         /\ \A t \in Addr : t # s => owners'[t] = owners[t]
         /\ live' = live \cup {s}
<1>1. owners \in [Addr -> Nat] /\ owners[s] = 0
  BY DEF TypeOK, live
<1>2. /\ owners' \in [Addr -> Nat] /\ owners'[s] = 1
      /\ \A t \in Addr : t # s => owners'[t] = owners[t]
  BY <1>1 DEF HandOut
<1>3. live' = live \cup {s}
  BY <1>1, <1>2 DEF live
<1> QED BY <1>1, <1>2, <1>3

-----------------------------------------------------------------------------
(* The steps of the pool.                                                  *)

\* A new chunk is in no object's way: no object in the client's hands is in it.
LEMMA NewChunk ==
  ASSUME IInv, NEW c \in Chunks, c \notin held
  PROVE  \A i \in 1..ChunkLen : Pushed(c)[i] \notin live
BY PushedChunk DEF IInv, FreeListIntact, NothingLost

\* The head of an initialised pool is null exactly when no object is free.
LEMMA HeadOfList ==
  ASSUME IInv, open
  PROVE  /\ head = Null <=> free = <<>>
         /\ head # Null => /\ 1 \in 1..Len(free) /\ free[1] = head /\ head \in Addr
                          /\ Tail(free) \in Seq(Addr)
                          /\ Len(Tail(free)) = Len(free) - 1
                          /\ \A i \in 1..Len(free) - 1 : Tail(free)[i] = free[i + 1]
<1>1. head = FirstOf(free) /\ free \in Seq(Addr)
  BY DEF IInv, TypeOK, FreeListIntact, Threaded
<1>2. free # <<>> => 1 \in 1..Len(free) /\ free[1] \in Addr
  BY <1>1
<1>3. head = Null <=> free = <<>>
  BY <1>1, <1>2, NullAssumption DEF FirstOf
<1>4. free # <<>> => free[1] = head
  BY <1>1 DEF FirstOf
<1>5. free # <<>> => /\ Tail(free) \in Seq(Addr) /\ Len(Tail(free)) = Len(free) - 1
                    /\ \A i \in 1..Len(free) - 1 : Tail(free)[i] = free[i + 1]
  BY <1>1
<1> QED BY <1>2, <1>3, <1>4, <1>5

LEMMA InitPoolKeeps ==
  ASSUME IInv, NEW c \in Chunks, InitPool(c)
  PROVE  IInv'
<1> USE DEF InitPool
<1>1. Null \in Pointer /\ link \in [Addr -> Pointer]
  BY DEF Pointer, IInv, TypeOK
<1>2. TypeOK'
  <2>1. link' \in [Addr -> Pointer] /\ head' \in Pointer /\ free' \in Seq(Addr)
    BY <1>1, PushedChunk, ThreadedChunk DEF Pointer
  <2>2. held' \subseteq Chunks /\ open' \in BOOLEAN /\ chunks' \in Seq(Chunks)
    BY DEF IInv, TypeOK
  <2> QED BY <2>1, <2>2 DEF IInv, TypeOK
<1>3. Threaded'
  <2>1. free' # <<>> /\ head' = free'[1]
    BY PushedChunk, LenAssumption DEF Top
  <2>2. Len(free') = ChunkLen
    BY PushedChunk
  <2>3. \A i \in 1..ChunkLen :
          link'[free'[i]] = IF i = ChunkLen THEN Null ELSE free'[i + 1]
    BY <1>1, ThreadedChunk
  <2> QED BY <2>1, <2>2, <2>3 DEF Threaded, FirstOf
<1>4. FreeOnce'
  <2>1. \A i, j \in 1..ChunkLen : Pushed(c)[i] = Pushed(c)[j] => i = j
    BY PushedChunk, LenAssumption
  <2>2. free' = Pushed(c) /\ live' = live /\ Len(Pushed(c)) = ChunkLen
    BY PushedChunk DEF live
  <2>3. \A i \in 1..ChunkLen : Pushed(c)[i] \notin live
    BY NewChunk
  <2>4. \A s \in Addr : owners[s] <= 1
    BY DEF IInv, FreeListIntact, FreeOnce
  <2> QED BY <2>1, <2>2, <2>3, <2>4 DEF FreeOnce
<1>5. NothingLost'
  <2>1. \A s \in Addr : InPool(s)' <=> s[1] = c
    BY DEF InPool
  <2>2. ASSUME NEW i \in 1..ChunkLen PROVE Pushed(c)[i] \in Addr /\ Pushed(c)[i][1] = c
    <3>1. ChunkLen - i \in 0..ChunkLen - 1
      BY LenAssumption
    <3> QED BY <3>1, PushedChunk DEF Addr
  <2>3. \A s \in live : s[1] \in held
    BY DEF IInv, FreeListIntact, NothingLost
  <2>4. live' = live
    BY DEF live
  <2> QED BY <2>1, <2>2, <2>3, <2>4, PushedChunk DEF NothingLost
<1> QED BY <1>2, <1>3, <1>4, <1>5 DEF IInv, FreeListIntact

LEMMA TakeKeeps ==
  ASSUME IInv, Take
  PROVE  IInv'
<1> USE DEF Take
<1>1. /\ 1 \in 1..Len(free) /\ free[1] = head /\ head \in Addr
      /\ Tail(free) \in Seq(Addr) /\ Len(Tail(free)) = Len(free) - 1
      /\ \A i \in 1..Len(free) - 1 : Tail(free)[i] = free[i + 1]
  BY HeadOfList
<1>2. Len(free) \in Nat /\ link[head] \in Pointer
  BY <1>1 DEF IInv, TypeOK
<1>3. \A i \in 1..Len(free) - 1 : i + 1 \in 1..Len(free)
  BY <1>2
<1>a. /\ owners' \in [Addr -> Nat] /\ owners'[head] = 1 /\ live' = live \cup {head}
      /\ \A t \in Addr : t # head => owners'[t] = owners[t]
  <2>1. head \notin live
    BY <1>1 DEF IInv, FreeListIntact, FreeOnce
  <2> QED BY <1>1, <2>1, HandOutAdds DEF IInv
<1> HIDE DEF HandOut
<1>4. TypeOK'
  BY <1>1, <1>2, <1>a DEF IInv, TypeOK
<1>5. Threaded'
  <2>1. \A i \in 1..Len(free) :
          link[free[i]] = IF i = Len(free) THEN Null ELSE free[i + 1]
    BY DEF IInv, FreeListIntact, Threaded
  <2>2. link[head] = FirstOf(Tail(free))
    <3>1. CASE Len(free) = 1
      BY <1>1, <2>1, <3>1 DEF FirstOf
    <3>2. CASE Len(free) # 1
      <4>1. Len(free) - 1 \in Nat \ {0} /\ 1 \in 1..Len(free) - 1
        BY <1>1, <1>2, <3>2
      <4>2. link[free[1]] = free[1 + 1]
        BY <1>1, <2>1, <3>2
      <4>3. Tail(free)[1] = free[1 + 1]
        BY <1>1, <4>1
      <4>4. Tail(free) # <<>>
        BY <1>1, <4>1
      <4> QED BY <1>1, <4>2, <4>3, <4>4 DEF FirstOf
    <3> QED BY <3>1, <3>2
  <2>3. ASSUME NEW i \in 1..Len(Tail(free))
        PROVE  link[Tail(free)[i]] =
                 IF i = Len(Tail(free)) THEN Null ELSE Tail(free)[i + 1]
    <3>1. i \in 1..Len(free) - 1 /\ i + 1 \in 1..Len(free)
      BY <1>1, <1>2, <2>3
    <3>2. link[free[i + 1]] = IF i + 1 = Len(free) THEN Null ELSE free[(i + 1) + 1]
      BY <2>1, <3>1
    <3>3. Tail(free)[i] = free[i + 1]
      BY <1>1, <3>1
    <3>4. i # Len(free) - 1 => i + 1 \in 1..Len(free) - 1
      BY <3>1, <1>2
    <3>5. i # Len(free) - 1 => Tail(free)[i + 1] = free[(i + 1) + 1]
      BY <1>1, <3>4
    <3>6. i + 1 = Len(free) <=> i = Len(Tail(free))
      BY <1>1, <1>2, <3>1
    <3>7. CASE i = Len(Tail(free))
      BY <3>2, <3>3, <3>6, <3>7
    <3>8. CASE i # Len(Tail(free))
      BY <1>1, <3>2, <3>3, <3>5, <3>6, <3>8
    <3> QED BY <3>7, <3>8
  <2> QED BY <2>2, <2>3 DEF Threaded
<1>6. FreeOnce'
  <2>1. /\ \A i, j \in 1..Len(free) : free[i] = free[j] => i = j
        /\ \A i \in 1..Len(free) : free[i] \notin live
        /\ \A s \in Addr : owners[s] <= 1
    BY DEF IInv, FreeListIntact, FreeOnce
  <2>2. ASSUME NEW i \in 1..Len(free) - 1
        PROVE  Tail(free)[i] # head /\ Tail(free)[i] \notin live
    BY <1>1, <1>2, <1>3, <2>1
  <2>3. \A i, j \in 1..Len(free) - 1 : Tail(free)[i] = Tail(free)[j] => i = j
    BY <1>1, <1>2, <1>3, <2>1
  <2>4. \A s \in Addr : owners'[s] <= 1
    BY <1>a, <2>1
  <2>5. \A i \in 1..Len(free) - 1 : Tail(free)[i] \notin live'
    BY <1>a, <2>2
  <2> QED BY <1>1, <2>3, <2>4, <2>5 DEF FreeOnce
<1>7. NothingLost'
  <2>1. /\ \A i \in 1..Len(free) : InPool(free[i])
        /\ \A s \in Addr : InPool(s) => s \in live \/ \E i \in 1..Len(free) : free[i] = s
        /\ \A i \in DOMAIN chunks : chunks[i] \in held
        /\ \A s \in live : s[1] \in held
    BY DEF IInv, FreeListIntact, NothingLost
  <2>2. \A s : InPool(s)' <=> InPool(s)
    BY DEF InPool
  <2>3. head[1] \in held
    BY <1>1, <2>1 DEF InPool
  <2>4. ASSUME NEW s \in Addr, InPool(s), s \notin live'
        PROVE  \E i \in 1..Len(free') : free'[i] = s
    <3>1. PICK i \in 1..Len(free) : free[i] = s
      BY <1>a, <2>1, <2>4
    <3>2. i # 1
      BY <1>1, <1>a, <2>4, <3>1
    <3>3. i - 1 \in 1..Len(free) - 1 /\ (i - 1) + 1 = i
      BY <1>2, <3>2
    <3> QED BY <1>1, <3>1, <3>3
  <2>5. \A s \in live' : s[1] \in held
    BY <1>a, <2>1, <2>3
  <2>6. \A i \in 1..Len(free') : InPool(free'[i])
    BY <1>1, <1>3, <2>1
  <2> QED BY <2>1, <2>2, <2>4, <2>5, <2>6 DEF NothingLost
<1> QED BY <1>4, <1>5, <1>6, <1>7 DEF IInv, FreeListIntact

LEMMA GrowKeeps ==
  ASSUME IInv, NEW c \in Chunks, Grow(c)
  PROVE  IInv' /\ Top(c) \in Addr \ live
<1> USE DEF Grow
<1> DEFINE rest == Tail(Pushed(c))
<1>1. /\ free = <<>> /\ head = Null /\ Null \in Pointer
      /\ link \in [Addr -> Pointer] /\ chunks \in Seq(Chunks)
  BY HeadOfList DEF Pointer, IInv, TypeOK
<1>2. /\ Len(Pushed(c)) = ChunkLen /\ ChunkLen \in Nat \ {0}
      /\ Pushed(c) \in Seq(Addr) /\ Pushed(c) # <<>>
      /\ Pushed(c)[1] = Top(c) /\ Top(c) \in Addr /\ 1 \in 1..ChunkLen
  BY PushedChunk, LenAssumption DEF Top
<1>3. /\ rest \in Seq(Addr) /\ Len(rest) = ChunkLen - 1
      /\ \A i \in 1..ChunkLen - 1 : rest[i] = Pushed(c)[i + 1]
  BY <1>2
<1>4. \A i \in 1..ChunkLen - 1 : i + 1 \in 1..ChunkLen
  BY <1>2
<1>5. \A i \in 1..ChunkLen : link'[Pushed(c)[i]] =
        IF i = ChunkLen THEN Null ELSE Pushed(c)[i + 1]
  BY <1>1, ThreadedChunk
<1>6. /\ \A i, j \in 1..ChunkLen : Pushed(c)[i] = Pushed(c)[j] => i = j
      /\ \A i \in 1..ChunkLen : Pushed(c)[i] \in Addr /\ Pushed(c)[i][1] = c
  <2>1. \A i, j \in 1..ChunkLen : Pushed(c)[i] = Pushed(c)[j] => i = j
    BY PushedChunk, LenAssumption
  <2>2. ASSUME NEW i \in 1..ChunkLen PROVE Pushed(c)[i] \in Addr /\ Pushed(c)[i][1] = c
    <3>1. ChunkLen - i \in 0..ChunkLen - 1
      BY LenAssumption
    <3> QED BY <3>1, PushedChunk DEF Addr
  <2> QED BY <2>1, <2>2
<1>7. \A i \in 1..ChunkLen : Pushed(c)[i] \notin live
  BY NewChunk
<1>8. Top(c) \in Addr \ live
  BY <1>2, <1>7
<1>9. link' \in [Addr -> Pointer] /\ head' = link'[Top(c)] /\ head' \in Pointer
  BY <1>1, <1>2, ThreadedChunk
<1>a. /\ owners' \in [Addr -> Nat] /\ owners'[Top(c)] = 1 /\ live' = live \cup {Top(c)}
      /\ \A t \in Addr : t # Top(c) => owners'[t] = owners[t]
  BY <1>8, HandOutAdds DEF IInv
<1> HIDE DEF rest
<1>10. free' = rest
  BY DEF rest
<1>11. TypeOK'
  <2>1. chunks' \in Seq(Chunks)
    BY <1>1
  <2> QED BY <1>2, <1>3, <1>9, <1>10, <1>a, <2>1 DEF IInv, TypeOK
<1>12. Threaded'
  <2>1. head' = FirstOf(rest)
    <3>1. CASE ChunkLen = 1
      <4>1. rest = <<>>
        BY <1>3, <3>1
      <4> QED BY <1>2, <1>5, <1>9, <3>1, <4>1 DEF FirstOf
    <3>2. CASE ChunkLen # 1
      <4>1. 1 \in 1..ChunkLen - 1 /\ rest # <<>>
        BY <1>2, <1>3, <3>2
      <4>2. rest[1] = Pushed(c)[1 + 1]
        BY <1>3, <4>1
      <4> QED BY <1>2, <1>5, <1>9, <3>2, <4>1, <4>2 DEF FirstOf
    <3> QED BY <3>1, <3>2
  <2>2. ASSUME NEW i \in 1..Len(rest)
        PROVE  link'[rest[i]] = IF i = Len(rest) THEN Null ELSE rest[i + 1]
    <3>1. i \in 1..ChunkLen - 1 /\ i + 1 \in 1..ChunkLen
      BY <1>2, <1>3, <2>2
    <3>2. link'[Pushed(c)[i + 1]] =
            IF i + 1 = ChunkLen THEN Null ELSE Pushed(c)[(i + 1) + 1]
      BY <1>5, <3>1
    <3>3. rest[i] = Pushed(c)[i + 1]
      BY <1>3, <3>1
    <3>4. i + 1 = ChunkLen <=> i = Len(rest)
      BY <1>2, <1>3, <3>1
    <3>5. i # ChunkLen - 1 => i + 1 \in 1..ChunkLen - 1
      BY <1>2, <3>1
    <3>6. i # ChunkLen - 1 => rest[i + 1] = Pushed(c)[(i + 1) + 1]
      BY <1>3, <3>5
    <3>7. CASE i = Len(rest)
      BY <3>2, <3>3, <3>4, <3>7
    <3>8. CASE i # Len(rest)
      BY <1>3, <3>2, <3>3, <3>4, <3>6, <3>8
    <3> QED BY <3>7, <3>8
  <2> QED BY <1>10, <2>1, <2>2 DEF Threaded
<1>13. FreeOnce'
  <2>1. ASSUME NEW i \in 1..ChunkLen - 1
        PROVE  rest[i] \notin live'
    <3>1. i + 1 \in 1..ChunkLen /\ i + 1 # 1
      BY <1>2, <2>1
    <3>2. rest[i] # Top(c)
      BY <1>2, <1>3, <1>6, <2>1, <3>1
    <3> QED BY <1>3, <1>7, <1>a, <2>1, <3>1, <3>2
  <2>2. \A i, j \in 1..ChunkLen - 1 : rest[i] = rest[j] => i = j
    <3>1. ASSUME NEW i \in 1..ChunkLen - 1, NEW j \in 1..ChunkLen - 1, rest[i] = rest[j]
          PROVE  i + 1 = j + 1
      BY <1>3, <1>4, <1>6, <3>1
    <3> QED BY <1>2, <3>1
  <2>3. \A s \in Addr : owners'[s] <= 1
    BY <1>a DEF IInv, FreeListIntact, FreeOnce
  <2> QED BY <1>3, <1>10, <2>1, <2>2, <2>3 DEF FreeOnce
<1>14. NothingLost'
  <2>1. /\ open
        /\ \A s \in Addr : InPool(s) => s \in live
        /\ \A i \in DOMAIN chunks : chunks[i] \in held
        /\ \A s \in live : s[1] \in held
    BY <1>1 DEF IInv, FreeListIntact, NothingLost
  <2>2. /\ Len(chunks') = Len(chunks) + 1 /\ chunks' \in Seq(Chunks)
        /\ chunks'[1] = c
        /\ \A i \in 1..Len(chunks') : i # 1 => chunks'[i] = chunks[i - 1]
    BY <1>1
  <2>3. \A i \in 1..Len(chunks') : i # 1 => i - 1 \in 1..Len(chunks)
    BY <1>1, <2>2
  <2>4. DOMAIN chunks' = 1..Len(chunks') /\ DOMAIN chunks = 1..Len(chunks)
    BY <1>1, <2>2
  <2>5. \A i \in DOMAIN chunks' : chunks'[i] = c \/ \E j \in DOMAIN chunks : chunks'[i] = chunks[j]
    BY <2>2, <2>3, <2>4
  <2>6. ASSUME NEW s, s[1] = c
        PROVE  InPool(s)'
    <3>1. 1 \in DOMAIN chunks'
      BY <1>1, <2>2, <2>4
    <3> QED BY <2>2, <2>6, <3>1 DEF InPool
  <2>7. ASSUME NEW s \in Addr, InPool(s)', s \notin live'
        PROVE  \E i \in 1..Len(rest) : rest[i] = s
    <3>1. s[1] = c
      BY <1>a, <2>1, <2>5, <2>7 DEF InPool
    <3>2. PICK i \in 1..ChunkLen : Pushed(c)[i] = s
      BY <3>1, PushedChunk
    <3>3. i # 1
      BY <1>2, <1>a, <2>7, <3>2
    <3>4. i - 1 \in 1..ChunkLen - 1 /\ (i - 1) + 1 = i
      BY <1>2, <3>2, <3>3
    <3>5. rest[i - 1] = s
      BY <1>3, <3>2, <3>4
    <3> QED BY <1>3, <3>4, <3>5
  <2>8. \A i \in 1..Len(rest) : InPool(rest[i])'
    BY <1>3, <1>4, <1>6, <2>6
  <2>9. \A i \in DOMAIN chunks' : chunks'[i] \in held'
    BY <2>1, <2>5
  <2>10. \A s \in live' : s[1] \in held'
    BY <1>2, <1>6, <1>a, <2>1
  <2> QED BY <1>10, <2>7, <2>8, <2>9, <2>10 DEF NothingLost
<1> QED BY <1>8, <1>11, <1>12, <1>13, <1>14 DEF IInv, FreeListIntact

LEMMA GiveBackKeeps ==
  ASSUME IInv, NEW s \in live, GiveBack(s)
  PROVE  IInv'
<1> USE DEF GiveBack
<1>1. /\ s \in Addr /\ head \in Pointer /\ free \in Seq(Addr)
      /\ link \in [Addr -> Pointer] /\ Addr \subseteq Pointer
  BY DEF IInv, TypeOK, Pointer, live
<1>2. /\ free' \in Seq(Addr) /\ Len(free') = Len(free) + 1 /\ free'[1] = s
      /\ \A i \in 1..Len(free) + 1 : i # 1 => free'[i] = free[i - 1]
      /\ Len(free) \in Nat
  BY <1>1
<1>3. \A i \in 1..Len(free) + 1 : i # 1 => i - 1 \in 1..Len(free)
  BY <1>2
<1>a. /\ owners' \in [Addr -> Nat] /\ owners[s] = 1 /\ owners'[s] = 0
      /\ live' = live \ {s} /\ \A t \in Addr : t # s => owners'[t] = owners[t]
  <2>1. owners \in [Addr -> Nat] /\ owners[s] > 0 /\ owners[s] <= 1
    BY <1>1 DEF IInv, TypeOK, FreeListIntact, FreeOnce, live
  <2>2. owners[s] = 1
    BY <1>1, <2>1
  <2>3. /\ owners' \in [Addr -> Nat] /\ owners'[s] = 0
        /\ \A t \in Addr : t # s => owners'[t] = owners[t]
    BY <1>1, <2>1, <2>2
  <2>4. live' = live \ {s}
    BY <1>1, <2>1, <2>2, <2>3 DEF live
  <2> QED BY <2>2, <2>3, <2>4
<1>4. TypeOK'
  BY <1>1, <1>2, <1>a DEF IInv, TypeOK
<1>5. /\ \A i, j \in 1..Len(free) : free[i] = free[j] => i = j
      /\ \A i \in 1..Len(free) : free[i] \notin live
  BY DEF IInv, FreeListIntact, FreeOnce
<1>6. Threaded'
  <2>1. /\ head = FirstOf(free)
        /\ \A i \in 1..Len(free) :
             link[free[i]] = IF i = Len(free) THEN Null ELSE free[i + 1]
    BY DEF IInv, FreeListIntact, Threaded
  <2>2. free' # <<>> /\ head' = FirstOf(free')
    BY <1>2 DEF FirstOf
  <2>3. ASSUME NEW i \in 1..Len(free) + 1
        PROVE  link'[free'[i]] = IF i = Len(free) + 1 THEN Null ELSE free'[i + 1]
    <3>1. CASE i = 1
      <4>1. link'[free'[i]] = FirstOf(free)
        BY <1>1, <1>2, <2>1, <3>1
      <4>2. CASE free = <<>>
        BY <1>2, <3>1, <4>1, <4>2 DEF FirstOf
      <4>3. CASE free # <<>>
        <5>1. i # Len(free) + 1 /\ i + 1 \in 1..Len(free) + 1 /\ (i + 1) - 1 = 1
          BY <1>1, <1>2, <3>1, <4>3
        <5>2. free'[i + 1] = free[1]
          BY <1>2, <3>1, <5>1
        <5> QED BY <4>1, <4>3, <5>1, <5>2 DEF FirstOf
      <4> QED BY <4>2, <4>3
    <3>2. CASE i # 1
      <4>1. i - 1 \in 1..Len(free) /\ free'[i] = free[i - 1]
        BY <1>2, <1>3, <3>2
      <4>2. free[i - 1] \in Addr /\ free[i - 1] # s
        BY <1>1, <1>5, <4>1
      <4>3. link'[free'[i]] = link[free[i - 1]]
        BY <1>1, <4>1, <4>2
      <4>4. link[free[i - 1]] = IF i - 1 = Len(free) THEN Null ELSE free[(i - 1) + 1]
        BY <2>1, <4>1
      <4>5. i - 1 # Len(free) => /\ i + 1 \in 1..Len(free) + 1 /\ i + 1 # 1
                                /\ (i + 1) - 1 = (i - 1) + 1
        BY <1>2, <3>2
      <4>6. i - 1 # Len(free) => free'[i + 1] = free[(i - 1) + 1]
        BY <1>2, <4>5
      <4>7. i - 1 = Len(free) <=> i = Len(free) + 1
        BY <1>2, <2>3
      <4>8. CASE i - 1 = Len(free)
        BY <4>3, <4>4, <4>7, <4>8
      <4>9. CASE i - 1 # Len(free)
        BY <4>3, <4>4, <4>6, <4>7, <4>9
      <4> QED BY <4>8, <4>9
    <3> QED BY <3>1, <3>2
  <2> QED BY <1>2, <2>2, <2>3 DEF Threaded
<1>7. FreeOnce'
  <2>1. \A i \in 1..Len(free) + 1 : free'[i] \notin live'
    BY <1>2, <1>3, <1>5, <1>a
  <2>2. \A i, j \in 1..Len(free) + 1 : free'[i] = free'[j] => i = j
    <3>1. \A i \in 1..Len(free) + 1 : i # 1 => free'[i] # s
      BY <1>2, <1>3, <1>5
    <3>2. ASSUME NEW i \in 1..Len(free) + 1, NEW j \in 1..Len(free) + 1,
                 free'[i] = free'[j], i # 1, j # 1
          PROVE  i = j
      <4>1. /\ i - 1 \in 1..Len(free) /\ j - 1 \in 1..Len(free)
            /\ free[i - 1] = free[j - 1]
        BY <1>2, <1>3, <3>2
      <4>2. i - 1 = j - 1
        BY <1>5, <4>1
      <4> QED BY <1>2, <4>2
    <3> QED BY <1>2, <3>1, <3>2
  <2>3. \A t \in Addr : owners'[t] <= 1
    BY <1>a DEF IInv, FreeListIntact, FreeOnce
  <2> QED BY <1>2, <2>1, <2>2, <2>3 DEF FreeOnce
<1>8. NothingLost'
  <2>1. /\ \A i \in 1..Len(free) : InPool(free[i])
        /\ \A t \in Addr : InPool(t) => t \in live \/ \E i \in 1..Len(free) : free[i] = t
        /\ \A i \in DOMAIN chunks : chunks[i] \in held
        /\ \A t \in live : t[1] \in held
    BY DEF IInv, FreeListIntact, NothingLost
  <2>2. \A t : InPool(t)' <=> InPool(t)
    BY DEF InPool
  <2>3. \A i \in 1..Len(free) : /\ i + 1 \in 1..Len(free) + 1 /\ i + 1 # 1
                                /\ free'[i + 1] = free[i]
    BY <1>1
  <2>4. 1 \in 1..Len(free) + 1
    BY <1>2
  <2>5. ASSUME NEW t \in Addr, InPool(t), t \notin live'
        PROVE  \E i \in 1..Len(free) + 1 : free'[i] = t
    <3>1. CASE t = s
      BY <1>2, <2>4, <3>1
    <3>2. CASE t # s
      <4>1. PICK i \in 1..Len(free) : free[i] = t
        BY <1>a, <2>1, <2>5, <3>2
      <4> QED BY <2>3, <4>1
    <3> QED BY <3>1, <3>2
  <2>6. \A i \in 1..Len(free) + 1 : InPool(free'[i])
    BY <1>2, <1>3, <2>1
  <2>7. \A t \in live' : t[1] \in held
    BY <1>a, <2>1
  <2> QED BY <1>2, <2>1, <2>2, <2>5, <2>6, <2>7 DEF NothingLost
<1> QED BY <1>4, <1>6, <1>7, <1>8 DEF IInv, FreeListIntact

LEMMA UseKeeps ==
  ASSUME IInv, NEW s \in live, NEW w \in Words, Use(s, w)
  PROVE  IInv'
<1> USE DEF Use
<1>1. s \in Addr /\ w \in Pointer /\ free \in Seq(Addr) /\ link \in [Addr -> Pointer]
  BY WordsAssumption DEF IInv, TypeOK, live
<1>2. TypeOK'
  BY <1>1 DEF IInv, TypeOK
<1>3. \A i \in 1..Len(free) : free[i] \in Addr /\ free[i] # s
  BY <1>1 DEF IInv, FreeListIntact, FreeOnce
<1>4. \A i \in 1..Len(free) : link'[free[i]] = link[free[i]]
  BY <1>1, <1>3
<1>5. Threaded'
  BY <1>4 DEF IInv, FreeListIntact, Threaded
<1>6. FreeOnce' /\ NothingLost'
  BY DEF IInv, FreeListIntact, FreeOnce, NothingLost, InPool, live
<1> QED BY <1>2, <1>5, <1>6 DEF IInv, FreeListIntact

LEMMA FinishKeeps ==
  ASSUME IInv, Finish
  PROVE  IInv'
<1> USE DEF Finish
<1>1. TypeOK' /\ Threaded' /\ FreeOnce'
  <2>1. free' \in Seq(Addr) /\ Len(free') = 0
    OBVIOUS
  <2>2. owners \in [Addr -> Nat] /\ \A s \in Addr : owners[s] <= 1
    BY DEF IInv, TypeOK, FreeListIntact, FreeOnce
  <2>3. owners' \in [Addr -> Nat] /\ \A s \in Addr : owners'[s] <= 1
    BY <2>2
  <2>4. TypeOK'
    BY <2>1, <2>3 DEF IInv, TypeOK
  <2> QED BY <2>1, <2>3, <2>4 DEF Threaded, FreeOnce
<1>2. \A s \in live' : s[1] \in held'
  <2>1. \A s \in live' : s \in live /\ ~InPool(s)
    BY DEF live
  <2> QED BY <2>1 DEF IInv, TypeOK, FreeListIntact, NothingLost, InPool, live
<1>3. NothingLost'
  BY <1>2 DEF NothingLost
<1> QED BY <1>1, <1>3 DEF IInv, FreeListIntact

-----------------------------------------------------------------------------
(* The theorems.                                                           *)

LEMMA InvariantKept == Spec => []IInv
<1>1. Init => IInv
  <2> SUFFICES ASSUME Init PROVE IInv
    OBVIOUS
  <2> USE DEF Init
  <2>1. free \in Seq(Addr) /\ Len(free) = 0 /\ chunks \in Seq(Chunks)
    OBVIOUS
  <2>2. TypeOK
    BY <2>1 DEF TypeOK, Pointer
  <2>3. FreeListIntact
    BY <2>1 DEF live, FreeListIntact, Threaded, FreeOnce, NothingLost
  <2> QED BY <2>2, <2>3 DEF IInv
<1>2. IInv /\ [Next]_poolVars => IInv'
  <2> SUFFICES ASSUME IInv, [Next]_poolVars PROVE IInv'
    OBVIOUS
  <2>1. ASSUME NEW c \in Chunks, InitPool(c) PROVE IInv'
    BY <2>1, InitPoolKeeps
  <2>2. ASSUME NEW c \in Chunks, Grow(c) PROVE IInv'
    BY <2>2, GrowKeeps
  <2>3. ASSUME Take PROVE IInv'
    BY <2>3, TakeKeeps
  <2>4. ASSUME NEW s \in live, GiveBack(s) PROVE IInv'
    BY <2>4, GiveBackKeeps
  <2>5. ASSUME NEW s \in live, NEW w \in Words, Use(s, w) PROVE IInv'
    BY <2>5, UseKeeps
  <2>6. ASSUME Finish PROVE IInv'
    BY <2>6, FinishKeeps
  <2>7. ASSUME UNCHANGED poolVars PROVE IInv'
    BY <2>7 DEF poolVars, IInv, TypeOK, FreeListIntact, Threaded, FreeOnce, NothingLost,
               InPool, live
  <2> QED BY <2>1, <2>2, <2>3, <2>4, <2>5, <2>6, <2>7 DEF Next
<1> QED BY <1>1, <1>2, PTL DEF Spec

\* TypeOK: the pool's state keeps its types for every number and length of chunks.
THEOREM PoolTypes == Spec => []TypeOK
BY InvariantKept, PTL DEF IInv

\* Whatever clients write and however often a failed inference leaves a pool
\* behind, the links of lib/objpool.c lead through every free object of the pool
\* once, and no object's memory is given back while a client has it.
THEOREM FreeListStaysIntact == Spec => []FreeListIntact
BY InvariantKept, PTL DEF IInv

\* _wist_objpool_alloc never hands out an object that a client has: every step of
\* the pool is a step of the allocator or changes nothing there.
THEOREM PoolIsAllocator == Spec => HandsOutOnce
<1>1. Init => Pool!Init
  BY DEF Init, Pool!Init
<1>2. IInv /\ [Next]_poolVars => [Pool!Next]_owners
  <2> SUFFICES ASSUME IInv, [Next]_poolVars PROVE [Pool!Next]_owners
    OBVIOUS
  <2> USE DEF Pool!Next
  <2>0. owners \in [Addr -> Nat] /\ \A s \in Addr : owners[s] <= 1
    BY DEF IInv, TypeOK, FreeListIntact, FreeOnce
  <2>a. ASSUME NEW s \in Addr, s \notin live, HandOut(s) PROVE Pool!Alloc
    <3>1. owners[s] = 0
      BY <2>a, HandOutAdds DEF IInv
    <3>2. owners' = [owners EXCEPT ![s] = 1]
      BY <2>0, <2>a, <3>1 DEF HandOut
    <3> QED BY <3>1, <3>2 DEF Pool!Alloc
  <2>1. ASSUME NEW c \in Chunks, Grow(c) PROVE Pool!Alloc
    BY <2>1, <2>a, GrowKeeps DEF Grow
  <2>2. ASSUME Take PROVE Pool!Alloc
    <3>1. 1 \in 1..Len(free) /\ free[1] = head /\ head \in Addr
      BY <2>2, HeadOfList DEF Take
    <3>2. head \notin live
      BY <3>1 DEF IInv, FreeListIntact, FreeOnce
    <3> QED BY <2>2, <2>a, <3>1, <3>2 DEF Take
  <2>3. ASSUME NEW s \in live, GiveBack(s) PROVE Pool!Free
    <3>1. s \in Addr /\ owners[s] > 0 /\ owners[s] <= 1
      BY <2>0, <2>3 DEF live
    <3>2. owners[s] = 1
      BY <2>0, <3>1
    <3>3. owners' = [owners EXCEPT ![s] = 0]
      BY <2>3, <3>2 DEF GiveBack
    <3> QED BY <3>1, <3>2, <3>3 DEF Pool!Free
  <2>4. ASSUME Finish PROVE Pool!Release
    BY <2>0, <2>4 DEF Finish, Pool!Release
  <2>5. ASSUME NEW c \in Chunks, InitPool(c) PROVE UNCHANGED owners
    BY <2>5 DEF InitPool
  <2>6. ASSUME NEW s \in live, NEW w \in Words, Use(s, w) PROVE UNCHANGED owners
    BY <2>6 DEF Use
  <2>7. ASSUME UNCHANGED poolVars PROVE UNCHANGED owners
    BY <2>7 DEF poolVars
  <2> QED BY <2>1, <2>2, <2>3, <2>4, <2>5, <2>6, <2>7 DEF Next
<1> QED BY <1>1, <1>2, InvariantKept, PTL DEF Spec, HandsOutOnce, Pool!Spec
=============================================================================
