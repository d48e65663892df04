------------------------------ MODULE ObjPool ------------------------------
(***************************************************************************)
(* The object pool of lib/objpool.c.  Free objects form a list that is     *)
(* threaded through the objects themselves: the word that links a free     *)
(* object to the next one is the client's as soon as the object is handed  *)
(* out.  A pool is used as lib/sema.c uses its pool of type variables: it  *)
(* is initialised for each inference, and finished when one succeeds; when *)
(* one fails it is initialised again with its chunks still held.           *)
(***************************************************************************)
EXTENDS Integers, Sequences

CONSTANTS
  Chunks,     \* addresses of chunk data the context can hand out
  ChunkLen,   \* objects of a chunk, 64 in the code
  Null,       \* the null pointer
  Words       \* bound: what clients write where the link was

Addr == Chunks \X (0..ChunkLen - 1)
Pointer == Addr \cup {Null}

ASSUME LenAssumption == ChunkLen \in Nat \ {0}
ASSUME NullAssumption == Null \notin Addr
ASSUME WordsAssumption == Words \subseteq Pointer

VARIABLES
  held,     \* chunks the context has handed out and not got back
  open,     \* the pool is initialised and not finished
  chunks,   \* the list of the pool's chunks, the newest first
  head,     \* pool->free
  link,     \* the first word of every object
  owners,   \* history: how many clients have been handed each object and have it
  free      \* history: the objects of the free list, in order

poolVars == <<held, open, chunks, head, link, owners, free>>

live == {s \in Addr : owners[s] > 0}
HandOut(s) == owners' = [owners EXCEPT ![s] = @ + 1]

-----------------------------------------------------------------------------
\* new_chunk: the loop pushes the objects of the chunk one after the other.
Pushed(c) == [i \in 1..ChunkLen |-> <<c, ChunkLen - i>>]
TopOneBeyond(c) == <<c, ChunkLen>>   \* mutant
Top(c) == <<c, ChunkLen - 1>>
Thread(c, rest) ==
  [s \in Addr |-> IF s[1] # c THEN link[s]
                  ELSE IF s[2] = 0 THEN rest ELSE <<c, s[2] - 1>>]

\* Mutant: the free list of the pool's last use is kept.
InitPoolKeepsFree(c) ==
  /\ c \notin held
  /\ held' = held \cup {c}
  /\ open' = TRUE
  /\ chunks' = <<c>>
  /\ head' = Top(c)
  /\ link' = Thread(c, head)
  /\ free' = Pushed(c)
  /\ UNCHANGED owners

InitPool(c) ==
  /\ c \notin held
  /\ held' = held \cup {c}
  /\ open' = TRUE
  /\ chunks' = <<c>>
  /\ head' = Top(c)
  /\ link' = Thread(c, Null)
  /\ free' = Pushed(c)
  /\ UNCHANGED owners

\* Mutant: the object stays at the head of the list.
TakeKeepsHead ==
  /\ open /\ head # Null
  /\ HandOut(head)
  /\ free' = Tail(free)
  /\ UNCHANGED <<held, open, chunks, head, link>>

Take ==
  /\ open /\ head # Null
  /\ HandOut(head)
  /\ head' = link[head]
  /\ free' = Tail(free)
  /\ UNCHANGED <<held, open, chunks, link>>

\* No object is free: a chunk is added and its last object handed out.
Grow(c) ==
  /\ open /\ head = Null
  /\ c \notin held
  /\ held' = held \cup {c}
  /\ chunks' = <<c>> \o chunks
  /\ link' = Thread(c, head)
  /\ HandOut(Top(c))
  /\ head' = Thread(c, head)[Top(c)]
  /\ free' = Tail(Pushed(c))
  /\ UNCHANGED open

InPool(s) == \E i \in DOMAIN chunks : chunks[i] = s[1]

\* The client gives back an object it has from this pool.
GiveBack(s) ==
  /\ open /\ s \in live /\ InPool(s)
  /\ owners' = [owners EXCEPT ![s] = @ - 1]
  /\ link' = [link EXCEPT ![s] = head]
  /\ head' = s
  /\ free' = <<s>> \o free
  /\ UNCHANGED <<held, open, chunks>>

\* The client writes to an object it has.
Use(s, w) ==
  /\ s \in live
  /\ link' = [link EXCEPT ![s] = w]
  /\ UNCHANGED <<held, open, chunks, head, owners, free>>

\* Every chunk goes back to the context; the pool's pointers stay what they are.
Finish ==
  /\ open
  /\ open' = FALSE
  /\ held' = {c \in held : \A i \in DOMAIN chunks : chunks[i] # c}
  /\ owners' = [s \in Addr |-> IF InPool(s) THEN 0 ELSE owners[s]]
  /\ free' = <<>>
  /\ UNCHANGED <<chunks, head, link>>

Init ==
  /\ held = {} /\ open = FALSE /\ chunks = <<>>
  /\ head = Null /\ link = [s \in Addr |-> Null]
  /\ owners = [s \in Addr |-> 0] /\ free = <<>>

Next ==
  \/ \E c \in Chunks : InitPool(c) \/ Grow(c)
  \/ Take
  \/ \E s \in live : GiveBack(s) \/ \E w \in Words : Use(s, w)
  \/ Finish

Spec == Init /\ [][Next]_poolVars

-----------------------------------------------------------------------------
TypeOK ==
  /\ held \subseteq Chunks /\ open \in BOOLEAN /\ chunks \in Seq(Chunks)
  /\ head \in Pointer /\ link \in [Addr -> Pointer]
  /\ owners \in [Addr -> Nat] /\ free \in Seq(Addr)

FirstOf(s) == IF s = <<>> THEN Null ELSE s[1]

\* The list that starts at the head is free, in its order, and ends with null.
Threaded ==
  open => /\ head = FirstOf(free)
          /\ \A i \in 1..Len(free) :
               link[free[i]] = IF i = Len(free) THEN Null ELSE free[i + 1]

\* No object is twice in the list, in the list and with a client, or with two.
FreeOnce ==
  /\ \A s \in Addr : owners[s] <= 1
  /\ \A i, j \in 1..Len(free) : free[i] = free[j] => i = j
  /\ \A i \in 1..Len(free) : free[i] \notin live

\* Every object of the pool's chunks is free or live, and all memory that objects
\* are in is held.
NothingLost ==
  /\ \A i \in 1..Len(free) : InPool(free[i])
  /\ open => \A s \in Addr : InPool(s) => s \in live \/ \E i \in 1..Len(free) : free[i] = s
  /\ open => \A i \in DOMAIN chunks : chunks[i] \in held
  /\ \A s \in live : s[1] \in held

\* Whatever clients write to their objects, in whatever order they give them back,
\* and although a failed inference leaves its pool behind (lib/sema.c:91), the
\* links lead through every free object of the pool once and through no other.
FreeListIntact == Threaded /\ FreeOnce /\ NothingLost

\* No object is handed out while a client has it, although the list is kept in
\* memory that clients write to.
Pool == INSTANCE Allocator
HandsOutOnce == Pool!Spec
=============================================================================
