------------------------------- MODULE Vector -------------------------------
(***************************************************************************)
(* One vector of inc/wist/vector.h, byte by byte, and the client's         *)
(* allocator behind it (lib/ctx.c), which is told the size of every block  *)
(* it resizes or takes back.  The vector's block is data: its length is    *)
(* what the allocator really gave.                                         *)
(***************************************************************************)
EXTENDS Integers, Sequences, SequencesExt

CONSTANTS
  Bytes, Arrays,  \* what may be pushed: sequences of bytes, items or whole arrays
  InitSizes,      \* sizes of the first block: one item's (compiler.c:145: of another type)
  Junk,           \* what a fresh block holds
  MaxUsed         \* bound: bytes in the vector

ASSUME VectorAssumption ==
  /\ Arrays \subseteq Seq(Bytes) /\ InitSizes \subseteq Nat \ {0}
  /\ MaxUsed \in Nat

VARIABLES
  phase,        \* "none", "idle", "growing" within a push, "fixed" or "freed"
  alloc, used,  \* data_alloc, data_used
  data,         \* the block
  arg, new,     \* while a push grows the vector: what is pushed, and new_alloc
  claims        \* history: the last claim made to the allocator about a block's size

vars == <<phase, alloc, used, data, arg, new, claims>>

Fresh(n) == [i \in 1..n |-> Junk]
\* The allocator is told that data has n bytes.
Claim(n) == claims' = [told |-> n, is |-> Len(data)]

Create(n) ==
  /\ phase = "none" /\ phase' = "idle"
  /\ alloc' = n /\ used' = 0 /\ data' = Fresh(n)
  /\ UNCHANGED <<arg, new, claims>>

\* Mutant: the length is counted in items, not in bytes.
CopiedOne(block, a) == [i \in DOMAIN block |-> IF a # <<>> /\ i = used + 1 THEN a[1] ELSE block[i]]

\* memcpy behind what is used. (A write behind the end of the block is lost here.)
Copied(block, a) ==
  [i \in DOMAIN block |-> IF used < i /\ i <= used + Len(a) THEN a[i - used] ELSE block[i]]

MustGrow(n) == used + n >= alloc

Push(a) ==
  /\ phase = "idle" /\ used + Len(a) <= MaxUsed
  /\ IF MustGrow(Len(a))
     THEN phase' = "growing" /\ arg' = a /\ new' = alloc /\ UNCHANGED <<data, used>>
     ELSE data' = Copied(data, a) /\ used' = used + Len(a) /\ UNCHANGED <<phase, arg, new>>
  /\ UNCHANGED <<alloc, claims>>

\* Mutant: twice what there was before the push.
TwiceOfAlloc(n) == alloc * 2
Twice(n) == n * 2

\* One turn of the loop that looks for a size.
Grow ==
  /\ phase = "growing" /\ new < used + Len(arg)
  /\ new' = Twice(new)
  /\ UNCHANGED <<phase, alloc, used, data, arg, claims>>

\* What realloc makes of the block.
Resized(n) == [i \in 1..n |-> IF i <= Len(data) THEN data[i] ELSE Junk]

\* The size there is to be remembered. (Mutant: it is not.)
OldAlloc == alloc
NewAlloc == new

Resize ==
  /\ phase = "growing" /\ new >= used + Len(arg)
  /\ Claim(alloc)
  /\ data' = Copied(Resized(new), arg) /\ alloc' = NewAlloc
  /\ used' = used + Len(arg)
  /\ phase' = "idle" /\ UNCHANGED <<arg, new>>

\* wist_vector_fix_size, the last that is done with a vector (lib/lexer.c:93): its
\* users have the block from then on, data_alloc is forgotten.
FixSize ==
  /\ phase = "idle" /\ phase' = "fixed"
  /\ Claim(alloc) /\ data' = Resized(used)
  /\ UNCHANGED <<alloc, used, arg, new>>

Finish ==
  /\ phase = "idle" /\ phase' = "freed"
  /\ Claim(alloc) /\ alloc' = 0 /\ used' = 0 /\ data' = <<>>
  /\ UNCHANGED <<arg, new>>

\* The block of a fixed vector is released by its length (lib/compiler.c:115).
FreeFixed ==
  /\ phase = "fixed" /\ phase' = "freed"
  /\ Claim(used) /\ used' = 0 /\ data' = <<>>
  /\ UNCHANGED <<alloc, arg, new>>

Init ==
  /\ phase = "none" /\ alloc = 0 /\ used = 0 /\ data = <<>> /\ arg = <<>> /\ new = 0
  /\ claims = [told |-> 0, is |-> 0]

Next ==
  \/ \E n \in InitSizes : Create(n)
  \/ \E a \in Arrays : Push(a)
  \/ Grow \/ Resize \/ FixSize \/ Finish \/ FreeFixed

\* A push that has begun goes on.
Spec == Init /\ [][Next]_vars /\ WF_vars(Grow \/ Resize)

-----------------------------------------------------------------------------
Life == CASE phase = "none" -> "none" [] phase = "freed" -> "gone" [] OTHER -> "live"

\* What was pushed is what is there, item for item, through every move of the block:
\* inc/wist/vector.h is a sequence that grows at its end.
Abstract == INSTANCE GrowingSeq WITH life <- Life, items <- SubSeq(data, 1, used)
IsGrowingSeq == Abstract!Spec

\* The allocator is told the true size of every block that it resizes or takes back,
\* and a live vector never uses more than its block, whose size it knows.
SizesAreTrue ==
  /\ claims.told = claims.is
  /\ used <= Len(data)
  /\ phase \in {"idle", "growing"} => alloc = Len(data)

\* Growing ends: new_alloc, doubled, passes every length that is asked for.
PushEnds == phase = "growing" ~> phase = "idle"
=============================================================================
