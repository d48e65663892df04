------------------------------- MODULE SrcLoc -------------------------------
(***************************************************************************)
(* Source locations (lib/srcloc.c).  An index ix keeps the lengths of the  *)
(* text segments, the table of wide locations and the base (cur_base) that *)
(* is added to what is located.  Positions count from 0, entries of the    *)
(* code's vectors too; the sequences here count from 1.                    *)
(***************************************************************************)
EXTENDS Integers, Sequences, FiniteSets

CONSTANTS
  MaxNarrow,   \* UINT16_MAX
  Garbage      \* what a read beyond the table of wide locations may find

ASSUME SrcLocAssumption ==
  /\ MaxNarrow \in Nat
  /\ Garbage \subseteq [start : Nat, end : Nat]

Wide == [start : Nat, end : Nat]
Index == [segments : Seq(Nat), locs : Seq(Wide), base : Nat]
Loc == [start : 0..MaxNarrow, len : 0..MaxNarrow]

EmptyIndex == [segments |-> <<>>, locs |-> <<>>, base |-> 0]

AddSegment(ix, len) ==
  LET cur == Len(ix.segments)
  IN  [segments |-> Append(ix.segments, len), locs |-> ix.locs,
       base |-> IF cur > 1 THEN ix.base + ix.segments[cur] ELSE ix.base]

\* Mutant: off by one.
IsWideTooLate(start, end) == start > MaxNarrow + 1 \/ end > MaxNarrow + 1

IsWide(start, end) == start > MaxNarrow \/ end > MaxNarrow

\* The index and the location after a call of wist_srcloc_index_add.
Add(ix, from, to) ==
  LET start == from + ix.base
      end == to + ix.base
      table == Append(ix.locs, [start |-> start, end |-> end])
  IN  IF IsWide(start, end)
      THEN [ix |-> [ix EXCEPT !.locs = table],
            loc |-> [start |-> Len(table) % (MaxNarrow + 1), len |-> 0]]
      ELSE [ix |-> ix,
            loc |-> [start |-> start, len |-> (end - start) % (MaxNarrow + 1)]]

\* What a location is read as: a length of zero means an index into the table.
Extents(ix, loc) ==
  IF loc.len # 0 THEN {[start |-> loc.start, end |-> loc.start + loc.len]}
  ELSE IF loc.start < Len(ix.locs) THEN {ix.locs[loc.start + 1]}
  ELSE Garbage

\* Mutant: combined from the first location's start to the second one's start.
CombineToStart(ix, l1, l2) ==
  {Add(ix, a.start, b.start) : a \in Extents(ix, l1), b \in Extents(ix, l2)}

Combine(ix, l1, l2) ==
  {Add(ix, a.start, b.end) : a \in Extents(ix, l1), b \in Extents(ix, l2)}

\* The text in front of a segment, and the segment after the first that the search
\* stops at (0: none).
TextIn(segments) ==
  LET Sum[i \in 0..Len(segments)] == IF i = 0 THEN 0 ELSE Sum[i - 1] + segments[i]
  IN  Sum[Len(segments)]
TextBefore(segments, k) == TextIn(SubSeq(segments, 1, k - 1))
SegmentsReaching(segments, start) ==
  {k \in 2..Len(segments) : TextBefore(segments, k) + segments[k] >= start}

\* Mutant: the search starts at the newest segment.
NewestSegment(segments, start) ==
  LET Hits == SegmentsReaching(segments, start)
  IN  IF Hits = {} THEN 0 ELSE CHOOSE k \in Hits : \A j \in Hits : k >= j

LaterSegment(segments, start) ==
  LET Hits == SegmentsReaching(segments, start)
  IN  IF Hits = {} THEN 0 ELSE CHOOSE k \in Hits : \A j \in Hits : k <= j

Nowhere == [seg |-> 0, at |-> 0, len |-> 0]

SliceOfExtent(ix, x) ==
  IF ix.segments # <<>> /\ ix.segments[1] >= x.start
  THEN [seg |-> 1, at |-> x.start, len |-> x.end - x.start]
  ELSE LET k == LaterSegment(ix.segments, x.start)
       IN  IF k = 0 THEN Nowhere
           ELSE [seg |-> k, at |-> x.start - TextBefore(ix.segments, k),
                 len |-> x.end - x.start]

\* wist_srcloc_index_slice: the segment, the offset in it and the length.
Slices(ix, loc) == {SliceOfExtent(ix, x) : x \in Extents(ix, loc)}
=============================================================================
