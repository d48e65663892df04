---------------------------- MODULE SrcLocProofs ----------------------------
(***************************************************************************)
(* The index keeps its types, and what was located in the first source is  *)
(* found there for ever: while it is read the base is zero, its locations  *)
(* are the positions themselves, and later segments go behind it.          *)
(***************************************************************************)
EXTENDS SrcLocs, WellFoundedInduction, TLAPS

\* The base is zero while there is one segment; the text being read is the last
\* segment or in none; the first segment is as long as its text.
Based ==
  /\ Len(ix.segments) <= 1 => ix.base = 0
  /\ text.seg \in {0, Len(ix.segments)}
  /\ text.seg = 1 => ix.segments[1] = text.len

\* What was made of the first source lies in it, and is its own position.
First(m) == m.text.seg = 1
InFirst(m) == /\ Len(ix.segments) >= 1
              /\ m.to <= ix.segments[1] + 1
              /\ (m.from < m.to /\ m.to <= MaxNarrow =>
                    m.loc = [start |-> m.from, len |-> m.to - m.from])

IInv == TypeOK /\ Based /\ \A m \in made : First(m) => InFirst(m)

\* Whatever is located, wide or narrow, the index and the location keep their types.
LEMMA AddTypes ==
  ASSUME NEW i \in Index, NEW s \in Nat, NEW e \in Nat
  PROVE  /\ Add(i, s, e).ix \in Index
         /\ Add(i, s, e).loc \in Loc
         /\ Add(i, s, e).ix.segments = i.segments
         /\ Add(i, s, e).ix.base = i.base
<1>1. i.segments \in Seq(Nat) /\ i.locs \in Seq(Wide) /\ i.base \in Nat
  BY DEF Index
<1>. DEFINE start == s + i.base
            end == e + i.base
            w == [start |-> start, end |-> end]
            table == Append(i.locs, w)
<1>2. w \in Wide
  BY <1>1 DEF Wide
<1>3. table \in Seq(Wide) /\ Len(table) \in Nat
  BY <1>1, <1>2
<1>4. \A n \in Int : n % (MaxNarrow + 1) \in 0..MaxNarrow
  BY SrcLocAssumption
<1>5. CASE IsWide(start, end)
  <2>0. Add(i, s, e) = [ix |-> [i EXCEPT !.locs = table],
                        loc |-> [start |-> Len(table) % (MaxNarrow + 1), len |-> 0]]
    BY <1>5 DEF Add
  <2>. HIDE DEF table
  <2>. DEFINE j == [i EXCEPT !.locs = table]
  <2>1. j = [segments |-> i.segments, locs |-> table, base |-> i.base]
    BY DEF Index
  <2>2. j \in Index /\ j.segments = i.segments /\ j.base = i.base
    BY <1>1, <1>3, <2>1 DEF Index
  <2>3. Len(table) % (MaxNarrow + 1) \in 0..MaxNarrow
    BY <1>3, <1>4
  <2>5. 0 \in 0..MaxNarrow
    BY SrcLocAssumption
  <2>6. [start |-> Len(table) % (MaxNarrow + 1), len |-> 0] \in Loc
    BY <2>3, <2>5 DEF Loc
  <2>. HIDE DEF j
  <2>7. Add(i, s, e).ix = j
    BY <2>0 DEF j
  <2> QED BY <2>0, <2>2, <2>6, <2>7
<1>6. CASE ~IsWide(start, end)
  <2>1. Add(i, s, e) = [ix |-> i, loc |-> [start |-> start,
                                           len |-> (end - start) % (MaxNarrow + 1)]]
    BY <1>6 DEF Add
  <2>2. start \in 0..MaxNarrow
    BY <1>1, <1>6, SrcLocAssumption DEF IsWide
  <2>3. (end - start) % (MaxNarrow + 1) \in 0..MaxNarrow
    <3>1. end - start \in Int
      BY <1>1
    <3>. HIDE DEF start, end
    <3> QED BY <3>1, <1>4
  <2> QED BY <2>1, <2>2, <2>3 DEF Loc
<1> QED BY <1>5, <1>6

\* At base zero a span within the narrow range is located as it stands.
LEMMA AddNarrow ==
  ASSUME NEW i \in Index, NEW s \in Nat, NEW e \in Nat,
         i.base = 0, s < e, e <= MaxNarrow
  PROVE  Add(i, s, e).loc = [start |-> s, len |-> e - s]
<1>1. ~IsWide(s + i.base, e + i.base)
  BY SrcLocAssumption DEF IsWide
<1>2. (e - s) % (MaxNarrow + 1) = e - s
  BY SrcLocAssumption
<1> QED BY <1>1, <1>2 DEF Add

\* Every extent a location may be read as is a pair of positions.
LEMMA ExtentTypes ==
  ASSUME NEW i \in Index, NEW l \in Loc
  PROVE  Extents(i, l) \subseteq Wide
<1>1. CASE l.len # 0
  BY <1>1, SrcLocAssumption DEF Extents, Loc, Wide
<1>2. CASE l.len = 0 /\ l.start < Len(i.locs)
  <2>1. i.locs[l.start + 1] \in Wide
    BY <1>2, SrcLocAssumption DEF Loc, Index
  <2> QED BY <1>2, <2>1 DEF Extents
<1>3. CASE l.len = 0 /\ ~(l.start < Len(i.locs))
  BY <1>3, SrcLocAssumption DEF Extents, Wide
<1> QED BY <1>1, <1>2, <1>3

\* A new segment leaves the table of wide locations and the older segments alone.
LEMMA AddSegmentTypes ==
  ASSUME NEW i \in Index, NEW n \in Nat
  PROVE  LET j == AddSegment(i, n)
         IN  /\ j \in Index
             /\ j.segments = Append(i.segments, n)
             /\ j.locs = i.locs
             /\ Len(i.segments) <= 1 => j.base = i.base
<1>1. i.segments \in Seq(Nat) /\ i.locs \in Seq(Wide) /\ i.base \in Nat
  BY DEF Index
<1>. DEFINE base == IF Len(i.segments) > 1
                    THEN i.base + i.segments[Len(i.segments)] ELSE i.base
<1>2. base \in Nat
  BY <1>1
<1>3. AddSegment(i, n) = [segments |-> Append(i.segments, n), locs |-> i.locs,
                          base |-> base]
  BY DEF AddSegment
<1>4. Append(i.segments, n) \in Seq(Nat)
  BY <1>1
<1>5. Len(i.segments) <= 1 => base = i.base
  BY <1>1
<1>. HIDE DEF base
<1> QED BY <1>1, <1>2, <1>3, <1>4, <1>5 DEF Index

LEMMA InitIInv == Init => IInv
<1>1. EmptyIndex \in Index
  BY DEF EmptyIndex, Index
<1> QED BY <1>1 DEF Init, IInv, TypeOK, Based, Text, EmptyIndex

\* The invariant survives a step that adds one location for from..to of the source
\* being read, if the location is right where that is the first source.
LEMMA OneMore ==
  ASSUME IInv, NEW s \in Nat, NEW e \in Nat, NEW from \in Nat, NEW to \in Nat,
         to <= text.len + 1,
         text.seg = 1 /\ from < to /\ to <= MaxNarrow => s = from /\ e = to,
         ix' = Add(ix, s, e).ix,
         made' = made \cup {Made(Add(ix, s, e).loc, from, to)},
         UNCHANGED text
  PROVE  IInv'
<1>. DEFINE new == Made(Add(ix, s, e).loc, from, to)
<1>1. ix \in Index /\ text \in Text
  BY DEF IInv, TypeOK
<1>2. /\ ix' \in Index /\ ix'.segments = ix.segments /\ ix'.base = ix.base
      /\ Add(ix, s, e).loc \in Loc
  BY <1>1, AddTypes
<1>3. /\ new.loc = Add(ix, s, e).loc /\ new.text = text
      /\ new.from = from /\ new.to = to
  BY DEF Made
<1>4. TypeOK'
  BY <1>1, <1>2, <1>3 DEF IInv, TypeOK
<1>5. Based'
  BY <1>2 DEF IInv, Based
<1>6. ASSUME NEW m \in made', First(m) PROVE InFirst(m)'
  <2>1. CASE m \in made
    BY <2>1, <1>6, <1>2 DEF IInv, InFirst, First
  <2>2. CASE m = new
    <3>1. text.seg = 1
      BY <2>2, <1>3, <1>6 DEF First
    <3>2. Len(ix.segments) = 1 /\ ix.segments[1] = text.len /\ ix.base = 0
      <4>1. Len(ix.segments) = 1
        BY <3>1 DEF IInv, Based
      <4> QED BY <3>1, <4>1 DEF IInv, Based
    <3>3. from < to /\ to <= MaxNarrow => new.loc = [start |-> from, len |-> to - from]
      BY <3>1, <3>2, <1>1, <1>3, AddNarrow
    <3> QED BY <2>2, <3>2, <3>3, <1>2, <1>3 DEF InFirst
  <2> QED BY <1>6, <2>1, <2>2
<1> QED BY <1>4, <1>5, <1>6 DEF IInv, First

LEMMA NextIInv == IInv /\ [Next]_locVars => IInv'
<1>. SUFFICES ASSUME IInv, [Next]_locVars PROVE IInv'
  OBVIOUS
<1>0. /\ ix \in Index /\ text \in Text /\ text.no \in Nat /\ text.seg \in Nat /\ text.len \in Nat
      /\ ix.segments \in Seq(Nat)
  BY DEF IInv, TypeOK, Text, Index
<1>1. ASSUME NEW len \in Lengths, ReadDecl(len) PROVE IInv'
  <2>1. len \in Nat
    BY SourcesAssumption
  <2>2. /\ ix' \in Index /\ ix'.segments = Append(ix.segments, len)
        /\ Len(ix.segments) <= 1 => ix'.base = ix.base
    BY <1>0, <1>1, <2>1, AddSegmentTypes DEF ReadDecl
  <2>3. /\ text' = [no |-> text.no + 1, seg |-> Len(ix.segments) + 1, len |-> len]
        /\ made' = made
    BY <1>1 DEF ReadDecl
  <2>4. TypeOK'
    BY <1>0, <2>1, <2>2, <2>3 DEF IInv, TypeOK, Text
  <2>5. Based'
    BY <1>0, <2>1, <2>2, <2>3 DEF IInv, Based
  <2>6. ASSUME NEW m \in made, First(m) PROVE InFirst(m)'
    BY <1>0, <2>1, <2>2, <2>6 DEF IInv, InFirst
  <2> QED BY <2>3, <2>4, <2>5, <2>6 DEF IInv, First
<1>2. ASSUME NEW len \in Lengths, ReadExpr(len) PROVE IInv'
  <2>1. text' \in Text /\ text'.seg = 0 /\ UNCHANGED <<ix, made>>
    BY <1>0, <1>2, SourcesAssumption DEF ReadExpr, Text
  <2> QED BY <2>1 DEF IInv, TypeOK, Based, First, InFirst
<1>3. ASSUME NEW s \in Spans, Locate(s.from, s.to) PROVE IInv'
  <2>1. s.from \in Nat /\ s.to \in Nat
    BY SourcesAssumption
  <2> QED BY <1>3, <2>1, OneMore DEF Locate
<1>4. ASSUME NEW m \in made, NEW n \in made, Join(m, n) PROVE IInv'
  <2>1. PICK a \in Extents(ix, m.loc), b \in Extents(ix, n.loc) :
          /\ ix' = Add(ix, a.start, b.end).ix
          /\ made' = made \cup {Made(Add(ix, a.start, b.end).loc, m.from, n.to)}
    BY <1>4 DEF Join, Combine
  <2>2. /\ m.from \in Nat /\ m.to \in Nat /\ n.from \in Nat /\ n.to \in Nat
        /\ m.loc \in Loc /\ n.loc \in Loc
    BY DEF IInv, TypeOK
  <2>3. a.start \in Nat /\ b.end \in Nat
    BY <1>0, <2>2, ExtentTypes DEF Wide
  <2>4. /\ m.text = text /\ n.text = text /\ UNCHANGED text
        /\ m.from < m.to /\ n.from < n.to /\ m.from <= n.from /\ m.to <= n.to
    BY <1>4 DEF Join
  <2>5. ASSUME text.seg = 1, n.to <= MaxNarrow PROVE a.start = m.from /\ b.end = n.to
    <3>1. First(m) /\ First(n)
      BY <2>4, <2>5 DEF First
    <3>2. /\ m.loc = [start |-> m.from, len |-> m.to - m.from]
          /\ n.loc = [start |-> n.from, len |-> n.to - n.from]
      BY <3>1, <2>2, <2>4, <2>5, SrcLocAssumption DEF IInv, InFirst
    <3> QED BY <3>2, <2>2, <2>4 DEF Extents
  <2>6. CASE text.seg = 1
    <3>1. n.to <= text.len + 1
      <4>1. First(n)
        BY <2>4, <2>6 DEF First
      <4> QED BY <4>1, <2>6 DEF IInv, InFirst, Based
    <3> QED BY <2>1, <2>2, <2>3, <2>4, <2>5, <3>1, OneMore
  <2>7. CASE text.seg # 1
    <3>. DEFINE new == Made(Add(ix, a.start, b.end).loc, m.from, n.to)
    <3>1. /\ ix' \in Index /\ ix'.segments = ix.segments /\ ix'.base = ix.base
          /\ Add(ix, a.start, b.end).loc \in Loc
      BY <1>0, <2>1, <2>3, AddTypes
    <3>2. /\ new.loc \in Loc /\ new.text = text /\ new.from = m.from /\ new.to = n.to
      BY <3>1 DEF Made
    <3>3. TypeOK'
      BY <1>0, <2>1, <2>2, <2>4, <3>1, <3>2 DEF IInv, TypeOK
    <3>4. Based'
      BY <2>4, <3>1 DEF IInv, Based
    <3>5. ~First(new)
      BY <2>7, <3>2 DEF First
    <3>6. ASSUME NEW k \in made', First(k) PROVE InFirst(k)'
      BY <2>1, <3>1, <3>5, <3>6 DEF IInv, InFirst
    <3> QED BY <3>3, <3>4, <3>6 DEF IInv, First
  <2> QED BY <2>6, <2>7
<1>5. CASE UNCHANGED locVars
  BY <1>5 DEF IInv, TypeOK, Based, First, InFirst, locVars
<1> QED BY <1>1, <1>2, <1>3, <1>4, <1>5 DEF Next

LEMMA Kept == IInv => FirstSourceKept
<1>. SUFFICES ASSUME IInv, NEW m \in made, First(m), m.from < m.to, m.to <= MaxNarrow
              PROVE  Slices(ix, m.loc) = {Meant(m)}
  BY DEF FirstSourceKept, First
<1>1. /\ m.from \in Nat /\ m.to \in Nat /\ ix \in Index /\ ix.segments \in Seq(Nat)
  BY DEF IInv, TypeOK, Index
<1>2. InFirst(m)
  BY DEF IInv
<1>3. m.loc = [start |-> m.from, len |-> m.to - m.from]
  BY <1>2 DEF InFirst
<1>. DEFINE x == [start |-> m.from, end |-> m.to]
<1>4. Extents(ix, m.loc) = {x}
  BY <1>1, <1>3 DEF Extents
<1>5. ix.segments # <<>> /\ ix.segments[1] >= x.start
  BY <1>1, <1>2 DEF InFirst
<1>6. SliceOfExtent(ix, x) = [seg |-> 1, at |-> m.from, len |-> m.to - m.from]
  BY <1>5 DEF SliceOfExtent
<1> QED BY <1>4, <1>6 DEF Slices, Meant, First

\* Among segments that are reached there is a first.
LEMMA LeastNumber ==
  ASSUME NEW H, H \subseteq Nat, H # {}
  PROVE  \E k \in H : \A j \in H : k <= j
<1>. DEFINE Below == {p \in Nat \X Nat : p[1] < p[2]}
<1>1. IsWellFoundedOn(Below, Nat)
  BY NatLessThanWellFounded DEF OpToRel
<1>. HIDE DEF Below
<1>2. PICK k \in H : \A j \in H : ~(<<j, k>> \in Below)
  BY <1>1, WFMin
<1>3. \A j \in H : ~(j < k)
  BY <1>2 DEF Below
<1> QED BY <1>3

LEMMA LaterIsSegment ==
  ASSUME NEW ss \in Seq(Nat), NEW at, LaterSegment(ss, at) # 0
  PROVE  LaterSegment(ss, at) \in 2..Len(ss)
<1>. DEFINE H == SegmentsReaching(ss, at)
<1>1. H # {} /\ H \subseteq 2..Len(ss) /\ Len(ss) \in Nat
  BY DEF LaterSegment, SegmentsReaching
<1>. HIDE DEF H
<1>2. \E k \in H : \A j \in H : k <= j
  <2>1. H \subseteq Nat
    BY <1>1
  <2> QED BY <1>1, <2>1, LeastNumber
<1>3. LaterSegment(ss, at) \in H
  BY <1>1, <1>2 DEF LaterSegment, H
<1> QED BY <1>1, <1>3

\* A segment more behind them moves nothing that is found among the segments.
LEMMA SameBefore ==
  ASSUME NEW ss \in Seq(Nat), NEW n \in Nat, NEW k \in 2..Len(ss)
  PROVE  /\ TextBefore(Append(ss, n), k) = TextBefore(ss, k)
         /\ Append(ss, n)[k] = ss[k]
<1>1. SubSeq(Append(ss, n), 1, k - 1) = SubSeq(ss, 1, k - 1)
  OBVIOUS
<1>2. Append(ss, n)[k] = ss[k]
  OBVIOUS
<1> QED BY <1>1, <1>2 DEF TextBefore

LEMMA SameSegment ==
  ASSUME NEW ss \in Seq(Nat), NEW n \in Nat, NEW at, LaterSegment(ss, at) # 0
  PROVE  LaterSegment(Append(ss, n), at) = LaterSegment(ss, at)
<1>. DEFINE tt == Append(ss, n)
            H == SegmentsReaching(ss, at)
            J == SegmentsReaching(tt, at)
<1>1. H # {} /\ H \subseteq 2..Len(ss)
  BY DEF LaterSegment, SegmentsReaching
<1>2. Len(tt) = Len(ss) + 1 /\ Len(ss) \in Nat
  OBVIOUS
<1>3. J \subseteq 2..Len(ss) + 1
  BY <1>2 DEF SegmentsReaching
<1>4. \A k \in 2..Len(ss) : k \in J <=> k \in H
  BY <1>2, SameBefore DEF SegmentsReaching
<1>. HIDE DEF tt, H, J
<1>5. J # {}
  BY <1>1, <1>4
<1>6. \A k : (k \in J /\ \A j \in J : k <= j) <=> (k \in H /\ \A j \in H : k <= j)
  <2>1. ASSUME NEW k \in J, \A j \in J : k <= j PROVE k \in H /\ \A j \in H : k <= j
    <3>1. PICK h : h \in H
      BY <1>1
    <3>2. h \in J /\ h \in 2..Len(ss)
      BY <1>1, <1>4, <3>1
    <3>3. k \in 2..Len(ss)
      BY <1>2, <1>3, <2>1, <3>2
    <3> QED BY <1>1, <1>4, <2>1, <3>3
  <2>2. ASSUME NEW k \in H, \A j \in H : k <= j PROVE k \in J /\ \A j \in J : k <= j
    <3>1. k \in J /\ k \in 2..Len(ss)
      BY <1>1, <1>4
    <3>2. ASSUME NEW j \in J PROVE k <= j
      <4>1. CASE j \in 2..Len(ss)
        BY <1>4, <2>2, <4>1
      <4>2. CASE j = Len(ss) + 1
        BY <1>2, <3>1, <4>2
      <4> QED BY <1>2, <1>3, <4>1, <4>2
    <3> QED BY <3>1, <3>2
  <2> QED BY <2>1, <2>2
<1>7. (CHOOSE k : k \in J /\ \A j \in J : k <= j) = (CHOOSE k : k \in H /\ \A j \in H : k <= j)
  BY <1>6, Zenon
<1>8. LaterSegment(ss, at) = CHOOSE k : k \in H /\ \A j \in H : k <= j
  BY <1>1 DEF LaterSegment, H
<1>9. LaterSegment(tt, at) = CHOOSE k : k \in J /\ \A j \in J : k <= j
  BY <1>5 DEF LaterSegment, J
<1> QED BY <1>7, <1>8, <1>9 DEF tt

\* For every width of locations and every sequence of sources, the index and the
\* locations keep their types.
THEOREM IndexTypes == Spec => []TypeOK
<1>1. IInv => TypeOK
  BY DEF IInv
<1> QED BY <1>1, InitIInv, NextIInv, PTL DEF Spec

\* For every width of locations, whatever is read and located afterwards, what was
\* located in the first source stands for it.
THEOREM FirstSourceStays == Spec => []FirstSourceKept
<1> QED BY Kept, InitIInv, NextIInv, PTL DEF Spec

\* Segments only grow at the end.
LEMMA SegmentsGrow ==
  ASSUME IInv, [Next]_locVars
  PROVE  \/ ix'.segments = ix.segments
         \/ \E n \in Nat : ix'.segments = Append(ix.segments, n)
<1>0. ix \in Index /\ \A m \in made : m.loc \in Loc
  BY DEF IInv, TypeOK
<1>1. ASSUME NEW len \in Lengths, ReadDecl(len)
      PROVE  \E n \in Nat : ix'.segments = Append(ix.segments, n)
  <2>1. len \in Nat
    BY SourcesAssumption
  <2>2. ix'.segments = Append(ix.segments, len)
    BY <1>0, <1>1, <2>1, AddSegmentTypes DEF ReadDecl
  <2> QED BY <2>1, <2>2
<1>2. ASSUME NEW len \in Lengths, ReadExpr(len) PROVE ix'.segments = ix.segments
  BY <1>2 DEF ReadExpr
<1>3. ASSUME NEW s \in Spans, Locate(s.from, s.to) PROVE ix'.segments = ix.segments
  <2>1. s.from \in Nat /\ s.to \in Nat
    BY SourcesAssumption
  <2> QED BY <1>0, <1>3, <2>1, AddTypes DEF Locate
<1>4. ASSUME NEW m \in made, NEW n \in made, Join(m, n) PROVE ix'.segments = ix.segments
  <2>1. PICK a \in Extents(ix, m.loc), b \in Extents(ix, n.loc) :
          ix' = Add(ix, a.start, b.end).ix
    BY <1>4 DEF Join, Combine
  <2>2. a.start \in Nat /\ b.end \in Nat
    BY <1>0, ExtentTypes DEF Wide
  <2> QED BY <1>0, <2>1, <2>2, AddTypes
<1>5. CASE UNCHANGED locVars
  BY <1>5 DEF locVars
<1> QED BY <1>1, <1>2, <1>3, <1>4, <1>5 DEF Next

\* A narrow location is read without the table, and a segment found stays found.
LEMMA SliceStays ==
  ASSUME IInv, [Next]_locVars,
         NEW m \in made, m.loc.len # 0, Nowhere \notin Slices(ix, m.loc)
  PROVE  Slices(ix', m.loc) = Slices(ix, m.loc)
<1>. DEFINE x == [start |-> m.loc.start, end |-> m.loc.start + m.loc.len]
<1>1. ix \in Index /\ ix.segments \in Seq(Nat) /\ x.start \in Nat
  BY SrcLocAssumption DEF IInv, TypeOK, Index, Loc
<1>2. Extents(ix, m.loc) = {x} /\ Extents(ix', m.loc) = {x}
  BY DEF Extents
<1>3. SliceOfExtent(ix, x) # Nowhere
  BY <1>2 DEF Slices
<1>. HIDE DEF x
<1>4. SliceOfExtent(ix', x) = SliceOfExtent(ix, x)
  <2>1. CASE ix'.segments = ix.segments
    BY <2>1 DEF SliceOfExtent
  <2>2. ASSUME NEW n \in Nat, ix'.segments = Append(ix.segments, n)
        PROVE  SliceOfExtent(ix', x) = SliceOfExtent(ix, x)
    <3>1. CASE ix.segments # <<>> /\ ix.segments[1] >= x.start
      <4>1. ix'.segments # <<>> /\ ix'.segments[1] = ix.segments[1]
        BY <1>1, <2>2, <3>1
      <4> QED BY <3>1, <4>1 DEF SliceOfExtent
    <3>2. CASE ~(ix.segments # <<>> /\ ix.segments[1] >= x.start)
      <4>. DEFINE k == LaterSegment(ix.segments, x.start)
      <4>1. k # 0
        BY <1>3, <3>2 DEF SliceOfExtent
      <4>2. LaterSegment(ix'.segments, x.start) = k
        BY <1>1, <2>2, <4>1, SameSegment
      <4>3. ix.segments # <<>>
        BY <1>1, <4>1 DEF LaterSegment, SegmentsReaching
      <4>4. ~(ix'.segments # <<>> /\ ix'.segments[1] >= x.start)
        BY <1>1, <2>2, <3>2, <4>3
      <4>5. TextBefore(ix'.segments, k) = TextBefore(ix.segments, k)
        BY <1>1, <2>2, <4>1, LaterIsSegment, SameBefore
      <4>. HIDE DEF k
      <4> QED BY <3>2, <4>1, <4>2, <4>4, <4>5 DEF SliceOfExtent, k
    <3> QED BY <3>1, <3>2
  <2> QED BY <2>1, <2>2, SegmentsGrow
<1> QED BY <1>2, <1>4 DEF Slices

\* For every width of locations, a narrow location that stands for anything goes on
\* to stand for it, wherever the text it was made for is (lib/srcloc.c:24).
THEOREM NarrowStays == Spec => NarrowIsStable
<1>1. IInv /\ [Next]_locVars =>
        [\A m \in made : m.loc.len # 0 /\ Nowhere \notin Slices(ix, m.loc) =>
                           Slices(ix', m.loc) = Slices(ix, m.loc)]_locVars
  BY SliceStays
<1> QED BY <1>1, InitIInv, NextIInv, PTL DEF Spec, NarrowIsStable
=============================================================================
