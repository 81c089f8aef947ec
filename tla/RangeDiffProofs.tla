--------------------------- MODULE RangeDiffProofs ---------------------------
(***************************************************************************)
(* The walk of rangeArrayGetChangedRanges is exact for lists of any length *)
(* and any LengthMax.                                                      *)
(***************************************************************************)
EXTENDS RangeDiff, TLAPS

DiffType ==
  [ old : Seq(Ranges), new : Seq(Ranges), oldIndex : Nat, newIndex : Nat, at : Edges,
    inOld : BOOLEAN, inNew : BOOLEAN, found : Seq(Ranges) ]

\* Where the walk through one list stands: what is before its index is behind.
Behind(l, i, p) == i \in 1..Len(l) + 1 /\ (i > 1 => l[i - 1].end.bytes <= p)
\* And as long as the loop lasts it is inside the range of its index, or before it.
Ahead(l, i, in, p) ==
  /\ in => i <= Len(l) /\ l[i].start.bytes <= p /\ p <= l[i].end.bytes
  /\ ~in /\ i <= Len(l) => p <= l[i].start.bytes

\* The ranges of a list are in order, with gaps between, and end by p.
Apart(l, p) ==
  \A i \in 1..Len(l) :
    /\ l[i].start.bytes < l[i].end.bytes /\ l[i].end.bytes <= p
    /\ \A j \in 1..i - 1 : l[j].end.bytes < l[i].start.bytes
ExactTo(p) ==
  \A b \in Nat : b < p => (Has(diff.found, b) <=> ~(Has(diff.old, b) <=> Has(diff.new, b)))

Walking ==
  /\ diff \in DiffType /\ diff.at.bytes <= LengthMax
  /\ IsRangeList(diff.old) /\ IsRangeList(diff.new)
  /\ Behind(diff.old, diff.oldIndex, diff.at.bytes)
  /\ Behind(diff.new, diff.newIndex, diff.at.bytes)
  /\ ~DiffOver => /\ Ahead(diff.old, diff.oldIndex, diff.inOld, diff.at.bytes)
                  /\ Ahead(diff.new, diff.newIndex, diff.inNew, diff.at.bytes)
IInv == Walking /\ Apart(diff.found, diff.at.bytes) /\ ExactTo(diff.at.bytes)

-----------------------------------------------------------------------------
(* One list. *)

\* The members of a list of ranges, and their ends.
LEMMA Offsets ==
  ASSUME NEW l \in Seq(Ranges), NEW k \in 1..Len(l)
  PROVE  /\ l[k] \in Ranges /\ l[k].start \in Edges /\ l[k].end \in Edges
         /\ l[k].start.bytes \in Nat /\ l[k].end.bytes \in Nat
<1>1. l[k] \in Ranges OBVIOUS
<1> QED BY <1>1 DEF Ranges, Edges

\* What comes later in a list starts, and ends, later.
LEMMA InOrder ==
  ASSUME NEW l \in Seq(Ranges), IsRangeList(l), NEW j \in 1..Len(l), NEW k \in 1..Len(l), j <= k
  PROVE  l[j].start.bytes <= l[k].start.bytes /\ l[j].end.bytes <= l[k].end.bytes
<1>1. /\ l[j].start.bytes <= l[j].end.bytes /\ l[k].start.bytes <= l[k].end.bytes
      /\ l[j].start.bytes \in Nat /\ l[j].end.bytes \in Nat
      /\ l[k].start.bytes \in Nat /\ l[k].end.bytes \in Nat
  BY Offsets DEF IsRangeList, IsRange
<1>2. CASE j = k BY <1>1, <1>2
<1>3. CASE j < k
  <2>1. l[j].end.bytes <= l[k].start.bytes BY <1>3 DEF IsRangeList
  <2> QED BY <1>1, <2>1
<1> QED BY <1>2, <1>3

\* Between where the walk stands and the next edge, the list has all bytes or none.
LEMMA BetweenEdges ==
  ASSUME NEW l \in Seq(Ranges), IsRangeList(l), NEW i \in Nat, NEW in \in BOOLEAN, NEW p \in Nat,
         Behind(l, i, p), Ahead(l, i, in, p),
         NEW b \in Nat, p <= b, b < NextEdge(l, i, in).bytes
  PROVE  Has(l, b) <=> in
<1>1. ASSUME in PROVE Has(l, b)
  <2>1. i \in 1..Len(l) /\ l[i].start.bytes <= p BY <1>1 DEF Ahead, Behind
  <2>2. b < l[i].end.bytes BY <1>1 DEF NextEdge
  <2>3. l[i].start.bytes <= b BY <2>1, Offsets
  <2> QED BY <2>1, <2>2, <2>3 DEF Has
<1>2. ASSUME ~in, NEW k \in 1..Len(l), l[k].start.bytes <= b, b < l[k].end.bytes PROVE FALSE
  <2>1. CASE k < i
    <3>1. i - 1 \in 1..Len(l) /\ k <= i - 1 /\ l[i - 1].end.bytes <= p BY <2>1 DEF Behind
    <3>2. l[k].end.bytes <= l[i - 1].end.bytes BY <3>1, InOrder
    <3>3. l[k].end.bytes \in Nat /\ l[i - 1].end.bytes \in Nat BY <3>1, Offsets
    <3> QED BY <1>2, <3>1, <3>2, <3>3
  <2>2. CASE i <= k
    <3>1. i \in 1..Len(l) BY <2>2 DEF Behind
    <3>2. b < l[i].start.bytes BY <1>2, <3>1 DEF NextEdge
    <3>3. l[i].start.bytes <= l[k].start.bytes BY <2>2, <3>1, InOrder
    <3>4. l[i].start.bytes \in Nat /\ l[k].start.bytes \in Nat BY <3>1, Offsets
    <3> QED BY <1>2, <3>2, <3>3, <3>4
  <2> QED BY <2>1, <2>2
<1> QED BY <1>1, <1>2 DEF Has

\* A list that is over has no byte any more.
LEMMA NoneLeft ==
  ASSUME NEW l \in Seq(Ranges), IsRangeList(l), NEW i \in Nat, i > Len(l), NEW p \in Nat,
         Behind(l, i, p), NEW b \in Nat, p <= b
  PROVE  ~Has(l, b)
<1> SUFFICES ASSUME NEW k \in 1..Len(l), l[k].start.bytes <= b, b < l[k].end.bytes PROVE FALSE
  BY DEF Has
<1>1. i - 1 \in 1..Len(l) /\ k <= i - 1 /\ l[i - 1].end.bytes <= p BY DEF Behind
<1>2. l[k].end.bytes <= l[i - 1].end.bytes BY <1>1, InOrder
<1>3. l[k].end.bytes \in Nat /\ l[i - 1].end.bytes \in Nat BY <1>1, Offsets
<1> QED BY <1>1, <1>2, <1>3

\* The next edge is not behind, and no further than LengthMax.
LEMMA EdgeAhead ==
  ASSUME NEW l \in Seq(Ranges), IsRangeList(l), NEW i \in Nat, NEW in \in BOOLEAN, NEW p \in Nat,
         p <= LengthMax, Behind(l, i, p), Ahead(l, i, in, p)
  PROVE  /\ NextEdge(l, i, in) \in Edges /\ NextEdge(l, i, in).bytes \in Nat
         /\ p <= NextEdge(l, i, in).bytes /\ NextEdge(l, i, in).bytes <= LengthMax
<1>1. LengthMax \in Nat BY LengthMaxAssumption
<1>2. CASE i \in 1..Len(l)
  <2>1. /\ l[i].start \in Edges /\ l[i].end \in Edges
        /\ l[i].start.bytes \in Nat /\ l[i].end.bytes \in Nat BY <1>2, Offsets
  <2>2. l[i].end.bytes <= LengthMax /\ l[i].start.bytes <= LengthMax
    BY <1>1, <1>2 DEF IsRangeList, IsRange
  <2>3. CASE in
    <3>1. NextEdge(l, i, in) = l[i].end BY <2>3 DEF NextEdge
    <3>2. p <= l[i].end.bytes BY <2>3 DEF Ahead
    <3> QED BY <2>1, <2>2, <3>1, <3>2
  <2>4. CASE ~in
    <3>1. NextEdge(l, i, in) = l[i].start BY <1>2, <2>4 DEF NextEdge
    <3>2. p <= l[i].start.bytes BY <1>2, <2>4 DEF Ahead
    <3> QED BY <2>1, <2>2, <3>1, <3>2
  <2> QED BY <2>3, <2>4
<1>3. CASE i = Len(l) + 1
  <2>1. NextEdge(l, i, in) = [bytes |-> LengthMax]
    BY <1>3 DEF NextEdge, Ahead
  <2> QED BY <1>1, <2>1 DEF Edges
<1> QED BY <1>2, <1>3 DEF Behind

\* The walk goes on to a place that is no further than the next edge.
LEMMA WalksOn ==
  ASSUME NEW l \in Seq(Ranges), IsRangeList(l), NEW i \in Nat, NEW in \in BOOLEAN, NEW p \in Nat,
         p <= LengthMax, Behind(l, i, p), Ahead(l, i, in, p), NEW q \in Nat, p <= q,
         q <= NextEdge(l, i, in).bytes,
         NEW moves \in BOOLEAN, moves <=> NextEdge(l, i, in).bytes <= q
  PROVE  /\ Behind(l, IF moves /\ in THEN i + 1 ELSE i, q)
         /\ i <= Len(l) \/ ~moves =>
              Ahead(l, IF moves /\ in THEN i + 1 ELSE i, IF moves THEN ~in ELSE in, q)
<1>1. NextEdge(l, i, in).bytes \in Nat BY EdgeAhead
<1>2. Behind(l, i, q)
  <2>1. ASSUME i > 1 PROVE l[i - 1].end.bytes <= q
    <3>1. i - 1 \in 1..Len(l) /\ l[i - 1].end.bytes <= p BY <2>1 DEF Behind
    <3> QED BY <3>1, Offsets
  <2> QED BY <2>1 DEF Behind
<1>3. CASE ~moves
  <2>1. q < NextEdge(l, i, in).bytes BY <1>1, <1>3
  <2>2. ASSUME in PROVE i <= Len(l) /\ l[i].start.bytes <= q /\ q <= l[i].end.bytes
    <3>1. i \in 1..Len(l) /\ l[i].start.bytes <= p BY <2>2 DEF Ahead, Behind
    <3>2. NextEdge(l, i, in) = l[i].end BY <2>2 DEF NextEdge
    <3> QED BY <2>1, <3>1, <3>2, Offsets
  <2>3. ASSUME ~in, i <= Len(l) PROVE q <= l[i].start.bytes
    <3>1. NextEdge(l, i, in) = l[i].start BY <2>3 DEF NextEdge
    <3> QED BY <3>1
  <2>4. Ahead(l, i, in, q) BY <2>2, <2>3 DEF Ahead
  <2> QED BY <1>2, <1>3, <2>4
<1>4. CASE moves /\ in
  <2>1. i \in 1..Len(l) BY <1>4 DEF Ahead, Behind
  <2>2. q = l[i].end.bytes
    <3>1. NextEdge(l, i, in) = l[i].end BY <1>4 DEF NextEdge
    <3>2. NextEdge(l, i, in).bytes <= q BY <1>4
    <3> QED BY <1>1, <3>1, <3>2
  <2>3. Behind(l, i + 1, q) BY <2>1, <2>2, Offsets DEF Behind
  <2>4. Ahead(l, i + 1, FALSE, q)
    <3>1. ASSUME i + 1 <= Len(l) PROVE l[i].end.bytes <= l[i + 1].start.bytes
      BY <2>1, <3>1 DEF IsRangeList
    <3> QED BY <2>2, <3>1 DEF Ahead
  <2> QED BY <1>4, <2>3, <2>4
<1>5. CASE moves /\ ~in
  <2>1. ASSUME i <= Len(l) PROVE Ahead(l, i, TRUE, q)
    <3>1. i \in 1..Len(l) BY <2>1 DEF Behind
    <3>2. NextEdge(l, i, in) = l[i].start BY <1>5, <2>1 DEF NextEdge
    <3>3. q = l[i].start.bytes BY <1>1, <1>5, <3>2
    <3>4. l[i].start.bytes <= l[i].end.bytes BY <3>1 DEF IsRangeList, IsRange
    <3> QED BY <2>1, <3>3, <3>4, <3>1, Offsets DEF Ahead
  <2> QED BY <1>2, <1>5, <2>1
<1> QED BY <1>3, <1>4, <1>5

\* Who stands at LengthMax stands at the end of the last range.
LEMMA AtTheEnd ==
  ASSUME NEW l \in Seq(Ranges), IsRangeList(l), NEW i \in 1..Len(l), NEW in \in BOOLEAN,
         NEW p \in Nat, Ahead(l, i, in, p), LengthMax <= NextEdge(l, i, in).bytes
  PROVE  in /\ i = Len(l)
<1>1. /\ LengthMax \in Nat /\ l[i].start.bytes \in 0..LengthMax - 1
      /\ l[i].end.bytes \in 0..LengthMax
  BY LengthMaxAssumption DEF IsRangeList, IsRange
<1>2. in
  <2>1. ASSUME ~in PROVE NextEdge(l, i, in) = l[i].start BY <2>1 DEF NextEdge
  <2> QED BY <1>1, <2>1
<1>3. LengthMax <= l[i].end.bytes BY <1>2 DEF NextEdge
<1>4. ASSUME i < Len(l) PROVE FALSE
  <2>1. i + 1 \in 1..Len(l) /\ i \in 1..(i + 1) - 1 BY <1>4
  <2>2. l[i].end.bytes <= l[i + 1].start.bytes BY <2>1 DEF IsRangeList
  <2>3. l[i + 1].start.bytes \in 0..LengthMax - 1 BY <2>1 DEF IsRangeList, IsRange
  <2> QED BY <1>1, <1>3, <2>2, <2>3
<1> QED BY <1>2, <1>4

-----------------------------------------------------------------------------
(* What was found. *)

\* What was found before the position is found, and apart, before any later one.
LEMMA FoundStays ==
  ASSUME NEW f \in Seq(Ranges), NEW p \in Nat, Apart(f, p), NEW q \in Nat, p <= q
  PROVE  Apart(f, q) /\ \A b \in Nat : Has(f, b) => b < p
<1>1. \A k \in 1..Len(f) : f[k].start.bytes \in Nat /\ f[k].end.bytes \in Nat BY Offsets
<1>2. \A k \in 1..Len(f) : f[k].end.bytes <= p BY DEF Apart
<1>3. \A k \in 1..Len(f) : f[k].end.bytes <= q BY <1>1, <1>2
<1>4. Apart(f, q) BY <1>3 DEF Apart
<1>5. ASSUME NEW b \in Nat, Has(f, b) PROVE b < p
  <2>1. PICK k \in 1..Len(f) : b < f[k].end.bytes BY <1>5 DEF Has
  <2> QED BY <1>1, <1>2, <2>1
<1> QED BY <1>4, <1>5

\* Adding what starts where the walk stands adds its bytes.
LEMMA FoundGrows ==
  ASSUME NEW f \in Seq(Ranges), NEW s \in Edges, NEW e \in Edges, Apart(f, s.bytes),
         s.bytes <= e.bytes
  PROVE  /\ RangeArrayAdd(f, s, e) \in Seq(Ranges) /\ Apart(RangeArrayAdd(f, s, e), e.bytes)
         /\ \A b \in Nat : Has(RangeArrayAdd(f, s, e), b)
                             <=> Has(f, b) \/ (s.bytes <= b /\ b < e.bytes)
<1> DEFINE n == Len(f)  g == RangeArrayAdd(f, s, e)
<1>1. s.bytes \in Nat /\ e.bytes \in Nat BY DEF Edges
<1>2. \A k \in 1..n : /\ f[k] \in Ranges /\ f[k].start.bytes \in Nat
                       /\ f[k].end.bytes \in Nat
  BY Offsets
<1>3. CASE n > 0 /\ s.bytes <= f[n].end.bytes
  <2>1. n \in 1..n BY <1>3
  <2>2. f[n].end.bytes = s.bytes BY <1>1, <1>2, <1>3, <2>1 DEF Apart
  <2>3. g = [f EXCEPT ![n].end = e] BY <1>3 DEF RangeArrayAdd
  <2>4. [f[n] EXCEPT !.end = e] \in Ranges BY <1>2, <2>1 DEF Ranges
  <2>5. /\ g \in Seq(Ranges) /\ Len(g) = n /\ g[n] = [f[n] EXCEPT !.end = e]
        /\ \A k \in 1..n - 1 : g[k] = f[k]
    BY <2>1, <2>3, <2>4
  <2>6. g[n].start = f[n].start /\ g[n].end = e
    BY <1>2, <2>1, <2>5 DEF Ranges
  <2>7. Apart(g, e.bytes)
    <3> SUFFICES ASSUME NEW i \in 1..n
                 PROVE  /\ g[i].start.bytes < g[i].end.bytes /\ g[i].end.bytes <= e.bytes
                        /\ \A j \in 1..i - 1 : g[j].end.bytes < g[i].start.bytes
      BY <2>5 DEF Apart
    <3>1. \A j \in 1..i - 1 : g[j] = f[j] /\ f[j].end.bytes < f[i].start.bytes
      BY <2>5 DEF Apart
    <3>2. f[i].start.bytes < f[i].end.bytes /\ f[i].end.bytes <= s.bytes BY DEF Apart
    <3>3. CASE i = n BY <1>1, <1>2, <2>2, <2>6, <3>1, <3>2, <3>3
    <3>4. CASE i < n
      <4>1. g[i] = f[i] BY <2>5, <3>4
      <4> QED BY <1>1, <1>2, <3>1, <3>2, <4>1
    <3> QED BY <3>3, <3>4
  <2>8. ASSUME NEW b \in Nat PROVE Has(g, b) <=> Has(f, b) \/ (s.bytes <= b /\ b < e.bytes)
    <3>1. f[n].start.bytes < s.bytes BY <2>1, <2>2 DEF Apart
    <3>2. f[n].start.bytes <= b /\ b < e.bytes
            <=> \/ f[n].start.bytes <= b /\ b < f[n].end.bytes
                \/ s.bytes <= b /\ b < e.bytes
      BY <1>1, <1>2, <2>1, <2>2, <3>1
    <3>3. ASSUME Has(g, b) PROVE Has(f, b) \/ (s.bytes <= b /\ b < e.bytes)
      <4>1. PICK k \in 1..n : g[k].start.bytes <= b /\ b < g[k].end.bytes
        BY <2>5, <3>3 DEF Has
      <4>2. CASE k = n BY <2>1, <2>6, <3>2, <4>1, <4>2 DEF Has
      <4>3. CASE k < n
        <5>1. g[k] = f[k] BY <2>5, <4>3
        <5> QED BY <4>1, <5>1 DEF Has
      <4> QED BY <4>2, <4>3
    <3>4. ASSUME Has(f, b) PROVE Has(g, b)
      <4>1. PICK k \in 1..n : f[k].start.bytes <= b /\ b < f[k].end.bytes BY <3>4 DEF Has
      <4>2. CASE k = n BY <2>1, <2>5, <2>6, <3>2, <4>1, <4>2 DEF Has
      <4>3. CASE k < n
        <5>1. g[k] = f[k] BY <2>5, <4>3
        <5> QED BY <2>5, <4>1, <5>1 DEF Has
      <4> QED BY <4>2, <4>3
    <3>5. ASSUME s.bytes <= b, b < e.bytes PROVE Has(g, b)
      BY <2>1, <2>5, <2>6, <3>2, <3>5 DEF Has
    <3> QED BY <3>3, <3>4, <3>5
  <2> QED BY <2>5, <2>7, <2>8
<1>4. CASE ~(n > 0 /\ s.bytes <= f[n].end.bytes) /\ s.bytes < e.bytes
  <2> DEFINE r == [start |-> s, end |-> e]
  <2>1. r \in Ranges BY DEF Ranges
  <2>2. g = Append(f, r) BY <1>4 DEF RangeArrayAdd
  <2>3. /\ g \in Seq(Ranges) /\ Len(g) = n + 1 /\ g[n + 1] = r
        /\ \A k \in 1..n : g[k] = f[k]
    BY <2>1, <2>2
  <2>4. \A k \in 1..n : f[k].end.bytes < s.bytes
    <3> SUFFICES ASSUME NEW k \in 1..n PROVE f[k].end.bytes < s.bytes OBVIOUS
    <3>1. n \in 1..n /\ f[n].end.bytes < s.bytes BY <1>1, <1>2, <1>4
    <3>2. CASE k = n BY <3>1, <3>2
    <3>3. CASE k < n
      <4>1. f[k].end.bytes < f[n].start.bytes /\ f[n].start.bytes < f[n].end.bytes
        BY <3>1, <3>3 DEF Apart
      <4> QED BY <1>1, <1>2, <3>1, <4>1
    <3> QED BY <3>2, <3>3
  <2>5. Apart(g, e.bytes)
    <3> SUFFICES ASSUME NEW i \in 1..n + 1
                 PROVE  /\ g[i].start.bytes < g[i].end.bytes /\ g[i].end.bytes <= e.bytes
                        /\ \A j \in 1..i - 1 : g[j].end.bytes < g[i].start.bytes
      BY <2>3 DEF Apart
    <3>1. CASE i = n + 1 BY <1>1, <1>4, <2>3, <2>4, <3>1
    <3>2. CASE i \in 1..n
      <4>1. g[i] = f[i] /\ \A j \in 1..i - 1 : g[j] = f[j] BY <2>3, <3>2
      <4>2. /\ f[i].start.bytes < f[i].end.bytes /\ f[i].end.bytes <= s.bytes
            /\ \A j \in 1..i - 1 : f[j].end.bytes < f[i].start.bytes
        BY <3>2 DEF Apart
      <4>3. f[i].end.bytes <= e.bytes BY <1>1, <1>2, <3>2, <4>2
      <4> QED BY <4>1, <4>2, <4>3
    <3> QED BY <3>1, <3>2
  <2>6. ASSUME NEW b \in Nat PROVE Has(g, b) <=> Has(f, b) \/ (s.bytes <= b /\ b < e.bytes)
    <3>1. Has(g, b) <=> \E i \in 1..n + 1 : g[i].start.bytes <= b /\ b < g[i].end.bytes
      BY <2>3 DEF Has
    <3>2. @ <=> \/ \E i \in 1..n : g[i].start.bytes <= b /\ b < g[i].end.bytes
                \/ r.start.bytes <= b /\ b < r.end.bytes
      <4>1. 1..n + 1 = 1..n \union {n + 1} OBVIOUS
      <4> QED BY <2>3, <4>1
    <3> QED BY <2>3, <3>1, <3>2 DEF Has
  <2> QED BY <2>3, <2>5, <2>6
<1>5. CASE ~(n > 0 /\ s.bytes <= f[n].end.bytes) /\ ~(s.bytes < e.bytes)
  <2>1. g = f BY <1>5 DEF RangeArrayAdd
  <2>2. s.bytes = e.bytes BY <1>1, <1>5
  <2> QED BY <1>1, <2>1, <2>2
<1> QED BY <1>3, <1>4, <1>5

-----------------------------------------------------------------------------
(* The walk through both. *)

\* There is nothing to compare at first.
LEMMA WalkInit == DiffInit => IInv
<1> SUFFICES ASSUME DiffInit PROVE IInv OBVIOUS
<1>1. diff = NewDiff(<<>>, <<>>) BY DEF DiffInit
<1>2. diff \in DiffType BY <1>1 DEF NewDiff, DiffType, Edges
<1>3. /\ diff.old = <<>> /\ diff.new = <<>> /\ diff.oldIndex = 1 /\ diff.newIndex = 1
      /\ diff.at.bytes = 0 /\ diff.found = <<>>
  BY <1>1 DEF NewDiff
<1>4. Walking BY <1>2, <1>3, LengthMaxAssumption DEF Walking, IsRangeList, Behind, DiffOver
<1> QED BY <1>3, <1>4 DEF IInv, Apart, ExactTo

\* The comparison of two range lists begins with nothing found before the first byte.
LEMMA WalkBegins ==
  ASSUME NEW old \in Seq(Ranges), NEW new \in Seq(Ranges), IsRangeList(old), IsRangeList(new),
         GetChangedRanges(old, new)
  PROVE  IInv'
<1>1. diff' = NewDiff(old, new) BY DEF GetChangedRanges
<1>2. LengthMax \in Nat BY LengthMaxAssumption
<1>3. diff' \in DiffType BY <1>1 DEF NewDiff, DiffType, Edges
<1>4. /\ diff'.old = old /\ diff'.new = new /\ diff'.oldIndex = 1 /\ diff'.newIndex = 1
      /\ diff'.at.bytes = 0 /\ diff'.inOld = FALSE /\ diff'.inNew = FALSE /\ diff'.found = <<>>
  BY <1>1 DEF NewDiff
<1>5. ASSUME NEW l \in Seq(Ranges) PROVE Behind(l, 1, 0) /\ Ahead(l, 1, FALSE, 0)
  <2>1. 1 <= Len(l) => l[1].start.bytes \in Nat BY Offsets
  <2> QED BY <2>1 DEF Behind, Ahead
<1>6. Walking'
  <2>1. Behind(old, 1, 0) /\ Behind(new, 1, 0) /\ Ahead(old, 1, FALSE, 0) /\ Ahead(new, 1, FALSE, 0)
    BY <1>5
  <2>2. /\ Behind(diff.old, diff.oldIndex, diff.at.bytes)'
        /\ Behind(diff.new, diff.newIndex, diff.at.bytes)'
        /\ Ahead(diff.old, diff.oldIndex, diff.inOld, diff.at.bytes)'
        /\ Ahead(diff.new, diff.newIndex, diff.inNew, diff.at.bytes)'
    BY <1>4, <2>1
  <2>3. IsRangeList(diff.old)' /\ IsRangeList(diff.new)' BY <1>4
  <2>4. diff'.at.bytes <= LengthMax BY <1>2, <1>4
  <2> QED BY <1>3, <2>2, <2>3, <2>4 DEF Walking
<1>7. Apart(diff.found, diff.at.bytes)' /\ ExactTo(diff.at.bytes)' BY <1>4 DEF Apart, ExactTo
<1> QED BY <1>6, <1>7 DEF IInv

\* Every round is exact up to the edge it moves to.
LEMMA WalkStep == IInv /\ DiffRound => IInv'
<1> SUFFICES ASSUME IInv, DiffRound PROVE IInv' OBVIOUS
<1> DEFINE old == diff.old  new == diff.new  p == diff.at.bytes
           oldEdge == NextEdge(old, diff.oldIndex, diff.inOld)
           newEdge == NextEdge(new, diff.newIndex, diff.inNew)
           oldMoves == oldEdge.bytes <= newEdge.bytes
           newMoves == newEdge.bytes <= oldEdge.bytes
           next == IF newMoves THEN newEdge ELSE oldEdge
           q == next.bytes
<1>1. /\ diff \in DiffType /\ p <= LengthMax /\ IsRangeList(old) /\ IsRangeList(new)
      /\ Behind(old, diff.oldIndex, p) /\ Behind(new, diff.newIndex, p)
      /\ Ahead(old, diff.oldIndex, diff.inOld, p) /\ Ahead(new, diff.newIndex, diff.inNew, p)
      /\ Apart(diff.found, p) /\ ExactTo(p) /\ ~DiffOver
  BY DEF IInv, Walking, DiffRound
<1>2. /\ old \in Seq(Ranges) /\ new \in Seq(Ranges) /\ diff.found \in Seq(Ranges)
      /\ diff.oldIndex \in Nat /\ diff.newIndex \in Nat /\ diff.at \in Edges /\ p \in Nat
      /\ diff.inOld \in BOOLEAN /\ diff.inNew \in BOOLEAN
  BY <1>1 DEF DiffType, Edges
<1>3. /\ oldEdge \in Edges /\ oldEdge.bytes \in Nat /\ p <= oldEdge.bytes
      /\ oldEdge.bytes <= LengthMax
      /\ newEdge \in Edges /\ newEdge.bytes \in Nat /\ p <= newEdge.bytes
      /\ newEdge.bytes <= LengthMax
  BY <1>1, <1>2, EdgeAhead
<1>4. /\ next \in Edges /\ q \in Nat /\ p <= q /\ q <= LengthMax
      /\ q <= oldEdge.bytes /\ q <= newEdge.bytes
      /\ oldMoves <=> oldEdge.bytes <= q
      /\ newMoves <=> newEdge.bytes <= q
  BY <1>3
<1> DEFINE i == IF oldMoves /\ diff.inOld THEN diff.oldIndex + 1 ELSE diff.oldIndex
           j == IF newMoves /\ diff.inNew THEN diff.newIndex + 1 ELSE diff.newIndex
           inOld == IF oldMoves THEN ~diff.inOld ELSE diff.inOld
           inNew == IF newMoves THEN ~diff.inNew ELSE diff.inNew
           found == IF diff.inOld # diff.inNew THEN RangeArrayAdd(diff.found, diff.at, next)
                    ELSE diff.found
<1>5. diff' = [diff EXCEPT !.oldIndex = i, !.newIndex = j, !.at = next, !.inOld = inOld,
                           !.inNew = inNew, !.found = found]
  BY DEF DiffRound
<1>6. /\ diff'.old = old /\ diff'.new = new /\ diff'.oldIndex = i /\ diff'.newIndex = j
      /\ diff'.at = next /\ diff'.inOld = inOld /\ diff'.inNew = inNew /\ diff'.found = found
  BY <1>1, <1>5 DEF DiffType
<1> HIDE DEF next, oldEdge, newEdge
<1>7. /\ Behind(old, i, q) /\ (diff.oldIndex <= Len(old) \/ ~oldMoves => Ahead(old, i, inOld, q))
      /\ Behind(new, j, q) /\ (diff.newIndex <= Len(new) \/ ~newMoves => Ahead(new, j, inNew, q))
  <2>1. oldMoves \in BOOLEAN /\ newMoves \in BOOLEAN OBVIOUS
  <2>2. /\ Behind(old, i, q)
        /\ (diff.oldIndex <= Len(old) \/ ~oldMoves => Ahead(old, i, inOld, q))
    BY <1>1, <1>2, <1>4, <2>1, WalksOn DEF oldEdge
  <2>3. /\ Behind(new, j, q)
        /\ (diff.newIndex <= Len(new) \/ ~newMoves => Ahead(new, j, inNew, q))
    BY <1>1, <1>2, <1>4, <2>1, WalksOn DEF newEdge
  <2> QED BY <2>2, <2>3
<1>8. ASSUME ~DiffOver' PROVE Ahead(old, i, inOld, q) /\ Ahead(new, j, inNew, q)
  <2>1. i <= Len(old) \/ j <= Len(new)
    BY <1>1, <1>2, <1>6, <1>7, <1>8 DEF DiffOver, Behind
  <2>2. CASE diff.oldIndex <= Len(old) /\ diff.newIndex <= Len(new) BY <1>7, <2>2
  <2>3. CASE diff.oldIndex > Len(old)
    <3>1. diff.newIndex \in 1..Len(new) BY <1>1, <2>3 DEF DiffOver, Behind
    <3>0. ~diff.inOld BY <1>1, <1>2, <2>3 DEF Ahead
    <3>2. i = diff.oldIndex BY <3>0
    <3>3. ASSUME oldMoves PROVE FALSE
      <4>0. oldEdge = [bytes |-> LengthMax] BY <1>2, <2>3, <3>0 DEF oldEdge, NextEdge
      <4>1. oldEdge.bytes = LengthMax BY <4>0
      <4>2. LengthMax <= newEdge.bytes BY <3>3, <4>1
      <4>3. diff.inNew /\ diff.newIndex = Len(new)
        BY <1>1, <1>2, <3>1, <4>2, AtTheEnd DEF newEdge
      <4>4. newMoves BY <1>3, <4>1
      <4>5. j = Len(new) + 1 BY <4>3, <4>4
      <4> QED BY <1>2, <2>1, <2>3, <3>2, <4>5
    <3> QED BY <1>7, <3>1, <3>3
  <2>4. CASE diff.newIndex > Len(new)
    <3>1. diff.oldIndex \in 1..Len(old) BY <1>1, <2>4 DEF DiffOver, Behind
    <3>0. ~diff.inNew BY <1>1, <1>2, <2>4 DEF Ahead
    <3>2. j = diff.newIndex BY <3>0
    <3>3. ASSUME newMoves PROVE FALSE
      <4>0. newEdge = [bytes |-> LengthMax] BY <1>2, <2>4, <3>0 DEF newEdge, NextEdge
      <4>1. newEdge.bytes = LengthMax BY <4>0
      <4>2. LengthMax <= oldEdge.bytes BY <3>3, <4>1
      <4>3. diff.inOld /\ diff.oldIndex = Len(old)
        BY <1>1, <1>2, <3>1, <4>2, AtTheEnd DEF oldEdge
      <4>4. oldMoves BY <1>3, <4>1
      <4>5. i = Len(old) + 1 BY <4>3, <4>4
      <4> QED BY <1>2, <2>1, <2>4, <3>2, <4>5
    <3> QED BY <1>7, <3>1, <3>3
  <2> QED BY <1>1, <2>2, <2>3, <2>4 DEF Behind
<1>9. /\ found \in Seq(Ranges) /\ Apart(found, q)
      /\ \A b \in Nat : Has(found, b)
           <=> Has(diff.found, b) \/ (diff.inOld # diff.inNew /\ p <= b /\ b < q)
  <2>1. CASE diff.inOld # diff.inNew
    BY <1>1, <1>2, <1>4, <2>1, FoundGrows
  <2>2. CASE diff.inOld = diff.inNew
    BY <1>1, <1>2, <1>4, <2>2, FoundStays
  <2> QED BY <2>1, <2>2
<1>10. diff' \in DiffType
  <2>1. i \in Nat /\ j \in Nat BY <1>2
  <2>2. inOld \in BOOLEAN /\ inNew \in BOOLEAN BY <1>2, Zenon
  <2> QED BY <1>1, <1>4, <1>5, <1>9, <2>1, <2>2 DEF DiffType
<1>11. Walking'
  BY <1>1, <1>4, <1>6, <1>7, <1>8, <1>10 DEF Walking
<1>12. ExactTo(diff.at.bytes)'
  <2> SUFFICES ASSUME NEW b \in Nat, b < q
               PROVE  Has(found, b) <=> ~(Has(old, b) <=> Has(new, b))
    BY <1>6 DEF ExactTo
  <2>1. CASE b < p BY <1>1, <1>2, <1>9, <2>1 DEF ExactTo
  <2>2. CASE p <= b
    <3>1. ~Has(diff.found, b) BY <1>1, <1>2, <2>2, FoundStays
    <3>2. Has(old, b) <=> diff.inOld
      BY <1>1, <1>2, <1>3, <1>4, <2>2, BetweenEdges DEF oldEdge
    <3>3. Has(new, b) <=> diff.inNew
      BY <1>1, <1>2, <1>3, <1>4, <2>2, BetweenEdges DEF newEdge
    <3>4. Has(found, b) <=> diff.inOld # diff.inNew BY <1>9, <2>2, <3>1
    <3>5. (diff.inOld # diff.inNew) <=> ~(diff.inOld <=> diff.inNew) BY <1>2, Zenon
    <3> QED BY <3>2, <3>3, <3>4, <3>5, Zenon
  <2> QED BY <1>2, <2>1, <2>2
<1> QED BY <1>6, <1>9, <1>11, <1>12 DEF IInv

\* Exact up to the position where both lists have ended, the result is exact.
LEMMA WalkExact == IInv => DiffExact
<1> SUFFICES ASSUME IInv, DiffOver PROVE DiffExact BY DEF DiffExact
<1>1. /\ diff.old \in Seq(Ranges) /\ diff.new \in Seq(Ranges) /\ diff.found \in Seq(Ranges)
      /\ diff.oldIndex \in Nat /\ diff.newIndex \in Nat /\ diff.at.bytes \in Nat
  BY DEF IInv, Walking, DiffType, Edges
<1>2. ASSUME NEW b \in Nat PROVE Has(diff.found, b) <=> ~(Has(diff.old, b) <=> Has(diff.new, b))
  <2>1. CASE b < diff.at.bytes BY <2>1 DEF IInv, ExactTo
  <2>2. CASE diff.at.bytes <= b
    <3>1. ~Has(diff.old, b) /\ ~Has(diff.new, b)
      BY <1>1, <2>2, NoneLeft DEF IInv, Walking, DiffOver
    <3>2. ~Has(diff.found, b) BY <1>1, <2>2, FoundStays DEF IInv
    <3> QED BY <3>1, <3>2
  <2> QED BY <1>1, <2>1, <2>2
<1>3. ASSUME NEW k \in 1..Len(diff.found)
      PROVE  /\ diff.found[k].start.bytes < diff.found[k].end.bytes
             /\ k > 1 => diff.found[k - 1].end.bytes < diff.found[k].start.bytes
  BY <1>1 DEF IInv, Apart
<1>4. 0..LengthMax - 1 \subseteq Nat BY LengthMaxAssumption
<1> QED BY <1>2, <1>3, <1>4 DEF DiffExact

\* What DiffExact says of the differences (ranges.go:42) holds whenever a walk
\* is over, whatever the lists, and however many walks there were.
THEOREM DiffAlwaysExact == DiffSpec => []DiffExact
<1>1. DiffInit => IInv BY WalkInit
<1>2. IInv /\ [DiffNext]_diff => IInv'
  <2> SUFFICES ASSUME IInv, [DiffNext]_diff PROVE IInv' OBVIOUS
  <2>1. CASE DiffRound BY <2>1, WalkStep
  <2>2. ASSUME NEW old \in Seq(Ranges), NEW new \in Seq(Ranges), IsRangeList(old),
               IsRangeList(new), GetChangedRanges(old, new)
        PROVE  IInv'
    BY <2>2, WalkBegins
  <2>3. CASE UNCHANGED diff
    BY <2>3 DEF IInv, Walking, Apart, ExactTo, DiffOver
  <2> QED BY <2>1, <2>2, <2>3 DEF DiffNext
<1>3. IInv => DiffExact BY WalkExact
<1> QED BY <1>1, <1>2, <1>3, PTL DEF DiffSpec
=============================================================================
