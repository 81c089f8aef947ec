------------------------------ MODULE TreeEdit ------------------------------
(***************************************************************************)
(* An edit of the text: what it does to the padding, the size and the      *)
(* children of a subtree, to the included ranges of a tree and to a point. *)
(***************************************************************************)
EXTENDS Subtrees

CONSTANT MaxByte    \* the largest byte offset

-----------------------------------------------------------------------------
(* The tree. *)

Span(start, oldEnd, newEnd) == [start |-> start, oldEnd |-> oldEnd, newEnd |-> newEnd]
IsPureInsertion(e) == e.oldEnd.bytes = e.start.bytes
IsNoop(e) == IsPureInsertion(e) /\ e.newEnd.bytes = e.start.bytes
ColumnShifted(e) == e.newEnd.extent.column # e.oldEnd.extent.column

\* What the edit leaves of the padding and of the size.
Shifted(s, e) ==
  LET total == TotalSize(s)
  IN  CASE e.oldEnd.bytes <= s.padding.bytes ->
             [padding |-> LengthAdd(e.newEnd, LengthSub(s.padding, e.oldEnd)), size |-> s.size]
        [] e.oldEnd.bytes > s.padding.bytes /\ e.start.bytes < s.padding.bytes ->
             [padding |-> e.newEnd,
              size |-> LengthSaturatingSub(s.size, LengthSub(e.oldEnd, s.padding))]
        [] e.oldEnd.bytes > s.padding.bytes /\ e.start.bytes >= s.padding.bytes
             /\ (e.start.bytes < total.bytes
                  \/ (e.start.bytes = total.bytes /\ IsPureInsertion(e))) ->
             [padding |-> s.padding,
              size |-> LengthAdd(LengthSub(e.newEnd, s.padding),
                                 LengthSaturatingSub(total, e.oldEnd))]
        [] OTHER -> [padding |-> s.padding, size |-> s.size]

Misses(s, e) ==
  LET end == TotalBytes(s) + s.lookahead
  IN  e.start.bytes > end \/ (IsNoop(e) /\ e.start.bytes = end)

\* Where the i-th child ends.
RightOf(children, i) ==
  FoldLeft(LAMBDA sum, c : LengthAdd(sum, TotalSize(c)), LengthZero, SubSeq(children, 1, i))
\* A plausible mistake: what a child looked ahead at is not counted.
ReachedTight(lefts, rights, children, e) == {i \in DOMAIN children : rights[i].bytes >= e.start.bytes}
Reached(lefts, rights, children, e) ==
  {i \in DOMAIN children : rights[i].bytes + children[i].lookahead >= e.start.bytes}
\* A plausible mistake: text put in where a child ends is nobody's.
TakesInside(right, e) == right.bytes > e.start.bytes
Takes(right, e) ==
  right.bytes > e.start.bytes \/ (right.bytes = e.start.bytes /\ IsPureInsertion(e))
\* The children an edit of `self` goes on to, with their part of it: the first
\* that takes the new text gets it, for the others it is a deletion.
ChildEdits(self, padding, children, e) ==
  LET lefts == [i \in DOMAIN children |-> RightOf(children, i - 1)]
      rights == [i \in DOMAIN children |-> RightOf(children, i)]
      reached == Reached(lefts, rights, children, e)
      Beyond(i) ==
        /\ \/ lefts[i].bytes > e.oldEnd.bytes
           \/ lefts[i].bytes = e.oldEnd.bytes /\ TotalBytes(children[i]) > 0 /\ i > 1
        /\ ~self.column \/ lefts[i].extent.row > padding.extent.row
        /\ ~children[i].column \/ ~ColumnShifted(e) \/ lefts[i].extent.row > e.oldEnd.extent.row
      edited == {i \in reached : \A j \in reached : j <= i => ~Beyond(j)}
      Part(i) ==
        LET taken == \E j \in edited : j < i /\ Takes(rights[j], e)
            start == LengthSaturatingSub(e.start, lefts[i])
        IN  IF Takes(rights[i], e)
            THEN Span(start, LengthSaturatingSub(e.oldEnd, lefts[i]),
                      LengthSaturatingSub(IF taken THEN e.start ELSE e.newEnd, lefts[i]))
            ELSE Span(start, start, start)
  IN  [i \in edited |-> Part(i)]

-----------------------------------------------------------------------------
(* Positions outside the tree: included ranges and held nodes. *)

Wrap(byte) == byte % (MaxByte + 1)
MaxPoint == Point(MaxByte, MaxByte)
At(bytes, point) == [bytes |-> bytes, point |-> point]
Carried(at, e) ==
  LET bytes == Wrap(e.newEnd.bytes + at.bytes - e.oldEnd.bytes)
  IN  At(bytes, PointAdd(e.newEnd.extent, PointSub(at.point, e.oldEnd.extent)))
\* A plausible mistake: an offset past the largest one wraps.
SaturatedNever(at, e) == at
\* An end that no longer fits is the end of every text.
Saturated(at, e) == IF at.bytes < e.newEnd.bytes THEN At(MaxByte, MaxPoint) ELSE at
RangeEdit(r, e) ==
  LET Start(at) == IF at.bytes > e.start.bytes THEN At(e.start.bytes, e.start.extent) ELSE at
  IN  [end |-> IF r.end.bytes < e.oldEnd.bytes THEN Start(r.end)
               ELSE IF r.end.bytes = MaxByte THEN r.end
               ELSE Saturated(Carried(r.end, e), e),
       start |-> IF r.start.bytes >= e.oldEnd.bytes THEN Saturated(Carried(r.start, e), e)
                 ELSE Start(r.start)]
PointEdit(at, e) ==
  IF at.bytes >= e.oldEnd.bytes THEN Carried(at, e)
  ELSE IF at.bytes > e.start.bytes THEN At(e.newEnd.bytes, e.newEnd.extent)
  ELSE at
=============================================================================
