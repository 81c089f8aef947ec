------------------------------ MODULE RangeDiff ------------------------------
(***************************************************************************)
(* Where two lists of included ranges differ.  rangeArrayGetChangedRanges  *)
(* walks both at once, from one start or end of a range to the next, and   *)
(* notes what lies between two edges when only one of the lists has it.    *)
(***************************************************************************)
EXTENDS Integers, Sequences

CONSTANT LengthMax  \* the bytes of lengthMax, the largest offset
ASSUME LengthMaxAssumption == LengthMax \in Nat \ {0}

VARIABLE diff       \* the two lists, and the variables of the loop

Edges == [bytes : Nat]
Ranges == [start : Edges, end : Edges]
\* A list setIncludedRanges takes; no range starts at the end of every text.
IsRange(r) == r.start.bytes \in 0..LengthMax - 1 /\ r.end.bytes \in r.start.bytes..LengthMax
IsRangeList(l) ==
  /\ \A i \in 1..Len(l) : IsRange(l[i])
  /\ \A k \in 1..Len(l) : \A i \in 1..k - 1 : l[i].end.bytes <= l[k].start.bytes
Has(l, b) == \E i \in 1..Len(l) : l[i].start.bytes <= b /\ b < l[i].end.bytes

\* A plausible mistake: a range that touches the last one stands beside it.
RangeArrayAddBeside(l, start, end) ==
  LET last == Len(l)
  IN  IF last > 0 /\ start.bytes < l[last].end.bytes THEN [l EXCEPT ![last].end = end]
      ELSE IF start.bytes < end.bytes THEN Append(l, [start |-> start, end |-> end])
      ELSE l
\* What is added starts where the last range ends, or after it.
RangeArrayAdd(l, start, end) ==
  LET last == Len(l)
  IN  IF last > 0 /\ start.bytes <= l[last].end.bytes THEN [l EXCEPT ![last].end = end]
      ELSE IF start.bytes < end.bytes THEN Append(l, [start |-> start, end |-> end])
      ELSE l

RangeArrayIntersects(l, from, startByte, endByte) ==
  \E i \in from..Len(l) :
    /\ l[i].end.bytes > startByte /\ l[i].start.bytes < endByte
    /\ \A j \in from..i - 1 : l[j].end.bytes <= startByte

NewDiff(old, new) ==
  [ old |-> old, new |-> new, oldIndex |-> 1, newIndex |-> 1, at |-> [bytes |-> 0],
    inOld |-> FALSE, inNew |-> FALSE, found |-> <<>> ]
DiffInit == diff = NewDiff(<<>>, <<>>)

NextEdge(l, i, inside) ==
  IF inside THEN l[i].end
  ELSE IF i <= Len(l) THEN l[i].start
  ELSE [bytes |-> LengthMax]

DiffOver == diff.oldIndex > Len(diff.old) /\ diff.newIndex > Len(diff.new)
GetChangedRanges(old, new) == DiffOver /\ diff' = NewDiff(old, new)
DiffRound ==
  LET oldEdge == NextEdge(diff.old, diff.oldIndex, diff.inOld)
      newEdge == NextEdge(diff.new, diff.newIndex, diff.inNew)
      oldMoves == oldEdge.bytes <= newEdge.bytes
      newMoves == newEdge.bytes <= oldEdge.bytes
      next == IF newMoves THEN newEdge ELSE oldEdge
  IN  /\ ~DiffOver
      /\ diff' = [diff EXCEPT
           !.oldIndex = IF oldMoves /\ diff.inOld THEN @ + 1 ELSE @,
           !.newIndex = IF newMoves /\ diff.inNew THEN @ + 1 ELSE @,
           !.at = next,
           !.inOld = IF oldMoves THEN ~@ ELSE @,
           !.inNew = IF newMoves THEN ~@ ELSE @,
           !.found = IF diff.inOld # diff.inNew THEN RangeArrayAdd(@, diff.at, next) ELSE @]

DiffNext ==
  \/ DiffRound
  \/ \E old, new \in Seq(Ranges) :
       IsRangeList(old) /\ IsRangeList(new) /\ GetChangedRanges(old, new)
DiffSpec == DiffInit /\ [][DiffNext]_diff

\* When the loop is over, a byte lies in what it found exactly when one of the
\* lists has it and the other has not; and what it found is in order, with gaps
\* between, as the parser takes it (ranges.go:42, parser_loop.go:315).
DiffExact ==
  DiffOver =>
    /\ \A b \in 0..LengthMax - 1 : Has(diff.found, b) <=> ~(Has(diff.old, b) <=> Has(diff.new, b))
    /\ \A i \in 1..Len(diff.found) :
         /\ diff.found[i].start.bytes < diff.found[i].end.bytes
         /\ i > 1 => diff.found[i - 1].end.bytes < diff.found[i].start.bytes
=============================================================================
