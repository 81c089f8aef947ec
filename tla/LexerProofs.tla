---------------------------- MODULE LexerProofs ----------------------------
(***************************************************************************)
(* The lexer stays in the included text and never uses a range or a byte   *)
(* that is not there, and the rows and columns that it keeps up to date    *)
(* step by step are those of the text, for every text, chunk size and list *)
(* of ranges; and no token ends in the gap between two ranges, for lists   *)
(* that fit.                                                               *)
(***************************************************************************)
EXTENDS Lexer, TLAPS, FiniteSetTheorems, WellFoundedInduction

RangeList(rs) == rs \in Seq([start : Nat, end : Nat]) /\ rs # <<>>

\* The bounds of a range of a list are byte offsets.
LEMMA RangeBounds ==
    ASSUME NEW rs, RangeList(rs), NEW i \in 1 .. Len(rs)
    PROVE rs[i].start \in Nat /\ rs[i].end \in Nat
<1> DEFINE R == [start : Nat, end : Nat]
<1>1. rs \in Seq(R)
  BY DEF RangeList
<1> HIDE DEF R
<1>2. rs[i] \in R
  BY <1>1
<1> QED
  BY <1>2 DEF R

\* A set of natural numbers that is not empty has a least element.
LEMMA LeastExists ==
    ASSUME NEW S \in SUBSET Nat, S # {}
    PROVE LeastOf(S) \in S /\ \A y \in S : LeastOf(S) <= y
<1>1. PICK x \in S : \A y \in S : ~ (<<y, x>> \in OpToRel(<, Nat))
  BY NatLessThanWellFounded, WFMin
<1>2. \A y \in S : x <= y
  <2> TAKE y \in S
  <2>1. ~ (y < x)
    BY <1>1 DEF OpToRel
  <2> QED
    BY <2>1
<1> QED
  BY <1>2 DEF LeastOf

\* A row starts at or before each of its bytes, behind a newline unless it is the first.
LEMMA LineStartType ==
    ASSUME NEW b \in Nat
    PROVE /\ LineStart(b) \in 0 .. b
          /\ LineStart(b) # 0 => LineStart(b) <= N /\ Doc[LineStart(b)] = Newline
<1> DEFINE S == {0} \cup {i \in 1 .. b : i <= N /\ Doc[i] = Newline}
           T == {b - x : x \in S}
<1>1. S \subseteq 0 .. b
  OBVIOUS
<1>2. T \subseteq Nat /\ T # {}
  BY <1>1
<1>3. PICK m \in T : \A t \in T : m <= t
  BY <1>2, LeastExists
<1>4. PICK x \in S : m = b - x
  OBVIOUS
<1>5. \A y \in S : y <= x
  <2> TAKE y \in S
  <2>1. m <= b - y
    BY <1>3
  <2> QED
    BY <2>1, <1>1, <1>4
<1>6. GreatestOf(S) \in S
  BY <1>4, <1>5 DEF GreatestOf
<1> QED
  BY <1>1, <1>6 DEF LineStart

\* The row and column of a byte make a place, whose row starts in the text.
LEMMA PlaceOfType ==
    ASSUME NEW b \in Nat
    PROVE /\ PlaceOf(b) \in Place /\ PlaceOf(b).bytes = b
          /\ PlaceOf(b).col <= PlaceOf(b).bytes
<1> DEFINE S == {i \in 1 .. b : i <= N /\ Doc[i] = Newline}
<1>1. IsFiniteSet(1 .. b)
  BY FS_Interval
<1>2. Cardinality(S) \in Nat
  <2>1. S \in SUBSET (1 .. b)
    OBVIOUS
  <2>2. IsFiniteSet(S)
    BY <1>1, <2>1, FS_Subset
  <2> QED
    BY <2>2, FS_CardinalityType
<1>3. LineStart(b) \in 0 .. b
  BY LineStartType
<1> HIDE DEF S
<1>4. PlaceOf(b) = [bytes |-> b, row |-> Cardinality(S), col |-> b - LineStart(b)]
  BY DEF PlaceOf, S
<1> QED
  BY <1>2, <1>3, <1>4 DEF Place

\* Decoding gives a character, or decodeError, and a width.
LEMMA DecodeType ==
    ASSUME NEW b \in Nat, b < N, NEW limit \in Nat
    PROVE Decode(b, limit) \in [code : Codes \cup {Bad, Nul}, size : Nat]
<1>1. Doc[b + 1] \in Codes /\ Width[Doc[b + 1]] \in Nat
  BY TextAssumption DEF N
<1> QED
  BY <1>1 DEF Decode
-----------------------------------------------------------------------------
(* The methods keep a cursor good.                                         *)

\* getChunk leaves text at the position, or the lexer at the end.
LEMMA GetChunkGood ==
    ASSUME RangeList(ranges), NEW c \in Cursor, c.index \in 1 .. End(ranges),
           c.pos.col <= c.pos.bytes, Placed(c, ranges)
    PROVE LET d == GetChunk(c)
          IN /\ Good(d, ranges) /\ d.pos = c.pos /\ d.ahead = c.ahead
             /\ d.chunk.start = c.pos.bytes
             /\ d.column = c.column
             /\ d.chunk.len # 0 => c.pos.bytes < N
<1> DEFINE left == IF c.pos.bytes < N THEN N - c.pos.bytes ELSE 0
           n == IF left < ChunkSize THEN left ELSE ChunkSize
           d == GetChunk(c)
<1>1. N \in Nat /\ c.pos.bytes \in Nat
  BY TextAssumption DEF N, Cursor, Place
<1>2. left \in Nat /\ n \in Nat /\ n <= left
  BY <1>1, ChunkAssumption
<1>3. n # 0 => c.pos.bytes < N /\ c.pos.bytes + n <= N
  BY <1>1, <1>2
<1>4. End(ranges) \in Nat /\ End(ranges) \in 1 .. End(ranges)
  BY DEF End, RangeList
<1>5. d = [c EXCEPT !.chunk = [start |-> c.pos.bytes, len |-> n],
                    !.index = IF n = 0 THEN End(ranges) ELSE c.index]
  BY DEF GetChunk
<1> HIDE DEF left, n, d
<1>6. /\ d \in Cursor /\ d.pos = c.pos /\ d.ahead = c.ahead /\ d.column = c.column
      /\ d.chunk = [start |-> c.pos.bytes, len |-> n]
      /\ d.index = IF n = 0 THEN End(ranges) ELSE c.index
  BY <1>1, <1>2, <1>4, <1>5 DEF Cursor
<1>7. Placed(d, ranges)
  BY <1>6 DEF Placed
<1>8. Covered(d, ranges)
  BY <1>1, <1>2, <1>3, <1>6 DEF Covered, Chunked, InChunk
<1> QED
  BY <1>3, <1>4, <1>6, <1>7, <1>8 DEF Good, d

\* getLookahead, with the position in the chunk or at the end of it.
LEMMA GetLookaheadGood ==
    ASSUME RangeList(ranges), NEW c, Good(c, ranges),
           \/ c.pos.bytes = c.chunk.start + c.chunk.len
           \/ c.pos.bytes < N
    PROVE Good(GetLookahead(c), ranges)
<1> DEFINE limit == c.chunk.start + c.chunk.len
           next == GetChunk(c)
<1>1. /\ c \in Cursor /\ limit \in Nat /\ c.pos.bytes \in Nat
      /\ c.index \in 1 .. End(ranges) /\ c.pos.col <= c.pos.bytes /\ Placed(c, ranges)
  BY DEF Good, Cursor, Place
<1>2. Good(next, ranges) /\ next.pos = c.pos
  BY <1>1, GetChunkGood
<1>3. next.chunk.start + next.chunk.len \in Nat
  BY <1>2 DEF Good, Cursor
<1> HIDE DEF next, limit
<1>4. ASSUME NEW e \in Cursor, Good(e, ranges),
             NEW a \in [code : Codes \cup {Bad, Nul}, size : Nat]
      PROVE Good([e EXCEPT !.ahead = a], ranges)
  <2> DEFINE f == [e EXCEPT !.ahead = a]
  <2>1. f \in Cursor /\ f.pos = e.pos /\ f.index = e.index /\ f.chunk = e.chunk
    BY <1>4 DEF Cursor
  <2> HIDE DEF f
  <2>2. Good(f, ranges)
    BY <1>4, <2>1 DEF Good, Placed, Covered, Chunked, InChunk
  <2> QED
    BY <2>2 DEF f
<1>5. next \in Cursor
  BY <1>2 DEF Good
<1>6. AtEnd \in [code : Codes \cup {Bad, Nul}, size : Nat]
  BY DEF AtEnd
<1>7. CASE c.pos.bytes = limit
  BY <1>1, <1>4, <1>6, <1>7 DEF GetLookahead, limit
<1>8. CASE c.pos.bytes # limit
  <2>1. c.pos.bytes < N
    BY <1>8 DEF limit
  <2>2. /\ Decode(c.pos.bytes, limit) \in [code : Codes \cup {Bad, Nul}, size : Nat]
        /\ Decode(c.pos.bytes, next.chunk.start + next.chunk.len)
              \in [code : Codes \cup {Bad, Nul}, size : Nat]
    BY <1>1, <1>3, <2>1, DecodeType
  <2>3. Good([c EXCEPT !.ahead = Decode(c.pos.bytes, limit)], ranges)
    BY <1>1, <1>4, <2>2
  <2>4. Good([next EXCEPT !.ahead =
                Decode(c.pos.bytes, next.chunk.start + next.chunk.len)], ranges)
    BY <1>2, <1>4, <1>5, <2>2
  <2> QED
    BY <1>8, <2>3, <2>4 DEF GetLookahead, limit, next
<1> QED
  BY <1>7, <1>8

\* gotoPosition ends in a range that has text after the position, or at the end.
LEMMA GotoGood ==
    ASSUME NEW rs, RangeList(rs), NEW c \in Cursor,
           c.chunk.len # 0 => c.chunk.start + c.chunk.len <= N,
           NEW place \in Place, place.col <= place.bytes
    PROVE Good(Goto(c, place, rs), rs)
<1> DEFINE b == place.bytes
           later == {i \in 1 .. Len(rs) : rs[i].end > b /\ Used(rs[i])}
           i == LeastOf(later)
           at == IF rs[i].start >= b THEN PlaceOf(rs[i].start) ELSE place
           column == IF b # c.pos.bytes THEN NoColumn ELSE c.column
           kept == c.chunk.start <= at.bytes /\ at.bytes < c.chunk.start + c.chunk.len
           chunk == IF kept THEN c.chunk ELSE NoChunk
<1>1. Len(rs) \in Nat /\ Len(rs) >= 1 /\ End(rs) \in 1 .. End(rs)
      /\ (1 .. Len(rs)) \subseteq 1 .. End(rs) /\ End(rs) \notin 1 .. Len(rs)
  BY DEF RangeList, End
<1>2. \A j \in 1 .. Len(rs) : rs[j].start \in Nat /\ rs[j].end \in Nat
  BY RangeBounds
<1>3. b \in Nat
  BY DEF Place
<1>4. column \in Column
  BY DEF Column, NoColumn, Cursor
<1>5. /\ NothingAhead \in [code : Codes \cup {Bad, Nul}, size : Nat]
      /\ AtEnd \in [code : Codes \cup {Bad, Nul}, size : Nat]
      /\ NoChunk \in [start : Nat, len : Nat]
  BY DEF NothingAhead, AtEnd, NoChunk
<1>6. CASE later # {}
  <2>1. i \in later
    <3>1. later \in SUBSET Nat
      OBVIOUS
    <3> QED
      BY <1>6, <3>1, LeastExists
  <2>2. i \in 1 .. Len(rs) /\ rs[i].end > b /\ rs[i].end > rs[i].start
    BY <2>1 DEF Used
  <2>3. /\ at \in Place /\ at.col <= at.bytes
        /\ rs[i].start <= at.bytes /\ at.bytes < rs[i].end
    <3> HIDE DEF i
    <3>1. CASE rs[i].start >= b
      BY <1>2, <2>2, <3>1, PlaceOfType
    <3>2. CASE ~(rs[i].start >= b)
      BY <1>2, <1>3, <2>2, <3>2
    <3> QED
      BY <3>1, <3>2
  <2>4. chunk \in [start : Nat, len : Nat]
        /\ (chunk.len # 0 => /\ chunk.start + chunk.len <= N
                             /\ chunk.start <= at.bytes
                             /\ at.bytes < chunk.start + chunk.len)
    <3> HIDE DEF at
    <3>1. c.chunk \in [start : Nat, len : Nat]
      BY DEF Cursor
    <3> QED
      BY <1>5, <3>1 DEF NoChunk
  <2>5. Goto(c, place, rs) = [pos |-> at, index |-> i, chunk |-> chunk,
                              ahead |-> NothingAhead, column |-> column]
    BY <1>6 DEF Goto
  <2> HIDE DEF at, chunk, column, i, later, b
  <2>6. Goto(c, place, rs) \in Cursor
    BY <1>1, <1>4, <1>5, <2>2, <2>3, <2>4, <2>5 DEF Cursor
  <2> QED
    BY <1>1, <2>2, <2>3, <2>4, <2>5, <2>6 DEF Good, Placed, Covered, Chunked, InChunk
<1>7. CASE later = {}
  <2> DEFINE last == PlaceOf(rs[Len(rs)].end)
  <2>1. last \in Place /\ last.col <= last.bytes
    BY <1>1, <1>2, PlaceOfType
  <2>2. Goto(c, place, rs) = [pos |-> last, index |-> End(rs), chunk |-> NoChunk,
                              ahead |-> AtEnd, column |-> column]
    BY <1>7 DEF Goto
  <2> HIDE DEF last, column, later, b
  <2>3. Goto(c, place, rs) \in Cursor
    BY <1>1, <1>4, <1>5, <2>1, <2>2 DEF Cursor
  <2> QED
    BY <1>1, <2>1, <2>2, <2>3 DEF Good, Placed, Covered, Chunked, NoChunk
<1> QED
  BY <1>6, <1>7

\* reset is gotoPosition, or nothing.
LEMMA ResetGood ==
    ASSUME RangeList(ranges), NEW c, Good(c, ranges),
           NEW place \in Place, place.col <= place.bytes
    PROVE Good(Reset(c, place), ranges)
<1>1. c \in Cursor /\ (c.chunk.len # 0 => c.chunk.start + c.chunk.len <= N)
  BY DEF Good, Covered, Chunked
<1>2. Good(Goto(c, place, ranges), ranges)
  BY <1>1, GotoGood
<1> QED
  BY <1>2 DEF Reset

\* doAdvance: over the lookahead, then into the next range, then read.
LEMMA PassedType ==
    ASSUME NEW c \in Cursor, c.pos.col <= c.pos.bytes
    PROVE LET d == Passed(c)
          IN /\ d \in Cursor /\ d.pos.col <= d.pos.bytes
             /\ d.index = c.index /\ d.chunk = c.chunk /\ d.ahead = c.ahead
<1> DEFINE newline == c.ahead.code = Newline
           skipped == c.ahead.code = BOM /\ c.pos.bytes = 0
           pos == [bytes |-> c.pos.bytes + c.ahead.size,
                   row |-> IF newline THEN c.pos.row + 1 ELSE c.pos.row,
                   col |-> IF newline THEN 0 ELSE c.pos.col + c.ahead.size]
           column == IF newline THEN [value |-> 0, valid |-> TRUE]
                     ELSE IF c.column.valid /\ ~skipped
                     THEN [c.column EXCEPT !.value = @ + 1] ELSE c.column
<1>1. /\ c.pos \in Place /\ c.ahead.size \in Nat /\ c.column \in Column
  BY DEF Cursor
<1>2. pos \in Place /\ pos.col <= pos.bytes
  BY <1>1 DEF Place
<1>3. column \in Column
  BY <1>1 DEF Column
<1>4. Passed(c) = IF c.ahead.size = 0 THEN c
                  ELSE [c EXCEPT !.pos = pos, !.column = column]
  BY DEF Passed
<1> HIDE DEF pos, column
<1> QED
  BY <1>2, <1>3, <1>4 DEF Cursor

\* Out of a range that is over doAdvance comes to a position inside one that is not empty,
\* or to the end.
LEMMA InNextRangeGood ==
    ASSUME RangeList(ranges), NEW c \in Cursor, c.index \in 1 .. End(ranges),
           c.pos.col <= c.pos.bytes,
           ~EOF(c) => ranges[c.index].start <= c.pos.bytes
    PROVE LET d == InNextRange(c)
          IN /\ d \in Cursor /\ d.index \in 1 .. End(ranges)
             /\ d.pos.col <= d.pos.bytes /\ Placed(d, ranges) /\ d.chunk = c.chunk
<1> DEFINE later == {i \in c.index + 1 .. Len(ranges) : Used(ranges[i])}
           i == LeastOf(later)
           inside == EOF(c) \/ (c.pos.bytes < ranges[c.index].end /\ Used(ranges[c.index]))
<1>1. /\ Len(ranges) \in Nat /\ Len(ranges) >= 1 /\ End(ranges) \in 1 .. End(ranges)
      /\ End(ranges) = Len(ranges) + 1 /\ c.index \in Nat
  BY DEF RangeList, End, Cursor
<1>2. \A j \in 1 .. Len(ranges) : ranges[j].start \in Nat /\ ranges[j].end \in Nat
  BY RangeBounds
<1>3. ASSUME NEW p \in Place, p.col <= p.bytes, NEW k \in 1 .. End(ranges),
             NEW d, d = [c EXCEPT !.index = k, !.pos = p],
             k # End(ranges) => ranges[k].start <= p.bytes /\ p.bytes < ranges[k].end
      PROVE /\ d \in Cursor /\ d.index \in 1 .. End(ranges)
            /\ d.pos.col <= d.pos.bytes /\ Placed(d, ranges) /\ d.chunk = c.chunk
  <2>1. k \in Nat
    BY <1>1
  <2>2. d \in Cursor /\ d.index = k /\ d.pos = p /\ d.chunk = c.chunk
    <3> HIDE DEF inside, later, i
    <3> QED
      BY <1>3, <2>1 DEF Cursor
  <2> QED
    BY <1>3, <2>2 DEF Placed
<1>4. CASE inside
  <2>1. InNextRange(c) = c
    BY <1>4 DEF InNextRange
  <2>2. Placed(c, ranges)
    BY <1>4 DEF Placed, EOF
  <2> HIDE DEF inside, later, i
  <2>3. c \in Cursor /\ c.index \in 1 .. End(ranges) /\ c.pos.col <= c.pos.bytes
    OBVIOUS
  <2> DEFINE d == InNextRange(c)
  <2>4. d = c
    BY <2>1
  <2> HIDE DEF d
  <2>5. /\ d \in Cursor /\ d.index \in 1 .. End(ranges)
        /\ d.pos.col <= d.pos.bytes /\ Placed(d, ranges) /\ d.chunk = c.chunk
    BY <2>2, <2>3, <2>4
  <2> QED
    BY <2>5 DEF d
<1>5. CASE ~inside /\ later # {}
  <2>1. i \in later
    <3>1. later \in SUBSET Nat
      BY <1>1
    <3> QED
      BY <1>5, <3>1, LeastExists
  <2>2. i \in 1 .. Len(ranges) /\ i \in 1 .. End(ranges)
        /\ ranges[i].end > ranges[i].start
    BY <1>1, <2>1 DEF Used
  <2>3. InNextRange(c) = [c EXCEPT !.index = i, !.pos = PlaceOf(ranges[i].start)]
    BY <1>5 DEF InNextRange
  <2> HIDE DEF i, later, inside
  <2> DEFINE p == PlaceOf(ranges[i].start)
             d == InNextRange(c)
  <2>4. ranges[i].start \in Nat /\ ranges[i].end \in Nat
    BY <1>2, <2>2
  <2>5. p \in Place /\ p.bytes = ranges[i].start /\ p.col <= p.bytes
    BY <2>4, PlaceOfType
  <2>6. d = [c EXCEPT !.index = i, !.pos = p]
    BY <2>3
  <2>7. ranges[i].start <= p.bytes /\ p.bytes < ranges[i].end
    BY <2>2, <2>4, <2>5
  <2> HIDE DEF p, d
  <2>8. /\ d \in Cursor /\ d.index \in 1 .. End(ranges)
        /\ d.pos.col <= d.pos.bytes /\ Placed(d, ranges) /\ d.chunk = c.chunk
    BY <1>3, <2>2, <2>5, <2>6, <2>7
  <2> QED
    BY <2>8 DEF d
<1>6. CASE ~inside /\ later = {}
  <2> DEFINE p == IF c.index < Len(ranges)
                  THEN PlaceOf(ranges[Len(ranges)].start) ELSE c.pos
  <2>1. InNextRange(c) = [c EXCEPT !.index = End(ranges), !.pos = p]
    BY <1>6 DEF InNextRange
  <2>2. p \in Place /\ p.col <= p.bytes
    <3>1. /\ PlaceOf(ranges[Len(ranges)].start) \in Place
          /\ PlaceOf(ranges[Len(ranges)].start).col
                 <= PlaceOf(ranges[Len(ranges)].start).bytes
      BY <1>1, <1>2, PlaceOfType
    <3> QED
      BY <3>1 DEF Cursor
  <2> DEFINE d == InNextRange(c)
  <2>3. d = [c EXCEPT !.index = End(ranges), !.pos = p]
    BY <2>1
  <2> HIDE DEF p, later, inside, d
  <2>4. /\ d \in Cursor /\ d.index \in 1 .. End(ranges)
        /\ d.pos.col <= d.pos.bytes /\ Placed(d, ranges) /\ d.chunk = c.chunk
    BY <1>1, <1>3, <2>2, <2>3
  <2> QED
    BY <2>4 DEF d
<1> QED
  BY <1>4, <1>5, <1>6

\* doAdvance as a whole: over the lookahead, into a range, and a chunk that covers it.
LEMMA DoAdvanceGood ==
    ASSUME RangeList(ranges), NEW c, Good(c, ranges)
    PROVE Good(DoAdvance(c), ranges)
<1> DEFINE p == Passed(c)
           d == InNextRange(p)
           e == IF InChunk(d) THEN d ELSE GetChunk(d)
<1>1. /\ p \in Cursor /\ p.pos.col <= p.pos.bytes
      /\ p.index = c.index /\ p.chunk = c.chunk /\ p.pos.bytes >= c.pos.bytes
  <2>1. c \in Cursor /\ c.pos.col <= c.pos.bytes
    BY DEF Good
  <2>2. p.pos.bytes >= c.pos.bytes
    BY <2>1 DEF Passed, Cursor, Place
  <2> QED
    BY <2>1, <2>2, PassedType
<1>2. p.index \in 1 .. End(ranges) /\ (~EOF(p) => ranges[p.index].start <= p.pos.bytes)
  <2>1. c.pos.bytes \in Nat /\ p.pos.bytes \in Nat
    BY <1>1 DEF Good, Cursor, Place
  <2>2. c.index \in 1 .. End(ranges) /\ Placed(c, ranges)
    BY DEF Good
  <2>3. ~EOF(p) => c.index \in 1 .. Len(ranges)
    BY <1>1, <2>2 DEF EOF, End, RangeList
  <2>4. ~EOF(p) => ranges[c.index].start \in Nat
    BY <2>3, RangeBounds
  <2> HIDE DEF p
  <2> QED
    BY <1>1, <2>1, <2>2, <2>4 DEF Placed, EOF
<1> HIDE DEF p
<1>3. /\ d \in Cursor /\ d.index \in 1 .. End(ranges) /\ d.pos.col <= d.pos.bytes
      /\ Placed(d, ranges) /\ d.chunk = p.chunk
  BY <1>1, <1>2, InNextRangeGood
<1>4. d.chunk.len # 0 => d.chunk.start + d.chunk.len <= N
  BY <1>1, <1>3 DEF Good, Covered, Chunked
<1>5. DoAdvance(c) = IF EOF(d) THEN [d EXCEPT !.chunk = NoChunk, !.ahead = AtEnd]
                     ELSE GetLookahead(e)
  BY DEF DoAdvance, p
<1> HIDE DEF d
<1>6. CASE EOF(d)
  <2> DEFINE f == [d EXCEPT !.chunk = NoChunk, !.ahead = AtEnd]
  <2>1. f \in Cursor /\ f.index = d.index /\ f.pos = d.pos /\ f.chunk = NoChunk
    BY <1>3 DEF Cursor, NoChunk, AtEnd
  <2> HIDE DEF f
  <2>2. Good(f, ranges)
    BY <1>3, <2>1 DEF Good, Placed, Covered, Chunked, NoChunk
  <2> QED
    BY <1>5, <1>6, <2>2 DEF f
<1>7. CASE ~EOF(d)
  <2>1. CASE InChunk(d)
    <3>1. Good(d, ranges)
      BY <1>3, <1>4, <2>1 DEF Good, Covered, Chunked
    <3>2. d.pos.bytes < N
      <4>1. /\ d.pos.bytes \in Nat /\ d.chunk.start \in Nat /\ d.chunk.len \in Nat
            /\ N \in Nat
        BY <1>3, TextAssumption DEF Cursor, Place, N
      <4> QED
        BY <1>4, <2>1, <4>1 DEF InChunk
    <3> QED
      BY <1>5, <1>7, <2>1, <3>1, <3>2, GetLookaheadGood
  <2>2. CASE ~InChunk(d)
    <3> DEFINE g == GetChunk(d)
    <3>1. /\ Good(g, ranges) /\ g.pos = d.pos /\ g.chunk.start = d.pos.bytes
          /\ (g.chunk.len # 0 => d.pos.bytes < N)
      BY <1>3, GetChunkGood
    <3> HIDE DEF g
    <3>2. \/ g.pos.bytes = g.chunk.start + g.chunk.len
          \/ g.pos.bytes < N
      BY <3>1 DEF Good, Cursor, Place
    <3>3. Good(GetLookahead(g), ranges)
      BY <3>1, <3>2, GetLookaheadGood
    <3> QED
      BY <1>5, <1>7, <2>2, <3>3 DEF g
  <2> QED
    BY <2>1, <2>2
<1> QED
  BY <1>6, <1>7

\* What only touches the column count leaves the cursor good.
LEMMA RecountedGood ==
    ASSUME RangeList(ranges), NEW c, Good(c, ranges), NEW k \in Column
    PROVE LET d == [c EXCEPT !.column = k]
          IN Good(d, ranges) /\ d.index = c.index /\ d.pos = c.pos
<1> DEFINE d == [c EXCEPT !.column = k]
<1>1. c \in Cursor
  BY DEF Good
<1>2. /\ d \in Cursor /\ d.index = c.index /\ d.pos = c.pos /\ d.chunk = c.chunk
  BY <1>1 DEF Cursor
<1> HIDE DEF d
<1>3. Good(d, ranges)
  BY <1>2 DEF Good, Placed, Covered, Chunked, InChunk
<1> QED
  BY <1>2, <1>3 DEF d

\* Reading at the position, at its start of a chunk.
LEMMA ReadGood ==
    ASSUME RangeList(ranges), NEW c, Good(c, ranges)
    PROVE LET d == GetChunk(c)
          IN Good(d, ranges) /\ d.pos = c.pos /\ Good(GetLookahead(d), ranges)
<1> DEFINE d == GetChunk(c)
<1>1. /\ c \in Cursor /\ c.index \in 1 .. End(ranges)
      /\ c.pos.col <= c.pos.bytes /\ Placed(c, ranges)
  BY DEF Good
<1>2. /\ Good(d, ranges) /\ d.pos = c.pos /\ d.chunk.start = c.pos.bytes
      /\ d.chunk.len # 0 => c.pos.bytes < N
  BY <1>1, GetChunkGood
<1> HIDE DEF d
<1>3. d.pos.bytes = d.chunk.start + d.chunk.len \/ d.pos.bytes < N
  <2>1. d.chunk.len \in Nat /\ d.chunk.start \in Nat
    BY <1>2 DEF Good, Cursor
  <2> QED
    BY <1>2, <2>1
<1>4. Good(GetLookahead(d), ranges)
  BY <1>2, <1>3, GetLookaheadGood
<1> QED
  BY <1>2, <1>4 DEF d

\* The short cut of Advance stays inside the range and the chunk.
LEMMA AdvancedGood ==
    ASSUME RangeList(ranges), NEW c, Good(c, ranges), ~EOF(c)
    PROVE Good(Advanced(c), ranges)
<1>1. CASE ~Chunked(c)
  BY <1>1 DEF Advanced
<1>2. CASE Chunked(c) /\ ShortCut(c)
  <2> DEFINE d == Stepped(c)
             b == c.pos.bytes
             pos == [bytes |-> c.pos.bytes + 1, row |-> c.pos.row, col |-> c.pos.col + 1]
             column == IF c.column.valid
                       THEN [c.column EXCEPT !.value = @ + 1] ELSE c.column
             ahead == [code |-> Doc[b + 2], size |-> 1]
  <2>1. /\ c \in Cursor /\ c.pos \in Place /\ b \in Nat /\ N \in Nat
        /\ c.chunk.start \in Nat /\ c.chunk.len \in Nat /\ c.column \in Column
    BY TextAssumption DEF Good, Cursor, Place, N
  <2>2. /\ c.chunk.start + c.chunk.len <= N /\ c.chunk.start <= b
        /\ b + 1 < c.chunk.start + c.chunk.len
    BY <1>2 DEF Good, Covered, EOF, InChunk, ShortCut
  <2>3. c.index \in 1 .. Len(ranges)
    BY DEF Good, EOF, End, RangeList
  <2>4. /\ ranges[c.index].start \in Nat /\ ranges[c.index].end \in Nat
        /\ ranges[c.index].start <= b /\ b + 1 < ranges[c.index].end
    BY <1>2, <2>3, RangeBounds DEF Good, Placed, EOF, ShortCut
  <2>5. pos \in Place /\ pos.bytes = b + 1 /\ pos.col <= pos.bytes
    <3>1. c.pos.col <= c.pos.bytes /\ c.pos.col \in Int /\ c.pos.row \in Nat
      BY <2>1 DEF Place, Good
    <3> QED
      BY <2>1, <3>1 DEF Place
  <2>6. column \in Column
    BY <2>1 DEF Column
  <2>7. ahead \in [code : Codes \cup {Bad, Nul}, size : Nat]
    <3>1. Doc[b + 2] \in Codes
      BY <2>1, <2>2, TextAssumption DEF N
    <3> QED
      BY <3>1
  <2>8. d = [c EXCEPT !.pos = pos, !.column = column, !.ahead = ahead]
    BY DEF Stepped
  <2> HIDE DEF pos, column, ahead, d
  <2>9. d \in Cursor /\ d.pos = pos /\ d.index = c.index /\ d.chunk = c.chunk
    BY <2>1, <2>5, <2>6, <2>7, <2>8 DEF Cursor
  <2>10. Placed(d, ranges)
    <3>1. ranges[c.index].start <= pos.bytes /\ pos.bytes < ranges[c.index].end
      BY <2>1, <2>4, <2>5
    <3> QED
      BY <2>9, <3>1 DEF Placed
  <2>11. Covered(d, ranges)
    BY <2>1, <2>2, <2>5, <2>9 DEF Covered, Chunked, InChunk
  <2>12. Good(d, ranges)
    BY <2>5, <2>9, <2>10, <2>11 DEF Good
  <2> QED
    BY <1>2, <2>12 DEF Advanced, d
<1>3. CASE Chunked(c) /\ ~ShortCut(c)
  BY <1>3, DoAdvanceGood DEF Advanced
<1> QED
  BY <1>1, <1>2, <1>3

\* A token ends at a place.
LEMMA EndMarkType ==
    ASSUME RangeList(ranges), NEW c, Good(c, ranges)
    PROVE EndMark(c) \in Place
<1>1. c.pos \in Place /\ c.index \in 1 .. End(ranges)
  BY DEF Good, Cursor
<1>2. CASE ~EOF(c) /\ c.index > 1
  <2>1. c.index - 1 \in 1 .. Len(ranges)
    BY <1>1, <1>2 DEF EOF, End, RangeList
  <2>2. PlaceOf(ranges[c.index - 1].end) \in Place
    BY <2>1, RangeBounds, PlaceOfType
  <2> QED
    BY <1>1, <2>2 DEF EndMark
<1>3. CASE ~(~EOF(c) /\ c.index > 1)
  BY <1>1, <1>3 DEF EndMark
<1> QED
  BY <1>2, <1>3
-----------------------------------------------------------------------------
(* Every action keeps IInv.                                                *)

\* The parts of IInv, and what they give the lemmas above.
LEMMA Facts ==
    ASSUME IInv
    PROVE /\ RangeList(ranges) /\ Good(cursor, ranges) /\ cursor \in Cursor
          /\ cursor.pos \in Place /\ cursor.column \in Column
          /\ cursor.pos.col <= cursor.pos.bytes
          /\ cursor.chunk.len # 0 => cursor.chunk.start + cursor.chunk.len <= N
  BY DEF IInv, TypeOK, Good, RangeList, Covered, Chunked, Cursor

\* Enough for a step that leaves the ranges alone.
LEMMA KeepsIInv ==
    ASSUME IInv, ranges' = ranges, Good(cursor', ranges),
           token' \in [start : Place, end : Place, set : BOOLEAN],
           asked' \in BOOLEAN, goal' \in Nat \cup {None},
           saved' \in [pos : Place, column : Column],
           saved'.pos.col <= saved'.pos.bytes,
           phase' \in {"between", "parsing", "scanning", "scanned", "panicked"}
    PROVE IInv'
<1>1. End(ranges)' = End(ranges)
  BY DEF End
<1>2. Good(cursor, ranges)'
  BY <1>1 DEF Good, Placed, Covered, Chunked, InChunk, End
<1>3. cursor' \in Cursor /\ cursor'.index \in 1 .. End(ranges)
  BY DEF Good
<1>4. ranges \in Seq([start : Nat, end : Nat]) /\ ranges # <<>>
  BY DEF IInv, TypeOK
<1>5. TypeOK'
  BY <1>1, <1>3, <1>4 DEF TypeOK
<1> QED
  BY <1>2, <1>5 DEF IInv

\* The values lex starts from before it saves a position.
LEMMA NowhereType ==
    /\ Nowhere \in [pos : Place, column : Column]
    /\ Nowhere.pos.col <= Nowhere.pos.bytes
  BY PlaceOfType DEF Nowhere, NoColumn, Column

\* A new lexer is at the start of the default range.
LEMMA InitIInv == Init => IInv
<1> SUFFICES ASSUME Init PROVE IInv
  OBVIOUS
<1>1. N \in Nat
  BY TextAssumption DEF N
<1> DEFINE r == [start |-> 0, end |-> N + 1]
<1>2. /\ ranges = <<r>> /\ Len(ranges) = 1 /\ End(ranges) = 2 /\ ranges[1] = r
      /\ r \in [start : Nat, end : Nat]
  BY <1>1 DEF Init, End
<1>3. ranges \in Seq([start : Nat, end : Nat]) /\ ranges # <<>>
  <2> HIDE DEF r
  <2> QED
    BY <1>2
<1>4. PlaceOf(0) \in Place /\ PlaceOf(0).bytes = 0 /\ PlaceOf(0).col <= PlaceOf(0).bytes
  BY PlaceOfType
<1>5. /\ cursor.pos = PlaceOf(0) /\ cursor.index = 1 /\ cursor.chunk = NoChunk
      /\ cursor \in Cursor
  BY <1>4 DEF Init, Fresh, Cursor, NoChunk, NothingAhead, NoColumn, Column
<1>6. Good(cursor, ranges)
  BY <1>1, <1>2, <1>4, <1>5 DEF Good, Placed, Covered, Chunked, NoChunk
<1>7. token \in [start : Place, end : Place, set : BOOLEAN]
  BY <1>4 DEF Init
<1>8. /\ asked \in BOOLEAN /\ goal \in Nat \cup {None}
      /\ phase \in {"between", "parsing", "scanning", "scanned", "panicked"}
      /\ saved = Nowhere
  BY DEF Init
<1>9. TypeOK
  BY <1>2, <1>3, <1>5, <1>7, <1>8, NowhereType DEF TypeOK
<1> QED
  BY <1>6, <1>8, <1>9, NowhereType DEF IInv

\* New ranges: the lexer goes to its own position in them.
LEMMA SetIncludedRangesKeeps ==
    ASSUME IInv, NEW rs \in RangeLists, SetIncludedRanges(rs)
    PROVE IInv'
<1>1. RangeList(rs)
  BY RangesAssumption DEF RangeList
<1>2. Good(Goto(cursor, cursor.pos, rs), rs)
  BY <1>1, Facts, GotoGood
<1>3. cursor' = Goto(cursor, cursor.pos, rs) /\ ranges' = rs
      /\ UNCHANGED <<token, asked, goal, saved, phase>>
  BY DEF SetIncludedRanges
<1>4. Good(cursor, ranges)'
  BY <1>2, <1>3 DEF Good, Placed, Covered, Chunked, InChunk, End
<1>5. cursor' \in Cursor /\ (cursor.index \in 1 .. End(ranges))'
  BY <1>4 DEF Good
<1>6. TypeOK'
  BY <1>1, <1>3, <1>5 DEF IInv, TypeOK, RangeList
<1> QED
  BY <1>3, <1>4, <1>6 DEF IInv

\* A step that only sends the cursor somewhere.
LEMMA MovesKeep ==
    ASSUME IInv, SetInput \/ ParserReset \/ (\E b \in 0 .. N : Seek(b))
    PROVE IInv'
<1>1. PlaceOf(0) \in Place /\ PlaceOf(0).col <= PlaceOf(0).bytes
  BY PlaceOfType
<1>2. CASE SetInput
  <2> DEFINE e == [cursor EXCEPT !.chunk = NoChunk]
             c == Goto(e, cursor.pos, ranges)
  <2>1. e \in Cursor /\ e.chunk.len = 0
    BY Facts DEF Cursor, NoChunk
  <2> HIDE DEF e
  <2>2. Good(c, ranges)
    BY <2>1, Facts, GotoGood
  <2> HIDE DEF c
  <2>3. Good(Reset(c, PlaceOf(0)), ranges)
    BY <1>1, <2>2, Facts, ResetGood
  <2>4. /\ cursor' = Reset(c, PlaceOf(0)) /\ phase' = "parsing"
        /\ UNCHANGED <<ranges, token, asked, goal, saved>>
    BY <1>2 DEF SetInput, c, e
  <2> QED
    BY <2>3, <2>4, KeepsIInv DEF IInv, TypeOK
<1>3. CASE ParserReset
  <2>1. Good(Reset(cursor, PlaceOf(0)), ranges)
    BY <1>1, Facts, ResetGood
  <2>2. /\ cursor' = Reset(cursor, PlaceOf(0)) /\ phase' = "between"
        /\ UNCHANGED <<ranges, token, asked, goal, saved>>
    BY <1>3 DEF ParserReset
  <2> QED
    BY <2>1, <2>2, KeepsIInv DEF IInv, TypeOK
<1>4. ASSUME NEW b \in 0 .. N, Seek(b) PROVE IInv'
  <2>1. b \in Nat
    BY <1>4
  <2>2. PlaceOf(b) \in Place /\ PlaceOf(b).col <= PlaceOf(b).bytes
    BY <2>1, PlaceOfType
  <2>3. Good(Reset(cursor, PlaceOf(b)), ranges)
    BY <2>2, Facts, ResetGood
  <2>4. /\ cursor' = Reset(cursor, PlaceOf(b))
        /\ UNCHANGED <<ranges, token, asked, goal, saved, phase>>
    BY <1>4 DEF Seek
  <2> QED
    BY <2>3, <2>4, KeepsIInv DEF IInv, TypeOK
<1> QED
  BY <1>2, <1>3, <1>4

\* start reads what is missing, and passes over a byte order mark.
LEMMA StartKeeps ==
    ASSUME IInv, Start
    PROVE IInv'
<1> DEFINE read == IF Chunked(cursor) THEN cursor ELSE GetChunk(cursor)
           c == IF read.ahead.size = 0 THEN GetLookahead(read) ELSE read
           skip == c.pos.bytes = 0 /\ c.ahead.code = BOM
           d == IF skip THEN DoAdvance(c) ELSE c
           from == IF skip THEN d.pos ELSE cursor.pos
           zero == [value |-> 0, valid |-> TRUE]
           next == IF EOF(cursor) THEN cursor
                   ELSE IF c.pos.bytes = 0 THEN [d EXCEPT !.column = zero] ELSE d
           start == IF EOF(cursor) THEN cursor.pos ELSE from
<1>1. /\ RangeList(ranges) /\ Good(cursor, ranges) /\ cursor.pos \in Place
      /\ cursor.column \in Column /\ cursor.pos.col <= cursor.pos.bytes
  BY Facts
<1>2. /\ ~EOF(cursor) => Good(read, ranges)
      /\ ~EOF(cursor) => Good(GetLookahead(read), ranges)
  <2> SUFFICES ASSUME ~EOF(cursor)
               PROVE Good(read, ranges) /\ Good(GetLookahead(read), ranges)
    OBVIOUS
  <2>1. CASE Chunked(cursor)
    <3>1. cursor.pos.bytes < N
      <4>1. /\ cursor.pos.bytes \in Nat /\ cursor.chunk.start \in Nat
            /\ cursor.chunk.len \in Nat /\ N \in Nat
        BY <1>1, TextAssumption DEF Good, Cursor, Place, N
      <4>2. InChunk(cursor) /\ cursor.chunk.start + cursor.chunk.len <= N
        BY <1>1, <2>1 DEF Good, Covered, EOF
      <4> QED
        BY <4>1, <4>2 DEF InChunk
    <3> QED
      BY <1>1, <2>1, <3>1, GetLookaheadGood
  <2>2. CASE ~Chunked(cursor)
    BY <1>1, <2>2, ReadGood
  <2> QED
    BY <2>1, <2>2
<1> HIDE DEF read
<1>3. ~EOF(cursor) => Good(c, ranges)
  BY <1>2
<1> HIDE DEF c
<1>4. ~EOF(cursor) => Good(d, ranges)
  BY <1>1, <1>3, DoAdvanceGood
<1> HIDE DEF d, skip
<1>5. zero \in Column
  BY DEF Column
<1> HIDE DEF zero
<1>6. Good(next, ranges)
  BY <1>1, <1>4, <1>5, RecountedGood
<1>7. start \in Place
  BY <1>1, <1>4 DEF Good, Cursor
<1>8. /\ cursor' = next /\ token' = [token EXCEPT !.start = start, !.set = FALSE]
      /\ asked' = FALSE /\ saved' = [pos |-> cursor.pos, column |-> cursor.column]
      /\ phase' = "scanning" /\ UNCHANGED <<ranges, goal>>
  BY DEF Start, read, c, skip, d, zero
<1> HIDE DEF next, start
<1>9. token' \in [start : Place, end : Place, set : BOOLEAN]
  BY <1>7, <1>8 DEF IInv, TypeOK
<1>10. saved' \in [pos : Place, column : Column] /\ saved'.pos.col <= saved'.pos.bytes
  BY <1>1, <1>8
<1> QED
  BY <1>6, <1>8, <1>9, <1>10, KeepsIInv DEF IInv, TypeOK

\* Advance, by the short cut or not; where the code panics nothing else changes.
LEMMA AdvanceKeeps ==
    ASSUME IInv, NEW skip \in BOOLEAN, Advance(skip)
    PROVE IInv'
<1>1. CASE EOF(cursor)
  <2>1. phase' = "panicked" /\ UNCHANGED <<ranges, cursor, token, asked, goal, saved>>
    BY <1>1 DEF Advance
  <2> QED
    BY <2>1, Facts, KeepsIInv DEF IInv, TypeOK
<1>2. CASE ~EOF(cursor)
  <2> DEFINE c == Advanced(cursor)
  <2>1. Good(c, ranges)
    BY <1>2, Facts, AdvancedGood
  <2>2. /\ cursor' = c
        /\ token' = IF skip THEN [token EXCEPT !.start = c.pos] ELSE token
        /\ UNCHANGED <<ranges, asked, goal, saved, phase>>
    BY <1>2 DEF Advance
  <2> HIDE DEF c
  <2>3. c.pos \in Place
    BY <2>1 DEF Good, Cursor
  <2>4. token' \in [start : Place, end : Place, set : BOOLEAN]
    BY <2>2, <2>3 DEF IInv, TypeOK
  <2> QED
    BY <2>1, <2>2, <2>4, KeepsIInv DEF IInv, TypeOK
<1> QED
  BY <1>1, <1>2

\* The steps that only write the token.
LEMMA TokensKeep ==
    ASSUME IInv, MarkEnd \/ Finish
    PROVE IInv'
<1>1. EndMark(cursor) \in Place
  BY Facts, EndMarkType
<1>2. CASE MarkEnd
  <2>1. token' = [token EXCEPT !.end = EndMark(cursor), !.set = TRUE]
        /\ UNCHANGED <<ranges, cursor, asked, goal, saved, phase>>
    BY <1>2 DEF MarkEnd
  <2>2. token' \in [start : Place, end : Place, set : BOOLEAN]
    BY <1>1, <2>1 DEF IInv, TypeOK
  <2> QED
    BY <2>1, <2>2, Facts, KeepsIInv DEF IInv, TypeOK
<1>3. CASE Finish
  <2> DEFINE end == IF token.set THEN token.end ELSE EndMark(cursor)
  <2>1. end \in Place
    BY <1>1 DEF IInv, TypeOK
  <2>2. /\ token' = [start |-> IF end.bytes < token.start.bytes THEN end ELSE token.start,
                     end |-> end, set |-> TRUE]
        /\ phase' = "scanned" /\ UNCHANGED <<ranges, cursor, asked, goal, saved>>
    BY <1>3 DEF Finish
  <2> HIDE DEF end
  <2>3. token' \in [start : Place, end : Place, set : BOOLEAN]
    BY <2>1, <2>2 DEF IInv, TypeOK
  <2> QED
    BY <2>2, <2>3, Facts, KeepsIInv DEF IInv, TypeOK
<1> QED
  BY <1>2, <1>3

\* GetColumn goes back to the start of the row, which is in the text, and advances again.
LEMMA ColumnsKeep ==
    ASSUME IInv, GetColumnKnown \/ GetColumn \/ GetColumnWalk \/ GetColumnDone
    PROVE IInv'
<1>1. CASE GetColumnKnown
  <2>1. asked' = TRUE /\ UNCHANGED <<ranges, cursor, token, goal, saved, phase>>
    BY <1>1 DEF GetColumnKnown
  <2> QED
    BY <2>1, Facts, KeepsIInv DEF IInv, TypeOK
<1>2. CASE GetColumn
  <2> DEFINE at == cursor.pos
             row == [bytes |-> at.bytes - at.col, row |-> at.row, col |-> 0]
             zero == [value |-> 0, valid |-> TRUE]
             e == Goto(cursor, row, ranges)
             f == [e EXCEPT !.column = zero]
             c == GetChunk(f)
  <2>1. at \in Place /\ at.col <= at.bytes /\ zero \in Column
    BY Facts DEF Column
  <2>2. row \in Place /\ row.col <= row.bytes
    BY <2>1 DEF Place
  <2> HIDE DEF row
  <2>3. Good(e, ranges)
    BY <2>2, Facts, GotoGood
  <2> HIDE DEF e, zero
  <2>4. Good(f, ranges)
    BY <2>1, <2>3, Facts, RecountedGood
  <2> HIDE DEF f
  <2>5. Good(c, ranges) /\ Good(GetLookahead(c), ranges)
    BY <2>4, Facts, ReadGood
  <2>6. /\ cursor' = IF EOF(c) THEN c ELSE GetLookahead(c)
        /\ goal' = at.bytes /\ asked' = TRUE
        /\ UNCHANGED <<ranges, token, saved, phase>>
    BY <1>2 DEF GetColumn, row, zero, e, f
  <2> HIDE DEF c
  <2>7. Good(cursor', ranges) /\ goal' \in Nat
    BY <2>1, <2>5, <2>6 DEF Place
  <2> QED
    BY <2>6, <2>7, KeepsIInv DEF IInv, TypeOK
<1>3. CASE GetColumnWalk
  <2>1. /\ cursor' = DoAdvance(cursor)
        /\ UNCHANGED <<ranges, token, asked, goal, saved, phase>>
    BY <1>3 DEF GetColumnWalk
  <2>2. Good(cursor', ranges)
    BY <2>1, Facts, DoAdvanceGood
  <2> QED
    BY <2>1, <2>2, KeepsIInv DEF IInv, TypeOK
<1>4. CASE GetColumnDone
  <2>1. goal' = None /\ UNCHANGED <<ranges, cursor, token, asked, saved, phase>>
    BY <1>4 DEF GetColumnDone
  <2> QED
    BY <2>1, Facts, KeepsIInv DEF IInv, TypeOK
<1> QED
  BY <1>1, <1>2, <1>3, <1>4

\* What lex does with the token.
LEMMA OutcomesKeep ==
    ASSUME IInv, Accept \/ ScanAgain \/ SkipCharacter
    PROVE IInv'
<1>1. CASE Accept
  <2>1. /\ phase' = "parsing" /\ saved' = Nowhere
        /\ UNCHANGED <<ranges, cursor, token, asked, goal>>
    BY <1>1 DEF Accept
  <2> QED
    BY <2>1, Facts, NowhereType, KeepsIInv DEF IInv, TypeOK
<1>2. CASE ScanAgain
  <2> DEFINE e == Reset(cursor, saved.pos)
  <2>1. saved.pos \in Place /\ saved.column \in Column
        /\ saved.pos.col <= saved.pos.bytes
    BY DEF IInv, TypeOK
  <2>2. Good(e, ranges)
    BY <2>1, Facts, ResetGood
  <2>3. /\ cursor' = [e EXCEPT !.column = saved.column]
        /\ phase' = "parsing" /\ saved' = Nowhere
        /\ UNCHANGED <<ranges, token, asked, goal>>
    BY <1>2 DEF ScanAgain
  <2> HIDE DEF e
  <2>4. Good(cursor', ranges)
    BY <2>1, <2>2, <2>3, Facts, RecountedGood
  <2> QED
    BY <2>3, <2>4, NowhereType, KeepsIInv DEF IInv, TypeOK
<1>3. CASE SkipCharacter
  <2>1. /\ cursor' = Advanced(cursor) /\ phase' = "parsing" /\ saved' = Nowhere
        /\ UNCHANGED <<ranges, token, asked, goal>>
    BY <1>3 DEF SkipCharacter
  <2>2. Good(cursor', ranges)
    BY <1>3, <2>1, Facts, AdvancedGood DEF SkipCharacter
  <2> QED
    BY <2>1, <2>2, NowhereType, KeepsIInv DEF IInv, TypeOK
<1> QED
  BY <1>1, <1>2, <1>3

\* Nothing happens, nothing breaks.
LEMMA StutterKeeps ==
    ASSUME IInv, UNCHANGED vars
    PROVE IInv'
<1>1. /\ UNCHANGED <<ranges, cursor, token, asked, goal, saved, phase>>
  BY DEF vars
<1> QED
  BY <1>1, Facts, KeepsIInv DEF IInv, TypeOK

\* Every action keeps the invariant.
LEMMA StepIInv == IInv /\ [Next]_vars => IInv'
<1> SUFFICES ASSUME IInv, [Next]_vars PROVE IInv'
  OBVIOUS
<1>1. CASE \E rs \in RangeLists : SetIncludedRanges(rs)
  BY <1>1, SetIncludedRangesKeeps
<1>2. CASE \/ SetInput \/ ParserReset
           \/ \E b \in 0 .. N : (b < N => Width[Doc[b + 1]] # 0) /\ Seek(b)
  BY <1>2, MovesKeep
<1>3. CASE Start
  BY <1>3, StartKeeps
<1>4. CASE \E skip \in BOOLEAN : Advance(skip)
  BY <1>4, AdvanceKeeps
<1>5. CASE MarkEnd \/ Finish
  BY <1>5, TokensKeep
<1>6. CASE GetColumnKnown \/ GetColumn \/ GetColumnWalk \/ GetColumnDone
  BY <1>6, ColumnsKeep
<1>7. CASE Accept \/ ScanAgain \/ SkipCharacter
  BY <1>7, OutcomesKeep
<1>8. CASE UNCHANGED vars
  BY <1>8, StutterKeeps
<1> QED
  BY <1>1, <1>2, <1>3, <1>4, <1>5, <1>6, <1>7, <1>8 DEF Next
-----------------------------------------------------------------------------
(* The theorems.                                                           *)

\* In every state the cursor can go on: its row starts in the text, its position is in
\* its range, and the chunk it holds is text, the text at its position before the end.
THEOREM Invariant == Spec => []IInv
<1>1. Init => IInv
  BY InitIInv
<1>2. IInv /\ [Next]_vars => IInv'
  BY StepIInv
<1> QED
  BY <1>1, <1>2, PTL DEF Spec

\* Every state is well typed, the index of the range one of the list or just past it, so
\* that no method but Advance at the end can use a range that is not there.
THEOREM TypeCorrect == Spec => []TypeOK
<1>1. IInv => TypeOK
  BY DEF IInv
<1> QED
  BY <1>1, Invariant, PTL

\* Advance, gotoPosition and GetColumn never leave the position outside of the range
\* that the lexer takes itself to be in, however many of the ranges are empty.
THEOREM StaysInRange == Spec => []InRange
<1>1. IInv => InRange
  BY DEF IInv, Good, Placed, InRange, EOF
<1> QED
  BY <1>1, Invariant, PTL
-----------------------------------------------------------------------------
(* Rows and columns.                                                       *)

\* The newlines that end at or before byte b.
NewlinesTo(b) == {i \in 1 .. b : i <= N /\ Doc[i] = Newline}

\* They are finitely many.
LEMMA NewlinesFinite ==
    ASSUME NEW b \in Nat
    PROVE /\ IsFiniteSet(NewlinesTo(b)) /\ Cardinality(NewlinesTo(b)) \in Nat
          /\ NewlinesTo(b) \subseteq 1 .. b
<1>1. NewlinesTo(b) \in SUBSET (1 .. b)
  BY DEF NewlinesTo
<1>2. IsFiniteSet(1 .. b)
  BY FS_Interval
<1>3. IsFiniteSet(NewlinesTo(b))
  BY <1>1, <1>2, FS_Subset
<1> QED
  BY <1>1, <1>3, FS_CardinalityType

\* The row and the start of the row are told by them.
LEMMA PlaceByNewlines ==
    ASSUME NEW b \in Nat
    PROVE /\ PlaceOf(b) = [bytes |-> b, row |-> Cardinality(NewlinesTo(b)),
                           col |-> b - LineStart(b)]
          /\ PlaceOf(b).row = Cardinality(NewlinesTo(b))
          /\ PlaceOf(b).col = b - LineStart(b)
          /\ LineStart(b) = GreatestOf({0} \cup NewlinesTo(b))
  BY DEF PlaceOf, LineStart, NewlinesTo

\* The greatest element of a set of numbers, when there is one.
LEMMA GreatestIs ==
    ASSUME NEW S \in SUBSET Nat, NEW m \in S, \A y \in S : y <= m
    PROVE GreatestOf(S) = m
<1>1. GreatestOf(S) \in S /\ \A y \in S : y <= GreatestOf(S)
  BY DEF GreatestOf
<1>2. GreatestOf(S) <= m /\ m <= GreatestOf(S) /\ m \in Nat /\ GreatestOf(S) \in Nat
  BY <1>1
<1> QED
  BY <1>2

\* Over bytes that are no newline the row stays, and the column counts them.
LEMMA PlaceInRow ==
    ASSUME NEW b \in Nat, NEW n \in Nat,
           \A i \in b + 1 .. b + n : ~(i <= N /\ Doc[i] = Newline)
    PROVE PlaceOf(b + n) = [bytes |-> b + n, row |-> PlaceOf(b).row,
                            col |-> PlaceOf(b).col + n]
<1>1. NewlinesTo(b + n) = NewlinesTo(b)
  <2>1. \A i \in 1 .. b + n : i \in 1 .. b \/ i \in b + 1 .. b + n
    OBVIOUS
  <2>2. \A i \in 1 .. b : i \in 1 .. b + n
    OBVIOUS
  <2> QED
    BY <2>1, <2>2 DEF NewlinesTo
<1>2. LineStart(b + n) = LineStart(b)
  BY <1>1 DEF LineStart, NewlinesTo
<1>3. LineStart(b) \in Nat
  BY LineStartType
<1>4. PlaceOf(b).row = Cardinality(NewlinesTo(b)) /\ PlaceOf(b).col = b - LineStart(b)
  BY PlaceByNewlines
<1>5. PlaceOf(b + n) = [bytes |-> b + n, row |-> Cardinality(NewlinesTo(b + n)),
                        col |-> (b + n) - LineStart(b + n)]
  BY DEF PlaceOf, NewlinesTo
<1>6. (b + n) - LineStart(b) = (b - LineStart(b)) + n
  BY <1>3
<1> QED
  BY <1>1, <1>2, <1>4, <1>5, <1>6

\* Behind a newline the next row starts.
LEMMA PlaceInNextRow ==
    ASSUME NEW b \in Nat, b + 1 <= N, Doc[b + 1] = Newline
    PROVE PlaceOf(b + 1) = [bytes |-> b + 1, row |-> PlaceOf(b).row + 1, col |-> 0]
<1>1. NewlinesTo(b + 1) = NewlinesTo(b) \cup {b + 1}
  <2>1. \A i \in 1 .. b + 1 : i \in 1 .. b \/ i = b + 1
    OBVIOUS
  <2>2. \A i \in 1 .. b : i \in 1 .. b + 1
    OBVIOUS
  <2>3. b + 1 \in 1 .. b + 1
    OBVIOUS
  <2> QED
    BY <2>1, <2>2, <2>3 DEF NewlinesTo
<1>2. b + 1 \notin NewlinesTo(b)
  BY DEF NewlinesTo
<1>3. Cardinality(NewlinesTo(b + 1)) = Cardinality(NewlinesTo(b)) + 1
  BY <1>1, <1>2, NewlinesFinite, FS_AddElement
<1>4. LineStart(b + 1) = b + 1
  <2> DEFINE S == {0} \cup NewlinesTo(b + 1)
  <2>1. S \in SUBSET Nat /\ b + 1 \in S /\ \A y \in S : y <= b + 1
    BY <1>1, NewlinesFinite
  <2> HIDE DEF S
  <2>2. GreatestOf(S) = b + 1
    BY <2>1, GreatestIs
  <2> QED
    BY <2>2, PlaceByNewlines DEF S
<1>5. PlaceOf(b + 1) = [bytes |-> b + 1, row |-> Cardinality(NewlinesTo(b + 1)),
                        col |-> (b + 1) - LineStart(b + 1)]
  BY DEF PlaceOf, NewlinesTo
<1>6. PlaceOf(b).row = Cardinality(NewlinesTo(b))
  BY PlaceByNewlines
<1> QED
  BY <1>3, <1>4, <1>5, <1>6

\* GetColumn's way back: the column taken off a place leads to the start of its row.
LEMMA PlaceOfRowStart ==
    ASSUME NEW b \in Nat
    PROVE /\ LineStart(b) \in 0 .. b
          /\ PlaceOf(LineStart(b)) = [bytes |-> LineStart(b), row |-> PlaceOf(b).row,
                                      col |-> 0]
<1> DEFINE a == LineStart(b)
           S == {0} \cup NewlinesTo(b)
<1>1. a \in 0 .. b
  BY LineStartType
<1>2. a \in S /\ \A y \in S : y <= a
  <2>1. S \in SUBSET Nat
    BY NewlinesFinite
  <2>2. a = GreatestOf(S)
    BY PlaceByNewlines
  <2>3. \E m \in S : \A y \in S : y <= m
    <3>1. IsFiniteSet(S) /\ S # {}
      BY NewlinesFinite, FS_AddElement, FS_Union, FS_Singleton
    <3> HIDE DEF S
    <3> DEFINE T == {b - x : x \in S}
    <3>2. \A x \in S : x \in 0 .. b
      BY NewlinesFinite DEF S
    <3>3. T \subseteq Nat /\ T # {}
      BY <3>1, <3>2
    <3>4. PICK t \in T : \A u \in T : t <= u
      BY <3>3, LeastExists
    <3>5. PICK m \in S : t = b - m
      BY <3>4
    <3>6. ASSUME NEW y \in S PROVE y <= m
      <4>1. b - y \in T
        OBVIOUS
      <4>2. b - m <= b - y
        BY <3>4, <3>5, <4>1
      <4> QED
        BY <3>2, <3>5, <4>2
    <3> QED
      BY <3>6
  <2> HIDE DEF S, a
  <2> QED
    BY <2>1, <2>2, <2>3 DEF GreatestOf
<1>3. NewlinesTo(a) = NewlinesTo(b)
  <2>1. NewlinesTo(b) \subseteq 1 .. b /\ NewlinesTo(b) \subseteq S
    BY NewlinesFinite
  <2> HIDE DEF a, S
  <2>2. \A i \in NewlinesTo(b) : i \in 1 .. a
    BY <1>1, <1>2, <2>1
  <2>3. \A i \in 1 .. a : i \in 1 .. b
    BY <1>1
  <2> QED
    BY <2>2, <2>3 DEF NewlinesTo
<1> HIDE DEF S
<1>4. LineStart(a) = a
  <2>1. LineStart(a) = GreatestOf({0} \cup NewlinesTo(a))
    BY <1>1, PlaceByNewlines
  <2> QED
    BY <1>3, <2>1, PlaceByNewlines
<1>5. PlaceOf(a) = [bytes |-> a, row |-> Cardinality(NewlinesTo(a)), col |-> a - LineStart(a)]
  BY DEF PlaceOf, NewlinesTo
<1>6. PlaceOf(b).row = Cardinality(NewlinesTo(b))
  BY PlaceByNewlines
<1>7. a - a = 0
  BY <1>1
<1> QED
  BY <1>1, <1>3, <1>4, <1>5, <1>6, <1>7

\* What Decode sees lies in the text, and is a newline, or has none in it.
LEMMA DecodeSees ==
    ASSUME NEW b \in Nat, NEW limit \in b + 1 .. N
    PROVE LET e == Decode(b, limit)
          IN /\ e.size \in Nat \ {0} /\ b + e.size <= limit
             /\ \/ e.code = Newline /\ e.size = 1 /\ Doc[b + 1] = Newline
                \/ e.code # Newline /\ \A i \in b + 1 .. b + e.size : Doc[i] # Newline
<1> DEFINE c == Doc[b + 1]
           w == Width[c]
           whole == w >= 1 /\ b + w <= limit /\ \A i \in 1 .. w - 1 : Width[Doc[b + 1 + i]] = 0
<1>1. N \in Nat /\ limit \in Nat /\ b + 1 <= limit
  BY TextAssumption DEF N
<1>2. c \in Codes /\ w \in Nat /\ Bad # Newline
  BY <1>1, TextAssumption, NewlineAssumption DEF N
<1>3. CASE whole
  <2>1. Decode(b, limit) = [code |-> c, size |-> w]
    BY <1>3 DEF Decode
  <2>2. CASE c = Newline
    BY <1>1, <1>2, <2>1, <2>2, NewlineAssumption
  <2>3. CASE c # Newline
    <3>1. ASSUME NEW i \in b + 1 .. b + w PROVE Doc[i] # Newline
      <4>1. CASE i = b + 1
        BY <2>3, <4>1
      <4>2. CASE i # b + 1
        <5>1. i - (b + 1) \in 1 .. w - 1 /\ b + 1 + (i - (b + 1)) = i
          BY <1>2, <4>2
        <5>2. Width[Doc[i]] = 0
          BY <1>3, <5>1
        <5> QED
          BY <5>2, NewlineAssumption
      <4> QED
        BY <4>1, <4>2
    <3> QED
      BY <1>2, <1>3, <2>1, <2>3, <3>1
  <2> QED
    BY <2>2, <2>3
<1>4. CASE ~whole
  <2>1. Decode(b, limit) = [code |-> Bad, size |-> 1]
    BY <1>4 DEF Decode
  <2>2. c # Newline
    <3> SUFFICES ASSUME c = Newline PROVE whole
      BY <1>4
    <3>1. w = 1
      BY NewlineAssumption
    <3>2. 1 .. w - 1 = {}
      BY <3>1
    <3> QED
      BY <1>1, <3>1, <3>2
  <2>3. \A i \in b + 1 .. b + 1 : Doc[i] # Newline
    BY <2>2
  <2> QED
    BY <1>1, <1>2, <2>1, <2>3
<1> QED
  BY <1>3, <1>4
-----------------------------------------------------------------------------
(* The methods keep the cursor's place right and its lookahead true.       *)

Told(c, rs) == Right(c.pos) /\ Seen(c, rs)

\* What callers give as points is right.
LEMMA PointsRight == \A b \in Nat : Right(PlaceOf(b))
  BY PlaceOfType DEF Right

\* getChunk changes neither position nor lookahead, and only comes to the end where the text
\* is over.
LEMMA GetChunkTold ==
    ASSUME RangeList(ranges), NEW c, Good(c, ranges), Told(c, ranges)
    PROVE LET d == GetChunk(c)
          IN /\ Good(d, ranges) /\ Told(d, ranges) /\ d.pos = c.pos /\ d.ahead = c.ahead
             /\ d.index # End(ranges) => InChunk(d) /\ d.chunk.start = c.pos.bytes
             /\ d.index # End(ranges) => d.index = c.index
             /\ d.index = End(ranges) /\ c.index # End(ranges) =>
                   N <= c.pos.bytes /\ c.pos.bytes = d.chunk.start + d.chunk.len
<1> DEFINE left == IF c.pos.bytes < N THEN N - c.pos.bytes ELSE 0
           n == IF left < ChunkSize THEN left ELSE ChunkSize
           d == GetChunk(c)
<1>1. /\ c \in Cursor /\ c.index \in 1 .. End(ranges)
      /\ c.pos.col <= c.pos.bytes /\ Placed(c, ranges)
  BY DEF Good
<1>2. N \in Nat /\ c.pos.bytes \in Nat
  BY <1>1, TextAssumption DEF N, Cursor, Place
<1>3. n \in Nat /\ (n = 0 => N <= c.pos.bytes)
  BY <1>2, ChunkAssumption
<1>4. d = [c EXCEPT !.chunk = [start |-> c.pos.bytes, len |-> n],
                    !.index = IF n = 0 THEN End(ranges) ELSE c.index]
  BY DEF GetChunk
<1> HIDE DEF n, left
<1>5. /\ d.pos = c.pos /\ d.ahead = c.ahead
      /\ d.chunk = [start |-> c.pos.bytes, len |-> n]
      /\ d.index = IF n = 0 THEN End(ranges) ELSE c.index
  BY <1>1, <1>4 DEF Cursor
<1>6. Good(d, ranges)
  BY <1>1, GetChunkGood
<1> HIDE DEF d
<1>7. Told(d, ranges)
  BY <1>5 DEF Told, Seen
<1>8. d.index # End(ranges) => InChunk(d)
  BY <1>2, <1>3, <1>5 DEF InChunk
<1>9. d.index = End(ranges) /\ c.index # End(ranges) =>
         N <= c.pos.bytes /\ c.pos.bytes = d.chunk.start + d.chunk.len
  BY <1>2, <1>3, <1>5
<1> QED
  BY <1>5, <1>6, <1>7, <1>8, <1>9 DEF d

\* getLookahead decodes at the position, within the chunk or a new one.
LEMMA GetLookaheadTold ==
    ASSUME RangeList(ranges), NEW c, Good(c, ranges), Right(c.pos),
           c.index # End(ranges) => InChunk(c) /\ Chunked(c)
    PROVE LET d == GetLookahead(c)
          IN Told(d, ranges) /\ d.pos = c.pos
<1> DEFINE limit == c.chunk.start + c.chunk.len
           next == GetChunk(c)
           d == GetLookahead(c)
           b == c.pos.bytes
<1>1. /\ c \in Cursor /\ limit \in Nat /\ b \in Nat /\ N \in Nat
      /\ c.index \in 1 .. End(ranges) /\ c.pos.col <= c.pos.bytes /\ Placed(c, ranges)
  BY TextAssumption DEF Good, Cursor, Place, N
<1>2. /\ next \in Cursor /\ next.pos = c.pos /\ next.chunk.start = b
      /\ next.chunk.len # 0 => b < N
  BY <1>1, GetChunkGood DEF Good
<1>3. /\ next.index # c.index => next.index = End(ranges)
      /\ next.index # End(ranges) => b + 1 <= next.chunk.start + next.chunk.len
      /\ next.index # End(ranges) => next.chunk.start + next.chunk.len <= N
  <2>1. Good(next, ranges)
    BY <1>1, GetChunkGood
  <2>2. next.index # c.index => next.index = End(ranges)
    BY <1>1 DEF GetChunk, Cursor
  <2>3. next.index # End(ranges) => next.chunk.len # 0
    BY <1>1, TextAssumption, ChunkAssumption DEF GetChunk, Cursor
  <2> HIDE DEF next
  <2> QED
    BY <1>1, <1>2, <2>1, <2>2, <2>3 DEF Good, Covered, Chunked, Cursor
<1>4. c.index # End(ranges) => b + 1 <= limit /\ limit <= N
  BY <1>1 DEF Good, Covered, InChunk
<1>5. /\ d.pos = c.pos
      /\ \/ d.index = End(ranges)
         \/ c.index # End(ranges) /\ d.ahead = Decode(b, limit)
         \/ /\ next.index # End(ranges)
            /\ d.ahead = Decode(b, next.chunk.start + next.chunk.len)
  <2> HIDE DEF next
  <2>1. CASE b = limit
    <3>1. d = [c EXCEPT !.ahead = AtEnd]
      BY <2>1 DEF GetLookahead
    <3>2. d.pos = c.pos /\ d.index = c.index
      BY <1>1, <3>1 DEF Cursor
    <3> QED
      BY <1>1, <1>4, <2>1, <3>2
  <2>2. CASE d = [next EXCEPT !.ahead = Decode(b, next.chunk.start + next.chunk.len)]
    <3>1. /\ d.pos = next.pos /\ d.index = next.index
          /\ d.ahead = Decode(b, next.chunk.start + next.chunk.len)
      BY <1>2, <2>2 DEF Cursor
    <3> QED
      BY <1>2, <3>1
  <2>3. CASE d = [c EXCEPT !.ahead = Decode(b, limit)]
    <3>1. d.pos = c.pos /\ d.index = c.index /\ d.ahead = Decode(b, limit)
      BY <1>1, <2>3 DEF Cursor
    <3> QED
      BY <3>1
  <2> QED
    BY <2>1, <2>2, <2>3 DEF GetLookahead, next
<1> HIDE DEF d, next, limit
<1>6. Seen(d, ranges)
  <2>1. CASE d.index = End(ranges)
    BY <2>1 DEF Seen
  <2>2. CASE c.index # End(ranges) /\ d.ahead = Decode(b, limit)
    <3>1. limit \in b + 1 .. N
      BY <1>1, <1>4, <2>2
    <3> QED
      BY <1>5, <2>2, <3>1 DEF Seen
  <2>3. CASE /\ next.index # End(ranges)
             /\ d.ahead = Decode(b, next.chunk.start + next.chunk.len)
    <3>1. next.chunk.start + next.chunk.len \in Nat
      BY <1>2 DEF Cursor
    <3>2. next.chunk.start + next.chunk.len \in b + 1 .. N
      BY <1>1, <1>3, <2>3, <3>1
    <3> QED
      BY <1>5, <2>3, <3>2 DEF Seen
  <2> QED
    BY <1>5, <2>1, <2>2, <2>3
<1> QED
  BY <1>5, <1>6 DEF Told, d

\* gotoPosition goes to the place it is given, or to the end of a range, and forgets what
\* it saw.
LEMMA GotoTold ==
    ASSUME NEW rs, RangeList(rs), NEW c, NEW place, Right(place), place.bytes \in Nat
    PROVE Told(Goto(c, place, rs), rs) /\ Goto(c, place, rs).pos.bytes \in Nat
<1> DEFINE b == place.bytes
           later == {i \in 1 .. Len(rs) : rs[i].end > b /\ Used(rs[i])}
           i == LeastOf(later)
           at == IF rs[i].start >= b THEN PlaceOf(rs[i].start) ELSE place
           column == IF b # c.pos.bytes THEN NoColumn ELSE c.column
           kept == c.chunk.start <= at.bytes /\ at.bytes < c.chunk.start + c.chunk.len
           chunk == IF kept THEN c.chunk ELSE NoChunk
           d == Goto(c, place, rs)
<1>1. Len(rs) \in Nat /\ Len(rs) >= 1 /\ Len(rs) \in 1 .. Len(rs)
  BY DEF RangeList
<1>2. CASE later # {}
  <2>1. i \in 1 .. Len(rs)
    <3>1. later \in SUBSET Nat
      OBVIOUS
    <3> HIDE DEF later
    <3>2. i \in later
      BY <1>2, <3>1, LeastExists
    <3> QED
      BY <3>2 DEF later
  <2>2. d = [pos |-> at, index |-> i, chunk |-> chunk, ahead |-> NothingAhead,
             column |-> column]
    BY <1>2 DEF Goto
  <2> HIDE DEF i, chunk, column, d
  <2>3. rs[i].start \in Nat
    BY <2>1, RangeBounds
  <2>4. PlaceOf(rs[i].start).bytes \in Nat /\ Right(PlaceOf(rs[i].start))
    BY <2>3, PlaceOfType, PointsRight
  <2>5. Right(at) /\ at.bytes \in Nat
    BY <2>4
  <2> HIDE DEF at
  <2>6. d.pos = at /\ d.ahead.size = 0
    BY <2>2 DEF NothingAhead
  <2> QED
    BY <2>5, <2>6 DEF Told, Seen, d
<1>3. CASE later = {}
  <2>1. d = [pos |-> PlaceOf(rs[Len(rs)].end), index |-> End(rs), chunk |-> NoChunk,
             ahead |-> AtEnd, column |-> column]
    BY <1>3 DEF Goto
  <2> HIDE DEF column, d
  <2>2. rs[Len(rs)].end \in Nat
    BY <1>1, RangeBounds
  <2>3. d.pos = PlaceOf(rs[Len(rs)].end) /\ d.index = End(rs)
    BY <2>1
  <2> QED
    BY <2>2, <2>3, PlaceOfType, PointsRight DEF Told, Seen, d
<1> QED
  BY <1>2, <1>3

\* So does reset.
LEMMA ResetTold ==
    ASSUME RangeList(ranges), NEW c, Told(c, ranges),
           NEW place, Right(place), place.bytes \in Nat
    PROVE Told(Reset(c, place), ranges)
  BY GotoTold DEF Reset

\* Over the lookahead, which is what stands in the text.
LEMMA PassedRight ==
    ASSUME RangeList(ranges), NEW c, Good(c, ranges), Told(c, ranges), ~EOF(c)
    PROVE Right(Passed(c).pos)
<1> DEFINE b == c.pos.bytes
           n == c.ahead.size
           newline == c.ahead.code = Newline
           pos == [bytes |-> b + n, row |-> IF newline THEN c.pos.row + 1 ELSE c.pos.row,
                   col |-> IF newline THEN 0 ELSE c.pos.col + n]
           column == Passed(c).column
<1>1. /\ c \in Cursor /\ b \in Nat /\ n \in Nat /\ N \in Nat
  BY TextAssumption DEF Good, Cursor, Place, N
<1>2. CASE n = 0
  BY <1>2 DEF Passed, Told
<1>3. CASE n # 0
  <2>1. Passed(c).pos = pos
    BY <1>1, <1>3 DEF Passed, Cursor
  <2>2. PICK limit \in b + 1 .. N : c.ahead = Decode(b, limit)
    BY <1>3 DEF Told, Seen, EOF
  <2>3. /\ b + n <= limit
        /\ \/ newline /\ n = 1 /\ Doc[b + 1] = Newline
           \/ ~newline /\ \A i \in b + 1 .. b + n : Doc[i] # Newline
    BY <1>1, <2>2, DecodeSees
  <2>4. c.pos = PlaceOf(b)
    BY DEF Told, Right
  <2>5. CASE newline /\ n = 1 /\ Doc[b + 1] = Newline
    <3>1. PlaceOf(b + 1) = [bytes |-> b + 1, row |-> PlaceOf(b).row + 1, col |-> 0]
      BY <1>1, <2>3, <2>5, PlaceInNextRow
    <3>2. pos = PlaceOf(b + 1)
      BY <2>4, <2>5, <3>1
    <3> QED
      BY <1>1, <2>1, <3>2, PointsRight
  <2>6. CASE ~newline /\ \A i \in b + 1 .. b + n : Doc[i] # Newline
    <3>1. PlaceOf(b + n) = [bytes |-> b + n, row |-> PlaceOf(b).row,
                            col |-> PlaceOf(b).col + n]
      BY <1>1, <2>6, PlaceInRow
    <3>2. pos = PlaceOf(b + n)
      BY <2>4, <2>6, <3>1
    <3> QED
      BY <1>1, <2>1, <3>2, PointsRight
  <2> QED
    BY <2>3, <2>5, <2>6
<1> QED
  BY <1>2, <1>3

\* Into the next range, at its start.
LEMMA InNextRangeRight ==
    ASSUME RangeList(ranges), NEW c \in Cursor, c.index \in 1 .. End(ranges), Right(c.pos)
    PROVE Right(InNextRange(c).pos)
<1> DEFINE later == {i \in c.index + 1 .. Len(ranges) : Used(ranges[i])}
           i == LeastOf(later)
           inside == EOF(c) \/ (c.pos.bytes < ranges[c.index].end /\ Used(ranges[c.index]))
<1>1. /\ Len(ranges) \in Nat /\ Len(ranges) \in 1 .. Len(ranges) /\ c.index \in Nat
      /\ c.index >= 1
  BY DEF RangeList, End, Cursor
<1>2. ASSUME NEW k \in 1 .. Len(ranges)
      PROVE Right(PlaceOf(ranges[k].start))
  BY <1>2, RangeBounds, PointsRight
<1>3. CASE inside
  BY <1>3 DEF InNextRange
<1>4. CASE ~inside /\ later # {}
  <2>1. InNextRange(c) = [c EXCEPT !.index = i, !.pos = PlaceOf(ranges[i].start)]
    BY <1>4 DEF InNextRange
  <2>2. i \in 1 .. Len(ranges)
    <3>1. later \in SUBSET Nat /\ \A k \in later : k \in 1 .. Len(ranges)
      BY <1>1
    <3> HIDE DEF later
    <3> QED
      BY <1>4, <3>1, LeastExists
  <2> HIDE DEF i
  <2>3. InNextRange(c).pos = PlaceOf(ranges[i].start)
    BY <2>1 DEF Cursor
  <2> QED
    BY <1>2, <2>2, <2>3
<1>5. CASE ~inside /\ later = {}
  <2> DEFINE p == IF c.index < Len(ranges)
                  THEN PlaceOf(ranges[Len(ranges)].start) ELSE c.pos
  <2>1. InNextRange(c) = [c EXCEPT !.index = End(ranges), !.pos = p]
    BY <1>5 DEF InNextRange
  <2>2. Right(p)
    BY <1>1, <1>2
  <2> HIDE DEF p
  <2>3. InNextRange(c).pos = p
    BY <2>1 DEF Cursor
  <2> QED
    BY <2>2, <2>3
<1> QED
  BY <1>3, <1>4, <1>5

\* doAdvance as a whole.
LEMMA DoAdvanceTold ==
    ASSUME RangeList(ranges), NEW c, Good(c, ranges), Told(c, ranges), ~EOF(c)
    PROVE Told(DoAdvance(c), ranges)
<1> DEFINE p == Passed(c)
           d == InNextRange(p)
           e == IF InChunk(d) THEN d ELSE GetChunk(d)
<1>1. /\ p \in Cursor /\ p.pos.col <= p.pos.bytes /\ p.index = c.index /\ p.chunk = c.chunk
  BY PassedType DEF Good
<1>2. Right(p.pos)
  BY PassedRight
<1>3. p.index \in 1 .. End(ranges) /\ (~EOF(p) => ranges[p.index].start <= p.pos.bytes)
  <2>1. p.pos.bytes >= c.pos.bytes /\ c.pos.bytes \in Nat /\ p.pos.bytes \in Nat
    BY DEF Passed, Good, Cursor, Place
  <2>2. c.index \in 1 .. Len(ranges)
    BY DEF EOF, End, RangeList, Good
  <2>3. ranges[c.index].start \in Nat
    BY <2>2, RangeBounds
  <2> HIDE DEF p
  <2> QED
    BY <1>1, <2>1, <2>3 DEF Good, Placed, EOF
<1> HIDE DEF p
<1>4. /\ d \in Cursor /\ d.index \in 1 .. End(ranges) /\ d.pos.col <= d.pos.bytes
      /\ Placed(d, ranges) /\ d.chunk = p.chunk /\ Right(d.pos)
  BY <1>1, <1>2, <1>3, InNextRangeGood, InNextRangeRight
<1>5. DoAdvance(c) = IF EOF(d) THEN [d EXCEPT !.chunk = NoChunk, !.ahead = AtEnd]
                     ELSE GetLookahead(e)
  BY DEF DoAdvance, p
<1> HIDE DEF d
<1>6. CASE EOF(d)
  <2> DEFINE f == [d EXCEPT !.chunk = NoChunk, !.ahead = AtEnd]
  <2>1. f.index = d.index /\ f.pos = d.pos
    BY <1>4 DEF Cursor
  <2> HIDE DEF f
  <2>2. Told(f, ranges)
    BY <1>4, <1>6, <2>1 DEF Told, Seen, EOF
  <2> QED
    BY <1>5, <1>6, <2>2 DEF f
<1>7. CASE ~EOF(d) /\ InChunk(d)
  <2>1. Chunked(d)
    BY <1>4, <1>7 DEF InChunk, Chunked, Cursor, Place
  <2>2. d.chunk.start + d.chunk.len <= N
    BY <1>1, <1>4, <2>1 DEF Good, Covered, Chunked
  <2>3. Good(d, ranges)
    BY <1>4, <1>7, <2>2 DEF Good, Covered
  <2> QED
    BY <1>4, <1>5, <1>7, <2>1, <2>3, GetLookaheadTold
<1>8. CASE ~EOF(d) /\ ~InChunk(d)
  <2> DEFINE g == GetChunk(d)
  <2>1. Good(g, ranges) /\ g.pos = d.pos /\ g.chunk.start = d.pos.bytes
    BY <1>4, GetChunkGood
  <2>2. g.index # End(ranges) => g.chunk.len # 0
    BY <1>4, TextAssumption, ChunkAssumption DEF GetChunk, Cursor
  <2> HIDE DEF g
  <2>3. g.index # End(ranges) => InChunk(g) /\ Chunked(g)
    BY <2>1, <2>2 DEF Good, Covered, Chunked
  <2>4. Told(GetLookahead(g), ranges)
    BY <1>4, <2>1, <2>3, GetLookaheadTold
  <2> QED
    BY <1>5, <1>8, <2>4 DEF g
<1> QED
  BY <1>6, <1>7, <1>8

\* The short cut of Advance passes one byte that is no newline, and sees the next.
LEMMA AdvancedTold ==
    ASSUME RangeList(ranges), NEW c, Good(c, ranges), Told(c, ranges), ~EOF(c)
    PROVE Told(Advanced(c), ranges)
<1>1. CASE ~Chunked(c)
  BY <1>1 DEF Advanced
<1>2. CASE Chunked(c) /\ ~ShortCut(c)
  BY <1>2, DoAdvanceTold DEF Advanced
<1>3. CASE Chunked(c) /\ ShortCut(c)
  <2> DEFINE d == Stepped(c)
             b == c.pos.bytes
             pos == [bytes |-> b + 1, row |-> c.pos.row, col |-> c.pos.col + 1]
             ahead == [code |-> Doc[b + 2], size |-> 1]
  <2>1. /\ c \in Cursor /\ b \in Nat /\ N \in Nat /\ b + 1 < N
    <3>1. /\ c \in Cursor /\ b \in Nat /\ N \in Nat
          /\ c.chunk.start \in Nat /\ c.chunk.len \in Nat
      BY TextAssumption DEF Good, Cursor, Place, N
    <3>2. c.chunk.start + c.chunk.len <= N /\ b + 1 < c.chunk.start + c.chunk.len
      BY <1>3 DEF Good, Covered, EOF, ShortCut
    <3> QED
      BY <3>1, <3>2
  <2>2. d.pos = pos /\ d.ahead = ahead
    BY <2>1 DEF Stepped, Cursor
  <2>3. Doc[b + 1] # Newline
    <3>1. c.ahead.size = 1 /\ c.ahead.code # Newline
      BY <1>3 DEF ShortCut
    <3>2. PICK limit \in b + 1 .. N : c.ahead = Decode(b, limit)
      BY <3>1 DEF Told, Seen, EOF
    <3>3. \A i \in b + 1 .. b + 1 : Doc[i] # Newline
      BY <2>1, <3>1, <3>2, DecodeSees
    <3> QED
      BY <2>1, <3>3
  <2>4. Right(pos)
    <3>1. c.pos = PlaceOf(b)
      BY DEF Told, Right
    <3>2. \A i \in b + 1 .. b + 1 : ~(i <= N /\ Doc[i] = Newline)
      BY <2>1, <2>3
    <3>3. PlaceOf(b + 1) = [bytes |-> b + 1, row |-> PlaceOf(b).row,
                            col |-> PlaceOf(b).col + 1]
      BY <2>1, <3>2, PlaceInRow
    <3> QED
      BY <2>1, <3>1, <3>3 DEF Right
  <2>5. ahead = Decode(b + 1, b + 2)
    <3>1. Width[Doc[b + 2]] = 1
      BY <1>3, <2>1 DEF ShortCut
    <3>2. (b + 1) + 1 = b + 2 /\ (b + 1) + 1 <= b + 2 /\ 1 .. 1 - 1 = {}
      BY <2>1
    <3> QED
      BY <3>1, <3>2 DEF Decode
  <2>6. b + 2 \in (b + 1) + 1 .. N
    BY <2>1
  <2> HIDE DEF d, ahead
  <2>7. Seen(d, ranges)
    BY <2>2, <2>5, <2>6 DEF Seen
  <2> QED
    BY <1>3, <2>2, <2>4, <2>7 DEF Told, Advanced, d
<1> QED
  BY <1>1, <1>2, <1>3

\* The end of a token is the position, or the end of a range.
LEMMA EndMarkRight ==
    ASSUME RangeList(ranges), NEW c, Good(c, ranges), Right(c.pos)
    PROVE Right(EndMark(c))
<1>1. c.index \in 1 .. End(ranges)
  BY DEF Good
<1>2. CASE ~EOF(c) /\ c.index > 1
  <2>1. c.index - 1 \in 1 .. Len(ranges)
    BY <1>1, <1>2 DEF EOF, End, RangeList
  <2> QED
    BY <2>1, RangeBounds, PointsRight DEF EndMark
<1>3. CASE ~(~EOF(c) /\ c.index > 1)
  BY <1>3 DEF EndMark
<1> QED
  BY <1>2, <1>3
-----------------------------------------------------------------------------
(* Every action keeps PInv.                                                *)

\* The parts of PInv, as the lemmas above take them.
LEMMA PFacts ==
    ASSUME IInv, PInv
    PROVE /\ RangeList(ranges) /\ Good(cursor, ranges) /\ Told(cursor, ranges)
          /\ Right(cursor.pos) /\ cursor.pos.bytes \in Nat
          /\ Right(token.start) /\ Right(token.end)
          /\ Right(saved.pos) /\ saved.pos.bytes \in Nat
<1>1. RangeList(ranges) /\ Good(cursor, ranges) /\ cursor.pos \in Place
  BY Facts
<1>2. saved.pos \in Place
  BY DEF IInv, TypeOK
<1> QED
  BY <1>1, <1>2 DEF PInv, PlacesRight, Right, Told, Place

\* Enough for a step that leaves the ranges alone.
LEMMA KeepsPInv ==
    ASSUME ranges' = ranges, Told(cursor', ranges), Right(token'.start), Right(token'.end),
           Right(saved'.pos)
    PROVE PInv'
<1>1. Seen(cursor, ranges)'
  BY DEF Told, Seen, End
<1> QED
  BY <1>1 DEF PInv, PlacesRight, Told, Right

\* The place lex starts from before it saves one.
LEMMA NowhereRight == Right(Nowhere.pos)
  BY PointsRight DEF Nowhere

\* A recounted cursor stands where it stood.
LEMMA RecountedTold ==
    ASSUME NEW c \in Cursor, Told(c, ranges), NEW k
    PROVE Told([c EXCEPT !.column = k], ranges)
<1> DEFINE d == [c EXCEPT !.column = k]
<1>1. d.pos = c.pos /\ d.index = c.index /\ d.ahead = c.ahead
  BY DEF Cursor
<1> HIDE DEF d
<1>2. Told(d, ranges)
  BY <1>1 DEF Told, Seen
<1> QED
  BY <1>2 DEF d

\* All places are the start of the text, and nothing is seen yet.
LEMMA InitPInv == Init => PInv
<1> SUFFICES ASSUME Init PROVE PInv
  OBVIOUS
<1>1. Right(PlaceOf(0))
  BY PointsRight
<1>2. /\ cursor.pos = PlaceOf(0) /\ cursor.ahead.size = 0
      /\ token.start = PlaceOf(0) /\ token.end = PlaceOf(0) /\ saved.pos = PlaceOf(0)
  BY DEF Init, Fresh, NothingAhead, Nowhere
<1> QED
  BY <1>1, <1>2 DEF PInv, PlacesRight, Right, Seen

\* New ranges, and every way in which lex is sent to a place of the text.
LEMMA MovesKeepPlaces ==
    ASSUME IInv, PInv,
           \/ \E rs \in RangeLists : SetIncludedRanges(rs)
           \/ SetInput \/ ParserReset \/ \E b \in 0 .. N : Seek(b)
    PROVE PInv'
<1>1. Right(PlaceOf(0)) /\ PlaceOf(0).bytes \in Nat
  BY PointsRight, PlaceOfType
<1>2. ASSUME NEW rs \in RangeLists, SetIncludedRanges(rs)
      PROVE PInv'
  <2>1. /\ cursor' = Goto(cursor, cursor.pos, rs) /\ ranges' = rs
        /\ UNCHANGED <<token, saved>>
    BY <1>2 DEF SetIncludedRanges
  <2>2. RangeList(rs)
    BY RangesAssumption DEF RangeList
  <2>3. Told(Goto(cursor, cursor.pos, rs), rs)
    BY <2>2, PFacts, GotoTold
  <2>4. Told(cursor', rs)
    BY <2>1, <2>3
  <2>5. Seen(cursor, ranges)'
    BY <2>1, <2>4 DEF Told, Seen, End
  <2>6. Right(cursor'.pos) /\ Right(token'.start) /\ Right(token'.end) /\ Right(saved'.pos)
    BY <2>1, <2>4, PFacts DEF Told
  <2> QED
    BY <2>5, <2>6 DEF PInv, PlacesRight, Right
<1>3. CASE SetInput
  <2> DEFINE c == Goto([cursor EXCEPT !.chunk = NoChunk], cursor.pos, ranges)
  <2>1. Told(c, ranges)
    BY PFacts, GotoTold
  <2>2. cursor' = Reset(c, PlaceOf(0)) /\ UNCHANGED <<ranges, token, saved>>
    BY <1>3 DEF SetInput
  <2> HIDE DEF c
  <2>3. Told(Reset(c, PlaceOf(0)), ranges)
    BY <1>1, <2>1, PFacts, ResetTold
  <2> QED
    BY <2>2, <2>3, PFacts, KeepsPInv
<1>4. CASE ParserReset
  <2>1. cursor' = Reset(cursor, PlaceOf(0)) /\ UNCHANGED <<ranges, token, saved>>
    BY <1>4 DEF ParserReset
  <2>2. Told(Reset(cursor, PlaceOf(0)), ranges)
    BY <1>1, PFacts, ResetTold
  <2> QED
    BY <2>1, <2>2, PFacts, KeepsPInv
<1>5. ASSUME NEW b \in 0 .. N, Seek(b)
      PROVE PInv'
  <2>1. cursor' = Reset(cursor, PlaceOf(b)) /\ UNCHANGED <<ranges, token, saved>>
    BY <1>5 DEF Seek
  <2>2. Right(PlaceOf(b)) /\ PlaceOf(b).bytes \in Nat
    BY PointsRight, PlaceOfType
  <2>3. Told(Reset(cursor, PlaceOf(b)), ranges)
    BY <2>2, PFacts, ResetTold
  <2> QED
    BY <2>1, <2>3, PFacts, KeepsPInv
<1> QED
  BY <1>2, <1>3, <1>4, <1>5

\* What start has read, and then seen, before it looks for a byte order mark.
ReadAtStart == IF Chunked(cursor) THEN cursor ELSE GetChunk(cursor)
SeenAtStart ==
    IF ReadAtStart.ahead.size = 0 THEN GetLookahead(ReadAtStart) ELSE ReadAtStart

\* It is what the text has there, and no byte order mark when the text is over.
LEMMA StartReads ==
    ASSUME IInv, PInv, ~EOF(cursor)
    PROVE /\ Good(ReadAtStart, ranges) /\ Told(ReadAtStart, ranges)
          /\ Good(SeenAtStart, ranges) /\ Told(SeenAtStart, ranges)
          /\ SeenAtStart.ahead.code = BOM => ~EOF(SeenAtStart)
<1> DEFINE read == IF Chunked(cursor) THEN cursor ELSE GetChunk(cursor)
           c == IF read.ahead.size = 0 THEN GetLookahead(read) ELSE read
<1>1. /\ Good(read, ranges) /\ Told(read, ranges)
      /\ read.index # End(ranges) => InChunk(read) /\ Chunked(read)
      /\ read.index = End(ranges) =>
            N <= read.pos.bytes /\ read.pos.bytes = read.chunk.start + read.chunk.len
  <2>1. CASE Chunked(cursor)
    BY <2>1, PFacts DEF Good, Covered, EOF
  <2>2. CASE ~Chunked(cursor)
    <3> DEFINE g == GetChunk(cursor)
    <3>1. /\ Good(g, ranges) /\ Told(g, ranges) /\ g.pos = cursor.pos
          /\ g.index # End(ranges) => InChunk(g)
          /\ g.index = End(ranges) =>
                N <= cursor.pos.bytes /\ cursor.pos.bytes = g.chunk.start + g.chunk.len
      BY PFacts, GetChunkTold DEF EOF
    <3> HIDE DEF g
    <3>2. InChunk(g) => Chunked(g)
      BY <3>1 DEF InChunk, Chunked, Good, Cursor, Place
    <3>3. read = g
      BY <2>2 DEF g
    <3> QED
      BY <3>1, <3>2, <3>3
  <2> QED
    BY <2>1, <2>2
<1> HIDE DEF read
<1>2. Good(c, ranges) /\ Told(c, ranges) /\ (c.ahead.code = BOM => ~EOF(c))
  <2>1. read.pos.bytes \in Nat /\ N \in Nat /\ read \in Cursor
    BY <1>1, TextAssumption DEF Good, Cursor, Place, N
  <2>2. CASE read.ahead.size = 0
    <3> DEFINE f == GetLookahead(read)
    <3>1. Good(f, ranges)
      <4>1. \/ read.pos.bytes = read.chunk.start + read.chunk.len
            \/ read.pos.bytes < N
        <5>1. CASE read.index = End(ranges)
          BY <1>1, <5>1
        <5>2. CASE read.index # End(ranges)
          <6>1. /\ read.chunk.start \in Nat /\ read.chunk.len \in Nat
                /\ read.chunk.start + read.chunk.len <= N
            BY <1>1, <2>1, <5>2 DEF Good, Covered, Cursor
          <6> QED
            BY <1>1, <2>1, <5>2, <6>1 DEF InChunk
        <5> QED
          BY <5>1, <5>2
      <4> QED
        BY <1>1, <4>1, PFacts, GetLookaheadGood
    <3>2. Told(f, ranges) /\ f.pos = read.pos
      BY <1>1, PFacts, GetLookaheadTold DEF Told
    <3>3. EOF(f) => f.ahead.code # BOM
      <4>1. CASE read.index = End(ranges)
        <5>1. f = [read EXCEPT !.ahead = AtEnd]
          BY <1>1, <4>1 DEF GetLookahead
        <5>2. f.ahead.code = Nul
          BY <2>1, <5>1 DEF Cursor, AtEnd
        <5> QED
          BY <5>2, TextAssumption, NewlineAssumption
      <4>2. CASE read.index # End(ranges)
        <5>1. ~EOF(f)
          <6>1. read.pos.bytes < N
            <7>1. /\ read.chunk.start \in Nat /\ read.chunk.len \in Nat
                  /\ read.chunk.start + read.chunk.len <= N
              BY <1>1, <2>1, <4>2 DEF Good, Covered, Cursor
            <7> QED
              BY <1>1, <2>1, <4>2, <7>1 DEF InChunk
          <6>2. Good(read, ranges) /\ Told(read, ranges)
            BY <1>1
          <6>3. GetChunk(read).index # End(ranges)
            BY <2>1, <4>2, <6>1, <6>2, PFacts, GetChunkTold
          <6>4. f.index \in {read.index, GetChunk(read).index}
            <7> DEFINE g == GetChunk(read)
            <7>1. g \in Cursor
              BY <2>1, <6>2, PFacts, GetChunkTold DEF Good
            <7> HIDE DEF g
            <7>2. \/ f = [read EXCEPT !.ahead = AtEnd]
                  \/ \E a : f = [g EXCEPT !.ahead = a]
                  \/ \E a : f = [read EXCEPT !.ahead = a]
              BY DEF GetLookahead, g
            <7>3. f.index \in {read.index, g.index}
              BY <2>1, <7>1, <7>2 DEF Cursor
            <7> QED
              BY <7>3 DEF g
          <6> QED
            BY <4>2, <6>3, <6>4 DEF EOF
        <5> QED
          BY <5>1
      <4> QED
        BY <4>1, <4>2
    <3>4. c = f
      BY <2>2 DEF f
    <3> HIDE DEF f, c
    <3> QED
      BY <3>1, <3>2, <3>3, <3>4
  <2>3. CASE read.ahead.size # 0
    <3>1. read.index # End(ranges)
      <4> SUFFICES ASSUME read.index = End(ranges) PROVE FALSE
        OBVIOUS
      <4>1. ~Chunked(cursor) /\ read = GetChunk(cursor)
        BY DEF read, EOF
      <4>2. N <= cursor.pos.bytes /\ cursor.pos.bytes \in Nat /\ N \in Nat
        BY <2>1, <4>1, PFacts, GetChunkTold DEF EOF
      <4>3. cursor.ahead.size # 0
        BY <2>3, <4>1, PFacts, GetChunkTold
      <4>4. PICK limit \in cursor.pos.bytes + 1 .. N : TRUE
        BY <4>3, PFacts DEF Told, Seen, EOF
      <4> QED
        BY <4>2, <4>4
    <3>2. c = read
      BY <2>3
    <3> HIDE DEF c
    <3> QED
      BY <1>1, <3>1, <3>2 DEF EOF
  <2> QED
    BY <2>2, <2>3
<1> QED
  BY <1>1, <1>2 DEF ReadAtStart, SeenAtStart, read, c

\* start reads what is missing and passes over a byte order mark.
LEMMA StartKeepsPlaces ==
    ASSUME IInv, PInv, Start
    PROVE PInv'
<1> DEFINE c == SeenAtStart
           skip == c.pos.bytes = 0 /\ c.ahead.code = BOM
           d == IF skip THEN DoAdvance(c) ELSE c
           from == IF skip THEN d.pos ELSE cursor.pos
           zero == [value |-> 0, valid |-> TRUE]
           next == IF EOF(cursor) THEN cursor
                   ELSE IF c.pos.bytes = 0 THEN [d EXCEPT !.column = zero] ELSE d
           start == IF EOF(cursor) THEN cursor.pos ELSE from
<1>1. /\ cursor' = next /\ token' = [token EXCEPT !.start = start, !.set = FALSE]
      /\ saved' = [pos |-> cursor.pos, column |-> cursor.column]
      /\ UNCHANGED <<ranges, goal>>
  BY DEF Start, ReadAtStart, SeenAtStart
<1>2. CASE EOF(cursor)
  <2>1. Told(cursor', ranges) /\ Right(start)
    BY <1>1, <1>2, PFacts
  <2> HIDE DEF next, start
  <2>2. token'.start = start /\ token'.end = token.end
    BY <1>1 DEF IInv, TypeOK
  <2> QED
    BY <1>1, <2>1, <2>2, PFacts, KeepsPInv
<1>3. CASE ~EOF(cursor)
  <2>1. Good(c, ranges) /\ Told(c, ranges) /\ (skip => ~EOF(c))
    BY <1>3, StartReads
  <2> HIDE DEF c
  <2>2. Good(d, ranges) /\ Told(d, ranges)
    BY <2>1, PFacts, DoAdvanceTold, DoAdvanceGood
  <2> HIDE DEF d, skip
  <2>3. Told(next, ranges)
    <3>1. d \in Cursor
      BY <2>2 DEF Good
    <3> HIDE DEF zero
    <3> QED
      BY <1>3, <2>2, <3>1, RecountedTold
  <2>4. Right(start)
    BY <1>3, <2>2, PFacts DEF Told
  <2> HIDE DEF next, start
  <2>5. token'.start = start /\ token'.end = token.end
    BY <1>1 DEF IInv, TypeOK
  <2> QED
    BY <1>1, <2>3, <2>4, <2>5, PFacts, KeepsPInv
<1> QED
  BY <1>2, <1>3

\* Advance, by the short cut or not.
LEMMA AdvanceKeepsPlaces ==
    ASSUME IInv, PInv, NEW skip \in BOOLEAN, Advance(skip)
    PROVE PInv'
<1>1. CASE EOF(cursor)
  <2>1. UNCHANGED <<ranges, cursor, token, saved>>
    BY <1>1 DEF Advance
  <2> QED
    BY <2>1, PFacts, KeepsPInv
<1>2. CASE ~EOF(cursor)
  <2> DEFINE c == Advanced(cursor)
  <2>1. Told(c, ranges)
    BY <1>2, PFacts, AdvancedTold
  <2>2. /\ cursor' = c
        /\ token' = IF skip THEN [token EXCEPT !.start = c.pos] ELSE token
        /\ UNCHANGED <<ranges, saved>>
    BY <1>2 DEF Advance
  <2> HIDE DEF c
  <2>3. Right(token'.start) /\ Right(token'.end)
    <3>1. token'.start \in {c.pos, token.start} /\ token'.end = token.end
      BY <2>2 DEF IInv, TypeOK
    <3> QED
      BY <2>1, <3>1, PFacts DEF Told
  <2> QED
    BY <2>1, <2>2, <2>3, PFacts, KeepsPInv
<1> QED
  BY <1>1, <1>2

\* The steps that only write the token.
LEMMA TokensKeepPlaces ==
    ASSUME IInv, PInv, MarkEnd \/ Finish
    PROVE PInv'
<1>1. Right(EndMark(cursor))
  BY PFacts, EndMarkRight
<1>2. CASE MarkEnd
  <2>1. /\ token' = [token EXCEPT !.end = EndMark(cursor), !.set = TRUE]
        /\ UNCHANGED <<ranges, cursor, saved>>
    BY <1>2 DEF MarkEnd
  <2>2. token'.start = token.start /\ token'.end = EndMark(cursor)
    BY <2>1 DEF IInv, TypeOK
  <2> QED
    BY <1>1, <2>1, <2>2, PFacts, KeepsPInv
<1>3. CASE Finish
  <2> DEFINE end == IF token.set THEN token.end ELSE EndMark(cursor)
  <2>1. /\ token' = [start |-> IF end.bytes < token.start.bytes THEN end ELSE token.start,
                     end |-> end, set |-> TRUE]
        /\ UNCHANGED <<ranges, cursor, saved>>
    BY <1>3 DEF Finish
  <2>2. Right(end)
    BY <1>1, PFacts
  <2> HIDE DEF end
  <2>3. token'.start \in {end, token.start} /\ token'.end = end
    BY <2>1
  <2>4. Right(token'.start) /\ Right(token'.end)
    BY <2>2, <2>3, PFacts
  <2> QED
    BY <2>1, <2>4, PFacts, KeepsPInv
<1> QED
  BY <1>2, <1>3

\* GetColumn takes the column off its position: that is where its row starts, with the row
\* of the position and column zero, whichever range it lies in.
LEMMA ColumnsKeepPlaces ==
    ASSUME IInv, PInv, GetColumnKnown \/ GetColumn \/ GetColumnWalk \/ GetColumnDone
    PROVE PInv'
<1>1. CASE GetColumnKnown \/ GetColumnDone
  <2>1. UNCHANGED <<ranges, cursor, token, saved>>
    BY <1>1 DEF GetColumnKnown, GetColumnDone
  <2> QED
    BY <2>1, PFacts, KeepsPInv
<1>2. CASE GetColumnWalk
  <2>1. /\ ~EOF(cursor) /\ cursor' = DoAdvance(cursor)
        /\ UNCHANGED <<ranges, token, saved>>
    BY <1>2 DEF GetColumnWalk, Behind
  <2>2. Told(DoAdvance(cursor), ranges)
    BY <2>1, PFacts, DoAdvanceTold
  <2> QED
    BY <2>1, <2>2, PFacts, KeepsPInv
<1>3. CASE GetColumn
  <2> DEFINE at == cursor.pos
             row == [bytes |-> at.bytes - at.col, row |-> at.row, col |-> 0]
             zero == [value |-> 0, valid |-> TRUE]
             e == Goto(cursor, row, ranges)
             f == [e EXCEPT !.column = zero]
             c == GetChunk(f)
  <2>1. /\ cursor' = IF EOF(c) THEN c ELSE GetLookahead(c)
        /\ UNCHANGED <<ranges, token, saved>>
    BY <1>3 DEF GetColumn
  <2>2. Right(row) /\ row.bytes \in Nat /\ row \in Place /\ row.col <= row.bytes
    <3>1. at = PlaceOf(at.bytes) /\ at.bytes \in Nat /\ at.row \in Nat
      BY PFacts, Facts DEF Right, Place
    <3>2. at.col = at.bytes - LineStart(at.bytes)
      BY <3>1, PlaceByNewlines
    <3>3. /\ LineStart(at.bytes) \in 0 .. at.bytes
          /\ PlaceOf(LineStart(at.bytes)) = [bytes |-> LineStart(at.bytes),
                                             row |-> PlaceOf(at.bytes).row, col |-> 0]
      BY <3>1, PlaceOfRowStart
    <3>4. at.bytes - at.col = LineStart(at.bytes)
      BY <3>1, <3>2, <3>3
    <3>5. row = PlaceOf(LineStart(at.bytes))
      BY <3>1, <3>3, <3>4
    <3> QED
      BY <3>3, <3>5, PointsRight, PlaceOfType
  <2> HIDE DEF row
  <2>3. Good(e, ranges) /\ Told(e, ranges) /\ zero \in Column
    BY <2>2, PFacts, Facts, GotoGood, GotoTold DEF Column
  <2> HIDE DEF e, zero
  <2>4. Good(f, ranges) /\ Told(f, ranges)
    BY <2>3, PFacts, RecountedGood, RecountedTold DEF Good
  <2> HIDE DEF f
  <2>5. /\ Good(c, ranges) /\ Told(c, ranges)
        /\ c.index # End(ranges) => InChunk(c)
    BY <2>4, PFacts, GetChunkTold
  <2> HIDE DEF c
  <2>6. InChunk(c) => Chunked(c)
    BY <2>5 DEF InChunk, Chunked, Good, Cursor, Place
  <2>7. Told(GetLookahead(c), ranges)
    BY <2>5, <2>6, PFacts, GetLookaheadTold DEF Told
  <2> QED
    BY <2>1, <2>5, <2>7, PFacts, KeepsPInv
<1> QED
  BY <1>1, <1>2, <1>3

\* What lex does with the token.
LEMMA OutcomesKeepPlaces ==
    ASSUME IInv, PInv, Accept \/ ScanAgain \/ SkipCharacter
    PROVE PInv'
<1>1. CASE Accept
  <2>1. saved' = Nowhere /\ UNCHANGED <<ranges, cursor, token>>
    BY <1>1 DEF Accept
  <2> QED
    BY <2>1, PFacts, NowhereRight, KeepsPInv
<1>2. CASE ScanAgain
  <2> DEFINE e == Reset(cursor, saved.pos)
  <2>1. /\ cursor' = [e EXCEPT !.column = saved.column]
        /\ saved' = Nowhere /\ UNCHANGED <<ranges, token>>
    BY <1>2 DEF ScanAgain
  <2>2. Told(e, ranges)
    BY PFacts, ResetTold
  <2>3. e \in Cursor
    <3>1. saved.pos \in Place /\ saved.pos.col <= saved.pos.bytes
      BY DEF IInv, TypeOK
    <3> QED
      BY <3>1, PFacts, ResetGood DEF Good
  <2> HIDE DEF e
  <2>4. Told(cursor', ranges)
    BY <2>1, <2>2, <2>3, RecountedTold
  <2> QED
    BY <2>1, <2>4, PFacts, NowhereRight, KeepsPInv
<1>3. CASE SkipCharacter
  <2>1. /\ ~EOF(cursor) /\ cursor' = Advanced(cursor) /\ saved' = Nowhere
        /\ UNCHANGED <<ranges, token>>
    BY <1>3 DEF SkipCharacter
  <2>2. Told(Advanced(cursor), ranges)
    BY <2>1, PFacts, AdvancedTold
  <2> QED
    BY <2>1, <2>2, PFacts, NowhereRight, KeepsPInv
<1> QED
  BY <1>1, <1>2, <1>3

\* Every action keeps the places.
LEMMA StepPInv == IInv /\ PInv /\ [Next]_vars => PInv'
<1> SUFFICES ASSUME IInv, PInv, [Next]_vars PROVE PInv'
  OBVIOUS
<1>1. CASE \/ \E rs \in RangeLists : SetIncludedRanges(rs)
           \/ SetInput \/ ParserReset
           \/ \E b \in 0 .. N : (b < N => Width[Doc[b + 1]] # 0) /\ Seek(b)
  BY <1>1, MovesKeepPlaces
<1>2. CASE Start
  BY <1>2, StartKeepsPlaces
<1>3. CASE \E skip \in BOOLEAN : Advance(skip)
  BY <1>3, AdvanceKeepsPlaces
<1>4. CASE MarkEnd \/ Finish
  BY <1>4, TokensKeepPlaces
<1>5. CASE GetColumnKnown \/ GetColumn \/ GetColumnWalk \/ GetColumnDone
  BY <1>5, ColumnsKeepPlaces
<1>6. CASE Accept \/ ScanAgain \/ SkipCharacter
  BY <1>6, OutcomesKeepPlaces
<1>7. CASE UNCHANGED vars
  <2>1. UNCHANGED <<ranges, cursor, token, saved>>
    BY <1>7 DEF vars
  <2> QED
    BY <2>1, PFacts, KeepsPInv
<1> QED
  BY <1>1, <1>2, <1>3, <1>4, <1>5, <1>6, <1>7 DEF Next
-----------------------------------------------------------------------------
(* The theorems about places.                                              *)

\* The places are right, the one lex goes back to among them, and the lookahead is always
\* what stands at the position in the text: no chunk or range leaves a stale one behind.
THEOREM PlaceInvariant == Spec => []PInv
<1>1. Init => PInv
  BY InitPInv
<1>2. IInv /\ PInv /\ [Next]_vars => PInv'
  BY StepPInv
<1> QED
  BY <1>1, <1>2, Invariant, PTL DEF Spec

\* The row and column that Advance, its short cut, gotoPosition and GetColumn keep up to
\* date step by step are those of the byte, wherever chunks and ranges begin and end.
THEOREM PlacesRightAlways == Spec => []PlacesRight
<1>1. PInv => PlacesRight
  BY DEF PInv
<1> QED
  BY <1>1, PlaceInvariant, PTL
-----------------------------------------------------------------------------
(* Tokens end in the included text: what that asks of the lists of ranges. *)

\* Lists for which the last byte of a token is included: the last range is not empty and does
\* not end inside a character, and behind a range that is not empty none is empty or starts
\* behind the text.  (MarkEnd takes the end of an empty range, and the lexer ends at the start
\* of a range that has no text, both in the gap; a character goes beyond a range that cuts it.)
Fit(rs) ==
    /\ Used(rs[Len(rs)])
    /\ \A i, j \in 1 .. Len(rs) : i < j /\ Used(rs[i]) => Used(rs[j]) /\ rs[j].start < N
    /\ rs[Len(rs)].end < N => Width[Doc[rs[Len(rs)].end + 1]] # 0

\* Where a token may end: behind an included byte, or before all of them; and where it may
\* start: not before all of them.
NothingBefore(b, rs) == \A i \in 1 .. Len(rs) : Used(rs[i]) => b <= rs[i].start
MayEnd(b, rs) ==
    \/ \E i \in 1 .. Len(rs) : rs[i].start < b /\ b <= rs[i].end
    \/ NothingBefore(b, rs)
MayStart(b, rs) == \E i \in 1 .. Len(rs) : Used(rs[i]) /\ rs[i].start <= b

\* At the end of the text the position is such a place.
Ends(c, rs) == c.index = End(rs) => MayStart(c.pos.bytes, rs) /\ MayEnd(c.pos.bytes, rs)

TInv ==
    /\ Ordered(ranges) /\ Fit(ranges) /\ Ends(cursor, ranges)
    /\ phase = "scanning" => /\ MayStart(token.start.bytes, ranges)
                             /\ token.set => MayEnd(token.end.bytes, ranges)
    /\ TokenTight

\* What Ordered asks of neighbours holds of any two ranges.
LEMMA OrderedAll ==
    ASSUME NEW rs, RangeList(rs), Ordered(rs)
    PROVE \A i, j \in 1 .. Len(rs) : i < j => rs[i].end <= rs[j].start
<1> SUFFICES ASSUME NEW i \in 1 .. Len(rs),
                    NEW k \in 1 .. Len(rs), i < k, ~(rs[i].end <= rs[k].start)
             PROVE FALSE
  OBVIOUS
<1> DEFINE S == {j \in 1 .. Len(rs) : i < j /\ ~(rs[i].end <= rs[j].start)}
<1>1. \A j \in 1 .. Len(rs) : rs[j].start \in Nat /\ rs[j].end \in Nat
  BY RangeBounds
<1>2. Len(rs) \in Nat /\ i \in Nat
  BY DEF RangeList
<1>3. S \in SUBSET Nat /\ k \in S
  BY <1>2
<1> HIDE DEF S
<1>4. PICK j \in S : \A y \in S : j <= y
  BY <1>3, LeastExists
<1>5. j \in 1 .. Len(rs) /\ i < j /\ ~(rs[i].end <= rs[j].start)
  BY <1>4 DEF S
<1>6. rs[j - 1].end <= rs[j].start /\ j - 1 \in 1 .. Len(rs)
  BY <1>2, <1>5 DEF Ordered
<1>7. CASE j - 1 = i
  BY <1>5, <1>6, <1>7
<1>8. CASE j - 1 # i
  <2>1. i < j - 1
    BY <1>2, <1>5, <1>6, <1>8
  <2>2. j - 1 \notin S
    BY <1>2, <1>4, <1>5, <1>6
  <2>3. rs[i].end <= rs[j - 1].start
    BY <1>6, <2>1, <2>2 DEF S
  <2>4. rs[j - 1].start <= rs[j - 1].end
    BY <1>6 DEF Ordered
  <2> QED
    BY <1>1, <1>5, <1>6, <2>3, <2>4
<1> QED
  BY <1>7, <1>8

\* Before a range no earlier one of which is used, nothing is included.
LEMMA NothingBeforeFirst ==
    ASSUME NEW rs, RangeList(rs), Ordered(rs), NEW k \in 1 .. Len(rs),
           \A i \in 1 .. Len(rs) : i < k => ~Used(rs[i]),
           NEW b \in Nat, b <= rs[k].start
    PROVE NothingBefore(b, rs)
<1> SUFFICES ASSUME NEW i \in 1 .. Len(rs), Used(rs[i]) PROVE b <= rs[i].start
  BY DEF NothingBefore
<1>1. i \in Nat /\ k \in Nat /\ ~(i < k)
  BY DEF RangeList
<1>2. /\ rs[k].start \in Nat /\ rs[k].end \in Nat /\ rs[i].start \in Nat
      /\ rs[k].start <= rs[k].end
  BY RangeBounds DEF Ordered
<1>3. CASE i = k
  BY <1>3
<1>4. CASE i # k
  <2>1. rs[k].end <= rs[i].start
    BY <1>1, <1>4, OrderedAll
  <2> QED
    BY <1>2, <2>1
<1> QED
  BY <1>3, <1>4

\* A character that starts before a byte where one starts, or where the text ends, ends by it.
LEMMA DecodeFits ==
    ASSUME NEW b \in Nat, NEW limit \in b + 1 .. N, NEW end \in Nat, b < end,
           end < N => Width[Doc[end + 1]] # 0
    PROVE b + Decode(b, limit).size <= end
<1> DEFINE c == Doc[b + 1]
           w == Width[c]
           whole == w >= 1 /\ b + w <= limit /\ \A i \in 1 .. w - 1 : Width[Doc[b + 1 + i]] = 0
<1>1. N \in Nat /\ limit \in Nat /\ b + 1 <= limit /\ limit <= N
  BY TextAssumption DEF N
<1>2. w \in Nat
  BY <1>1, TextAssumption DEF N
<1>3. CASE whole
  <2>1. Decode(b, limit).size = w
    BY <1>3 DEF Decode
  <2>2. SUFFICES ASSUME b + w > end PROVE FALSE
    BY <1>2, <2>1
  <2>3. end - b \in 1 .. w - 1 /\ b + 1 + (end - b) = end + 1 /\ end < N
    BY <1>1, <1>2, <1>3, <2>2
  <2>4. Width[Doc[end + 1]] = 0
    BY <1>3, <2>3
  <2> QED
    BY <2>3, <2>4
<1>4. CASE ~whole
  <2>1. Decode(b, limit).size = 1
    BY <1>4 DEF Decode
  <2> QED
    BY <2>1
<1> QED
  BY <1>3, <1>4
-----------------------------------------------------------------------------
(* The methods come to the end of the text at such places only.            *)

\* Every position is behind the start of a range that is not empty.
LEMMA PositionMayStart ==
    ASSUME NEW c, RangeList(ranges), Good(c, ranges), Ends(c, ranges)
    PROVE MayStart(c.pos.bytes, ranges)
<1>1. CASE c.index = End(ranges)
  BY <1>1 DEF Ends
<1>2. CASE c.index # End(ranges)
  <2>1. c.index \in 1 .. Len(ranges)
    BY <1>2 DEF Good, End, RangeList
  <2>2. ranges[c.index].start \in Nat /\ ranges[c.index].end \in Nat /\ c.pos.bytes \in Nat
    BY <2>1, RangeBounds DEF Good, Cursor, Place
  <2>3. ranges[c.index].start <= c.pos.bytes /\ c.pos.bytes < ranges[c.index].end
    BY <1>2 DEF Good, Placed
  <2> QED
    BY <2>1, <2>2, <2>3 DEF MayStart, Used
<1> QED
  BY <1>1, <1>2

\* markEnd finds a place where a token may end.
LEMMA EndMarkMayEnd ==
    ASSUME NEW c, RangeList(ranges), Ordered(ranges), Fit(ranges),
           Good(c, ranges), Ends(c, ranges)
    PROVE MayEnd(EndMark(c).bytes, ranges)
<1> DEFINE k == c.index
           b == c.pos.bytes
<1>1. CASE EOF(c)
  BY <1>1 DEF EndMark, Ends, EOF
<1>2. CASE ~EOF(c)
  <2>1. k \in 1 .. Len(ranges) /\ Len(ranges) \in Nat
    BY <1>2 DEF Good, End, RangeList, EOF
  <2>2. ranges[k].start \in Nat /\ ranges[k].end \in Nat /\ b \in Nat
    BY <2>1, RangeBounds DEF Good, Cursor, Place
  <2>3. ranges[k].start <= b /\ b < ranges[k].end
    BY <1>2 DEF Good, Placed, EOF
  <2>4. CASE ranges[k].start < b
    <3>1. EndMark(c) = c.pos
      BY <2>2, <2>4 DEF EndMark
    <3> QED
      BY <2>1, <2>2, <2>3, <2>4, <3>1 DEF MayEnd
  <2>5. CASE b = ranges[k].start /\ k = 1
    <3>1. EndMark(c) = c.pos
      BY <2>5 DEF EndMark
    <3>2. \A i \in 1 .. Len(ranges) : i < k => ~Used(ranges[i])
      BY <2>5
    <3>3. NothingBefore(b, ranges)
      BY <2>1, <2>2, <2>5, <3>2, NothingBeforeFirst
    <3> QED
      BY <3>1, <3>3 DEF MayEnd
  <2>6. CASE b = ranges[k].start /\ k > 1
    <3> DEFINE e == ranges[k - 1].end
    <3>1. k - 1 \in 1 .. Len(ranges) /\ k - 1 < k
      BY <2>1, <2>6
    <3>2. /\ e \in Nat /\ ranges[k - 1].start \in Nat
          /\ ranges[k - 1].start <= e /\ e <= ranges[k].start
      BY <2>1, <2>6, <3>1, RangeBounds DEF Ordered
    <3>3. EndMark(c) = PlaceOf(e)
      BY <1>2, <2>6 DEF EndMark
    <3>4. EndMark(c).bytes = e
      BY <3>2, <3>3, PlaceOfType
    <3> HIDE DEF e
    <3>5. CASE Used(ranges[k - 1])
      <4>1. ranges[k - 1].start < e /\ e <= ranges[k - 1].end
        BY <3>2, <3>5 DEF Used, e
      <4> QED
        BY <3>1, <3>4, <4>1 DEF MayEnd
    <3>6. CASE ~Used(ranges[k - 1])
      <4>1. ASSUME NEW i \in 1 .. Len(ranges), i < k, Used(ranges[i]) PROVE FALSE
        <5>1. i # k - 1
          BY <3>6, <4>1
        <5>2. i < k - 1
          BY <2>1, <4>1, <5>1
        <5> QED
          BY <3>1, <3>6, <4>1, <5>2 DEF Fit
      <4>2. NothingBefore(e, ranges)
        BY <2>1, <3>2, <4>1, NothingBeforeFirst
      <4> QED
        BY <3>4, <4>2 DEF MayEnd
    <3> QED
      BY <3>5, <3>6
  <2>7. ranges[k].start < b \/ b = ranges[k].start
    BY <2>2, <2>3
  <2>8. k = 1 \/ k > 1
    BY <2>1
  <2> QED
    BY <2>4, <2>5, <2>6, <2>7, <2>8
<1> QED
  BY <1>1, <1>2

\* Inside a range, or at its start when the text is over there, a token may end.
LEMMA InsideMayEnd ==
    ASSUME RangeList(ranges), Ordered(ranges), Fit(ranges), NEW b \in Nat,
           NEW k \in 1 .. Len(ranges), ranges[k].start <= b, b < ranges[k].end, N <= b
    PROVE MayStart(b, ranges) /\ MayEnd(b, ranges)
<1>1. ranges[k].start \in Nat /\ ranges[k].end \in Nat /\ N \in Nat
  BY RangeBounds, TextAssumption DEF N
<1>2. Used(ranges[k])
  BY <1>1 DEF Used
<1>3. MayStart(b, ranges)
  BY <1>2 DEF MayStart
<1>4. CASE ranges[k].start < b
  <2>1. ranges[k].start < b /\ b <= ranges[k].end
    BY <1>1, <1>4
  <2>2. MayEnd(b, ranges)
    BY <2>1 DEF MayEnd
  <2> QED
    BY <1>3, <2>2
<1>5. CASE ~(ranges[k].start < b)
  <2>1. b = ranges[k].start
    BY <1>1, <1>5
  <2>2. ASSUME NEW i \in 1 .. Len(ranges), i < k, Used(ranges[i]) PROVE FALSE
    <3>1. ranges[k].start < N
      BY <2>2 DEF Fit
    <3> QED
      BY <1>1, <2>1, <3>1
  <2>3. b <= ranges[k].start /\ \A i \in 1 .. Len(ranges) : i < k => ~Used(ranges[i])
    BY <1>1, <2>1, <2>2
  <2>4. NothingBefore(b, ranges)
    BY <2>3, NothingBeforeFirst
  <2> QED
    BY <1>3, <2>4 DEF MayEnd
<1> QED
  BY <1>3, <1>4, <1>5

\* getChunk.
LEMMA GetChunkEnds ==
    ASSUME RangeList(ranges), Ordered(ranges), Fit(ranges),
           NEW c \in Cursor, c.index \in 1 .. End(ranges), c.pos.col <= c.pos.bytes,
           Placed(c, ranges), Ends(c, ranges)
    PROVE Ends(GetChunk(c), ranges)
<1> DEFINE d == GetChunk(c)
<1>1. /\ d.pos = c.pos
      /\ d.index = End(ranges) /\ c.index # End(ranges) => N <= c.pos.bytes
  <2>1. d.pos = c.pos
    BY GetChunkGood
  <2>2. N \in Nat /\ c.pos.bytes \in Nat
    BY TextAssumption DEF N, Cursor, Place
  <2>3. d.index = End(ranges) /\ c.index # End(ranges) => N <= c.pos.bytes
    BY <2>2, ChunkAssumption DEF GetChunk, Cursor
  <2> QED
    BY <2>1, <2>3
<1> HIDE DEF d
<1>2. CASE c.index = End(ranges)
  BY <1>1, <1>2 DEF Ends, d
<1>3. CASE c.index # End(ranges)
  <2>1. c.index \in 1 .. Len(ranges) /\ c.pos.bytes \in Nat
    BY <1>3 DEF End, RangeList, Cursor, Place
  <2>2. ranges[c.index].start <= c.pos.bytes /\ c.pos.bytes < ranges[c.index].end
    BY <1>3 DEF Placed
  <2>3. d.index = End(ranges) => MayStart(c.pos.bytes, ranges) /\ MayEnd(c.pos.bytes, ranges)
    BY <1>1, <1>3, <2>1, <2>2, InsideMayEnd
  <2> QED
    BY <1>1, <2>3 DEF Ends, d
<1> QED
  BY <1>2, <1>3

\* getLookahead, which may ask for a chunk.
LEMMA GetLookaheadEnds ==
    ASSUME RangeList(ranges), Ordered(ranges), Fit(ranges),
           NEW c, Good(c, ranges), Ends(c, ranges)
    PROVE Ends(GetLookahead(c), ranges)
<1> DEFINE g == GetChunk(c)
           d == GetLookahead(c)
<1>1. /\ c \in Cursor /\ g \in Cursor /\ g.pos = c.pos
      /\ Ends(g, ranges)
  BY GetChunkGood, GetChunkEnds DEF Good
<1> HIDE DEF g
<1>2. \/ d = [c EXCEPT !.ahead = AtEnd]
      \/ \E a : d = [g EXCEPT !.ahead = a]
      \/ \E a : d = [c EXCEPT !.ahead = a]
  BY DEF GetLookahead, g
<1> HIDE DEF d
<1>3. d.pos = c.pos /\ d.index \in {c.index, g.index}
  BY <1>1, <1>2 DEF Cursor
<1>4. Ends(d, ranges)
  BY <1>1, <1>3 DEF Ends
<1> QED
  BY <1>4 DEF d

\* gotoPosition ends at the end of the last range, which is not empty.
LEMMA GotoEnds ==
    ASSUME NEW rs, RangeList(rs), Fit(rs), NEW c, NEW place
    PROVE Ends(Goto(c, place, rs), rs)
<1> DEFINE b == place.bytes
           later == {i \in 1 .. Len(rs) : rs[i].end > b /\ Used(rs[i])}
           i == LeastOf(later)
           at == IF rs[i].start >= b THEN PlaceOf(rs[i].start) ELSE place
           column == IF b # c.pos.bytes THEN NoColumn ELSE c.column
           kept == c.chunk.start <= at.bytes /\ at.bytes < c.chunk.start + c.chunk.len
           chunk == IF kept THEN c.chunk ELSE NoChunk
           d == Goto(c, place, rs)
           last == Len(rs)
<1>1. last \in Nat /\ last >= 1 /\ last \in 1 .. last
  BY DEF RangeList
<1>2. CASE later # {}
  <2>1. i \in 1 .. last
    <3>1. later \in SUBSET Nat /\ \A k \in later : k \in 1 .. last
      OBVIOUS
    <3> HIDE DEF later
    <3> QED
      BY <1>2, <3>1, LeastExists
  <2>2. d = [pos |-> at, index |-> i, chunk |-> chunk, ahead |-> NothingAhead,
             column |-> column]
    BY <1>2 DEF Goto
  <2> HIDE DEF i, chunk, column, d, at
  <2>3. d.index = i
    BY <2>2
  <2>4. d.index # End(rs)
    BY <1>1, <2>1, <2>3 DEF End
  <2> QED
    BY <2>4 DEF Ends, d
<1>3. CASE later = {}
  <2>1. d = [pos |-> PlaceOf(rs[last].end), index |-> End(rs), chunk |-> NoChunk,
             ahead |-> AtEnd, column |-> column]
    BY <1>3 DEF Goto
  <2> HIDE DEF column, d
  <2>2. rs[last].end \in Nat /\ rs[last].start \in Nat /\ Used(rs[last])
    BY <1>1, RangeBounds DEF Fit
  <2>3. d.pos.bytes = rs[last].end
    BY <2>1, <2>2, PlaceOfType
  <2>4. rs[last].start < rs[last].end
    BY <2>2 DEF Used
  <2>5. MayStart(rs[last].end, rs) /\ MayEnd(rs[last].end, rs)
    BY <1>1, <2>2, <2>4 DEF MayStart, MayEnd
  <2> QED
    BY <2>3, <2>5 DEF Ends, d
<1> QED
  BY <1>2, <1>3

\* Or stays.
LEMMA ResetEnds ==
    ASSUME RangeList(ranges), Fit(ranges), NEW c, Ends(c, ranges), NEW place
    PROVE Ends(Reset(c, place), ranges)
  BY GotoEnds DEF Reset

\* Out of the last range doAdvance comes to its end exactly.
LEMMA InNextRangeEnds ==
    ASSUME RangeList(ranges), Fit(ranges),
           NEW c \in Cursor, c.index \in 1 .. Len(ranges),
           ranges[c.index].start <= c.pos.bytes,
           c.index = Len(ranges) => c.pos.bytes <= ranges[c.index].end
    PROVE Ends(InNextRange(c), ranges)
<1> DEFINE later == {i \in c.index + 1 .. Len(ranges) : Used(ranges[i])}
           i == LeastOf(later)
           inside == EOF(c) \/ (c.pos.bytes < ranges[c.index].end /\ Used(ranges[c.index]))
           last == Len(ranges)
           d == InNextRange(c)
<1>1. /\ last \in Nat /\ last \in 1 .. last /\ c.index \in Nat
      /\ End(ranges) = last + 1 /\ c.index # End(ranges)
  BY DEF RangeList, End, Cursor
<1>2. Used(ranges[last])
  BY DEF Fit
<1>3. CASE inside
  BY <1>1, <1>3 DEF InNextRange, Ends
<1>4. CASE ~inside /\ later # {}
  <2>1. d = [c EXCEPT !.index = i, !.pos = PlaceOf(ranges[i].start)]
    BY <1>4 DEF InNextRange
  <2>2. i \in 1 .. last
    <3>1. later \in SUBSET Nat /\ \A k \in later : k \in 1 .. last
      BY <1>1
    <3> HIDE DEF later
    <3> QED
      BY <1>4, <3>1, LeastExists
  <2> HIDE DEF i, d
  <2>3. d.index = i
    BY <2>1 DEF Cursor
  <2>4. d.index # End(ranges)
    BY <1>1, <2>2, <2>3
  <2> QED
    BY <2>4 DEF Ends, d
<1>5. CASE ~inside /\ later = {}
  <2>1. c.index = last
    <3> SUFFICES ASSUME c.index # last PROVE FALSE
      OBVIOUS
    <3>1. last \in later
      BY <1>1, <1>2
    <3> QED
      BY <1>5, <3>1
  <2>2. d.pos = c.pos
    BY <1>1, <1>5, <2>1 DEF InNextRange, Cursor
  <2>3. c.pos.bytes = ranges[last].end
    <3>1. c.pos.bytes \in Nat /\ ranges[last].end \in Nat
      BY <1>1, RangeBounds DEF Cursor, Place
    <3> QED
      BY <1>2, <1>5, <2>1, <3>1
  <2>4. ranges[last].start < ranges[last].end
    BY <1>1, <1>2, RangeBounds DEF Used
  <2>5. ranges[last].start \in Nat /\ ranges[last].end \in Nat
    BY <1>1, RangeBounds
  <2>6. MayStart(c.pos.bytes, ranges) /\ MayEnd(c.pos.bytes, ranges)
    BY <1>1, <1>2, <2>3, <2>4, <2>5 DEF MayStart, MayEnd
  <2> HIDE DEF d
  <2> QED
    BY <2>2, <2>6 DEF Ends, d
<1> QED
  BY <1>3, <1>4, <1>5

\* doAdvance as a whole: what it passes over does not reach beyond the last range.
LEMMA DoAdvanceEnds ==
    ASSUME RangeList(ranges), Ordered(ranges), Fit(ranges),
           NEW c, Good(c, ranges), Told(c, ranges), ~EOF(c)
    PROVE Ends(DoAdvance(c), ranges)
<1> DEFINE p == Passed(c)
           d == InNextRange(p)
           e == IF InChunk(d) THEN d ELSE GetChunk(d)
           k == c.index
           b == c.pos.bytes
           n == c.ahead.size
<1>1. /\ p \in Cursor /\ p.pos.col <= p.pos.bytes /\ p.index = k /\ p.chunk = c.chunk
      /\ Right(p.pos)
  BY PassedType, PassedRight DEF Good
<1>2. k \in 1 .. Len(ranges) /\ Len(ranges) \in Nat
  BY DEF EOF, End, RangeList, Good
<1>3. /\ ranges[k].start \in Nat /\ ranges[k].end \in Nat /\ b \in Nat /\ n \in Nat
      /\ N \in Nat
  BY <1>2, RangeBounds, TextAssumption DEF Good, Cursor, Place, N
<1>4. ranges[k].start <= b /\ b < ranges[k].end
  BY DEF Good, Placed, EOF
<1>5. p.pos.bytes = b + n
  BY <1>3 DEF Passed, Good, Cursor
<1> HIDE DEF p
<1>6. ranges[k].start <= p.pos.bytes
  BY <1>3, <1>4, <1>5
<1>7. k = Len(ranges) => p.pos.bytes <= ranges[k].end
  <2> SUFFICES ASSUME k = Len(ranges) PROVE p.pos.bytes <= ranges[k].end
    OBVIOUS
  <2>1. CASE n = 0
    BY <1>3, <1>4, <1>5, <2>1
  <2>2. CASE n # 0
    <3>1. PICK limit \in b + 1 .. N : c.ahead = Decode(b, limit)
      BY <2>2 DEF Told, Seen, EOF
    <3>2. ranges[k].end < N => Width[Doc[ranges[k].end + 1]] # 0
      BY DEF Fit
    <3>3. b + Decode(b, limit).size <= ranges[k].end
      BY <1>3, <1>4, <3>2, DecodeFits
    <3> QED
      BY <1>5, <3>1, <3>3
  <2> QED
    BY <2>1, <2>2
<1>8. /\ d \in Cursor /\ d.index \in 1 .. End(ranges) /\ d.pos.col <= d.pos.bytes
      /\ Placed(d, ranges) /\ d.chunk = p.chunk /\ Right(d.pos) /\ Ends(d, ranges)
  <2>1. p.index \in 1 .. End(ranges)
    BY <1>1, <1>2 DEF End
  <2> QED
    BY <1>1, <1>2, <1>6, <1>7, <2>1, InNextRangeGood, InNextRangeRight, InNextRangeEnds
<1>9. DoAdvance(c) = IF EOF(d) THEN [d EXCEPT !.chunk = NoChunk, !.ahead = AtEnd]
                     ELSE GetLookahead(e)
  BY DEF DoAdvance, p
<1> HIDE DEF d
<1>10. CASE EOF(d)
  <2> DEFINE f == [d EXCEPT !.chunk = NoChunk, !.ahead = AtEnd]
  <2>1. f.index = d.index /\ f.pos = d.pos
    BY <1>8 DEF Cursor
  <2> HIDE DEF f
  <2>2. Ends(f, ranges)
    BY <1>8, <2>1 DEF Ends
  <2> QED
    BY <1>9, <1>10, <2>2 DEF f
<1>11. CASE ~EOF(d)
  <2>1. CASE InChunk(d)
    <3>1. d.chunk.len # 0 => d.chunk.start + d.chunk.len <= N
      BY <1>1, <1>8 DEF Good, Covered, Chunked
    <3>2. Good(d, ranges)
      BY <1>8, <2>1, <3>1 DEF Good, Covered, Chunked
    <3> QED
      BY <1>8, <1>9, <1>11, <2>1, <3>2, GetLookaheadEnds
  <2>2. CASE ~InChunk(d)
    <3> DEFINE g == GetChunk(d)
    <3>1. Good(g, ranges) /\ Ends(g, ranges)
      BY <1>8, GetChunkGood, GetChunkEnds
    <3> HIDE DEF g
    <3>2. Ends(GetLookahead(g), ranges)
      BY <3>1, GetLookaheadEnds
    <3> QED
      BY <1>9, <1>11, <2>2, <3>2 DEF g
  <2> QED
    BY <2>1, <2>2
<1> QED
  BY <1>10, <1>11

\* Advance, by the short cut or not.
LEMMA AdvancedEnds ==
    ASSUME RangeList(ranges), Ordered(ranges), Fit(ranges),
           NEW c, Good(c, ranges), Told(c, ranges), ~EOF(c)
    PROVE Ends(Advanced(c), ranges)
<1>1. CASE ~Chunked(c)
  BY <1>1 DEF Advanced, Ends, EOF
<1>2. CASE Chunked(c) /\ ShortCut(c)
  <2>1. Stepped(c).index = c.index
    BY DEF Stepped, Good, Cursor
  <2> QED
    BY <1>2, <2>1 DEF Advanced, Ends, EOF
<1>3. CASE Chunked(c) /\ ~ShortCut(c)
  BY <1>3, DoAdvanceEnds DEF Advanced
<1> QED
  BY <1>1, <1>2, <1>3

\* A recounted cursor is where it was.
LEMMA RecountedEnds ==
    ASSUME NEW c \in Cursor, Ends(c, ranges), NEW k
    PROVE Ends([c EXCEPT !.column = k], ranges)
<1> DEFINE d == [c EXCEPT !.column = k]
<1>1. d.pos = c.pos /\ d.index = c.index
  BY DEF Cursor
<1> HIDE DEF d
<1>2. Ends(d, ranges)
  BY <1>1 DEF Ends
<1> QED
  BY <1>2 DEF d
-----------------------------------------------------------------------------
(* Every action keeps TInv.                                                *)

\* What the hypothesis says of the lists a parser is given.
FitLists == \A rs \in RangeLists : Ordered(rs) => Fit(rs)

\* The parts of TInv that most lemmas take.
LEMMA TFacts ==
    ASSUME IInv, PInv, TInv
    PROVE /\ RangeList(ranges) /\ Ordered(ranges) /\ Fit(ranges)
          /\ Good(cursor, ranges) /\ Told(cursor, ranges) /\ Ends(cursor, ranges)
          /\ cursor \in Cursor
          /\ MayStart(cursor.pos.bytes, ranges)
<1>1. /\ RangeList(ranges) /\ Good(cursor, ranges) /\ Told(cursor, ranges)
      /\ Ordered(ranges) /\ Fit(ranges) /\ Ends(cursor, ranges)
  BY PFacts DEF TInv
<1>2. MayStart(cursor.pos.bytes, ranges)
  BY <1>1, PositionMayStart
<1> QED
  BY <1>1, <1>2 DEF Good

\* Enough for a step that leaves the ranges alone and does not finish a token.
LEMMA KeepsTInv ==
    ASSUME TInv, ranges' = ranges, Ends(cursor', ranges), phase' # "scanned",
           phase' = "scanning" =>
              MayStart(token'.start.bytes, ranges)
              /\ (token'.set => MayEnd(token'.end.bytes, ranges))
    PROVE TInv'
<1>1. Ends(cursor, ranges)'
  BY DEF Ends, End, MayStart, MayEnd, NothingBefore
<1>2. (Ordered(ranges) /\ Fit(ranges))'
  BY DEF TInv, Ordered, Fit
<1>3. (phase = "scanning" => /\ MayStart(token.start.bytes, ranges)
                             /\ token.set => MayEnd(token.end.bytes, ranges))'
  BY DEF MayStart, MayEnd, NothingBefore
<1> QED
  BY <1>1, <1>2, <1>3 DEF TInv, TokenTight

\* A new lexer is at the start of a range that goes beyond the text.
LEMMA InitTInv == Init => TInv
<1> SUFFICES ASSUME Init PROVE TInv
  OBVIOUS
<1>1. N \in Nat
  BY TextAssumption DEF N
<1> DEFINE r == [start |-> 0, end |-> N + 1]
<1>2. ranges = <<r>> /\ Len(ranges) = 1 /\ End(ranges) = 2 /\ ranges[1] = r
  BY DEF Init, End
<1>3. r.start = 0 /\ r.end = N + 1
  OBVIOUS
<1> HIDE DEF r
<1>4. Ordered(ranges)
  BY <1>1, <1>2, <1>3 DEF Ordered
<1>5. Fit(ranges)
  BY <1>1, <1>2, <1>3 DEF Fit, Used
<1>6. cursor.index = 1 /\ phase = "between"
  BY DEF Init, Fresh
<1> QED
  BY <1>2, <1>4, <1>5, <1>6 DEF TInv, Ends, TokenTight

\* New ranges, and every way in which lex is sent to a place of the text.
LEMMA MovesKeepTokens ==
    ASSUME FitLists, IInv, PInv, TInv,
           \/ \E rs \in RangeLists : SetIncludedRanges(rs)
           \/ SetInput \/ ParserReset \/ \E b \in 0 .. N : Seek(b)
    PROVE TInv'
<1>1. ASSUME NEW rs \in RangeLists, SetIncludedRanges(rs)
      PROVE TInv'
  <2>1. /\ cursor' = Goto(cursor, cursor.pos, rs) /\ ranges' = rs
        /\ phase' = "between" /\ Ordered(rs)
    BY <1>1 DEF SetIncludedRanges, Ready
  <2>2. RangeList(rs) /\ Fit(rs)
    BY <2>1, RangesAssumption DEF RangeList, FitLists
  <2>3. Ends(Goto(cursor, cursor.pos, rs), rs)
    BY <2>2, GotoEnds
  <2>4. Ends(cursor', rs)
    BY <2>1, <2>3
  <2>5. Ends(cursor, ranges)'
    BY <2>1, <2>4 DEF Ends, End, MayStart, MayEnd, NothingBefore
  <2>6. (Ordered(ranges) /\ Fit(ranges))'
    BY <2>1, <2>2 DEF Ordered, Fit
  <2> QED
    BY <2>1, <2>5, <2>6 DEF TInv, TokenTight
<1>2. CASE SetInput
  <2> DEFINE c == Goto([cursor EXCEPT !.chunk = NoChunk], cursor.pos, ranges)
  <2>1. Ends(c, ranges)
    BY TFacts, GotoEnds
  <2>2. cursor' = Reset(c, PlaceOf(0)) /\ phase' = "parsing" /\ ranges' = ranges
    BY <1>2 DEF SetInput
  <2> HIDE DEF c
  <2>3. Ends(cursor', ranges)
    BY <2>1, <2>2, TFacts, ResetEnds
  <2> QED
    BY <2>2, <2>3, KeepsTInv
<1>3. CASE ParserReset
  <2>1. cursor' = Reset(cursor, PlaceOf(0)) /\ phase' = "between" /\ ranges' = ranges
    BY <1>3 DEF ParserReset
  <2>2. Ends(cursor', ranges)
    BY <2>1, TFacts, ResetEnds
  <2> QED
    BY <2>1, <2>2, KeepsTInv
<1>4. ASSUME NEW b \in 0 .. N, Seek(b)
      PROVE TInv'
  <2>1. cursor' = Reset(cursor, PlaceOf(b)) /\ phase' = "parsing" /\ ranges' = ranges
    BY <1>4 DEF Seek, Ready
  <2>2. Ends(cursor', ranges)
    BY <2>1, TFacts, ResetEnds
  <2> QED
    BY <2>1, <2>2, KeepsTInv
<1> QED
  BY <1>1, <1>2, <1>3, <1>4

\* Advance, which moves the start of a token with it when it skips.
LEMMA AdvanceKeepsTokens ==
    ASSUME IInv, PInv, TInv, NEW skip \in BOOLEAN, Advance(skip)
    PROVE TInv'
<1>1. CASE EOF(cursor)
  <2>1. phase' = "panicked" /\ UNCHANGED <<ranges, cursor>>
    BY <1>1 DEF Advance
  <2> QED
    BY <2>1, TFacts, KeepsTInv
<1>2. CASE ~EOF(cursor)
  <2> DEFINE c == Advanced(cursor)
  <2>1. Good(c, ranges) /\ Ends(c, ranges)
    BY <1>2, TFacts, AdvancedGood, AdvancedEnds
  <2>2. /\ cursor' = c
        /\ token' = IF skip THEN [token EXCEPT !.start = c.pos] ELSE token
        /\ phase = "scanning" /\ UNCHANGED <<ranges, phase>>
    BY <1>2 DEF Advance, Ready
  <2> HIDE DEF c
  <2>3. MayStart(c.pos.bytes, ranges)
    BY <2>1, TFacts, PositionMayStart
  <2>4. /\ token'.start \in {c.pos, token.start} /\ token'.end = token.end
        /\ token'.set = token.set
    BY <2>2 DEF IInv, TypeOK
  <2>5. MayStart(token'.start.bytes, ranges)
        /\ (token'.set => MayEnd(token'.end.bytes, ranges))
    BY <2>2, <2>3, <2>4 DEF TInv
  <2> QED
    BY <2>1, <2>2, <2>5, KeepsTInv
<1> QED
  BY <1>1, <1>2

\* MarkEnd ends the token where one may end; Finish starts it no later than that.
LEMMA TokensKeepTokens ==
    ASSUME IInv, PInv, TInv, MarkEnd \/ Finish
    PROVE TInv'
<1>1. MayEnd(EndMark(cursor).bytes, ranges)
  BY TFacts, EndMarkMayEnd
<1>2. EndMark(cursor) \in Place /\ token.end \in Place /\ token.start \in Place
  BY TFacts, EndMarkType DEF IInv, TypeOK
<1>3. CASE MarkEnd
  <2>1. /\ token' = [token EXCEPT !.end = EndMark(cursor), !.set = TRUE]
        /\ UNCHANGED <<ranges, cursor, phase>> /\ phase # "scanned"
    BY <1>3 DEF MarkEnd, Ready
  <2>2. token'.start = token.start /\ token'.end = EndMark(cursor)
    BY <2>1 DEF IInv, TypeOK
  <2>3. phase' = "scanning" => /\ MayStart(token'.start.bytes, ranges)
                               /\ token'.set => MayEnd(token'.end.bytes, ranges)
    BY <1>1, <2>1, <2>2 DEF TInv
  <2> QED
    BY <2>1, <2>3, TFacts, KeepsTInv
<1>4. CASE Finish
  <2> DEFINE end == IF token.set THEN token.end ELSE EndMark(cursor)
  <2>1. /\ token' = [start |-> IF end.bytes < token.start.bytes THEN end ELSE token.start,
                     end |-> end, set |-> TRUE]
        /\ phase = "scanning" /\ phase' = "scanned" /\ UNCHANGED <<ranges, cursor>>
    BY <1>4 DEF Finish, Ready
  <2>2. MayStart(token.start.bytes, ranges) /\ MayEnd(end.bytes, ranges)
    BY <1>1, <2>1 DEF TInv
  <2>3. end.bytes \in Nat /\ token.start.bytes \in Nat
    BY <1>2 DEF Place
  <2> HIDE DEF end
  <2>4. /\ token'.end = end
        /\ token'.start = IF end.bytes < token.start.bytes THEN end ELSE token.start
    BY <2>1
  <2>5. token'.start.bytes <= token'.end.bytes
    BY <2>3, <2>4
  <2>6. token'.start.bytes < token'.end.bytes =>
           \E i \in 1 .. Len(ranges) : ranges[i].start < token'.end.bytes
                                       /\ token'.end.bytes <= ranges[i].end
    <3> SUFFICES ASSUME token'.start.bytes < token'.end.bytes, NothingBefore(end.bytes, ranges)
                 PROVE FALSE
      BY <2>2, <2>4 DEF MayEnd
    <3>1. token.start.bytes < end.bytes
      BY <2>3, <2>4
    <3>2. PICK i \in 1 .. Len(ranges) : Used(ranges[i]) /\ ranges[i].start <= token.start.bytes
      BY <2>2 DEF MayStart
    <3>3. end.bytes <= ranges[i].start /\ ranges[i].start \in Nat
      BY <3>2, TFacts, RangeBounds DEF NothingBefore
    <3> QED
      BY <2>3, <3>1, <3>2, <3>3
  <2>7. Ends(cursor, ranges)'
    BY <2>1, TFacts DEF Ends, End, MayStart, MayEnd, NothingBefore
  <2>8. (Ordered(ranges) /\ Fit(ranges))'
    BY <2>1, TFacts DEF Ordered, Fit
  <2>9. TokenTight'
    BY <2>1, <2>5, <2>6 DEF TokenTight
  <2> QED
    BY <2>1, <2>7, <2>8, <2>9 DEF TInv
<1> QED
  BY <1>3, <1>4

\* GetColumn goes to the start of the row and back, in the ranges.
LEMMA ColumnsKeepTokens ==
    ASSUME IInv, PInv, TInv, GetColumnKnown \/ GetColumn \/ GetColumnWalk \/ GetColumnDone
    PROVE TInv'
<1>1. UNCHANGED <<ranges, token, phase>>
  BY DEF GetColumnKnown, GetColumn, GetColumnWalk, GetColumnDone
<1>2. SUFFICES ASSUME Ends(cursor', ranges) PROVE TInv'
  <2>1. Ends(cursor', ranges)
    <3>1. CASE GetColumnKnown \/ GetColumnDone
      <4>1. cursor' = cursor
        BY <3>1 DEF GetColumnKnown, GetColumnDone
      <4> QED
        BY <4>1, TFacts
    <3>2. CASE GetColumnWalk
      BY <3>2, TFacts, DoAdvanceEnds DEF GetColumnWalk, Behind
    <3>3. CASE GetColumn
      <4> DEFINE at == cursor.pos
                 row == [bytes |-> at.bytes - at.col, row |-> at.row, col |-> 0]
                 zero == [value |-> 0, valid |-> TRUE]
                 e == Goto(cursor, row, ranges)
                 f == [e EXCEPT !.column = zero]
                 c == GetChunk(f)
      <4>1. cursor' = IF EOF(c) THEN c ELSE GetLookahead(c)
        BY <3>3 DEF GetColumn
      <4>2. row \in Place /\ row.col <= row.bytes
        BY Facts DEF Place
      <4>3. zero \in Column
        BY DEF Column
      <4> HIDE DEF row
      <4>4. Good(e, ranges) /\ Ends(e, ranges)
        BY <4>2, Facts, TFacts, GotoGood, GotoEnds
      <4> HIDE DEF e, zero
      <4>5. Good(f, ranges) /\ Ends(f, ranges)
        BY <4>3, <4>4, TFacts, RecountedGood, RecountedEnds DEF Good
      <4> HIDE DEF f
      <4>6. Good(c, ranges) /\ Ends(c, ranges)
        BY <4>5, TFacts, GetChunkGood, GetChunkEnds DEF Good
      <4> HIDE DEF c
      <4> QED
        BY <4>1, <4>6, TFacts, GetLookaheadEnds
    <3> QED
      BY <3>1, <3>2, <3>3
  <2> QED
    BY <1>2, <2>1
<1>3. CASE phase = "scanned"
  <2>1. Ends(cursor, ranges)'
    BY <1>1, <1>2 DEF Ends, End, MayStart, MayEnd, NothingBefore
  <2>2. (Ordered(ranges) /\ Fit(ranges))'
    BY <1>1, TFacts DEF Ordered, Fit
  <2>3. TokenTight'
    BY <1>1 DEF TInv, TokenTight
  <2> QED
    BY <1>1, <1>3, <2>1, <2>2, <2>3 DEF TInv
<1>4. CASE phase # "scanned"
  <2>1. phase' = "scanning" => /\ MayStart(token'.start.bytes, ranges)
                               /\ token'.set => MayEnd(token'.end.bytes, ranges)
    BY <1>1 DEF TInv
  <2> QED
    BY <1>1, <1>2, <1>4, <2>1, KeepsTInv
<1> QED
  BY <1>3, <1>4

\* What lex does with the token.
LEMMA OutcomesKeepTokens ==
    ASSUME IInv, PInv, TInv, Accept \/ ScanAgain \/ SkipCharacter
    PROVE TInv'
<1>1. phase' = "parsing" /\ ranges' = ranges
  BY DEF Accept, ScanAgain, SkipCharacter
<1>2. CASE Accept
  <2>1. cursor' = cursor
    BY <1>2 DEF Accept
  <2> QED
    BY <1>1, <2>1, TFacts, KeepsTInv
<1>3. CASE ScanAgain
  <2> DEFINE e == Reset(cursor, saved.pos)
  <2>1. cursor' = [e EXCEPT !.column = saved.column]
    BY <1>3 DEF ScanAgain
  <2>2. Ends(e, ranges)
    BY TFacts, ResetEnds
  <2>3. e \in Cursor
    <3>1. saved.pos \in Place /\ saved.pos.col <= saved.pos.bytes
      BY DEF IInv, TypeOK
    <3> QED
      BY <3>1, TFacts, ResetGood DEF Good
  <2> HIDE DEF e
  <2>4. Ends(cursor', ranges)
    BY <2>1, <2>2, <2>3, RecountedEnds
  <2> QED
    BY <1>1, <2>4, KeepsTInv
<1>4. CASE SkipCharacter
  <2>1. ~EOF(cursor) /\ cursor' = Advanced(cursor)
    BY <1>4 DEF SkipCharacter
  <2>2. Ends(cursor', ranges)
    BY <2>1, TFacts, AdvancedEnds
  <2> QED
    BY <1>1, <2>2, KeepsTInv
<1> QED
  BY <1>2, <1>3, <1>4

\* start begins a token at its position, behind a byte order mark when there is one.
LEMMA StartKeepsTokens ==
    ASSUME IInv, PInv, TInv, Start
    PROVE TInv'
<1> DEFINE c == SeenAtStart
           skip == c.pos.bytes = 0 /\ c.ahead.code = BOM
           d == IF skip THEN DoAdvance(c) ELSE c
           from == IF skip THEN d.pos ELSE cursor.pos
           zero == [value |-> 0, valid |-> TRUE]
           next == IF EOF(cursor) THEN cursor
                   ELSE IF c.pos.bytes = 0 THEN [d EXCEPT !.column = zero] ELSE d
           start == IF EOF(cursor) THEN cursor.pos ELSE from
<1>1. /\ cursor' = next /\ token' = [token EXCEPT !.start = start, !.set = FALSE]
      /\ phase' = "scanning" /\ ranges' = ranges
  BY DEF Start, ReadAtStart, SeenAtStart
<1>2. Ends(next, ranges) /\ MayStart(start.bytes, ranges)
  <2>1. CASE EOF(cursor)
    BY <2>1, TFacts
  <2>2. CASE ~EOF(cursor)
    <3>1. /\ Good(c, ranges) /\ Told(c, ranges) /\ (skip => ~EOF(c))
          /\ Good(ReadAtStart, ranges)
      BY <2>2, StartReads
    <3>2. Ends(ReadAtStart, ranges)
      BY TFacts, GetChunkEnds DEF ReadAtStart, Good
    <3>3. Ends(c, ranges)
      BY <3>1, <3>2, TFacts, GetLookaheadEnds DEF SeenAtStart
    <3> HIDE DEF c
    <3>4. Good(d, ranges) /\ Ends(d, ranges)
      BY <3>1, <3>3, TFacts, DoAdvanceGood, DoAdvanceEnds
    <3> HIDE DEF d, skip
    <3>5. MayStart(d.pos.bytes, ranges)
      BY <3>4, TFacts, PositionMayStart
    <3>6. d \in Cursor
      BY <3>4 DEF Good
    <3> HIDE DEF zero
    <3>7. Ends(next, ranges)
      BY <2>2, <3>4, <3>6, RecountedEnds
    <3> QED
      BY <2>2, <3>5, <3>7, TFacts
  <2> QED
    BY <2>1, <2>2
<1> HIDE DEF next, start
<1>3. token'.start = start /\ token'.set = FALSE
  BY <1>1 DEF IInv, TypeOK
<1> QED
  BY <1>1, <1>2, <1>3, KeepsTInv

\* Every action keeps the tokens tight.
LEMMA StepTInv == FitLists /\ IInv /\ PInv /\ TInv /\ [Next]_vars => TInv'
<1> SUFFICES ASSUME FitLists, IInv, PInv, TInv, [Next]_vars PROVE TInv'
  OBVIOUS
<1>1. CASE \/ \E rs \in RangeLists : SetIncludedRanges(rs)
           \/ SetInput \/ ParserReset
           \/ \E b \in 0 .. N : (b < N => Width[Doc[b + 1]] # 0) /\ Seek(b)
  BY <1>1, MovesKeepTokens
<1>2. CASE Start
  BY <1>2, StartKeepsTokens
<1>3. CASE \E skip \in BOOLEAN : Advance(skip)
  BY <1>3, AdvanceKeepsTokens
<1>4. CASE MarkEnd \/ Finish
  BY <1>4, TokensKeepTokens
<1>5. CASE GetColumnKnown \/ GetColumn \/ GetColumnWalk \/ GetColumnDone
  BY <1>5, ColumnsKeepTokens
<1>6. CASE Accept \/ ScanAgain \/ SkipCharacter
  BY <1>6, OutcomesKeepTokens
<1>7. CASE UNCHANGED vars
  <2>1. UNCHANGED <<ranges, cursor, token, phase>>
    BY <1>7 DEF vars
  <2>2. Ends(cursor, ranges)'
    BY <2>1, TFacts DEF Ends, End, MayStart, MayEnd, NothingBefore
  <2>3. (Ordered(ranges) /\ Fit(ranges))'
    BY <2>1, TFacts DEF Ordered, Fit
  <2>4. (phase = "scanning" => /\ MayStart(token.start.bytes, ranges)
                               /\ token.set => MayEnd(token.end.bytes, ranges))'
    BY <2>1 DEF TInv, MayStart, MayEnd, NothingBefore
  <2>5. TokenTight'
    BY <2>1 DEF TInv, TokenTight
  <2> QED
    BY <2>2, <2>3, <2>4, <2>5 DEF TInv
<1> QED
  BY <1>1, <1>2, <1>3, <1>4, <1>5, <1>6, <1>7 DEF Next

\* However a scanner moves, marks and asks for columns, a finished token does not end before
\* it starts and its last byte is included text, given lists of ranges that fit.  (An empty
\* range behind a used one, a range that starts behind the text and a last one that cuts a
\* character do lead to tokens that end in a gap.)
THEOREM TokenTightAlways == FitLists => (Spec => []TokenTight)
<1> SUFFICES ASSUME FitLists PROVE Spec => []TokenTight
  OBVIOUS
<1>1. Init => TInv
  BY InitTInv
<1>2. IInv /\ PInv /\ TInv /\ [Next]_vars => TInv'
  BY StepTInv
<1>3. TInv => TokenTight
  BY DEF TInv
<1> QED
  BY <1>1, <1>2, <1>3, Invariant, PlaceInvariant, PTL DEF Spec
=============================================================================
