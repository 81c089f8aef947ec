--------------------------- MODULE LexerTextProofs ---------------------------
(***************************************************************************)
(* The lexer implements IncludedText: to a scanner it is the characters of *)
(* the included ranges one after the other, for every text and every list  *)
(* of ranges, and every chunk size that holds a character.                 *)
(***************************************************************************)
EXTENDS LexerProofs

\* A character, of at most four bytes, is not larger than a chunk: getLookahead then needs
\* at most one more chunk to see all of it.
Readable == ChunkSize >= 4 /\ \A c \in Codes : Width[c] <= 4

\* Where the characters of a list start.
Starts(rs) == UNION {CharsOf(rs[i]) : i \in 1 .. Len(rs)}

\* No character is passed over on the way from b to d.
SameRank(b, d, rs) == \A x \in Starts(rs) : x < b <=> x < d
\* Just the one at b is.
NextRank(b, d, rs) == \A x \in Starts(rs) : x <= b <=> x < d

\* If b is included text, a character starts there.
Clear(b, rs) ==
    \A i \in 1 .. Len(rs) : rs[i].start <= b /\ b < rs[i].end /\ b < N => b \in CharsOf(rs[i])

\* At the end no character is left, and none is ahead.
Over(c, rs) ==
    c.index = End(rs) =>
       /\ c.ahead.code = Nul
       /\ N <= c.pos.bytes \/ \A i \in 1 .. Len(rs) : rs[i].end <= c.pos.bytes

\* What is ahead, if it has been read, is what the whole text has there, whatever the chunk.
Exact(c, rs) ==
    c.index # End(rs) /\ c.ahead.size # 0 => Chunked(c) /\ c.ahead = Decode(c.pos.bytes, N)
Reads(c, rs) == c.index # End(rs) => c.ahead.size # 0

\* On its way back to `goal` GetColumn has not passed it.
OnTheWay ==
    goal # None =>
       /\ phase = "scanning"
       /\ goal \in Starts(ranges) => ~EOF(cursor) /\ cursor.pos.bytes <= goal
       /\ goal \notin Starts(ranges) => \A x \in Starts(ranges) : x < goal

RInv ==
    /\ Ordered(ranges) /\ ranges \in Lists
    /\ Over(cursor, ranges) /\ Exact(cursor, ranges)
    /\ phase # "between" => Clear(cursor.pos.bytes, ranges)
    /\ Scan => Reads(cursor, ranges)
    /\ phase \in {"scanning", "scanned"} => Clear(saved.pos.bytes, ranges)
    /\ OnTheWay
-----------------------------------------------------------------------------
(* How many elements of a set precede one of them.                         *)

\* The count is a number, all of them when all precede, none when none does.
LEMMA PrecedingType ==
    ASSUME NEW S, IsFiniteSet(S), NEW b
    PROVE /\ Preceding(S, b) \in Nat /\ Cardinality(S) \in Nat
          /\ Preceding(S, b) <= Cardinality(S)
          /\ (\A x \in S : x < b) => Preceding(S, b) = Cardinality(S)
          /\ (\A x \in S : ~(x < b)) => Preceding(S, b) = 0
<1> DEFINE T == {c \in S : c < b}
<1>1. T \in SUBSET S
  OBVIOUS
<1>2. IsFiniteSet(T) /\ Cardinality(T) <= Cardinality(S)
  BY <1>1, FS_Subset
<1>3. (\A x \in S : x < b) => T = S
  OBVIOUS
<1>4. (\A x \in S : ~(x < b)) => T = {}
  OBVIOUS
<1>5. Preceding(S, b) = Cardinality(T)
  BY DEF Preceding
<1> HIDE DEF T
<1> QED
  BY <1>2, <1>3, <1>4, <1>5, FS_CardinalityType, FS_EmptySet

\* Between neighbours it goes up by one.
LEMMA PrecedingNext ==
    ASSUME NEW S \in SUBSET Nat, IsFiniteSet(S), NEW b \in S, NEW d,
           \A x \in S : x <= b <=> x < d
    PROVE Preceding(S, d) = Preceding(S, b) + 1
<1> DEFINE T == {c \in S : c < b}
           U == {c \in S : c < d}
<1>1. T \in SUBSET S
  OBVIOUS
<1>2. IsFiniteSet(T)
  BY <1>1, FS_Subset
<1>3. b \notin T
  OBVIOUS
<1>4. U = T \cup {b}
  <2>1. \A c \in S : c < d <=> c < b \/ c = b
    <3> TAKE c \in S
    <3>1. c \in Nat /\ b \in Nat
      OBVIOUS
    <3> QED
      BY <3>1
  <2> QED
    BY <2>1
<1>5. Preceding(S, b) = Cardinality(T) /\ Preceding(S, d) = Cardinality(U)
  BY DEF Preceding
<1> HIDE DEF T, U
<1> QED
  BY <1>2, <1>3, <1>4, <1>5, FS_AddElement

\* The count tells the elements apart, and is less than all of them.
LEMMA PrecedingLess ==
    ASSUME NEW S \in SUBSET Nat, IsFiniteSet(S), NEW b \in S
    PROVE /\ Preceding(S, b) < Cardinality(S)
          /\ \A d \in Nat : b < d => Preceding(S, b) < Preceding(S, d)
<1> DEFINE T == {c \in S : c < b}
<1>1. T \in SUBSET S /\ b \notin T
  OBVIOUS
<1>2. IsFiniteSet(T) /\ Cardinality(T) \in Nat
  BY <1>1, FS_Subset, FS_CardinalityType
<1>3. Cardinality(T \cup {b}) = Cardinality(T) + 1
  BY <1>1, <1>2, FS_AddElement
<1>4. ASSUME NEW U, IsFiniteSet(U), T \cup {b} \subseteq U
      PROVE Cardinality(T) < Cardinality(U)
  <2>1. T \cup {b} \in SUBSET U
    BY <1>4
  <2>2. Cardinality(T \cup {b}) <= Cardinality(U) /\ Cardinality(U) \in Nat
    BY <1>4, <2>1, FS_Subset, FS_CardinalityType
  <2> HIDE DEF T
  <2> QED
    BY <1>2, <1>3, <2>2
<1>5. Preceding(S, b) = Cardinality(T)
  BY DEF Preceding
<1>6. Preceding(S, b) < Cardinality(S)
  <2>1. T \cup {b} \subseteq S
    OBVIOUS
  <2> HIDE DEF T
  <2> QED
    BY <1>4, <1>5, <2>1
<1>7. ASSUME NEW d \in Nat, b < d PROVE Preceding(S, b) < Preceding(S, d)
  <2> DEFINE U == {c \in S : c < d}
  <2>1. U \in SUBSET S
    OBVIOUS
  <2>2. IsFiniteSet(U)
    BY <2>1, FS_Subset
  <2>3. T \cup {b} \subseteq U
    <3>1. \A c \in T : c < d
      <4> TAKE c \in T
      <4>1. c \in Nat /\ b \in Nat /\ c < b
        OBVIOUS
      <4> QED
        BY <1>7, <4>1
    <3> QED
      BY <1>7, <3>1
  <2>4. Preceding(S, d) = Cardinality(U)
    BY DEF Preceding
  <2> HIDE DEF T, U
  <2> QED
    BY <1>4, <1>5, <2>2, <2>3, <2>4
<1> QED
  BY <1>6, <1>7

\* The text that the abstract lexer reads: its characters are those of the ranges in order.
LEMMA TextAt ==
    ASSUME ranges \in Lists, Starts(ranges) \in SUBSET Nat, IsFiniteSet(Starts(ranges))
    PROVE /\ Chars = Starts(ranges)
          /\ Len(Text) = Cardinality(Starts(ranges))
          /\ \A x \in Starts(ranges) :
                Text[Preceding(Starts(ranges), x) + 1] = Decode(x, N).code
<1> DEFINE S == CharsIn[ranges]
<1>1. S = Starts(ranges) /\ Chars = S
  BY DEF Chars, CharsIn, Starts
<1>2. Text = [k \in 1 .. Cardinality(S) |->
                Decode(CHOOSE b \in S : Preceding(S, b) = k - 1, N).code]
  BY DEF Text, CodesIn
<1> HIDE DEF S
<1>3. Cardinality(S) \in Nat
  BY <1>1, FS_CardinalityType
<1>4. Len(Text) = Cardinality(S)
  BY <1>2, <1>3
<1>5. ASSUME NEW x \in S PROVE Text[Preceding(S, x) + 1] = Decode(x, N).code
  <2>1. Preceding(S, x) \in Nat /\ Preceding(S, x) < Cardinality(S) /\ S \in SUBSET Nat
    BY <1>1, PrecedingType, PrecedingLess
  <2> DEFINE k == Preceding(S, x) + 1
             b == CHOOSE y \in S : Preceding(S, y) = k - 1
  <2>2. k \in 1 .. Cardinality(S) /\ k - 1 = Preceding(S, x)
    BY <1>3, <2>1
  <2>3. b \in S /\ Preceding(S, b) = Preceding(S, x)
    BY <2>2
  <2>4. Text[k] = Decode(b, N).code
    BY <1>2, <2>2
  <2> HIDE DEF b, k
  <2>5. b = x
    <3>1. b \in Nat /\ x \in Nat /\ IsFiniteSet(S)
      BY <1>1, <2>1, <2>3
    <3>2. ~(b < x)
      <4>1. b < x => Preceding(S, b) < Preceding(S, x)
        BY <2>1, <2>3, <3>1, PrecedingLess
      <4> QED
        BY <2>1, <2>3, <4>1
    <3>3. ~(x < b)
      <4>1. x < b => Preceding(S, x) < Preceding(S, b)
        BY <2>1, <2>3, <3>1, PrecedingLess
      <4> QED
        BY <2>1, <2>3, <4>1
    <3> QED
      BY <3>1, <3>2, <3>3
  <2> QED
    BY <2>4, <2>5 DEF k
<1> QED
  BY <1>1, <1>4, <1>5
-----------------------------------------------------------------------------
(* Where characters start.                                                 *)

\* In the range, in the text, and not inside one that starts earlier in the range.
LEMMA CharsOfRange ==
    ASSUME NEW r, r.start \in Nat, r.end \in Nat, NEW b
    PROVE /\ b \in CharsOf(r) =>
                /\ b \in Nat /\ r.start <= b /\ b < r.end /\ b < N
                /\ \A p \in r.start .. b - 1 : p + Decode(p, N).size <= b
          /\ /\ b \in Nat /\ r.start <= b /\ b < r.end /\ b < N
             /\ \A p \in r.start .. b - 1 : p + Decode(p, N).size <= b
             => b \in CharsOf(r)
  BY DEF CharsOf

LEMMA StartsIn ==
    ASSUME NEW rs, RangeList(rs), NEW x \in Starts(rs)
    PROVE /\ x \in Nat /\ x < N
          /\ \E i \in 1 .. Len(rs) :
                x \in CharsOf(rs[i]) /\ rs[i].start <= x /\ x < rs[i].end
<1>1. PICK i \in 1 .. Len(rs) : x \in CharsOf(rs[i])
  BY DEF Starts
<1>2. rs[i].start \in Nat /\ rs[i].end \in Nat
  BY RangeBounds
<1> QED
  BY <1>1, <1>2, CharsOfRange

LEMMA StartsFinite ==
    ASSUME NEW rs, RangeList(rs)
    PROVE Starts(rs) \in SUBSET Nat /\ IsFiniteSet(Starts(rs))
<1>1. N \in Nat
  BY TextAssumption DEF N
<1>2. \A x \in Starts(rs) : x \in Nat /\ x <= N
  BY <1>1, StartsIn
<1> HIDE DEF Starts
<1> QED
  BY <1>1, <1>2, FS_BoundedSetOfNaturals

\* A clear byte of a range is one of them.
LEMMA ClearStarts ==
    ASSUME NEW rs, NEW k \in 1 .. Len(rs), NEW b, Clear(b, rs),
           rs[k].start <= b, b < rs[k].end, b < N
    PROVE b \in CharsOf(rs[k]) /\ b \in Starts(rs)
  BY DEF Clear, Starts

\* So is the first byte of a range,
LEMMA RangeStartClear ==
    ASSUME NEW rs, RangeList(rs), Ordered(rs), NEW k \in 1 .. Len(rs), Used(rs[k])
    PROVE Clear(rs[k].start, rs)
<1> DEFINE b == rs[k].start
<1> SUFFICES ASSUME NEW i \in 1 .. Len(rs), rs[i].start <= b, b < rs[i].end, b < N
             PROVE b \in CharsOf(rs[i])
  BY DEF Clear
<1>1. /\ rs[i].start \in Nat /\ rs[i].end \in Nat
      /\ rs[k].start \in Nat /\ rs[k].end \in Nat /\ rs[k].start < rs[k].end
  BY RangeBounds DEF Used
<1>2. i \in Nat /\ k \in Nat
  BY DEF RangeList
<1>3. ~(i < k) /\ ~(k < i)
  <2>1. i < k => rs[i].end <= rs[k].start
    BY OrderedAll
  <2>2. k < i => rs[k].end <= rs[i].start
    BY OrderedAll
  <2> QED
    BY <1>1, <2>1, <2>2
<1>4. i = k
  BY <1>2, <1>3
<1>5. rs[i].start .. b - 1 = {}
  BY <1>1, <1>4
<1> QED
  BY <1>1, <1>5, CharsOfRange

\* a byte that leads a character, or lies behind the text,
LEMMA LeadingClear ==
    ASSUME NEW rs, RangeList(rs), NEW b \in Nat, b < N => Width[Doc[b + 1]] # 0
    PROVE Clear(b, rs)
<1> SUFFICES ASSUME NEW i \in 1 .. Len(rs), rs[i].start <= b, b < rs[i].end, b < N
             PROVE b \in CharsOf(rs[i])
  BY DEF Clear
<1>1. rs[i].start \in Nat /\ rs[i].end \in Nat /\ N \in Nat
  BY RangeBounds, TextAssumption DEF N
<1>2. ASSUME NEW p \in rs[i].start .. b - 1 PROVE p + Decode(p, N).size <= b
  <2>1. p \in Nat /\ p < b /\ N \in p + 1 .. N
    BY <1>1
  <2> QED
    BY <2>1, DecodeFits
<1> QED
  BY <1>1, <1>2, CharsOfRange

\* and the start of a row.
LEMMA RowStartClear ==
    ASSUME NEW rs, RangeList(rs), NEW b \in Nat
    PROVE Clear(LineStart(b), rs)
<1> DEFINE l == LineStart(b)
<1> SUFFICES ASSUME NEW i \in 1 .. Len(rs), rs[i].start <= l, l < rs[i].end, l < N
             PROVE l \in CharsOf(rs[i])
  BY DEF Clear
<1>1. rs[i].start \in Nat /\ rs[i].end \in Nat /\ N \in Nat /\ l \in 0 .. b
  BY RangeBounds, TextAssumption, LineStartType DEF N
<1>2. l # 0 => Doc[l] = Newline
  BY LineStartType
<1> HIDE DEF l
<1>3. ASSUME NEW p \in rs[i].start .. l - 1 PROVE p + Decode(p, N).size <= l
  <2>1. p \in Nat /\ p < l /\ N \in p + 1 .. N /\ l # 0 /\ l \in Nat
    BY <1>1
  <2>2. Doc[l] = Newline /\ Width[Doc[l]] = 1
    BY <1>2, <2>1, NewlineAssumption
  <2>3. CASE p = l - 1
    <3>1. Doc[p + 1] = Newline
      BY <2>1, <2>2, <2>3
    <3>2. Decode(p, N).size = 1
      BY <3>1, NewlineAssumption DEF Decode
    <3> QED
      BY <2>1, <2>3, <3>2
  <2>4. CASE p # l - 1
    <3>1. l - 1 \in Nat /\ p < l - 1 /\ (l - 1) + 1 = l
      BY <2>1, <2>4
    <3>2. p + Decode(p, N).size <= l - 1
      BY <2>1, <2>2, <3>1, DecodeFits
    <3>3. Decode(p, N).size \in Nat
      BY <2>1, DecodeSees
    <3> QED
      BY <2>1, <3>2, <3>3
  <2> QED
    BY <2>3, <2>4
<1> QED
  BY <1>1, <1>3, CharsOfRange

\* The whole text decodes into characters of at least a byte.
LEMMA SizeType ==
    ASSUME NEW b \in Nat, b < N
    PROVE Decode(b, N).size \in Nat \ {0} /\ b + Decode(b, N).size \in Nat
<1>1. N \in b + 1 .. N
  BY TextAssumption DEF N
<1>2. Decode(b, N).size \in Nat \ {0}
  BY <1>1, DecodeSees
<1> QED
  BY <1>2

\* Inside a character no byte is one by itself.
LEMMA InsideAlone ==
    ASSUME NEW b \in Nat, b < N, NEW p \in b + 1 .. b + Decode(b, N).size - 1
    PROVE Decode(p, N).size = 1
<1> DEFINE w == Width[Doc[b + 1]]
<1>1. N \in Nat /\ N \in b + 1 .. N
  BY TextAssumption DEF N
<1>2. Decode(b, N).size \in Nat
  BY <1>1, DecodeSees
<1>3. Decode(b, N).size # 1
  BY <1>2
<1>4. /\ Decode(b, N).size = w
      /\ \A i \in 1 .. w - 1 : Width[Doc[b + 1 + i]] = 0
  BY <1>3 DEF Decode
<1>5. p - b \in 1 .. w - 1 /\ b + 1 + (p - b) = p + 1
  BY <1>2, <1>4
<1>6. Width[Doc[p + 1]] = 0
  BY <1>4, <1>5
<1> QED
  BY <1>6 DEF Decode

\* The characters behind the one at b: the next in the range starts where that one ends, or
\* later, and those of another range start behind the end of this one.
LEMMA Following ==
    ASSUME NEW rs, RangeList(rs), Ordered(rs), NEW k \in 1 .. Len(rs),
           NEW b \in CharsOf(rs[k]), NEW x \in Starts(rs), b < x
    PROVE \/ b + Decode(b, N).size <= x /\ x < rs[k].end
          \/ \E i \in 1 .. Len(rs) : /\ k < i /\ Used(rs[i]) /\ rs[i].start <= x
                                     /\ rs[k].end <= rs[i].start
<1>1. PICK i \in 1 .. Len(rs) : x \in CharsOf(rs[i]) /\ rs[i].start <= x /\ x < rs[i].end
  BY StartsIn
<1>2. /\ rs[i].start \in Nat /\ rs[i].end \in Nat
      /\ rs[k].start \in Nat /\ rs[k].end \in Nat
  BY RangeBounds
<1>3. x \in Nat /\ b \in Nat /\ rs[k].start <= b /\ b < rs[k].end
  BY <1>2, StartsIn, CharsOfRange
<1>4. i \in Nat /\ k \in Nat
  BY DEF RangeList
<1>5. CASE i < k
  <2>1. rs[i].end <= rs[k].start
    BY <1>5, OrderedAll
  <2> QED
    BY <1>1, <1>2, <1>3, <2>1
<1>6. CASE i = k
  <2>1. b \in rs[i].start .. x - 1
    BY <1>2, <1>3, <1>6
  <2>2. \A p \in rs[i].start .. x - 1 : p + Decode(p, N).size <= x
    BY <1>1, <1>2, CharsOfRange
  <2> QED
    BY <1>1, <1>6, <2>1, <2>2
<1>7. CASE k < i
  <2>1. rs[k].end <= rs[i].start
    BY <1>7, OrderedAll
  <2>2. Used(rs[i])
    BY <1>1, <1>2, <1>3 DEF Used
  <2> QED
    BY <1>1, <1>7, <2>1, <2>2
<1> QED
  BY <1>4, <1>5, <1>6, <1>7

\* In the same range the next character is where this one ends,
LEMMA NextInRange ==
    ASSUME NEW rs, RangeList(rs), Ordered(rs), NEW k \in 1 .. Len(rs),
           NEW b \in CharsOf(rs[k]), b + Decode(b, N).size < rs[k].end
    PROVE /\ Clear(b + Decode(b, N).size, rs)
          /\ NextRank(b, b + Decode(b, N).size, rs)
<1> DEFINE e == b + Decode(b, N).size
<1>1. /\ rs[k].start \in Nat /\ rs[k].end \in Nat /\ b \in Nat
      /\ rs[k].start <= b /\ b < rs[k].end /\ b < N
      /\ \A p \in rs[k].start .. b - 1 : p + Decode(p, N).size <= b
  <2>1. rs[k].start \in Nat /\ rs[k].end \in Nat
    BY RangeBounds
  <2> QED
    BY <2>1, CharsOfRange
<1>2. N \in Nat /\ N \in b + 1 .. N
  BY <1>1, TextAssumption DEF N
<1>3. e \in Nat /\ b < e /\ Decode(b, N).size \in Nat
  BY <1>1, <1>2, DecodeSees
<1>4. ASSUME NEW p \in rs[k].start .. e - 1 PROVE p + Decode(p, N).size <= e
  <2>1. p \in Nat /\ p < e
    BY <1>1, <1>3
  <2>2. CASE p < b
    <3>1. p + Decode(p, N).size <= b
      BY <1>1, <2>1, <2>2
    <3>2. Decode(p, N).size \in Nat
      <4>1. N \in p + 1 .. N
        BY <1>1, <1>2, <2>1, <2>2
      <4> QED
        BY <2>1, <4>1, DecodeSees
    <3> HIDE DEF e
    <3> QED
      BY <1>1, <1>3, <2>1, <3>1, <3>2
  <2>3. CASE p = b
    BY <1>3, <2>3
  <2>4. CASE b < p
    <3>1. p \in b + 1 .. b + Decode(b, N).size - 1
      BY <1>1, <1>3, <2>1, <2>4
    <3>2. Decode(p, N).size = 1
      BY <1>1, <3>1, InsideAlone
    <3> HIDE DEF e
    <3> QED
      BY <1>3, <2>1, <3>2
  <2> QED
    BY <1>1, <2>1, <2>2, <2>3, <2>4
<1>5. Clear(e, rs)
  <2> SUFFICES ASSUME NEW i \in 1 .. Len(rs), rs[i].start <= e, e < rs[i].end, e < N
               PROVE e \in CharsOf(rs[i])
    BY DEF Clear
  <2>1. rs[i].start \in Nat /\ rs[i].end \in Nat /\ i \in Nat /\ k \in Nat
    BY RangeBounds DEF RangeList
  <2>2. i < k => rs[i].end <= rs[k].start
    BY OrderedAll
  <2>3. k < i => rs[k].end <= rs[i].start
    BY OrderedAll
  <2> HIDE DEF e
  <2>4. i = k
    <3>1. e < rs[k].end
      BY DEF e
    <3> QED
      BY <1>1, <1>3, <2>1, <2>2, <2>3, <3>1
  <2> QED
    BY <1>1, <1>3, <1>4, <2>4, CharsOfRange
<1>6. NextRank(b, e, rs)
  <2> SUFFICES ASSUME NEW x \in Starts(rs) PROVE x <= b <=> x < e
    BY DEF NextRank
  <2>1. x \in Nat
    BY StartsIn
  <2>2. b < x => e <= x
    <3> SUFFICES ASSUME b < x PROVE e <= x
      OBVIOUS
    <3>1. \/ e <= x /\ x < rs[k].end
          \/ \E i \in 1 .. Len(rs) : /\ k < i /\ Used(rs[i]) /\ rs[i].start <= x
                                     /\ rs[k].end <= rs[i].start
      BY Following
    <3>2. \A i \in 1 .. Len(rs) : rs[i].start \in Nat
      BY RangeBounds
    <3>3. e < rs[k].end
      OBVIOUS
    <3> HIDE DEF e
    <3> QED
      BY <1>1, <1>3, <2>1, <3>1, <3>2, <3>3
  <2> HIDE DEF e
  <2> QED
    BY <1>1, <1>3, <2>1, <2>2
<1> QED
  BY <1>5, <1>6

\* at the start of the next range that is not empty when it ends beyond this one,
LEMMA NextInLater ==
    ASSUME NEW rs, RangeList(rs), Ordered(rs), NEW k \in 1 .. Len(rs),
           NEW b \in CharsOf(rs[k]), ~(b + Decode(b, N).size < rs[k].end),
           NEW j \in 1 .. Len(rs), k < j, Used(rs[j]),
           \A i \in k + 1 .. Len(rs) : Used(rs[i]) => j <= i
    PROVE NextRank(b, rs[j].start, rs)
<1> SUFFICES ASSUME NEW x \in Starts(rs) PROVE x <= b <=> x < rs[j].start
  BY DEF NextRank
<1>1. /\ rs[k].start \in Nat /\ rs[k].end \in Nat /\ b \in Nat /\ b < rs[k].end /\ b < N
      /\ rs[j].start \in Nat /\ rs[k].end <= rs[j].start
  <2>1. rs[k].start \in Nat /\ rs[k].end \in Nat /\ rs[j].start \in Nat
    BY RangeBounds
  <2>2. rs[k].end <= rs[j].start
    BY OrderedAll
  <2> QED
    BY <2>1, <2>2, CharsOfRange
<1>2. x \in Nat
  BY StartsIn
<1>3. b + Decode(b, N).size \in Nat
  BY <1>1, SizeType
<1>4. b < x => rs[j].start <= x
  <2> SUFFICES ASSUME b < x PROVE rs[j].start <= x
    OBVIOUS
  <2>1. PICK i \in 1 .. Len(rs) : k < i /\ Used(rs[i]) /\ rs[i].start <= x
    <3>1. \/ b + Decode(b, N).size <= x /\ x < rs[k].end
          \/ \E i \in 1 .. Len(rs) : /\ k < i /\ Used(rs[i]) /\ rs[i].start <= x
                                     /\ rs[k].end <= rs[i].start
      BY Following
    <3> QED
      BY <1>1, <1>2, <1>3, <3>1
  <2>2. i \in k + 1 .. Len(rs) /\ i \in Nat /\ j \in Nat
    BY <2>1 DEF RangeList
  <2>3. j <= i
    BY <2>1, <2>2
  <2>4. i # j => rs[j].end <= rs[i].start
    BY <2>2, <2>3, OrderedAll
  <2>5. rs[i].start \in Nat /\ rs[j].end \in Nat /\ rs[j].start <= rs[j].end
    BY RangeBounds DEF Ordered
  <2> QED
    BY <1>1, <1>2, <2>1, <2>4, <2>5
<1> QED
  BY <1>1, <1>2, <1>4

\* and when no such range is left there is none.
LEMMA NoNext ==
    ASSUME NEW rs, RangeList(rs), Ordered(rs), NEW k \in 1 .. Len(rs),
           NEW b \in CharsOf(rs[k]), ~(b + Decode(b, N).size < rs[k].end),
           \A i \in k + 1 .. Len(rs) : ~Used(rs[i])
    PROVE \A x \in Starts(rs) : x <= b
<1> SUFFICES ASSUME NEW x \in Starts(rs), b < x PROVE FALSE
  <2>1. \A x \in Starts(rs) : x \in Nat
    BY StartsIn
  <2>2. rs[k].start \in Nat /\ rs[k].end \in Nat
    BY RangeBounds
  <2>3. b \in Nat
    BY <2>2, CharsOfRange
  <2> QED
    BY <2>1, <2>3
<1>1. rs[k].start \in Nat /\ rs[k].end \in Nat
  BY RangeBounds
<1>2. b \in Nat /\ b < N /\ x \in Nat
  BY <1>1, CharsOfRange, StartsIn
<1>3. b + Decode(b, N).size \in Nat
  BY <1>2, SizeType
<1>4. \/ b + Decode(b, N).size <= x /\ x < rs[k].end
      \/ \E i \in 1 .. Len(rs) : k < i /\ Used(rs[i])
  BY Following
<1>5. ~(\E i \in 1 .. Len(rs) : k < i /\ Used(rs[i]))
  <2>1. \A i \in 1 .. Len(rs) : k < i => i \in k + 1 .. Len(rs)
    BY DEF RangeList
  <2> QED
    BY <2>1
<1> QED
  BY <1>1, <1>2, <1>3, <1>4, <1>5

\* At the end no character is left.
LEMMA OverAll ==
    ASSUME NEW rs, RangeList(rs), NEW b \in Nat,
           N <= b \/ \A i \in 1 .. Len(rs) : rs[i].end <= b
    PROVE (\A x \in Starts(rs) : x < b) /\ Clear(b, rs)
<1>1. N \in Nat /\ \A i \in 1 .. Len(rs) : rs[i].start \in Nat /\ rs[i].end \in Nat
  BY RangeBounds, TextAssumption DEF N
<1>2. ASSUME NEW x \in Starts(rs) PROVE x < b
  <2>1. PICK i \in 1 .. Len(rs) : x < rs[i].end
    BY StartsIn
  <2>2. x \in Nat /\ x < N
    BY StartsIn
  <2> QED
    BY <1>1, <2>1, <2>2
<1>3. Clear(b, rs)
  BY <1>1 DEF Clear
<1> QED
  BY <1>2, <1>3
-----------------------------------------------------------------------------
(* What the methods make of it.                                            *)

\* gotoPosition passes over no character, and comes to one, or to the end.
LEMMA GotoLands ==
    ASSUME NEW rs, RangeList(rs), Ordered(rs), NEW c \in Cursor,
           NEW place \in Place, place.col <= place.bytes
    PROVE LET d == Goto(c, place, rs)
          IN /\ Over(d, rs) /\ Exact(d, rs) /\ d.ahead.code = Nul
             /\ d.pos.bytes \in Nat
             /\ SameRank(place.bytes, d.pos.bytes, rs)
             /\ Clear(place.bytes, rs) => Clear(d.pos.bytes, rs)
<1> DEFINE b == place.bytes
           later == {i \in 1 .. Len(rs) : rs[i].end > b /\ Used(rs[i])}
           i == LeastOf(later)
           at == IF rs[i].start >= b THEN PlaceOf(rs[i].start) ELSE place
           column == IF b # c.pos.bytes THEN NoColumn ELSE c.column
           kept == c.chunk.start <= at.bytes /\ at.bytes < c.chunk.start + c.chunk.len
           chunk == IF kept THEN c.chunk ELSE NoChunk
           d == Goto(c, place, rs)
<1>1. Len(rs) \in Nat /\ Len(rs) >= 1 /\ End(rs) = Len(rs) + 1
  BY DEF RangeList, End
<1>2. \A j \in 1 .. Len(rs) : rs[j].start \in Nat /\ rs[j].end \in Nat
  BY RangeBounds
<1>3. b \in Nat
  BY DEF Place
<1>4. CASE later # {}
  <2>1. later \in SUBSET Nat
    BY <1>1
  <2>2. i \in later /\ \A y \in later : i <= y
    BY <1>4, <2>1, LeastExists
  <2>3. i \in 1 .. Len(rs) /\ rs[i].end > b /\ Used(rs[i])
    BY <2>2
  <2>4. d = [pos |-> at, index |-> i, chunk |-> chunk, ahead |-> NothingAhead,
             column |-> column]
    BY <1>4 DEF Goto
  <2>5. at.bytes = IF rs[i].start >= b THEN rs[i].start ELSE b
    BY <1>2, <2>3, PlaceOfType
  <2>6. \A j \in 1 .. Len(rs) : j < i => rs[j].end <= b \/ ~Used(rs[j])
    <3> TAKE j \in 1 .. Len(rs)
    <3> HAVE j < i
    <3>1. j \in later => i <= j
      BY <2>2
    <3>2. j \notin later
      BY <1>1, <2>3, <3>1
    <3> QED
      BY <1>2, <1>3, <3>2
  <2> HIDE DEF i, at, chunk, column, later
  <2>7. d.pos = at /\ d.index # End(rs) /\ d.ahead.size = 0 /\ d.ahead.code = Nul
    BY <1>1, <2>3, <2>4 DEF NothingAhead
  <2> HIDE DEF d
  <2>8. SameRank(b, at.bytes, rs)
    <3> SUFFICES ASSUME NEW x \in Starts(rs) PROVE x < b <=> x < at.bytes
      BY DEF SameRank
    <3>1. PICK j \in 1 .. Len(rs) : rs[j].start <= x /\ x < rs[j].end
      BY StartsIn
    <3>2. x \in Nat
      BY StartsIn
    <3>3. Used(rs[j])
      BY <1>2, <3>1, <3>2 DEF Used
    <3>4. i < j => rs[i].end <= rs[j].start
      BY <2>3, OrderedAll
    <3>5. i \in Nat /\ j \in Nat /\ rs[i].start <= rs[i].end
      BY <1>1, <2>3 DEF Ordered
    <3> QED
      BY <1>2, <1>3, <2>3, <2>5, <2>6, <3>1, <3>2, <3>3, <3>4, <3>5
  <2>9. Clear(b, rs) => Clear(at.bytes, rs)
    BY <2>3, <2>5, RangeStartClear
  <2>10. at.bytes \in Nat
    BY <1>2, <1>3, <2>3, <2>5
  <2> QED
    BY <2>7, <2>8, <2>9, <2>10 DEF Over, Exact, b, d
<1>5. CASE later = {}
  <2> DEFINE e == rs[Len(rs)].end
  <2>1. d = [pos |-> PlaceOf(e), index |-> End(rs), chunk |-> NoChunk, ahead |-> AtEnd,
             column |-> column]
    BY <1>5 DEF Goto
  <2>2. e \in Nat /\ PlaceOf(e).bytes = e
    BY <1>1, <1>2, PlaceOfType
  <2>3. \A j \in 1 .. Len(rs) : rs[j].end <= b \/ ~Used(rs[j])
    BY <1>2, <1>3, <1>5
  <2> HIDE DEF column, later
  <2>4. d.pos.bytes = e /\ d.index = End(rs) /\ d.ahead.code = Nul
    BY <2>1, <2>2 DEF AtEnd
  <2> HIDE DEF d
  <2>5. \A j \in 1 .. Len(rs) : rs[j].end <= e
    <3> TAKE j \in 1 .. Len(rs)
    <3>1. j = Len(rs) \/ j < Len(rs)
      BY <1>1
    <3>2. j < Len(rs) => rs[j].end <= rs[Len(rs)].start
      BY <1>1, OrderedAll
    <3>3. rs[Len(rs)].start <= e
      BY <1>1 DEF Ordered
    <3> QED
      BY <1>1, <1>2, <3>1, <3>2, <3>3
  <2>6. (\A x \in Starts(rs) : x < e) /\ Clear(e, rs)
    BY <2>2, <2>5, OverAll
  <2>7. ASSUME NEW x \in Starts(rs) PROVE x < b
    <3>1. PICK j \in 1 .. Len(rs) : rs[j].start <= x /\ x < rs[j].end
      BY StartsIn
    <3>2. x \in Nat
      BY StartsIn
    <3>3. Used(rs[j])
      BY <1>2, <3>1, <3>2 DEF Used
    <3> QED
      BY <1>2, <1>3, <2>3, <3>1, <3>2, <3>3
  <2>8. SameRank(b, e, rs)
    BY <2>6, <2>7 DEF SameRank
  <2> HIDE DEF e
  <2> QED
    BY <2>2, <2>4, <2>5, <2>6, <2>8 DEF Over, Exact, b, d
<1> QED
  BY <1>4, <1>5

\* A character that a chunk holds, or could hold as far as it goes, is seen as it is.
LEMMA DecodeExact ==
    ASSUME Readable, NEW b \in Nat, NEW limit \in b + 1 .. N,
           limit = N \/ limit - b >= 4 \/ Decode(b, limit).code # Bad
    PROVE Decode(b, limit) = Decode(b, N)
<1> DEFINE c == Doc[b + 1]
           w == Width[c]
           inner == \A i \in 1 .. w - 1 : Width[Doc[b + 1 + i]] = 0
<1>1. N \in Nat /\ limit \in Nat /\ limit <= N /\ b + 1 <= N
  BY TextAssumption DEF N
<1>2. c \in Codes /\ w \in Nat /\ w <= 4
  <2>1. c \in Codes
    BY <1>1, TextAssumption DEF N
  <2> QED
    BY <2>1, TextAssumption DEF Readable
<1>3. \A m : Decode(b, m) = IF w >= 1 /\ b + w <= m /\ inner
                            THEN [code |-> c, size |-> w] ELSE [code |-> Bad, size |-> 1]
  BY DEF Decode
<1> HIDE DEF c, w, inner
<1> QED
  BY <1>1, <1>2, <1>3

\* getChunk starts a chunk at the position; it is short at the end of the text only.
LEMMA GetChunkIs ==
    ASSUME RangeList(ranges), NEW c \in Cursor
    PROVE LET d == GetChunk(c)
          IN /\ d \in Cursor /\ d.pos = c.pos /\ d.ahead = c.ahead
             /\ d.chunk.start = c.pos.bytes /\ d.chunk.len \in Nat
             /\ N <= c.pos.bytes => d.index = End(ranges) /\ d.chunk.len = 0
             /\ c.pos.bytes < N =>
                   /\ d.index = c.index /\ d.chunk.len # 0
                   /\ c.pos.bytes + d.chunk.len <= N
                   /\ Readable /\ d.chunk.len < 4 => c.pos.bytes + d.chunk.len = N
<1> DEFINE left == IF c.pos.bytes < N THEN N - c.pos.bytes ELSE 0
           n == IF left < ChunkSize THEN left ELSE ChunkSize
           d == GetChunk(c)
<1>1. N \in Nat /\ c.pos.bytes \in Nat /\ End(ranges) \in Nat
  BY TextAssumption DEF N, Cursor, Place, End, RangeList
<1>2. /\ n \in Nat /\ (N <= c.pos.bytes => n = 0)
      /\ c.pos.bytes < N => /\ n # 0 /\ c.pos.bytes + n <= N
                            /\ n < ChunkSize => c.pos.bytes + n = N
  BY <1>1, ChunkAssumption
<1>3. d = [c EXCEPT !.chunk = [start |-> c.pos.bytes, len |-> n],
                    !.index = IF n = 0 THEN End(ranges) ELSE c.index]
  BY DEF GetChunk
<1> HIDE DEF left, n, d
<1>4. /\ d \in Cursor /\ d.pos = c.pos /\ d.ahead = c.ahead
      /\ d.chunk = [start |-> c.pos.bytes, len |-> n]
      /\ d.index = IF n = 0 THEN End(ranges) ELSE c.index
  BY <1>1, <1>2, <1>3 DEF Cursor
<1>5. Readable => (n < 4 => n < ChunkSize)
  BY <1>2, ChunkAssumption DEF Readable
<1> QED
  BY <1>1, <1>2, <1>4, <1>5 DEF d

\* getLookahead finds what the whole text has at the position, with a new chunk where the
\* one it has may cut it; behind the text, nothing.
LEMMA GetLookaheadExact ==
    ASSUME Readable, RangeList(ranges), NEW c \in Cursor,
           c.index # End(ranges) =>
              InChunk(c) /\ Chunked(c) /\ c.chunk.start + c.chunk.len <= N,
           c.index = End(ranges) =>
              N <= c.pos.bytes /\ c.pos.bytes = c.chunk.start + c.chunk.len
    PROVE LET d == GetLookahead(c)
          IN /\ d.pos = c.pos /\ d.index = c.index
             /\ Over(d, ranges) /\ Exact(d, ranges) /\ Reads(d, ranges)
<1> DEFINE limit == c.chunk.start + c.chunk.len
           seen == Decode(c.pos.bytes, limit)
           next == GetChunk(c)
           limit2 == next.chunk.start + next.chunk.len
           d == GetLookahead(c)
           b == c.pos.bytes
<1>1. /\ limit \in Nat /\ b \in Nat /\ N \in Nat /\ c.chunk.start \in Nat /\ c.chunk.len \in Nat
  BY TextAssumption DEF Cursor, Place, N
<1>2. CASE c.index = End(ranges)
  <2>1. d = [c EXCEPT !.ahead = AtEnd]
    BY <1>2 DEF GetLookahead
  <2> HIDE DEF d
  <2>2. d.pos = c.pos /\ d.index = c.index /\ d.ahead.code = Nul
    BY <2>1 DEF Cursor, AtEnd
  <2> QED
    BY <1>2, <2>2 DEF Over, Exact, Reads, d
<1>3. CASE c.index # End(ranges)
  <2>1. b < limit /\ limit <= N /\ limit \in b + 1 .. N
    BY <1>1, <1>3 DEF InChunk
  <2>2. CASE seen.code = Bad /\ limit - b < 4
    <3>1. /\ next \in Cursor /\ next.pos = c.pos /\ next.index = c.index
          /\ next.chunk.start = b /\ next.chunk.len \in Nat /\ next.chunk.len # 0
          /\ b + next.chunk.len <= N /\ (next.chunk.len < 4 => b + next.chunk.len = N)
      BY <1>1, <2>1, GetChunkIs
    <3>2. d = [next EXCEPT !.ahead = Decode(b, limit2)]
      BY <2>1, <2>2 DEF GetLookahead
    <3>3. /\ limit2 \in b + 1 .. N
          /\ limit2 = N \/ limit2 - b >= 4
      <4>1. limit2 = b + next.chunk.len
        BY <3>1
      <4> HIDE DEF next, limit2, b
      <4>2. \A m \in Nat : m # 0 /\ b + m <= N /\ (m < 4 => b + m = N) =>
               b + m \in b + 1 .. N /\ (b + m = N \/ (b + m) - b >= 4)
        BY <1>1
      <4>3. /\ b + next.chunk.len \in b + 1 .. N
            /\ b + next.chunk.len = N \/ (b + next.chunk.len) - b >= 4
        BY <3>1, <4>2
      <4> QED
        BY <4>1, <4>3
    <3>4. Decode(b, limit2) = Decode(b, N)
      BY <1>1, <3>3, DecodeExact
    <3> HIDE DEF limit2, d
    <3>5. /\ d.pos = c.pos /\ d.index = c.index /\ d.ahead = Decode(b, N)
          /\ d.chunk = next.chunk
      BY <3>1, <3>2, <3>4 DEF Cursor
    <3>6. Decode(b, N).size # 0
      BY <1>1, <2>1, SizeType
    <3> HIDE DEF next
    <3> QED
      BY <1>3, <3>1, <3>5, <3>6 DEF Over, Exact, Reads, Chunked, d
  <2>3. CASE ~(seen.code = Bad /\ limit - b < 4)
    <3>1. d = [c EXCEPT !.ahead = seen]
      BY <1>1, <2>1, <2>3 DEF GetLookahead
    <3>2. seen = Decode(b, N)
      BY <1>1, <2>1, <2>3, DecodeExact
    <3> HIDE DEF seen, d
    <3>3. d.pos = c.pos /\ d.index = c.index /\ d.ahead = Decode(b, N) /\ d.chunk = c.chunk
      BY <3>1, <3>2 DEF Cursor
    <3>4. Decode(b, N).size # 0
      BY <1>1, <2>1, SizeType
    <3> QED
      BY <1>3, <3>3, <3>4 DEF Over, Exact, Reads, Chunked, d
  <2> QED
    BY <2>2, <2>3
<1> QED
  BY <1>2, <1>3

\* Behind a character doAdvance comes to the next one, in its range or a later one, or to the
\* end behind all of them.
LEMMA InNextRangeLands ==
    ASSUME RangeList(ranges), Ordered(ranges), NEW c \in Cursor,
           c.index \in 1 .. Len(ranges), NEW b \in CharsOf(ranges[c.index]),
           c.pos.bytes = b + Decode(b, N).size
    PROVE LET d == InNextRange(c)
          IN /\ NextRank(b, d.pos.bytes, ranges) /\ Clear(d.pos.bytes, ranges)
             /\ d.index = End(ranges) => \A i \in 1 .. Len(ranges) : ranges[i].end <= d.pos.bytes
<1> DEFINE k == c.index
           later == {i \in k + 1 .. Len(ranges) : Used(ranges[i])}
           j == LeastOf(later)
           d == InNextRange(c)
           e == b + Decode(b, N).size
<1>1. /\ Len(ranges) \in Nat /\ k \in Nat /\ k \in 1 .. Len(ranges)
      /\ End(ranges) = Len(ranges) + 1
  BY DEF RangeList, End
<1>2. \A i \in 1 .. Len(ranges) : ranges[i].start \in Nat /\ ranges[i].end \in Nat
  BY RangeBounds
<1>3. /\ b \in Nat /\ b < N /\ ranges[k].start <= b /\ b < ranges[k].end /\ Used(ranges[k])
  BY <1>1, <1>2, CharsOfRange DEF Used
<1>4. e \in Nat /\ c.pos.bytes = e /\ b < e
  BY <1>3, SizeType
<1>5. CASE e < ranges[k].end
  <2>1. d = c
    BY <1>3, <1>4, <1>5 DEF InNextRange
  <2>2. Clear(e, ranges) /\ NextRank(b, e, ranges)
    BY <1>1, <1>5, NextInRange
  <2> HIDE DEF d, e
  <2> QED
    BY <1>1, <1>4, <2>1, <2>2 DEF d
<1>6. CASE ~(e < ranges[k].end) /\ later # {}
  <2>1. later \in SUBSET Nat
    BY <1>1
  <2>2. j \in later /\ \A y \in later : j <= y
    BY <1>6, <2>1, LeastExists
  <2>3. /\ j \in 1 .. Len(ranges) /\ k < j /\ Used(ranges[j])
        /\ \A i \in k + 1 .. Len(ranges) : Used(ranges[i]) => j <= i
    BY <1>1, <2>2
  <2>4. d = [c EXCEPT !.index = j, !.pos = PlaceOf(ranges[j].start)]
    BY <1>1, <1>4, <1>6 DEF InNextRange, EOF
  <2> HIDE DEF j, later, d
  <2>5. d.index = j /\ d.pos = PlaceOf(ranges[j].start)
    BY <2>4 DEF Cursor
  <2>6. d.pos.bytes = ranges[j].start
    BY <1>2, <2>3, <2>5, PlaceOfType
  <2>7. NextRank(b, ranges[j].start, ranges)
    BY <1>1, <1>6, <2>3, NextInLater
  <2>8. Clear(ranges[j].start, ranges)
    BY <2>3, RangeStartClear
  <2>9. d.index # End(ranges)
    BY <1>1, <2>3, <2>5
  <2> QED
    BY <2>6, <2>7, <2>8, <2>9 DEF d
<1>7. CASE ~(e < ranges[k].end) /\ later = {}
  <2> DEFINE last == ranges[Len(ranges)]
             pos == IF k < Len(ranges) THEN PlaceOf(last.start) ELSE c.pos
  <2>1. d = [c EXCEPT !.index = End(ranges), !.pos = pos]
    BY <1>1, <1>4, <1>7 DEF InNextRange, EOF
  <2>2. \A i \in k + 1 .. Len(ranges) : ~Used(ranges[i])
    BY <1>7
  <2>3. \A x \in Starts(ranges) : x <= b
    BY <1>1, <1>7, <2>2, NoNext
  <2> HIDE DEF d, later
  <2>4. d.pos = pos
    BY <2>1 DEF Cursor
  <2>5. pos.bytes \in Nat /\ \A i \in 1 .. Len(ranges) : ranges[i].end <= pos.bytes
    <3>1. Len(ranges) \in 1 .. Len(ranges)
      BY <1>1
    <3>2. \A i \in 1 .. Len(ranges) : ranges[i].end <= last.end
      <4> TAKE i \in 1 .. Len(ranges)
      <4>1. i < Len(ranges) => ranges[i].end <= last.start
        BY <3>1, OrderedAll
      <4>2. last.start <= last.end
        BY <3>1 DEF Ordered
      <4>3. i = Len(ranges) \/ i < Len(ranges)
        BY <1>1
      <4> QED
        BY <1>2, <3>1, <4>1, <4>2, <4>3
    <3>3. CASE k < Len(ranges)
      <4>1. ~Used(last)
        BY <1>1, <2>2, <3>3
      <4>2. last.end <= last.start /\ last.start \in Nat /\ last.end \in Nat
        BY <1>2, <3>1, <4>1 DEF Used
      <4>3. pos.bytes = last.start
        BY <3>3, <4>2, PlaceOfType
      <4> HIDE DEF last, pos
      <4> QED
        BY <1>2, <3>2, <4>2, <4>3
    <3>4. CASE ~(k < Len(ranges))
      <4>1. k = Len(ranges) /\ pos.bytes = e
        BY <1>1, <1>4, <3>4
      <4>2. last.end <= e /\ last.end \in Nat
        BY <1>2, <1>4, <1>7, <4>1
      <4> HIDE DEF last, pos, e
      <4> QED
        BY <1>2, <1>4, <3>2, <4>1, <4>2
    <3> QED
      BY <3>3, <3>4
  <2> HIDE DEF pos
  <2>6. (\A x \in Starts(ranges) : x < pos.bytes) /\ Clear(pos.bytes, ranges)
    BY <2>5, OverAll
  <2>7. NextRank(b, pos.bytes, ranges)
    BY <2>3, <2>6 DEF NextRank
  <2> QED
    BY <2>4, <2>5, <2>6, <2>7 DEF d
<1> QED
  BY <1>5, <1>6, <1>7

\* A cursor that has read something stands at a character.
LEMMA AtCharacter ==
    ASSUME RangeList(ranges), NEW c, Good(c, ranges), ~EOF(c), Exact(c, ranges),
           c.ahead.size # 0, Clear(c.pos.bytes, ranges)
    PROVE /\ c.index \in 1 .. Len(ranges) /\ Chunked(c) /\ c.ahead = Decode(c.pos.bytes, N)
          /\ c.pos.bytes \in Nat /\ c.pos.bytes < N
          /\ c.pos.bytes \in CharsOf(ranges[c.index]) /\ c.pos.bytes \in Starts(ranges)
<1>1. c \in Cursor /\ c.index \in 1 .. Len(ranges) /\ c.index # End(ranges)
  BY DEF Good, EOF, End, RangeList
<1>2. Chunked(c) /\ c.ahead = Decode(c.pos.bytes, N)
  BY <1>1 DEF Exact
<1>3. /\ c.pos.bytes \in Nat /\ N \in Nat /\ c.chunk.start \in Nat /\ c.chunk.len \in Nat
  BY <1>1, TextAssumption DEF Cursor, Place, N
<1>4. c.chunk.start + c.chunk.len <= N /\ InChunk(c)
  BY <1>1, <1>2 DEF Good, Covered
<1>5. c.pos.bytes < N
  BY <1>3, <1>4 DEF InChunk
<1>6. ranges[c.index].start <= c.pos.bytes /\ c.pos.bytes < ranges[c.index].end
  BY <1>1 DEF Good, Placed
<1> QED
  BY <1>1, <1>2, <1>3, <1>5, <1>6, ClearStarts

\* Reading with a new chunk.
LEMMA ReadsAfresh ==
    ASSUME Readable, RangeList(ranges), NEW c \in Cursor, c.index # End(ranges)
    PROVE LET d == GetLookahead(GetChunk(c))
          IN d.pos = c.pos /\ Over(d, ranges) /\ Exact(d, ranges) /\ Reads(d, ranges)
<1> DEFINE g == GetChunk(c)
<1>1. c.pos.bytes \in Nat /\ N \in Nat
  BY TextAssumption DEF Cursor, Place, N
<1>2. /\ g \in Cursor /\ g.pos = c.pos /\ g.chunk.start = c.pos.bytes /\ g.chunk.len \in Nat
      /\ N <= c.pos.bytes => g.index = End(ranges) /\ g.chunk.len = 0
      /\ c.pos.bytes < N => /\ g.index = c.index /\ g.chunk.len # 0
                            /\ c.pos.bytes + g.chunk.len <= N
  BY GetChunkIs
<1> HIDE DEF g
<1>3. /\ g.index # End(ranges) =>
            InChunk(g) /\ Chunked(g) /\ g.chunk.start + g.chunk.len <= N
      /\ g.index = End(ranges) =>
            N <= g.pos.bytes /\ g.pos.bytes = g.chunk.start + g.chunk.len
  BY <1>1, <1>2 DEF InChunk, Chunked
<1>4. LET d == GetLookahead(g)
      IN /\ d.pos = g.pos /\ d.index = g.index
         /\ Over(d, ranges) /\ Exact(d, ranges) /\ Reads(d, ranges)
  BY <1>2, <1>3, GetLookaheadExact
<1> QED
  BY <1>2, <1>4 DEF g

\* doAdvance goes on by one character, however the chunks and ranges lie.
LEMMA DoAdvanceReads ==
    ASSUME Readable, RangeList(ranges), Ordered(ranges), NEW c, Good(c, ranges), ~EOF(c),
           Exact(c, ranges), c.ahead.size # 0, Clear(c.pos.bytes, ranges)
    PROVE LET d == DoAdvance(c)
          IN /\ Over(d, ranges) /\ Exact(d, ranges) /\ Reads(d, ranges)
             /\ Clear(d.pos.bytes, ranges)
             /\ NextRank(c.pos.bytes, d.pos.bytes, ranges)
<1> DEFINE p == Passed(c)
           d == InNextRange(p)
           e == IF InChunk(d) THEN d ELSE GetChunk(d)
           b == c.pos.bytes
           f == DoAdvance(c)
<1>1. /\ c.index \in 1 .. Len(ranges) /\ Chunked(c) /\ c.ahead = Decode(b, N)
      /\ b \in Nat /\ b < N /\ b \in CharsOf(ranges[c.index])
  BY AtCharacter
<1>2. c \in Cursor /\ c.pos.col <= c.pos.bytes /\ c.chunk.start + c.chunk.len <= N
  BY <1>1 DEF Good, Covered
<1>3. /\ p \in Cursor /\ p.pos.col <= p.pos.bytes
      /\ p.index = c.index /\ p.chunk = c.chunk
  BY <1>2, PassedType
<1>4. p.pos.bytes = b + Decode(b, N).size
  BY <1>1, <1>2 DEF Passed, Cursor
<1>5. p.index \in 1 .. End(ranges) /\ (~EOF(p) => ranges[p.index].start <= p.pos.bytes)
  <2>1. p.pos.bytes \in Nat /\ b <= p.pos.bytes
    BY <1>1, <1>4, SizeType
  <2>2. ranges[c.index].start \in Nat /\ ranges[c.index].end \in Nat
    BY <1>1, RangeBounds
  <2>3. ranges[c.index].start <= b
    BY <1>1, <2>2, CharsOfRange
  <2> HIDE DEF p
  <2> QED
    BY <1>1, <1>3, <2>1, <2>2, <2>3 DEF Good
<1> HIDE DEF p
<1>6. /\ d \in Cursor /\ d.index \in 1 .. End(ranges) /\ d.chunk = c.chunk
  BY <1>3, <1>5, InNextRangeGood
<1>7. /\ NextRank(b, d.pos.bytes, ranges) /\ Clear(d.pos.bytes, ranges)
      /\ d.index = End(ranges) => \A i \in 1 .. Len(ranges) : ranges[i].end <= d.pos.bytes
  BY <1>1, <1>3, <1>4, InNextRangeLands
<1>8. f = IF EOF(d) THEN [d EXCEPT !.chunk = NoChunk, !.ahead = AtEnd] ELSE GetLookahead(e)
  BY DEF DoAdvance, p
<1> HIDE DEF d, f
<1>9. CASE EOF(d)
  <2>1. f.index = End(ranges) /\ f.pos = d.pos /\ f.ahead.code = Nul
    BY <1>6, <1>8, <1>9 DEF Cursor, AtEnd, EOF
  <2> QED
    BY <1>7, <1>9, <2>1 DEF Over, Exact, Reads, EOF, f
<1>10. CASE ~EOF(d) /\ InChunk(d)
  <2>1. Chunked(d) /\ d.index # End(ranges) /\ d.chunk.start + d.chunk.len <= N
    BY <1>1, <1>2, <1>6, <1>10 DEF Chunked, EOF
  <2>2. f.pos = d.pos /\ Over(f, ranges) /\ Exact(f, ranges) /\ Reads(f, ranges)
    BY <1>6, <1>8, <1>10, <2>1, GetLookaheadExact
  <2> QED
    BY <1>7, <2>2 DEF f
<1>11. CASE ~EOF(d) /\ ~InChunk(d)
  <2>1. f.pos = d.pos /\ Over(f, ranges) /\ Exact(f, ranges) /\ Reads(f, ranges)
    BY <1>6, <1>8, <1>11, ReadsAfresh DEF EOF
  <2> QED
    BY <1>7, <2>1 DEF f
<1> QED
  BY <1>9, <1>10, <1>11

\* So does the short cut of Advance.
LEMMA AdvancedReads ==
    ASSUME Readable, RangeList(ranges), Ordered(ranges), NEW c, Good(c, ranges), ~EOF(c),
           Exact(c, ranges), c.ahead.size # 0, Clear(c.pos.bytes, ranges)
    PROVE LET d == Advanced(c)
          IN /\ Over(d, ranges) /\ Exact(d, ranges) /\ Reads(d, ranges)
             /\ Clear(d.pos.bytes, ranges)
             /\ NextRank(c.pos.bytes, d.pos.bytes, ranges)
<1> DEFINE b == c.pos.bytes
<1>1. /\ c.index \in 1 .. Len(ranges) /\ Chunked(c) /\ c.ahead = Decode(b, N)
      /\ b \in Nat /\ b < N /\ b \in CharsOf(ranges[c.index])
  BY AtCharacter
<1>2. CASE ~ShortCut(c)
  BY <1>1, <1>2, DoAdvanceReads DEF Advanced
<1>3. CASE ShortCut(c)
  <2> DEFINE d == Stepped(c)
             pos == [bytes |-> b + 1, row |-> c.pos.row, col |-> c.pos.col + 1]
             column == IF c.column.valid THEN [c.column EXCEPT !.value = @ + 1] ELSE c.column
             ahead == [code |-> Doc[b + 2], size |-> 1]
  <2>1. /\ c \in Cursor /\ c.chunk.start + c.chunk.len <= N /\ N \in Nat
        /\ c.chunk.start \in Nat /\ c.chunk.len \in Nat
    BY <1>1, TextAssumption DEF Good, Covered, Cursor, N
  <2>2. /\ c.ahead.size = 1 /\ b + 1 < ranges[c.index].end
        /\ b + 1 < c.chunk.start + c.chunk.len /\ Width[Doc[b + 2]] = 1
    BY <1>1, <1>3 DEF ShortCut
  <2>3. d = [c EXCEPT !.pos = pos, !.column = column, !.ahead = ahead]
    BY DEF Stepped
  <2>4. Decode(b + 1, N) = ahead
    <3>1. b + 1 < N
      BY <1>1, <2>1, <2>2
    <3>2. (b + 1) + 1 = b + 2 /\ 1 .. 1 - 1 = {} /\ (b + 1) + 1 <= N
      BY <1>1, <2>1, <3>1
    <3> QED
      BY <1>1, <2>1, <2>2, <3>1, <3>2 DEF Decode
  <2> HIDE DEF d, column
  <2>5. d.pos.bytes = b + 1 /\ d.ahead = ahead /\ d.index = c.index /\ d.chunk = c.chunk
    BY <2>1, <2>3 DEF Cursor
  <2>6. Clear(b + 1, ranges) /\ NextRank(b, b + 1, ranges)
    <3>1. Decode(b, N).size = 1
      BY <1>1, <2>2
    <3> QED
      BY <1>1, <2>2, <3>1, NextInRange
  <2>7. Over(d, ranges) /\ Exact(d, ranges) /\ Reads(d, ranges)
    BY <1>1, <2>4, <2>5 DEF Over, Exact, Reads, Chunked, EOF
  <2>8. Advanced(c) = d
    BY <1>1, <1>3 DEF Advanced, d
  <2> QED
    BY <2>5, <2>6, <2>7, <2>8
<1> QED
  BY <1>2, <1>3

\* A recounted cursor has read what it had read.
LEMMA RecountedReads ==
    ASSUME NEW c \in Cursor, NEW k
    PROVE LET d == [c EXCEPT !.column = k]
          IN /\ d.pos = c.pos /\ d.index = c.index /\ d.chunk = c.chunk /\ d.ahead = c.ahead
             /\ Over(c, ranges) => Over(d, ranges)
             /\ Exact(c, ranges) => Exact(d, ranges)
             /\ Reads(c, ranges) => Reads(d, ranges)
<1> DEFINE d == [c EXCEPT !.column = k]
<1>1. d.pos = c.pos /\ d.index = c.index /\ d.chunk = c.chunk /\ d.ahead = c.ahead
  BY DEF Cursor
<1> HIDE DEF d
<1>2. /\ Over(c, ranges) => Over(d, ranges)
      /\ Exact(c, ranges) => Exact(d, ranges)
      /\ Reads(c, ranges) => Reads(d, ranges)
  BY <1>1 DEF Over, Exact, Reads, Chunked
<1> QED
  BY <1>1, <1>2 DEF d

\* So has one that lex sends to a place.
LEMMA ResetLands ==
    ASSUME RangeList(ranges), Ordered(ranges), NEW c \in Cursor,
           Over(c, ranges), Exact(c, ranges),
           NEW place \in Place, place.col <= place.bytes
    PROVE LET d == Reset(c, place)
          IN /\ Over(d, ranges) /\ Exact(d, ranges)
             /\ Clear(place.bytes, ranges) => Clear(d.pos.bytes, ranges)
<1>1. CASE place.bytes # c.pos.bytes
  <2>1. Reset(c, place) = Goto(c, place, ranges)
    BY <1>1 DEF Reset
  <2> QED
    BY <2>1, GotoLands
<1>2. CASE place.bytes = c.pos.bytes
  BY <1>2 DEF Reset
<1> QED
  BY <1>1, <1>2
-----------------------------------------------------------------------------
(* Every action keeps RInv.                                                *)

\* The parts of the invariants that the lemmas above ask for.
LEMMA RFacts ==
    ASSUME IInv, RInv
    PROVE /\ RangeList(ranges) /\ Ordered(ranges) /\ Good(cursor, ranges)
          /\ cursor \in Cursor /\ cursor.pos \in Place /\ cursor.pos.bytes \in Nat
          /\ cursor.pos.col <= cursor.pos.bytes
          /\ Over(cursor, ranges) /\ Exact(cursor, ranges)
          /\ saved.pos \in Place /\ saved.pos.col <= saved.pos.bytes
  BY Facts DEF RInv, IInv, TypeOK, Place

\* Enough for a step that leaves the ranges alone.
LEMMA KeepsRInv ==
    ASSUME RInv, ranges' = ranges, Over(cursor', ranges), Exact(cursor', ranges),
           phase' # "between" => Clear(cursor'.pos.bytes, ranges),
           phase' \in {"scanning", "scanned", "panicked"} => Reads(cursor', ranges),
           phase' \in {"scanning", "scanned"} => Clear(saved'.pos.bytes, ranges),
           goal' # None =>
              /\ phase' = "scanning"
              /\ goal' \in Starts(ranges) =>
                    cursor'.index # End(ranges) /\ cursor'.pos.bytes <= goal'
              /\ goal' \notin Starts(ranges) => \A x \in Starts(ranges) : x < goal'
    PROVE RInv'
<1>1. Over(cursor, ranges)' /\ Exact(cursor, ranges)'
  BY DEF Over, Exact, End, Chunked
<1>2. (phase # "between" => Clear(cursor.pos.bytes, ranges))'
  BY DEF Clear
<1>3. (Scan => Reads(cursor, ranges))'
  BY DEF Scan, Reads, End
<1>4. (phase \in {"scanning", "scanned"} => Clear(saved.pos.bytes, ranges))'
  BY DEF Clear
<1>5. OnTheWay'
  BY DEF OnTheWay, Starts, EOF, End
<1>6. Ordered(ranges)' /\ ranges' \in Lists
  BY DEF RInv, Ordered
<1> QED
  BY <1>1, <1>2, <1>3, <1>4, <1>5, <1>6 DEF RInv

\* A new lexer has read nothing.
LEMMA InitRInv == Init => RInv
<1> SUFFICES ASSUME Init PROVE RInv
  OBVIOUS
<1> DEFINE r == [start |-> 0, end |-> N + 1]
<1>1. N \in Nat
  BY TextAssumption DEF N
<1>2. ranges = <<r>> /\ Len(ranges) = 1 /\ End(ranges) = 2 /\ ranges[1] = r
  BY DEF Init, End
<1>3. Ordered(ranges) /\ ranges \in Lists
  <2>1. ranges[1].start <= ranges[1].end
    BY <1>1, <1>2
  <2>2. \A i \in 1 .. Len(ranges) : i = 1
    BY <1>2
  <2>3. Ordered(ranges)
    BY <2>1, <2>2 DEF Ordered
  <2> QED
    BY <1>2, <2>3 DEF Lists
<1> HIDE DEF r
<1>4. cursor.index = 1 /\ cursor.ahead.size = 0 /\ phase = "between" /\ goal = None
  BY DEF Init, Fresh, NothingAhead
<1> QED
  BY <1>2, <1>3, <1>4 DEF RInv, Over, Exact, Scan, OnTheWay

\* New ranges, and every way in which lex is sent to a place of the text.
LEMMA MovesKeepReads ==
    ASSUME IInv, RInv,
           \/ \E rs \in RangeLists : SetIncludedRanges(rs)
           \/ SetInput \/ ParserReset
           \/ \E b \in 0 .. N : (b < N => Width[Doc[b + 1]] # 0) /\ Seek(b)
    PROVE RInv'
<1>1. PlaceOf(0) \in Place /\ PlaceOf(0).bytes = 0 /\ PlaceOf(0).col <= PlaceOf(0).bytes
  BY PlaceOfType
<1>2. Clear(0, ranges)
  <2>1. \A i \in 1 .. Len(ranges) : ranges[i].start \in Nat /\ ranges[i].end \in Nat
    BY RFacts, RangeBounds
  <2> SUFFICES ASSUME NEW i \in 1 .. Len(ranges), ranges[i].start <= 0, 0 < ranges[i].end,
                      0 < N
               PROVE 0 \in CharsOf(ranges[i])
    BY DEF Clear
  <2>2. ranges[i].start .. 0 - 1 = {}
    BY <2>1
  <2> QED
    BY <2>1, <2>2, CharsOfRange
<1>3. ASSUME NEW rs \in RangeLists, SetIncludedRanges(rs) PROVE RInv'
  <2>1. /\ Ordered(rs) /\ ranges' = rs /\ cursor' = Goto(cursor, cursor.pos, rs)
        /\ phase' = "between" /\ goal' = None
    BY <1>3 DEF SetIncludedRanges, Ready
  <2>2. RangeList(rs)
    BY RangesAssumption DEF RangeList
  <2>3. Over(cursor', rs) /\ Exact(cursor', rs)
    BY <2>1, <2>2, RFacts, GotoLands
  <2>4. Over(cursor, ranges)' /\ Exact(cursor, ranges)'
    BY <2>1, <2>3 DEF Over, Exact, End, Chunked
  <2>5. Ordered(ranges)' /\ ranges' \in Lists
    BY <2>1 DEF Lists, Ordered
  <2>6. ~Scan' /\ OnTheWay'
    BY <2>1 DEF Scan, OnTheWay
  <2> QED
    BY <2>1, <2>4, <2>5, <2>6 DEF RInv
<1>4. CASE SetInput
  <2> DEFINE e == [cursor EXCEPT !.chunk = NoChunk]
             c == Goto(e, cursor.pos, ranges)
  <2>1. e \in Cursor /\ e.chunk.len = 0
    BY RFacts DEF Cursor, NoChunk
  <2>2. /\ cursor' = Reset(c, PlaceOf(0)) /\ phase' = "parsing" /\ goal' = None
        /\ ranges' = ranges
    BY <1>4 DEF SetInput, Ready
  <2> HIDE DEF e
  <2>3. Good(c, ranges) /\ Over(c, ranges) /\ Exact(c, ranges)
    BY <2>1, RFacts, GotoGood, GotoLands
  <2> HIDE DEF c
  <2>4. c \in Cursor
    BY <2>3 DEF Good
  <2>5. Over(cursor', ranges) /\ Exact(cursor', ranges) /\ Clear(cursor'.pos.bytes, ranges)
    BY <1>1, <1>2, <2>2, <2>3, <2>4, RFacts, ResetLands
  <2> QED
    BY <2>2, <2>5, KeepsRInv
<1>5. CASE ParserReset
  <2>1. /\ cursor' = Reset(cursor, PlaceOf(0)) /\ phase' = "between" /\ goal' = None
        /\ ranges' = ranges
    BY <1>5 DEF ParserReset, Ready
  <2>2. Over(cursor', ranges) /\ Exact(cursor', ranges)
    BY <1>1, <2>1, RFacts, ResetLands
  <2> QED
    BY <2>1, <2>2, KeepsRInv
<1>6. ASSUME NEW b \in 0 .. N, b < N => Width[Doc[b + 1]] # 0, Seek(b) PROVE RInv'
  <2>1. /\ cursor' = Reset(cursor, PlaceOf(b)) /\ phase' = "parsing" /\ goal' = None
        /\ ranges' = ranges
    BY <1>6 DEF Seek, Ready
  <2>2. b \in Nat
    OBVIOUS
  <2>3. PlaceOf(b) \in Place /\ PlaceOf(b).bytes = b /\ PlaceOf(b).col <= PlaceOf(b).bytes
    BY <2>2, PlaceOfType
  <2>4. Clear(b, ranges)
    BY <1>6, <2>2, RFacts, LeadingClear
  <2>5. Over(cursor', ranges) /\ Exact(cursor', ranges) /\ Clear(cursor'.pos.bytes, ranges)
    BY <2>1, <2>3, <2>4, RFacts, ResetLands
  <2> QED
    BY <2>1, <2>5, KeepsRInv
<1> QED
  BY <1>3, <1>4, <1>5, <1>6

\* start sees what the text has at the position, nothing at the end.
LEMMA StartSees ==
    ASSUME Readable, IInv, RInv, ~EOF(cursor)
    PROVE /\ SeenAtStart.pos = cursor.pos
          /\ Over(SeenAtStart, ranges) /\ Exact(SeenAtStart, ranges)
          /\ Reads(SeenAtStart, ranges)
<1>1. cursor.index # End(ranges)
  BY DEF EOF
<1>2. CASE cursor.ahead.size # 0
  <2>1. Chunked(cursor)
    BY <1>1, <1>2, RFacts DEF Exact
  <2>2. SeenAtStart = cursor
    BY <1>2, <2>1 DEF SeenAtStart, ReadAtStart
  <2> QED
    BY <1>2, <2>2, RFacts DEF Reads
<1>3. CASE cursor.ahead.size = 0 /\ Chunked(cursor)
  <2>1. SeenAtStart = GetLookahead(cursor)
    BY <1>3 DEF SeenAtStart, ReadAtStart
  <2>2. InChunk(cursor) /\ cursor.chunk.start + cursor.chunk.len <= N
    BY <1>1, <1>3, RFacts DEF Good, Covered
  <2> QED
    BY <1>1, <1>3, <2>1, <2>2, RFacts, GetLookaheadExact
<1>4. CASE cursor.ahead.size = 0 /\ ~Chunked(cursor)
  <2>1. GetChunk(cursor).ahead = cursor.ahead
    BY RFacts, GetChunkIs
  <2>2. SeenAtStart = GetLookahead(GetChunk(cursor))
    BY <1>4, <2>1 DEF SeenAtStart, ReadAtStart
  <2> QED
    BY <1>1, <2>2, RFacts, ReadsAfresh
<1> QED
  BY <1>2, <1>3, <1>4

\* It stays where it is, but for a byte order mark at the start of the text.
MarkAhead == cursor.pos.bytes = 0 /\ 0 \in Starts(ranges) /\ Decode(0, N).code = BOM
LEMMA StartStep ==
    ASSUME Readable, IInv, PInv, RInv, Start
    PROVE /\ Over(cursor', ranges) /\ Exact(cursor', ranges) /\ Reads(cursor', ranges)
          /\ Clear(cursor.pos.bytes, ranges) /\ Clear(cursor'.pos.bytes, ranges)
          /\ saved'.pos = cursor.pos /\ phase' = "scanning" /\ goal' = None
          /\ ranges' = ranges /\ goal = None /\ phase = "parsing"
          /\ MarkAhead => NextRank(cursor.pos.bytes, cursor'.pos.bytes, ranges)
          /\ ~MarkAhead => cursor'.pos.bytes = cursor.pos.bytes
<1> DEFINE c == SeenAtStart
           skip == c.pos.bytes = 0 /\ c.ahead.code = BOM
           d == IF skip THEN DoAdvance(c) ELSE c
           zero == [value |-> 0, valid |-> TRUE]
           next == IF EOF(cursor) THEN cursor
                   ELSE IF c.pos.bytes = 0 THEN [d EXCEPT !.column = zero] ELSE d
<1>1. /\ cursor' = next /\ saved' = [pos |-> cursor.pos, column |-> cursor.column]
      /\ phase' = "scanning" /\ goal' = None /\ ranges' = ranges
      /\ goal = None /\ phase = "parsing"
  BY DEF Start, Ready, ReadAtStart, SeenAtStart
<1>2. Clear(cursor.pos.bytes, ranges)
  BY <1>1 DEF RInv
<1>3. saved'.pos = cursor.pos
  BY <1>1
<1>4. CASE EOF(cursor)
  <2>1. cursor' = cursor
    BY <1>1, <1>4
  <2>2. ~MarkAhead
    <3>1. N <= cursor.pos.bytes \/ \A i \in 1 .. Len(ranges) : ranges[i].end <= cursor.pos.bytes
      BY <1>4, RFacts DEF Over, EOF
    <3>2. \A x \in Starts(ranges) : x < cursor.pos.bytes
      BY <3>1, RFacts, OverAll
    <3> QED
      BY <3>2 DEF MarkAhead
  <2>3. Reads(cursor, ranges)
    BY <1>4 DEF Reads, EOF
  <2> QED
    BY <1>1, <1>2, <1>3, <2>1, <2>2, <2>3, RFacts
<1>5. CASE ~EOF(cursor)
  <2>1. c.pos = cursor.pos /\ Over(c, ranges) /\ Exact(c, ranges) /\ Reads(c, ranges)
    BY <1>5, StartSees
  <2>2. Good(c, ranges) /\ (skip => ~EOF(c)) /\ c \in Cursor
    BY <1>5, StartReads DEF Good
  <2> HIDE DEF c
  <2>3. skip <=> MarkAhead
    <3>1. ASSUME skip PROVE MarkAhead
      <4>1. ~EOF(c) /\ c.ahead.size # 0
        BY <2>1, <2>2, <3>1 DEF Reads, EOF
      <4>2. c.ahead = Decode(c.pos.bytes, N) /\ c.pos.bytes \in Starts(ranges)
        BY <1>2, <2>1, <2>2, <4>1, RFacts, AtCharacter
      <4> QED
        BY <2>1, <3>1, <4>2 DEF MarkAhead
    <3>2. ASSUME MarkAhead PROVE skip
      <4>1. ~EOF(c)
        <5> SUFFICES ASSUME EOF(c) PROVE FALSE
          OBVIOUS
        <5>1. N <= c.pos.bytes \/ \A i \in 1 .. Len(ranges) : ranges[i].end <= c.pos.bytes
          BY <2>1 DEF Over, EOF
        <5>2. \A x \in Starts(ranges) : x < cursor.pos.bytes
          BY <2>1, <5>1, RFacts, OverAll
        <5> QED
          BY <3>2, <5>2 DEF MarkAhead
      <4>2. c.ahead = Decode(c.pos.bytes, N)
        BY <2>1, <4>1 DEF Reads, Exact, EOF
      <4> QED
        BY <2>1, <3>2, <4>2 DEF MarkAhead
    <3> QED
      BY <3>1, <3>2
  <2>4. /\ d \in Cursor /\ Over(d, ranges) /\ Exact(d, ranges) /\ Reads(d, ranges)
        /\ Clear(d.pos.bytes, ranges)
        /\ MarkAhead => NextRank(cursor.pos.bytes, d.pos.bytes, ranges)
        /\ ~MarkAhead => d.pos.bytes = cursor.pos.bytes
    <3>1. CASE skip
      <4>1. ~EOF(c) /\ c.ahead.size # 0
        BY <2>1, <2>2, <3>1 DEF Reads, EOF
      <4>2. d = DoAdvance(c)
        BY <3>1
      <4>3. d \in Cursor
        BY <2>2, <4>2, RFacts, DoAdvanceGood DEF Good
      <4> HIDE DEF d, skip
      <4> QED
        BY <1>2, <2>1, <2>2, <2>3, <3>1, <4>1, <4>2, <4>3, RFacts, DoAdvanceReads
    <3>2. CASE ~skip
      BY <1>2, <2>1, <2>2, <2>3, <3>2
    <3> QED
      BY <3>1, <3>2
  <2> HIDE DEF d, skip
  <2>5. CASE c.pos.bytes = 0
    <3>1. cursor' = [d EXCEPT !.column = zero]
      BY <1>1, <1>5, <2>5
    <3> HIDE DEF zero, next
    <3>2. /\ cursor'.pos = d.pos
          /\ Over(cursor', ranges) /\ Exact(cursor', ranges) /\ Reads(cursor', ranges)
      BY <2>4, <3>1, RecountedReads
    <3> QED
      BY <1>1, <1>2, <1>3, <2>4, <3>2
  <2>6. CASE c.pos.bytes # 0
    <3>1. cursor' = d
      BY <1>1, <1>5, <2>6
    <3> HIDE DEF next
    <3> QED
      BY <1>1, <1>2, <1>3, <2>4, <3>1
  <2> QED
    BY <2>5, <2>6
<1> QED
  BY <1>4, <1>5

LEMMA StartKeepsReads ==
    ASSUME Readable, IInv, PInv, RInv, Start
    PROVE RInv'
  BY StartStep, KeepsRInv

\* A cursor in a scan stands at a character, or no character is left.
LEMMA ScanAtCharacter ==
    ASSUME IInv, RInv, Scan
    PROVE /\ ~EOF(cursor) => /\ cursor.pos.bytes \in Starts(ranges) /\ Chunked(cursor)
                             /\ cursor.ahead = Decode(cursor.pos.bytes, N)
          /\ EOF(cursor) => /\ cursor.ahead.code = Nul
                            /\ \A x \in Starts(ranges) : x < cursor.pos.bytes
<1>1. Clear(cursor.pos.bytes, ranges) /\ Reads(cursor, ranges)
  BY DEF RInv, Scan
<1>2. CASE ~EOF(cursor)
  <2>1. cursor.ahead.size # 0
    BY <1>1, <1>2 DEF Reads, EOF
  <2> QED
    BY <1>1, <1>2, <2>1, RFacts, AtCharacter
<1>3. CASE EOF(cursor)
  <2>1. /\ cursor.ahead.code = Nul
        /\ \/ N <= cursor.pos.bytes
           \/ \A i \in 1 .. Len(ranges) : ranges[i].end <= cursor.pos.bytes
    BY <1>3, RFacts DEF Over, EOF
  <2> QED
    BY <1>3, <2>1, RFacts, OverAll
<1> QED
  BY <1>2, <1>3

\* Advance, by the short cut or not, within a scan or when lex skips a character.
LEMMA AdvanceReads ==
    ASSUME Readable, IInv, RInv, Scan, ~EOF(cursor)
    PROVE LET d == Advanced(cursor)
          IN /\ Over(d, ranges) /\ Exact(d, ranges) /\ Reads(d, ranges)
             /\ Clear(d.pos.bytes, ranges)
             /\ NextRank(cursor.pos.bytes, d.pos.bytes, ranges)
<1>1. Clear(cursor.pos.bytes, ranges) /\ cursor.ahead.size # 0
  BY DEF RInv, Scan, Reads, EOF
<1> QED
  BY <1>1, RFacts, AdvancedReads

LEMMA AdvanceKeepsReads ==
    ASSUME Readable, IInv, RInv, NEW skip \in BOOLEAN, Advance(skip)
    PROVE RInv'
<1>1. /\ phase = "scanning" /\ goal = None /\ goal' = None /\ ranges' = ranges
      /\ saved' = saved
  BY DEF Advance, Ready
<1>2. Scan /\ Clear(saved.pos.bytes, ranges)
  BY <1>1 DEF RInv, Scan
<1>3. CASE EOF(cursor)
  <2>1. phase' = "panicked" /\ cursor' = cursor
    BY <1>3 DEF Advance
  <2>2. Clear(cursor.pos.bytes, ranges) /\ Reads(cursor, ranges)
    BY <1>2 DEF RInv, Scan
  <2> QED
    BY <1>1, <1>2, <2>1, <2>2, RFacts, KeepsRInv
<1>4. CASE ~EOF(cursor)
  <2>1. cursor' = Advanced(cursor) /\ phase' = "scanning"
    BY <1>1, <1>4 DEF Advance
  <2>2. /\ Over(cursor', ranges) /\ Exact(cursor', ranges) /\ Reads(cursor', ranges)
        /\ Clear(cursor'.pos.bytes, ranges)
    BY <1>2, <1>4, <2>1, AdvanceReads
  <2> QED
    BY <1>1, <1>2, <2>1, <2>2, KeepsRInv
<1> QED
  BY <1>3, <1>4

\* GetColumn goes back to the start of the row: to no character behind where it was called.
LEMMA GetColumnKeepsReads ==
    ASSUME Readable, IInv, PInv, RInv, GetColumn
    PROVE RInv'
<1> DEFINE at == cursor.pos
           row == [bytes |-> at.bytes - at.col, row |-> at.row, col |-> 0]
           zero == [value |-> 0, valid |-> TRUE]
           e == Goto(cursor, row, ranges)
           f == [e EXCEPT !.column = zero]
           c == GetChunk(f)
<1>1. /\ cursor' = IF EOF(c) THEN c ELSE GetLookahead(c)
      /\ goal' = at.bytes /\ ranges' = ranges /\ phase = "scanning" /\ phase' = "scanning"
      /\ saved' = saved
  BY DEF GetColumn, Ready
<1>2. /\ row \in Place /\ row.col <= row.bytes /\ row.bytes = LineStart(at.bytes)
      /\ at.bytes \in Nat /\ LineStart(at.bytes) \in 0 .. at.bytes
  <2>1. at = PlaceOf(at.bytes) /\ at.bytes \in Nat /\ at.row \in Nat
    BY PFacts, Facts DEF Right, Place
  <2>2. at.col = at.bytes - LineStart(at.bytes)
    BY <2>1, PlaceByNewlines
  <2>3. LineStart(at.bytes) \in 0 .. at.bytes
    BY <2>1, LineStartType
  <2>4. at.bytes - at.col = LineStart(at.bytes)
    BY <2>1, <2>2, <2>3
  <2> QED
    BY <2>1, <2>3, <2>4 DEF Place
<1>3. Clear(row.bytes, ranges)
  BY <1>2, RFacts, RowStartClear
<1> HIDE DEF row
<1>4. /\ e \in Cursor /\ Over(e, ranges) /\ Exact(e, ranges) /\ e.ahead.code = Nul
      /\ e.pos.bytes \in Nat /\ SameRank(row.bytes, e.pos.bytes, ranges)
      /\ Clear(e.pos.bytes, ranges)
  <2>1. Good(e, ranges)
    BY <1>2, RFacts, Facts, GotoGood
  <2> QED
    BY <1>2, <1>3, <2>1, RFacts, GotoLands DEF Good
<1> HIDE DEF e
<1>5. /\ f \in Cursor /\ f.pos = e.pos /\ f.index = e.index /\ f.ahead = e.ahead
      /\ Over(f, ranges)
  <2>1. zero \in Column
    BY DEF Column
  <2> HIDE DEF zero
  <2>2. f \in Cursor
    BY <1>4, <2>1 DEF Cursor
  <2> QED
    BY <1>4, <2>2, RecountedReads
<1> HIDE DEF f
<1>6. /\ cursor'.pos = e.pos
      /\ Over(cursor', ranges) /\ Exact(cursor', ranges) /\ Reads(cursor', ranges)
  <2>1. /\ c \in Cursor /\ c.pos = f.pos /\ c.ahead = f.ahead
        /\ N <= f.pos.bytes => c.index = End(ranges)
        /\ f.pos.bytes < N => c.index = f.index
    BY <1>5, RFacts, GetChunkIs
  <2>2. N \in Nat
    BY TextAssumption DEF N
  <2>3. CASE EOF(c)
    <3>1. cursor' = c
      BY <1>1, <2>3
    <3>2. /\ c.ahead.code = Nul
          /\ N <= c.pos.bytes \/ \A i \in 1 .. Len(ranges) : ranges[i].end <= c.pos.bytes
      BY <1>4, <1>5, <2>1, <2>2, <2>3 DEF Over, EOF
    <3> HIDE DEF c
    <3> QED
      BY <1>5, <2>1, <2>3, <3>1, <3>2 DEF Over, Exact, Reads, EOF
  <2>4. CASE ~EOF(c)
    <3>1. f.index # End(ranges)
      BY <1>4, <1>5, <2>1, <2>2, <2>4 DEF EOF
    <3>2. cursor' = GetLookahead(GetChunk(f))
      BY <1>1, <2>4
    <3> QED
      BY <1>5, <3>1, <3>2, RFacts, ReadsAfresh
  <2> QED
    BY <2>3, <2>4
<1>7. Scan /\ Clear(saved.pos.bytes, ranges)
  BY <1>1 DEF RInv, Scan
<1>8. goal' \in Starts(ranges) => cursor'.index # End(ranges) /\ cursor'.pos.bytes <= goal'
  <2> SUFFICES ASSUME at.bytes \in Starts(ranges)
               PROVE cursor'.index # End(ranges) /\ cursor'.pos.bytes <= at.bytes
    BY <1>1
  <2>1. ~(at.bytes < row.bytes)
    BY <1>2
  <2>2. ~(at.bytes < e.pos.bytes)
    BY <1>4, <2>1 DEF SameRank
  <2>3. cursor'.index # End(ranges)
    <3> SUFFICES ASSUME cursor'.index = End(ranges) PROVE FALSE
      OBVIOUS
    <3>1. N <= e.pos.bytes \/ \A i \in 1 .. Len(ranges) : ranges[i].end <= e.pos.bytes
      BY <1>6 DEF Over
    <3>2. \A x \in Starts(ranges) : x < e.pos.bytes
      BY <1>4, <3>1, RFacts, OverAll
    <3> QED
      BY <2>2, <3>2
  <2> QED
    BY <1>2, <1>4, <1>6, <2>2, <2>3
<1>9. goal' \notin Starts(ranges) => \A x \in Starts(ranges) : x < goal'
  BY <1>1, <1>7, ScanAtCharacter
<1> QED
  BY <1>1, <1>4, <1>6, <1>7, <1>8, <1>9, KeepsRInv

\* It stops where it was called, or at the end when it was called there.
LEMMA GetColumnWalkKeepsReads ==
    ASSUME Readable, IInv, RInv, GetColumnWalk
    PROVE RInv'
<1>1. /\ goal # None /\ goal' = goal /\ ranges' = ranges /\ saved' = saved
      /\ phase' = phase /\ cursor' = DoAdvance(cursor)
      /\ cursor.pos.bytes < goal /\ ~EOF(cursor)
  BY DEF GetColumnWalk, Behind
<1>2. /\ phase = "scanning"
      /\ goal \in Starts(ranges) => ~EOF(cursor) /\ cursor.pos.bytes <= goal
      /\ goal \notin Starts(ranges) => \A x \in Starts(ranges) : x < goal
  BY <1>1 DEF RInv, OnTheWay
<1>3. Scan /\ Clear(saved.pos.bytes, ranges) /\ Clear(cursor.pos.bytes, ranges)
      /\ cursor.ahead.size # 0
  BY <1>1, <1>2 DEF RInv, Scan, Reads, EOF
<1>4. /\ Over(cursor', ranges) /\ Exact(cursor', ranges) /\ Reads(cursor', ranges)
      /\ Clear(cursor'.pos.bytes, ranges)
      /\ NextRank(cursor.pos.bytes, cursor'.pos.bytes, ranges)
  BY <1>1, <1>3, RFacts, DoAdvanceReads
<1>5. cursor' \in Cursor /\ cursor'.pos.bytes \in Nat
  <2>1. cursor' \in Cursor
    BY <1>1, RFacts, DoAdvanceGood DEF Good
  <2> QED
    BY <2>1 DEF Cursor, Place
<1>6. goal \in Starts(ranges) => cursor'.index # End(ranges) /\ cursor'.pos.bytes <= goal
  <2> SUFFICES ASSUME goal \in Starts(ranges)
               PROVE cursor'.index # End(ranges) /\ cursor'.pos.bytes <= goal
    OBVIOUS
  <2>1. goal \in Nat
    BY RFacts, StartsIn
  <2>2. ~(goal < cursor'.pos.bytes)
    BY <1>1, <1>4, <2>1, RFacts DEF NextRank
  <2>3. cursor'.index # End(ranges)
    <3> SUFFICES ASSUME cursor'.index = End(ranges) PROVE FALSE
      OBVIOUS
    <3>1. \/ N <= cursor'.pos.bytes
          \/ \A i \in 1 .. Len(ranges) : ranges[i].end <= cursor'.pos.bytes
      BY <1>4 DEF Over
    <3>2. \A x \in Starts(ranges) : x < cursor'.pos.bytes
      BY <1>5, <3>1, RFacts, OverAll
    <3> QED
      BY <2>2, <3>2
  <2> QED
    BY <1>5, <2>1, <2>2, <2>3
<1> QED
  BY <1>1, <1>2, <1>3, <1>4, <1>6, KeepsRInv

\* The actions that leave the cursor where it is.
LEMMA StayingKeepsReads ==
    ASSUME IInv, RInv,
           MarkEnd \/ Finish \/ Accept \/ GetColumnKnown \/ GetColumnDone \/ UNCHANGED vars
    PROVE RInv'
<1>1. cursor' = cursor /\ ranges' = ranges
  BY DEF MarkEnd, Finish, Accept, GetColumnKnown, GetColumnDone, vars
<1>2. CASE UNCHANGED vars
  <2>1. phase' = phase /\ goal' = goal /\ saved' = saved
    BY <1>2 DEF vars
  <2> QED
    BY <1>1, <2>1, KeepsRInv DEF RInv, Scan, OnTheWay, EOF
<1>3. CASE MarkEnd \/ GetColumnKnown
  <2>1. phase' = phase /\ goal' = None /\ saved' = saved /\ goal = None
    BY <1>3 DEF MarkEnd, GetColumnKnown, Ready
  <2> QED
    BY <1>1, <2>1, KeepsRInv DEF RInv, Scan
<1>4. CASE GetColumnDone
  <2>1. phase' = phase /\ goal' = None /\ saved' = saved
    BY <1>4 DEF GetColumnDone
  <2> QED
    BY <1>1, <2>1, KeepsRInv DEF RInv, Scan
<1>5. CASE Finish
  <2>1. phase = "scanning" /\ phase' = "scanned" /\ goal' = None /\ saved' = saved
    BY <1>5 DEF Finish, Ready
  <2> QED
    BY <1>1, <2>1, KeepsRInv DEF RInv, Scan
<1>6. CASE Accept
  <2>1. phase = "scanned" /\ phase' = "parsing" /\ goal' = None
    BY <1>6 DEF Accept, Ready
  <2> QED
    BY <1>1, <2>1, KeepsRInv DEF RInv, Scan
<1> QED
  BY <1>2, <1>3, <1>4, <1>5, <1>6

\* lex goes back, or skips a character.
LEMMA OutcomesKeepReads ==
    ASSUME Readable, IInv, RInv, ScanAgain \/ SkipCharacter
    PROVE RInv'
<1>1. CASE ScanAgain
  <2> DEFINE e == Reset(cursor, saved.pos)
  <2>1. /\ cursor' = [e EXCEPT !.column = saved.column] /\ phase = "scanned"
        /\ phase' = "parsing" /\ goal' = None /\ ranges' = ranges
    BY <1>1 DEF ScanAgain, Ready
  <2>2. Clear(saved.pos.bytes, ranges)
    BY <2>1 DEF RInv
  <2>3. Over(e, ranges) /\ Exact(e, ranges) /\ Clear(e.pos.bytes, ranges)
    BY <2>2, RFacts, ResetLands
  <2>4. e \in Cursor
    BY RFacts, ResetGood DEF Good
  <2> HIDE DEF e
  <2>5. /\ cursor'.pos = e.pos /\ Over(cursor', ranges) /\ Exact(cursor', ranges)
    BY <2>1, <2>3, <2>4, RecountedReads
  <2> QED
    BY <2>1, <2>3, <2>5, KeepsRInv
<1>2. CASE SkipCharacter
  <2>1. /\ cursor' = Advanced(cursor) /\ phase = "scanned" /\ ~EOF(cursor)
        /\ phase' = "parsing" /\ goal' = None /\ ranges' = ranges
    BY <1>2 DEF SkipCharacter, Ready
  <2>2. Scan
    BY <2>1 DEF Scan
  <2>3. Over(cursor', ranges) /\ Exact(cursor', ranges) /\ Clear(cursor'.pos.bytes, ranges)
    BY <2>1, <2>2, AdvanceReads
  <2> QED
    BY <2>1, <2>3, KeepsRInv
<1> QED
  BY <1>1, <1>2

LEMMA StepRInv == Readable => (IInv /\ PInv /\ RInv /\ [Next]_vars => RInv')
<1> SUFFICES ASSUME Readable, IInv, PInv, RInv, [Next]_vars PROVE RInv'
  OBVIOUS
<1>1. CASE \/ \E rs \in RangeLists : SetIncludedRanges(rs)
           \/ SetInput \/ ParserReset
           \/ \E b \in 0 .. N : (b < N => Width[Doc[b + 1]] # 0) /\ Seek(b)
  BY <1>1, MovesKeepReads
<1>2. CASE Start
  BY <1>2, StartKeepsReads
<1>3. CASE \E skip \in BOOLEAN : Advance(skip)
  BY <1>3, AdvanceKeepsReads
<1>4. CASE GetColumn
  BY <1>4, GetColumnKeepsReads
<1>5. CASE GetColumnWalk
  BY <1>5, GetColumnWalkKeepsReads
<1>6. CASE MarkEnd \/ Finish \/ Accept \/ GetColumnKnown \/ GetColumnDone \/ UNCHANGED vars
  BY <1>6, StayingKeepsReads
<1>7. CASE ScanAgain \/ SkipCharacter
  BY <1>7, OutcomesKeepReads
<1> QED
  BY <1>1, <1>2, <1>3, <1>4, <1>5, <1>6, <1>7 DEF Next
-----------------------------------------------------------------------------
(* Every step is one of IncludedText, or changes nothing there.            *)

\* What stands before the next character of the abstract lexer, and that character.
Ahead == IF Before = Len(Text) THEN Nul ELSE Text[Before + 1]
Abstracted ==
    /\ Chars = Starts(ranges) /\ Len(Text) \in Nat
    /\ Before \in Nat /\ Before <= Len(Text)
    /\ IF Scan THEN Lookahead = Ahead ELSE Lookahead = Nul

LEMMA ScanAhead ==
    ASSUME IInv, RInv, Scan
    PROVE Lookahead = Ahead
<1> DEFINE S == Starts(ranges)
           b == cursor.pos.bytes
<1>1. S \in SUBSET Nat /\ IsFiniteSet(S)
  BY RFacts, StartsFinite
<1>2. /\ Chars = S /\ Len(Text) = Cardinality(S)
      /\ \A x \in S : Text[Preceding(S, x) + 1] = Decode(x, N).code
  BY <1>1, TextAt DEF RInv
<1>3. CASE goal # None
  BY <1>3 DEF Lookahead, Ahead
<1>4. CASE goal = None
  <2>1. Lookahead = cursor.ahead.code /\ Before = Preceding(S, b)
    BY <1>2, <1>4 DEF Lookahead, Before
  <2>2. CASE EOF(cursor)
    <3>1. cursor.ahead.code = Nul /\ \A x \in S : x < b
      BY <2>2, ScanAtCharacter
    <3>2. Preceding(S, b) = Cardinality(S)
      BY <1>1, <3>1, PrecedingType
    <3> QED
      BY <1>2, <2>1, <3>1, <3>2 DEF Ahead
  <2>3. CASE ~EOF(cursor)
    <3>1. b \in S /\ cursor.ahead = Decode(b, N)
      BY <2>3, ScanAtCharacter
    <3>2. /\ Preceding(S, b) < Cardinality(S) /\ Preceding(S, b) \in Nat
          /\ Cardinality(S) \in Nat
      BY <1>1, <3>1, PrecedingLess, PrecedingType
    <3> QED
      BY <1>2, <2>1, <3>1, <3>2 DEF Ahead
  <2> QED
    BY <2>2, <2>3
<1> QED
  BY <1>3, <1>4

LEMMA Abstracts == IInv /\ RInv => Abstracted
<1> SUFFICES ASSUME IInv, RInv PROVE Abstracted
  OBVIOUS
<1> DEFINE S == Starts(ranges)
<1>1. S \in SUBSET Nat /\ IsFiniteSet(S)
  BY RFacts, StartsFinite
<1>2. Chars = S /\ Len(Text) = Cardinality(S)
  BY <1>1, TextAt DEF RInv
<1>3. \A x : Preceding(S, x) \in Nat /\ Preceding(S, x) <= Cardinality(S)
  BY <1>1, PrecedingType
<1>4. Before \in Nat /\ Before <= Len(Text)
  BY <1>2, <1>3 DEF Before
<1>5. Cardinality(S) \in Nat
  BY <1>1, FS_CardinalityType
<1>6. IF Scan THEN Lookahead = Ahead ELSE Lookahead = Nul
  BY ScanAhead DEF Lookahead
<1> QED
  BY <1>2, <1>4, <1>5, <1>6 DEF Abstracted

\* Of a step that leaves the ranges alone, the text stays, and within a scan the place in it
\* says all.
LEMMA SameText ==
    ASSUME ranges' = ranges
    PROVE Text' = Text /\ Chars' = Chars
  BY DEF Text, Chars

LEMMA Stays ==
    ASSUME Abstracted, Abstracted', ranges' = ranges, Scan, Scan', Before' = Before
    PROVE UNCHANGED Included!vars
<1>1. Text' = Text /\ Chars' = Chars
  BY SameText
<1>2. Lookahead = Ahead /\ Lookahead' = Ahead'
  BY DEF Abstracted
<1>3. Ahead' = Ahead
  BY <1>1 DEF Ahead
<1> QED
  BY <1>1, <1>2, <1>3 DEF Included!vars, Scan

\* Between scans anything goes.
LEMMA MovesAbstractly ==
    ASSUME Abstracted', ~Scan'
    PROVE Included!Move
<1>1. Before' \in Nat /\ Len(Text') \in Nat /\ Before' <= Len(Text') /\ Lookahead' = Nul
  BY DEF Abstracted
<1>2. Before' + 1 \in 1 .. Len(Text') + 1
  <2>1. \A m, n \in Nat : m <= n => m + 1 \in 1 .. n + 1
    OBVIOUS
  <2> QED
    BY <1>1, <2>1
<1> QED
  BY <1>1, <1>2 DEF Included!Move

\* start begins: at the next character, or behind a byte order mark that starts the document.
LEMMA StartBegins ==
    ASSUME Readable, IInv, PInv, RInv, Abstracted, Abstracted', Start
    PROVE Included!Begin
<1> DEFINE S == Starts(ranges)
           b == cursor.pos.bytes
           d == cursor'.pos.bytes
<1>1. /\ ranges' = ranges /\ goal' = None /\ goal = None
      /\ phase' = "scanning" /\ phase = "parsing"
      /\ MarkAhead => NextRank(b, d, ranges)
      /\ ~MarkAhead => d = b
  BY StartStep
<1>2. S \in SUBSET Nat /\ IsFiniteSet(S) /\ b \in Nat
  BY RFacts, StartsFinite
<1>3. /\ Chars = S /\ Len(Text) = Cardinality(S)
      /\ \A x \in S : Text[Preceding(S, x) + 1] = Decode(x, N).code
  BY <1>2, TextAt DEF RInv
<1>4. Text' = Text /\ Chars' = Chars
  BY <1>1, SameText
<1>5. Before = Preceding(S, b) /\ Before' = Preceding(S, d)
  BY <1>1, <1>3, <1>4 DEF Before
<1>6. ~Scan /\ Scan' /\ Lookahead' = Ahead'
  BY <1>1 DEF Scan, Abstracted
<1>7. Preceding(S, 0) = 0
  <2>1. \A x \in S : ~(x < 0)
    BY <1>2
  <2> QED
    BY <1>2, <2>1, PrecedingType
<1>8. MarkAhead <=> Before = 0 /\ 0 \in S /\ Text[1] = BOM
  <2>1. 0 \in S => Text[1] = Decode(0, N).code
    BY <1>3, <1>7
  <2>2. b # 0 /\ 0 \in S => Preceding(S, 0) < Preceding(S, b)
    BY <1>2, PrecedingLess
  <2>3. 0 \in S /\ Preceding(S, b) = 0 => b = 0
    BY <1>7, <2>2
  <2> QED
    BY <1>5, <1>7, <2>1, <2>3 DEF MarkAhead
<1>9. /\ Before' = IF MarkAhead THEN 1 ELSE Before
      /\ MarkAhead => Before = 0
  <2>1. CASE MarkAhead
    <3>1. b \in S /\ b = 0 /\ Preceding(S, b) = 0
      BY <1>7, <2>1 DEF MarkAhead
    <3>2. Preceding(S, d) = Preceding(S, b) + 1
      BY <1>1, <1>2, <2>1, <3>1, PrecedingNext DEF NextRank
    <3> QED
      BY <1>5, <2>1, <3>1, <3>2
  <2>2. CASE ~MarkAhead
    BY <1>1, <1>5, <2>2
  <2> QED
    BY <2>1, <2>2
<1>10. Before \in Nat /\ Before' \in Nat /\ Len(Text) \in Nat /\ Before' <= Len(Text)
       /\ Before <= Len(Text)
  BY <1>4 DEF Abstracted
<1>11. 0 \in S => Included!Char(1) = Text[1]
  <2>1. 0 \in S => 0 < Cardinality(S)
    BY <1>2, <1>7, PrecedingLess
  <2> QED
    BY <1>3, <1>10, <2>1 DEF Included!Char
<1>12. Before' + 1 = IF Before + 1 = 1 /\ 0 \in Chars /\ Included!Char(1) = BOM
                     THEN 2 ELSE Before + 1
  BY <1>3, <1>8, <1>9, <1>10, <1>11
<1>13. Lookahead' = Included!Char(Before' + 1)
  BY <1>4, <1>6, <1>10 DEF Ahead, Included!Char
<1> QED
  BY <1>4, <1>6, <1>12, <1>13 DEF Included!Begin

\* Advance reads one character; where it panics it reads none.
LEMMA AdvanceStep ==
    ASSUME Readable, IInv, RInv, Abstracted, Abstracted', NEW skip \in BOOLEAN, Advance(skip)
    PROVE Included!Read \/ UNCHANGED Included!vars
<1> DEFINE S == Starts(ranges)
           b == cursor.pos.bytes
           d == cursor'.pos.bytes
<1>1. phase = "scanning" /\ goal = None /\ goal' = None /\ ranges' = ranges
  BY DEF Advance, Ready
<1>2. S \in SUBSET Nat /\ IsFiniteSet(S) /\ b \in Nat
  BY RFacts, StartsFinite
<1>3. Chars = S /\ Len(Text) = Cardinality(S)
  BY <1>2, TextAt DEF RInv
<1>4. Text' = Text /\ Chars' = Chars
  BY <1>1, SameText
<1>5. Before = Preceding(S, b) /\ Before' = Preceding(S, d)
  BY <1>1, <1>3, <1>4 DEF Before
<1>6. CASE EOF(cursor)
  <2>1. phase' = "panicked" /\ cursor' = cursor
    BY <1>6 DEF Advance
  <2>2. Scan /\ Scan' /\ Before' = Before
    BY <1>1, <1>5, <2>1 DEF Scan
  <2> QED
    BY <1>1, <2>2, Stays
<1>7. CASE ~EOF(cursor)
  <2>1. cursor' = Advanced(cursor) /\ phase' = "scanning"
    BY <1>1, <1>7 DEF Advance
  <2>2. Scan /\ Scan'
    BY <1>1, <2>1 DEF Scan
  <2>3. b \in S /\ NextRank(b, d, ranges)
    BY <1>7, <2>1, <2>2, ScanAtCharacter, AdvanceReads
  <2>4. Before' = Before + 1 /\ Before < Len(Text)
    <3>1. Preceding(S, d) = Preceding(S, b) + 1
      BY <1>2, <2>3, PrecedingNext DEF NextRank
    <3>2. Preceding(S, b) < Cardinality(S)
      BY <1>2, <2>3, PrecedingLess
    <3> QED
      BY <1>3, <1>5, <3>1, <3>2
  <2>5. /\ Before \in Nat /\ Before' \in Nat /\ Len(Text) \in Nat /\ Before' <= Len(Text)
        /\ Lookahead' = Ahead'
    BY <1>4, <2>2 DEF Abstracted
  <2>6. Lookahead' = Included!Char(Before' + 1)
    BY <1>4, <2>5 DEF Ahead, Included!Char
  <2>7. Before + 1 <= Len(Text) /\ Before' + 1 = (Before + 1) + 1
    BY <2>4, <2>5
  <2> QED
    BY <1>4, <2>2, <2>6, <2>7 DEF Included!Read
<1> QED
  BY <1>6, <1>7

\* GetColumn, on its way and back from it, seems to stay.
LEMMA GetColumnStays ==
    ASSUME IInv, RInv, Abstracted, Abstracted', GetColumn \/ GetColumnWalk \/ GetColumnDone
    PROVE UNCHANGED Included!vars
<1> DEFINE S == Starts(ranges)
           b == cursor.pos.bytes
<1>1. ranges' = ranges /\ phase' = phase /\ phase = "scanning"
  <2>1. CASE GetColumn
    BY <2>1 DEF GetColumn, Ready
  <2>2. CASE GetColumnWalk \/ GetColumnDone
    BY <2>2 DEF GetColumnWalk, GetColumnDone, RInv, OnTheWay
  <2> QED
    BY <2>1, <2>2
<1>2. S \in SUBSET Nat /\ IsFiniteSet(S) /\ b \in Nat
  BY RFacts, StartsFinite
<1>3. Chars = S
  BY DEF Abstracted
<1>4. Text' = Text /\ Chars' = Chars
  BY <1>1, SameText
<1>5. Scan /\ Scan'
  BY <1>1 DEF Scan
<1>6. Before' = Before
  <2>1. CASE GetColumn
    <3>1. goal = None /\ goal' = b
      BY <2>1 DEF GetColumn, Ready
    <3>2. b # None
      BY <1>2 DEF None
    <3> QED
      BY <1>4, <3>1, <3>2 DEF Before
  <2>2. CASE GetColumnWalk
    <3>1. goal # None /\ goal' = goal
      BY <2>2 DEF GetColumnWalk
    <3> QED
      BY <1>4, <3>1 DEF Before
  <2>3. CASE GetColumnDone
    <3>1. /\ goal # None /\ goal' = None /\ cursor' = cursor /\ ~Behind
      BY <2>3 DEF GetColumnDone
    <3>2. Before = Preceding(S, goal) /\ Before' = Preceding(S, b)
      BY <1>3, <1>4, <3>1 DEF Before
    <3>3. /\ goal \in S => ~EOF(cursor) /\ b <= goal
          /\ goal \notin S => \A x \in S : x < goal
      BY <3>1 DEF RInv, OnTheWay
    <3>4. ~(b < goal) \/ EOF(cursor)
      BY <1>5, <3>1, ScanAtCharacter DEF Behind
    <3>5. CASE goal \in S
      <4>1. goal \in Nat /\ b <= goal /\ ~(b < goal)
        BY <1>2, <3>3, <3>4, <3>5
      <4>2. goal = b
        BY <1>2, <4>1
      <4> QED
        BY <3>2, <4>2
    <3>6. CASE goal \notin S
      <4>1. goal \in Nat
        BY <3>1 DEF IInv, TypeOK
      <4>2. \A x \in S : x < b
        <5>1. CASE EOF(cursor)
          BY <1>5, <5>1, ScanAtCharacter
        <5>2. CASE ~EOF(cursor)
          BY <1>2, <3>3, <3>4, <3>6, <4>1, <5>2
        <5> QED
          BY <5>1, <5>2
      <4>3. Preceding(S, b) = Cardinality(S) /\ Preceding(S, goal) = Cardinality(S)
        BY <1>2, <3>3, <3>6, <4>2, PrecedingType
      <4> QED
        BY <3>2, <4>3
    <3> QED
      BY <3>5, <3>6
  <2> QED
    BY <2>1, <2>2, <2>3
<1> QED
  BY <1>1, <1>5, <1>6, Stays

\* Every step.
LEMMA StepReadsText ==
    ASSUME Readable, IInv, PInv, RInv, Abstracted, Abstracted', [Next]_vars
    PROVE [Included!Next]_(Included!vars)
<1>1. CASE ~Scan'
  BY <1>1, MovesAbstractly DEF Included!Next
<1>2. ASSUME Scan', \/ \E rs \in RangeLists : SetIncludedRanges(rs)
                    \/ SetInput \/ ParserReset
                    \/ \E b \in 0 .. N : (b < N => Width[Doc[b + 1]] # 0) /\ Seek(b)
                    \/ Accept \/ ScanAgain \/ SkipCharacter
      PROVE FALSE
  <2>1. phase' \in {"between", "parsing"}
    BY <1>2 DEF SetIncludedRanges, SetInput, ParserReset, Seek, Accept, ScanAgain,
       SkipCharacter, Ready
  <2> QED
    BY <1>2, <2>1 DEF Scan
<1>3. CASE Start
  BY <1>3, StartBegins DEF Included!Next
<1>4. CASE \E skip \in BOOLEAN : Advance(skip)
  BY <1>4, AdvanceStep DEF Included!Next
<1>5. CASE GetColumn \/ GetColumnWalk \/ GetColumnDone
  BY <1>5, GetColumnStays
<1>6. CASE Scan' /\ (MarkEnd \/ GetColumnKnown \/ Finish \/ UNCHANGED vars)
  <2>1. ranges' = ranges /\ cursor' = cursor /\ goal' = goal
    BY <1>6 DEF MarkEnd, GetColumnKnown, Finish, vars, Ready
  <2>2. Scan
    BY <1>6 DEF MarkEnd, GetColumnKnown, Finish, vars, Ready, Scan
  <2>3. Before' = Before
    BY <2>1, SameText DEF Before
  <2> QED
    BY <1>6, <2>1, <2>2, <2>3, Stays
<1> QED
  BY <1>1, <1>2, <1>3, <1>4, <1>5, <1>6 DEF Next

\* A new lexer is between scans.
LEMMA InitReadsText == Init /\ Abstracted => Included!Init
<1> SUFFICES ASSUME Init, Abstracted PROVE Included!Init
  OBVIOUS
<1>1. ~Scan
  BY DEF Init, Scan
<1>2. Before \in Nat /\ Len(Text) \in Nat /\ Before <= Len(Text) /\ Lookahead = Nul
  BY <1>1 DEF Abstracted
<1>3. Before + 1 \in 1 .. Len(Text) + 1
  <2>1. \A m, n \in Nat : m <= n => m + 1 \in 1 .. n + 1
    OBVIOUS
  <2> QED
    BY <1>2, <2>1
<1> QED
  BY <1>1, <1>2, <1>3 DEF Included!Init
-----------------------------------------------------------------------------
(* The theorems.                                                           *)

\* The lexer stands at a character of the included text or at its end, what is ahead is what
\* the whole document has there, and GetColumn on its way has not passed its goal.
THEOREM TextInvariant == Readable => (Spec => []RInv)
<1> SUFFICES ASSUME Readable PROVE Spec => []RInv
  OBVIOUS
<1>1. Init => RInv
  BY InitRInv
<1>2. IInv /\ PInv /\ RInv /\ [Next]_vars => RInv'
  BY StepRInv
<1> QED
  BY <1>1, <1>2, Invariant, PlaceInvariant, PTL DEF Spec

\* Whatever the chunks, the ranges and the short cut, a scan reads the included characters in
\* order, each once, and then the end; a byte order mark is passed over at the start of the
\* document only, and MarkEnd, GetColumn and the end of a scan do not move the lexer.
THEOREM ReadsTheText == Readable => (Spec => ReadsIncludedText)
<1> SUFFICES ASSUME Readable PROVE Spec => ReadsIncludedText
  OBVIOUS
<1>1. Spec => []RInv
  BY TextInvariant
<1>2. IInv /\ RInv => Abstracted
  BY Abstracts
<1>3. Init /\ Abstracted => Included!Init
  BY InitReadsText
<1>4. IInv /\ PInv /\ RInv /\ Abstracted /\ Abstracted' /\ [Next]_vars
         => [Included!Next]_(Included!vars)
  BY StepReadsText
<1> QED
  BY <1>1, <1>2, <1>3, <1>4, Invariant, PlaceInvariant, PTL
     DEF Spec, ReadsIncludedText, Included!Spec

-----------------------------------------------------------------------------
(***************************************************************************)
(* The column that a scanner is told is the number of included characters  *)
(* before it in its row, for every text and every list of ranges that      *)
(* leaves out no newline between two of them.                              *)
(***************************************************************************)

\* A byte order mark is larger than a byte: the short cut of Advance never steps over it.
MarkWide == Width[BOM] # 1

\* A newline between two ranges is included text.
RowsWhole(rs) ==
    \A n \in 0 .. N - 1 : Doc[n + 1] = Newline =>
       \A i, j \in 1 .. Len(rs) :
          rs[i].end <= n /\ n < rs[j].start =>
             \E k \in 1 .. Len(rs) : rs[k].start <= n /\ n < rs[k].end
RowsFit == \A rs \in RangeLists : Ordered(rs) => RowsWhole(rs)

\* What ColumnRight says the column is.
InColumn(b, rs) ==
    {c \in Starts(rs) : LineStart(b) <= c /\ c < b /\ (c = 0 => Decode(0, N).code # BOM)}
ColumnOf(b, rs) == Cardinality(InColumn(b, rs))
Counted(b, column, rs) == column.valid => column.value = ColumnOf(b, rs)

\* Sent to b again, the lexer comes to the row of b: behind all ranges b is in the row of
\* their end, and before the end of one it is included text, or behind the document.
AllOver(b, rs) == \A i \in 1 .. Len(rs) : rs[i].end <= b
Settled(b, rs) ==
    /\ AllOver(b, rs) => LineStart(b) = LineStart(rs[Len(rs)].end)
    /\ ~AllOver(b, rs) =>
          N <= b \/ \E i \in 1 .. Len(rs) : rs[i].start <= b /\ b < rs[i].end

CInv ==
    /\ RowsWhole(ranges)
    /\ Settled(cursor.pos.bytes, ranges)
    /\ phase = "between" => (cursor.column.valid => cursor.column.value = 0)
    /\ phase # "between" => Counted(cursor.pos.bytes, cursor.column, ranges)
    /\ phase \in {"scanning", "scanned"} =>
          /\ Settled(saved.pos.bytes, ranges)
          /\ Counted(saved.pos.bytes, saved.column, ranges)
-----------------------------------------------------------------------------
(* Rows, and what is counted in them.                                      *)

\* Over bytes that are no newline the row stays.
LEMMA RowKept ==
    ASSUME NEW b \in Nat, NEW d \in Nat, b <= d,
           \A n \in b .. d - 1 : n < N => Doc[n + 1] # Newline
    PROVE LineStart(d) = LineStart(b)
<1> DEFINE m == d - b
<1>1. m \in Nat /\ b + m = d /\ N \in Nat
  BY TextAssumption DEF N
<1>2. ASSUME NEW i \in b + 1 .. b + m PROVE ~(i <= N /\ Doc[i] = Newline)
  <2>1. i - 1 \in b .. d - 1 /\ (i - 1) + 1 = i /\ (i <= N => i - 1 < N)
    BY <1>1
  <2> QED
    BY <2>1
<1> HIDE DEF m
<1>3. PlaceOf(b + m) = [bytes |-> b + m, row |-> PlaceOf(b).row, col |-> PlaceOf(b).col + m]
  BY <1>1, <1>2, PlaceInRow
<1>4. PlaceOf(d).col = PlaceOf(b).col + m
  BY <1>1, <1>3
<1>5. PlaceOf(d).col = d - LineStart(d) /\ PlaceOf(b).col = b - LineStart(b)
  BY PlaceByNewlines
<1>6. LineStart(d) \in Nat /\ LineStart(b) \in Nat
  BY LineStartType
<1> QED
  BY <1>1, <1>4, <1>5, <1>6

\* No newline stands between a byte and the start of its row.
LEMMA RowBegins ==
    ASSUME NEW b \in Nat, NEW i \in 1 .. b, i <= N, Doc[i] = Newline
    PROVE i <= LineStart(b)
<1> DEFINE l == LineStart(b)
<1>1. l \in 0 .. b /\ l \in Nat
  BY LineStartType
<1>2. PlaceOf(l).row = PlaceOf(b).row
  BY PlaceOfRowStart
<1>3. /\ PlaceOf(l).row = Cardinality(NewlinesTo(l)) /\ PlaceOf(b).row = Cardinality(NewlinesTo(b))
      /\ IsFiniteSet(NewlinesTo(b)) /\ NewlinesTo(b) \subseteq 1 .. b
  BY <1>1, PlaceByNewlines, NewlinesFinite
<1>4. NewlinesTo(l) \subseteq NewlinesTo(b)
  BY <1>1 DEF NewlinesTo
<1>5. NewlinesTo(l) = NewlinesTo(b)
  BY <1>2, <1>3, <1>4, FS_Subset
<1>6. i \in NewlinesTo(l)
  BY <1>5 DEF NewlinesTo
<1>7. NewlinesTo(l) \subseteq 1 .. l
  BY <1>1, NewlinesFinite
<1>8. l = LineStart(b)
  OBVIOUS
<1> HIDE DEF l
<1> QED
  BY <1>1, <1>6, <1>7, <1>8

\* A place in or behind a row is in a row that starts no earlier.
LEMMA RowsOnward ==
    ASSUME NEW b \in Nat, NEW d \in Nat, LineStart(b) <= d
    PROVE LineStart(b) <= LineStart(d)
<1>1. LineStart(b) \in Nat /\ LineStart(d) \in Nat
  BY LineStartType
<1>2. CASE LineStart(b) = 0
  BY <1>1, <1>2
<1>3. CASE LineStart(b) # 0
  <2>1. LineStart(b) <= N /\ Doc[LineStart(b)] = Newline /\ LineStart(b) \in 1 .. d
    BY <1>1, <1>3, LineStartType
  <2> QED
    BY <2>1, RowBegins
<1> QED
  BY <1>2, <1>3

LEMMA InColumnFinite ==
    ASSUME NEW rs, RangeList(rs), NEW b
    PROVE IsFiniteSet(InColumn(b, rs)) /\ ColumnOf(b, rs) \in Nat
<1>1. InColumn(b, rs) \in SUBSET Starts(rs)
  BY DEF InColumn
<1>2. IsFiniteSet(InColumn(b, rs))
  BY <1>1, StartsFinite, FS_Subset
<1> QED
  BY <1>2, FS_CardinalityType DEF ColumnOf

\* Between bytes of a row without a character between them the count stays,
LEMMA ColumnSame ==
    ASSUME NEW rs, NEW b, NEW d, LineStart(b) = LineStart(d), SameRank(b, d, rs)
    PROVE ColumnOf(b, rs) = ColumnOf(d, rs)
<1>1. InColumn(b, rs) = InColumn(d, rs)
  BY DEF InColumn, SameRank
<1> QED
  BY <1>1 DEF ColumnOf

\* over a character it goes up by one,
LEMMA ColumnNext ==
    ASSUME NEW rs, RangeList(rs), NEW b \in Starts(rs), NEW d, NextRank(b, d, rs),
           LineStart(d) = LineStart(b), ~(b = 0 /\ Decode(0, N).code = BOM)
    PROVE ColumnOf(d, rs) = ColumnOf(b, rs) + 1
<1>1. \A x \in Starts(rs) : x \in Nat
  BY StartsIn
<1>2. LineStart(b) <= b /\ ~(b < b)
  BY <1>1, LineStartType
<1>3. b \notin InColumn(b, rs)
  BY <1>2 DEF InColumn
<1>4. InColumn(d, rs) = InColumn(b, rs) \cup {b}
  <2>1. ASSUME NEW x \in Starts(rs) PROVE x < d <=> x < b \/ x = b
    <3>1. x < d <=> x <= b
      BY DEF NextRank
    <3> QED
      BY <1>1, <3>1
  <2>2. ASSUME NEW x PROVE x \in InColumn(d, rs) <=> x \in InColumn(b, rs) \/ x = b
    BY <1>2, <2>1 DEF InColumn
  <2> QED
    BY <2>2
<1> QED
  BY <1>3, <1>4, InColumnFinite, FS_AddElement DEF ColumnOf

\* and where no character of the row stands before, it is none.
LEMMA ColumnNone ==
    ASSUME NEW rs, NEW d,
           \A x \in Starts(rs) : x < d =>
              ~(LineStart(d) <= x) \/ (x = 0 /\ Decode(0, N).code = BOM)
    PROVE ColumnOf(d, rs) = 0
<1>1. InColumn(d, rs) = {}
  BY DEF InColumn
<1> QED
  BY <1>1, FS_EmptySet DEF ColumnOf
-----------------------------------------------------------------------------
(* Where the methods of the lexer come to.                                 *)

\* The last range ends last.
LEMMA LastEnds ==
    ASSUME NEW rs, RangeList(rs), Ordered(rs)
    PROVE /\ Len(rs) \in 1 .. Len(rs) /\ rs[Len(rs)].end \in Nat
          /\ \A i \in 1 .. Len(rs) : rs[i].end <= rs[Len(rs)].end
<1>1. Len(rs) \in Nat /\ Len(rs) \in 1 .. Len(rs)
  BY DEF RangeList
<1>2. \A i \in 1 .. Len(rs) : rs[i].start \in Nat /\ rs[i].end \in Nat
  BY RangeBounds
<1>3. ASSUME NEW i \in 1 .. Len(rs) PROVE rs[i].end <= rs[Len(rs)].end
  <2>1. i < Len(rs) => rs[i].end <= rs[Len(rs)].start
    BY <1>1, OrderedAll
  <2>2. rs[Len(rs)].start <= rs[Len(rs)].end
    BY <1>1 DEF Ordered
  <2>3. i = Len(rs) \/ i < Len(rs)
    BY <1>1
  <2> QED
    BY <1>1, <1>2, <2>1, <2>2, <2>3
<1> QED
  BY <1>1, <1>2, <1>3

\* gotoPosition settles, in the row it was sent to if that place was settled, and goes back
\* to the end of the ranges only.
LEMMA GotoSettles ==
    ASSUME NEW rs, RangeList(rs), Ordered(rs), NEW c, NEW place \in Place
    PROVE LET d == Goto(c, place, rs)
              b == place.bytes
          IN /\ d.pos.bytes \in Nat
             /\ d.column = IF b # c.pos.bytes THEN NoColumn ELSE c.column
             /\ Settled(d.pos.bytes, rs)
             /\ Settled(b, rs) => LineStart(d.pos.bytes) = LineStart(b)
             /\ AllOver(b, rs) => d.pos.bytes = rs[Len(rs)].end
             /\ ~AllOver(b, rs) => b <= d.pos.bytes
<1> DEFINE b == place.bytes
           later == {i \in 1 .. Len(rs) : rs[i].end > b /\ Used(rs[i])}
           i == LeastOf(later)
           at == IF rs[i].start >= b THEN PlaceOf(rs[i].start) ELSE place
           column == IF b # c.pos.bytes THEN NoColumn ELSE c.column
           kept == c.chunk.start <= at.bytes /\ at.bytes < c.chunk.start + c.chunk.len
           chunk == IF kept THEN c.chunk ELSE NoChunk
           d == Goto(c, place, rs)
           last == rs[Len(rs)]
<1>1. /\ Len(rs) \in Nat /\ Len(rs) \in 1 .. Len(rs) /\ last.end \in Nat
      /\ \A j \in 1 .. Len(rs) : rs[j].end <= last.end
  BY LastEnds
<1>2. \A j \in 1 .. Len(rs) : rs[j].start \in Nat /\ rs[j].end \in Nat
  BY RangeBounds
<1>3. b \in Nat /\ N \in Nat
  BY TextAssumption DEF Place, N
<1>4. CASE later # {}
  <2>1. later \in SUBSET Nat
    BY <1>1
  <2>2. i \in later /\ \A y \in later : i <= y
    BY <1>4, <2>1, LeastExists
  <2>3. i \in 1 .. Len(rs) /\ rs[i].end > b /\ Used(rs[i])
    BY <2>2
  <2>4. d = [pos |-> at, index |-> i, chunk |-> chunk, ahead |-> NothingAhead,
             column |-> column]
    BY <1>4 DEF Goto
  <2>5. at.bytes = IF rs[i].start >= b THEN rs[i].start ELSE b
    BY <1>2, <2>3, PlaceOfType
  <2>6. ASSUME NEW k \in 1 .. Len(rs), rs[k].start <= b, b < rs[k].end PROVE rs[i].start <= b
    <3>1. Used(rs[k])
      BY <1>2, <1>3, <2>6 DEF Used
    <3>2. i <= k
      BY <1>2, <1>3, <2>2, <2>6, <3>1
    <3>3. i < k => rs[i].end <= rs[k].start
      BY <2>3, OrderedAll
    <3> QED
      BY <1>1, <1>2, <1>3, <2>3, <2>6, <3>2, <3>3
  <2> HIDE DEF i, at, chunk, column, later
  <2>7. d.pos = at /\ d.column = column
    BY <2>4
  <2> HIDE DEF d
  <2>8. /\ at.bytes \in Nat /\ b <= at.bytes
        /\ rs[i].start <= at.bytes /\ at.bytes < rs[i].end
    BY <1>2, <1>3, <2>3, <2>5 DEF Used
  <2>9. ~AllOver(at.bytes, rs) /\ ~AllOver(b, rs)
    BY <1>2, <1>3, <2>3, <2>8 DEF AllOver
  <2>10. Settled(at.bytes, rs)
    BY <2>3, <2>8, <2>9 DEF Settled
  <2>11. ASSUME Settled(b, rs) PROVE LineStart(at.bytes) = LineStart(b)
    <3>1. CASE N <= b
      <4>1. \A n \in b .. at.bytes - 1 : n < N => Doc[n + 1] # Newline
        BY <1>3, <2>8, <3>1
      <4> QED
        BY <1>3, <2>8, <4>1, RowKept
    <3>2. CASE \E k \in 1 .. Len(rs) : rs[k].start <= b /\ b < rs[k].end
      <4>1. rs[i].start <= b
        BY <2>6, <3>2
      <4>2. at.bytes = b
        BY <1>2, <1>3, <2>3, <2>5, <4>1
      <4> QED
        BY <4>2
    <3> QED
      BY <2>9, <2>11, <3>1, <3>2 DEF Settled
  <2> QED
    BY <2>7, <2>8, <2>9, <2>10, <2>11 DEF column, d, b
<1>5. CASE later = {}
  <2>1. d = [pos |-> PlaceOf(last.end), index |-> End(rs), chunk |-> NoChunk,
             ahead |-> AtEnd, column |-> column]
    BY <1>5 DEF Goto
  <2>2. PlaceOf(last.end).bytes = last.end
    BY <1>1, PlaceOfType
  <2>3. \A j \in 1 .. Len(rs) : rs[j].end <= b \/ ~Used(rs[j])
    BY <1>2, <1>3, <1>5
  <2> HIDE DEF column, later
  <2>4. d.pos.bytes = last.end /\ d.column = column
    BY <2>1, <2>2
  <2> HIDE DEF d
  <2>5. Settled(last.end, rs)
    BY <1>1 DEF Settled, AllOver
  <2>6. ~AllOver(b, rs) => b <= last.end
    BY <1>1, <1>2, <1>3 DEF AllOver
  <2>7. ASSUME Settled(b, rs) PROVE LineStart(last.end) = LineStart(b)
    <3>1. CASE AllOver(b, rs)
      BY <2>7, <3>1 DEF Settled
    <3>2. CASE ~AllOver(b, rs)
      <4>1. ~\E k \in 1 .. Len(rs) : rs[k].start <= b /\ b < rs[k].end
        BY <1>2, <1>3, <2>3 DEF Used
      <4>2. N <= b
        BY <2>7, <3>2, <4>1 DEF Settled
      <4>3. \A n \in b .. last.end - 1 : n < N => Doc[n + 1] # Newline
        BY <1>1, <1>3, <4>2
      <4> QED
        BY <1>1, <1>3, <2>6, <3>2, <4>3, RowKept
    <3> QED
      BY <3>1, <3>2
  <2> HIDE DEF last
  <2> QED
    BY <1>1, <2>4, <2>5, <2>6, <2>7 DEF column, d, b, last
<1> QED
  BY <1>4, <1>5

\* No newline is between a range and the next one that has text.
LEMMA GapInRow ==
    ASSUME NEW rs, RangeList(rs), Ordered(rs), RowsWhole(rs),
           NEW k \in 1 .. Len(rs), NEW j \in 1 .. Len(rs),
           \A i \in k + 1 .. Len(rs) : Used(rs[i]) => rs[j].start <= rs[i].start,
           NEW n \in Nat, rs[k].end <= n, n < rs[j].start, n < N
    PROVE Doc[n + 1] # Newline
<1> SUFFICES ASSUME Doc[n + 1] = Newline PROVE FALSE
  OBVIOUS
<1>1. n \in 0 .. N - 1
  BY TextAssumption DEF N
<1>2. PICK m \in 1 .. Len(rs) : rs[m].start <= n /\ n < rs[m].end
  BY <1>1 DEF RowsWhole
<1>3. \A i \in 1 .. Len(rs) : rs[i].start \in Nat /\ rs[i].end \in Nat /\ i \in Nat
  BY RangeBounds
<1>4. m <= k => rs[m].end <= rs[k].end
  <2>1. m < k => rs[m].end <= rs[k].start
    BY OrderedAll
  <2>2. rs[k].start <= rs[k].end
    BY DEF Ordered
  <2> QED
    BY <1>3, <2>1, <2>2
<1>5. m \in k + 1 .. Len(rs) /\ Used(rs[m])
  BY <1>2, <1>3, <1>4 DEF Used
<1>6. rs[j].start <= rs[m].start
  BY <1>5
<1> QED
  BY <1>2, <1>3, <1>6

\* Behind a character doAdvance settles, in the same row unless that was a newline.
LEMMA InNextRangeSettles ==
    ASSUME RangeList(ranges), Ordered(ranges), RowsWhole(ranges), NEW c \in Cursor,
           c.index \in 1 .. Len(ranges), NEW b \in CharsOf(ranges[c.index]),
           c.pos.bytes = b + Decode(b, N).size
    PROVE LET d == InNextRange(c)
          IN /\ d.column = c.column /\ d.pos.bytes \in Nat /\ b < d.pos.bytes
             /\ Settled(d.pos.bytes, ranges)
             /\ Decode(b, N).code # Newline => LineStart(d.pos.bytes) = LineStart(b)
<1> DEFINE k == c.index
           later == {i \in k + 1 .. Len(ranges) : Used(ranges[i])}
           j == LeastOf(later)
           d == InNextRange(c)
           e == b + Decode(b, N).size
           last == ranges[Len(ranges)]
<1>1. /\ Len(ranges) \in Nat /\ k \in Nat /\ k \in 1 .. Len(ranges)
      /\ End(ranges) = Len(ranges) + 1
  BY DEF RangeList, End
<1>2. \A i \in 1 .. Len(ranges) : ranges[i].start \in Nat /\ ranges[i].end \in Nat
  BY RangeBounds
<1>3. /\ b \in Nat /\ b < N /\ ranges[k].start <= b /\ b < ranges[k].end /\ Used(ranges[k])
  BY <1>1, <1>2, CharsOfRange DEF Used
<1>4. e \in Nat /\ c.pos.bytes = e /\ b < e /\ N \in Nat
  BY <1>3, SizeType, TextAssumption DEF N
<1>5. \/ Decode(b, N).code = Newline /\ e = b + 1
      \/ Decode(b, N).code # Newline /\ \A i \in b + 1 .. e : Doc[i] # Newline
  <2>1. N \in b + 1 .. N
    BY <1>3, <1>4
  <2> QED
    BY <1>3, <2>1, DecodeSees
<1>6. ASSUME NEW q \in Nat, Decode(b, N).code # Newline, b <= q,
             \A n \in Nat : e <= n /\ n < q /\ n < N => Doc[n + 1] # Newline
      PROVE LineStart(q) = LineStart(b)
  <2>1. ASSUME NEW n \in b .. q - 1, n < N PROVE Doc[n + 1] # Newline
    <3>1. n \in Nat /\ (n < e => n + 1 \in b + 1 .. e)
      BY <1>3, <1>4, <1>6, <2>1
    <3> QED
      BY <1>4, <1>5, <1>6, <2>1, <3>1
  <2> HIDE DEF e
  <2> QED
    BY <1>3, <1>6, <2>1, RowKept
<1>7. CASE e < ranges[k].end
  <2>1. d = c
    BY <1>3, <1>4, <1>7 DEF InNextRange
  <2>2. Settled(e, ranges)
    <3>1. ranges[k].start <= e /\ ~AllOver(e, ranges)
      BY <1>1, <1>2, <1>3, <1>4, <1>7 DEF AllOver
    <3> HIDE DEF e
    <3> QED
      BY <1>1, <1>7, <3>1 DEF Settled
  <2>3. Decode(b, N).code # Newline => LineStart(e) = LineStart(b)
    BY <1>3, <1>4, <1>6
  <2> HIDE DEF d, e
  <2> QED
    BY <1>4, <2>1, <2>2, <2>3 DEF d
<1>8. CASE ~(e < ranges[k].end) /\ later # {}
  <2>1. later \in SUBSET Nat
    BY <1>1
  <2>2. j \in later /\ \A y \in later : j <= y
    BY <1>8, <2>1, LeastExists
  <2>3. /\ j \in 1 .. Len(ranges) /\ k < j /\ Used(ranges[j])
        /\ \A i \in k + 1 .. Len(ranges) : Used(ranges[i]) => j <= i
    BY <1>1, <2>2
  <2>4. d = [c EXCEPT !.index = j, !.pos = PlaceOf(ranges[j].start)]
    BY <1>1, <1>4, <1>8 DEF InNextRange, EOF
  <2> HIDE DEF j, later, d
  <2> DEFINE q == ranges[j].start
  <2>5. d.pos = PlaceOf(q) /\ d.column = c.column
    BY <2>4 DEF Cursor
  <2>6. d.pos.bytes = q /\ q \in Nat /\ q < ranges[j].end
    BY <1>2, <2>3, <2>5, PlaceOfType DEF Used
  <2>7. ranges[k].end <= q
    BY <1>1, <2>3, OrderedAll
  <2>8. b < q
    BY <1>1, <1>2, <1>3, <2>6, <2>7
  <2>9. Settled(q, ranges)
    <3>1. ~AllOver(q, ranges)
      BY <1>2, <2>3, <2>6 DEF AllOver
    <3>2. q <= q
      BY <2>6
    <3> QED
      BY <2>3, <2>6, <3>1, <3>2 DEF Settled
  <2>10. ASSUME NEW i \in k + 1 .. Len(ranges), Used(ranges[i]) PROVE q <= ranges[i].start
    <3>1. i \in 1 .. Len(ranges) /\ j <= i
      BY <1>1, <2>3, <2>10
    <3>2. j < i => ranges[j].end <= ranges[i].start
      BY <2>3, <3>1, OrderedAll
    <3> QED
      BY <1>2, <2>3, <2>6, <3>1, <3>2
  <2>11. ASSUME NEW n \in Nat, e <= n, n < q, n < N PROVE Doc[n + 1] # Newline
    <3>1. ranges[k].end <= n
      BY <1>1, <1>2, <1>4, <1>8, <2>11
    <3> QED
      BY <1>1, <2>3, <2>10, <2>11, <3>1, GapInRow
  <2>12. Decode(b, N).code # Newline => LineStart(q) = LineStart(b)
    BY <1>3, <1>6, <2>6, <2>8, <2>11
  <2> HIDE DEF q
  <2> QED
    BY <2>5, <2>6, <2>8, <2>9, <2>12 DEF d
<1>9. CASE ~(e < ranges[k].end) /\ later = {}
  <2> DEFINE pos == IF k < Len(ranges) THEN PlaceOf(last.start) ELSE c.pos
             q == pos.bytes
  <2>1. d = [c EXCEPT !.index = End(ranges), !.pos = pos]
    BY <1>1, <1>4, <1>9 DEF InNextRange, EOF
  <2>2. \A i \in k + 1 .. Len(ranges) : ~Used(ranges[i])
    BY <1>9
  <2> HIDE DEF d, later
  <2>3. d.pos = pos /\ d.column = c.column
    BY <2>1 DEF Cursor
  <2>4. /\ Len(ranges) \in 1 .. Len(ranges) /\ last.end \in Nat /\ last.start \in Nat
        /\ \A i \in 1 .. Len(ranges) : ranges[i].end <= last.end
    BY <1>2, LastEnds
  <2>5. CASE k < Len(ranges)
    <3>1. ~Used(last) /\ last.start <= last.end
      BY <1>1, <2>2, <2>4, <2>5 DEF Ordered
    <3>2. last.start = last.end
      BY <2>4, <3>1 DEF Used
    <3>3. q = last.start
      BY <2>4, <2>5, PlaceOfType
    <3>4. ranges[k].end <= last.start
      BY <1>1, <2>4, <2>5, OrderedAll
    <3> HIDE DEF pos, q
    <3>5. q \in Nat /\ b < q
      BY <1>1, <1>2, <1>3, <2>4, <3>3, <3>4
    <3>6. Settled(q, ranges)
      BY <2>4, <3>2, <3>3 DEF Settled, AllOver
    <3>7. ASSUME NEW n \in Nat, e <= n, n < q, n < N PROVE Doc[n + 1] # Newline
      <4>1. ranges[k].end <= n /\ n < last.start
        BY <1>1, <1>2, <1>4, <1>9, <3>3, <3>7
      <4> QED
        BY <1>1, <2>2, <2>4, <3>7, <4>1, GapInRow
    <3>8. Decode(b, N).code # Newline => LineStart(q) = LineStart(b)
      BY <1>3, <1>6, <3>5, <3>7
    <3> QED
      BY <2>3, <3>5, <3>6, <3>8 DEF q, d
  <2>6. CASE ~(k < Len(ranges))
    <3>1. k = Len(ranges) /\ q = e
      BY <1>1, <1>4, <2>6
    <3> HIDE DEF pos, q
    <3>2. last.end <= e /\ b < last.end
      BY <1>2, <1>3, <1>4, <1>9, <2>4, <3>1
    <3>3. LineStart(e) = LineStart(last.end)
      <4>1. ASSUME NEW n \in last.end .. e - 1, n < N PROVE Doc[n + 1] # Newline
        <5>1. n + 1 \in b + 1 .. e /\ e # b + 1
          BY <1>3, <1>4, <2>4, <3>2
        <5> QED
          BY <1>5, <5>1
      <4> HIDE DEF e
      <4> QED
        BY <1>4, <2>4, <3>2, <4>1, RowKept
    <3>4. AllOver(e, ranges)
      <4> HIDE DEF e, last
      <4> QED
        BY <1>2, <1>4, <2>4, <3>2 DEF AllOver
    <3>5. Settled(e, ranges)
      BY <3>3, <3>4 DEF Settled
    <3>6. Decode(b, N).code # Newline => LineStart(e) = LineStart(b)
      BY <1>3, <1>4, <1>6
    <3> HIDE DEF e, last
    <3> QED
      BY <1>4, <2>3, <3>1, <3>5, <3>6 DEF q, d
  <2> QED
    BY <2>5, <2>6
<1> QED
  BY <1>7, <1>8, <1>9

\* getChunk and getLookahead neither move nor count.
LEMMA ReadingStays ==
    ASSUME RangeList(ranges), NEW c \in Cursor
    PROVE /\ GetChunk(c) \in Cursor
          /\ GetChunk(c).pos = c.pos /\ GetChunk(c).column = c.column
          /\ GetLookahead(c).pos = c.pos /\ GetLookahead(c).column = c.column
<1> DEFINE limit == c.chunk.start + c.chunk.len
           seen == Decode(c.pos.bytes, limit)
           next == GetChunk(c)
           seen2 == Decode(c.pos.bytes, next.chunk.start + next.chunk.len)
<1>1. GetLookahead(c) = IF c.pos.bytes = limit THEN [c EXCEPT !.ahead = AtEnd]
                        ELSE IF seen.code = Bad /\ limit - c.pos.bytes < 4
                        THEN [next EXCEPT !.ahead = seen2] ELSE [c EXCEPT !.ahead = seen]
  BY DEF GetLookahead
<1>2. next \in Cursor /\ next.pos = c.pos /\ next.column = c.column
  <2>1. next \in Cursor /\ next.pos = c.pos
    BY GetChunkIs
  <2> QED
    BY <2>1 DEF GetChunk, Cursor
<1>3. GetChunk(c) = next
  OBVIOUS
<1> HIDE DEF limit, seen, next, seen2
<1> QED
  BY <1>1, <1>2, <1>3 DEF Cursor

\* Once the lookahead is passed the count is that of where the lexer comes to next.
LEMMA PassedCounts ==
    ASSUME RangeList(ranges), Ordered(ranges), NEW c \in Cursor,
           NEW b \in Starts(ranges), c.pos.bytes = b, c.ahead = Decode(b, N),
           Counted(b, c.column, ranges), NEW q \in Nat, b < q, NextRank(b, q, ranges),
           Decode(b, N).code # Newline => LineStart(q) = LineStart(b)
    PROVE Counted(q, Passed(c).column, ranges)
<1> DEFINE zero == [value |-> 0, valid |-> TRUE]
           skipped == Decode(b, N).code = BOM /\ b = 0
           up == [c.column EXCEPT !.value = @ + 1]
           column == Passed(c).column
<1>1. /\ b \in Nat /\ b < N /\ N \in Nat /\ \A x \in Starts(ranges) : x \in Nat
  BY StartsIn, TextAssumption DEF N
<1>2. c.column.value \in Nat /\ c.column.valid \in BOOLEAN /\ c.column \in Column
  BY DEF Cursor, Column
<1>3. Decode(b, N).size # 0
  BY <1>1, SizeType
<1>4. column = IF Decode(b, N).code = Newline THEN zero
               ELSE IF c.column.valid /\ ~skipped THEN up ELSE c.column
  BY <1>3 DEF Passed, Cursor
<1>5. up.value = c.column.value + 1 /\ up.valid = c.column.valid
  BY <1>2 DEF Column
<1> HIDE DEF column, up
<1> SUFFICES ASSUME column.valid PROVE column.value = ColumnOf(q, ranges)
  BY DEF Counted, column
<1>6. CASE Decode(b, N).code = Newline
  <2>1. Doc[b + 1] = Newline
    <3>1. N \in b + 1 .. N
      BY <1>1
    <3> QED
      BY <1>1, <1>6, <3>1, DecodeSees
  <2>2. b + 1 <= LineStart(q)
    <3>1. b + 1 \in 1 .. q /\ b + 1 <= N
      BY <1>1
    <3> QED
      BY <2>1, <3>1, RowBegins
  <2>3. LineStart(q) \in Nat
    BY LineStartType
  <2>4. ASSUME NEW x \in Starts(ranges), x < q PROVE ~(LineStart(q) <= x)
    <3>1. x <= b
      BY <2>4 DEF NextRank
    <3> QED
      BY <1>1, <2>2, <2>3, <3>1
  <2>5. ColumnOf(q, ranges) = 0
    BY <2>4, ColumnNone
  <2> QED
    BY <1>4, <1>6, <2>5
<1>7. CASE Decode(b, N).code # Newline /\ skipped
  <2>1. column = c.column
    BY <1>4, <1>7
  <2>2. ColumnOf(b, ranges) = 0
    BY <1>1, <1>7, ColumnNone
  <2>3. ASSUME NEW x \in Starts(ranges), x < q PROVE x = 0 /\ Decode(0, N).code = BOM
    <3>1. x <= b
      BY <2>3 DEF NextRank
    <3>2. b = 0 /\ Decode(0, N).code = BOM
      BY <1>7
    <3>3. x = 0
      BY <1>1, <3>1, <3>2
    <3> QED
      BY <3>2, <3>3
  <2>4. ColumnOf(q, ranges) = 0
    BY <2>3, ColumnNone
  <2> QED
    BY <2>1, <2>2, <2>4 DEF Counted
<1>8. CASE Decode(b, N).code # Newline /\ ~skipped
  <2>1. c.column.valid /\ column = up
    BY <1>4, <1>8
  <2>2. ~(b = 0 /\ Decode(0, N).code = BOM)
    BY <1>8
  <2>3. ColumnOf(q, ranges) = ColumnOf(b, ranges) + 1
    BY <1>8, <2>2, ColumnNext
  <2> QED
    BY <1>5, <2>1, <2>3 DEF Counted
<1> QED
  BY <1>6, <1>7, <1>8

\* doAdvance counts right, and settles.
LEMMA DoAdvanceCounts ==
    ASSUME Readable, RangeList(ranges), Ordered(ranges), RowsWhole(ranges),
           NEW c, Good(c, ranges), ~EOF(c), Exact(c, ranges), c.ahead.size # 0,
           Clear(c.pos.bytes, ranges)
    PROVE LET d == DoAdvance(c)
          IN /\ Settled(d.pos.bytes, ranges)
             /\ Counted(c.pos.bytes, c.column, ranges)
                   => Counted(d.pos.bytes, d.column, ranges)
<1> DEFINE p == Passed(c)
           d == InNextRange(p)
           b == c.pos.bytes
           f == DoAdvance(c)
<1>1. /\ c.index \in 1 .. Len(ranges) /\ Chunked(c) /\ c.ahead = Decode(b, N)
      /\ b \in Nat /\ b < N /\ b \in CharsOf(ranges[c.index]) /\ b \in Starts(ranges)
  BY AtCharacter
<1>2. c \in Cursor /\ c.pos.col <= c.pos.bytes
  BY DEF Good
<1>3. p \in Cursor /\ p.pos.col <= p.pos.bytes /\ p.index = c.index
  BY <1>2, PassedType
<1>4. p.pos.bytes = b + Decode(b, N).size
  BY <1>1, <1>2 DEF Passed, Cursor
<1>5. /\ d.column = p.column /\ d.pos.bytes \in Nat /\ b < d.pos.bytes
      /\ Settled(d.pos.bytes, ranges)
      /\ Decode(b, N).code # Newline => LineStart(d.pos.bytes) = LineStart(b)
  <2> HIDE DEF p
  <2> QED
    BY <1>1, <1>3, <1>4, InNextRangeSettles
<1>6. NextRank(b, d.pos.bytes, ranges)
  <2> HIDE DEF p
  <2> QED
    BY <1>1, <1>3, <1>4, InNextRangeLands
<1>7. Counted(b, c.column, ranges) => Counted(d.pos.bytes, p.column, ranges)
  <2> HIDE DEF d
  <2> QED
    BY <1>1, <1>2, <1>5, <1>6, PassedCounts
<1>8. d \in Cursor
  <2>1. p.pos.bytes \in Nat /\ b <= p.pos.bytes
    BY <1>1, <1>4, SizeType
  <2>2. ranges[c.index].start \in Nat /\ ranges[c.index].end \in Nat
    BY <1>1, RangeBounds
  <2>3. ranges[c.index].start <= b
    BY <1>1, <2>2, CharsOfRange
  <2> HIDE DEF p
  <2>4. p.index \in 1 .. End(ranges) /\ (~EOF(p) => ranges[p.index].start <= p.pos.bytes)
    BY <1>1, <1>3, <2>1, <2>2, <2>3 DEF Good
  <2> QED
    BY <1>3, <2>4, InNextRangeGood
<1>9. f = IF EOF(d) THEN [d EXCEPT !.chunk = NoChunk, !.ahead = AtEnd]
          ELSE GetLookahead(IF InChunk(d) THEN d ELSE GetChunk(d))
  BY DEF DoAdvance
<1>10. f.pos = d.pos /\ f.column = d.column
  <2> HIDE DEF d, f
  <2> QED
    BY <1>8, <1>9, ReadingStays DEF Cursor
<1> HIDE DEF d, p, f
<1> QED
  BY <1>5, <1>7, <1>10 DEF f

\* So does Advance, with its short cut.
LEMMA AdvancedCounts ==
    ASSUME Readable, MarkWide, RangeList(ranges), Ordered(ranges), RowsWhole(ranges),
           NEW c, Good(c, ranges), ~EOF(c), Exact(c, ranges), c.ahead.size # 0,
           Clear(c.pos.bytes, ranges)
    PROVE LET d == Advanced(c)
          IN /\ Settled(d.pos.bytes, ranges)
             /\ Counted(c.pos.bytes, c.column, ranges)
                   => Counted(d.pos.bytes, d.column, ranges)
<1> DEFINE b == c.pos.bytes
<1>1. /\ c.index \in 1 .. Len(ranges) /\ Chunked(c) /\ c.ahead = Decode(b, N)
      /\ b \in Nat /\ b < N /\ b \in CharsOf(ranges[c.index]) /\ b \in Starts(ranges)
  BY AtCharacter
<1>2. c \in Cursor /\ c.column \in Column /\ N \in Nat
  BY TextAssumption DEF Good, Cursor, N
<1>3. CASE ~ShortCut(c)
  BY <1>1, <1>3, DoAdvanceCounts DEF Advanced
<1>4. CASE ShortCut(c)
  <2> DEFINE d == Stepped(c)
             pos == [bytes |-> b + 1, row |-> c.pos.row, col |-> c.pos.col + 1]
             up == [c.column EXCEPT !.value = @ + 1]
             column == IF c.column.valid THEN up ELSE c.column
             ahead == [code |-> Doc[b + 2], size |-> 1]
  <2>1. /\ Decode(b, N).size = 1 /\ Decode(b, N).code # Newline
        /\ b + 1 < ranges[c.index].end
    BY <1>1, <1>4 DEF ShortCut
  <2>2. d = [c EXCEPT !.pos = pos, !.column = column, !.ahead = ahead]
    BY DEF Stepped
  <2>3. Advanced(c) = d
    BY <1>1, <1>4 DEF Advanced
  <2>4. up.value = c.column.value + 1 /\ up.valid = c.column.valid
    BY <1>2 DEF Column
  <2> HIDE DEF d, column, up
  <2>5. d.pos.bytes = b + 1 /\ d.column = column
    BY <1>2, <2>2 DEF Cursor
  <2>6. Settled(b + 1, ranges)
    <3>1. /\ ranges[c.index].start \in Nat /\ ranges[c.index].end \in Nat
          /\ ranges[c.index].start <= b
      BY <1>1, RangeBounds, CharsOfRange
    <3>2. ranges[c.index].start <= b + 1 /\ ~AllOver(b + 1, ranges)
      BY <1>1, <2>1, <3>1 DEF AllOver
    <3> QED
      BY <1>1, <2>1, <3>2 DEF Settled
  <2>7. LineStart(b + 1) = LineStart(b)
    <3>1. N \in b + 1 .. N
      BY <1>1, <1>2
    <3>2. \A i \in b + 1 .. b + 1 : Doc[i] # Newline
      BY <1>1, <2>1, <3>1, DecodeSees
    <3>3. \A n \in b .. (b + 1) - 1 : n < N => Doc[n + 1] # Newline
      BY <1>1, <3>2
    <3> QED
      BY <1>1, <3>3, RowKept
  <2>8. NextRank(b, b + 1, ranges)
    BY <1>1, <2>1, NextInRange
  <2>9. ~(b = 0 /\ Decode(0, N).code = BOM)
    <3> SUFFICES ASSUME b = 0, Decode(b, N).code = BOM PROVE FALSE
      OBVIOUS
    <3>1. BOM # Bad
      BY TextAssumption, NewlineAssumption
    <3>2. Doc[b + 1] = BOM /\ Decode(b, N).size = Width[BOM]
      BY <3>1 DEF Decode
    <3> QED
      BY <2>1, <3>2 DEF MarkWide
  <2>10. ColumnOf(b + 1, ranges) = ColumnOf(b, ranges) + 1
    BY <1>1, <2>7, <2>8, <2>9, ColumnNext
  <2>11. Counted(b, c.column, ranges) => Counted(b + 1, column, ranges)
    BY <2>4, <2>10 DEF Counted, column
  <2> QED
    BY <2>3, <2>5, <2>6, <2>11
<1> QED
  BY <1>3, <1>4

\* So does lex when it sends the lexer to a place, after which the count is kept only where
\* the lexer has not moved.
LEMMA ResetCounts ==
    ASSUME RangeList(ranges), Ordered(ranges), NEW c \in Cursor,
           Settled(c.pos.bytes, ranges), NEW place \in Place
    PROVE LET d == Reset(c, place)
          IN /\ Settled(d.pos.bytes, ranges)
             /\ \/ d = c /\ c.pos.bytes = place.bytes
                \/ ~d.column.valid
<1>1. CASE place.bytes # c.pos.bytes
  <2>1. Reset(c, place) = Goto(c, place, ranges)
    BY <1>1 DEF Reset
  <2> QED
    BY <1>1, <2>1, GotoSettles DEF NoColumn
<1>2. CASE place.bytes = c.pos.bytes
  BY <1>2 DEF Reset
<1> QED
  BY <1>1, <1>2

\* At the start of the document nothing is counted yet.
LEMMA ColumnAtStart ==
    ASSUME NEW rs, RangeList(rs)
    PROVE ColumnOf(0, rs) = 0
<1>1. \A x \in Starts(rs) : ~(x < 0)
  BY StartsIn
<1> QED
  BY <1>1, ColumnNone
-----------------------------------------------------------------------------
(* Every action keeps CInv.                                                *)

\* Enough for a step that leaves the ranges alone.
LEMMA KeepsCInv ==
    ASSUME CInv, ranges' = ranges, Settled(cursor'.pos.bytes, ranges),
           phase' = "between" => (cursor'.column.valid => cursor'.column.value = 0),
           phase' # "between" => Counted(cursor'.pos.bytes, cursor'.column, ranges),
           phase' \in {"scanning", "scanned"} =>
              /\ Settled(saved'.pos.bytes, ranges)
              /\ Counted(saved'.pos.bytes, saved'.column, ranges)
    PROVE CInv'
<1>1. RowsWhole(ranges)'
  BY DEF CInv, RowsWhole
<1>2. Settled(cursor.pos.bytes, ranges)'
  BY DEF Settled, AllOver
<1>3. (phase # "between" => Counted(cursor.pos.bytes, cursor.column, ranges))'
  BY DEF Counted, ColumnOf, InColumn
<1>4. (phase \in {"scanning", "scanned"} =>
          /\ Settled(saved.pos.bytes, ranges)
          /\ Counted(saved.pos.bytes, saved.column, ranges))'
  BY DEF Settled, AllOver, Counted, ColumnOf, InColumn
<1> QED
  BY <1>1, <1>2, <1>3, <1>4 DEF CInv

\* A new lexer stands in its range, and counts nothing.
LEMMA InitCInv == Init => CInv
<1> SUFFICES ASSUME Init PROVE CInv
  OBVIOUS
<1>1. N \in Nat
  BY TextAssumption DEF N
<1>2. ranges = <<[start |-> 0, end |-> N + 1]>> /\ Len(ranges) = 1
  BY DEF Init
<1>3. ranges[1].start = 0 /\ ranges[1].end = N + 1 /\ \A i \in 1 .. Len(ranges) : i = 1
  BY <1>2
<1>4. RowsWhole(ranges)
  <2>1. \A n \in 0 .. N - 1 : \A i \in 1 .. Len(ranges) : ~(ranges[i].end <= n)
    BY <1>1, <1>3
  <2> QED
    BY <2>1 DEF RowsWhole
<1>5. cursor.pos.bytes = 0 /\ ~cursor.column.valid /\ phase = "between"
  BY PlaceOfType DEF Init, Fresh, NoColumn
<1>6. Settled(0, ranges)
  <2>1. 1 \in 1 .. Len(ranges)
    BY <1>2
  <2>2. ~AllOver(0, ranges) /\ ranges[1].start <= 0 /\ 0 < ranges[1].end
    BY <1>1, <1>3, <2>1 DEF AllOver
  <2> QED
    BY <2>1, <2>2 DEF Settled
<1> QED
  BY <1>4, <1>5, <1>6 DEF CInv

\* New ranges, and every way in which lex is sent to a place of the text.
LEMMA MovesKeepCounts ==
    ASSUME RowsFit, IInv, RInv, CInv,
           \/ \E rs \in RangeLists : SetIncludedRanges(rs)
           \/ SetInput \/ ParserReset \/ \E b \in 0 .. N : Seek(b)
    PROVE CInv'
<1>1. PlaceOf(0) \in Place /\ PlaceOf(0).bytes = 0
  BY PlaceOfType
<1>2. /\ RangeList(ranges) /\ Ordered(ranges) /\ cursor \in Cursor /\ cursor.pos \in Place
      /\ Settled(cursor.pos.bytes, ranges) /\ ColumnOf(0, ranges) = 0
  BY RFacts, ColumnAtStart DEF CInv
<1>3. ASSUME NEW rs \in RangeLists, SetIncludedRanges(rs) PROVE CInv'
  <2>1. /\ Ordered(rs) /\ ranges' = rs /\ cursor' = Goto(cursor, cursor.pos, rs)
        /\ phase = "between" /\ phase' = "between"
    BY <1>3 DEF SetIncludedRanges, Ready
  <2>2. RangeList(rs) /\ RowsWhole(rs)
    BY <2>1, RangesAssumption DEF RangeList, RowsFit
  <2>3. Settled(cursor'.pos.bytes, rs) /\ cursor'.column = cursor.column
    BY <1>2, <2>1, <2>2, GotoSettles
  <2>4. RowsWhole(ranges)' /\ Settled(cursor.pos.bytes, ranges)'
    BY <2>1, <2>2, <2>3 DEF RowsWhole, Settled, AllOver
  <2> QED
    BY <2>1, <2>3, <2>4 DEF CInv
<1>4. CASE SetInput
  <2> DEFINE e == [cursor EXCEPT !.chunk = NoChunk]
             c == Goto(e, cursor.pos, ranges)
  <2>1. e \in Cursor /\ e.chunk.len = 0 /\ e.pos = cursor.pos /\ e.column = cursor.column
    BY <1>2 DEF Cursor, NoChunk
  <2>2. /\ cursor' = Reset(c, PlaceOf(0)) /\ phase = "between" /\ phase' = "parsing"
        /\ ranges' = ranges
    BY <1>4 DEF SetInput, Ready
  <2> HIDE DEF e
  <2>3. Settled(c.pos.bytes, ranges) /\ c.column = cursor.column
    BY <1>2, <2>1, GotoSettles
  <2>4. c \in Cursor
    <3>1. Good(c, ranges)
      BY <2>1, RFacts, GotoGood
    <3> QED
      BY <3>1 DEF Good
  <2> HIDE DEF c
  <2>5. /\ Settled(cursor'.pos.bytes, ranges)
        /\ (cursor' = c /\ c.pos.bytes = 0) \/ ~cursor'.column.valid
    BY <1>1, <1>2, <2>2, <2>3, <2>4, ResetCounts
  <2>6. Counted(cursor'.pos.bytes, cursor'.column, ranges)
    BY <1>2, <2>2, <2>3, <2>5 DEF CInv, Counted
  <2> QED
    BY <2>2, <2>5, <2>6, KeepsCInv
<1>5. CASE ParserReset
  <2>1. /\ cursor' = Reset(cursor, PlaceOf(0)) /\ phase = "parsing" /\ phase' = "between"
        /\ ranges' = ranges
    BY <1>5 DEF ParserReset, Ready
  <2>2. /\ Settled(cursor'.pos.bytes, ranges)
        /\ (cursor' = cursor /\ cursor.pos.bytes = 0) \/ ~cursor'.column.valid
    BY <1>1, <1>2, <2>1, ResetCounts
  <2>3. cursor'.column.valid => cursor'.column.value = 0
    BY <1>2, <2>1, <2>2 DEF CInv, Counted
  <2> QED
    BY <2>1, <2>2, <2>3, KeepsCInv
<1>6. ASSUME NEW b \in 0 .. N, Seek(b) PROVE CInv'
  <2>1. /\ cursor' = Reset(cursor, PlaceOf(b)) /\ phase = "parsing" /\ phase' = "parsing"
        /\ ranges' = ranges
    BY <1>6 DEF Seek, Ready
  <2>2. b \in Nat
    OBVIOUS
  <2>3. PlaceOf(b) \in Place
    BY <2>2, PlaceOfType
  <2>4. /\ Settled(cursor'.pos.bytes, ranges)
        /\ cursor' = cursor \/ ~cursor'.column.valid
    BY <1>2, <2>1, <2>3, ResetCounts
  <2>5. Counted(cursor'.pos.bytes, cursor'.column, ranges)
    BY <2>1, <2>4 DEF CInv, Counted
  <2> QED
    BY <2>1, <2>4, <2>5, KeepsCInv
<1> QED
  BY <1>3, <1>4, <1>5, <1>6

\* start counts from the start of the document, behind a byte order mark.
LEMMA StartKeepsCounts ==
    ASSUME Readable, IInv, PInv, RInv, CInv, Start
    PROVE CInv'
<1> DEFINE c == SeenAtStart
           skip == c.pos.bytes = 0 /\ c.ahead.code = BOM
           d == IF skip THEN DoAdvance(c) ELSE c
           zero == [value |-> 0, valid |-> TRUE]
           next == IF EOF(cursor) THEN cursor
                   ELSE IF c.pos.bytes = 0 THEN [d EXCEPT !.column = zero] ELSE d
<1>1. /\ cursor' = next /\ saved' = [pos |-> cursor.pos, column |-> cursor.column]
      /\ phase' = "scanning" /\ ranges' = ranges /\ phase = "parsing"
  BY DEF Start, Ready, ReadAtStart, SeenAtStart
<1>2. /\ RangeList(ranges) /\ Ordered(ranges) /\ RowsWhole(ranges)
      /\ cursor \in Cursor /\ cursor.pos.bytes \in Nat
      /\ Settled(cursor.pos.bytes, ranges)
      /\ Counted(cursor.pos.bytes, cursor.column, ranges)
      /\ Clear(cursor.pos.bytes, ranges)
  BY <1>1, RFacts DEF CInv, RInv
<1>3. saved'.pos = cursor.pos /\ saved'.column = cursor.column
  BY <1>1
<1>4. /\ Settled(cursor'.pos.bytes, ranges)
      /\ Counted(cursor'.pos.bytes, cursor'.column, ranges)
  <2>1. CASE EOF(cursor)
    BY <1>1, <1>2, <2>1
  <2>2. CASE ~EOF(cursor)
    <3>1. c.pos = cursor.pos /\ Exact(c, ranges) /\ Reads(c, ranges)
      BY <2>2, StartSees
    <3>2. Good(c, ranges) /\ (skip => ~EOF(c)) /\ c \in Cursor
      BY <2>2, StartReads DEF Good
    <3>3. c.column = cursor.column
      BY <1>2, ReadingStays DEF SeenAtStart, ReadAtStart
    <3> HIDE DEF c
    <3>4. CASE skip
      <4>1. ~EOF(c) /\ c.ahead.size # 0
        BY <3>1, <3>2, <3>4 DEF Reads, EOF
      <4>2. c.ahead = Decode(0, N) /\ c.pos.bytes = 0
        BY <1>2, <3>1, <3>2, <3>4, <4>1, AtCharacter
      <4>3. d = DoAdvance(c)
        BY <3>4
      <4>4. /\ Settled(d.pos.bytes, ranges) /\ NextRank(0, d.pos.bytes, ranges)
        <5> HIDE DEF d, skip
        <5> QED
          BY <1>2, <3>1, <3>2, <4>1, <4>2, <4>3, DoAdvanceCounts, DoAdvanceReads
      <4>5. d \in Cursor
        <5>1. Good(DoAdvance(c), ranges)
          BY <1>2, <3>2, DoAdvanceGood
        <5> HIDE DEF d
        <5> QED
          BY <4>3, <5>1 DEF Good
      <4>6. Decode(0, N).code = BOM
        BY <3>4, <4>2
      <4>7. cursor' = [d EXCEPT !.column = zero]
        BY <1>1, <2>2, <4>2
      <4> HIDE DEF d, next, skip
      <4>8. cursor'.pos = d.pos /\ cursor'.column = zero
        BY <4>5, <4>7 DEF Cursor
      <4>9. ASSUME NEW x \in Starts(ranges), x < d.pos.bytes PROVE x = 0
        <5>1. x <= 0
          BY <4>4, <4>9 DEF NextRank
        <5>2. x \in Nat
          BY <1>2, StartsIn
        <5> QED
          BY <5>1, <5>2
      <4>10. ColumnOf(d.pos.bytes, ranges) = 0
        BY <4>6, <4>9, ColumnNone
      <4> QED
        BY <4>4, <4>8, <4>10 DEF Counted
    <3>5. CASE ~skip /\ c.pos.bytes = 0
      <4>1. cursor' = [c EXCEPT !.column = zero]
        BY <1>1, <2>2, <3>5
      <4> HIDE DEF next, skip, d
      <4>2. cursor'.pos = c.pos /\ cursor'.column = zero
        BY <3>2, <4>1 DEF Cursor
      <4>3. ColumnOf(0, ranges) = 0
        BY <1>2, ColumnAtStart
      <4> QED
        BY <1>2, <3>1, <3>5, <4>2, <4>3 DEF Counted
    <3>6. CASE ~skip /\ c.pos.bytes # 0
      <4>1. cursor' = c
        BY <1>1, <2>2, <3>6
      <4> QED
        BY <1>2, <3>1, <3>3, <4>1
    <3> QED
      BY <3>4, <3>5, <3>6
  <2> QED
    BY <2>1, <2>2
<1> QED
  BY <1>1, <1>2, <1>3, <1>4, KeepsCInv

\* GetColumn begins at the start of the row, with no character of the row before it.
LEMMA GetColumnKeepsCounts ==
    ASSUME Readable, IInv, PInv, RInv, CInv, GetColumn
    PROVE CInv'
<1> DEFINE at == cursor.pos
           row == [bytes |-> at.bytes - at.col, row |-> at.row, col |-> 0]
           zero == [value |-> 0, valid |-> TRUE]
           l == LineStart(at.bytes)
           e == Goto(cursor, row, ranges)
           f == [e EXCEPT !.column = zero]
           c == GetChunk(f)
           q == e.pos.bytes
<1>1. /\ cursor' = IF EOF(c) THEN c ELSE GetLookahead(c)
      /\ ranges' = ranges /\ phase = "scanning" /\ phase' = "scanning" /\ saved' = saved
  BY DEF GetColumn, Ready
<1>2. /\ RangeList(ranges) /\ Ordered(ranges) /\ cursor \in Cursor
      /\ Settled(at.bytes, ranges)
      /\ Settled(saved.pos.bytes, ranges)
      /\ Counted(saved.pos.bytes, saved.column, ranges)
  BY <1>1, RFacts DEF CInv
<1>3. /\ row \in Place /\ row.col <= row.bytes /\ row.bytes = l
      /\ at.bytes \in Nat /\ l \in 0 .. at.bytes
  <2>1. at = PlaceOf(at.bytes) /\ at.bytes \in Nat /\ at.row \in Nat
    BY PFacts, Facts DEF Right, Place
  <2>2. at.col = at.bytes - l
    BY <2>1, PlaceByNewlines
  <2>3. l \in 0 .. at.bytes
    BY <2>1, LineStartType
  <2> HIDE DEF l
  <2>4. at.bytes - at.col = l
    BY <2>1, <2>2, <2>3
  <2> QED
    BY <2>1, <2>3, <2>4 DEF Place
<1> HIDE DEF row
<1>4. /\ q \in Nat /\ Settled(q, ranges)
      /\ AllOver(row.bytes, ranges) => q = ranges[Len(ranges)].end
      /\ ~AllOver(row.bytes, ranges) => row.bytes <= q
  BY <1>2, <1>3, GotoSettles
<1>5. SameRank(row.bytes, q, ranges)
  BY <1>2, <1>3, GotoLands
<1>6. cursor'.pos.bytes = q /\ cursor'.column = zero
  <2>1. e \in Cursor
    <3>1. Good(e, ranges)
      BY <1>3, RFacts, Facts, GotoGood
    <3> QED
      BY <3>1 DEF Good
  <2> HIDE DEF e
  <2>2. f \in Cursor /\ f.pos = e.pos /\ f.column = zero
    <3>1. zero \in Column
      BY DEF Column
    <3> HIDE DEF zero
    <3> QED
      BY <2>1, <3>1 DEF Cursor
  <2> HIDE DEF f
  <2>3. c \in Cursor /\ c.pos = e.pos /\ c.column = zero
    BY <1>2, <2>2, ReadingStays
  <2> HIDE DEF c, zero
  <2>4. GetLookahead(c).pos = c.pos /\ GetLookahead(c).column = c.column
    BY <1>2, <2>3, ReadingStays
  <2> QED
    BY <1>1, <2>3, <2>4
<1>7. l <= q
  <2>1. CASE AllOver(row.bytes, ranges)
    <3>1. AllOver(at.bytes, ranges)
      <4>1. \A i \in 1 .. Len(ranges) : ranges[i].end \in Nat
        BY <1>2, RangeBounds
      <4> HIDE DEF l
      <4> QED
        BY <1>3, <2>1, <4>1 DEF AllOver
    <3>2. l = LineStart(ranges[Len(ranges)].end)
      BY <1>2, <3>1 DEF Settled
    <3>3. ranges[Len(ranges)].end \in Nat
      BY <1>2, LastEnds
    <3>4. LineStart(ranges[Len(ranges)].end) <= ranges[Len(ranges)].end
      BY <3>3, LineStartType
    <3> QED
      BY <1>4, <2>1, <3>2, <3>4
  <2>2. CASE ~AllOver(row.bytes, ranges)
    BY <1>3, <1>4, <2>2
  <2> QED
    BY <2>1, <2>2
<1> HIDE DEF q
<1>8. l <= LineStart(q) /\ LineStart(q) \in Nat /\ l \in Nat
  <2>1. l \in Nat
    BY <1>3
  <2>2. l <= LineStart(q)
    BY <1>3, <1>4, <1>7, RowsOnward
  <2> QED
    BY <1>4, <2>1, <2>2, LineStartType
<1>9. ASSUME NEW x \in Starts(ranges), x < q PROVE ~(LineStart(q) <= x)
  <2>1. x < l
    BY <1>3, <1>5, <1>9 DEF SameRank
  <2>2. x \in Nat
    BY <1>2, StartsIn
  <2> HIDE DEF l
  <2> QED
    BY <1>8, <2>1, <2>2
<1>10. ColumnOf(q, ranges) = 0
  BY <1>9, ColumnNone
<1>11. Counted(cursor'.pos.bytes, cursor'.column, ranges)
  BY <1>6, <1>10 DEF Counted
<1> QED
  BY <1>1, <1>2, <1>4, <1>6, <1>11, KeepsCInv

\* A step over a character, in a scan, on the way of GetColumn or looking for the end of an
\* error.
LEMMA AdvancesKeepCounts ==
    ASSUME Readable, MarkWide, IInv, RInv, CInv,
           GetColumnWalk \/ (\E skip \in BOOLEAN : Advance(skip)) \/ SkipCharacter
    PROVE CInv'
<1>1. /\ RangeList(ranges) /\ Ordered(ranges) /\ RowsWhole(ranges) /\ Good(cursor, ranges)
      /\ Exact(cursor, ranges)
  BY RFacts DEF CInv
<1>2. ASSUME Scan, ~EOF(cursor) PROVE Clear(cursor.pos.bytes, ranges) /\ cursor.ahead.size # 0
  BY <1>2 DEF RInv, Scan, Reads, EOF
<1>3. CASE GetColumnWalk
  <2>1. /\ goal # None /\ ranges' = ranges /\ saved' = saved /\ phase' = phase
        /\ cursor' = DoAdvance(cursor) /\ ~EOF(cursor)
    BY <1>3 DEF GetColumnWalk, Behind
  <2>2. phase = "scanning" /\ Scan
    BY <2>1 DEF RInv, OnTheWay, Scan
  <2>3. /\ Settled(cursor'.pos.bytes, ranges)
        /\ Counted(cursor.pos.bytes, cursor.column, ranges)
              => Counted(cursor'.pos.bytes, cursor'.column, ranges)
    BY <1>1, <1>2, <2>1, <2>2, DoAdvanceCounts
  <2> QED
    BY <2>1, <2>2, <2>3, KeepsCInv DEF CInv
<1>4. ASSUME NEW skip \in BOOLEAN, Advance(skip) PROVE CInv'
  <2>1. phase = "scanning" /\ ranges' = ranges /\ saved' = saved
    BY <1>4 DEF Advance, Ready
  <2>2. CASE EOF(cursor)
    <3>1. phase' = "panicked" /\ cursor' = cursor
      BY <1>4, <2>2 DEF Advance
    <3> QED
      BY <2>1, <3>1, KeepsCInv DEF CInv
  <2>3. CASE ~EOF(cursor)
    <3>1. cursor' = Advanced(cursor) /\ phase' = "scanning" /\ Scan
      BY <1>4, <2>1, <2>3 DEF Advance, Scan
    <3>2. /\ Settled(cursor'.pos.bytes, ranges)
          /\ Counted(cursor.pos.bytes, cursor.column, ranges)
                => Counted(cursor'.pos.bytes, cursor'.column, ranges)
      BY <1>1, <1>2, <2>3, <3>1, AdvancedCounts
    <3> QED
      BY <2>1, <3>1, <3>2, KeepsCInv DEF CInv
  <2> QED
    BY <2>2, <2>3
<1>5. CASE SkipCharacter
  <2>1. /\ cursor' = Advanced(cursor) /\ phase = "scanned" /\ ~EOF(cursor)
        /\ phase' = "parsing" /\ ranges' = ranges /\ Scan
    BY <1>5 DEF SkipCharacter, Ready, Scan
  <2>2. /\ Settled(cursor'.pos.bytes, ranges)
        /\ Counted(cursor.pos.bytes, cursor.column, ranges)
              => Counted(cursor'.pos.bytes, cursor'.column, ranges)
    BY <1>1, <1>2, <2>1, AdvancedCounts
  <2> QED
    BY <2>1, <2>2, KeepsCInv DEF CInv
<1> QED
  BY <1>3, <1>4, <1>5

\* lex goes back with the count it had there.
LEMMA ScanAgainKeepsCounts ==
    ASSUME IInv, RInv, CInv, ScanAgain
    PROVE CInv'
<1> DEFINE e == Reset(cursor, saved.pos)
<1>1. /\ cursor' = [e EXCEPT !.column = saved.column] /\ phase = "scanned"
      /\ phase' = "parsing" /\ ranges' = ranges
  BY DEF ScanAgain, Ready
<1>2. /\ RangeList(ranges) /\ Ordered(ranges) /\ cursor \in Cursor /\ saved.pos \in Place
      /\ saved.pos.col <= saved.pos.bytes
      /\ Settled(cursor.pos.bytes, ranges) /\ Settled(saved.pos.bytes, ranges)
      /\ Counted(saved.pos.bytes, saved.column, ranges)
  BY <1>1, RFacts DEF CInv
<1>3. e \in Cursor
  BY RFacts, ResetGood DEF Good
<1>4. Settled(e.pos.bytes, ranges)
  BY <1>2, ResetCounts
<1>5. ColumnOf(e.pos.bytes, ranges) = ColumnOf(saved.pos.bytes, ranges)
  <2>1. CASE saved.pos.bytes = cursor.pos.bytes
    BY <2>1 DEF Reset
  <2>2. CASE saved.pos.bytes # cursor.pos.bytes
    <3>1. e = Goto(cursor, saved.pos, ranges)
      BY <2>2 DEF Reset
    <3> HIDE DEF e
    <3>2. LineStart(e.pos.bytes) = LineStart(saved.pos.bytes)
      BY <1>2, <3>1, GotoSettles
    <3>3. SameRank(saved.pos.bytes, e.pos.bytes, ranges)
      BY <1>2, <3>1, GotoLands
    <3> QED
      BY <3>2, <3>3, ColumnSame
  <2> QED
    BY <2>1, <2>2
<1> HIDE DEF e
<1>6. cursor'.pos = e.pos /\ cursor'.column = saved.column
  BY <1>1, <1>3 DEF Cursor
<1>7. Counted(cursor'.pos.bytes, cursor'.column, ranges)
  BY <1>2, <1>5, <1>6 DEF Counted
<1> QED
  BY <1>1, <1>4, <1>6, <1>7, KeepsCInv

\* The actions that leave the cursor where it is.
LEMMA StayingKeepsCounts ==
    ASSUME CInv,
           MarkEnd \/ Finish \/ Accept \/ GetColumnKnown \/ GetColumnDone \/ UNCHANGED vars
    PROVE CInv'
<1>1. cursor' = cursor /\ ranges' = ranges
  BY DEF MarkEnd, Finish, Accept, GetColumnKnown, GetColumnDone, vars
<1>2. CASE MarkEnd \/ GetColumnKnown \/ GetColumnDone \/ UNCHANGED vars
  <2>1. phase' = phase /\ saved' = saved
    BY <1>2 DEF MarkEnd, GetColumnKnown, GetColumnDone, vars
  <2> QED
    BY <1>1, <2>1, KeepsCInv DEF CInv
<1>3. CASE Finish
  <2>1. phase = "scanning" /\ phase' = "scanned" /\ saved' = saved
    BY <1>3 DEF Finish, Ready
  <2> QED
    BY <1>1, <2>1, KeepsCInv DEF CInv
<1>4. CASE Accept
  <2>1. phase = "scanned" /\ phase' = "parsing"
    BY <1>4 DEF Accept, Ready
  <2> QED
    BY <1>1, <2>1, KeepsCInv DEF CInv
<1> QED
  BY <1>2, <1>3, <1>4

LEMMA StepCInv ==
    Readable /\ MarkWide /\ RowsFit => (IInv /\ PInv /\ RInv /\ CInv /\ [Next]_vars => CInv')
<1> SUFFICES ASSUME Readable, MarkWide, RowsFit, IInv, PInv, RInv, CInv, [Next]_vars
             PROVE CInv'
  OBVIOUS
<1>1. CASE \/ \E rs \in RangeLists : SetIncludedRanges(rs)
           \/ SetInput \/ ParserReset \/ \E b \in 0 .. N : Seek(b)
  BY <1>1, MovesKeepCounts
<1>2. CASE Start
  BY <1>2, StartKeepsCounts
<1>3. CASE GetColumn
  BY <1>3, GetColumnKeepsCounts
<1>4. CASE GetColumnWalk \/ (\E skip \in BOOLEAN : Advance(skip)) \/ SkipCharacter
  BY <1>4, AdvancesKeepCounts
<1>5. CASE MarkEnd \/ Finish \/ Accept \/ GetColumnKnown \/ GetColumnDone \/ UNCHANGED vars
  BY <1>5, StayingKeepsCounts
<1>6. CASE ScanAgain
  BY <1>6, ScanAgainKeepsCounts
<1> QED
  BY <1>1, <1>2, <1>3, <1>4, <1>5, <1>6 DEF Next
-----------------------------------------------------------------------------
(* The column.                                                             *)

\* Where no newline is left out between two ranges, the count that Advance, the byte order
\* mark at the start, the going back of GetColumn and that of lex keep up to date, or drop, is
\* the number of included characters before the position in its row.
THEOREM ColumnRightAlways ==
    Readable /\ MarkWide /\ RowsFit => (Spec => []ColumnRight)
<1> SUFFICES ASSUME Readable, MarkWide, RowsFit PROVE Spec => []ColumnRight
  OBVIOUS
<1>1. Init => CInv
  BY InitCInv
<1>2. IInv /\ PInv /\ RInv /\ CInv /\ [Next]_vars => CInv'
  BY StepCInv
<1>3. IInv /\ RInv /\ CInv => ColumnRight
  <2> SUFFICES ASSUME IInv, RInv, CInv PROVE ColumnRight
    OBVIOUS
  <2>1. Chars = Starts(ranges)
    BY Abstracts DEF Abstracted
  <2>2. phase # "between" => Counted(cursor.pos.bytes, cursor.column, ranges)
    BY DEF CInv
  <2> QED
    BY <2>1, <2>2 DEF ColumnRight, Counted, ColumnOf, InColumn
<1>4. Spec => []RInv
  BY TextInvariant
<1> QED
  BY <1>1, <1>2, <1>3, <1>4, Invariant, PlaceInvariant, PTL DEF Spec
=============================================================================
