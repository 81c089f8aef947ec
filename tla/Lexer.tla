------------------------------- MODULE Lexer -------------------------------
(***************************************************************************)
(* The lexer of src/lexer.go: it hands a scanner the text of the included  *)
(* ranges, character by character, reading the input in chunks, keeps the  *)
(* position as a byte offset and as a row and column, and counts columns   *)
(* in characters.  The methods are actions; GetColumn, which goes back to  *)
(* the start of the row and advances again, runs in small steps.  Parse    *)
(* and lex (src/parser_loop.go, src/parser_lex.go) fix the order in which  *)
(* the methods are called, kept in `phase`.                                *)
(***************************************************************************)
EXTENDS Integers, Sequences, FiniteSets

CONSTANTS
    Doc,            \* the text: a sequence of bytes, by what they encode
    Width,          \* of a leading byte: the bytes of its character; 0: a byte inside one
    Newline, BOM,   \* two characters
    Bad, Nul,       \* decodeError, and the lookahead at the end
    ChunkSize,      \* bytes the input hands out at once
    RangeLists      \* arguments of SetIncludedRanges: sequences of [start, end]

Codes == DOMAIN Width
N == Len(Doc)

ASSUME TextAssumption ==
    /\ Width \in [Codes -> Nat] /\ Doc \in Seq(Codes)
    /\ Bad \notin Codes /\ Nul \notin Codes
ASSUME NewlineAssumption == {Newline, BOM} \subseteq Codes /\ Width[Newline] = 1
ASSUME ChunkAssumption == ChunkSize \in Nat \ {0}
ASSUME RangesAssumption ==
    \A rs \in RangeLists : rs \in Seq([start : Nat, end : Nat]) /\ rs # <<>>

VARIABLES
    ranges,     \* includedRanges
    cursor,     \* position, range, chunk, lookahead and column: see Cursor
    token,      \* tokenStartPosition and tokenEndPosition
    asked,      \* didGetColumn
    goal,       \* GetColumn: the byte it walks to, or None
    saved,      \* the position and column lex comes back to when a scanner finds nothing
    phase       \* where Parse and lex are
vars == <<ranges, cursor, token, asked, goal, saved, phase>>

\* Definitions that stand for a mistake in the code, before the one each could replace:
\* GetChunkPastEnd, GotoAtRangeEnd, GotoKeepingColumn, PassedInRow, EndMarkAtPosition,
\* ShortCutAcross.

None == -1
Place == [bytes : Nat, row : Nat, col : Int]
Column == [value : Nat, valid : BOOLEAN]
Cursor == [pos : Place, index : Nat, chunk : [start : Nat, len : Nat],
           ahead : [code : Codes \cup {Bad, Nul}, size : Nat], column : Column]

NoColumn == [value |-> 0, valid |-> FALSE]
NoChunk == [start |-> 0, len |-> 0]
NothingAhead == [code |-> Nul, size |-> 0]
AtEnd == [code |-> Nul, size |-> 1]

LeastOf(S) == CHOOSE x \in S : \A y \in S : x <= y
GreatestOf(S) == CHOOSE x \in S : \A y \in S : y <= x

\* The row and column of a byte: what callers give as the points of ranges and positions.
LineStart(b) == GreatestOf({0} \cup {i \in 1 .. b : i <= N /\ Doc[i] = Newline})
PlaceOf(b) == [bytes |-> b,
               row |-> Cardinality({i \in 1 .. b : i <= N /\ Doc[i] = Newline}),
               col |-> b - LineStart(b)]

\* The character at byte b, when the bytes before `limit` can be seen: an ill-formed or
\* cut character counts as one byte.
Decode(b, limit) ==
    LET c == Doc[b + 1]
        w == Width[c]
        whole == w >= 1 /\ b + w <= limit /\ \A i \in 1 .. w - 1 : Width[Doc[b + 1 + i]] = 0
    IN IF whole THEN [code |-> c, size |-> w] ELSE [code |-> Bad, size |-> 1]
-----------------------------------------------------------------------------
(* What the methods do to the cursor.                                      *)

End(rs) == Len(rs) + 1
Used(r) == r.end > r.start
EOF(c) == c.index = End(ranges)
Chunked(c) == c.chunk.len # 0   \* the chunk is not nil
InChunk(c) == c.chunk.start <= c.pos.bytes /\ c.pos.bytes < c.chunk.start + c.chunk.len

GetChunkPastEnd(c) ==
    LET left == IF c.pos.bytes < N THEN N - c.pos.bytes ELSE 0
        n == IF left < ChunkSize THEN left ELSE ChunkSize
    IN [c EXCEPT !.chunk = [start |-> c.pos.bytes, len |-> n],
                 !.index = IF n = 0 THEN End(ranges) + 1 ELSE @]

GetChunk(c) ==
    LET left == IF c.pos.bytes < N THEN N - c.pos.bytes ELSE 0
        n == IF left < ChunkSize THEN left ELSE ChunkSize
    IN [c EXCEPT !.chunk = [start |-> c.pos.bytes, len |-> n],
                 !.index = IF n = 0 THEN End(ranges) ELSE @]

GetLookahead(c) ==
    LET limit == c.chunk.start + c.chunk.len
        seen == Decode(c.pos.bytes, limit)
        next == GetChunk(c)
    IN IF c.pos.bytes = limit THEN [c EXCEPT !.ahead = AtEnd]
       ELSE IF seen.code = Bad /\ limit - c.pos.bytes < 4
       THEN [next EXCEPT !.ahead = Decode(c.pos.bytes, next.chunk.start + next.chunk.len)]
       ELSE [c EXCEPT !.ahead = seen]

GotoAtRangeEnd(c, place, rs) ==
    LET b == place.bytes
        later == {i \in 1 .. Len(rs) : rs[i].end >= b /\ Used(rs[i])}
        i == LeastOf(later)
        at == IF rs[i].start >= b THEN PlaceOf(rs[i].start) ELSE place
        column == IF b # c.pos.bytes THEN NoColumn ELSE c.column
        kept == c.chunk.start <= at.bytes /\ at.bytes < c.chunk.start + c.chunk.len
    IN IF later # {}
       THEN [pos |-> at, index |-> i, chunk |-> IF kept THEN c.chunk ELSE NoChunk,
             ahead |-> NothingAhead, column |-> column]
       ELSE [pos |-> PlaceOf(rs[Len(rs)].end), index |-> End(rs), chunk |-> NoChunk,
             ahead |-> AtEnd, column |-> column]

GotoKeepingColumn(c, place, rs) ==
    LET b == place.bytes
        later == {i \in 1 .. Len(rs) : rs[i].end > b /\ Used(rs[i])}
        i == LeastOf(later)
        at == IF rs[i].start >= b THEN PlaceOf(rs[i].start) ELSE place
        column == c.column
        kept == c.chunk.start <= at.bytes /\ at.bytes < c.chunk.start + c.chunk.len
    IN IF later # {}
       THEN [pos |-> at, index |-> i, chunk |-> IF kept THEN c.chunk ELSE NoChunk,
             ahead |-> NothingAhead, column |-> column]
       ELSE [pos |-> PlaceOf(rs[Len(rs)].end), index |-> End(rs), chunk |-> NoChunk,
             ahead |-> AtEnd, column |-> column]

\* gotoPosition in the ranges rs: the first range that ends after the place.
Goto(c, place, rs) ==
    LET b == place.bytes
        later == {i \in 1 .. Len(rs) : rs[i].end > b /\ Used(rs[i])}
        i == LeastOf(later)
        at == IF rs[i].start >= b THEN PlaceOf(rs[i].start) ELSE place
        column == IF b # c.pos.bytes THEN NoColumn ELSE c.column
        kept == c.chunk.start <= at.bytes /\ at.bytes < c.chunk.start + c.chunk.len
    IN IF later # {}
       THEN [pos |-> at, index |-> i, chunk |-> IF kept THEN c.chunk ELSE NoChunk,
             ahead |-> NothingAhead, column |-> column]
       ELSE [pos |-> PlaceOf(rs[Len(rs)].end), index |-> End(rs), chunk |-> NoChunk,
             ahead |-> AtEnd, column |-> column]

Reset(c, place) == IF place.bytes # c.pos.bytes THEN Goto(c, place, ranges) ELSE c

PassedInRow(c) ==
    LET pos == [bytes |-> c.pos.bytes + c.ahead.size,
                row |-> IF c.ahead.code = Newline THEN c.pos.row + 1 ELSE c.pos.row,
                col |-> c.pos.col + c.ahead.size]
    IN IF c.ahead.size = 0 THEN c ELSE [c EXCEPT !.pos = pos]

\* Over the lookahead, in the row and the column count.
Passed(c) ==
    LET newline == c.ahead.code = Newline
        skipped == c.ahead.code = BOM /\ c.pos.bytes = 0
        pos == [bytes |-> c.pos.bytes + c.ahead.size,
                row |-> IF newline THEN c.pos.row + 1 ELSE c.pos.row,
                col |-> IF newline THEN 0 ELSE c.pos.col + c.ahead.size]
        column == IF newline THEN [value |-> 0, valid |-> TRUE]
                  ELSE IF c.column.valid /\ ~skipped
                  THEN [c.column EXCEPT !.value = @ + 1] ELSE c.column
    IN IF c.ahead.size = 0 THEN c ELSE [c EXCEPT !.pos = pos, !.column = column]

\* Out of a range that is over, or empty, into the next one that is not.
InNextRange(c) ==
    LET later == {i \in c.index + 1 .. Len(ranges) : Used(ranges[i])}
        i == LeastOf(later)
    IN IF EOF(c) \/ (c.pos.bytes < ranges[c.index].end /\ Used(ranges[c.index])) THEN c
       ELSE IF later # {} THEN [c EXCEPT !.index = i, !.pos = PlaceOf(ranges[i].start)]
       ELSE [c EXCEPT !.index = End(ranges),
                      !.pos = IF c.index < Len(ranges)
                              THEN PlaceOf(ranges[Len(ranges)].start) ELSE @]

DoAdvance(c) ==
    LET d == InNextRange(Passed(c))
    IN IF EOF(d) THEN [d EXCEPT !.chunk = NoChunk, !.ahead = AtEnd]
       ELSE GetLookahead(IF InChunk(d) THEN d ELSE GetChunk(d))

EndMarkAtPosition(c) == c.pos

\* The end of a token: at the start of a range, it is the end of the range before.
EndMark(c) ==
    IF ~EOF(c) /\ c.index > 1 /\ c.pos.bytes = ranges[c.index].start
    THEN PlaceOf(ranges[c.index - 1].end) ELSE c.pos
-----------------------------------------------------------------------------
Ready(p) == phase = p /\ goal = None

Fresh == [pos |-> PlaceOf(0), index |-> 1, chunk |-> NoChunk,
          ahead |-> NothingAhead, column |-> NoColumn]

Nowhere == [pos |-> PlaceOf(0), column |-> NoColumn]

\* A new parser: the default range is the whole text, and beyond.
Init ==
    /\ ranges = <<[start |-> 0, end |-> N + 1]>>
    /\ cursor = Fresh
    /\ token = [start |-> PlaceOf(0), end |-> PlaceOf(0), set |-> FALSE]
    /\ asked = FALSE /\ goal = None
    /\ saved = Nowhere
    /\ phase = "between"

Ordered(rs) ==
    \A i \in 1 .. Len(rs) :
       rs[i].start <= rs[i].end /\ (i > 1 => rs[i - 1].end <= rs[i].start)

SetIncludedRanges(rs) ==
    /\ Ready("between") /\ Ordered(rs)
    /\ ranges' = rs
    /\ cursor' = Goto(cursor, cursor.pos, rs)
    /\ UNCHANGED <<token, asked, goal, saved, phase>>

\* Parse sets the input, and first lexes at the start of the text.
SetInput ==
    /\ Ready("between")
    /\ LET c == Goto([cursor EXCEPT !.chunk = NoChunk], cursor.pos, ranges)
       IN cursor' = Reset(c, PlaceOf(0))
    /\ phase' = "parsing"
    /\ UNCHANGED <<ranges, token, asked, goal, saved>>

\* The parse is over: Parser.Reset.
ParserReset ==
    /\ Ready("parsing")
    /\ cursor' = Reset(cursor, PlaceOf(0))
    /\ phase' = "between"
    /\ UNCHANGED <<ranges, token, asked, goal, saved>>

\* lex goes to the position of a stack version, or to the start of a token.
Seek(b) ==
    /\ Ready("parsing")
    /\ cursor' = Reset(cursor, PlaceOf(b))
    /\ UNCHANGED <<ranges, token, asked, goal, saved, phase>>

Start ==
    /\ Ready("parsing")
    /\ LET read == IF Chunked(cursor) THEN cursor ELSE GetChunk(cursor)
           c == IF read.ahead.size = 0 THEN GetLookahead(read) ELSE read
           skip == c.pos.bytes = 0 /\ c.ahead.code = BOM
           d == IF skip THEN DoAdvance(c) ELSE c
           from == IF skip THEN d.pos ELSE cursor.pos
       IN /\ cursor' = IF EOF(cursor) THEN cursor
                       ELSE IF c.pos.bytes = 0
                       THEN [d EXCEPT !.column = [value |-> 0, valid |-> TRUE]] ELSE d
          /\ token' = [token EXCEPT !.start = IF EOF(cursor) THEN cursor.pos ELSE from,
                                    !.set = FALSE]
    /\ asked' = FALSE
    /\ saved' = [pos |-> cursor.pos, column |-> cursor.column]
    /\ phase' = "scanning"
    /\ UNCHANGED <<ranges, goal>>

ShortCutAcross(c) ==
    LET b == c.pos.bytes + 1
    IN /\ c.ahead.size = 1 /\ c.ahead.code # Newline
       /\ b < c.chunk.start + c.chunk.len /\ Width[Doc[b + 1]] = 1
\* The short cut of Advance, and what follows when it cannot be taken.
ShortCut(c) ==
    LET b == c.pos.bytes + 1
    IN /\ c.ahead.size = 1 /\ c.ahead.code # Newline
       /\ b < ranges[c.index].end /\ b < c.chunk.start + c.chunk.len
       /\ Width[Doc[b + 1]] = 1
Stepped(c) ==
    LET pos == [bytes |-> c.pos.bytes + 1, row |-> c.pos.row, col |-> c.pos.col + 1]
        column == IF c.column.valid THEN [c.column EXCEPT !.value = @ + 1] ELSE c.column
    IN [c EXCEPT !.pos = pos, !.column = column,
                 !.ahead = [code |-> Doc[c.pos.bytes + 2], size |-> 1]]

Advanced(c) == IF ~Chunked(c) THEN c ELSE IF ShortCut(c) THEN Stepped(c) ELSE DoAdvance(c)

Advance(skip) ==
    /\ Ready("scanning") /\ Chunked(cursor)
    /\ IF EOF(cursor)
       THEN phase' = "panicked" /\ UNCHANGED <<cursor, token>>  \* index out of range
       ELSE LET c == Advanced(cursor)
            IN /\ cursor' = c
               /\ token' = IF skip THEN [token EXCEPT !.start = c.pos] ELSE token
               /\ UNCHANGED phase
    /\ UNCHANGED <<ranges, asked, goal, saved>>

\* Scanners mark the end of a token, and so does error recovery without a scan.
MarkEnd ==
    /\ Ready("scanning") \/ Ready("parsing")
    /\ token' = [token EXCEPT !.end = EndMark(cursor), !.set = TRUE]
    /\ UNCHANGED <<ranges, cursor, asked, goal, saved, phase>>

GetColumnKnown ==
    /\ Ready("scanning") /\ cursor.column.valid
    /\ asked' = TRUE
    /\ UNCHANGED <<ranges, cursor, token, goal, saved, phase>>

\* Back to the start of the row.
GetColumn ==
    /\ Ready("scanning") /\ ~cursor.column.valid
    /\ LET at == cursor.pos
           row == [bytes |-> at.bytes - at.col, row |-> at.row, col |-> 0]
           c == GetChunk([Goto(cursor, row, ranges) EXCEPT
                            !.column = [value |-> 0, valid |-> TRUE]])
       IN cursor' = IF EOF(c) THEN c ELSE GetLookahead(c)
    /\ goal' = cursor.pos.bytes
    /\ asked' = TRUE
    /\ UNCHANGED <<ranges, token, saved, phase>>

Behind == cursor.pos.bytes < goal /\ ~EOF(cursor) /\ Chunked(cursor)

GetColumnWalk ==
    /\ goal # None /\ Behind
    /\ cursor' = DoAdvance(cursor)
    /\ UNCHANGED <<ranges, token, asked, goal, saved, phase>>

GetColumnDone ==
    /\ goal # None /\ ~Behind
    /\ goal' = None
    /\ UNCHANGED <<ranges, cursor, token, asked, saved, phase>>

\* The scan is over; a token that ends before it starts is empty.
Finish ==
    /\ Ready("scanning")
    /\ LET end == IF token.set THEN token.end ELSE EndMark(cursor)
       IN token' = [start |-> IF end.bytes < token.start.bytes THEN end ELSE token.start,
                    end |-> end, set |-> TRUE]
    /\ phase' = "scanned"
    /\ UNCHANGED <<ranges, cursor, asked, goal, saved>>

\* The token is taken, or the scanner found none and lex goes back for the next one.
Accept ==
    /\ Ready("scanned")
    /\ phase' = "parsing" /\ saved' = Nowhere
    /\ UNCHANGED <<ranges, cursor, token, asked, goal>>

ScanAgain ==
    /\ Ready("scanned")
    /\ cursor' = [Reset(cursor, saved.pos) EXCEPT !.column = saved.column]
    /\ phase' = "parsing" /\ saved' = Nowhere
    /\ UNCHANGED <<ranges, token, asked, goal>>

\* Or, looking for the end of an error, lex skips a character first.
SkipCharacter ==
    /\ Ready("scanned") /\ ~EOF(cursor)
    /\ cursor' = Advanced(cursor)
    /\ phase' = "parsing" /\ saved' = Nowhere
    /\ UNCHANGED <<ranges, token, asked, goal>>

Next ==
    \/ \E rs \in RangeLists : SetIncludedRanges(rs)
    \/ SetInput \/ ParserReset
    \/ \E b \in 0 .. N : (b < N => Width[Doc[b + 1]] # 0) /\ Seek(b)
    \/ Start \/ \E skip \in BOOLEAN : Advance(skip)
    \/ MarkEnd \/ GetColumnKnown \/ GetColumn \/ GetColumnWalk \/ GetColumnDone
    \/ Finish \/ Accept \/ ScanAgain \/ SkipCharacter

Spec == Init /\ [][Next]_vars
-----------------------------------------------------------------------------
(* Properties.                                                             *)

\* The state stays in its types, and the lexer in a range of the list or just past it.
TypeOK ==
    /\ ranges \in Seq([start : Nat, end : Nat]) /\ ranges # <<>>
    /\ cursor \in Cursor /\ cursor.index \in 1 .. End(ranges)
    /\ token \in [start : Place, end : Place, set : BOOLEAN]
    /\ asked \in BOOLEAN
    /\ goal \in Nat \cup {None}
    /\ saved \in [pos : Place, column : Column]
    /\ phase \in {"between", "parsing", "scanning", "scanned", "panicked"}

\* Until the text is used up the position is inside the range the lexer is in, whatever
\* ranges, empty ones among them, lie between the places it is sent to.
InRange ==
    ~EOF(cursor) => /\ ranges[cursor.index].start <= cursor.pos.bytes
                    /\ cursor.pos.bytes < ranges[cursor.index].end

\* The row and column that Advance and GetColumn keep up to date step by step are those
\* of the byte: of the position, and of the ends of the token.
PlacesRight ==
    /\ cursor.pos = PlaceOf(cursor.pos.bytes)
    /\ token.start = PlaceOf(token.start.bytes) /\ token.end = PlaceOf(token.end.bytes)

\* Where the characters of a range start: wherever none that starts earlier in it does
\* not reach over.
CharsOf(r) ==
    {b \in r.start .. r.end - 1 :
       b < N /\ \A p \in r.start .. b - 1 : p + Decode(p, N).size <= b}
\* The lists of ranges there are, and the characters of each: tables, as the ranges change
\* seldom.
Lists == RangeLists \cup {<<[start |-> 0, end |-> N + 1]>>}
CharsIn == [rs \in Lists |-> UNION {CharsOf(rs[i]) : i \in 1 .. Len(rs)}]
Chars == CharsIn[ranges]

\* During a parse the column count, while it is kept, is the number of included characters
\* that precede the position in its row, without the byte order mark: what GetColumn would
\* count from the row's start.  Between two parses new ranges may leave it behind the time,
\* which SetInput must make up for.
ColumnRight ==
    phase # "between" /\ cursor.column.valid /\ goal = None =>
       LET b == cursor.pos.bytes
       IN cursor.column.value =
             Cardinality({c \in Chars : LineStart(b) <= c /\ c < b
                                         /\ (c = 0 => Decode(0, N).code # BOM)})

\* A finished token does not end before it starts, and its last byte is included text:
\* it never reaches into the gap between two ranges.
TokenTight ==
    phase = "scanned" =>
       /\ token.start.bytes <= token.end.bytes
       /\ token.start.bytes < token.end.bytes =>
             \E i \in 1 .. Len(ranges) : ranges[i].start < token.end.bytes
                                         /\ token.end.bytes <= ranges[i].end

\* The characters of a list in order, and how many of them start before a byte.
Preceding(S, b) == Cardinality({c \in S : c < b})
CodesIn ==
    [rs \in Lists |->
        [k \in 1 .. Cardinality(CharsIn[rs]) |->
            Decode(CHOOSE b \in CharsIn[rs] : Preceding(CharsIn[rs], b) = k - 1, N).code]]
Text == CodesIn[ranges]

\* GetColumn seems to stay where it was called.
Before == Preceding(Chars, IF goal # None THEN goal ELSE cursor.pos.bytes)
Scan == phase \in {"scanning", "scanned", "panicked"}
Lookahead ==
    IF ~Scan THEN Nul
    ELSE IF goal = None THEN cursor.ahead.code
    ELSE IF Before = Len(Text) THEN Nul ELSE Text[Before + 1]

Included == INSTANCE IncludedText WITH
    text <- Text, whole <- 0 \in Chars, at <- Before + 1, lookahead <- Lookahead,
    scanning <- Scan

\* Advance walks through exactly the included characters, whatever the chunks and the
\* short cut; MarkEnd, GetColumn and the end of a scan do not move the lexer.
ReadsIncludedText == Included!Spec

\* Advance returns at the end of the text, where there is no chunk.
NeverPanics == phase # "panicked"
-----------------------------------------------------------------------------
(* The inductive invariant behind TypeOK and InRange.                      *)

\* A cursor that can go on in the ranges rs: it can go back to the start of its row, and
\* a chunk it holds is text, the text at the position unless the lexer is at the end.
Placed(c, rs) == c.index # End(rs) => /\ rs[c.index].start <= c.pos.bytes
                                      /\ c.pos.bytes < rs[c.index].end
Covered(c, rs) == Chunked(c) => /\ c.chunk.start + c.chunk.len <= N
                                /\ c.index # End(rs) => InChunk(c)
Good(c, rs) ==
    /\ c \in Cursor /\ c.index \in 1 .. End(rs) /\ c.pos.col <= c.pos.bytes
    /\ Placed(c, rs) /\ Covered(c, rs)

IInv == TypeOK /\ Good(cursor, ranges) /\ saved.pos.col <= saved.pos.bytes

\* And what PlacesRight needs besides: the place lex comes back to is right too, and the
\* lookahead is what stands in the text at the position, as far as some chunk let it be seen.
Right(place) == place = PlaceOf(place.bytes)
Seen(c, rs) ==
    c.ahead.size # 0 /\ c.index # End(rs) =>
       \E limit \in c.pos.bytes + 1 .. N : c.ahead = Decode(c.pos.bytes, limit)

PInv == PlacesRight /\ Right(saved.pos) /\ Seen(cursor, ranges)
=============================================================================
