------------------------------ MODULE TableCodec ------------------------------
(***************************************************************************)
(* Tables travel as a blob (tables.go): magic, format, then every section *)
(* in one fixed order.  The writer's order and the reader's are two       *)
(* separate lists, as in the source, and nothing but their agreement makes *)
(* a blob readable.  Base is the number of values of a byte (256).  The   *)
(* compression around the bytes (zstd) is external: it refuses, or hands  *)
(* over some plain bytes.                                                 *)
(***************************************************************************)
EXTENDS Integers, Sequences

CONSTANTS Base, Magic, Format

ASSUME CodecAssumption ==
    /\ Base \in Nat /\ Base >= 8
    /\ Magic \in Seq(0 .. Base - 1) /\ Len(Magic) = 4
    /\ Format \in 1 .. Base - 1

(***************************************************************************)
(* Layouts: a number of some bytes, a record of fields, a list whose      *)
(* reader first asks for so many bytes an entry (an empty list is nil), a *)
(* lexer program (<<>> for no program).                                   *)
(***************************************************************************)
Num(w, k) == [is |-> "num", width |-> w, kind |-> k]
U8 == Num(1, "unsigned")
U16 == Num(2, "unsigned")
U32 == Num(4, "unsigned")
I16 == Num(2, "signed")
I32 == Num(4, "signed")
Bool == Num(1, "bool")
Flags == Num(1, "flags")
Rec(fields) == [is |-> "rec", of |-> fields]
List(w, layout) == [is |-> "list", count |-> w, of |-> layout]
Prog == [is |-> "prog"]
Str == List(1, U8)
Named(names, layout) == [i \in DOMAIN names |-> <<names[i], layout>>]

WriteOrder ==
    Named(<<"ABIVersion", "SymbolCount", "AliasCount", "TokenCount", "ExternalTokenCount",
            "StateCount", "LargeStateCount", "ProductionIDCount", "FieldCount", "SupertypeCount">>, U32) \o
    Named(<<"MaxAliasSequenceLen", "MaxReservedWordSetLen", "KeywordCaptureToken">>, U16) \o
    Named(<<"MajorVersion", "MinorVersion", "PatchVersion">>, U8) \o
    << <<"Name", Str>>,
       <<"ParseTable", List(2, U16)>>, <<"SmallParseTable", List(2, U16)>>,
       <<"SmallParseTableMap", List(4, U32)>>,
       <<"ParseActions", List(12, Rec(<<U8, Flags, U8, U8, U16, U16, I16, U16>>))>>,
       <<"SymbolNames", List(4, Str)>>, <<"FieldNames", List(4, Str)>>,
       <<"FieldMapSlices", List(4, Rec(<<U16, U16>>))>>,
       <<"FieldMapEntries", List(4, Rec(<<U16, U8, Bool>>))>>,
       <<"SymbolMetadataTable", List(1, Flags)>>, <<"PublicSymbolMap", List(2, U16)>>,
       <<"AliasMap", List(2, U16)>>, <<"AliasSequences", List(2, U16)>>,
       <<"LexModes", List(6, Rec(<<U16, U16, U16>>))>>, <<"PrimaryStateIDs", List(2, U16)>>,
       <<"ReservedWords", List(2, U16)>>, <<"SupertypeSymbols", List(2, U16)>>,
       <<"SupertypeMapSlices", List(4, Rec(<<U16, U16>>))>>, <<"SupertypeMapEntries", List(2, U16)>>,
       <<"ExternalScannerStates", List(1, Bool)>>, <<"ExternalScannerSymbol", List(2, U16)>>,
       <<"CharacterSets", List(4, List(8, Rec(<<I32, I32>>)))>>,
       <<"Lex", Prog>>, <<"KeywordLex", Prog>> >>

ReadOrder ==
    Named(<<"ABIVersion", "SymbolCount", "AliasCount", "TokenCount", "ExternalTokenCount",
            "StateCount", "LargeStateCount", "ProductionIDCount", "FieldCount", "SupertypeCount">>, U32) \o
    Named(<<"MaxAliasSequenceLen", "MaxReservedWordSetLen", "KeywordCaptureToken">>, U16) \o
    Named(<<"MajorVersion", "MinorVersion", "PatchVersion">>, U8) \o
    << <<"Name", Str>>,
       <<"ParseTable", List(2, U16)>>, <<"SmallParseTable", List(2, U16)>>,
       <<"SmallParseTableMap", List(4, U32)>>,
       <<"ParseActions", List(12, Rec(<<U8, Flags, U8, U8, U16, U16, I16, U16>>))>>,
       <<"SymbolNames", List(4, Str)>>, <<"FieldNames", List(4, Str)>>,
       <<"FieldMapSlices", List(4, Rec(<<U16, U16>>))>>,
       <<"FieldMapEntries", List(4, Rec(<<U16, U8, Bool>>))>>,
       <<"SymbolMetadataTable", List(1, Flags)>>, <<"PublicSymbolMap", List(2, U16)>>,
       <<"AliasMap", List(2, U16)>>, <<"AliasSequences", List(2, U16)>>,
       <<"LexModes", List(6, Rec(<<U16, U16, U16>>))>>, <<"PrimaryStateIDs", List(2, U16)>>,
       <<"ReservedWords", List(2, U16)>>, <<"SupertypeSymbols", List(2, U16)>>,
       <<"SupertypeMapSlices", List(4, Rec(<<U16, U16>>))>>, <<"SupertypeMapEntries", List(2, U16)>>,
       <<"ExternalScannerStates", List(1, Bool)>>, <<"ExternalScannerSymbol", List(2, U16)>>,
       <<"CharacterSets", List(4, List(8, Rec(<<I32, I32>>)))>>,
       <<"Lex", Prog>>, <<"KeywordLex", Prog>> >>

-----------------------------------------------------------------------------
(* The writer. *)

Bit(b) == IF b THEN 1 ELSE 0

(* A number as little-endian bytes, a negative one in two's complement;  *)
(* flags are bits 1, 2, 4.                                                *)
Bytes(num, v) ==
    LET n == CASE num.kind = "bool" -> Bit(v)
               [] num.kind = "flags" -> Bit(v[1]) + 2 * Bit(v[2]) + 4 * Bit(v[3])
               [] OTHER -> v
    IN  [i \in 1 .. num.width |-> (n \div Base ^ (i - 1)) % Base]

(* The concatenation of some sequences, in halves: TLC's recursion is short. *)
RECURSIVE Joined(_)
Joined(seqs) ==
    LET half == Len(seqs) \div 2
    IN  IF seqs = << >> THEN << >> ELSE IF half = 0 THEN seqs[1]
        ELSE Joined(SubSeq(seqs, 1, half)) \o Joined(SubSeq(seqs, half + 1, Len(seqs)))

RECURSIVE Written(_, _)
Written(layout, v) ==
    CASE layout.is = "num" -> Bytes(layout, v)
      [] layout.is = "rec" -> Joined([i \in DOMAIN v |-> Written(layout.of[i], v[i])])
      [] layout.is = "list" ->
            Bytes(U32, Len(v)) \o Joined([i \in DOMAIN v |-> Written(layout.of, v[i])])
      [] layout.is = "prog" ->
            IF v = << >> THEN Bytes(U32, 0)
            ELSE Written(List(5, Rec(<<U8, I32>>)), v[1].code) \o Written(List(4, I32), v[1].states)
                     \o Written(List(4, List(4, I32)), v[1].maps)

EncodeTables(t) ==
    Magic \o Bytes(U8, Format) \o
    Joined([i \in DOMAIN WriteOrder |-> Written(WriteOrder[i][2], t[WriteOrder[i][1]])])

-----------------------------------------------------------------------------
(***************************************************************************)
(* The reader: a position, whether a read failed, what the last read gave *)
(* and how many list entries were made room for.  After a failure every   *)
(* read gives zeros and moves nothing.                                    *)
(***************************************************************************)
Reader(buf) == [buf |-> buf, pos |-> 0, err |-> FALSE, made |-> 0, got |-> 0]

Raw(r, n) ==
    IF r.err \/ r.pos + n > Len(r.buf)
    THEN [r EXCEPT !.err = TRUE, !.got = [i \in 1 .. n |-> 0]]
    ELSE [r EXCEPT !.pos = @ + n, !.got = SubSeq(r.buf, r.pos + 1, r.pos + n)]

RECURSIVE LittleEndian(_)
LittleEndian(bytes) == IF bytes = << >> THEN 0 ELSE Head(bytes) + Base * LittleEndian(Tail(bytes))

Value(num, bytes) ==
    LET n == LittleEndian(bytes)
    IN  CASE num.kind = "unsigned" -> n
          [] num.kind = "signed" -> IF 2 * n < Base ^ num.width THEN n ELSE n - Base ^ num.width
          [] num.kind = "bool" -> n # 0
          [] num.kind = "flags" -> <<n % 2 = 1, (n \div 2) % 2 = 1, (n \div 4) % 2 = 1>>

ReadNum(num, r) == LET q == Raw(r, num.width) IN [q EXCEPT !.got = Value(num, @)]

CountUnchecked(r, width) == LET q == ReadNum(U32, r) IN IF q.err THEN [q EXCEPT !.got = 0] ELSE q

(* count: how many entries follow, refused when what is left of the blob *)
(* cannot hold that many.                                                 *)
Count(r, width) ==
    LET q == ReadNum(U32, r)
    IN  IF q.err THEN [q EXCEPT !.got = 0]
        ELSE IF q.got * width > Len(q.buf) - q.pos THEN [q EXCEPT !.err = TRUE, !.got = 0]
        ELSE q

RECURSIVE ReadOne(_, _)
(* One layout after another; what a failed read leaves behind is zeros,  *)
(* which nobody looks at, and the rest is left out here.                  *)
RECURSIVE ReadAll(_, _), ReadRest(_, _)
ReadAll(layouts, r) ==
    LET half == Len(layouts) \div 2
    IN  IF layouts = << >> THEN [r EXCEPT !.got = << >>]
        ELSE IF half = 0 THEN [ReadOne(layouts[1], r) EXCEPT !.got = <<@>>]
        ELSE ReadRest(SubSeq(layouts, half + 1, Len(layouts)), ReadAll(SubSeq(layouts, 1, half), r))
ReadRest(layouts, first) ==
    IF first.err THEN first ELSE [ReadAll(layouts, first) EXCEPT !.got = first.got \o @]
ReadOne(layout, r) ==
    CASE layout.is = "num" -> ReadNum(layout, r)
      [] layout.is = "rec" -> ReadAll(layout.of, r)
      [] layout.is = "list" ->
            LET q == Count(r, layout.count)
            IN  ReadAll([i \in 1 .. q.got |-> layout.of], [q EXCEPT !.made = @ + q.got])
      [] layout.is = "prog" ->
            LET code == ReadOne(List(5, Rec(<<U8, I32>>)), r)
                states == ReadOne(List(4, I32), code)
                maps == ReadOne(List(4, List(4, I32)), states)
            IN  IF code.got = << >> THEN code
                ELSE [maps EXCEPT !.got =
                        <<[code |-> code.got, states |-> states.got, maps |-> maps.got]>>]

(* DecodeTables answers the tables and the entries it made room for, or  *)
(* refuses: a wrong magic or format, a read that failed, bytes left over. *)
Decoded(headed, all) ==
    LET names == {ReadOrder[i][1] : i \in DOMAIN ReadOrder}
        At(name) == CHOOSE i \in DOMAIN ReadOrder : ReadOrder[i][1] = name
    IN  [ok |-> headed /\ ~all.err /\ all.pos = Len(all.buf),
         made |-> IF headed THEN all.made ELSE 0,
         tables |-> IF headed /\ ~all.err THEN [n \in names |-> all.got[At(n)]] ELSE << >>]
DecodeTables(buf) ==
    LET magic == Raw(Reader(buf), 4)
        format == ReadNum(U8, magic)
    IN  Decoded(magic.got = Magic /\ format.got = Format,
                ReadAll([i \in DOMAIN ReadOrder |-> ReadOrder[i][2]], format))

=============================================================================
