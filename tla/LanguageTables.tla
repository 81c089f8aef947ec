---------------------------- MODULE LanguageTables ----------------------------
(***************************************************************************)
(* What the parser asks of a grammar's tables (language.go, lookahead.go). *)
(* L is a decoded table: one field a section, as TableCodec reads it; a   *)
(* slice of Go is a sequence read at offset + 1, and reading outside one  *)
(* has no value, as it panics in the source.                              *)
(***************************************************************************)
EXTENDS Integers, Sequences
LOCAL INSTANCE SequencesExt

CONSTANTS Error, ErrorRepeat   \* BuiltinSymError and the symbol below it

Shift == 0
Reduce == 1

(* A parse action entry, as the codec lays it out. *)
TypeOf(entry) == entry[1]
IsExtra(entry) == entry[2][1]
Reusable(entry) == entry[2][3]
CountOf(entry) == entry[4]
StateOf(entry) == entry[5]

SmallRow(L, state) == L.SmallParseTableMap[state - L.LargeStateCount + 1]

(* A small state's row: so many groups of a value, a symbol count and the *)
(* symbols that have the value.                                           *)
RECURSIVE InGroups(_, _, _, _)
InGroups(data, pos, groups, symbol) ==
    IF groups = 0 THEN 0
    ELSE LET count == data[pos + 2]
         IN  IF \E j \in 1 .. count : data[pos + 2 + j] = symbol THEN data[pos + 1]
             ELSE InGroups(data, pos + 2 + count, groups - 1, symbol)

Lookup(L, state, symbol) ==
    IF state >= L.LargeStateCount
    THEN LET at == SmallRow(L, state)
         IN  InGroups(L.SmallParseTable, at + 1, L.SmallParseTable[at + 1], symbol)
    ELSE L.ParseTable[state * L.SymbolCount + symbol + 1]

(* The entry at an index of ParseActions heads so many actions. *)
ActionsAt(L, index) ==
    SubSeq(L.ParseActions, index + 2, index + 1 + CountOf(L.ParseActions[index + 1]))
ReusableAt(L, index) == Reusable(L.ParseActions[index + 1])

NoActions(symbol) == symbol \in {Error, ErrorRepeat}
Actions(L, state, symbol) ==
    IF NoActions(symbol) THEN << >> ELSE ActionsAt(L, Lookup(L, state, symbol))
IsReusable(L, state, symbol) == ~NoActions(symbol) /\ ReusableAt(L, Lookup(L, state, symbol))
HasReduceAction(L, state, symbol) ==
    LET actions == Actions(L, state, symbol) IN actions # << >> /\ TypeOf(actions[1]) = Reduce

NextState(L, state, symbol) ==
    IF NoActions(symbol) \/ symbol >= L.SymbolCount \/ state >= L.StateCount THEN 0
    ELSE IF symbol < L.TokenCount
    THEN LET actions == Actions(L, state, symbol)
             last == Last(actions)
         IN  IF actions = << >> \/ TypeOf(last) # Shift THEN 0
             ELSE IF IsExtra(last) THEN state ELSE StateOf(last)
    ELSE Lookup(L, state, symbol)

(* A state's reserved words: the row of its set, up to the first empty   *)
(* entry; the set numbered zero reserves nothing.                         *)
IsReservedWord(L, state, symbol) ==
    LET set == L.LexModes[state + 1][3]
        start == set * L.MaxReservedWordSetLen
    IN  set > 0 /\ \E i \in start .. start + L.MaxReservedWordSetLen - 1 :
                     /\ L.ReservedWords[i + 1] = symbol
                     /\ \A k \in start .. i - 1 : L.ReservedWords[k + 1] # 0

EnabledExternalTokens(L, scannerState) ==
    IF scannerState = 0 THEN << >>
    ELSE LET start == L.ExternalTokenCount * scannerState
         IN  SubSeq(L.ExternalScannerStates, start + 1, start + L.ExternalTokenCount)

AliasAt(L, production, child) ==
    IF production = 0 THEN 0
    ELSE L.AliasSequences[production * L.MaxAliasSequenceLen + child + 1]

FieldMap(L, production) ==
    IF L.FieldCount = 0 THEN << >>
    ELSE LET slice == L.FieldMapSlices[production + 1]
         IN  SubSeq(L.FieldMapEntries, slice[1] + 1, slice[1] + slice[2])

(* The alias map lists, by rising symbol, a symbol, a count and so many  *)
(* aliases, and ends with a zero.                                         *)
RECURSIVE AliasesFrom(_, _, _)
AliasesFrom(L, idx, symbol) ==
    LET at == L.AliasMap[idx + 1]
        count == L.AliasMap[idx + 2]
    IN  IF at = 0 \/ at > symbol THEN <<L.PublicSymbolMap[symbol + 1]>>
        ELSE IF at = symbol THEN SubSeq(L.AliasMap, idx + 3, idx + 2 + count)
        ELSE AliasesFrom(L, idx + 2 + count, symbol)
AliasesForSymbol(L, symbol) == AliasesFrom(L, 0, symbol)

Subtypes(L, supertype) ==
    IF L.ABIVersion < 15 \/ supertype >= L.SymbolCount + L.AliasCount
         \/ ~L.SymbolMetadataTable[supertype + 1][3]
    THEN << >>
    ELSE LET slice == L.SupertypeMapSlices[supertype + 1]
         IN  SubSeq(L.SupertypeMapEntries, slice[1] + 1, slice[1] + slice[2])

StateIsPrimary(L, state) == L.ABIVersion < 14 \/ state = L.PrimaryStateIDs[state + 1]

FieldIDForName(L, name) ==
    LET ids == {i \in 1 .. L.FieldCount : L.FieldNames[i + 1] = name}
    IN  IF ids = {} THEN 0 ELSE CHOOSE i \in ids : \A j \in ids : i <= j

(* The first symbol a tree can show under a name, as its public symbol. *)
SymbolForName(L, name, named) ==
    LET Fits(i) == LET m == L.SymbolMetadataTable[i + 1]
                   IN  (m[1] \/ m[3]) /\ m[2] = named /\ L.SymbolNames[i + 1] = name
        fit == {i \in 0 .. L.SymbolCount + L.AliasCount - 1 : Fits(i)}
    IN  IF fit = {} THEN 0
        ELSE L.PublicSymbolMap[(CHOOSE i \in fit : \A j \in fit : i <= j) + 1]

(* SetContains: a binary search of sorted ranges. *)
RECURSIVE Search(_, _, _, _)
Search(ranges, index, size, c) ==
    LET half == size \div 2
        r == ranges[index + half + 1]
        in == c >= r[1] /\ c <= r[2]
    IN  IF size <= 1 THEN in
        ELSE in \/ Search(ranges, IF c > r[2] THEN index + half ELSE index, size - half, c)
SetContains(ranges, c) == Search(ranges, 0, Len(ranges), c)

-----------------------------------------------------------------------------
(***************************************************************************)
(* The iterator over the symbols a state has an entry for.  In a small    *)
(* state it walks the groups and looks up the actions once a group; in a *)
(* large one it skips the zeros of the row.                               *)
(***************************************************************************)
Lookaheads(L, state) ==
    LET small == state >= L.LargeStateCount
        at == IF small THEN SmallRow(L, state) ELSE state * L.SymbolCount
    IN  [small |-> small, pos |-> at, groupEnd |-> IF small THEN at + 1 ELSE 0,
         groups |-> IF small THEN L.SmallParseTable[at + 1] ELSE 0,
         phase |-> "fresh", symbol |-> Error, value |-> 0, actions |-> << >>, next |-> 0]

Described(L, it, symbol, value) ==
    IF symbol < L.TokenCount
    THEN [it EXCEPT !.symbol = symbol, !.value = value, !.phase = "positioned",
                    !.actions = ActionsAt(L, value), !.next = 0]
    ELSE [it EXCEPT !.symbol = symbol, !.value = value, !.phase = "positioned", !.next = value]

Done(it) == [it EXCEPT !.phase = "done"]

NextInGroups(L, it) ==
    LET data == L.SmallParseTable
        pos == it.pos + 1
    IN  IF pos # it.groupEnd
        THEN [it EXCEPT !.pos = pos, !.symbol = data[pos + 1], !.phase = "positioned"]
        ELSE IF it.groups = 0 THEN Done([it EXCEPT !.pos = pos])
        ELSE Described(L, [it EXCEPT !.pos = pos + 2, !.groups = @ - 1,
                                     !.groupEnd = pos + 2 + data[pos + 2]],
                       data[pos + 3], data[pos + 1])

NextInRow(L, it) ==
    LET from == IF it.phase = "fresh" THEN 0 ELSE it.symbol + 1
        set == {s \in from .. L.SymbolCount - 1 : L.ParseTable[it.pos + s + 1] # 0}
        symbol == CHOOSE s \in set : \A t \in set : s <= t
    IN  IF set = {} THEN Done(it)
        ELSE Described(L, it, symbol, L.ParseTable[it.pos + symbol + 1])

NextLookahead(L, it) ==
    IF it.phase = "done" THEN it
    ELSE IF it.small THEN NextInGroups(L, it) ELSE NextInRow(L, it)

=============================================================================
