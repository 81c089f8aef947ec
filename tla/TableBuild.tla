------------------------------ MODULE TableBuild ------------------------------
(***************************************************************************)
(* ts-translate's last step: the parsed C of a generated parser becomes   *)
(* the tables the codec writes (cmd/ts-translate/build.go, walk.go).  A   *)
(* file is a record of what cparse.go collected: lang, the numbers of the *)
(* language value by field name; array, the array a field links to (both  *)
(* partial); consts; text, its strings; lexFns, main and keyword, <<>> or *)
(* one lex function.  An initializer is a sequence of elements, each with *)
(* its designator (-1 for none) and its value; a struct's value is a       *)
(* sequence of pairs of a field name ("" for none) and a number.          *)
(***************************************************************************)
EXTENDS Integers, Sequences, TableCodec, LexProgram
LOCAL INSTANCE SequencesExt
LOCAL INSTANCE FiniteSetsExt

U(w, n) == n % Base ^ w
S(w, n) == LET u == U(w, n) IN IF 2 * u < Base ^ w THEN u ELSE u - Base ^ w

PlacesInOrder(elems) == [i \in DOMAIN elems |-> i - 1]

(* Where each element lands: at its designator, or after the one before. *)
Places(elems) ==
    LET place[i \in DOMAIN elems] ==
            IF elems[i].index >= 0 THEN elems[i].index ELSE IF i = 1 THEN 0 ELSE place[i - 1] + 1
    IN  place

Dimension(d) ==
    IF d.dims # << >> /\ d.dims[1] > 0 THEN d.dims[1]
    ELSE Max({0} \cup {p + 1 : p \in Range(Places(d.elems))})

(* So many entries, each from the last element that lands there. *)
Filled(size, d, blank, Build(_)) ==
    LET places == Places(d.elems)
        For(at) == {i \in DOMAIN places : places[i] = at}
    IN  [n \in 1 .. size |->
            IF For(n - 1) = {} THEN blank ELSE Build(d.elems[Max(For(n - 1))].value)]

Scalars(d, w) == Filled(Dimension(d), d, 0, LAMBDA v : U(w, v))

(* A matrix, flattened row by row. *)
Matrix(d, rows, cols, w) ==
    LET Row(elems) == Filled(cols, [elems |-> elems], 0, LAMBDA v : U(w, v))
    IN  Joined(Filled(rows, d, [c \in 1 .. cols |-> 0], Row))

(* A struct's field: its last designated value, or the one at its place  *)
(* among those without a name.                                            *)
Field(v, name, place) ==
    LET bare == SelectSeq(v, LAMBDA f : f[1] = "")
        named == {i \in DOMAIN v : v[i][1] = name}
    IN  IF named # {} THEN v[Max(named)][2] ELSE IF place <= Len(bare) THEN bare[place][2] ELSE 0

NoPlace == 99
MapSlices(d) ==
    Filled(Dimension(d), d, <<0, 0>>, LAMBDA v : <<U(2, Field(v, "index", 1)), U(2, Field(v, "length", 2))>>)
FieldEntries(d) ==
    Filled(Dimension(d), d, <<0, 0, FALSE>>,
           LAMBDA v : <<U(2, Field(v, "field_id", 1)), U(1, Field(v, "child_index", 2)),
                        Field(v, "inherited", NoPlace) # 0>>)
Metadata(d) ==
    Filled(Dimension(d), d, <<FALSE, FALSE, FALSE>>,
           LAMBDA v : <<Field(v, "visible", NoPlace) # 0, Field(v, "named", NoPlace) # 0,
                        Field(v, "supertype", NoPlace) # 0>>)
LexModes(d) ==
    Filled(Dimension(d), d, <<0, 0, 0>>,
           LAMBDA v : <<U(2, Field(v, "lex_state", 1)), U(2, Field(v, "external_lex_state", 2)),
                        U(2, Field(v, "reserved_word_set_id", 3))>>)

(* An entry of the action table: a group's head, or one action. *)
NoAction == <<0, <<FALSE, FALSE, FALSE>>, 0, 0, 0, 0, 0, 0>>
Action(v) ==
    CASE v.kind = "entry" -> [NoAction EXCEPT ![4] = U(1, v.count), ![2][3] = v.reusable]
      [] v.kind = "shift" -> [NoAction EXCEPT ![5] = U(2, v.state)]
      [] v.kind = "shiftRepeat" -> [NoAction EXCEPT ![5] = U(2, v.state), ![2][2] = TRUE]
      [] v.kind = "shiftExtra" -> [NoAction EXCEPT ![2][1] = TRUE]
      [] v.kind = "reduce" ->
            [NoAction EXCEPT ![1] = 1, ![3] = U(1, v.childCount), ![6] = U(2, v.symbol),
                             ![7] = S(2, v.precedence), ![8] = U(2, v.production)]
      [] v.kind = "recover" -> [NoAction EXCEPT ![1] = 3]
      [] v.kind = "accept" -> [NoAction EXCEPT ![1] = 2]

(* Every set a case tests, in the order of their names, and its index. *)
RECURSIVE SetsOf(_)
SetsOf(node) ==
    CASE node.is = "set" -> {node.set}
      [] node.is \in {"Not", "Neg"} -> SetsOf(node.x)
      [] node.is = "bin" -> SetsOf(node.l) \cup SetsOf(node.r)
      [] node.is = "if" ->
            SetsOf(node.cond) \cup UNION {SetsOf(node.then[i]) : i \in DOMAIN node.then}
      [] OTHER -> {}
RECURSIVE Ascending(_)
Ascending(set) == IF set = {} THEN << >> ELSE <<Min(set)>> \o Ascending(set \ {Min(set)})
SetNames(file) ==
    LET stmts == UNION {Range(c.stmts) : c \in UNION {Range(fn.cases) : fn \in
                        Range(file.lexFns.main) \cup Range(file.lexFns.keyword)}}
    IN  Ascending(UNION {SetsOf(st) : st \in stmts})
CharacterSets(file) ==
    [i \in DOMAIN SetNames(file) |->
        LET set == file.sets[SetNames(file)[i]]
        IN  [j \in DOMAIN set |-> <<S(4, set[j][1]), S(4, set[j][2])>>]]
SetIndex(file) ==
    [name \in Range(SetNames(file)) |-> (CHOOSE i \in DOMAIN SetNames(file) : SetNames(file)[i] = name) - 1]

(* A lex function whose conditions nest too deep stops the translation.   *)
Programs(file, fns) == [i \in DOMAIN fns |-> BuildLexProgram(fns[i], SetIndex(file))]
Translates(file) ==
    /\ file.lang.abi \in 13 .. 15
    /\ \A fns \in {file.lexFns.main, file.lexFns.keyword} :
          \A i \in DOMAIN fns : Programs(file, fns)[i].fits

Unlinked == [dims |-> << >>, elems |-> << >>]
BuildTables(file) ==
    LET Of(name, w) == IF name \in DOMAIN file.lang THEN U(w, file.lang[name]) ELSE 0
        Linked(name) == IF name \in DOMAIN file.array THEN file.array[name] ELSE Unlinked
        U16s(name) == Scalars(Linked(name), 2)
        Strings(name) == Filled(Dimension(Linked(name)), Linked(name), << >>, LAMBDA v : v)
        Table(name, rows, cols, w) ==
            Matrix(Linked(name), IF Linked(name) = Unlinked THEN 0 ELSE rows, file.consts[cols], w)
        Stored(p) == [code |-> p.code, states |-> p.states, maps |-> p.maps]
        Program(fns) == [i \in DOMAIN fns |-> Stored(Programs(file, fns)[i])]
        scanner == Table("external_scanner_states", Dimension(Linked("external_scanner_states")),
                         "externals", 1)
    IN  [ABIVersion |-> Of("abi", 4), SymbolCount |-> Of("symbol_count", 4),
         AliasCount |-> Of("alias_count", 4), TokenCount |-> Of("token_count", 4),
         ExternalTokenCount |-> Of("external_token_count", 4), StateCount |-> Of("state_count", 4),
         LargeStateCount |-> Of("large_state_count", 4), ProductionIDCount |-> Of("production_id_count", 4),
         FieldCount |-> Of("field_count", 4), SupertypeCount |-> Of("supertype_count", 4),
         MaxAliasSequenceLen |-> Of("max_alias_sequence_length", 2),
         MaxReservedWordSetLen |-> Of("max_reserved_word_set_size", 2),
         KeywordCaptureToken |-> Of("keyword_capture_token", 2),
         MajorVersion |-> Of("major_version", 1), MinorVersion |-> Of("minor_version", 1),
         PatchVersion |-> Of("patch_version", 1), Name |-> file.text,
         ParseTable |-> Table("parse_table", file.consts.large_states, "symbols", 2),
         SmallParseTable |-> U16s("small_parse_table"),
         SmallParseTableMap |-> Scalars(Linked("small_parse_table_map"), 4),
         ParseActions |-> Filled(Dimension(Linked("parse_actions")), Linked("parse_actions"), NoAction, Action),
         SymbolNames |-> Strings("symbol_names"), FieldNames |-> Strings("field_names"),
         FieldMapSlices |-> MapSlices(Linked("field_map_slices")),
         FieldMapEntries |-> FieldEntries(Linked("field_map_entries")),
         SymbolMetadataTable |-> Metadata(Linked("symbol_metadata")),
         PublicSymbolMap |-> U16s("public_symbol_map"), AliasMap |-> U16s("alias_map"),
         AliasSequences |-> Table("alias_sequences", file.consts.productions, "alias_length", 2),
         LexModes |-> LexModes(Linked("lex_modes")), PrimaryStateIDs |-> U16s("primary_state_ids"),
         ReservedWords |-> Table("reserved_words", Dimension(Linked("reserved_words")), "reserved_length", 2),
         SupertypeSymbols |-> U16s("supertype_symbols"),
         SupertypeMapSlices |-> MapSlices(Linked("supertype_map_slices")),
         SupertypeMapEntries |-> U16s("supertype_map_entries"),
         ExternalScannerStates |-> [i \in DOMAIN scanner |-> scanner[i] # 0],
         ExternalScannerSymbol |-> U16s("external_scanner_symbol_map"),
         CharacterSets |-> CharacterSets(file),
         Lex |-> Program(file.lexFns.main), KeywordLex |-> Program(file.lexFns.keyword)]

=============================================================================
