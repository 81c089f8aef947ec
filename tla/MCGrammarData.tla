---------------------------- MODULE MCGrammarData ----------------------------
(* Small grammars as abstract tables, the C files tree-sitter would generate *)
(* for them, and what the loaded tables must answer.                         *)
EXTENDS GrammarData
LOCAL INSTANCE SequencesExt
LOCAL INSTANCE FiniteSetsExt

MCBase == 16
MCMagic == <<5, 4, 3, 2>>
MCError == MCBase ^ 2 - 1
MCErrorRepeat == MCError - 1

Symbols == 0 .. 4          \* 0 the end, 1 and 2 tokens, 3 and 4 not
Tokens == 0 .. 2
States == 0 .. 3
Large == 0 .. 1
Productions == 0 .. 1

(* The groups of the action table: its index, its actions. *)
Groups == <<[at |-> 0, reusable |-> FALSE, of |-> << >>],
            [at |-> 1, reusable |-> TRUE, of |-> <<[kind |-> "shift", state |-> 2]>>],
            [at |-> 3, reusable |-> FALSE,
             of |-> <<[kind |-> "reduce", symbol |-> 3, childCount |-> 2, precedence |-> -5, production |-> 1],
                      [kind |-> "shiftExtra"]>>],
            [at |-> 6, reusable |-> TRUE, of |-> <<[kind |-> "accept"]>>]>>
Group(at) == CHOOSE g \in Range(Groups) : g.at = at

Rows == {r \in [Symbols -> {0, 1, 3, 6}] : /\ \A s \in Symbols \ Tokens : r[s] \in {0, 1, 3}
                                           /\ r[0] \in {0, 6} /\ \A s \in {1, 2} : r[s] \in {0, 1, 3}}
Plain == [s \in Symbols |-> IF s = 1 THEN 1 ELSE IF s = 3 THEN 3 ELSE 0]
Mixed == [s \in Symbols |-> IF s = 0 THEN 6 ELSE IF s = 2 THEN 0 ELSE 3]

-----------------------------------------------------------------------------
(* Lex functions. *)
Lookahead == [is |-> "lookahead"]
Lit(v) == [is |-> "lit", v |-> v]
Bin(op, l, r) == [is |-> "bin", op |-> op, l |-> l, r |-> r]
If(cond, then) == [is |-> "if", cond |-> cond, then |-> then]
Block(then) == If(Lit(1), then)
Go(s) == [is |-> "advance", state |-> s, skip |-> FALSE]
SkipTo(s) == [is |-> "advance", state |-> s, skip |-> TRUE]
AcceptToken(t) == [is |-> "accept", symbol |-> t]
End == [is |-> "end"]
ReadsEOF == [is |-> "readeof"]
LexCase(l, stmts) == [labels |-> {l}, isDefault |-> FALSE, stmts |-> stmts]
Default == [labels |-> {}, isDefault |-> TRUE, stmts |-> <<[is |-> "return", value |-> "false"]>>]

Sets == [n \in {3, 8} |-> IF n = 3 THEN << <<1, 1>>, <<3, 3>>, <<5, 6>> >> ELSE << <<2, 3>> >>]
In(set) == [is |-> "set", set |-> set]

MainLexer ==
    [prologue |-> <<ReadsEOF>>,
     cases |->
       <<LexCase(0, <<If([is |-> "eof"], <<Go(3)>>),
                      [is |-> "map", pairs |-> << <<2, 1>>, <<4, 2>> >>],
                      If(Bin("&&", Bin("!=", Lookahead, Lit(1)), In(3)), <<SkipTo(0)>>), End>>),
         LexCase(1, <<AcceptToken(1),
                      If(Bin("||", In(8), Bin("==", Lookahead, [is |-> "Neg", x |-> Lit(-1)])),
                         <<Block(<<If(Bin("<", Lit(2), Lookahead), <<Go(2)>>), Go(1)>>)>>), End>>),
         [LexCase(2, <<If([is |-> "Not", x |-> Bin(">", Lookahead, Lit(1))], <<End>>),
                       AcceptToken(2), If(In(3), <<Go(1)>>), End>>) EXCEPT !.labels = {2, 5}],
         LexCase(3, <<AcceptToken(0), End>>), Default>>]
KeywordLexer == [prologue |-> << >>, cases |-> <<Default, LexCase(1, <<AcceptToken(2), End>>)>>]

(* Conditions that nest as deep as the runtime's stack, and one deeper. *)
RECURSIVE Deep(_)
Deep(n) == IF n = 1 THEN Lookahead ELSE Bin("||", Lit(0), Deep(n - 1))
DeepLexer(n) ==
    [prologue |-> << >>,
     cases |-> <<LexCase(0, <<If(Deep(n), <<Go(1)>>), End>>), LexCase(1, <<AcceptToken(1), End>>)>>]

(* One test of the lookahead, in every form a generated condition takes. *)
Tests == {Bin(op, Lookahead, Lit(2)) : op \in {"==", "!=", "<", ">"}}
         \cup {In(3), In(8), [is |-> "Not", x |-> In(8)], [is |-> "eof"],
               [is |-> "Not", x |-> [is |-> "eof"]], [is |-> "Neg", x |-> Lookahead]}
         \cup {Bin(op, In(3), Bin("<", Lit(1), Lookahead)) : op \in {"&&", "||"}}
TestLexer(test) ==
    [prologue |-> <<ReadsEOF>>,
     cases |-> <<LexCase(0, <<If(test, <<AcceptToken(1)>>), If(Bin("==", Lookahead, Lit(4)), <<SkipTo(0)>>),
                              If(Bin("!=", Lookahead, Lit(0)), <<Go(1)>>), End>>),
                 LexCase(1, <<AcceptToken(2), If(test, <<[is |-> "return", value |-> "true"]>>),
                              If([is |-> "Not", x |-> [is |-> "eof"]], <<Go(0)>>), End>>)>>]

-----------------------------------------------------------------------------
(* A grammar: the rows of its states, its ABI, its lexers, whether the rest is empty. *)
G(rows, abi, main, keyword, bare) ==
    [rows |-> rows, abi |-> abi, main |-> main, keyword |-> keyword, bare |-> bare]
RowsWith(s, row) == [t \in States |-> IF t = s THEN row ELSE IF t = 3 THEN Mixed ELSE Plain]
LexGrammars == {G(RowsWith(1, Plain), 14, <<MainLexer>>, <<KeywordLexer>>, FALSE)}
               \cup {G(RowsWith(1, Plain), 15, <<DeepLexer(n)>>, << >>, FALSE) : n \in {4, 5}}
               \cup {G(RowsWith(1, Plain), 13, <<TestLexer(t)>>, << >>, FALSE) : t \in Tests}
Hurts == {G(RowsWith(1, Plain), 15, <<MainLexer>>, << >>, TRUE),
          G(RowsWith(1, Plain), 15, << >>, <<KeywordLexer>>, TRUE)}
RowGrammars == {G(RowsWith(s, r), 15, << >>, <<KeywordLexer>>, FALSE) : s \in {1, 2}, r \in Rows}
MCGrammars == RowGrammars \cup LexGrammars \cup Hurts
MCTexts == UNION {[1 .. n -> 1 .. 5] : n \in 0 .. 2} \cup [1 .. 3 -> 2 .. 4]

-----------------------------------------------------------------------------
(* The C of it. *)
At(i, v) == [index |-> i, value |-> v]
Next0(v) == At(-1, v)
Array(elems) == [dims |-> << >>, elems |-> elems]
Sized(n, elems) == [dims |-> <<n>>, elems |-> elems]
Each(set, Elem(_)) == LET s == Ascending(set) IN [i \in DOMAIN s |-> Elem(s[i])]
Here(value) == [i \in DOMAIN value |-> Next0(value[i])]

SmallGroups(row) ==   \* by the value, tokens apart from the others
    LET Of(kind) == Each({row[s] : s \in kind} \ {0}, LAMBDA v :
                         <<v, Cardinality({s \in kind : row[s] = v})>> \o
                         Ascending({s \in kind : row[s] = v}))
    IN  Of(Tokens) \o Of(Symbols \ Tokens)
SmallRowOf(row) == <<Len(SmallGroups(row))>> \o Joined(SmallGroups(row))

ActionElems ==
    Joined([i \in DOMAIN Groups |->
        <<At(Groups[i].at, [kind |-> "entry", count |-> Len(Groups[i].of), reusable |-> Groups[i].reusable])>>
        \o Here(Groups[i].of)])

MCFileOf(g) ==
    LET small == SmallRowOf(g.rows[2])
        full == [
            parse_table |-> Sized(2, Each(Large, LAMBDA s :
                At(s, Each({x \in Symbols : g.rows[s][x] # 0}, LAMBDA x : At(x, g.rows[s][x]))))),
            small_parse_table |-> Array(<<At(0, small[1])>> \o Tail(Here(small))
                                        \o <<At(Len(small), SmallRowOf(g.rows[3])[1])>>
                                        \o Tail(Here(SmallRowOf(g.rows[3])))),
            small_parse_table_map |-> Array(<<At(1, Len(small)), At(0, 0)>>),
            parse_actions |-> Array(ActionElems),
            symbol_names |-> Array(<<At(0, <<1>>), At(1, <<2, 3>>), At(2, <<4>>), At(4, <<6>>), At(3, <<7>>), At(5, <<4>>)>>),
            field_names |-> Array(<<At(0, << >>), At(1, <<8>>), At(2, <<9>>)>>),
            field_map_slices |-> Sized(2, <<At(1, << <<"index", 0>>, <<"length", 2>> >>)>>),
            field_map_entries |-> Array(<<At(0, << <<"", 1>>, <<"", 0>> >>),
                                          Next0(<< <<"", 2>>, <<"", 1>>, <<"inherited", 1>> >>)>>),
            symbol_metadata |-> Array(Each(0 .. 5, LAMBDA s :
                At(s, << <<"visible", IF s = 3 THEN 0 ELSE 1>>, <<"named", IF s < 3 THEN 0 ELSE 1>> >>
                        \o IF s = 3 THEN << <<"supertype", 1>> >> ELSE << >>))),
            public_symbol_map |-> Array(Each(0 .. 5, LAMBDA s : At(s, IF s = 2 THEN 1 ELSE s))),
            alias_map |-> Array(Here(<<2, 2, 1, 5, 4, 1, 5, 0>>)),
            alias_sequences |-> Sized(2, <<At(0, <<At(0, 0)>>), At(1, <<At(1, 5)>>)>>),
            lex_modes |-> Sized(4, <<At(0, << <<"", 0>>, <<"", 1>> >>),
                At(2, << <<"lex_state", 1>>, <<"external_lex_state", 2>>, <<"reserved_word_set_id", 1>> >>),
                Next0(<< <<"", -1>> >>), At(1, << <<"", 0>>, <<"", 0>>, <<"", 2>> >>)>>),
            primary_state_ids |-> Sized(4, Each(States, LAMBDA s : At(s, IF s = 3 THEN 2 ELSE s))),
            reserved_words |-> Sized(3, <<At(1, Here(<<1, 2>>)), At(2, Here(<<2>>))>>),
            supertype_symbols |-> Sized(1, <<Next0(3)>>),
            supertype_map_slices |-> Array(<<At(3, << <<"index", 1>>, <<"length", 2>> >>)>>),
            supertype_map_entries |-> Array(<<At(1, 1), Next0(4)>>),
            external_scanner_symbol_map |-> Sized(2, Here(<<1, 2>>)),
            external_scanner_states |-> Sized(3, <<At(2, Here(<<1, 1>>)), At(1, <<At(1, 1)>>)>>)]
        kept == IF g.bare THEN {"parse_actions", "symbol_names", "field_map_entries", "symbol_metadata", "lex_modes"}
                ELSE DOMAIN full
    IN  [lang |-> [abi |-> g.abi, symbol_count |-> 5, alias_count |-> 1, token_count |-> 3,
                   external_token_count |-> 2, state_count |-> 4, large_state_count |-> 2,
                   production_id_count |-> 2, field_count |-> 2, supertype_count |-> 1,
                   max_alias_sequence_length |-> 2, max_reserved_word_set_size |-> 2,
                   keyword_capture_token |-> 1, major_version |-> 1],
         consts |-> [large_states |-> 2, symbols |-> 5, productions |-> 2, alias_length |-> 2,
                     reserved_length |-> 2, externals |-> 2],
         text |-> <<1, 12>>, sets |-> Sets,
         array |-> [n \in kept |-> full[n]],
         lexFns |-> [main |-> g.main, keyword |-> g.keyword]]

-----------------------------------------------------------------------------
(* What an action comes to in the table. *)
Meaning(a) == Action(a)
MeantActions(g, s, x) == [i \in DOMAIN Group(g.rows[s][x]).of |-> Meaning(Group(g.rows[s][x]).of[i])]
MeantNext(g, s, x) ==
    LET actions == Group(g.rows[s][x]).of
    IN  IF x \notin Tokens THEN g.rows[s][x]
        ELSE IF actions = << >> THEN 0
        ELSE CASE Last(actions).kind = "shift" -> Last(actions).state
               [] Last(actions).kind = "shiftExtra" -> s
               [] OTHER -> 0

(* Every blob ts-translate writes reads back as what was written; one cut *)
(* short or with something after it is refused; one with a byte changed  *)
(* is refused, or reads as tables that would be written in as many bytes  *)
(* and read back the same; and no blob makes room for more entries than  *)
(* twice its bytes.                                                       *)
BlobHonest ==
    LET Honest(d, again) ==
            /\ d.made <= 2 * Len(blob)
            /\ d.ok => Len(again) = Len(blob) /\ DecodeTables(again).tables = d.tables
        Checked(d) == Honest(d, EncodeTables(d.tables))
    IN  /\ stage = "loaded" /\ hurt = "no" => loaded = BuildTables(FileOf(grammar))
        /\ stage = "panicked" => hurt # "no"
        /\ stage = "loaded" => hurt \notin {"cut", "longer"}
        /\ stage = "blob" => Checked(DecodeTables(blob))

(* A loaded grammar answers as its C arrays mean, for every state and      *)
(* symbol and whichever of the two layouts the state has: the actions and *)
(* the next state, the reserved words, the external tokens, aliases,      *)
(* fields and subtypes; a binary search finds the members of a set; and    *)
(* the iterator gives each symbol that has an entry exactly once, with    *)
(* its actions if it is a token and its next state if not.                *)
LookupsExact ==
    LET L == loaded
        g == grammar
        full == stage = "loaded" /\ hurt = "no" /\ ~g.bare
    IN  /\ full =>
            /\ \A s \in States, x \in Symbols :
                  /\ Lookup(L, s, x) = g.rows[s][x]
                  /\ NextState(L, s, x) = MeantNext(g, s, x)
                  /\ x \in Tokens =>
                        /\ Actions(L, s, x) = MeantActions(g, s, x)
                        /\ IsReusable(L, s, x) = Group(g.rows[s][x]).reusable
                        /\ HasReduceAction(L, s, x) <=> g.rows[s][x] = 3
                  /\ x # 0 => (IsReservedWord(L, s, x) <=> (s = 2 /\ x \in {1, 2}) \/ (s = 1 /\ x = 2))
            /\ \A s \in States : StateIsPrimary(L, s) <=> g.abi < 14 \/ s # 3
            /\ L.LexModes[4][1] = Error
            /\ EnabledExternalTokens(L, 1) = <<FALSE, TRUE>>
            /\ EnabledExternalTokens(L, 2) = <<TRUE, TRUE>>
            /\ FieldMap(L, 0) = << >> /\ FieldMap(L, 1) = << <<1, 0, FALSE>>, <<2, 1, TRUE>> >>
            /\ AliasAt(L, 1, 1) = 5 /\ AliasAt(L, 1, 0) = 0
            /\ AliasesForSymbol(L, 1) = <<1>> /\ AliasesForSymbol(L, 2) = <<1, 5>>
            /\ AliasesForSymbol(L, 3) = <<3>> /\ AliasesForSymbol(L, 4) = <<5>>
            /\ AliasesForSymbol(L, 5) = <<5>>
            /\ Subtypes(L, 3) = (IF g.abi < 15 THEN << >> ELSE <<1, 4>>) /\ Subtypes(L, 4) = << >>
            /\ FieldIDForName(L, <<9>>) = 2 /\ FieldIDForName(L, <<1>>) = 0
            /\ SymbolForName(L, <<4>>, FALSE) = 1 /\ SymbolForName(L, <<4>>, TRUE) = 5
            /\ SymbolForName(L, <<7>>, TRUE) = 3
            /\ \A i \in DOMAIN L.CharacterSets, c \in 0 .. 7 :
                  SetContains(L.CharacterSets[i], c) <=>
                      \E r \in Range(L.CharacterSets[i]) : c \in r[1] .. r[2]
        /\ stage = "iterated" /\ ~g.bare =>
            /\ {e.symbol : e \in Range(seen)} = {x \in Symbols : g.rows[state][x] # 0}
            /\ Cardinality({e.symbol : e \in Range(seen)}) = Len(seen)
            /\ \A e \in Range(seen) :
                  IF e.symbol \in Tokens THEN e.actions = MeantActions(g, state, e.symbol)
                  ELSE e.next = g.rows[state][e.symbol]

(* Walking a lex function's instructions comes to the token the C means,  *)
(* from every state and over every text, and the operand stack never holds *)
(* more than the runtime has room for.                                    *)
LexesAsMeant ==
    LET Members(set) == UNION {Sets[set][i][1] .. Sets[set][i][2] : i \in DOMAIN Sets[set]}
    IN  stage = "lexing" =>
            /\ Len(run.stack) <= MaxStackDepth
            /\ run.answer # << >> =>
                  Token(run) = MeantToken(grammar.main[1], state, text, [n \in DOMAIN Sets |-> Members(n)])

=============================================================================
