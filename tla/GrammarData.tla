----------------------------- MODULE GrammarData -----------------------------
(***************************************************************************)
(* A grammar from its parsed C to its use: ts-translate builds and        *)
(* encodes the tables (translate.go), the bytes may be hurt on their way, *)
(* LoadGrammar decodes them and wires the lexers (grammar.go), and then   *)
(* the parser asks: it iterates over a state's lookaheads, or runs a      *)
(* lexer over a text.                                                     *)
(***************************************************************************)
EXTENDS TableBuild, LanguageTables
LOCAL INSTANCE SequencesExt

CONSTANTS
    Grammars,    \* the grammars: abstract tables, whatever the model of them is
    FileOf(_),   \* the parsed C of a grammar
    Texts,       \* the texts to lex
    Hurtable,    \* the grammars whose blob may be hurt; nothing is asked of them
    Pokes        \* the bytes a hurt byte may become

VARIABLES
    grammar, stage,
    blob, hurt,      \* the bytes, and how they were hurt
    loaded,          \* what LoadGrammar gave, or << >>: it panicked or has not run
    state, it, seen, \* the iterator, its state, and what it gave
    text, run        \* the lexer's text and run

vars == <<grammar, stage, blob, hurt, loaded, state, it, seen, text, run>>

Nothing == << >>

Init ==
    /\ grammar \in {g \in Grammars : Translates(FileOf(g))}
    /\ stage = "C" /\ hurt = "no"
    /\ blob = Nothing /\ loaded = Nothing /\ it = Nothing /\ seen = Nothing
    /\ text = Nothing /\ run = Nothing /\ state = 0

asking == <<state, it, seen, text, run>>

(* main of ts-translate, without the file it writes. *)
Translate ==
    /\ stage = "C"
    /\ stage' = "blob"
    /\ blob' = EncodeTables(BuildTables(FileOf(grammar)))
    /\ UNCHANGED <<grammar, hurt, loaded, asking>>

(* A blob cut short, one with something after it, one with a byte changed. *)
Hurt ==
    /\ stage = "blob" /\ hurt = "no" /\ grammar \in Hurtable
    /\ \/ \E n \in 0 .. Len(blob) - 1 : blob' = SubSeq(blob, 1, n) /\ hurt' = "cut"
       \/ \E b \in Pokes : blob' = Append(blob, b) /\ hurt' = "longer"
       \/ \E i \in DOMAIN blob, b \in Pokes :
             blob[i] # b /\ blob' = [blob EXCEPT ![i] = b] /\ hurt' = "changed"
    /\ UNCHANGED <<grammar, stage, loaded, asking>>

(* It panics on a blob it cannot read. *)
LoadGrammar ==
    /\ stage = "blob"
    /\ \E d \in {DecodeTables(blob)} :
           /\ stage' = IF d.ok THEN "loaded" ELSE "panicked"
           /\ loaded' = IF d.ok THEN d.tables ELSE Nothing
           /\ blob' = IF hurt = "no" THEN Nothing ELSE blob
    /\ UNCHANGED <<grammar, hurt, asking>>

Ask ==
    /\ stage = "loaded" /\ grammar \notin Hurtable
    /\ \E s \in 0 .. loaded.StateCount - 1 : state' = s /\ it' = Lookaheads(loaded, s)
    /\ stage' = "iterating"
    /\ UNCHANGED <<grammar, blob, hurt, loaded, seen, text, run>>

GoOn ==
    /\ stage = "iterating"
    /\ it' = NextLookahead(loaded, it)
    /\ IF it'.phase = "done" THEN stage' = "iterated" /\ seen' = seen
       ELSE stage' = stage /\ seen' = Append(seen, it')
    /\ UNCHANGED <<grammar, blob, hurt, loaded, state, text, run>>

Lex ==
    /\ stage = "loaded" /\ grammar \notin Hurtable /\ loaded.Lex # << >>
    /\ stage' = "lexing"
    /\ text' \in Texts
    /\ \E s \in 0 .. Len(loaded.Lex[1].states) - 1 : state' = s /\ run' = StartRun(s)
    /\ UNCHANGED <<grammar, blob, hurt, loaded, it, seen>>

Instruction ==
    /\ stage = "lexing" /\ run.answer = << >>
    /\ run' = Step(loaded.Lex[1], run, text,
                   LAMBDA set, c : SetContains(loaded.CharacterSets[set + 1], c))
    /\ UNCHANGED <<grammar, stage, blob, hurt, loaded, state, it, seen, text>>

Next == Translate \/ Hurt \/ LoadGrammar \/ Ask \/ GoOn \/ Lex \/ Instruction

Spec == Init /\ [][Next]_vars

=============================================================================
