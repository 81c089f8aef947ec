---------------------------- MODULE MCGrammarFetch ----------------------------
(* Three runs after one repository, at two revisions. *)
EXTENDS GrammarFetch, TLC
CONSTANTS a, b, c, head, pinned, parser, grammar
MCWants == a :> pinned @@ b :> head @@ c :> pinned
=============================================================================
