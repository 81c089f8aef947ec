---------------------------- MODULE IncludedText ----------------------------
(***************************************************************************)
(* What the lexer promises to a scanner: the characters of the included    *)
(* ranges, one after the other, each once, and then the end.  Between two  *)
(* scans the lexer can be sent anywhere.                                   *)
(***************************************************************************)
EXTENDS Integers, Sequences

CONSTANTS BOM, Nul

VARIABLES
    text,       \* the characters of the included ranges
    whole,      \* the first of them is the first of the document
    at,         \* the next of them
    lookahead,  \* that character while a scan runs, Nul at the end and between scans
    scanning
vars == <<text, whole, at, lookahead, scanning>>

Char(k) == IF k > Len(text) THEN Nul ELSE text[k]

Init ==
    /\ at \in 1 .. Len(text) + 1
    /\ lookahead = Nul /\ scanning = FALSE

\* Other ranges, another place.
Move ==
    /\ ~scanning'
    /\ at' \in 1 .. Len(text') + 1
    /\ lookahead' = Nul

\* A byte order mark at the start of the document is passed over.
Begin ==
    /\ ~scanning /\ scanning'
    /\ at' = IF at = 1 /\ whole /\ Char(1) = BOM THEN 2 ELSE at
    /\ lookahead' = Char(at')
    /\ UNCHANGED <<text, whole>>

Read ==
    /\ scanning /\ scanning' /\ at <= Len(text)
    /\ at' = at + 1
    /\ lookahead' = Char(at')
    /\ UNCHANGED <<text, whole>>

Next == Move \/ Begin \/ Read

Spec == Init /\ [][Next]_vars
=============================================================================
