----------------------------- MODULE MCReparse -----------------------------
(***************************************************************************)
(* A grammar for Reparse.  A sentence is a word or more; or words, a colon *)
(* and items.  Two letters together are one token after the colon, two     *)
(* words before it; an "m" is a token whose kind the scanner's state       *)
(* decides; "#" may stand anywhere after the start.                        *)
(*    S = K | L ":" M    K = w K | w    L = w L | w    M = M i | i         *)
(* Words are read from the right, so that the first one already waits for  *)
(* what comes after the last.                                              *)
(***************************************************************************)
EXTENDS Reparse

End == 0   W == 1   D == 2   C == 3   MA == 4   MB == 5   X == 6
S == 7     K == 8   L == 9   M == 10
MCMetadata == [s \in 0..10 |-> [visible |-> TRUE, named |-> s > 6]]

ShiftTo(n) == [type |-> "shift", state |-> n, symbol |-> 0, count |-> 0, extra |-> FALSE]
GoTo(n) == [ShiftTo(n) EXCEPT !.type = "goto"]
By(s, n) == [type |-> "reduce", state |-> 0, symbol |-> s, count |-> n, extra |-> FALSE]
Items == {W, D, MA, MB}
Row(f) == [s \in DOMAIN f \union {X} |-> IF s = X THEN [ShiftTo(0) EXCEPT !.extra = TRUE] ELSE f[s]]
MCTable == [n \in 1..11 |-> Row(
  CASE n = 1 -> [s \in {W, L, K, S} |-> CASE s = W -> ShiftTo(2) [] s = L -> GoTo(3)
                                          [] s = K -> GoTo(8) [] s = S -> GoTo(9)]
    [] n = 2 -> [s \in {W, C, End, L, K} |-> CASE s = W -> ShiftTo(2) [] s = C -> By(L, 1)
                   [] s = End -> By(K, 1) [] s = L -> GoTo(4) [] s = K -> GoTo(5)]
    [] n = 3 -> [s \in {C} |-> ShiftTo(6)]
    [] n = 4 -> [s \in {C} |-> By(L, 2)]
    [] n = 5 -> [s \in {End} |-> By(K, 2)]
    [] n = 6 -> [s \in {W, D, M} |-> IF s = M THEN GoTo(10) ELSE ShiftTo(7)]
    [] n = 7 -> [s \in Items \union {End} |-> By(M, 1)]
    [] n = 8 -> [s \in {End} |-> By(S, 1)]
    [] n = 9 -> [s \in {End} |-> [ShiftTo(0) EXCEPT !.type = "accept"]]
    [] n = 10 -> [s \in Items \union {End} |-> IF s = End THEN By(S, 3) ELSE ShiftTo(11)]
    [] n = 11 -> [s \in Items \union {End} |-> By(M, 2)])]
Mode(lex, external) == [lex |-> lex, external |-> external]
MCLexModes == [n \in 1..11 |-> IF n = 6 THEN Mode(2, 0)
                               ELSE IF n \in {7, 10, 11} THEN Mode(2, 1) ELSE Mode(1, 0)]
MCSpellings == << { <<W, <<"a">> >>, <<C, <<":">> >>, <<X, <<"#">> >> },
                  { <<W, <<"a">> >>, <<D, <<"a", "a">> >>, <<X, <<"#">> >> } >>
\* What no other token of its state overlaps.
MCReusable == {<<n, s>> : n \in 1..11, s \in {End, C, X}} \union {<<1, W>>, <<2, W>>}
MCScanner == [x \in {0, 1} |-> [symbol |-> IF x = 0 THEN MA ELSE MB, word |-> <<"m">>, next |-> 1 - x]]

a == "a"
Texts6 == { <<a, Space, a, Space, Space>>, <<a, a, a>>, <<a, Space, a, ":", a>>, <<a, ":", a, a, "m", "m">>,
            <<a, ":", a, a, a, "m">>, <<a, "#", a, "#", ":", a>>, <<a, a, ":", a, "#", a>> }
Place(n) == At(n, Point(0, n))
Between(n, m) == [start |-> Place(n), end |-> Place(m)]
Whole == << [start |-> Place(0), end |-> At(MaxByte, MaxPoint)] >>
\* Every list ends where the longest text does, or after it.
MCRangeLists ==
  { Whole, << Between(0, 2), Between(4, 6) >>, << Between(0, 2), Between(2, 6) >>,
    << Between(0, 1), Between(2, 3), Between(4, 6) >>, << Between(2, 6) >>,
    << Between(1, 3), Between(5, 6) >>, << Between(0, 3), Between(4, 6) >> }
MCEdits(t) == { [from |-> from, to |-> to, insert |-> insert] :
                  <<from, to, insert>> \in { <<f, g, i>> \in (0..Len(t)) \X (0..Len(t)) \X
                    {<<>>, <<a>>, <<":">>, <<"m">>, <<Space>>, <<"#">>} :
                    /\ g \in f..f + 1 /\ (f # g \/ i # <<>>) } }
=============================================================================
