------------------------------ MODULE MCLexer ------------------------------
(* A small text for Lexer. *)
EXTENDS Lexer

\* Two rows: a byte order mark and "aa", then a character of two bytes.
MCDoc == <<"mark", "rest", "rest", "a", "a", "newline", "e", "rest", "newline">>
MCWidth == [c \in {"mark", "rest", "a", "newline", "e"} |->
              CASE c = "mark" -> 3 [] c = "rest" -> 0 [] c = "e" -> 2 [] OTHER -> 1]
R(start, end) == [start |-> start, end |-> end]

\* Gaps inside a row, an empty range first, ranges that touch, also in the middle
\* of a character, one that ends beyond the text, and lists that are refused.
MCRangeLists == {
    <<R(0, 4), R(5, 8)>>, <<R(3, 4), R(4, 6), R(8, 20)>>, <<R(0, 0), R(0, 8)>>,
    <<R(4, 7), R(7, 9)>>, <<R(6, 9), R(0, 3)>>, <<R(5, 4)>>}
\* A gap with a newline in it.
RowLists == {<<R(3, 5), R(6, 9)>>}
\* The text goes on after the end of the last row that is included.
CutLists == {<<R(0, 6)>>}

\* GetColumn "reports the column of the current position" (lexer.go:277).
ReportsColumn == ColumnRight
=============================================================================
