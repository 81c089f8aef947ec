------------------------------ MODULE Subtrees ------------------------------
(***************************************************************************)
(* Lengths, and what a subtree knows of the text under it: the leaves the  *)
(* lexer makes, and the sums a node takes of its children.  A subtree is a *)
(* record; `kids` are its children, which a module may keep as records or  *)
(* as references, so that a sum is taken of the children it is given.      *)
(***************************************************************************)
EXTENDS Integers, SequencesExt

CONSTANTS SymbolMetadata,   \* of a symbol: visible and named, or not
          AliasSequences,   \* of a production: the alias of each child, or 0
          MaxInlineBytes,   \* width of a byte field of an inline leaf
          MaxInlineRows,    \* and of its rows
          MaxInlineLookahead

BuiltinSymEnd == 0
BuiltinSymError == 65535
BuiltinSymErrorRepeat == 65534
MaxInlineSymbol == 255

ErrorCostPerRecovery == 500
ErrorCostPerMissingTree == 110
ErrorCostPerSkippedTree == 100
ErrorCostPerSkippedLine == 30
ErrorCostPerSkippedChar == 1

-----------------------------------------------------------------------------
(* Points and lengths. *)

Point(row, column) == [row |-> row, column |-> column]
PointAdd(a, b) ==
  IF b.row > 0 THEN Point(a.row + b.row, b.column)
  ELSE Point(a.row, a.column + b.column)
PointSub(a, b) ==
  IF a.row > b.row THEN Point(a.row - b.row, a.column)
  ELSE IF a.column >= b.column THEN Point(0, a.column - b.column)
  ELSE Point(0, 0)
PointLt(a, b) == a.row < b.row \/ (a.row = b.row /\ a.column < b.column)
PointLte(a, b) == a.row < b.row \/ (a.row = b.row /\ a.column <= b.column)

Length(bytes, extent) == [bytes |-> bytes, extent |-> extent]
LengthZero == Length(0, Point(0, 0))
LengthAdd(a, b) == Length(a.bytes + b.bytes, PointAdd(a.extent, b.extent))
LengthSub(a, b) ==
  Length(IF a.bytes >= b.bytes THEN a.bytes - b.bytes ELSE 0,
         PointSub(a.extent, b.extent))
LengthSaturatingSub(a, b) ==
  IF a.bytes > b.bytes THEN LengthSub(a, b) ELSE LengthZero

-----------------------------------------------------------------------------
(* Leaves.  The fields an inline leaf has no room for hold what their      *)
(* accessors answer for it.                                                *)

Metadata(symbol) ==
  CASE symbol = BuiltinSymError -> [visible |-> TRUE, named |-> TRUE]
    [] symbol = BuiltinSymErrorRepeat -> [visible |-> FALSE, named |-> FALSE]
    [] OTHER -> SymbolMetadata[symbol]

CanInline(padding, size, lookahead) ==
  /\ padding.bytes < MaxInlineBytes
  /\ padding.extent.row < MaxInlineRows
  /\ padding.extent.column < MaxInlineBytes
  /\ size.bytes < MaxInlineBytes
  /\ size.extent.row = 0
  /\ size.extent.column < MaxInlineBytes
  /\ lookahead < MaxInlineLookahead

\* The inline arm keeps no extent: it is rebuilt as a single row.
OneRow(size) == Length(size.bytes, Point(0, size.bytes))

Fresh(symbol, padding, size, lookahead, state) ==
  [ inline |-> FALSE, symbol |-> symbol, padding |-> padding, size |-> size,
    lookahead |-> lookahead, state |-> state, kids |-> <<>>,
    visible |-> Metadata(symbol).visible, named |-> Metadata(symbol).named,
    extra |-> FALSE, changed |-> FALSE, missing |-> FALSE, column |-> FALSE,
    fragileLeft |-> FALSE, fragileRight |-> FALSE, cost |-> 0,
    visibleKids |-> 0, namedKids |-> 0, descendants |-> 0, precedence |-> 0,
    depth |-> 0, production |-> 0, leafSymbol |-> symbol, leafState |-> state ]

NewLeaf(symbol, padding, size, lookahead, state, external, column) ==
  LET inline == /\ symbol <= MaxInlineSymbol /\ ~external /\ ~column
                /\ CanInline(padding, size, lookahead)
  IN  [Fresh(symbol, padding, IF inline THEN OneRow(size) ELSE size,
             lookahead, state)
        EXCEPT !.inline = inline, !.extra = (symbol = BuiltinSymEnd),
               !.column = column]

NewMissingLeaf(symbol, state, padding, lookahead) ==
  [NewLeaf(symbol, padding, LengthZero, lookahead, state, FALSE, FALSE)
    EXCEPT !.missing = TRUE,
           !.cost = ErrorCostPerMissingTree + ErrorCostPerRecovery]

\* A leaf that outgrows the inline arm moves to the heap.
Resize(leaf, padding, size) ==
  LET inline == leaf.inline /\ CanInline(padding, size, leaf.lookahead)
  IN  [leaf EXCEPT !.padding = padding, !.inline = inline,
                   !.size = IF inline THEN OneRow(size) ELSE size]

-----------------------------------------------------------------------------
(* Nodes. *)

IsError(s) == s.symbol = BuiltinSymError
InError(s) == s.symbol \in {BuiltinSymError, BuiltinSymErrorRepeat}
TotalSize(s) == LengthAdd(s.padding, s.size)
TotalBytes(s) == TotalSize(s).bytes
ErrorExtentCost(size) ==
  ErrorCostPerRecovery + ErrorCostPerSkippedChar * size.bytes
    + ErrorCostPerSkippedLine * size.extent.row

\* The number of children before the i-th that are not extra: the index of
\* the production's child that the i-th one is.
StructuralIndex(children, i) ==
  Quantify(1..(i - 1), LAMBDA j : ~children[j].extra)
AliasOf(production, children, i) ==
  IF production = 0 \/ children[i].extra THEN 0
  ELSE AliasSequences[production][StructuralIndex(children, i) + 1]

Total(children, Count(_)) == MapThenSumSet(Count, DOMAIN children)

\* The size of the first i children, without the padding of the first.
SizeOf(children, i) ==
  FoldLeftDomain(LAMBDA size, j : IF j = 1 THEN children[1].size
                                  ELSE LengthAdd(size, TotalSize(children[j])),
                 LengthZero, SubSeq(children, 1, i))

\* What a child adds to the cost of an error: an error repeat has already
\* paid for its extent, which the error pays for as a whole.
CostOf(self, c) ==
  IF c.symbol = BuiltinSymErrorRepeat THEN c.cost - ErrorExtentCost(c.size)
  ELSE c.cost +
       IF ~InError(self) \/ c.extra \/ (IsError(c) /\ c.kids = <<>>) THEN 0
       ELSE IF c.visible THEN ErrorCostPerSkippedTree
       ELSE ErrorCostPerSkippedTree * c.visibleKids

\* The visible nodes and the named ones a child stands for in its parent.
VisibleIn(production, children, i) ==
  IF AliasOf(production, children, i) # 0 \/ children[i].visible THEN 1
  ELSE children[i].visibleKids
NamedIn(production, children, i) ==
  LET alias == AliasOf(production, children, i) c == children[i]
  IN  IF alias # 0 THEN IF Metadata(alias).named THEN 1 ELSE 0
      ELSE IF c.visible THEN IF c.named THEN 1 ELSE 0
      ELSE c.namedKids

\* What the children come to.
CostOver(self, children) == Total(children, LAMBDA i : CostOf(self, children[i]))
PrecedenceOver(children) == Total(children, LAMBDA i : children[i].precedence)
DescendantsOver(production, children) ==
  Total(children, LAMBDA i : children[i].descendants
    + IF AliasOf(production, children, i) # 0 \/ children[i].visible THEN 1 ELSE 0)
VisibleOver(production, children) ==
  Total(children, LAMBDA i : VisibleIn(production, children, i))
NamedOver(production, children) ==
  Total(children, LAMBDA i : NamedIn(production, children, i))
LookaheadOver(children) ==
  LET padding == children[1].padding.bytes
      LookaheadEnd(i) == padding + SizeOf(children, i).bytes + children[i].lookahead
      end == Max({0} \union {LookaheadEnd(i) : i \in DOMAIN children})
  IN  end - SizeOf(children, Len(children)).bytes - padding

\* subtreeSummarizeChildren for a node `self` with these children: where they lie,
WithExtent(self, children) ==
  LET n == Len(children)
      size == SizeOf(children, n)
  IN  [self EXCEPT
        !.padding = children[1].padding, !.size = size,
        !.lookahead = LookaheadOver(children),
        !.column = \E i \in 1..n :
          /\ children[i].column
          /\ 0 = IF i = 1 THEN self.size.extent.row
                 ELSE SizeOf(children, i - 1).extent.row,
        !.cost = CostOver(self, children) + IF InError(self) THEN ErrorExtentCost(size) ELSE 0 ]
\* how many nodes they stand for,
WithCounts(self, children) ==
  LET n == Len(children)
  IN  [self EXCEPT
        !.precedence = PrecedenceOver(children),
        !.descendants = DescendantsOver(self.production, children),
        !.visibleKids = VisibleOver(self.production, children),
        !.namedKids = NamedOver(self.production, children),
        !.depth =
          IF n >= 2 /\ ~self.visible /\ ~self.named /\ children[1].symbol = self.symbol
          THEN 1 + Max({children[1].depth, children[n].depth}) ELSE 0 ]
\* and what must not be reused.
WithMarks(self, children) ==
  LET first == children[1]
      error == \E i \in DOMAIN children : IsError(children[i])
  IN  [self EXCEPT
        !.fragileLeft = @ \/ error \/ first.fragileLeft,
        !.fragileRight = @ \/ error \/ children[Len(children)].fragileRight,
        !.state = IF error THEN 65535 ELSE @,
        !.leafSymbol = first.leafSymbol, !.leafState = first.leafState ]
Summarized(self, children) ==
  WithMarks(WithCounts(WithExtent(self, children), children), children)

NewNode(symbol, kids, children, production) ==
  Summarized([Fresh(symbol, LengthZero, LengthZero, 0, 0)
               EXCEPT !.kids = kids, !.production = production,
                      !.fragileLeft = symbol >= BuiltinSymErrorRepeat,
                      !.fragileRight = symbol >= BuiltinSymErrorRepeat],
             children)
=============================================================================
