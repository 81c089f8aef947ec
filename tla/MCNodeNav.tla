----------------------------- MODULE MCNodeNav -----------------------------
(***************************************************************************)
(* Small trees for NodeNav: every kind of leaf under visible, hidden and   *)
(* aliased nodes, two hidden levels deep.                                  *)
(***************************************************************************)
EXTENDS NodeNav

MCMetadata ==
  << [visible |-> TRUE, named |-> FALSE],     \* 1: a keyword
     [visible |-> TRUE, named |-> TRUE],      \* 2: an identifier
     [visible |-> FALSE, named |-> FALSE],    \* 3: a hidden token
     [visible |-> TRUE, named |-> TRUE],      \* 4: a rule
     [visible |-> FALSE, named |-> TRUE],     \* 5: a hidden rule
     [visible |-> TRUE, named |-> TRUE],      \* 6: a named alias
     [visible |-> TRUE, named |-> FALSE] >>   \* 7: an anonymous alias
\* A field is inherited from a hidden rule only.
MCAliases == [production \in 1..6 |-> IF production = 3 THEN <<0, 6>> ELSE <<0, 0>>]
Field(field, child, inherited) == [field |-> field, child |-> child, inherited |-> inherited]
MCFieldMaps ==
  << << Field(1, 1, FALSE) >>,
     << Field(1, 0, TRUE), Field(2, 1, FALSE) >>,
     << Field(1, 1, FALSE), Field(2, 0, FALSE) >>,
     << Field(1, 0, TRUE), Field(1, 1, TRUE) >>,
     << Field(1, 0, TRUE), Field(2, 0, TRUE) >>,
     << Field(1, 1, TRUE), Field(2, 1, TRUE) >> >>

Bytes(n) == Length(n, Point(0, n))
Leaf(symbol, padding, size) == NewLeaf(symbol, padding, Bytes(size), 0, 1, FALSE, FALSE)
Keyword == Leaf(1, LengthZero, 1)
NextRow == Leaf(2, Length(1, Point(1, 0)), 1)
Hidden == Leaf(3, LengthZero, 1)
Missing == NewMissingLeaf(1, 1, LengthZero, 0)
Comment == [Leaf(2, Bytes(1), 1) EXCEPT !.extra = TRUE]
Leaves == {Keyword, NextRow, Hidden, Missing}

NodesOver(symbol, production, lefts, rights) ==
  {NewNode(symbol, <<l, r>>, <<l, r>>, production) : l \in lefts, r \in rights}
\* A comment is no part of the production.
AroundComment(symbol, production, lefts, rights) ==
  {NewNode(symbol, <<l, Comment, r>>, <<l, Comment, r>>, production) :
    l \in lefts, r \in rights}
Rules == NodesOver(4, 3, {Keyword, Missing}, {NextRow, Hidden, Missing})
HiddenRules == NodesOver(5, 1, Leaves, Leaves)
                 \union AroundComment(5, 1, {Keyword}, {NextRow, Missing})
SmallRules == NodesOver(5, 1, {Keyword, Missing}, {NextRow, Missing})
DeepRules == NodesOver(5, 2, SmallRules, {Hidden, Missing})
MCRoots ==
  NodesOver(4, 4, HiddenRules, HiddenRules)
  \union AroundComment(4, 4, SmallRules, SmallRules)
  \union NodesOver(4, 2, HiddenRules, Rules \union Leaves)
  \union NodesOver(4, 5, DeepRules, Rules \union Leaves)
  \union NodesOver(4, 6, Leaves, DeepRules)
  \union AroundComment(4, 3, Rules, HiddenRules)
  \union NodesOver(4, 3, Rules, HiddenRules \union Leaves)
=============================================================================
