--------------------------- MODULE MCSharedTrees ---------------------------
(***************************************************************************)
(* Documents for SharedTrees: nested nodes over two rows, with lookahead,  *)
(* and a list of repeats as a parse leaves it before it is balanced.  And  *)
(* what is said of trees as a whole, and of the text under them.           *)
(***************************************************************************)
EXTENDS SharedTrees

\* 1: a token, 2: a rule, 3: a repeat, hidden
MCMetadata == << [visible |-> TRUE, named |-> FALSE], [visible |-> TRUE, named |-> TRUE],
                 [visible |-> FALSE, named |-> FALSE] >>
Leaf(padding, size, lookahead, column) ==
  NewLeaf(1, padding, size, lookahead, 1, FALSE, column)
Bytes(n) == Length(n, Point(0, n))
Row == Length(1, Point(1, 0))
Over(symbol, kids) == NewNode(symbol, kids, kids, 0)

x == "x"
Place(text, n) == At(n, PointOf(text, n))
Whole(text) == [start |-> Place(text, 0), end |-> At(MaxByte, MaxPoint)]
\* A range of the text, and one that ends near the largest byte.
Ranges(text) == { Whole(text), [start |-> Place(text, 1), end |-> Place(text, 3)],
                  [start |-> Place(text, 3), end |-> At(MaxByte - 1, Point(1, 9))] }
\* A document as records, put on the heap.
RECURSIVE Stored(_, _)
Stored(h, s) ==
  LET kids == FoldLeft(LAMBDA acc, k :
                LET stored == Stored(acc.heap, k)
                IN  [heap |-> stored.heap, refs |-> Append(acc.refs, stored.ref)],
                [heap |-> h, refs |-> <<>>], s.kids)
  IN  Alloc(kids.heap, [s EXCEPT !.kids = kids.refs])
Document(text, tree) ==
  LET stored == Stored(<<>>, tree)
  IN  [text |-> text, heap |-> stored.heap, root |-> stored.ref, ranges |-> Ranges(text)]

Token == Leaf(LengthZero, Bytes(1), 0, FALSE)
Rows(column) ==
  Document(<<x, NewLine, x, x>>,
    Over(2, << Leaf(LengthZero, Bytes(1), 2, FALSE),
               Over(2, << Leaf(Row, Bytes(1), 0, FALSE),
                          Leaf(LengthZero, Bytes(1), 1, column) >>) >>))
RECURSIVE Chain(_)
Chain(n) == IF n = 1 THEN Over(3, <<Token, Token>>) ELSE Over(3, <<Chain(n - 1), Token>>)
List == Document(<<x, x, x, x, x>>, Over(2, <<Chain(4)>>))
MCDocuments == {Rows(FALSE), Rows(TRUE), List}
MCInserts == {<<>>, <<x, NewLine>>}
-----------------------------------------------------------------------------
\* A tree as a value.
RECURSIVE Value(_, _)
Value(h, r) ==
  LET s == Deref(h, r)
  IN  [s EXCEPT !.kids = FoldLeft(LAMBDA out, k : Append(out, Value(h, k)), <<>>, s.kids)]

RECURSIVE Nodes(_, _)
\* Every node of a value, with its path.
Nodes(value, path) ==
  FoldLeftDomain(LAMBDA out, i : out \o Nodes(value.kids[i], Append(path, i)),
                 <<[path |-> path, node |-> value]>>, value.kids)
Leaves(value) == SelectSeq(Nodes(value, <<>>), LAMBDA n : n.node.kids = <<>>)
\* The end of the text before the leaf of this index.
Before(leaves, i) ==
  FoldLeft(LAMBDA sum, n : LengthAdd(sum, TotalSize(n.node)), LengthZero, SubSeq(leaves, 1, i - 1))

\* When nothing is under way every subtree of a tree lies where the text has it:
\* the leaves tile the text, and bytes, rows and columns agree at each seam
\* (subtree_edit.go:47); a node is the sum of its children, and balancing takes
\* the sums anew (subtree_core.go:445).
FollowsText ==
  job = Idle => \A t \in DOMAIN trees :
    LET value == Value(heap, trees[t].root)
        text == trees[t].text
        leaves == Leaves(value)
        nodes == Nodes(value, <<>>)
        end == Before(leaves, Len(leaves) + 1)
    IN  /\ end = LengthOf(text, Len(text))
        /\ \A i \in DOMAIN leaves :
             LET from == Before(leaves, i)
                 at == LengthAdd(from, leaves[i].node.padding)
             IN  /\ from = LengthOf(text, from.bytes)
                 /\ at = LengthOf(text, at.bytes)
        /\ \A i \in DOMAIN nodes :
             LET node == nodes[i].node
                 sums == Summarized(node, node.kids)
             IN  node.kids # <<>> =>
                   /\ node.padding = sums.padding /\ node.size = sums.size
                   /\ node.visibleKids = sums.visibleKids
                   /\ node.descendants = sums.descendants
                   /\ ~node.changed => /\ node.lookahead = sums.lookahead
                                       /\ node.depth = sums.depth
                                       /\ node.leafSymbol = sums.leafSymbol

\* Where the nodes of a value lie.
StartsOf(value) ==
  LET leaves == Leaves(value)
      nodes == Nodes(value, <<>>)
      First(path) == Min({j \in DOMAIN leaves : IsPrefix(path, leaves[j].path)})
  IN  FoldLeft(LAMBDA out, n : Append(out, Before(leaves, First(n.path))), <<>>, nodes)

Edited == job.op = "edit" /\ job.stack = <<>>

\* Before the edit and after it: every node, where it starts and what it is.
Positions(value) ==
  LET starts == StartsOf(value) nodes == Nodes(value, <<>>)
  IN  FoldLeftDomain(LAMBDA out, i :
        Append(out, [from |-> starts[i], at |-> LengthAdd(starts[i], nodes[i].node.padding),
                     node |-> nodes[i].node]), <<>>, nodes)

\* When an edit is done every node whose text or lookahead it met is marked, so
\* that it is not reused; where no column matters no other node is marked that
\* the edit did not at least touch (subtree_edit.go:74).
MarksExact ==
  Edited =>
    LET before == Positions(Value(job.before.heap, job.before.tree.root))
        after == Positions(Value(heap, trees[job.tree].root))
        e == job.edit
        anyColumn == \E i \in DOMAIN before : before[i].node.column
    IN  \A i \in DOMAIN before :
          LET was == before[i] is == after[i]
              end == was.from.bytes + TotalBytes(was.node) + was.node.lookahead
          IN  /\ e.start.bytes < end /\ e.oldEnd.bytes > was.from.bytes => is.node.changed
              /\ is.node.changed /\ ~was.node.changed /\ ~anyColumn =>
                   e.start.bytes <= end /\ e.oldEnd.bytes >= was.from.bytes

\* A byte that an edit carries along, to the end of every text at most.
CarriedByte(at, e) == Min({at.bytes - e.oldEnd.bytes + e.newEnd.bytes, MaxByte})

\* Three functions move positions: subtreeEdit the tree's, rangeEdit the
\* included ranges' and pointEdit a held node's (tree.go:66, 94).  They agree on
\* where a node now starts, and a range that is not cut moves with its text,
\* past the largest byte only to the end of every text.
PositionsAgree ==
  Edited =>
    LET before == Positions(Value(job.before.heap, job.before.tree.root))
        after == Positions(Value(heap, trees[job.tree].root))
        e == job.edit
        Follows(old, new) ==
          /\ old.bytes >= e.oldEnd.bytes =>
               new.bytes = IF old.bytes = MaxByte THEN MaxByte ELSE CarriedByte(old, e)
          /\ old.bytes <= e.start.bytes /\ old.bytes < e.oldEnd.bytes => new = old
          /\ new.bytes <= Len(trees[job.tree].text)
               => new.point = PointOf(trees[job.tree].text, new.bytes)
    IN  /\ \A i \in DOMAIN before :
             LET old == before[i].at new == after[i].at
             IN  (old.bytes >= e.oldEnd.bytes \/ old.bytes <= e.start.bytes) =>
                   PointEdit(At(old.bytes, old.extent), e) = At(new.bytes, new.extent)
        /\ \A r \in job.before.tree.ranges :
             LET moved == RangeEdit(r, e)
             IN  /\ Follows(r.start, moved.start) /\ Follows(r.end, moved.end)
                 /\ moved.start.bytes <= moved.end.bytes
                 /\ moved \in trees[job.tree].ranges
=============================================================================
