------------------------------ MODULE NodeNav -------------------------------
(***************************************************************************)
(* Nodes and the tree cursor.  A subtree is a record whose kids are        *)
(* records; the slot of a subtree, which is what a Node points to, is the  *)
(* path to it.  Hidden subtrees are no nodes: their children take their    *)
(* place.                                                                  *)
(***************************************************************************)
EXTENDS Subtrees, FiniteSets

CONSTANTS Roots,       \* the trees a cursor is tried on
          FieldMaps    \* of a production: entries [field, child, inherited]

VARIABLES root,        \* the tree
          stack        \* of the cursor: node, childIndex and siblings
vars == <<root, stack>>

-----------------------------------------------------------------------------
(* Nodes and the iteration over their children. *)

Node(id, start, alias) == [id |-> id, start |-> start, alias |-> alias]
NullNode == Node(<<0>>, LengthZero, 0)
IsNull(n) == n = NullNode

RECURSIVE Under(_, _)
Under(s, path) == IF path = <<>> THEN s ELSE Under(s.kids[Head(path)], Tail(path))
SubtreeAt(id) == Under(root, id)
Subtree(n) == SubtreeAt(n.id)
RootNode == Node(<<>>, root.padding, 0)

StartByte(n) == n.start.bytes
EndByte(n) == n.start.bytes + Subtree(n).size.bytes

\* Two slots hold the same subtree: one object on the heap, or equal inline
\* leaves.
SameSubtree(p, q) ==
  p = q \/ (SubtreeAt(p).inline /\ SubtreeAt(p) = SubtreeAt(q))

Mapped(Op(_), seq) == FoldLeft(LAMBDA out, x : Append(out, Op(x)), <<>>, seq)
\* What the iterator yields, one after the other: the child, its end and the
\* number of children so far that are not extra.
Iterate(n) ==
  LET s == Subtree(n)
      End(i) == LengthAdd(n.start, SizeOf(s.kids, i))
      Start(i) == IF i = 1 THEN n.start
                  ELSE LengthAdd(End(i - 1), s.kids[i].padding)
  IN  Mapped(LAMBDA i :
        [node |-> Node(Append(n.id, i), Start(i), AliasOf(s.production, s.kids, i)),
         end |-> End(i),
         structural |-> StructuralIndex(s.kids, i) + IF s.kids[i].extra THEN 0 ELSE 1],
        [i \in DOMAIN s.kids |-> i])

Relevant(n, anonymous) ==
  IF anonymous THEN Subtree(n).visible \/ n.alias # 0
  ELSE IF n.alias # 0 THEN Metadata(n.alias).named
  ELSE Subtree(n).visible /\ Subtree(n).named
RelevantChildCount(n, anonymous) ==
  IF anonymous THEN Subtree(n).visibleKids ELSE Subtree(n).namedKids
ChildCount(n) == Subtree(n).visibleKids
DescendantCount(n) == Subtree(n).descendants + 1

\* Of the children `its` that the iterator yields: how many relevant nodes each
\* one is or holds, and the index of the one with the k-th of them; 0 if none.
Shares(its, anonymous) ==
  Mapped(LAMBDA it : IF Relevant(it.node, anonymous) THEN 1
                     ELSE RelevantChildCount(it.node, anonymous),
         its)
Before(shares, j) == FoldLeft(LAMBDA x, y : x + y, 0, SubSeq(shares, 1, j - 1))
\* A plausible mistake: the relevant ones are counted from one.
HolderFromOne(shares, k) ==
  LET holders == {j \in DOMAIN shares : Before(shares, j) + shares[j] >= k}
  IN  IF holders = {} THEN 0 ELSE Min(holders)
Holder(shares, k) ==
  LET holders == {j \in DOMAIN shares : Before(shares, j) + shares[j] > k}
  IN  IF holders = {} THEN 0 ELSE Min(holders)

RECURSIVE ChildAmong(_, _, _, _)
ChildAmong(its, shares, k, anonymous) ==
  LET j == Holder(shares, k)
      c == its[j].node
      inner == Iterate(c)
  IN  IF j = 0 THEN NullNode
      ELSE IF Relevant(c, anonymous) THEN c
      ELSE ChildAmong(inner, Shares(inner, anonymous), k - Before(shares, j), anonymous)
Child(n, k, anonymous) ==
  LET its == Iterate(n) IN ChildAmong(its, Shares(its, anonymous), k, anonymous)

RECURSIVE Children(_, _)
Children(n, anonymous) ==
  LET its == Iterate(n)
      Of(c) == IF Relevant(c, anonymous) THEN <<c>>
               ELSE IF RelevantChildCount(c, anonymous) > 0 THEN Children(c, anonymous)
               ELSE <<>>
  IN  FoldLeft(LAMBDA out, it : out \o Of(it.node), <<>>, its)

-----------------------------------------------------------------------------
(* Parents and siblings, which are found by position. *)

RECURSIVE ChildWithDescendant(_, _)
ChildWithDescendant(its, d) ==
  LET empty == StartByte(d) = EndByte(d)
      Inside(j) == ChildWithDescendant(Iterate(its[j].node), d)
      Passed(j) == StartByte(its[j].node) > StartByte(d)
      Found(j) == its[j].node.id = d.id
      HasEmpty(j) == /\ empty /\ its[j].end.bytes >= EndByte(d)
                     /\ ChildCount(its[j].node) > 0
                     /\ ~IsNull(Inside(j))
      Covers(j) == /\ its[j].end.bytes > EndByte(d)
                      \/ (~empty /\ its[j].end.bytes = EndByte(d))
                   /\ ChildCount(its[j].node) # 0
      stops == {j \in DOMAIN its : Passed(j) \/ Found(j) \/ HasEmpty(j) \/ Covers(j)}
      j == Min(stops)
      c == its[j].node
  IN  IF stops = {} THEN NullNode
      ELSE IF Passed(j) THEN NullNode
      ELSE IF Found(j) THEN c
      ELSE IF HasEmpty(j) THEN IF Relevant(c, TRUE) THEN c ELSE Inside(j)
      ELSE IF Relevant(c, TRUE) THEN c
      ELSE Inside(j)

RECURSIVE ParentFrom(_, _, _)
ParentFrom(node, next, n) ==
  IF next.id = n.id \/ IsNull(next) THEN node
  ELSE ParentFrom(next, ChildWithDescendant(Iterate(next), n), n)
Parent(n) ==
  IF n.id = <<>> THEN NullNode
  ELSE ParentFrom(RootNode, ChildWithDescendant(Iterate(RootNode), n), n)

RECURSIVE HasTrailingEmpty(_, _)
HasTrailingEmpty(id, other) ==
  LET kids == SubtreeAt(id).kids
  IN  \E i \in DOMAIN kids :
        /\ \A j \in i..Len(kids) : TotalBytes(kids[j]) = 0
        /\ SameSubtree(Append(id, i), other) \/ HasTrailingEmpty(Append(id, i), other)

\* A plausible mistake: a hidden child is passed over with all it holds.
UsefulShown(its, j, anonymous) == Relevant(its[j].node, anonymous)
\* A child that is relevant, or holds something that is.
Useful(its, j, anonymous) ==
  Relevant(its[j].node, anonymous) \/ RelevantChildCount(its[j].node, anonymous) > 0

RECURSIVE PrevFrom(_, _, _, _), PrevAmong(_, _, _, _)
PrevFrom(n, node, earlierNode, anonymous) ==
  IF IsNull(node) THEN NullNode ELSE PrevAmong(n, Iterate(node), earlierNode, anonymous)
PrevAmong(n, its, earlierNode, anonymous) ==
  LET selfIsEmpty == TotalBytes(Subtree(n)) = 0
      target == EndByte(n)
      Holds(j) == \/ its[j].end.bytes > target
                  \/ /\ its[j].end.bytes = target
                     /\ ~selfIsEmpty \/ HasTrailingEmpty(its[j].node.id, n.id)
      stops == {j \in DOMAIN its : its[j].node.id = n.id \/ Holds(j)}
      stop == IF stops = {} THEN Len(its) + 1 ELSE Min(stops)
      found == stops # {} /\ its[stop].node.id # n.id
      earlier == {j \in 1..(stop - 1) : Useful(its, j, anonymous)}
      child == IF earlier = {} THEN NullNode ELSE its[Max(earlier)].node
  IN  IF found THEN PrevFrom(n, its[stop].node, IF IsNull(child) THEN earlierNode ELSE child,
                              anonymous)
      ELSE IF ~IsNull(child)
           THEN IF Relevant(child, anonymous) THEN child
                ELSE PrevFrom(n, child, earlierNode, anonymous)
      ELSE IF ~IsNull(earlierNode) /\ Relevant(earlierNode, anonymous) THEN earlierNode
      ELSE PrevFrom(n, earlierNode, NullNode, anonymous)
PrevSibling(n, anonymous) == PrevFrom(n, Parent(n), NullNode, anonymous)

RECURSIVE NextFrom(_, _, _, _), NextAmong(_, _, _, _)
NextFrom(n, node, laterNode, anonymous) ==
  IF IsNull(node) THEN NullNode ELSE NextAmong(n, Iterate(node), laterNode, anonymous)
NextAmong(n, its, laterNode, anonymous) ==
  LET target == EndByte(n)
      empty == StartByte(n) = target
      after == {j \in DOMAIN its : its[j].end.bytes > target}
      Around(j) == \/ StartByte(its[j].node) < StartByte(n)
                   \/ (~empty /\ StartByte(its[j].node) = StartByte(n))
      later == {j \in after : ~Around(j) /\ Useful(its, j, anonymous)}
      laterChild == IF later = {} THEN NullNode ELSE its[Min(later)].node
      containing == {j \in after : /\ Around(j)
                                   /\ ~SameSubtree(its[j].node.id, n.id)
                                   /\ later = {} \/ j < Min(later)}
  IN  IF containing # {}
           THEN NextFrom(n, its[Max(containing)].node,
                         IF IsNull(laterChild) THEN laterNode ELSE laterChild, anonymous)
      ELSE IF ~IsNull(laterChild)
           THEN IF Relevant(laterChild, anonymous) THEN laterChild
                ELSE NextFrom(n, laterChild, laterNode, anonymous)
      ELSE IF ~IsNull(laterNode) /\ Relevant(laterNode, anonymous) THEN laterNode
      ELSE NextFrom(n, laterNode, laterNode, anonymous)
NextSibling(n, anonymous) == NextFrom(n, Parent(n), NullNode, anonymous)

-----------------------------------------------------------------------------
(* Descendants of a range, and fields.  A position is a byte or a point; a *)
(* byte is compared as a column of one row.                                *)

At(length, unit) == IF unit = "byte" THEN Point(0, length.bytes) ELSE length.extent

\* A plausible mistake: a child that ends where the range starts is entered.
ReachesTouching(it, from, to, unit) ==
  PointLte(to, At(it.end, unit)) /\ PointLte(from, At(it.end, unit))
\* The child ends after the range does; only an empty one may end at its start.
Reaches(it, from, to, unit) ==
  LET end == At(it.end, unit)
  IN  /\ PointLte(to, end)
      /\ PointLt(from, end) \/ (At(it.node.start, unit) = end /\ from = end)

RECURSIVE Narrow(_, _, _, _, _, _)
Narrow(its, last, from, to, unit, anonymous) ==
  LET Start(j) == At(its[j].node.start, unit)
      reaching == {j \in DOMAIN its : Reaches(its[j], from, to, unit)}
      c == its[Min(reaching)].node
  IN  IF reaching = {} \/ PointLt(from, Start(Min(reaching))) THEN last
      ELSE Narrow(Iterate(c), IF Relevant(c, anonymous) THEN c ELSE last, from, to, unit, anonymous)
DescendantForRange(n, from, to, unit, anonymous) ==
  IF PointLt(to, from) THEN NullNode ELSE Narrow(Iterate(n), n, from, to, unit, anonymous)

FieldMap(n) == IF Subtree(n).production = 0 THEN <<>> ELSE FieldMaps[Subtree(n).production]
EntriesOf(n, f) == SelectSeq(FieldMap(n), LAMBDA m : m.field = f)

RECURSIVE FieldFrom(_, _, _, _), ChildByFieldID(_, _)
ChildByFieldID(n, f) ==
  IF ChildCount(n) = 0 THEN NullNode ELSE FieldFrom(Iterate(n), f, 1, EntriesOf(n, f))
\* The rest of its children, with the rest of the entries of the field.
FieldFrom(its, f, j, entries) ==
  LET c == its[j].node
      Rest(left) == FieldFrom(its, f, j + 1, left)
      inside == ChildByFieldID(c, f)
  IN  IF entries = <<>> \/ j > Len(its) THEN NullNode
      ELSE IF Subtree(c).extra \/ its[j].structural - 1 < entries[1].child THEN Rest(entries)
      ELSE IF entries[1].inherited
           THEN IF Len(entries) = 1 \/ ~IsNull(inside) THEN inside ELSE Rest(Tail(entries))
      ELSE IF Relevant(c, TRUE) THEN c
      ELSE IF ChildCount(c) > 0 THEN Child(c, 0, TRUE)
      ELSE Rest(Tail(entries))

\* A plausible mistake: an inherited entry names the child itself.
OwnFieldAny(n, structural) ==
  LET own == SelectSeq(FieldMap(n), LAMBDA m : m.child = structural)
  IN  IF own = <<>> THEN 0 ELSE own[1].field
\* The field a production gives its own child; 0 stands for no name.
OwnField(n, structural) ==
  LET own == SelectSeq(FieldMap(n), LAMBDA m : ~m.inherited /\ m.child = structural)
  IN  IF own = <<>> THEN 0 ELSE own[1].field
RECURSIVE FieldNameForChild(_, _, _, _), FieldNameAmong(_, _, _, _, _, _)
FieldNameForChild(n, k, inheritedName, anonymous) ==
  LET its == Iterate(n)
  IN  FieldNameAmong(n, its, Shares(its, anonymous), k, inheritedName, anonymous)
FieldNameAmong(n, its, shares, k, inheritedName, anonymous) ==
  LET j == Holder(shares, k)
      it == its[j]
      own == OwnField(n, it.structural - 1)
      name == IF own # 0 THEN own ELSE inheritedName
  IN  IF j = 0 THEN 0
      ELSE IF ~Relevant(it.node, anonymous)
           THEN FieldNameForChild(it.node, k - Before(shares, j), name, anonymous)
      ELSE IF Subtree(it.node).extra THEN 0
      ELSE name

-----------------------------------------------------------------------------
(* The cursor. *)

Entry(node, childIndex, siblings) ==
  [node |-> node, childIndex |-> childIndex, siblings |-> siblings]
Top == stack[Len(stack)]
ReplaceTop(childIndex) ==
  [stack EXCEPT ![Len(stack)] = Entry(Top.siblings[childIndex + 1], childIndex, Top.siblings)]

Init == root \in Roots /\ stack = <<Entry(Node(<<>>, root.padding, 0), 0, <<>>)>>
Walk(n) == stack' = <<Entry(n, 0, <<>>)>> /\ UNCHANGED root
GotoFirstChild ==
  LET children == Children(Top.node, TRUE)
  IN  /\ children # <<>>
      /\ stack' = Append(stack, Entry(children[1], 0, children))
      /\ UNCHANGED root
GotoNextSibling ==
  /\ Len(stack) >= 2 /\ Top.childIndex + 1 < Len(Top.siblings)
  /\ stack' = ReplaceTop(Top.childIndex + 1)
  /\ UNCHANGED root
GotoPreviousSibling ==
  /\ Len(stack) >= 2 /\ Top.childIndex > 0
  /\ stack' = ReplaceTop(Top.childIndex - 1)
  /\ UNCHANGED root
GotoParent ==
  /\ Len(stack) >= 2
  /\ stack' = Front(stack)
  /\ UNCHANGED root
FieldName ==
  IF Len(stack) < 2 THEN 0
  ELSE FieldNameForChild(stack[Len(stack) - 1].node, Top.childIndex, 0, TRUE)

Next == \/ GotoFirstChild \/ GotoNextSibling \/ GotoPreviousSibling \/ GotoParent
        \/ Walk(Top.node)
Spec == Init /\ [][Next]_vars

-----------------------------------------------------------------------------
(* What a node is, by its path alone: every slot that shows, in the order  *)
(* of the text, and the nearest one above a slot as its parent.            *)

RECURSIVE Slots(_)
Slots(id) ==
  FoldLeft(LAMBDA out, i : out \o Slots(Append(id, i)), <<id>>,
           [i \in DOMAIN SubtreeAt(id).kids |-> i])
AliasAt(id) ==
  IF id = <<>> THEN 0
  ELSE LET s == SubtreeAt(Front(id)) IN AliasOf(s.production, s.kids, Last(id))
Shows(id, anonymous) == Relevant(Node(id, LengthZero, AliasAt(id)), anonymous)
Nearest(id, above, anonymous) ==
  \A k \in (Len(above) + 1)..(Len(id) - 1) : ~Shows(SubSeq(id, 1, k), anonymous)
KidsOf(id, anonymous) ==
  SelectSeq(Slots(id), LAMBDA q : q # id /\ Shows(q, anonymous) /\ Nearest(q, id, anonymous))
ParentOf(id) ==
  Last(SelectSeq(Slots(<<>>),
                 LAMBDA q : IsStrictPrefix(q, id) /\ (q = <<>> \/ Shows(q, TRUE))))
\* Where the text of a slot starts: the sum of all that is before it.
StartOf(id) ==
  LET leaves == SelectSeq(Slots(<<>>), LAMBDA q : SubtreeAt(q).kids = <<>>)
      first == Min({i \in DOMAIN leaves : IsPrefix(id, leaves[i])})
      sum == FoldLeft(LAMBDA at, q : LengthAdd(at, TotalSize(SubtreeAt(q))),
                      LengthZero, SubSeq(leaves, 1, first - 1))
  IN  LengthAdd(sum, SubtreeAt(leaves[first]).padding)
NodeAt(id) == Node(id, StartOf(id), AliasAt(id))
Nodes(ids) == Mapped(NodeAt, ids)

Siblings(id) == KidsOf(ParentOf(id), TRUE)
Place(id) == CHOOSE i \in DOMAIN Slots(<<>>) : Slots(<<>>)[i] = id
Earlier(id) == SelectSeq(Siblings(id), LAMBDA q : Place(q) < Place(id))
Later(id) == SelectSeq(Siblings(id), LAMBDA q : Place(q) > Place(id))
EndOf(id) == LengthAdd(StartOf(id), SubtreeAt(id).size)
FirstOf(ids) == IF ids = <<>> THEN NullNode ELSE NodeAt(ids[1])
LastOf(ids) == IF ids = <<>> THEN NullNode ELSE NodeAt(Last(ids))
\* An empty inline leaf that equals another one in the tree.
Twin(id) ==
  LET s == SubtreeAt(id)
  IN  /\ s.inline /\ TotalBytes(s) = 0
      /\ \E i \in DOMAIN Slots(<<>>) : Slots(<<>>)[i] # id /\ SubtreeAt(Slots(<<>>)[i]) = s

\* Children and Child (node_core.go:224, 271) walk hidden children each in its
\* way, and the counts were summed when the node was built: listing, indexing
\* past the end included, and both counts agree with the tree that shows.
ChildrenAgree ==
  LET n == Top.node
  IN  /\ \A anonymous \in BOOLEAN :
           LET kids == Nodes(KidsOf(n.id, anonymous))
           IN  /\ Children(n, anonymous) = kids
               /\ RelevantChildCount(n, anonymous) = Len(kids)
               /\ \A k \in 0..Len(kids) :
                    Child(n, k, anonymous)
                      = IF k < Len(kids) THEN kids[k + 1] ELSE NullNode
      /\ DescendantCount(n) = 1 + Quantify(DOMAIN Slots(n.id),
           LAMBDA i : i > 1 /\ Shows(Slots(n.id)[i], TRUE))

\* Parents and siblings are found by position alone (node_core.go:285, 357,
\* 420), with no way up the tree: they are the ones the tree has, and the ones
\* the cursor reached on its way down.  NextSibling passes over siblings that
\* are empty and end where the node does, and may miss those of an empty node;
\* PrevSibling may take an empty leaf for its twin.
SiblingsRight ==
  LET n == Top.node
      full == SelectSeq(Later(n.id), LAMBDA q : EndOf(q).bytes > EndByte(n))
  IN  /\ n = NodeAt(n.id)
      /\ Parent(n) = IF n.id = <<>> THEN NullNode ELSE NodeAt(ParentOf(n.id))
      /\ Len(stack) >= 2 => /\ stack[Len(stack) - 1].node = Parent(n)
                            /\ Top.siblings = Nodes(Siblings(n.id))
                            /\ Top.siblings[Top.childIndex + 1] = n
      /\ n.id # <<>> /\ StartByte(n) < EndByte(n)
           => NextSibling(n, TRUE) = FirstOf(full)
      /\ n.id # <<>> /\ ~Twin(n.id)
           => PrevSibling(n, TRUE) = LastOf(Earlier(n.id))

\* The node found for a range of bytes or points spans it, and every other
\* relevant node that does holds that node; a node that does not span it itself
\* is returned as it is (node_search.go:3, 48).  Where the range is empty a node
\* that ends there does not span it; an empty subtree there may take its place.
DescendantSmallest ==
  LET n == Top.node
      slots == Slots(n.id)
      starts == Mapped(StartOf, slots)
      ends == Mapped(EndOf, slots)
  IN  \A unit \in {"byte", "point"}, anonymous \in BOOLEAN :
        LET From(i) == At(starts[i], unit)
            To(i) == At(ends[i], unit)
            shown == {i \in DOMAIN slots : i = 1 \/ Shows(slots[i], anonymous)}
            places == {From(i) : i \in DOMAIN slots} \union {To(i) : i \in DOMAIN slots}
        IN  \A from \in places, to \in places :
              LET spanning == {i \in shown : /\ PointLte(From(i), from) /\ PointLt(from, To(i))
                                             /\ PointLte(to, To(i))}
                  emptyAt == \E i \in DOMAIN slots : From(i) = from /\ To(i) = from
              IN  PointLt(from, to) \/ (from = to /\ ~emptyAt) =>
                    DescendantForRange(n, from, to, unit, anonymous)
                      = NodeAt(slots[Max({1} \union spanning)])

\* Looking a child up by its field and asking a child for its field read the
\* field map in two ways, through hidden children and inherited entries
\* (node_search.go:114, 199): the first child that answers to a field is found.
FieldsAgree ==
  LET n == Top.node
      kids == Children(n, TRUE)
      Name(k) == FieldNameForChild(n, k - 1, 0, TRUE)
      named(f) == {k \in DOMAIN kids : Name(k) = f}
  IN  /\ \A f \in 1..2 :
           ChildByFieldID(n, f) = IF named(f) = {} THEN NullNode ELSE kids[Min(named(f))]
      /\ FieldName = IF Len(stack) < 2 THEN 0
                     ELSE FieldNameForChild(Parent(n), Top.childIndex, 0, TRUE)
=============================================================================
