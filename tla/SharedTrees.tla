---------------------------- MODULE SharedTrees ----------------------------
(***************************************************************************)
(* Trees that share their subtrees.  A tree is copied by retaining its     *)
(* root; an edit writes to the subtrees it passes, after cloning those     *)
(* that something else holds too; a parse retains what it can of the old   *)
(* tree, and the repeats of the new one are balanced in place.             *)
(***************************************************************************)
EXTENDS TreeEdit

CONSTANTS Documents,     \* what a parse has built: [heap, root, text, ranges]
          Inserts,       \* what an edit may put in
          MaxTrees,      \* bound on the trees
          MaxEdits       \* and on the edits

VARIABLES heap,     \* of a subtree: what it holds, and its reference count
          trees,    \* [root, ranges, text]
          held,     \* the references of the parser: to the old tree, and on its stack
          dropped,  \* the stack of subtreeRelease: freed, its children are still to be released
          job,      \* the edit, parse or balancing under way
          edits     \* how many edits there were
vars == <<heap, trees, held, dropped, job, edits>>

NewLine == "n"
Idle == [op |-> "none"]
Doing(op) == job.op = op /\ dropped = {}

-----------------------------------------------------------------------------
(* References: to the heap, or a leaf held in the reference itself. *)

NoLeaf == <<>>
HeapRef(id) == [id |-> id, leaf |-> NoLeaf]
InlineRef(leaf) == [id |-> 0, leaf |-> leaf]
Deref(h, r) == IF r.id = 0 THEN r.leaf ELSE h[r.id].node
Kids(h, r) == Deref(h, r).kids
Seen(h, rs) == [i \in DOMAIN rs |-> Deref(h, rs[i])]
Alloc(h, s) ==
  IF s.inline THEN [heap |-> h, ref |-> InlineRef(s)]
  ELSE [heap |-> Append(h, [node |-> s, refs |-> 1]), ref |-> HeapRef(Len(h) + 1)]

\* With another i-th child.
WithKid(h, id, i, r) == [h EXCEPT ![id].node.kids[i] = r]

\* How often a list of references has this subtree.
Times(id, rs) == Cardinality({i \in DOMAIN rs : rs[i].id = id})
Retained(h, rs) == [id \in DOMAIN h |-> [h[id] EXCEPT !.refs = @ + Times(id, rs)]]
Released(h, rs) == [id \in DOMAIN h |-> [h[id] EXCEPT !.refs = @ - Times(id, rs)]]
\* What a release frees: its children are to be released next.
Freed(h, rs) == {id \in DOMAIN h : h[id].refs > 0 /\ h[id].refs = Times(id, rs)}

\* What the heap holds, what a reference holds, and a document that a parse has built: children
\* are numbered before their parents, none is the root, and all that is counted is the root and
\* what is in a node.
IsList(s) == s \in Seq({s[i] : i \in DOMAIN s})
Inlined(s) == {"inline", "kids"} \subseteq DOMAIN s /\ s.inline = TRUE /\ s.kids = <<>>
Stands(s) == {"inline", "kids"} \subseteq DOMAIN s /\ s.inline = FALSE /\ IsList(s.kids)
Refers(r, ids) == r.id \in ids \union {0} /\ (r.id = 0 => Inlined(r.leaf))
ASSUME DocumentsAssumption ==
  \A d \in Documents :
    LET ids == DOMAIN d.heap
        kids(id) == d.heap[id].node.kids
        slots == UNION {{id} \X DOMAIN kids(id) : id \in ids}
    IN  /\ IsList(d.heap) /\ Refers(d.root, ids)
        /\ \A id \in ids :
             /\ DOMAIN d.heap[id] = {"node", "refs"} /\ Stands(d.heap[id].node)
             /\ \A i \in DOMAIN kids(id) : Refers(kids(id)[i], 1..(id - 1) \ {d.root.id})
             /\ d.heap[id].refs > 0
             /\ d.heap[id].refs = Times(id, <<d.root>>)
                  + Cardinality({s \in slots : kids(s[1])[s[2]].id = id})

\* A plausible mistake: the clone does not retain the children it now shares.
CloneBare(h, r) == Alloc(h, Deref(h, r))
Clone(h, r) == Alloc(Retained(h, Kids(h, r)), Deref(h, r))

\* A plausible mistake: a subtree that is held once too often is written to.
MakeMutShared(h, r) ==
  IF r.id = 0 \/ h[r.id].refs <= 2 THEN [heap |-> h, ref |-> r]
  ELSE LET clone == Clone(h, r) IN [heap |-> Released(clone.heap, <<r>>), ref |-> clone.ref]
\* What is cloned was held more than once, so that releasing it frees nothing.
MakeMut(h, r) ==
  IF r.id = 0 \/ h[r.id].refs = 1 THEN [heap |-> h, ref |-> r]
  ELSE LET clone == Clone(h, r) IN [heap |-> Released(clone.heap, <<r>>), ref |-> clone.ref]

\* A node subtreeRelease has freed lets go of its children.
ReleaseStep ==
  \E id \in dropped :
    LET kids == heap[id].node.kids
    IN  /\ heap' = Released(heap, kids)
        /\ dropped' = (dropped \ {id}) \union Freed(heap, kids)
        /\ UNCHANGED <<trees, held, job, edits>>

-----------------------------------------------------------------------------
(* Editing.  A frame has the children of a node that are still to be edited, *)
(* with their part of the edit; node 0 has the roots of the trees.           *)

Frame(id, parts) == [in |-> id, parts |-> parts]
Pushed(stack, frame) == IF DOMAIN frame.parts = {} THEN stack ELSE Append(stack, frame)
\* The reference in this place.
RefIn(id, i) == IF id = 0 THEN trees[i].root ELSE heap[id].node.kids[i]

\* The edited subtree, marked.
Rewrite(h, r, padding, size) ==
  LET made == MakeMut(h, r)
      self == Deref(made.heap, made.ref)
      new == [Resize(self, padding, size) EXCEPT !.changed = TRUE]
  IN  IF self.inline THEN Alloc(made.heap, new)
      ELSE [heap |-> [made.heap EXCEPT ![made.ref.id].node = new], ref |-> made.ref]

\* The i-th child of a frame, edited.
EditChild(top, i) ==
  LET e == top.parts[i]
      r == RefIn(top.in, i)
      self == Deref(heap, r)
      shifted == Shifted(self, e)
      written == Rewrite(heap, r, shifted.padding, shifted.size)
      parts == ChildEdits(self, shifted.padding, Seen(heap, self.kids), e)
      rest == Pushed(Front(job.stack),
                     Frame(top.in, [j \in DOMAIN top.parts \ {i} |-> top.parts[j]]))
  IN  IF Misses(self, e)
      THEN job' = [job EXCEPT !.stack = rest] /\ UNCHANGED <<heap, trees>>
      ELSE /\ job' = [job EXCEPT !.stack = Pushed(rest, Frame(written.ref.id, parts))]
           /\ heap' = IF top.in = 0 THEN written.heap
                      ELSE WithKid(written.heap, top.in, i, written.ref)
           /\ trees' = IF top.in = 0 THEN [trees EXCEPT ![i].root = written.ref] ELSE trees
EditStep ==
  /\ Doing("edit") /\ job.stack # <<>>
  /\ LET top == Last(job.stack)
     IN \E i \in DOMAIN top.parts : (\A j \in DOMAIN top.parts : j <= i) /\ EditChild(top, i)
  /\ UNCHANGED <<held, dropped, edits>>

-----------------------------------------------------------------------------
(* Balancing the repeats of a new tree. *)

Summed(h, id) ==
  [h EXCEPT ![id].node = Summarized(@, Seen(h, @.kids))]
Rotatable(h, id, symbol) ==
  /\ id # 0 /\ Len(h[id].node.kids) >= 2 /\ h[id].refs = 1 /\ h[id].node.symbol = symbol
FirstKid(id) == heap[id].node.kids[1].id
LastKid(id) == Last(heap[id].node.kids).id
Turnable(id) ==
  LET symbol == heap[id].node.symbol
  IN  /\ Rotatable(heap, id, symbol) /\ Rotatable(heap, FirstKid(id), symbol)
      /\ Rotatable(heap, FirstKid(FirstKid(id)), symbol)
\* Subtrees with children that nothing else holds.
Owned(rs) == {id \in {rs[i].id : i \in DOMAIN rs} :
                id # 0 /\ heap[id].node.kids # <<>> /\ heap[id].refs = 1}

\* Of the subtree `top`: `at` is where subtreeCompress has come to, with `left` rotations to
\* go, `turned` what it has rotated, in rounds that halve.
Balancing(text, ranges, todo) ==
  [op |-> "balance", text |-> text, ranges |-> ranges, todo |-> todo,
   top |-> 0, round |-> 0, at |-> 0, left |-> 0, turned |-> <<>>]

Visit ==
  /\ Doing("balance") /\ job.top = 0
  /\ \E id \in job.todo :
       LET kids == heap[id].node.kids
           delta == Deref(heap, kids[1]).depth - Deref(heap, Last(kids)).depth
           round == IF heap[id].node.depth > 0 /\ delta > 0 THEN delta \div 2 ELSE 0
       IN  job' = [job EXCEPT !.todo = @ \ {id}, !.top = id, !.at = id,
                              !.round = round, !.left = round]
  /\ UNCHANGED <<heap, trees, held, dropped, edits>>

\* The rotations go down the first children ...
Rotate ==
  /\ Doing("balance") /\ job.left > 0 /\ Turnable(job.at)
  /\ LET tree == job.at
         child == FirstKid(tree)
         grandchild == FirstKid(child)
         last == Len(heap[grandchild].node.kids)
         turned == WithKid(heap, tree, 1, HeapRef(grandchild))
         handed == WithKid(turned, child, 1, heap[grandchild].node.kids[last])
     IN  /\ heap' = WithKid(handed, grandchild, last, HeapRef(child))
         /\ job' = [job EXCEPT !.at = grandchild, !.left = @ - 1,
                               !.turned = Append(@, tree)]
  /\ UNCHANGED <<trees, held, dropped, edits>>

\* ... and the sums are taken anew on the way back up.
SumUp ==
  /\ Doing("balance") /\ job.turned # <<>> /\ ~(job.left > 0 /\ Turnable(job.at))
  /\ LET tree == Last(job.turned)
         child == FirstKid(tree)
         grandchild == LastKid(child)
     IN  heap' = Summed(Summed(Summed(heap, grandchild), child), tree)
  /\ job' = [job EXCEPT !.turned = Front(@), !.left = 0]
  /\ UNCHANGED <<trees, held, dropped, edits>>

NextRound ==
  /\ Doing("balance") /\ job.top # 0 /\ job.turned = <<>>
  /\ ~(job.left > 0 /\ Turnable(job.at))
  /\ job' = IF job.round > 0
            THEN [job EXCEPT !.round = @ \div 2, !.left = job.round \div 2, !.at = job.top]
            ELSE [job EXCEPT !.todo = @ \union Owned(heap[job.top].node.kids),
                             !.top = 0, !.at = 0]
  /\ UNCHANGED <<heap, trees, held, dropped, edits>>

-----------------------------------------------------------------------------
(* What a user and the parser do with trees. *)

NewTree(root, ranges, text) == [root |-> root, ranges |-> ranges, text |-> text]

\* The parse of a document comes to its end.
Init ==
  /\ \E d \in Documents :
       /\ heap = d.heap
       /\ held = <<d.root>>
       /\ job = Balancing(d.text, d.ranges,
                          IF d.root.id = 0 \/ d.heap[d.root.id].node.kids = <<>>
                          THEN {} ELSE {d.root.id})
  /\ trees = <<>>
  /\ dropped = {}
  /\ edits = 0

\* The tree is handed out, and Parser.Reset releases the old one.
ParseEnd ==
  /\ Doing("balance") /\ job.top = 0 /\ job.todo = {}
  /\ trees' = Append(trees, NewTree(Last(held), job.ranges, job.text))
  /\ heap' = Released(heap, Front(held))
  /\ dropped' = Freed(heap, Front(held))
  /\ held' = <<>>
  /\ job' = Idle
  /\ UNCHANGED edits

Copy(t) ==
  /\ Doing("none") /\ Len(trees) < MaxTrees
  /\ heap' = Retained(heap, <<trees[t].root>>)
  /\ trees' = Append(trees, trees[t])
  /\ UNCHANGED <<held, dropped, job, edits>>

\* The end of a text, as a position.
PointOf(text, n) ==
  LET breaks == {i \in 1..n : text[i] = NewLine}
  IN  Point(Cardinality(breaks), n - Max({0} \union breaks))
LengthOf(text, n) == Length(n, PointOf(text, n))
Replaced(text, from, to, insert) ==
  SubSeq(text, 1, from) \o insert \o SubSeq(text, to + 1, Len(text))

Edit(t, from, to, insert) ==
  LET text == Replaced(trees[t].text, from, to, insert)
      end == from + Len(insert)
      e == Span(LengthOf(trees[t].text, from), LengthOf(trees[t].text, to), LengthOf(text, end))
      ranges == {RangeEdit(r, e) : r \in trees[t].ranges}
  IN  /\ Doing("none") /\ edits < MaxEdits
      /\ trees' = [trees EXCEPT ![t] = [@ EXCEPT !.text = text, !.ranges = ranges]]
      /\ job' = [op |-> "edit", tree |-> t, stack |-> <<Frame(0, [i \in {t} |-> e])>>,
                 edit |-> e, before |-> [heap |-> heap, tree |-> trees[t]]]
      /\ edits' = edits + 1
      /\ UNCHANGED <<heap, held, dropped>>

EditEnd ==
  /\ Doing("edit") /\ job.stack = <<>>
  /\ job' = Idle
  /\ UNCHANGED <<heap, trees, held, dropped, edits>>

-----------------------------------------------------------------------------
(* What a parse makes of an edited tree: it retains what has not changed,    *)
(* reads changed leaves anew and builds new nodes over them.  A frame is a   *)
(* subtree of the old tree, the child to go on with, and how much there was  *)
(* on the parser's stack before it.                                          *)

Enter(r) == [ref |-> r, next |-> 1, base |-> Len(held)]
Parse(t) ==
  LET root == trees[t].root
  IN  /\ Doing("none") /\ Len(trees) < MaxTrees /\ Deref(heap, root).changed
      /\ heap' = Retained(heap, <<root>>)
      /\ held' = <<root>>
      /\ job' = [op |-> "parse", tree |-> t,
                 frames |-> <<[ref |-> root, next |-> 1, base |-> 1]>>]
      /\ UNCHANGED <<trees, dropped, edits>>

Shift(h, r) ==
  /\ heap' = h /\ held' = Append(held, r)
  /\ job' = [job EXCEPT !.frames = Front(@)]

ParseStep ==
  /\ Doing("parse") /\ job.frames # <<>>
  /\ LET frame == Last(job.frames)
         r == frame.ref
         s == Deref(heap, r)
         leaf == Alloc(heap, NewLeaf(s.symbol, s.padding, s.size, s.lookahead, s.state,
                                     FALSE, s.column))
         kids == SubSeq(held, frame.base + 1, Len(held))
         node == Alloc(heap, NewNode(s.symbol, kids, Seen(heap, kids), s.production))
         over == frame.next > Len(s.kids)
         builds == Len(kids) >= 2 \/ (Len(kids) = 1 /\ s.visible)
     IN  \/ ~s.changed /\ Shift(Retained(heap, <<r>>), r)
         \/ s.changed /\ s.kids = <<>> /\ TotalBytes(s) > 0 /\ Shift(leaf.heap, leaf.ref)
         \/ /\ s.changed /\ ~over
            /\ job' = [job EXCEPT !.frames =
                          Append([@ EXCEPT ![Len(@)].next = frame.next + 1],
                                 Enter(s.kids[frame.next]))]
            /\ UNCHANGED <<heap, held>>
         \/ /\ s.changed /\ over /\ builds
            /\ heap' = node.heap
            /\ held' = Append(SubSeq(held, 1, frame.base), node.ref)
            /\ job' = [job EXCEPT !.frames = Front(@)]
         \/ /\ s.changed /\ over /\ ~builds
            /\ s.kids # <<>> \/ TotalBytes(s) = 0
            /\ job' = [job EXCEPT !.frames = Front(@)]
            /\ UNCHANGED <<heap, held>>
  /\ UNCHANGED <<trees, dropped, edits>>

\* accept builds the root anew over the children of what is left on the stack, which it releases.
Accept ==
  LET r == held[2]
      kids == Kids(heap, r)
      kept == Retained(heap, kids)
      root == Alloc(kept, NewNode(Deref(heap, r).symbol, kids, Seen(heap, kids),
                                  Deref(heap, r).production))
      made == IF kids = <<>> THEN [heap |-> heap, ref |-> r]
              ELSE [heap |-> Released(root.heap, <<r>>), ref |-> root.ref]
  IN  /\ Doing("parse") /\ job.frames = <<>> /\ Len(held) = 2
      /\ heap' = made.heap
      /\ held' = [held EXCEPT ![2] = made.ref]
      /\ dropped' = IF kids = <<>> THEN {} ELSE Freed(root.heap, <<r>>)
      /\ job' = Balancing(trees[job.tree].text, trees[job.tree].ranges,
                          IF kids = <<>> THEN {} ELSE {made.ref.id})
      /\ UNCHANGED <<trees, edits>>

\* Nothing is left of the text.
ParseNothing ==
  /\ Doing("parse") /\ job.frames = <<>> /\ Len(held) = 1
  /\ heap' = Released(heap, held)
  /\ dropped' = Freed(heap, held)
  /\ held' = <<>>
  /\ job' = Idle
  /\ UNCHANGED <<trees, edits>>

Next ==
  \/ ReleaseStep
  \/ EditStep \/ EditEnd
  \/ Visit \/ Rotate \/ SumUp \/ NextRound
  \/ ParseStep \/ Accept \/ ParseNothing \/ ParseEnd
  \/ \E t \in DOMAIN trees :
       \/ Copy(t) \/ Parse(t)
       \/ \E from, to \in 0..Len(trees[t].text), insert \in Inserts :
            from <= to /\ (from # to \/ insert # <<>>) /\ Edit(t, from, to, insert)
Spec == Init /\ [][Next]_vars

-----------------------------------------------------------------------------
(* Properties. *)

\* The subtrees within reach of a reference.
Reach(h, r) ==
  LET reached[n \in Nat] ==
        IF n = 0 THEN {r.id} \ {0}
        ELSE LET above == reached[n - 1]
             IN  above \union {k \in DOMAIN h : \E p \in above :
                                  \E i \in DOMAIN h[p].node.kids : h[p].node.kids[i].id = k}
  IN  reached[Len(h)]

\* Whatever is done to a tree leaves every other tree as it was, step by step
\* (subtree_core.go:131): a subtree that is held elsewhere is cloned before it
\* is written to, and no repeat of another tree is rotated.
OthersUntouched ==
  [][\A t \in DOMAIN trees :
       \/ job.op = "edit" /\ t = job.tree
       \/ /\ trees'[t].root = trees[t].root
          /\ \A id \in Reach(heap, trees[t].root) : heap'[id].node = heap[id].node]_vars

\* A reference count is the number of references from what is still held: trees,
\* the parser, and the nodes that are not freed or still on the stack of subtreeRelease.
Live == {id \in DOMAIN heap : heap[id].refs > 0} \union dropped
Places ==
  UNION {{0} \X DOMAIN trees, {-1} \X DOMAIN held,
         UNION {{id} \X DOMAIN heap[id].node.kids : id \in Live}}
RefAt(place) == IF place[1] = -1 THEN held[place[2]] ELSE RefIn(place[1], place[2])
Holders(id) == {place \in Places : RefAt(place).id = id}
RefsExact == \A id \in DOMAIN heap : heap[id].refs = Cardinality(Holders(id))
=============================================================================
