---------------------------- MODULE MCParseStack ----------------------------
(* Small instances of ParseStack for TLC. *)
EXTENDS ParseStack

\* Two readings of a byte that differ in precedence only ("a", "b") and one under another
\* symbol ("c"), a subtree with children, a zero-width token, an extra, and two error trees of
\* different symbols.
MCSubtree == {"a", "b", "c", "z", "x", "err", "err2"}
Tree(sym, bytes, cost, prec, extra) ==
    [sym |-> sym, shape |-> bytes, bytes |-> bytes, cost |-> cost, count |-> 1,
     prec |-> prec, extra |-> extra, error |-> cost > 0, inner |-> sym = 2]
MCFacts == [t \in MCSubtree |->
    CASE t = "a" -> Tree(1, 1, 0, 0, FALSE)
      [] t = "b" -> Tree(1, 1, 0, 1, FALSE)
      [] t = "c" -> Tree(2, 1, 0, 0, FALSE)
      [] t = "z" -> Tree(3, 0, 0, 0, FALSE)
      [] t = "x" -> Tree(4, 1, 0, 0, TRUE)
      [] t = "err" -> Tree(5, 1, 1, 0, FALSE)
      [] t = "err2" -> Tree(6, 1, 1, 0, FALSE)]
MCState == {"error", "s", "start"}
MCRank == [s \in MCState |-> CASE s = "error" -> 0 [] s = "s" -> 1 [] s = "start" -> 2]

\* An ambiguous grammar: the first byte can be read in three ways, each other in two.
MergeMoves == {"start"} \X {"a", "b", "x"} \X {"s"} \cup {"s"} \X {"a", "b"} \X {"s"}
\* With a zero-width token that leads from "s" to itself.
LoopMoves == {<<"start", "a", "s">>, <<"s", "b", "s">>, <<"s", "z", "s">>}
\* Different symbols over the same bytes, extras, the nil link into the error state and
\* error trees, alone or after it.
PopMoves == {<<"start", "c", "s">>, <<"s", "x", "s">>,
             <<"start", "nil", "error">>, <<"error", "err", "s">>, <<"start", "err", "s">>,
             <<"start", "err2", "s">>}
-----------------------------------------------------------------------------
(* What the operations are for, said of the graph as a whole.              *)

\* What two equivalent links have in common.
Sign(l) == <<IF l.sub = NoTree THEN 0 ELSE Facts[l.sub].sym, node[l.node]>>

\* The stacks below a node, each as the symbols and nodes met on the way down.
RECURSIVE StacksOf(_)
StacksOf(n) ==
    IF links[n] = <<>> THEN {<<>>}
    ELSE UNION {{<<Sign(l)>> \o p : p \in StacksOf(l.node)} : l \in Elements(links[n])}

\* The stacks a merge will have brought below calls[k].self: those already there, those
\* behind links still to come, and behind the one at hand what the inner loop brings.
RECURSIVE Brought(_)
Brought(k) ==
    LET f == calls[k]
        given == links[f.from]
        inner == k < Len(calls)
        coming == (IF inner THEN f.next + 1 ELSE f.next) .. Len(given)
    IN StacksOf(f.self)
       \cup UNION {{<<Sign(given[i])>> \o p : p \in StacksOf(given[i].node)} : i \in coming}
       \cup (IF inner THEN {<<Sign(given[f.next])>> \o p : p \in Brought(k + 1)} ELSE {})

\* A merge loses no history of its two versions: it sets out with all of them, no step of
\* stackNodeAddLink loses one, and in the end all are below the first version.  (Stacks that the
\* second version gains meanwhile, when a node it shares is given links, may be left out.)
Histories(v) == StacksOf(heads[v].node)
MergeKeepsStacks ==
    [][\A v1, v2 \in Versions :
          /\ merged' = <<v1, v2>> /\ calls = <<>> =>
                Histories(v1) \cup Histories(v2) \subseteq Brought(1)'
          /\ merged = <<v1, v2>> /\ calls # <<>> =>
                Brought(1) \subseteq IF calls' # <<>> THEN Brought(1)' ELSE Histories(v1)']_vars

\* And no step of anything takes a stack away from a node that another version uses.
StacksOnlyGrow ==
    [][\A n \in Nodes : StacksOf(n) \subseteq StacksOf(n)']_graph

\* The ways down from a node over `count` symbols that are not extras (all of them when
\* the stack ends first), with the subtrees met, top first, and whether all are pending.
Way(subs, n, pending) == [subs |-> subs, node |-> n, pending |-> pending]
RECURSIVE Ways(_, _)
Ways(n, count) ==
    IF count = 0 THEN {Way(<<>>, n, TRUE)}
    ELSE UNION {{Way((IF l.sub = NoTree THEN <<>> ELSE <<l.sub>>) \o w.subs, w.node,
                     w.pending /\ (Extra(l.sub) \/ (l.sub # NoTree /\ l.pending))) :
                   w \in Ways(l.node, IF Extra(l.sub) THEN count ELSE count - 1)} :
                l \in Elements(links[n])}

RECURSIVE WaysDown(_)
WaysDown(n) ==
    IF links[n] = <<>> THEN {[subs |-> <<>>, node |-> n]}
    ELSE UNION {{[w EXCEPT !.subs = (IF l.sub = NoTree THEN <<>> ELSE <<l.sub>>) \o @] :
                   w \in WaysDown(l.node)} : l \in Elements(links[n])}

Bottoms(n) == Cardinality(StacksOf(n))
Done == walk.op # "none" /\ walk.its = <<>>
Sliced == {[subs |-> Backwards(s.subs), node |-> heads[s.version].node] :
              s \in Elements(walk.slices)}
Wanted ==
    LET top == heads[walk.version].node
        Bare(ws) == {[subs |-> w.subs, node |-> w.node] : w \in ws}
    IN CASE walk.op = "count" -> Bare(Ways(top, walk.goal))
         [] walk.op = "pending" -> Bare({w \in Ways(top, 1) : w.pending})
         [] walk.op = "all" -> WaysDown(top)
         [] OTHER -> {}

\* popCount, popPending and popAll return ways that exist; and all there are, unless there are
\* more ways to the bottom than iterators. popError takes one error off the top, whenever it
\* was called for one.
PopsExactly ==
    /\ Done /\ walk.op \in {"count", "pending", "all"} =>
         /\ Sliced \subseteq Wanted
         /\ Bottoms(heads[walk.version].node) <= MaxIterators => Sliced = Wanted
    /\ Done /\ walk.op = "error" =>
         /\ Len(walk.slices) = 1
         /\ LET s == walk.slices[1]
            IN \E l \in Elements(links[heads[walk.version].node]) :
                  s.subs = <<l.sub>> /\ Facts[l.sub].error /\ heads[s.version].node = l.node

\* The nodes at a depth in symbols below a node, extras after the last symbol included.
RECURSIVE AtDepth(_, _)
AtDepth(n, depth) ==
    (IF depth = 0 THEN {n} ELSE {}) \cup
    UNION {AtDepth(l.node, IF Extra(l.sub) THEN depth ELSE depth - 1) :
             l \in {k \in Elements(links[n]) : depth > 0 \/ Extra(k.sub)}}

\* The summary recoverToState searches names only states that can be popped to, with
\* their positions, and every one of them down to its depth.
SummaryExact ==
    Done /\ walk.op = "summary" =>
       LET top == heads[walk.version].node
           real == UNION {{[depth |-> d, state |-> node[n].state, pos |-> node[n].pos] :
                             n \in AtDepth(top, d)} : d \in 0 .. walk.goal}
           Said(es) == {<<e.depth, e.state>> : e \in es}
       IN /\ Elements(walk.summary) \subseteq real
          /\ Bottoms(top) <= MaxIterators => Said(Elements(walk.summary)) = Said(real)
=============================================================================
