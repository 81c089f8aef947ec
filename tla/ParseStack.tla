----------------------------- MODULE ParseStack -----------------------------
(***************************************************************************)
(* The graph-structured stack of the parser: type parseStack of            *)
(* src/stack.go.  A stack version is a head, an index into `heads`, whose  *)
(* node is the top of a directed acyclic graph of stack nodes that all     *)
(* versions share.  Every exported operation of the type is an action.     *)
(* Those that call themselves (stackNodeAddLink, stackNodeRelease) and the *)
(* iteration behind the pop operations run in small steps: `calls` is the  *)
(* call stack of stackNodeAddLink, `drops` the nodes stackNodeRelease has  *)
(* still to visit and `walk` the variables of the method iter.             *)
(***************************************************************************)
EXTENDS Integers, Sequences, FiniteSets

CONSTANTS
    State, StartState, ErrorState,  \* parse states
    Subtree, NoTree,                \* subtrees, and the nil subtree
    Facts,          \* what the stack reads of a subtree
    Token, NoToken, \* external scanner states a head can carry
    Moves,          \* <<state, subtree, state>>: what the grammar lets the parser push
    Rank,           \* of a state, lowered by zero-width symbols (see ZeroWidthRanked)
    Ops,            \* the operations the parser issues in this instance
    MaxIterators,   \* maxIteratorCount of stack.go
    MaxNodes,       \* bound: nodes ever created
    MaxVersions,    \* bound: versions alive before an operation adds some
    MaxPop,         \* bound: the count argument of popCount
    MaxDepth        \* the maxDepth argument of recordSummary

ASSUME StatesAssumption == {StartState, ErrorState} \subseteq State
ASSUME NilAssumption == NoTree \notin Subtree /\ NoToken \in Token
ASSUME FactsAssumption ==
    Facts \in [Subtree -> [sym : Nat, shape : Nat, bytes : Nat, cost : Nat,
                           count : Nat, prec : Int, extra : BOOLEAN, error : BOOLEAN,
                           inner : BOOLEAN]]
ASSUME MovesAssumption ==
    /\ Moves \subseteq State \X (Subtree \cup {NoTree}) \X State
    /\ \A m \in Moves : m[2] = NoTree => m[1] # ErrorState /\ m[3] = ErrorState
ASSUME RankAssumption == Rank \in [State -> Nat]
ASSUME BoundsAssumption ==
    /\ MaxIterators \in Nat \ {0} /\ MaxNodes \in Nat \ {0} /\ MaxVersions \in Nat \ {0}
    /\ MaxPop \in Nat /\ MaxDepth \in Nat

VARIABLES
    node,   \* node[n]: the fields of node n that stackNodeNew fixes for good
    links,  \* links[n]: the links of n to its predecessors, in order
    weight, \* weight[n]: node count and dynamic precedence, raised by new links
    refs,   \* refs[n]: the reference count of n
    heads,  \* the versions
    calls,  \* call stack of stackNodeAddLink
    merged, \* the two versions a running merge joins
    drops,  \* nodes stackNodeRelease still has to release, next one last
    walk    \* a running iteration
vars == <<node, links, weight, refs, heads, calls, merged, drops, walk>>
graph == <<node, links, weight>>

\* Definitions that stand for a mistake in the code, and show which property notices it,
\* each come before the definition they could replace: PushUncounted, CopyUnretained,
\* ClearUnretained, CanMergeAnywhere, LikeNodeSkipped, LinkReplaced, LikeNodeRedone,
\* RecordedByDepth, AlongCountingExtras, PopToSameAtEnd.

Trees == Subtree \cup {NoTree}
Nodes == 1 .. Len(node)
Base == 1
Versions == 1 .. Len(heads)
Elements(s) == {s[i] : i \in DOMAIN s}
Without(s, i) == SubSeq(s, 1, i - 1) \o SubSeq(s, i + 1, Len(s))
Backwards(s) == [i \in 1 .. Len(s) |-> s[Len(s) + 1 - i]]

\* A nil link, which only ever leads into the error state, adds nothing.
Bytes(t) == IF t = NoTree THEN 0 ELSE Facts[t].bytes
Cost(t) == IF t = NoTree THEN 0 ELSE Facts[t].cost
Count(t) == IF t = NoTree THEN 0 ELSE Facts[t].count
Inner(t) == t # NoTree /\ Facts[t].inner   \* only these are pushed as pending
Prec(t) == IF t = NoTree THEN 0 ELSE Facts[t].prec

\* The grammar has no cycle of symbols that neither consume input nor cost an error.
ZeroWidthRanked ==
    \A m \in Moves : Bytes(m[2]) + Cost(m[2]) = 0 => Rank[m[3]] < Rank[m[1]]

Fixed == [state : State, pos : Nat, cost : Nat]
Raised == [count : Nat, prec : Int]
Link == [node : Nat, sub : Trees, pending : BOOLEAN]
Entry == [depth : Nat, state : State, pos : Nat]
Version == [node : Nat, status : {"active", "paused", "halted"}, atError : Nat,
         token : Token, summary : Seq(Entry)]
Frame == [self : Nat, from : Nat, next : Nat]
Iterator == [node : Nat, subs : Seq(Subtree), count : Nat, pending : BOOLEAN]
Slice == [version : Nat, subs : Seq(Subtree)]
Walk == [op : {"none", "count", "pending", "error", "all", "summary"},
         version : Nat, goal : Nat, its : Seq(Iterator), at : Nat, size : Nat,
         slices : Seq(Slice), found : BOOLEAN, summary : Seq(Entry)]

NoWalk == [op |-> "none", version |-> 0, goal |-> 0, its |-> <<>>, at |-> 1, size |-> 0,
           slices |-> <<>>, found |-> FALSE, summary |-> <<>>]

\* No operation is running: the next call can be made.
Idle == calls = <<>> /\ drops = <<>> /\ walk.op = "none"
CanCall(op) == Idle /\ op \in Ops

NewHead(n, like) == [node |-> n, status |-> "active", atError |-> like.atError,
                     token |-> like.token, summary |-> <<>>]

Init ==
    /\ node = <<[state |-> StartState, pos |-> 0, cost |-> 0]>>
    /\ links = <<<<>>>>
    /\ weight = <<[count |-> 0, prec |-> 0]>>
    /\ refs = <<2>>      \* one of parseStack.baseNode, one of the head
    /\ heads = <<[node |-> Base, status |-> "active", atError |-> 0,
                  token |-> NoToken, summary |-> <<>>]>>
    /\ calls = <<>> /\ merged = <<0, 0>> /\ drops = <<>> /\ walk = NoWalk
-----------------------------------------------------------------------------
(* Pushing.  The new node takes over the head's reference to the old one.  *)

PushUncounted(v, t, pending, s) ==
    LET prev == heads[v].node
    IN /\ CanCall("push") /\ Len(node) < MaxNodes /\ heads[v].status = "active"
       /\ <<node[prev].state, t, s>> \in Moves
       /\ node' = Append(node, [state |-> s, pos |-> node[prev].pos + Bytes(t),
                                cost |-> node[prev].cost + Cost(t)])
       /\ links' = Append(links, <<[node |-> prev, sub |-> t, pending |-> pending]>>)
       /\ refs' = Append(refs, 1)
       /\ heads' = [heads EXCEPT ![v].node = Len(node) + 1]
       /\ UNCHANGED <<weight, calls, merged, drops, walk>>

Push(v, t, pending, s) ==
    LET prev == heads[v].node
        new == Len(node) + 1
    IN /\ CanCall("push") /\ Len(node) < MaxNodes
       /\ heads[v].status = "active"
       /\ <<node[prev].state, t, s>> \in Moves
       /\ node' = Append(node, [state |-> s, pos |-> node[prev].pos + Bytes(t),
                                cost |-> node[prev].cost + Cost(t)])
       /\ links' = Append(links, <<[node |-> prev, sub |-> t, pending |-> pending]>>)
       /\ weight' = Append(weight, [count |-> weight[prev].count + Count(t),
                                    prec |-> weight[prev].prec + Prec(t)])
       /\ refs' = Append(refs, 1)
       /\ heads' = [heads EXCEPT
                      ![v].node = new,
                      ![v].atError = IF t = NoTree THEN weight[prev].count ELSE @]
       /\ UNCHANGED <<calls, merged, drops, walk>>
-----------------------------------------------------------------------------
(* Releasing.  The last reference to a node gone, so are its links'.       *)

Targets(n) == [i \in 1 .. Len(links[n]) |-> links[n][i].node]

ReleaseStep ==
    LET n == drops[Len(drops)]
        rest == SubSeq(drops, 1, Len(drops) - 1)
    IN /\ drops # <<>>
       /\ refs' = [refs EXCEPT ![n] = @ - 1]
       /\ drops' = IF refs[n] = 1 THEN rest \o Targets(n) ELSE rest
       /\ UNCHANGED <<graph, heads, calls, merged, walk>>

\* The heads left when v1 takes the place of v2, with the summary of v2 if it has none.
Renumbered(hs, v1, v2) ==
    Without([hs EXCEPT ![v2] = [hs[v1] EXCEPT
                 !.summary = IF @ = <<>> THEN hs[v2].summary ELSE @]], v1)
-----------------------------------------------------------------------------
(* Versions.                                                               *)

RemoveVersion(v) ==
    /\ CanCall("remove")
    /\ heads' = Without(heads, v)
    /\ drops' = <<heads[v].node>>
    /\ UNCHANGED <<graph, refs, calls, merged, walk>>

\* The parser renumbers a later version into the place of an earlier one.
RenumberVersion(v1, v2) ==
    /\ CanCall("renumber") /\ v2 < v1
    /\ heads' = Renumbered(heads, v1, v2)
    /\ drops' = <<heads[v2].node>>
    /\ UNCHANGED <<graph, refs, calls, merged, walk>>

SwapVersions(v1, v2) ==
    /\ CanCall("swap") /\ v2 < v1
    /\ heads' = [heads EXCEPT ![v1] = heads[v2], ![v2] = heads[v1]]
    /\ UNCHANGED <<graph, refs, calls, merged, drops, walk>>

CopyUnretained(v) ==
    /\ CanCall("copy") /\ Len(heads) < MaxVersions
    /\ heads' = Append(heads, [heads[v] EXCEPT !.summary = <<>>])
    /\ UNCHANGED <<graph, refs, calls, merged, drops, walk>>

CopyVersion(v) ==
    /\ CanCall("copy") /\ Len(heads) < MaxVersions
    /\ heads' = Append(heads, [heads[v] EXCEPT !.summary = <<>>])
    /\ refs' = [refs EXCEPT ![heads[v].node] = @ + 1]
    /\ UNCHANGED <<graph, calls, merged, drops, walk>>

Halt(v) ==
    /\ CanCall("halt")
    /\ heads' = [heads EXCEPT ![v].status = "halted"]
    /\ UNCHANGED <<graph, refs, calls, merged, drops, walk>>

Pause(v) ==
    /\ CanCall("pause") /\ heads[v].status = "active"
    /\ heads' = [heads EXCEPT ![v].status = "paused",
                              ![v].atError = weight[heads[v].node].count]
    /\ UNCHANGED <<graph, refs, calls, merged, drops, walk>>

Resume(v) ==
    /\ CanCall("resume") /\ heads[v].status = "paused"
    /\ heads' = [heads EXCEPT ![v].status = "active"]
    /\ UNCHANGED <<graph, refs, calls, merged, drops, walk>>

SetLastExternalToken(v, t) ==
    /\ CanCall("token")
    /\ heads' = [heads EXCEPT ![v].token = t]
    /\ UNCHANGED <<graph, refs, calls, merged, drops, walk>>

\* A question that writes: it lowers the mark so that the difference is not negative.
NodeCountSinceError(v) ==
    /\ CanCall("since") /\ weight[heads[v].node].count < heads[v].atError
    /\ heads' = [heads EXCEPT ![v].atError = weight[heads[v].node].count]
    /\ UNCHANGED <<graph, refs, calls, merged, drops, walk>>

ClearUnretained ==
    /\ CanCall("clear")
    /\ heads' = <<[node |-> Base, status |-> "active", atError |-> 0,
                   token |-> NoToken, summary |-> <<>>]>>
    /\ drops' = [i \in 1 .. Len(heads) |-> heads[Len(heads) + 1 - i].node]
    /\ UNCHANGED <<graph, refs, calls, merged, walk>>

Clear ==
    /\ CanCall("clear")
    /\ refs' = [refs EXCEPT ![Base] = @ + 1]
    /\ heads' = <<[node |-> Base, status |-> "active", atError |-> 0,
                   token |-> NoToken, summary |-> <<>>]>>
    /\ drops' = [i \in 1 .. Len(heads) |-> heads[Len(heads) + 1 - i].node]
    /\ UNCHANGED <<graph, calls, merged, walk>>
-----------------------------------------------------------------------------
(* Merging.  A frame of `calls` is a loop that adds the links of node      *)
(* `from`, the next one `next`, to node `self`.                            *)

\* Same symbol, and either both hold errors or all that is compared agrees.
Equivalent(l, r) ==
    \/ l = r
    \/ /\ l # NoTree /\ r # NoTree
       /\ Facts[l].sym = Facts[r].sym
       /\ (Cost(l) > 0 /\ Cost(r) > 0) \/ Facts[l].shape = Facts[r].shape

CanMergeAnywhere(v1, v2) ==
    /\ heads[v1].status = "active" /\ heads[v2].status = "active"
    /\ node[heads[v1].node].state = node[heads[v2].node].state
    /\ heads[v1].token = heads[v2].token

CanMerge(v1, v2) ==
    /\ heads[v1].status = "active" /\ heads[v2].status = "active"
    /\ node[heads[v1].node] = node[heads[v2].node]
    /\ heads[v1].token = heads[v2].token

\* The parser merges a later version into an earlier one.
Merge(v1, v2) ==
    /\ CanCall("merge") /\ v1 < v2
    /\ CanMerge(v1, v2)
    /\ calls' = <<[self |-> heads[v1].node, from |-> heads[v2].node, next |-> 1]>>
    /\ merged' = <<v1, v2>>
    /\ UNCHANGED <<graph, refs, heads, drops, walk>>

Top == calls[Len(calls)]
Given == links[Top.from][Top.next]
InLoop == Top.next <= Len(links[Top.from])
Below == SubSeq(calls, 1, Len(calls) - 1)
NextLink == calls' = [calls EXCEPT ![Len(calls)].next = @ + 1]

\* Link i of the node absorbs the given one: same subtree, and the same node or one
\* with which the given node can be merged.
Absorbs(i) ==
    LET old == links[Top.self][i]
    IN /\ Equivalent(old.sub, Given.sub)
       /\ old.node = Given.node \/ node[old.node] = node[Given.node]
FirstAbsorbing(i) == Absorbs(i) /\ \A j \in 1 .. i - 1 : ~Absorbs(j)

LinkToSelf ==
    /\ InLoop /\ Given.node = Top.self
    /\ NextLink
    /\ UNCHANGED <<graph, refs, heads, merged, drops, walk>>

LinkToSameNode(i) ==
    /\ InLoop /\ Given.node # Top.self
    /\ FirstAbsorbing(i) /\ links[Top.self][i].node = Given.node
    /\ IF Prec(Given.sub) > Prec(links[Top.self][i].sub)
       THEN /\ links' = [links EXCEPT ![Top.self][i].sub = Given.sub]
            /\ weight' = [weight EXCEPT ![Top.self].prec =
                                          weight[Given.node].prec + Prec(Given.sub)]
       ELSE UNCHANGED <<links, weight>>
    /\ NextLink
    /\ UNCHANGED <<node, refs, heads, merged, drops, walk>>

LikeNodeSkipped(i) ==
    /\ InLoop /\ Given.node # Top.self
    /\ FirstAbsorbing(i) /\ links[Top.self][i].node # Given.node
    /\ NextLink
    /\ UNCHANGED <<graph, refs, heads, merged, drops, walk>>

LinkToLikeNode(i) ==
    /\ InLoop /\ Given.node # Top.self
    /\ FirstAbsorbing(i) /\ links[Top.self][i].node # Given.node
    /\ calls' = Append(calls, [self |-> links[Top.self][i].node,
                               from |-> Given.node, next |-> 1])
    /\ UNCHANGED <<graph, refs, heads, merged, drops, walk>>

AtLeast(a, b) == IF a >= b THEN a ELSE b

LinkReplaced ==
    /\ InLoop /\ Given.node # Top.self
    /\ \A i \in 1 .. Len(links[Top.self]) : ~Absorbs(i)
    /\ links' = [links EXCEPT ![Top.self] = <<Given>>]
    /\ refs' = [refs EXCEPT ![Given.node] = @ + 1]
    /\ weight' = [weight EXCEPT
         ![Top.self].count = AtLeast(@, weight[Given.node].count + Count(Given.sub)),
         ![Top.self].prec = AtLeast(@, weight[Given.node].prec + Prec(Given.sub))]
    /\ NextLink
    /\ UNCHANGED <<node, heads, merged, drops, walk>>

LinkAdded ==
    /\ InLoop /\ Given.node # Top.self
    /\ \A i \in 1 .. Len(links[Top.self]) : ~Absorbs(i)
    /\ links' = [links EXCEPT ![Top.self] = Append(@, Given)]
    /\ refs' = [refs EXCEPT ![Given.node] = @ + 1]
    /\ weight' = [weight EXCEPT
         ![Top.self].count = AtLeast(@, weight[Given.node].count + Count(Given.sub)),
         ![Top.self].prec = AtLeast(@, weight[Given.node].prec + Prec(Given.sub))]
    /\ NextLink
    /\ UNCHANGED <<node, heads, merged, drops, walk>>

LikeNodeRedone ==
    /\ Len(calls) > 1 /\ ~InLoop
    /\ calls' = Below
    /\ UNCHANGED <<graph, refs, heads, merged, drops, walk>>

\* An inner loop is over: its caller raises the precedence and goes on.
LikeNodeDone ==
    /\ Len(calls) > 1 /\ ~InLoop
    /\ LET up == Below[Len(Below)]
           given == links[up.from][up.next]
       IN /\ weight' = [weight EXCEPT ![up.self].prec =
                          AtLeast(@, weight[given.node].prec + Prec(given.sub))]
          /\ calls' = [Below EXCEPT ![Len(Below)].next = @ + 1]
    /\ UNCHANGED <<node, links, refs, heads, merged, drops, walk>>

MergeDone ==
    /\ Len(calls) = 1 /\ ~InLoop
    /\ LET v1 == merged[1]  v2 == merged[2]  top == heads[v1].node
       IN /\ heads' = Without(IF node[top].state = ErrorState
                              THEN [heads EXCEPT ![v1].atError = weight[top].count]
                              ELSE heads, v2)
          /\ drops' = <<heads[v2].node>>
    /\ calls' = <<>> /\ merged' = <<0, 0>>
    /\ UNCHANGED <<graph, refs, walk>>

MergeStep ==
    /\ calls # <<>>
    /\ \/ LinkToSelf
       \/ \E i \in 1 .. Len(links[Top.self]) : LinkToSameNode(i) \/ LinkToLikeNode(i)
       \/ LinkAdded
       \/ LikeNodeDone
       \/ MergeDone
-----------------------------------------------------------------------------
(* Iterating.  A step is one call of the callback, for iterator `at`, and  *)
(* what follows from its answer.                                           *)

StartWalk(op, v, goal) ==
    /\ Len(heads) < MaxVersions
    /\ walk' = [NoWalk EXCEPT
                  !.op = op, !.version = v, !.goal = goal, !.size = 1,
                  !.its = <<[node |-> heads[v].node, subs |-> <<>>,
                             count |-> 0, pending |-> TRUE]>>]
    /\ UNCHANGED <<graph, refs, heads, calls, merged, drops>>

PopCount(v, n) == CanCall("popCount") /\ StartWalk("count", v, n)
PopPending(v) == CanCall("popPending") /\ StartWalk("pending", v, 0)
PopAll(v) == CanCall("popAll") /\ StartWalk("all", v, 0)
RecordSummary(v) == CanCall("summary") /\ StartWalk("summary", v, MaxDepth)
PopError(v) ==
    /\ CanCall("popError")
    /\ \E i \in 1 .. Len(links[heads[v].node]) :
         LET t == links[heads[v].node][i].sub IN t # NoTree /\ Facts[t].error
    /\ StartWalk("error", v, 1)

It == walk.its[walk.at]
ErrorFirst == It.subs # <<>> /\ ~walk.found /\ Facts[It.subs[1]].error

ShouldPop == CASE walk.op = "count" -> It.count = walk.goal
               [] walk.op = "pending" -> It.count >= 1 /\ It.pending
               [] walk.op = "error" -> ErrorFirst
               [] walk.op = "all" -> links[It.node] = <<>>
               [] OTHER -> FALSE

ShouldStop == \/ links[It.node] = <<>>
              \/ CASE walk.op = "count" -> It.count = walk.goal
                   [] walk.op = "pending" -> It.count >= 1
                   [] walk.op = "error" -> It.subs # <<>>
                   [] walk.op = "summary" -> It.count > walk.goal
                   [] OTHER -> FALSE

RecordedByDepth == \E i \in 1 .. Len(walk.summary) : walk.summary[i].depth = It.count

\* The duplicate search of recordSummary: backwards, until an entry less deep.
Recorded ==
    \E i \in 1 .. Len(walk.summary) :
       /\ walk.summary[i].depth = It.count /\ walk.summary[i].state = node[It.node].state
       /\ \A j \in i .. Len(walk.summary) : walk.summary[j].depth >= It.count

Summary ==
    IF walk.op # "summary" \/ It.count > walk.goal \/ Recorded THEN walk.summary
    ELSE Append(walk.summary, [depth |-> It.count, state |-> node[It.node].state,
                               pos |-> node[It.node].pos])

Extra(t) == t # NoTree /\ Facts[t].extra

AlongCountingExtras(it, l) ==
    [node |-> l.node, subs |-> IF l.sub # NoTree THEN Append(it.subs, l.sub) ELSE it.subs,
     count |-> it.count + 1, pending |-> it.pending /\ l.pending]

\* An iterator one link further down; recordSummary collects no subtrees.
Along(it, l) ==
    [node |-> l.node,
     subs |-> IF l.sub # NoTree /\ walk.op # "summary" THEN Append(it.subs, l.sub)
              ELSE it.subs,
     count |-> IF Extra(l.sub) THEN it.count ELSE it.count + 1,
     pending |-> it.pending /\ (Extra(l.sub) \/ (l.sub # NoTree /\ l.pending))]

\* The first link moves the iterator, each other one a copy, as far as there is room.
Forks == LET room == MaxIterators - Len(walk.its)
             others == Len(links[It.node]) - 1
         IN [j \in 1 .. (IF others <= room THEN others ELSE room) |->
               Along(It, links[It.node][j + 1])]

Iterators == IF ShouldStop THEN Without(walk.its, walk.at)
             ELSE [walk.its EXCEPT ![walk.at] = Along(It, links[It.node][1])] \o Forks

\* A slice joins those of the last version with the same node, or gets a new version.
SliceFor(n) == {i \in 1 .. Len(walk.slices) : heads[walk.slices[i].version].node = n}
IsLast(i, S) == i \in S /\ \A j \in S : j <= i

Moved(slices) ==
    LET its == Iterators
        last == IF ShouldStop THEN walk.size - 1 ELSE walk.size
        next == IF ShouldStop THEN walk.at ELSE walk.at + 1
        over == next > last     \* of this round: the next one starts
    IN walk' = [walk EXCEPT
         !.its = its, !.slices = slices, !.summary = Summary,
         !.found = @ \/ (walk.op = "error" /\ ErrorFirst),
         !.at = IF over THEN 1 ELSE next,
         !.size = IF over THEN Len(its) ELSE last]

Walking == walk.op # "none" /\ walk.its # <<>>

StepOver ==
    /\ Walking /\ ~ShouldPop
    /\ Moved(walk.slices)
    /\ UNCHANGED <<graph, refs, heads, calls, merged, drops>>

PopToNew ==
    /\ Walking /\ ShouldPop /\ SliceFor(It.node) = {}
    /\ heads' = Append(heads, NewHead(It.node, heads[walk.version]))
    /\ refs' = [refs EXCEPT ![It.node] = @ + 1]
    /\ Moved(Append(walk.slices, [version |-> Len(heads) + 1, subs |-> Backwards(It.subs)]))
    /\ UNCHANGED <<graph, calls, merged, drops>>

PopToSameAtEnd(i) ==
    /\ Walking /\ ShouldPop /\ IsLast(i, SliceFor(It.node))
    /\ Moved(Append(walk.slices, [version |-> walk.slices[i].version,
                                  subs |-> Backwards(It.subs)]))
    /\ UNCHANGED <<graph, refs, heads, calls, merged, drops>>

PopToSame(i) ==
    /\ Walking /\ ShouldPop /\ IsLast(i, SliceFor(It.node))
    /\ Moved(SubSeq(walk.slices, 1, i)
             \o <<[version |-> walk.slices[i].version, subs |-> Backwards(It.subs)]>>
             \o SubSeq(walk.slices, i + 1, Len(walk.slices)))
    /\ UNCHANGED <<graph, refs, heads, calls, merged, drops>>

\* No iterator is left: what the operation does with the slices or the summary.
WalkOver(ops) == walk.op \in ops /\ walk.its = <<>> /\ walk' = NoWalk

ReturnSlices ==
    /\ WalkOver({"count", "all", "pending", "error"})
    /\ walk.op \in {"pending", "error"} => walk.slices = <<>>
    /\ UNCHANGED <<graph, refs, heads, calls, merged, drops>>

ReturnRenumbered ==
    /\ WalkOver({"pending", "error"}) /\ walk.slices # <<>>
    /\ heads' = Renumbered(heads, walk.slices[1].version, walk.version)
    /\ drops' = <<heads[walk.version].node>>
    /\ UNCHANGED <<graph, refs, calls, merged>>

KeepSummary ==
    /\ WalkOver({"summary"})
    /\ heads' = [heads EXCEPT ![walk.version].summary = walk.summary]
    /\ UNCHANGED <<graph, refs, calls, merged, drops>>

WalkStep ==
    \/ StepOver
    \/ PopToNew
    \/ \E i \in 1 .. Len(walk.slices) : PopToSame(i)
    \/ ReturnSlices
    \/ ReturnRenumbered
    \/ KeepSummary
-----------------------------------------------------------------------------
Running == ReleaseStep \/ MergeStep \/ WalkStep

Call ==
    \/ Clear
    \/ \E v \in Versions :
         \/ \E t \in Trees, s \in State :
              Push(v, t, FALSE, s) \/ (Inner(t) /\ Push(v, t, TRUE, s))
         \/ RemoveVersion(v) \/ CopyVersion(v) \/ Halt(v) \/ Pause(v) \/ Resume(v)
         \/ NodeCountSinceError(v)
         \/ \E t \in Token : SetLastExternalToken(v, t)
         \/ \E n \in 0 .. MaxPop : PopCount(v, n)
         \/ PopPending(v) \/ PopError(v) \/ PopAll(v) \/ RecordSummary(v)
         \/ \E w \in Versions : RenumberVersion(v, w) \/ SwapVersions(v, w) \/ Merge(v, w)

Next == Running \/ Call

\* An operation that was called runs to its end: it is straight-line Go code.
Spec == Init /\ [][Next]_vars /\ WF_vars(Running)
-----------------------------------------------------------------------------
(* Properties.                                                             *)

\* The variables stay in their types, and the four that describe the nodes go together.
TypeOK ==
    /\ node \in Seq(Fixed) /\ Len(node) >= 1
    /\ links \in Seq(Seq(Link)) /\ Len(links) = Len(node)
    /\ weight \in Seq(Raised) /\ Len(weight) = Len(node)
    /\ refs \in Seq(Int) /\ Len(refs) = Len(node)
    /\ heads \in Seq(Version)
    /\ calls \in Seq(Frame)
    /\ merged \in Nat \X Nat
    /\ drops \in Seq(Nat)
    /\ walk \in Walk

\* Every path down from a node adds up to the position and the error cost that the
\* node caches: push computes them along one link, and canMerge and the search of
\* stackNodeAddLink let a node gain, or change, only links that agree.
LinkSums ==
    \A n \in Nodes : \A i \in 1 .. Len(links[n]) :
       LET l == links[n][i]
       IN /\ l.node \in Nodes
          /\ node[n].pos = node[l.node].pos + Bytes(l.sub)
          /\ node[n].cost = node[l.node].cost + Cost(l.sub)

\* Less input and error cost behind it or, at equal ones, a state of higher rank.
Under(a, b) ==
    \/ a.pos + a.cost < b.pos + b.cost
    \/ a.pos + a.cost = b.pos + b.cost /\ Rank[b.state] < Rank[a.state]

\* A link leads to a node with less input and error cost behind it, or, at equal ones,
\* to a state of higher rank: no chain of merges closes a cycle in the graph, whose
\* walks would then never end, though stackNodeAddLink only looks for a link of a node
\* to itself.
Descends ==
    ZeroWidthRanked =>
    \A n \in Nodes : \A i \in 1 .. Len(links[n]) : Under(node[links[n][i].node], node[n])

Live == {n \in Nodes : refs[n] > 0}
HeadsAt(n) == {v \in Versions : heads[v].node = n}
LinksTo(n) == {p \in UNION {{m} \X (1 .. Len(links[m])) : m \in Live} :
                 links[p[1]][p[2]].node = n}
DropsOf(n) == {k \in 1 .. Len(drops) : drops[k] = n}

\* A node's count is exactly the references there are to it, those stackNodeRelease has
\* still to give back included: no pop, merge, renumbering or clear leaks a node (and so
\* the subtrees of its links) or lets one go that a version can still reach.
RefsExact ==
    \A n \in Nodes :
       refs[n] = Cardinality(HeadsAt(n)) + Cardinality(LinksTo(n)) + Cardinality(DropsOf(n))
                 + (IF n = Base THEN 1 ELSE 0)

\* At most maxIteratorCount paths are followed at once.
IteratorsBounded == Len(walk.its) <= MaxIterators

\* The raw node pointers of a running merge or iteration never outlive their nodes; and
\* what it has found so far is as reduce and recoverToState go through it: slices of one
\* version are neighbours, versions never decrease.
WalkSound ==
    /\ \A k \in 1 .. Len(walk.its) : walk.its[k].node \in Live
    /\ \A k \in 1 .. Len(calls) : {calls[k].self, calls[k].from} \subseteq Live
    /\ \A i, j \in 1 .. Len(walk.slices) :
          i < j => walk.slices[i].version <= walk.slices[j].version

\* Every operation ends: merges and iterations find no cycle to go round in.
Terminates == []<>Idle
-----------------------------------------------------------------------------
(* The inductive invariant behind LinkSums and Descends.                   *)

HeadsPlaced == \A v \in Versions : heads[v].node \in Nodes

OneTask ==
    /\ calls # <<>> => drops = <<>> /\ walk.op = "none"
    /\ drops # <<>> => walk.op = "none"

\* A loop of stackNodeAddLink runs between nodes of one state, position and error cost.
CallsAligned ==
    /\ \A k \in 1 .. Len(calls) :
          /\ calls[k].self \in Nodes /\ calls[k].from \in Nodes
          /\ node[calls[k].self] = node[calls[k].from]
          /\ calls[k].next >= 1
          /\ k < Len(calls) => calls[k].next <= Len(links[calls[k].from])
    /\ calls # <<>> => merged[1] \in Versions /\ merged[2] \in Versions

DropsPlaced == \A k \in 1 .. Len(drops) : drops[k] \in Nodes

WalkPlaced ==
    /\ Len(walk.its) <= MaxIterators
    /\ walk.op # "none" =>
          /\ walk.version \in Versions
          /\ walk.its # <<>> => /\ walk.at \in 1 .. walk.size
                                /\ walk.size \in 1 .. Len(walk.its)
          /\ \A k \in 1 .. Len(walk.its) : walk.its[k].node \in Nodes
          /\ \A k \in 1 .. Len(walk.slices) : walk.slices[k].version \in Versions

IInv == /\ TypeOK /\ LinkSums /\ Descends /\ HeadsPlaced /\ OneTask
        /\ CallsAligned /\ DropsPlaced /\ WalkPlaced
=============================================================================
