-------------------------- MODULE ParseStackProofs --------------------------
(* IInv is an inductive invariant of ParseStack, whatever the grammar, the *)
(* bounds and the operations the parser calls; and, from it, what merges   *)
(* keep, and that pops and summaries find the ways down, and only those.   *)
EXTENDS ParseStack, TLAPS, SequenceTheorems, FiniteSetTheorems

\* Without takes element i out and moves the later ones down.
LEMMA WithoutProperties ==
    ASSUME NEW S, NEW s \in Seq(S), NEW i \in 1 .. Len(s)
    PROVE /\ Without(s, i) \in Seq(S)
          /\ Len(Without(s, i)) = Len(s) - 1
          /\ \A j \in 1 .. Len(s) - 1 : Without(s, i)[j] = IF j < i THEN s[j] ELSE s[j + 1]
<1> DEFINE a == SubSeq(s, 1, i - 1)  b == SubSeq(s, i + 1, Len(s))
<1>1. a \in Seq(S) /\ Len(a) = i - 1 /\ \A j \in 1 .. i - 1 : a[j] = s[j]
  BY SubSeqProperties
<1>2. b \in Seq(S) /\ Len(b) = Len(s) - i /\ \A j \in 1 .. Len(s) - i : b[j] = s[i + j]
  BY SubSeqProperties
<1>3. Without(s, i) = a \o b
  BY DEF Without
<1> HIDE DEF a, b
<1>4. /\ a \o b \in Seq(S) /\ Len(a \o b) = Len(a) + Len(b)
      /\ \A j \in 1 .. Len(a) + Len(b) :
            (a \o b)[j] = IF j <= Len(a) THEN a[j] ELSE b[j - Len(a)]
  BY <1>1, <1>2, ConcatProperties
<1>5. ASSUME NEW j \in 1 .. Len(s) - 1
      PROVE (a \o b)[j] = IF j < i THEN s[j] ELSE s[j + 1]
  <2>1. Len(s) \in Nat
    BY LenProperties
  <2>2. CASE j < i
    BY <1>1, <1>2, <1>4, <2>1, <2>2
  <2>3. CASE j >= i
    <3>1. (a \o b)[j] = b[j - (i - 1)]
      BY <1>1, <1>2, <1>4, <2>1, <2>3
    <3>2. j - (i - 1) \in 1 .. Len(s) - i /\ i + (j - (i - 1)) = j + 1
      BY <2>1, <2>3
    <3> QED
      BY <1>2, <2>3, <3>1, <3>2
  <2>4. j < i \/ j >= i
    BY <2>1
  <2> QED
    BY <2>2, <2>3, <2>4
<1>6. Len(a \o b) = Len(s) - 1
  BY <1>1, <1>2, <1>4, LenProperties
<1> QED
  BY <1>3, <1>4, <1>5, <1>6

\* What the stack reads of a subtree, nil included, are numbers.
LEMMA FactsTyped ==
    ASSUME NEW t \in Trees
    PROVE Bytes(t) \in Nat /\ Cost(t) \in Nat /\ Count(t) \in Nat /\ Prec(t) \in Int
BY FactsAssumption DEF Trees, Bytes, Cost, Count, Prec

\* What a new node adds puts it above the old one.
LEMMA UnderAbove ==
    ASSUME NEW a \in Fixed, NEW s \in State, NEW b \in Nat, NEW c \in Nat,
           b + c = 0 => Rank[s] < Rank[a.state]
    PROVE Under(a, [state |-> s, pos |-> a.pos + b, cost |-> a.cost + c])
<1>1. a.pos \in Nat /\ a.cost \in Nat /\ a.state \in State
  BY DEF Fixed
<1>2. CASE b + c = 0
  <2>1. Rank[s] < Rank[a.state] /\ b = 0 /\ c = 0
    BY <1>2
  <2> QED
    BY <1>1, <2>1 DEF Under
<1>3. CASE b + c > 0
  BY <1>1, <1>3 DEF Under
<1> QED
  BY <1>2, <1>3

\* newParseStack: one node without links, one version on it.
LEMMA InitIInv == Init => IInv
<1> SUFFICES ASSUME Init PROVE IInv
  OBVIOUS
<1> USE DEF Init
<1>1. TypeOK
  <2>1. node \in Seq(Fixed) /\ Len(node) = 1
    BY StatesAssumption DEF Fixed
  <2>2. links \in Seq(Seq(Link)) /\ Len(links) = 1
    OBVIOUS
  <2>3. weight \in Seq(Raised) /\ Len(weight) = 1
    BY DEF Raised
  <2>4. heads \in Seq(Version)
    BY NilAssumption DEF Version, Base
  <2>5. walk \in Walk
    BY DEF NoWalk, Walk
  <2> QED
    BY <2>1, <2>2, <2>3, <2>4, <2>5 DEF TypeOK
<1>2. LinkSums /\ Descends
  BY DEF LinkSums, Descends, Nodes
<1>3. HeadsPlaced /\ OneTask /\ CallsAligned /\ DropsPlaced
  BY DEF HeadsPlaced, OneTask, CallsAligned, DropsPlaced, Versions, Nodes, Base, NoWalk
<1>4. WalkPlaced
  <2>1. walk.its = <<>> /\ walk.op = "none" /\ MaxIterators \in Nat /\ Len(<<>>) = 0
    BY BoundsAssumption DEF NoWalk
  <2> QED
    BY <2>1 DEF WalkPlaced
<1> QED
  BY <1>1, <1>2, <1>3, <1>4 DEF IInv

\* Elements of the sequences that make the graph.
LEMMA GraphTyped ==
    ASSUME TypeOK, NEW n \in Nodes
    PROVE /\ node[n] \in Fixed /\ weight[n] \in Raised /\ refs[n] \in Int
          /\ links[n] \in Seq(Link) /\ \A i \in 1 .. Len(links[n]) : links[n][i] \in Link
          /\ Len(node) \in Nat
<1>1. Len(node) \in Nat
  BY LenProperties DEF TypeOK
<1>2. node[n] \in Fixed
  BY ElementOfSeq DEF TypeOK, Nodes
<1>3. weight[n] \in Raised
  BY ElementOfSeq DEF TypeOK, Nodes
<1>4. refs[n] \in Int
  BY ElementOfSeq DEF TypeOK, Nodes
<1>5. links[n] \in Seq(Link)
  BY ElementOfSeq DEF TypeOK, Nodes
<1> QED
  BY <1>1, <1>2, <1>3, <1>4, <1>5, ElementOfSeq

\* What is said of the graph stays true as long as nodes and links do.
LEMMA SameGraph ==
    ASSUME IInv, UNCHANGED <<node, links>>
    PROVE LinkSums' /\ Descends'
<1>1. /\ ZeroWidthRanked' = ZeroWidthRanked /\ Nodes' = Nodes
      /\ LinkSums /\ Descends
  BY DEF ZeroWidthRanked, Nodes, IInv, Bytes, Cost
<1>2. LinkSums'
  BY <1>1 DEF LinkSums
<1>3. Descends'
  BY <1>1 DEF Descends
<1> QED
  BY <1>2, <1>3

\* push adds a node above the top; its sums agree with its one link by construction, and
\* every older node keeps its links.
LEMMA PushIInv ==
    ASSUME IInv, NEW v \in Versions, NEW t \in Trees, NEW p \in BOOLEAN, NEW s \in State,
           Push(v, t, p, s)
    PROVE IInv'
<1> DEFINE prev == heads[v].node
           above == [state |-> s, pos |-> node[prev].pos + Bytes(t),
                     cost |-> node[prev].cost + Cost(t)]
           link == [node |-> prev, sub |-> t, pending |-> p]
<1>1. prev \in Nodes /\ Len(node) \in Nat \ {0}
  BY DEF IInv, HeadsPlaced, TypeOK
<1>2. /\ node[prev] \in Fixed
      /\ weight[prev] \in Raised
  BY <1>1, GraphTyped DEF IInv
<1>3. /\ node' = Append(node, above) /\ links' = Append(links, <<link>>)
      /\ UNCHANGED <<calls, merged, drops, walk>>
  BY DEF Push
<1>4. above \in Fixed /\ link \in Link
  <2>1. Bytes(t) \in Nat /\ Cost(t) \in Nat
    BY FactsTyped
  <2>2. node[prev].pos + Bytes(t) \in Nat /\ node[prev].cost + Cost(t) \in Nat
    BY <1>2, <2>1 DEF Fixed
  <2>3. prev \in Nat
    BY <1>1 DEF Nodes
  <2> QED
    BY <2>2, <2>3, Zenon DEF Link, Fixed
<1>5. /\ Len(node') = Len(node) + 1 /\ Nodes \subseteq Nodes'
      /\ \A n \in Nodes : node'[n] = node[n] /\ links'[n] = links[n]
      /\ node'[Len(node) + 1] = above /\ links'[Len(node) + 1] = <<link>>
  BY <1>1, <1>3 DEF IInv, TypeOK, Nodes
<1>6. TypeOK'
  <2>1. node' \in Seq(Fixed) /\ Len(node') >= 1
    BY <1>1, <1>3, <1>4 DEF IInv, TypeOK
  <2>2. links' \in Seq(Seq(Link)) /\ Len(links') = Len(node')
    BY <1>3, <1>4, <1>5 DEF IInv, TypeOK
  <2>3. weight' \in Seq(Raised) /\ Len(weight') = Len(node')
    <3>1. Count(t) \in Nat /\ Prec(t) \in Int
      BY FactsTyped
    <3>2. [count |-> weight[prev].count + Count(t), prec |-> weight[prev].prec + Prec(t)]
             \in Raised
      BY <1>2, <3>1 DEF Raised
    <3> QED
      BY <1>5, <3>2 DEF IInv, TypeOK, Push
  <2>4. refs' \in Seq(Int) /\ Len(refs') = Len(node')
    BY <1>5 DEF IInv, TypeOK, Push
  <2>5. heads' \in Seq(Version)
    <3>1. heads[v] \in Version /\ heads \in Seq(Version)
      BY ElementOfSeq DEF IInv, TypeOK, Versions
    <3>2. weight[prev].count \in Nat /\ Len(node) + 1 \in Nat
      BY <1>1, <1>2 DEF Raised
    <3>3. [heads[v] EXCEPT !.node = Len(node) + 1,
             !.atError = IF t = NoTree THEN weight[prev].count ELSE @] \in Version
      BY <3>1, <3>2 DEF Version
    <3>4. heads' = [heads EXCEPT ![v] = [heads[v] EXCEPT !.node = Len(node) + 1,
                      !.atError = IF t = NoTree THEN weight[prev].count ELSE @]]
      BY Zenon DEF Push
    <3> QED
      BY <3>1, <3>3, <3>4, ExceptSeq DEF Versions
  <2> QED
    BY <1>3, <2>1, <2>2, <2>3, <2>4, <2>5 DEF IInv, TypeOK
<1>11. \A i \in 1 .. Len(links'[Len(node) + 1]) : i = 1 /\ links'[Len(node) + 1][i] = link
  <2>1. links'[Len(node) + 1] = <<link>>
    BY <1>5
  <2>2. Len(<<link>>) = 1 /\ <<link>>[1] = link
    OBVIOUS
  <2> HIDE DEF link
  <2> QED
    BY <2>1, <2>2
<1>7. LinkSums'
  <2> SUFFICES ASSUME NEW n \in Nodes', NEW i \in 1 .. Len(links'[n])
               PROVE /\ links'[n][i].node \in Nodes'
                     /\ node'[n].pos = node'[links'[n][i].node].pos + Bytes(links'[n][i].sub)
                     /\ node'[n].cost = node'[links'[n][i].node].cost + Cost(links'[n][i].sub)
    BY DEF LinkSums, Bytes, Cost
  <2>1. CASE n \in Nodes
    <3>1. /\ links'[n][i].node \in Nodes
          /\ node[n].pos = node[links[n][i].node].pos + Bytes(links[n][i].sub)
          /\ node[n].cost = node[links[n][i].node].cost + Cost(links[n][i].sub)
      BY <1>5, <2>1 DEF IInv, LinkSums, Nodes
    <3> QED
      BY <1>5, <2>1, <3>1 DEF Nodes
  <2>2. CASE n = Len(node) + 1
    <3>1. i = 1 /\ links'[n][i] = link /\ prev \in Nodes
      BY <1>1, <1>11, <2>2, Zenon
    <3> QED
      BY <1>5, <2>2, <3>1 DEF Nodes
  <2> QED
    BY <1>1, <1>5, <2>1, <2>2 DEF Nodes
<1>8. Descends'
  <2> SUFFICES ASSUME ZeroWidthRanked, NEW n \in Nodes', NEW i \in 1 .. Len(links'[n])
               PROVE Under(node'[links'[n][i].node], node'[n])
    BY DEF Descends, ZeroWidthRanked, Bytes, Cost, Under
  <2>1. CASE n \in Nodes
    <3>1. links'[n][i].node = links[n][i].node /\ links[n][i].node \in Nodes
      BY <1>5, <2>1 DEF IInv, LinkSums
    <3>2. Under(node[links[n][i].node], node[n])
      BY <1>5, <2>1 DEF IInv, Descends
    <3> QED
      BY <1>5, <2>1, <3>1, <3>2
  <2>2. CASE n = Len(node) + 1
    <3>1. links'[n][i].node = prev /\ node'[prev] = node[prev] /\ node'[n] = above
      <4>1. i = 1 /\ links'[n][i] = link
        BY <1>11, <2>2, Zenon
      <4>2. link.node = prev
        OBVIOUS
      <4> HIDE DEF link, above
      <4> QED
        BY <1>1, <1>5, <2>2, <4>1, <4>2
    <3>2. /\ Bytes(t) \in Nat /\ Cost(t) \in Nat
          /\ node[prev].pos \in Nat /\ node[prev].cost \in Nat
      BY <1>2, FactsTyped DEF Fixed
    <3>3. Bytes(t) + Cost(t) = 0 => Rank[s] < Rank[node[prev].state]
      <4>1. <<node[prev].state, t, s>> \in Moves
        BY DEF Push
      <4> QED
        BY <4>1 DEF ZeroWidthRanked
    <3>5. Under(node[prev], above)
      BY <1>2, <3>2, <3>3, UnderAbove
    <3> QED
      BY <3>1, <3>5
  <2> QED
    BY <1>1, <1>5, <2>1, <2>2 DEF Nodes
<1>9. HeadsPlaced'
  <2>1. /\ heads' = [heads EXCEPT ![v].node = Len(node) + 1,
                                  ![v].atError = IF t = NoTree THEN weight[prev].count ELSE @]
        /\ heads \in Seq(Version)
    BY DEF IInv, TypeOK, Push
  <2>2. Len(heads') = Len(heads) /\ \A w \in Versions : w # v => heads'[w] = heads[w]
    BY <2>1 DEF Versions
  <2>3. heads'[v].node = Len(node) + 1
    BY <2>1, ElementOfSeq DEF Versions, Version
  <2> QED
    BY <1>1, <1>5, <2>2, <2>3 DEF IInv, HeadsPlaced, Versions, Nodes
<1>10. OneTask' /\ CallsAligned' /\ DropsPlaced' /\ WalkPlaced'
  BY DEF IInv, Push, CanCall, Idle, OneTask, CallsAligned, DropsPlaced, WalkPlaced
<1> QED
  BY <1>6, <1>7, <1>8, <1>9, <1>10 DEF IInv
-----------------------------------------------------------------------------
(* Operations on the versions alone.                                       *)

HeadsGood(hs) == hs \in Seq(Version) /\ \A v \in 1 .. Len(hs) : hs[v].node \in Nodes
RefsGood(rs) == rs \in Seq(Int) /\ Len(rs) = Len(node)
DropsGood(ds) == ds \in Seq(Nat) /\ \A k \in 1 .. Len(ds) : ds[k] \in Nodes

\* IInv says this much of the versions.
LEMMA HeadsTyped ==
    ASSUME IInv
    PROVE /\ HeadsGood(heads) /\ RefsGood(refs) /\ DropsGood(drops) /\ Len(heads) \in Nat
          /\ \A v \in Versions : heads[v] \in Version /\ heads[v].node \in Nodes
          /\ Nodes \subseteq Nat
<1>1. heads \in Seq(Version) /\ refs \in Seq(Int) /\ Len(refs) = Len(node) /\ drops \in Seq(Nat)
  BY DEF IInv, TypeOK
<1>2. Len(heads) \in Nat /\ \A v \in Versions : heads[v] \in Version
  BY <1>1, LenProperties, ElementOfSeq DEF Versions
<1>3. /\ \A v \in Versions : heads[v].node \in Nodes
      /\ \A k \in 1 .. Len(drops) : drops[k] \in Nodes
  BY DEF IInv, HeadsPlaced, DropsPlaced
<1>4. Nodes \subseteq Nat
  BY DEF Nodes
<1> QED
  BY <1>1, <1>2, <1>3, <1>4 DEF HeadsGood, RefsGood, DropsGood, Versions

\* Changing one head, taking one away and adding one.
LEMMA OneHead ==
    ASSUME NEW hs, HeadsGood(hs), NEW v \in 1 .. Len(hs), NEW h \in Version, h.node \in Nodes
    PROVE HeadsGood([hs EXCEPT ![v] = h]) /\ Len([hs EXCEPT ![v] = h]) = Len(hs)
BY ExceptSeq DEF HeadsGood

\* Taking a version out of the list leaves the others on nodes.
LEMMA LessHead ==
    ASSUME NEW hs, HeadsGood(hs), NEW v \in 1 .. Len(hs)
    PROVE HeadsGood(Without(hs, v))
<1>1. /\ Without(hs, v) \in Seq(Version) /\ Len(Without(hs, v)) = Len(hs) - 1
      /\ \A j \in 1 .. Len(hs) - 1 : Without(hs, v)[j] = IF j < v THEN hs[j] ELSE hs[j + 1]
  BY WithoutProperties DEF HeadsGood
<1>2. Len(hs) \in Nat
  BY LenProperties DEF HeadsGood
<1>3. ASSUME NEW j \in 1 .. Len(hs) - 1
      PROVE Without(hs, v)[j].node \in Nodes
  <2>1. j \in 1 .. Len(hs) /\ j + 1 \in 1 .. Len(hs)
    BY <1>2
  <2> QED
    BY <1>1, <2>1 DEF HeadsGood
<1> QED
  BY <1>1, <1>3 DEF HeadsGood

\* So does adding one that is on a node,
LEMMA MoreHead ==
    ASSUME NEW hs, HeadsGood(hs), NEW h \in Version, h.node \in Nodes
    PROVE HeadsGood(Append(hs, h)) /\ Len(Append(hs, h)) = Len(hs) + 1
<1>1. /\ Append(hs, h) \in Seq(Version) /\ Len(Append(hs, h)) = Len(hs) + 1
      /\ \A j \in 1 .. Len(hs) : Append(hs, h)[j] = hs[j]
      /\ Append(hs, h)[Len(hs) + 1] = h
  BY AppendProperties DEF HeadsGood
<1>2. Len(hs) \in Nat
  BY LenProperties DEF HeadsGood
<1> QED
  BY <1>1, <1>2 DEF HeadsGood

\* and letting one take the place of another, as renumberVersion does.
LEMMA RenumberedHeads ==
    ASSUME NEW hs, HeadsGood(hs), NEW v \in 1 .. Len(hs), NEW w \in 1 .. Len(hs)
    PROVE HeadsGood(Renumbered(hs, v, w))
<1> DEFINE h == [hs[v] EXCEPT !.summary = IF @ = <<>> THEN hs[w].summary ELSE @]
<1>1. hs[v] \in Version /\ hs[w] \in Version /\ hs[v].node \in Nodes
  BY ElementOfSeq DEF HeadsGood
<1>2. h \in Version /\ h.node = hs[v].node
  BY <1>1 DEF Version
<1>3. HeadsGood([hs EXCEPT ![w] = h]) /\ Len([hs EXCEPT ![w] = h]) = Len(hs)
  <2> HIDE DEF h
  <2> QED
    BY <1>1, <1>2, OneHead
<1> QED
  BY <1>3, LessHead DEF Renumbered

\* A step of an idle stack that leaves the graph alone.
LEMMA VersionsIInv ==
    ASSUME IInv, Idle, UNCHANGED <<graph, calls, merged, walk>>,
           HeadsGood(heads'), RefsGood(refs'), DropsGood(drops')
    PROVE IInv'
<1>1. TypeOK' /\ LinkSums' /\ Descends'
  BY DEF IInv, TypeOK, LinkSums, Descends, graph, HeadsGood, RefsGood, DropsGood, Nodes,
         Bytes, Cost, ZeroWidthRanked, Under
<1>2. HeadsPlaced' /\ DropsPlaced'
  BY DEF HeadsPlaced, DropsPlaced, HeadsGood, DropsGood, Versions, Nodes, graph
<1>3. OneTask' /\ CallsAligned' /\ WalkPlaced'
  BY DEF Idle, OneTask, CallsAligned, WalkPlaced, TypeOK, IInv
<1> QED
  BY <1>1, <1>2, <1>3 DEF IInv

\* The heads set a field of which does not change where it stands.
LEMMA FieldsIInv ==
    ASSUME IInv, NEW v \in Versions,
           \/ Halt(v) \/ Pause(v) \/ Resume(v) \/ NodeCountSinceError(v)
           \/ \E t \in Token : SetLastExternalToken(v, t)
    PROVE IInv'
<1>1. heads[v] \in Version /\ heads[v].node \in Nodes /\ HeadsGood(heads)
  BY HeadsTyped
<1>2. weight[heads[v].node].count \in Nat
  BY <1>1, GraphTyped DEF IInv, Raised
<1>3. \E h \in Version : h.node = heads[v].node /\ heads' = [heads EXCEPT ![v] = h]
  <2>1. CASE Halt(v)
    <3>1. [heads[v] EXCEPT !.status = "halted"] \in Version
      BY <1>1 DEF Version
    <3> QED
      BY <1>1, <2>1, <3>1 DEF Halt, Version
  <2>2. CASE Pause(v)
    <3>1. [heads[v] EXCEPT !.status = "paused", !.atError = weight[heads[v].node].count]
            \in Version
      BY <1>1, <1>2 DEF Version
    <3> QED
      BY <1>1, <2>2, <3>1 DEF Pause, Version
  <2>3. CASE Resume(v)
    <3>1. [heads[v] EXCEPT !.status = "active"] \in Version
      BY <1>1 DEF Version
    <3> QED
      BY <1>1, <2>3, <3>1 DEF Resume, Version
  <2>4. CASE NodeCountSinceError(v)
    <3>1. [heads[v] EXCEPT !.atError = weight[heads[v].node].count] \in Version
      BY <1>1, <1>2 DEF Version
    <3> QED
      BY <1>1, <2>4, <3>1 DEF NodeCountSinceError, Version
  <2>5. ASSUME NEW t \in Token, SetLastExternalToken(v, t)
        PROVE \E h \in Version : h.node = heads[v].node /\ heads' = [heads EXCEPT ![v] = h]
    <3>1. [heads[v] EXCEPT !.token = t] \in Version
      BY <1>1 DEF Version
    <3> QED
      BY <1>1, <2>5, <3>1 DEF SetLastExternalToken, Version
  <2> QED
    BY <2>1, <2>2, <2>3, <2>4, <2>5
<1>4. HeadsGood(heads')
  <2>1. PICK h \in Version : h.node = heads[v].node /\ heads' = [heads EXCEPT ![v] = h]
    BY <1>3
  <2>2. HeadsGood([heads EXCEPT ![v] = h])
    BY <1>1, <2>1, OneHead DEF Versions
  <2> QED
    BY <2>1, <2>2
<1>5. Idle /\ UNCHANGED <<graph, refs, calls, merged, drops, walk>>
  BY DEF Halt, Pause, Resume, NodeCountSinceError, SetLastExternalToken, CanCall
<1> QED
  BY <1>4, <1>5, HeadsTyped, VersionsIInv

\* removeVersion touches the list of versions, and leaves its node to be released.
LEMMA RemoveIInv ==
    ASSUME IInv, NEW v \in Versions, RemoveVersion(v)
    PROVE IInv'
<1>1. HeadsGood(Without(heads, v))
  BY HeadsTyped, LessHead DEF Versions
<1>2. DropsGood(<<heads[v].node>>)
  BY HeadsTyped DEF DropsGood
<1> QED
  BY <1>1, <1>2, HeadsTyped, VersionsIInv DEF RemoveVersion, CanCall

\* renumberVersion leaves the node of the version it overwrites to be released.
LEMMA RenumberIInv ==
    ASSUME IInv, NEW v \in Versions, NEW w \in Versions, RenumberVersion(v, w)
    PROVE IInv'
<1>1. HeadsGood(Renumbered(heads, v, w))
  BY HeadsTyped, RenumberedHeads DEF Versions
<1>2. DropsGood(<<heads[w].node>>)
  BY HeadsTyped DEF DropsGood
<1> QED
  BY <1>1, <1>2, HeadsTyped, VersionsIInv DEF RenumberVersion, CanCall

\* swapVersions only exchanges two versions.
LEMMA SwapIInv ==
    ASSUME IInv, NEW v \in Versions, NEW w \in Versions, SwapVersions(v, w)
    PROVE IInv'
<1>1. HeadsGood([heads EXCEPT ![v] = heads[w]]) /\ Len([heads EXCEPT ![v] = heads[w]]) = Len(heads)
  BY HeadsTyped, OneHead DEF Versions
<1>2. HeadsGood([[heads EXCEPT ![v] = heads[w]] EXCEPT ![w] = heads[v]])
  BY <1>1, HeadsTyped, OneHead DEF Versions
<1>3. heads' = [[heads EXCEPT ![v] = heads[w]] EXCEPT ![w] = heads[v]]
  BY DEF SwapVersions
<1> QED
  BY <1>2, <1>3, HeadsTyped, VersionsIInv DEF SwapVersions, CanCall

\* copyVersion adds a version on a node that is there.
LEMMA CopyIInv ==
    ASSUME IInv, NEW v \in Versions, CopyVersion(v)
    PROVE IInv'
<1>1. [heads[v] EXCEPT !.summary = <<>>] \in Version
  <2>1. heads[v] \in Version /\ <<>> \in Seq(Entry)
    BY HeadsTyped
  <2> QED
    BY <2>1 DEF Version
<1>2. [heads[v] EXCEPT !.summary = <<>>].node = heads[v].node
  BY HeadsTyped DEF Version
<1>3. HeadsGood(Append(heads, [heads[v] EXCEPT !.summary = <<>>]))
  BY <1>1, <1>2, HeadsTyped, MoreHead
<1>4. RefsGood(refs')
  BY HeadsTyped, GraphTyped, ExceptSeq DEF CopyVersion, RefsGood, Nodes, IInv
<1> QED
  BY <1>3, <1>4, HeadsTyped, VersionsIInv DEF CopyVersion, CanCall

\* clear leaves one version, on the base node, and the nodes of the others to be released.
LEMMA ClearIInv ==
    ASSUME IInv, Clear
    PROVE IInv'
<1>1. Base \in Nodes /\ Len(node) \in Nat
  BY LenProperties DEF IInv, TypeOK, Base, Nodes
<1>2. [node |-> Base, status |-> "active", atError |-> 0, token |-> NoToken,
       summary |-> <<>>] \in Version
  BY NilAssumption DEF Version, Base
<1>3. HeadsGood(heads')
  BY <1>1, <1>2 DEF HeadsGood, Clear
<1>4. RefsGood(refs')
  <2>1. refs[Base] \in Int
    BY <1>1, GraphTyped DEF IInv
  <2> QED
    BY <1>1, <2>1, HeadsTyped, ExceptSeq DEF RefsGood, Clear, Nodes
<1>5. DropsGood(drops')
  <2> DEFINE n == Len(heads)
  <2>1. n \in Nat /\ \A i \in 1 .. n : heads[n + 1 - i].node \in Nodes
    BY HeadsTyped DEF Versions
  <2>2. \A i \in 1 .. n : heads[n + 1 - i].node \in Nat
    BY <2>1, HeadsTyped
  <2>3. drops' = [i \in 1 .. n |-> heads[n + 1 - i].node]
    BY DEF Clear
  <2> HIDE DEF n
  <2>4. drops' \in Seq(Nat) /\ Len(drops') = n
    BY <2>1, <2>2, <2>3, IsASeq
  <2> QED
    BY <2>1, <2>3, <2>4 DEF DropsGood
<1> QED
  BY <1>3, <1>4, <1>5, VersionsIInv DEF Clear, CanCall

\* stackNodeRelease counts down and goes on to nodes that links lead to, which are nodes.
LEMMA ReleaseIInv ==
    ASSUME IInv, ReleaseStep
    PROVE IInv'
<1> DEFINE n == drops[Len(drops)]
           rest == SubSeq(drops, 1, Len(drops) - 1)
<1>1. Len(drops) \in Nat \ {0} /\ n \in Nodes
  BY HeadsTyped, LenProperties, EmptySeq DEF ReleaseStep, DropsGood
<1>2. DropsGood(rest)
  BY <1>1, HeadsTyped, SubSeqProperties DEF DropsGood
<1>3. DropsGood(Targets(n))
  <2>1. Len(links[n]) \in Nat /\ \A i \in 1 .. Len(links[n]) : links[n][i].node \in Nodes
    BY <1>1, GraphTyped, LenProperties DEF IInv, LinkSums
  <2>2. \A i \in 1 .. Len(links[n]) : links[n][i].node \in Nat
    BY <2>1, HeadsTyped
  <2> HIDE DEF n
  <2>3. Targets(n) \in Seq(Nat) /\ Len(Targets(n)) = Len(links[n])
    BY <2>1, <2>2, IsASeq DEF Targets
  <2> QED
    BY <2>1, <2>3 DEF DropsGood, Targets
<1>4. DropsGood(rest \o Targets(n))
  <2> HIDE DEF n, rest
  <2>1. /\ rest \o Targets(n) \in Seq(Nat)
        /\ Len(rest \o Targets(n)) = Len(rest) + Len(Targets(n))
        /\ \A k \in 1 .. Len(rest) + Len(Targets(n)) :
              (rest \o Targets(n))[k] = IF k <= Len(rest) THEN rest[k]
                                        ELSE Targets(n)[k - Len(rest)]
    BY <1>2, <1>3, ConcatProperties DEF DropsGood
  <2>2. Len(rest) \in Nat /\ Len(Targets(n)) \in Nat
    BY <1>2, <1>3, LenProperties DEF DropsGood
  <2> QED
    BY <1>2, <1>3, <2>1, <2>2 DEF DropsGood
<1>5. DropsGood(drops')
  BY <1>2, <1>4 DEF ReleaseStep
<1>6. RefsGood(refs')
  BY <1>1, HeadsTyped, GraphTyped, ExceptSeq DEF ReleaseStep, RefsGood, Nodes, IInv
<1>7. TypeOK'
  BY <1>5, <1>6 DEF ReleaseStep, IInv, TypeOK, RefsGood, DropsGood, graph
<1>8. LinkSums' /\ Descends'
  BY SameGraph DEF ReleaseStep, graph
<1>9. DropsPlaced' /\ HeadsPlaced'
  BY <1>5 DEF ReleaseStep, IInv, DropsPlaced, HeadsPlaced, DropsGood, graph, Nodes, Versions
<1>10. OneTask' /\ CallsAligned' /\ WalkPlaced'
  BY DEF ReleaseStep, IInv, OneTask, CallsAligned, WalkPlaced, graph, Nodes, Versions
<1> QED
  BY <1>7, <1>8, <1>9, <1>10 DEF IInv
-----------------------------------------------------------------------------
(* Merging.                                                                *)

FrameGood(f) == /\ f \in Frame /\ f.self \in Nodes /\ f.from \in Nodes
                /\ node[f.self] = node[f.from] /\ f.next >= 1
CallsGood(cs) ==
    /\ cs \in Seq(Frame)
    /\ \A k \in 1 .. Len(cs) :
          FrameGood(cs[k]) /\ (k < Len(cs) => cs[k].next <= Len(links[cs[k].from]))

\* IInv says this much of the calls.
LEMMA CallsTyped ==
    ASSUME IInv
    PROVE /\ CallsGood(calls) /\ Len(calls) \in Nat
          /\ calls # <<>> => Len(calls) \in Nat \ {0} /\ FrameGood(Top)
<1>1. CallsGood(calls)
  <2>1. calls \in Seq(Frame)
    BY DEF IInv, TypeOK
  <2>2. \A k \in 1 .. Len(calls) : calls[k] \in Frame
    BY <2>1, ElementOfSeq
  <2> QED
    BY <2>1, <2>2 DEF IInv, CallsAligned, CallsGood, FrameGood
<1>2. Len(calls) \in Nat /\ (calls # <<>> => Len(calls) \in Nat \ {0})
  BY LenProperties, EmptySeq DEF IInv, TypeOK
<1>3. calls # <<>> => FrameGood(Top)
  BY <1>1, <1>2 DEF CallsGood, Top
<1> QED
  BY <1>1, <1>2, <1>3

\* A loop of stackNodeAddLink goes on to its next link.
LEMMA NextFrame ==
    ASSUME NEW cs, CallsGood(cs), cs # <<>>
    PROVE CallsGood([cs EXCEPT ![Len(cs)].next = @ + 1])
<1> DEFINE n == Len(cs)  f == [cs[n] EXCEPT !.next = @ + 1]
<1>1. n \in Nat \ {0} /\ cs \in Seq(Frame)
  BY LenProperties, EmptySeq DEF CallsGood
<1>2. FrameGood(cs[n])
  BY <1>1 DEF CallsGood
<1>3. FrameGood(f)
  BY <1>2 DEF FrameGood, Frame
<1>4. /\ [cs EXCEPT ![n] = f] \in Seq(Frame) /\ Len([cs EXCEPT ![n] = f]) = n
      /\ \A j \in 1 .. n : [cs EXCEPT ![n] = f][j] = IF j = n THEN f ELSE cs[j]
  <2> HIDE DEF f
  <2> QED
    BY <1>1, <1>3, ExceptSeq DEF FrameGood
<1>5. [cs EXCEPT ![n].next = @ + 1] = [cs EXCEPT ![n] = f]
  OBVIOUS
<1>6. CallsGood([cs EXCEPT ![n] = f])
  <2> HIDE DEF f
  <2>1. n = Len(cs)
    OBVIOUS
  <2> HIDE DEF n
  <2> DEFINE ds == [cs EXCEPT ![n] = f]
  <2>2. ds \in Seq(Frame) /\ Len(ds) = n
        /\ \A j \in 1 .. n : ds[j] = IF j = n THEN f ELSE cs[j]
    BY <1>4
  <2> HIDE DEF ds
  <2>3. ASSUME NEW k \in 1 .. n
        PROVE FrameGood(ds[k]) /\ (k < n => ds[k].next <= Len(links[ds[k].from]))
    <3>1. CASE k = n
      BY <1>1, <1>3, <2>2, <3>1
    <3>2. CASE k # n
      BY <1>1, <2>1, <2>2, <3>2 DEF CallsGood
    <3> QED
      BY <3>1, <3>2
  <2>4. CallsGood(ds)
    BY <2>2, <2>3 DEF CallsGood
  <2> QED
    BY <2>4 DEF ds
<1> QED
  BY <1>5, <1>6

\* A running merge that changes nothing but its calls and what nodes have accumulated.
LEMMA CallsIInv ==
    ASSUME IInv, calls # <<>>, UNCHANGED <<node, links, heads, merged, drops, walk>>,
           weight' \in Seq(Raised), Len(weight') = Len(node), RefsGood(refs'),
           CallsGood(calls')
    PROVE IInv'
<1>1. TypeOK'
  BY DEF IInv, TypeOK, RefsGood, CallsGood
<1>2. LinkSums' /\ Descends'
  BY SameGraph
<1>3. HeadsPlaced' /\ DropsPlaced' /\ OneTask' /\ WalkPlaced'
  BY DEF IInv, HeadsPlaced, DropsPlaced, OneTask, WalkPlaced, Nodes, Versions
<1>4. CallsAligned'
  BY DEF IInv, CallsAligned, CallsGood, FrameGood, Nodes, Versions
<1> QED
  BY <1>1, <1>2, <1>3, <1>4 DEF IInv

\* The link stackNodeAddLink is given, and what LinkSums and Descends say of it.
LEMMA GivenTyped ==
    ASSUME IInv, calls # <<>>, InLoop
    PROVE /\ Top.self \in Nodes /\ Top.from \in Nodes /\ node[Top.self] = node[Top.from]
          /\ Given \in Link /\ Given.node \in Nodes /\ Given.sub \in Trees
          /\ node[Top.self].pos = node[Given.node].pos + Bytes(Given.sub)
          /\ node[Top.self].cost = node[Given.node].cost + Cost(Given.sub)
          /\ ZeroWidthRanked => Under(node[Given.node], node[Top.self])
          /\ Top.next \in 1 .. Len(links[Top.from])
<1>1. FrameGood(Top)
  BY CallsTyped
<1>2. Top.next \in 1 .. Len(links[Top.from])
  <2>1. Len(links[Top.from]) \in Nat
    BY <1>1, GraphTyped, LenProperties DEF FrameGood, IInv
  <2> QED
    BY <1>1, <2>1 DEF FrameGood, Frame, InLoop
<1>3. Given \in Link
  BY <1>1, <1>2, GraphTyped DEF FrameGood, Given, IInv
<1>4. Given.sub \in Trees
  BY <1>3 DEF Link
<1>5. /\ Given.node \in Nodes
      /\ node[Top.from].pos = node[Given.node].pos + Bytes(Given.sub)
      /\ node[Top.from].cost = node[Given.node].cost + Cost(Given.sub)
  BY <1>1, <1>2 DEF FrameGood, IInv, LinkSums, Given
<1>6. ZeroWidthRanked => Under(node[Given.node], node[Top.from])
  BY <1>1, <1>2 DEF FrameGood, IInv, Descends, Given
<1> QED
  BY <1>1, <1>2, <1>3, <1>4, <1>5, <1>6 DEF FrameGood

\* merge starts stackNodeAddLink between two nodes that canMerge found aligned.
LEMMA MergeIInv ==
    ASSUME IInv, NEW v \in Versions, NEW w \in Versions, Merge(v, w)
    PROVE IInv'
<1> DEFINE f == [self |-> heads[v].node, from |-> heads[w].node, next |-> 1]
<1>1. FrameGood(f)
  BY HeadsTyped DEF FrameGood, Frame, Merge, CanMerge
<1>2. CallsGood(<<f>>)
  <2> HIDE DEF f
  <2> QED
    BY <1>1 DEF CallsGood, FrameGood
<1>3. calls' = <<f>> /\ merged' = <<v, w>>
  BY DEF Merge
<1>4. v \in Nat /\ w \in Nat
  BY HeadsTyped DEF Versions
<1>5. TypeOK'
  BY <1>2, <1>3, <1>4 DEF Merge, IInv, TypeOK, CallsGood, graph
<1>6. CallsAligned'
  BY <1>2, <1>3 DEF CallsAligned, CallsGood, FrameGood, Merge, graph, Nodes, Versions
<1>7. LinkSums' /\ Descends' /\ HeadsPlaced' /\ DropsPlaced' /\ WalkPlaced'
  BY DEF Merge, IInv, LinkSums, Descends, HeadsPlaced, DropsPlaced, WalkPlaced, graph,
         Nodes, Versions, Bytes, Cost, ZeroWidthRanked, Under
<1>8. OneTask'
  BY DEF Merge, CanCall, Idle, OneTask
<1> QED
  BY <1>5, <1>6, <1>7, <1>8 DEF IInv

\* A link of a node to itself is passed over.
LEMMA LinkToSelfIInv ==
    ASSUME IInv, calls # <<>>, LinkToSelf
    PROVE IInv'
<1>1. CallsGood(calls')
  BY CallsTyped, NextFrame DEF LinkToSelf, NextLink
<1>2. weight' \in Seq(Raised) /\ Len(weight') = Len(node) /\ RefsGood(refs')
  BY HeadsTyped DEF LinkToSelf, graph, IInv, TypeOK
<1> QED
  BY <1>1, <1>2, CallsIInv DEF LinkToSelf, graph

\* The recursive call is again between two nodes of one state, position and error cost: the
\* search of stackNodeAddLink compared them.
LEMMA LinkToLikeNodeIInv ==
    ASSUME IInv, calls # <<>>, NEW i \in 1 .. Len(links[Top.self]), LinkToLikeNode(i)
    PROVE IInv'
<1> DEFINE f == [self |-> links[Top.self][i].node, from |-> Given.node, next |-> 1]
<1>1. InLoop /\ CallsGood(calls) /\ Len(calls) \in Nat \ {0}
  BY CallsTyped DEF LinkToLikeNode
<1>2. FrameGood(f)
  <2>1. Top.self \in Nodes /\ Given.node \in Nodes
    BY <1>1, GivenTyped
  <2>2. links[Top.self][i].node \in Nodes
    BY <2>1 DEF IInv, LinkSums
  <2>3. node[links[Top.self][i].node] = node[Given.node]
    BY DEF LinkToLikeNode, FirstAbsorbing, Absorbs
  <2> QED
    BY <2>1, <2>2, <2>3, HeadsTyped DEF FrameGood, Frame
<1>3. CallsGood(calls')
  <2>1. calls' = Append(calls, f)
    BY DEF LinkToLikeNode
  <2> HIDE DEF f
  <2>2. /\ calls' \in Seq(Frame) /\ Len(calls') = Len(calls) + 1
        /\ \A k \in 1 .. Len(calls) : calls'[k] = calls[k]
        /\ calls'[Len(calls) + 1] = f
    BY <1>1, <1>2, <2>1, AppendProperties DEF CallsGood, FrameGood
  <2>3. calls[Len(calls)].next <= Len(links[calls[Len(calls)].from])
    BY <1>1 DEF InLoop, Top
  <2> QED
    BY <1>1, <1>2, <2>2, <2>3 DEF CallsGood
<1>4. weight' \in Seq(Raised) /\ Len(weight') = Len(node) /\ RefsGood(refs')
  BY HeadsTyped DEF LinkToLikeNode, graph, IInv, TypeOK
<1> QED
  BY <1>3, <1>4, CallsIInv DEF LinkToLikeNode, graph

\* Back from a recursive call only a precedence may rise.
LEMMA LikeNodeDoneIInv ==
    ASSUME IInv, LikeNodeDone
    PROVE IInv'
<1> DEFINE n == Len(Below)  up == Below[n]
<1>1. CallsGood(calls) /\ Len(calls) \in Nat /\ Len(calls) > 1
  BY CallsTyped DEF LikeNodeDone
<1>2. /\ Below \in Seq(Frame) /\ n = Len(calls) - 1
      /\ \A k \in 1 .. n : Below[k] = calls[k]
  BY <1>1, SubSeqProperties, ElementOfSeq DEF CallsGood, Below
<1>3. CallsGood(Below) /\ Below # <<>>
  BY <1>1, <1>2 DEF CallsGood
<1>4. CallsGood(calls')
  BY <1>3, NextFrame DEF LikeNodeDone
<1>5. FrameGood(up) /\ up.next \in 1 .. Len(links[up.from])
  <2>1. up = calls[n] /\ n \in 1 .. Len(calls) /\ n < Len(calls)
    BY <1>1, <1>2
  <2>2. FrameGood(up) /\ up.next <= Len(links[up.from])
    BY <1>1, <2>1 DEF CallsGood
  <2>3. Len(links[up.from]) \in Nat
    BY <2>2, GraphTyped, LenProperties DEF FrameGood, IInv
  <2> HIDE DEF up
  <2> QED
    BY <2>2, <2>3 DEF FrameGood, Frame
<1>6. weight' \in Seq(Raised) /\ Len(weight') = Len(node)
  <2> DEFINE given == links[up.from][up.next]
             w == AtLeast(weight[up.self].prec, weight[given.node].prec + Prec(given.sub))
  <2>1. given \in Link /\ given.node \in Nodes /\ up.self \in Nodes
    BY <1>5, GraphTyped DEF FrameGood, IInv, LinkSums
  <2>2. given.sub \in Trees
    BY <2>1 DEF Link
  <2>3. weight[up.self] \in Raised /\ weight[given.node] \in Raised /\ Prec(given.sub) \in Int
    BY <2>1, <2>2, GraphTyped, FactsTyped DEF IInv
  <2>4. w \in Int
    BY <2>3 DEF AtLeast, Raised
  <2>5. [weight[up.self] EXCEPT !.prec = w] \in Raised
    <3> HIDE DEF w, up
    <3> QED
      BY <2>3, <2>4 DEF Raised
  <2>6. weight' = [weight EXCEPT ![up.self] = [weight[up.self] EXCEPT !.prec = w]]
    BY DEF LikeNodeDone
  <2> HIDE DEF w, up
  <2> QED
    BY <2>1, <2>5, <2>6, ExceptSeq DEF IInv, TypeOK, Nodes
<1>7. calls # <<>> /\ RefsGood(refs')
  BY <1>1, HeadsTyped DEF LikeNodeDone
<1> QED
  BY <1>4, <1>6, <1>7, CallsIInv DEF LikeNodeDone

\* The end of merge removes the second version, whose node is then released.
LEMMA MergeDoneIInv ==
    ASSUME IInv, MergeDone
    PROVE IInv'
<1> DEFINE v == merged[1]  w == merged[2]  top == heads[v].node
           hs == IF node[top].state = ErrorState
                 THEN [heads EXCEPT ![v].atError = weight[top].count] ELSE heads
<1>1. calls # <<>> /\ drops = <<>> /\ walk.op = "none"
  <2>1. calls # <<>>
    BY EmptySeq DEF MergeDone
  <2> QED
    BY <2>1 DEF IInv, OneTask
<1>2. v \in Versions /\ w \in Versions
  BY <1>1 DEF IInv, CallsAligned
<1>3. HeadsGood(hs) /\ Len(hs) = Len(heads)
  <2>1. heads[v] \in Version /\ top \in Nodes
    BY <1>2, HeadsTyped
  <2>2. weight[top].count \in Nat
    BY <2>1, GraphTyped DEF IInv, Raised
  <2>3. /\ [heads[v] EXCEPT !.atError = weight[top].count] \in Version
        /\ [heads[v] EXCEPT !.atError = weight[top].count].node = top
    BY <2>1, <2>2 DEF Version
  <2>4. /\ HeadsGood([heads EXCEPT ![v] = [heads[v] EXCEPT !.atError = weight[top].count]])
        /\ Len([heads EXCEPT ![v] = [heads[v] EXCEPT !.atError = weight[top].count]])
             = Len(heads)
    BY <1>2, <2>1, <2>3, HeadsTyped, OneHead DEF Versions
  <2>5. [heads EXCEPT ![v].atError = weight[top].count]
          = [heads EXCEPT ![v] = [heads[v] EXCEPT !.atError = weight[top].count]]
    OBVIOUS
  <2> QED
    BY <2>4, <2>5, HeadsTyped
<1>4. heads' = Without(hs, w) /\ drops' = <<heads[w].node>>
  BY DEF MergeDone
<1>5. HeadsGood(heads')
  <2> HIDE DEF hs
  <2> QED
    BY <1>2, <1>3, <1>4, LessHead DEF Versions
<1>6. DropsGood(drops')
  BY <1>2, <1>4, HeadsTyped DEF DropsGood
<1>7. TypeOK'
  <2>1. calls' \in Seq(Frame) /\ merged' \in Nat \X Nat
    BY DEF MergeDone
  <2> QED
    BY <1>5, <1>6, <2>1 DEF MergeDone, IInv, TypeOK, HeadsGood, DropsGood, graph
<1>8. LinkSums' /\ Descends'
  BY SameGraph DEF MergeDone, graph
<1>9. HeadsPlaced' /\ DropsPlaced'
  BY <1>5, <1>6 DEF MergeDone, HeadsPlaced, DropsPlaced, HeadsGood, DropsGood, graph,
                    Nodes, Versions
<1>10. OneTask' /\ WalkPlaced'
  BY <1>1 DEF IInv, MergeDone, OneTask, WalkPlaced
<1>11. CallsAligned'
  BY DEF MergeDone, CallsAligned
<1> QED
  BY <1>7, <1>8, <1>9, <1>10, <1>11 DEF IInv

LinkGood(n, l) == /\ l.node \in Nodes
                  /\ node[n].pos = node[l.node].pos + Bytes(l.sub)
                  /\ node[n].cost = node[l.node].cost + Cost(l.sub)
                  /\ ZeroWidthRanked => Under(node[l.node], node[n])

\* Every link in the graph adds up to its node and goes down: what the lemmas below ask of
\* the links that a node is given.
LEMMA LinksGood ==
    ASSUME IInv, NEW n \in Nodes, NEW i \in 1 .. Len(links[n])
    PROVE LinkGood(n, links[n][i])
BY DEF LinkGood, IInv, LinkSums, Descends

\* A running merge that changes the links of one node, none of them away.
LEMMA LinksIInv ==
    ASSUME IInv, calls # <<>>, UNCHANGED <<node, heads, merged, drops, walk>>,
           NEW self \in Nodes, NEW ls \in Seq(Link), Len(ls) >= Len(links[self]),
           \A i \in 1 .. Len(ls) : LinkGood(self, ls[i]),
           links' = [links EXCEPT ![self] = ls],
           weight' \in Seq(Raised), Len(weight') = Len(node), RefsGood(refs'),
           CallsGood(calls')
    PROVE IInv'
<1>1. /\ links' \in Seq(Seq(Link)) /\ Len(links') = Len(node)
      /\ \A n \in Nodes : links'[n] = IF n = self THEN ls ELSE links[n]
  <2>1. links \in Seq(Seq(Link)) /\ Len(links) = Len(node) /\ self \in 1 .. Len(links)
    BY DEF IInv, TypeOK, Nodes
  <2>2. links' = [links EXCEPT ![self] = ls]
    OBVIOUS
  <2> HIDE DEF IInv
  <2> QED
    BY <2>1, <2>2, ExceptSeq DEF Nodes
<1>2. TypeOK'
  BY <1>1 DEF IInv, TypeOK, RefsGood, CallsGood
<1>3. \A n \in Nodes : \A i \in 1 .. Len(links'[n]) : LinkGood(n, links'[n][i])
  BY <1>1, LinksGood
<1>4. LinkSums'
  BY <1>3 DEF LinkSums, LinkGood, Nodes, Bytes, Cost
<1>5. Descends'
  <2>1. ASSUME ZeroWidthRanked, NEW n \in Nodes, NEW i \in 1 .. Len(links'[n])
        PROVE Under(node[links'[n][i].node], node[n])
    BY <1>3, <2>1 DEF LinkGood
  <2>2. ZeroWidthRanked' = ZeroWidthRanked
    BY DEF ZeroWidthRanked, Bytes, Cost
  <2>3. Nodes' = Nodes
    BY DEF Nodes
  <2> HIDE DEF IInv, Nodes
  <2> QED
    BY <2>1, <2>2, <2>3 DEF Descends
<1>6. HeadsPlaced' /\ DropsPlaced' /\ OneTask' /\ WalkPlaced'
  BY DEF IInv, HeadsPlaced, DropsPlaced, OneTask, WalkPlaced, Nodes, Versions
<1>7. \A n \in Nodes : Len(links[n]) <= Len(links'[n])
  BY <1>1, GraphTyped, LenProperties DEF IInv
<1>8. CallsAligned'
  <2>1. \A k \in 1 .. Len(calls') : FrameGood(calls'[k])
    BY DEF CallsGood
  <2>2. ASSUME NEW k \in 1 .. Len(calls'), k < Len(calls')
        PROVE calls'[k].next <= Len(links'[calls'[k].from])
    <3>1. calls'[k].next <= Len(links[calls'[k].from])
      BY <2>2 DEF CallsGood
    <3>2. calls'[k].from \in Nodes /\ calls'[k].next \in Nat
      BY <2>1 DEF FrameGood, Frame
    <3> QED
      BY <1>1, <1>7, <3>1, <3>2, GraphTyped, LenProperties DEF IInv
  <2> QED
    BY <2>1, <2>2 DEF IInv, CallsAligned, FrameGood, Nodes, Versions
<1> QED
  BY <1>2, <1>4, <1>5, <1>6, <1>8 DEF IInv

\* An equivalent subtree that takes the place of another has its width and error cost, so
\* the sums of the node still agree.
LEMMA LinkToSameNodeIInv ==
    ASSUME IInv, calls # <<>>, NEW i \in 1 .. Len(links[Top.self]), LinkToSameNode(i)
    PROVE IInv'
<1> DEFINE self == Top.self  old == links[self][i]
           new == [old EXCEPT !.sub = Given.sub]
           ls == [links[self] EXCEPT ![i] = new]
           prec == weight[Given.node].prec + Prec(Given.sub)
           raised == [weight[self] EXCEPT !.prec = prec]
<1>1. InLoop /\ CallsGood(calls')
  BY CallsTyped, NextFrame DEF LinkToSameNode, NextLink
<1>2. /\ self \in Nodes /\ Given.node \in Nodes /\ Given.sub \in Trees
      /\ LinkGood(self, Given)
  BY <1>1, GivenTyped DEF LinkGood
<1>3. CASE ~(Prec(Given.sub) > Prec(old.sub))
  <2>1. UNCHANGED <<links, weight>>
    BY <1>3 DEF LinkToSameNode
  <2>2. weight' \in Seq(Raised) /\ Len(weight') = Len(node) /\ RefsGood(refs')
    BY <2>1, HeadsTyped DEF LinkToSameNode, IInv, TypeOK
  <2> QED
    BY <1>1, <2>1, <2>2, CallsIInv DEF LinkToSameNode
<1>4. CASE Prec(Given.sub) > Prec(old.sub)
  <2>1. links[self] \in Seq(Link) /\ old \in Link /\ old.node = Given.node
    BY <1>2, GraphTyped DEF LinkToSameNode, IInv
  <2>2. new \in Link /\ new.node = Given.node /\ new.sub = Given.sub
    <3>1. new = [node |-> old.node, sub |-> Given.sub, pending |-> old.pending]
      BY <2>1 DEF Link
    <3>2. old.node \in Nat /\ old.pending \in BOOLEAN
      BY <2>1 DEF Link
    <3> HIDE DEF new, old
    <3> QED
      BY <1>2, <2>1, <3>1, <3>2, Zenon DEF Link
  <2>3. /\ ls \in Seq(Link) /\ Len(ls) = Len(links[self])
        /\ \A j \in 1 .. Len(ls) : ls[j] = IF j = i THEN new ELSE links[self][j]
    <3> HIDE DEF new
    <3> QED
      BY <2>1, <2>2, ExceptSeq
  <2>4. LinkGood(self, new)
    <3> HIDE DEF new
    <3> QED
      BY <1>2, <2>2 DEF LinkGood
  <2>5. \A j \in 1 .. Len(ls) : LinkGood(self, ls[j])
    <3> HIDE DEF new, ls, self
    <3> QED
      BY <1>2, <2>3, <2>4, LinksGood
  <2>6. links' = [links EXCEPT ![self] = ls]
    BY <1>4 DEF LinkToSameNode
  <2>7. weight' \in Seq(Raised) /\ Len(weight') = Len(node)
    <3>1. raised \in Raised
      <4>1. weight[self] \in Raised /\ weight[Given.node].prec \in Int /\ Prec(Given.sub) \in Int
        BY <1>2, GraphTyped, FactsTyped DEF IInv, Raised
      <4>2. prec \in Int
        BY <4>1
      <4> HIDE DEF prec
      <4> QED
        BY <4>1, <4>2 DEF Raised
    <3>2. weight' = [weight EXCEPT ![self] = raised]
      BY <1>4 DEF LinkToSameNode
    <3> HIDE DEF raised, self
    <3> QED
      BY <1>2, <3>1, <3>2, ExceptSeq DEF IInv, TypeOK, Nodes
  <2>8. RefsGood(refs') /\ UNCHANGED <<node, heads, merged, drops, walk>>
    BY HeadsTyped DEF LinkToSameNode
  <2>9. Len(ls) >= Len(links[self])
    BY <2>1, <2>3, LenProperties
  <2> HIDE DEF ls, self
  <2> QED
    BY <1>1, <1>2, <2>3, <2>5, <2>6, <2>7, <2>8, <2>9, LinksIInv
<1> QED
  BY <1>3, <1>4

\* A link added to an aligned node adds up to what that node caches, and leads below it.
LEMMA LinkAddedIInv ==
    ASSUME IInv, calls # <<>>, LinkAdded
    PROVE IInv'
<1> DEFINE self == Top.self  ls == Append(links[self], Given)
           count == AtLeast(weight[self].count, weight[Given.node].count + Count(Given.sub))
           prec == AtLeast(weight[self].prec, weight[Given.node].prec + Prec(Given.sub))
           raised == [weight[self] EXCEPT !.count = count, !.prec = prec]
<1>1. InLoop /\ CallsGood(calls')
  BY CallsTyped, NextFrame DEF LinkAdded, NextLink
<1>2. /\ self \in Nodes /\ Given.node \in Nodes /\ Given.sub \in Trees /\ Given \in Link
      /\ LinkGood(self, Given)
  BY <1>1, GivenTyped DEF LinkGood
<1>3. links[self] \in Seq(Link) /\ Len(links[self]) \in Nat
  BY <1>2, GraphTyped, LenProperties DEF IInv
<1>4. /\ ls \in Seq(Link) /\ Len(ls) = Len(links[self]) + 1
      /\ \A j \in 1 .. Len(links[self]) : ls[j] = links[self][j]
      /\ ls[Len(links[self]) + 1] = Given
  BY <1>2, <1>3, AppendProperties
<1>5. \A j \in 1 .. Len(ls) : LinkGood(self, ls[j])
  <2> HIDE DEF ls, self
  <2>1. \A j \in 1 .. Len(ls) : j \in 1 .. Len(links[self]) \/ j = Len(links[self]) + 1
    BY <1>3, <1>4
  <2> QED
    BY <1>2, <1>4, <2>1, LinksGood
<1>6. links' = [links EXCEPT ![self] = ls]
  BY DEF LinkAdded
<1>7. weight' \in Seq(Raised) /\ Len(weight') = Len(node)
  <2>1. /\ weight[self] \in Raised /\ weight[Given.node] \in Raised
        /\ Count(Given.sub) \in Nat /\ Prec(Given.sub) \in Int
    BY <1>2, GraphTyped, FactsTyped DEF IInv
  <2>2. count \in Nat /\ prec \in Int
    <3> HIDE DEF self
    <3> QED
      BY <2>1 DEF AtLeast, Raised
  <2>3. raised \in Raised
    <3> HIDE DEF count, prec, self
    <3> QED
      BY <2>1, <2>2 DEF Raised
  <2>4. weight' = [weight EXCEPT ![self] = raised]
    BY <2>1 DEF LinkAdded, Raised
  <2> HIDE DEF raised, self
  <2> QED
    BY <1>2, <2>3, <2>4, ExceptSeq DEF IInv, TypeOK, Nodes
<1>8. RefsGood(refs')
  BY <1>2, HeadsTyped, GraphTyped, ExceptSeq DEF LinkAdded, RefsGood, Nodes, IInv
<1>9. UNCHANGED <<node, heads, merged, drops, walk>>
  BY DEF LinkAdded
<1>10. Len(ls) >= Len(links[self])
  <2> HIDE DEF ls, self
  <2> QED
    BY <1>3, <1>4
<1> HIDE DEF ls, self
<1> QED
  BY <1>1, <1>2, <1>4, <1>5, <1>6, <1>7, <1>8, <1>9, <1>10, LinksIInv
-----------------------------------------------------------------------------
(* Iterating.                                                              *)

Ops4 == {"count", "pending", "error", "all", "summary"}
ItsGood(its) == /\ its \in Seq(Iterator) /\ Len(its) <= MaxIterators
                /\ \A k \in 1 .. Len(its) : its[k].node \in Nodes
SlicesGood(ss, n) == /\ ss \in Seq(Slice)
                     /\ \A k \in 1 .. Len(ss) : ss[k].version \in 1 .. n

\* IInv says this much of a running iteration.
LEMMA WalkTyped ==
    ASSUME IInv, walk.op # "none"
    PROVE /\ walk.op \in Ops4 /\ walk.version \in Versions /\ walk.goal \in Nat
          /\ walk.found \in BOOLEAN /\ walk.summary \in Seq(Entry)
          /\ walk.at \in Nat /\ walk.size \in Nat
          /\ ItsGood(walk.its) /\ SlicesGood(walk.slices, Len(heads))
          /\ calls = <<>> /\ drops = <<>>
<1>1. walk \in Walk
  BY DEF IInv, TypeOK
<1>2. /\ walk.op \in Ops4 /\ walk.goal \in Nat /\ walk.summary \in Seq(Entry)
      /\ walk.at \in Nat /\ walk.size \in Nat
      /\ walk.its \in Seq(Iterator) /\ walk.slices \in Seq(Slice)
  BY <1>1 DEF Walk, Ops4
<1>3. walk.found \in BOOLEAN
  BY <1>1, Zenon DEF Walk
<1>4. /\ walk.version \in Versions /\ Len(walk.its) <= MaxIterators
      /\ \A k \in 1 .. Len(walk.its) : walk.its[k].node \in Nodes
      /\ \A k \in 1 .. Len(walk.slices) : walk.slices[k].version \in 1 .. Len(heads)
  BY DEF IInv, WalkPlaced, Versions
<1>5. calls = <<>> /\ drops = <<>>
  BY DEF IInv, OneTask
<1> QED
  BY <1>2, <1>3, <1>4, <1>5 DEF ItsGood, SlicesGood

\* An iteration starts with one iterator, on the node of a version.
LEMMA StartWalkIInv ==
    ASSUME IInv, Idle, NEW op \in Ops4, NEW v \in Versions, NEW goal \in Nat,
           StartWalk(op, v, goal)
    PROVE IInv'
<1> DEFINE it == [node |-> heads[v].node, subs |-> <<>>, count |-> 0, pending |-> TRUE]
<1>1. it \in Iterator /\ it.node \in Nodes
  <2>1. heads[v].node \in Nat /\ heads[v].node \in Nodes /\ <<>> \in Seq(Subtree) /\ 0 \in Nat
    BY HeadsTyped
  <2>2. it \in Iterator
    BY <2>1, Zenon DEF Iterator
  <2> QED
    BY <2>1, <2>2
<1>2. walk' = [op |-> op, version |-> v, goal |-> goal, its |-> <<it>>, at |-> 1, size |-> 1,
               slices |-> <<>>, found |-> FALSE, summary |-> <<>>]
  BY DEF StartWalk, NoWalk
<1> HIDE DEF it
<1>3. walk' \in Walk
  <2>1. /\ v \in Nat /\ <<it>> \in Seq(Iterator) /\ <<>> \in Seq(Slice) /\ <<>> \in Seq(Entry)
        /\ 1 \in Nat /\ FALSE \in BOOLEAN
    BY <1>1 DEF Versions
  <2>2. op \in {"none", "count", "pending", "error", "all", "summary"}
    BY DEF Ops4
  <2> QED
    BY <1>2, <2>1, <2>2, Zenon DEF Walk
<1>4. WalkPlaced'
  <2>1. walk'.version = v /\ walk'.its = <<it>> /\ walk'.at = 1 /\ walk'.size = 1
        /\ walk'.slices = <<>>
    BY <1>2
  <2>2. Len(<<it>>) = 1 /\ <<it>>[1] = it
    OBVIOUS
  <2> QED
    BY <1>1, <2>1, <2>2, BoundsAssumption DEF WalkPlaced, StartWalk, graph, Nodes, Versions
<1>5. TypeOK'
  BY <1>3 DEF StartWalk, IInv, TypeOK, graph
<1>6. LinkSums' /\ Descends'
  BY SameGraph DEF StartWalk, graph
<1>7. HeadsPlaced' /\ DropsPlaced' /\ CallsAligned'
  BY DEF StartWalk, IInv, HeadsPlaced, DropsPlaced, CallsAligned, graph, Nodes, Versions
<1>8. OneTask'
  BY DEF StartWalk, Idle, OneTask
<1> QED
  BY <1>4, <1>5, <1>6, <1>7, <1>8 DEF IInv

\* The iterator whose turn it is stands on a node.
LEMMA ItTyped ==
    ASSUME IInv, Walking
    PROVE /\ It \in Iterator /\ It.node \in Nodes
          /\ walk.at \in 1 .. walk.size /\ walk.size \in 1 .. Len(walk.its)
          /\ Len(walk.its) \in Nat /\ Len(walk.its) <= MaxIterators
          /\ walk.at \in 1 .. Len(walk.its)
<1>1. walk.op # "none" /\ walk.its # <<>>
  BY DEF Walking
<1>2. /\ walk.at \in 1 .. walk.size /\ walk.size \in 1 .. Len(walk.its)
      /\ Len(walk.its) <= MaxIterators
  BY <1>1 DEF IInv, WalkPlaced
<1>3. ItsGood(walk.its) /\ Len(walk.its) \in Nat
  BY <1>1, WalkTyped, LenProperties DEF ItsGood
<1>4. walk.at \in 1 .. Len(walk.its)
  BY <1>2, <1>3
<1>5. It \in Iterator /\ It.node \in Nodes
  BY <1>3, <1>4, ElementOfSeq DEF ItsGood, It
<1> QED
  BY <1>2, <1>3, <1>4, <1>5

\* An iterator moved along a link is an iterator at the link's node.
LEMMA AlongTyped ==
    ASSUME NEW it \in Iterator, NEW l \in Link
    PROVE Along(it, l) \in Iterator /\ Along(it, l).node = l.node
<1> DEFINE subs == IF l.sub # NoTree /\ walk.op # "summary" THEN Append(it.subs, l.sub)
                   ELSE it.subs
           count == IF Extra(l.sub) THEN it.count ELSE it.count + 1
           pending == it.pending /\ (Extra(l.sub) \/ (l.sub # NoTree /\ l.pending))
<1>1. l.sub \in Trees /\ l.node \in Nat /\ it.subs \in Seq(Subtree) /\ it.count \in Nat
  BY DEF Link, Iterator
<1>2. subs \in Seq(Subtree)
  BY <1>1 DEF Trees
<1>3. count \in Nat
  BY <1>1
<1>4. pending \in BOOLEAN
  BY Zenon
<1>5. Along(it, l) = [node |-> l.node, subs |-> subs, count |-> count, pending |-> pending]
  BY DEF Along
<1> HIDE DEF subs, count, pending
<1>6. [node |-> l.node, subs |-> subs, count |-> count, pending |-> pending] \in Iterator
  <2>1. l.node \in Nat
    BY <1>1
  <2> QED
    BY <2>1, <1>2, <1>3, <1>4, Zenon DEF Iterator
<1> QED
  BY <1>5, <1>6

\* A callback leaves good iterators, one fewer when it stopped one.
LEMMA IteratorsTyped ==
    ASSUME IInv, Walking
    PROVE /\ ItsGood(Iterators) /\ Len(Iterators) \in Nat
          /\ ShouldStop => Len(Iterators) = Len(walk.its) - 1
          /\ ~ShouldStop => Len(Iterators) >= Len(walk.its)
<1> DEFINE ls == links[It.node]
           room == MaxIterators - Len(walk.its)
           n == IF Len(ls) - 1 <= room THEN Len(ls) - 1 ELSE room
           moved == [walk.its EXCEPT ![walk.at] = Along(It, ls[1])]
<1>1. /\ walk.its \in Seq(Iterator) /\ Len(walk.its) \in Nat /\ Len(walk.its) <= MaxIterators
      /\ \A k \in 1 .. Len(walk.its) : walk.its[k].node \in Nodes
      /\ walk.at \in 1 .. Len(walk.its)
  BY ItTyped, WalkTyped DEF Walking, ItsGood
<1>2. CASE ShouldStop
  <2>1. Iterators = Without(walk.its, walk.at)
    BY <1>2 DEF Iterators
  <2>2. /\ Without(walk.its, walk.at) \in Seq(Iterator)
        /\ Len(Without(walk.its, walk.at)) = Len(walk.its) - 1
        /\ \A j \in 1 .. Len(walk.its) - 1 : Without(walk.its, walk.at)[j] =
              IF j < walk.at THEN walk.its[j] ELSE walk.its[j + 1]
    BY <1>1, WithoutProperties
  <2>3. ASSUME NEW j \in 1 .. Len(walk.its) - 1
        PROVE Without(walk.its, walk.at)[j].node \in Nodes
    <3>1. j \in 1 .. Len(walk.its) /\ j + 1 \in 1 .. Len(walk.its)
      BY <1>1
    <3> QED
      BY <1>1, <2>2, <3>1
  <2>4. MaxIterators \in Nat
    BY BoundsAssumption
  <2> QED
    BY <1>1, <1>2, <2>1, <2>2, <2>3, <2>4 DEF ItsGood
<1>3. CASE ~ShouldStop
  <2>1. It \in Iterator /\ It.node \in Nodes
    BY ItTyped
  <2>2. ls # <<>>
    BY <1>3 DEF ShouldStop
  <2>3. ls \in Seq(Link) /\ Len(ls) \in Nat \ {0}
    BY <2>1, <2>2, GraphTyped, LenProperties, EmptySeq DEF IInv
  <2>4. \A j \in 1 .. Len(ls) : ls[j] \in Link /\ ls[j].node \in Nodes
    BY <2>1, <2>3, GraphTyped DEF IInv, LinkSums
  <2>5. \A j \in 1 .. Len(ls) :
           Along(It, ls[j]) \in Iterator /\ Along(It, ls[j]).node \in Nodes
    BY <2>1, <2>4, AlongTyped
  <2>6. n \in Nat /\ n <= Len(ls) - 1 /\ Len(walk.its) + n <= MaxIterators
    <3>1. room \in Nat
      BY <1>1, BoundsAssumption
    <3>3. Len(walk.its) + room = MaxIterators
      BY <1>1, BoundsAssumption
    <3>4. CASE Len(ls) - 1 <= room
      <4>1. n = Len(ls) - 1
        BY <3>4
      <4> HIDE DEF room, n, ls
      <4> QED
        BY <1>1, <2>3, <3>1, <3>3, <3>4, <4>1
    <3>5. CASE ~(Len(ls) - 1 <= room)
      <4>1. n = room
        BY <3>5
      <4> HIDE DEF room, n, ls
      <4> QED
        BY <1>1, <2>3, <3>1, <3>3, <3>5, <4>1
    <3> QED
      BY <3>4, <3>5
  <2>7. /\ moved \in Seq(Iterator) /\ Len(moved) = Len(walk.its)
        /\ \A k \in 1 .. Len(moved) : moved[k].node \in Nodes
    <3>1. 1 \in 1 .. Len(ls)
      BY <2>3
    <3>2. Along(It, ls[1]) \in Iterator /\ Along(It, ls[1]).node \in Nodes
      BY <2>5, <3>1
    <3> QED
      BY <1>1, <3>2, ExceptSeq
  <2>8. /\ Forks = [j \in 1 .. n |-> Along(It, ls[j + 1])]
        /\ \A j \in 1 .. n : j + 1 \in 1 .. Len(ls)
    BY <2>3, <2>6 DEF Forks
  <2> HIDE DEF n
  <2>9. /\ Forks \in Seq(Iterator) /\ Len(Forks) = n
        /\ \A k \in 1 .. n : Forks[k].node \in Nodes
    <3>1. \A j \in 1 .. n : Along(It, ls[j + 1]) \in Iterator
      BY <2>5, <2>8
    <3>2. [j \in 1 .. n |-> Along(It, ls[j + 1])] \in Seq(Iterator)
      BY <2>6, <3>1, IsASeq
    <3> QED
      BY <2>5, <2>6, <2>8, <3>2
  <2>10. Iterators = moved \o Forks
    BY <1>3 DEF Iterators
  <2> HIDE DEF moved
  <2>11. /\ Iterators \in Seq(Iterator) /\ Len(Iterators) = Len(walk.its) + n
         /\ \A k \in 1 .. Len(walk.its) + n : Iterators[k] =
               IF k <= Len(walk.its) THEN moved[k] ELSE Forks[k - Len(walk.its)]
    <3>1. /\ moved \o Forks \in Seq(Iterator) /\ Len(moved \o Forks) = Len(moved) + Len(Forks)
          /\ \A k \in 1 .. Len(moved) + Len(Forks) : (moved \o Forks)[k] =
                IF k <= Len(moved) THEN moved[k] ELSE Forks[k - Len(moved)]
      BY <2>7, <2>9, ConcatProperties
    <3> QED
      BY <2>7, <2>9, <2>10, <3>1
  <2>12. ASSUME NEW k \in 1 .. Len(walk.its) + n
         PROVE Iterators[k].node \in Nodes
    <3>1. CASE k <= Len(walk.its)
      BY <1>1, <2>6, <2>7, <2>11, <3>1
    <3>2. CASE k > Len(walk.its)
      <4>1. k - Len(walk.its) \in 1 .. n
        BY <1>1, <2>6, <3>2
      <4>2. Iterators[k] = Forks[k - Len(walk.its)]
        BY <1>1, <2>6, <2>11, <3>2
      <4> QED
        BY <2>9, <4>1, <4>2
    <3> QED
      BY <1>1, <2>6, <3>1, <3>2
  <2> QED
    BY <1>1, <1>3, <2>6, <2>11, <2>12 DEF ItsGood
<1> QED
  BY <1>2, <1>3

\* What a callback can do to the stack, whatever slices it leaves.
LEMMA MovedIInv ==
    ASSUME IInv, Walking, NEW slices, Moved(slices), SlicesGood(slices, Len(heads')),
           UNCHANGED <<graph, calls, merged, drops>>,
           RefsGood(refs'), HeadsGood(heads'), Len(heads') >= Len(heads)
    PROVE IInv'
<1> DEFINE last == IF ShouldStop THEN walk.size - 1 ELSE walk.size
           next == IF ShouldStop THEN walk.at ELSE walk.at + 1
           found == walk.found \/ (walk.op = "error" /\ ErrorFirst)
           at == IF next > last THEN 1 ELSE next
           size == IF next > last THEN Len(Iterators) ELSE last
<1>1. /\ walk.op # "none" /\ walk.op \in Ops4 /\ walk.version \in Versions
      /\ walk.goal \in Nat /\ walk.summary \in Seq(Entry) /\ calls = <<>> /\ drops = <<>>
  BY WalkTyped DEF Walking
<1>2. /\ ItsGood(Iterators) /\ Len(Iterators) \in Nat
      /\ ShouldStop => Len(Iterators) = Len(walk.its) - 1
      /\ ~ShouldStop => Len(Iterators) >= Len(walk.its)
  BY IteratorsTyped
<1>3. /\ walk.at \in 1 .. walk.size /\ walk.size \in 1 .. Len(walk.its)
      /\ Len(walk.its) \in Nat
  BY ItTyped
<1>4. /\ at \in Nat /\ size \in Nat
      /\ Iterators # <<>> => at \in 1 .. size /\ size \in 1 .. Len(Iterators)
  <2>1. Iterators # <<>> => Len(Iterators) > 0
    BY <1>2, EmptySeq DEF ItsGood
  <2>2. CASE ShouldStop
    BY <1>2, <1>3, <2>1, <2>2
  <2>3. CASE ~ShouldStop
    BY <1>2, <1>3, <2>1, <2>3
  <2> QED
    BY <2>2, <2>3
<1>5. Summary \in Seq(Entry)
  <2>1. It \in Iterator /\ It.node \in Nodes
    BY ItTyped
  <2>2. It.count \in Nat /\ node[It.node].state \in State /\ node[It.node].pos \in Nat
    BY <2>1, GraphTyped DEF Iterator, Fixed, IInv
  <2>3. [depth |-> It.count, state |-> node[It.node].state, pos |-> node[It.node].pos] \in Entry
    BY <2>2 DEF Entry
  <2> QED
    BY <1>1, <2>3, AppendProperties DEF Summary
<1>6. walk' = [walk EXCEPT !.its = Iterators, !.slices = slices, !.summary = Summary,
                           !.found = found, !.at = at, !.size = size]
  BY DEF Moved
<1>7. found \in BOOLEAN
  <2>1. walk.found \in BOOLEAN
    BY <1>1, WalkTyped
  <2> QED
    BY <2>1, Zenon
<1>8. walk \in Walk
  BY DEF IInv, TypeOK
<1> HIDE DEF at, size, found
<1>9. walk' = [op |-> walk.op, version |-> walk.version, goal |-> walk.goal,
               its |-> Iterators, at |-> at, size |-> size, slices |-> slices,
               found |-> found, summary |-> Summary]
  BY <1>6, <1>8 DEF Walk
<1>10. walk' \in Walk
  <2>1. /\ Iterators \in Seq(Iterator) /\ slices \in Seq(Slice) /\ walk.version \in Nat
        /\ walk.op \in {"none", "count", "pending", "error", "all", "summary"}
    BY <1>1, <1>2 DEF ItsGood, SlicesGood, Versions, Ops4
  <2>2. at \in Nat /\ size \in Nat /\ walk.goal \in Nat
    BY <1>1, <1>4
  <2>3. [op |-> walk.op, version |-> walk.version, goal |-> walk.goal,
         its |-> Iterators, at |-> at, size |-> size, slices |-> slices,
         found |-> found, summary |-> Summary] \in Walk
    BY <1>5, <1>7, <2>1, <2>2, Zenon DEF Walk
  <2> QED
    BY <1>9, <2>3
<1>11. TypeOK'
  BY <1>10 DEF IInv, TypeOK, graph, HeadsGood, RefsGood
<1>12. /\ walk'.op = walk.op /\ walk'.version = walk.version /\ walk'.its = Iterators
       /\ walk'.at = at /\ walk'.size = size /\ walk'.slices = slices
  BY <1>9
<1>13. Nodes' = Nodes /\ Versions \subseteq Versions' /\ Versions' = 1 .. Len(heads')
  <2>1. Len(heads) \in Nat /\ Len(heads') \in Nat
    BY LenProperties, HeadsTyped DEF HeadsGood
  <2> QED
    BY <2>1 DEF Nodes, Versions, graph
<1>14. WalkPlaced'
  <2>1. walk'.version \in Versions' /\ Len(walk'.its) <= MaxIterators
    BY <1>1, <1>2, <1>12, <1>13 DEF ItsGood
  <2>2. walk'.its # <<>> => walk'.at \in 1 .. walk'.size /\ walk'.size \in 1 .. Len(walk'.its)
    BY <1>4, <1>12
  <2>3. \A k \in 1 .. Len(walk'.its) : walk'.its[k].node \in Nodes'
    BY <1>2, <1>12, <1>13 DEF ItsGood
  <2>4. \A k \in 1 .. Len(walk'.slices) : walk'.slices[k].version \in Versions'
    BY <1>12, <1>13 DEF SlicesGood
  <2> QED
    BY <2>1, <2>2, <2>3, <2>4 DEF WalkPlaced
<1>15. LinkSums' /\ Descends'
  BY SameGraph DEF graph
<1>16. HeadsPlaced' /\ DropsPlaced' /\ CallsAligned' /\ OneTask'
  BY <1>1, <1>13 DEF HeadsGood, HeadsPlaced, DropsPlaced, CallsAligned, OneTask
<1> QED
  BY <1>11, <1>14, <1>15, <1>16 DEF IInv

\* Reversing a list keeps what it is a list of.
LEMMA BackwardsTyped ==
    ASSUME NEW S, NEW s \in Seq(S)
    PROVE Backwards(s) \in Seq(S)
<1> DEFINE n == Len(s)
<1>1. n \in Nat
  BY LenProperties
<1>2. \A i \in 1 .. n : s[n + 1 - i] \in S
  BY <1>1, ElementOfSeq
<1>3. Backwards(s) = [i \in 1 .. n |-> s[n + 1 - i]]
  BY DEF Backwards
<1> HIDE DEF n
<1> QED
  BY <1>1, <1>2, <1>3, IsASeq

\* A step that pops nothing only moves iterators.
LEMMA StepOverIInv ==
    ASSUME IInv, StepOver
    PROVE IInv'
<1>1. SlicesGood(walk.slices, Len(heads)) /\ HeadsGood(heads) /\ RefsGood(refs)
      /\ Len(heads) \in Nat
  BY WalkTyped, HeadsTyped DEF StepOver, Walking
<1> QED
  BY <1>1, MovedIInv DEF StepOver

\* A new slice gets a new version, on the node of the iterator.
LEMMA PopToNewIInv ==
    ASSUME IInv, PopToNew
    PROVE IInv'
<1> DEFINE h == NewHead(It.node, heads[walk.version])
           s == [version |-> Len(heads) + 1, subs |-> Backwards(It.subs)]
           slices == Append(walk.slices, s)
<1>1. /\ Walking /\ walk.version \in Versions /\ SlicesGood(walk.slices, Len(heads))
      /\ It \in Iterator /\ It.node \in Nodes
  BY WalkTyped, ItTyped DEF PopToNew, Walking
<1>2. h \in Version /\ h.node \in Nodes
  <2>1. heads[walk.version] \in Version /\ It.node \in Nat /\ <<>> \in Seq(Entry)
    BY <1>1, HeadsTyped
  <2> QED
    BY <1>1, <2>1 DEF NewHead, Version
<1>3. HeadsGood(heads') /\ Len(heads') = Len(heads) + 1 /\ Len(heads) \in Nat
  <2> HIDE DEF h
  <2>1. heads' = Append(heads, h)
    BY DEF PopToNew, h
  <2> QED
    BY <1>2, <2>1, HeadsTyped, MoreHead
<1>4. RefsGood(refs')
  BY <1>1, HeadsTyped, GraphTyped, ExceptSeq DEF PopToNew, RefsGood, Nodes, IInv
<1>5. s \in Slice
  <2>1. Backwards(It.subs) \in Seq(Subtree)
    BY <1>1, BackwardsTyped DEF Iterator
  <2> QED
    BY <1>3, <2>1 DEF Slice
<1>6. SlicesGood(slices, Len(heads'))
  <2>1. s.version = Len(heads) + 1
    OBVIOUS
  <2> HIDE DEF s
  <2>2. /\ slices \in Seq(Slice) /\ Len(slices) = Len(walk.slices) + 1
        /\ \A k \in 1 .. Len(walk.slices) : slices[k] = walk.slices[k]
        /\ slices[Len(walk.slices) + 1] = s /\ Len(walk.slices) \in Nat
    BY <1>1, <1>5, AppendProperties, LenProperties DEF SlicesGood
  <2>3. \A k \in 1 .. Len(walk.slices) : slices[k].version \in 1 .. Len(heads)
    BY <1>1, <2>2 DEF SlicesGood
  <2> HIDE DEF slices
  <2>4. ASSUME NEW k \in 1 .. Len(slices)
        PROVE slices[k].version \in 1 .. Len(heads')
    <3>1. CASE k \in 1 .. Len(walk.slices)
      BY <1>3, <2>3, <3>1
    <3>2. CASE k = Len(walk.slices) + 1
      BY <1>3, <2>1, <2>2, <3>2
    <3> QED
      BY <2>2, <3>1, <3>2
  <2> QED
    BY <2>2, <2>4 DEF SlicesGood
<1>7. Moved(slices) /\ UNCHANGED <<graph, calls, merged, drops>>
  BY DEF PopToNew
<1>8. Len(heads') >= Len(heads)
  BY <1>3
<1> HIDE DEF slices
<1> QED
  BY <1>1, <1>3, <1>4, <1>6, <1>7, <1>8, MovedIInv

\* A slice among those of a version names that version again.
LEMMA PopToSameIInv ==
    ASSUME IInv, NEW i \in 1 .. Len(walk.slices), PopToSame(i)
    PROVE IInv'
<1> DEFINE ss == walk.slices
           s == [version |-> ss[i].version, subs |-> Backwards(It.subs)]
           a == SubSeq(ss, 1, i)  b == SubSeq(ss, i + 1, Len(ss))
           slices == a \o <<s>> \o b
<1>1. /\ Walking /\ SlicesGood(ss, Len(heads)) /\ HeadsGood(heads) /\ RefsGood(refs)
      /\ It \in Iterator /\ Len(heads) \in Nat
  BY WalkTyped, ItTyped, HeadsTyped DEF PopToSame, Walking
<1>2. /\ ss \in Seq(Slice) /\ Len(ss) \in Nat
      /\ \A k \in 1 .. Len(ss) : ss[k] \in Slice /\ ss[k].version \in 1 .. Len(heads)
      /\ i \in 1 .. Len(ss)
  BY <1>1, LenProperties, ElementOfSeq DEF SlicesGood
<1> DEFINE Good == {x \in Slice : x.version \in 1 .. Len(heads)}
<1>3. s \in Good
  <2>1. Backwards(It.subs) \in Seq(Subtree)
    BY <1>1, BackwardsTyped DEF Iterator
  <2>2. ss[i].version \in 1 .. Len(heads) /\ ss[i].version \in Nat
    BY <1>1, <1>2
  <2> QED
    BY <2>1, <2>2 DEF Slice
<1>4. \A k \in 1 .. Len(ss) : ss[k] \in Good
  BY <1>2
<1> HIDE DEF s, ss, Good
<1>5. a \in Seq(Good) /\ b \in Seq(Good)
  <2>1. i \in Int /\ i + 1 \in Int /\ 1 .. i \subseteq 1 .. Len(ss)
        /\ (i + 1) .. Len(ss) \subseteq 1 .. Len(ss)
    BY <1>2
  <2>2. SubSeq(ss, 1, i) \in Seq(Good)
    BY <1>4, <2>1, SubSeqProperties
  <2>3. SubSeq(ss, i + 1, Len(ss)) \in Seq(Good)
    BY <1>2, <1>4, <2>1, SubSeqProperties
  <2> QED
    BY <2>2, <2>3
<1> HIDE DEF a, b
<1>6. a \o <<s>> \in Seq(Good)
  BY <1>3, <1>5, ConcatProperties
<1>7. slices \in Seq(Good)
  BY <1>5, <1>6, ConcatProperties
<1> HIDE DEF slices
<1>8. SlicesGood(slices, Len(heads))
  <2>1. slices \in Seq(Slice)
    BY <1>7, SeqMonotonic DEF Good
  <2>2. \A k \in 1 .. Len(slices) : slices[k] \in Good
    BY <1>7, ElementOfSeq
  <2> QED
    BY <2>1, <2>2 DEF SlicesGood, Good
<1>9. Moved(slices) /\ UNCHANGED <<graph, refs, heads, calls, merged, drops>>
  BY DEF PopToSame, slices, a, b, s, ss
<1> QED
  BY <1>1, <1>8, <1>9, MovedIInv

\* The end of an iteration is a step of an idle stack but for `walk`.
LEMMA ReturnIInv ==
    ASSUME IInv, walk.op # "none", walk' = NoWalk, UNCHANGED <<graph, refs, calls, merged>>,
           HeadsGood(heads'), DropsGood(drops')
    PROVE IInv'
<1>1. walk' \in Walk /\ walk'.op = "none"
  <2>1. NoWalk \in Walk
    BY DEF NoWalk, Walk
  <2> QED
    BY <2>1 DEF NoWalk
<1>2. TypeOK'
  BY <1>1 DEF IInv, TypeOK, graph, HeadsGood, DropsGood
<1>3. LinkSums' /\ Descends'
  BY SameGraph DEF graph
<1>4. HeadsPlaced' /\ DropsPlaced'
  BY DEF HeadsGood, DropsGood, HeadsPlaced, DropsPlaced, graph, Nodes, Versions
<1>6. WalkPlaced'
  <2>1. walk'.its = <<>> /\ MaxIterators \in Nat /\ Len(<<>>) = 0
    BY BoundsAssumption DEF NoWalk
  <2> QED
    BY <1>1, <2>1 DEF WalkPlaced
<1>5. OneTask' /\ CallsAligned'
  BY <1>1, WalkTyped DEF OneTask, CallsAligned
<1> QED
  BY <1>2, <1>3, <1>4, <1>5, <1>6 DEF IInv

\* The end of an iteration: popPending and popError renumber a version, recordSummary keeps
\* its summary in one.
LEMMA ReturnsIInv ==
    ASSUME IInv, ReturnSlices \/ ReturnRenumbered \/ KeepSummary
    PROVE IInv'
<1>1. walk.op # "none" /\ walk' = NoWalk /\ UNCHANGED <<graph, refs, calls, merged>>
  BY DEF ReturnSlices, ReturnRenumbered, KeepSummary, WalkOver
<1>2. /\ walk.version \in Versions /\ SlicesGood(walk.slices, Len(heads))
      /\ walk.summary \in Seq(Entry) /\ HeadsGood(heads) /\ DropsGood(drops)
      /\ heads[walk.version] \in Version /\ heads[walk.version].node \in Nodes
  BY <1>1, WalkTyped, HeadsTyped
<1>3. CASE ReturnSlices
  BY <1>1, <1>2, <1>3, ReturnIInv DEF ReturnSlices
<1>4. CASE ReturnRenumbered
  <2>1. walk.slices[1].version \in 1 .. Len(heads)
    <3>1. Len(walk.slices) \in Nat \ {0}
      BY <1>2, <1>4, LenProperties, EmptySeq DEF ReturnRenumbered, SlicesGood
    <3> QED
      BY <1>2, <3>1 DEF SlicesGood
  <2>2. HeadsGood(heads')
    BY <1>2, <1>4, <2>1, RenumberedHeads DEF ReturnRenumbered, Versions
  <2>3. DropsGood(drops')
    BY <1>2, <1>4, HeadsTyped DEF ReturnRenumbered, DropsGood
  <2> QED
    BY <1>1, <2>2, <2>3, ReturnIInv
<1>5. CASE KeepSummary
  <2>1. /\ [heads[walk.version] EXCEPT !.summary = walk.summary] \in Version
        /\ [heads[walk.version] EXCEPT !.summary = walk.summary].node = heads[walk.version].node
    BY <1>2 DEF Version
  <2>2. HeadsGood([heads EXCEPT ![walk.version] =
                     [heads[walk.version] EXCEPT !.summary = walk.summary]])
    BY <1>2, <2>1, OneHead DEF Versions
  <2>3. heads' = [heads EXCEPT ![walk.version] =
                     [heads[walk.version] EXCEPT !.summary = walk.summary]]
    BY <1>5 DEF KeepSummary
  <2>4. drops' = drops
    BY <1>5 DEF KeepSummary
  <2> QED
    BY <1>1, <1>2, <2>2, <2>3, <2>4, ReturnIInv
<1> QED
  BY <1>3, <1>4, <1>5
-----------------------------------------------------------------------------
(* Every step keeps IInv.                                                  *)

\* The steps of an operation that is running keep the invariant,
LEMMA RunningIInv == IInv /\ Running => IInv'
<1> SUFFICES ASSUME IInv, Running PROVE IInv'
  OBVIOUS
<1>1. CASE ReleaseStep
  BY <1>1, ReleaseIInv
<1>2. CASE MergeStep
  <2>1. CASE LinkToSelf
    BY <1>2, <2>1, LinkToSelfIInv DEF MergeStep
  <2>2. ASSUME NEW i \in 1 .. Len(links[Top.self]), LinkToSameNode(i)
        PROVE IInv'
    BY <1>2, <2>2, LinkToSameNodeIInv DEF MergeStep
  <2>3. ASSUME NEW i \in 1 .. Len(links[Top.self]), LinkToLikeNode(i)
        PROVE IInv'
    BY <1>2, <2>3, LinkToLikeNodeIInv DEF MergeStep
  <2>4. CASE LinkAdded
    BY <1>2, <2>4, LinkAddedIInv DEF MergeStep
  <2> QED
    BY <1>2, <2>1, <2>2, <2>3, <2>4, LikeNodeDoneIInv, MergeDoneIInv DEF MergeStep
<1>3. CASE WalkStep
  BY <1>3, StepOverIInv, PopToNewIInv, PopToSameIInv, ReturnsIInv DEF WalkStep
<1> QED
  BY <1>1, <1>2, <1>3 DEF Running

\* so do the calls that start an iteration,
LEMMA WalksIInv ==
    ASSUME IInv, NEW v \in Versions,
           \/ \E n \in 0 .. MaxPop : PopCount(v, n)
           \/ PopPending(v) \/ PopError(v) \/ PopAll(v) \/ RecordSummary(v)
    PROVE IInv'
<1>1. Idle
  BY DEF PopCount, PopPending, PopError, PopAll, RecordSummary, CanCall
<1>2. MaxDepth \in Nat /\ 0 .. MaxPop \subseteq Nat
  BY BoundsAssumption
<1>3. \E op \in Ops4, goal \in Nat : StartWalk(op, v, goal)
  BY <1>2 DEF PopCount, PopPending, PopError, PopAll, RecordSummary, Ops4
<1> QED
  BY <1>1, <1>3, StartWalkIInv

\* and all other calls.
LEMMA CallIInv == IInv /\ Call => IInv'
<1> SUFFICES ASSUME IInv, Call PROVE IInv'
  OBVIOUS
<1>1. CASE Clear
  BY <1>1, ClearIInv
<1>2. ASSUME NEW v \in Versions,
             \/ \E t \in Trees, s \in State :
                  Push(v, t, FALSE, s) \/ (Inner(t) /\ Push(v, t, TRUE, s))
             \/ RemoveVersion(v) \/ CopyVersion(v)
             \/ \E w \in Versions :
                  RenumberVersion(v, w) \/ SwapVersions(v, w) \/ Merge(v, w)
      PROVE IInv'
  BY <1>2, PushIInv, RemoveIInv, CopyIInv, RenumberIInv, SwapIInv, MergeIInv
<1>3. ASSUME NEW v \in Versions,
             \/ Halt(v) \/ Pause(v) \/ Resume(v) \/ NodeCountSinceError(v)
             \/ \E t \in Token : SetLastExternalToken(v, t)
      PROVE IInv'
  BY <1>3, FieldsIInv
<1>4. ASSUME NEW v \in Versions,
             \/ \E n \in 0 .. MaxPop : PopCount(v, n)
             \/ PopPending(v) \/ PopError(v) \/ PopAll(v) \/ RecordSummary(v)
      PROVE IInv'
  BY <1>4, WalksIInv
<1> QED
  BY <1>1, <1>2, <1>3, <1>4 DEF Call

\* IInv is inductive, and so always true.
THEOREM Invariant == Spec => []IInv
<1>1. IInv /\ UNCHANGED vars => IInv'
  BY DEF IInv, TypeOK, LinkSums, Descends, HeadsPlaced, OneTask, CallsAligned, DropsPlaced,
         WalkPlaced, vars, Nodes, Versions, Bytes, Cost, ZeroWidthRanked, Under
<1>2. IInv /\ [Next]_vars => IInv'
  BY <1>1, RunningIInv, CallIInv DEF Next
<1> QED
  BY InitIInv, <1>2, PTL DEF Spec

\* The variables of the stack, whose lists may be of any length, have their types.
THEOREM TypeCorrect == Spec => []TypeOK
<1>1. IInv => TypeOK
  BY DEF IInv
<1> QED
  BY <1>1, Invariant, PTL

\* Every path down from a node adds up to the position and error cost it caches.
THEOREM LinkSumsAlways == Spec => []LinkSums
<1>1. IInv => LinkSums
  BY DEF IInv
<1> QED
  BY <1>1, Invariant, PTL

\* Links go down in input, cost or rank, so that the stack has no cycle.
THEOREM DescendsAlways == Spec => []Descends
<1>1. IInv => Descends
  BY DEF IInv
<1> QED
  BY <1>1, Invariant, PTL

\* No operation follows more than maxIteratorCount paths at once.
THEOREM IteratorsBoundedAlways == Spec => []IteratorsBounded
<1>1. IInv => IteratorsBounded
  BY DEF IInv, WalkPlaced, IteratorsBounded
<1> QED
  BY <1>1, Invariant, PTL
-----------------------------------------------------------------------------
(* What merges keep.  A stack is told by what equivalent links have in     *)
(* common, from the top node down to the base.                             *)

Sym(t) == IF t = NoTree THEN NoTree ELSE Facts[t].sym
Mark(nd, l) == <<Sym(l.sub), nd[l.node]>>
Marks == (Nat \cup {NoTree}) \X Fixed

\* A link marked g leads from node n to node m.
Leads(nd, ls, n, m, g) ==
    \E i \in 1 .. Len(ls[n]) : ls[n][i].node = m /\ Mark(nd, ls[n][i]) = g

\* The stack s without its first j marks stands below node n.
Stands(nd, ls, n, s, j) ==
    \E w \in [j .. Len(s) -> 1 .. Len(nd)] :
       /\ w[j] = n /\ w[Len(s)] = Base
       /\ \A k \in j .. Len(s) - 1 : Leads(nd, ls, w[k], w[k + 1], s[k + 1])

\* Links lead to nodes.
Placed(nd, ls) ==
    /\ Len(nd) \in Nat \ {0}
    /\ \A n \in 1 .. Len(nd) :
          /\ Len(ls[n]) \in Nat
          /\ \A i \in 1 .. Len(ls[n]) : ls[n][i].node \in 1 .. Len(nd)

\* Nodes are added, links are added and replaced by equivalent ones.
Grown(nd, ls, nd2, ls2) ==
    /\ Len(nd) <= Len(nd2)
    /\ \A n \in 1 .. Len(nd) :
          /\ nd2[n] = nd[n]
          /\ \A i \in 1 .. Len(ls[n]) :
                /\ i \in 1 .. Len(ls2[n]) /\ ls2[n][i].node = ls[n][i].node
                /\ Sym(ls2[n][i].sub) = Sym(ls[n][i].sub)

\* The base has the empty stack below it, and no other node has.
LEMMA StandsOnBase ==
    ASSUME NEW nd, NEW ls, Placed(nd, ls), NEW s \in Seq(Marks), NEW n \in 1 .. Len(nd)
    PROVE Stands(nd, ls, n, s, Len(s)) <=> n = Base
<1>1. Len(s) \in Nat
  BY LenProperties
<1>2. ASSUME n = Base PROVE Stands(nd, ls, n, s, Len(s))
  <2> DEFINE w == [k \in Len(s) .. Len(s) |-> n]
  <2>1. w \in [Len(s) .. Len(s) -> 1 .. Len(nd)] /\ w[Len(s)] = n
    BY <1>1
  <2>2. Len(s) .. Len(s) - 1 = {}
    BY <1>1
  <2> QED
    BY <1>2, <2>1, <2>2 DEF Stands
<1> QED
  BY <1>2 DEF Stands

\* A stack below a node is a link and a stack below the node it leads to,
LEMMA StandsBehind ==
    ASSUME NEW nd, NEW ls, Placed(nd, ls), NEW s \in Seq(Marks), NEW n \in 1 .. Len(nd),
           NEW j \in 0 .. Len(s) - 1, Stands(nd, ls, n, s, j)
    PROVE \E m \in 1 .. Len(nd) :
             Leads(nd, ls, n, m, s[j + 1]) /\ Stands(nd, ls, m, s, j + 1)
<1>1. Len(s) \in Nat
  BY LenProperties
<1>2. PICK w \in [j .. Len(s) -> 1 .. Len(nd)] :
         /\ w[j] = n /\ w[Len(s)] = Base
         /\ \A k \in j .. Len(s) - 1 : Leads(nd, ls, w[k], w[k + 1], s[k + 1])
  BY DEF Stands
<1> DEFINE v == [k \in j + 1 .. Len(s) |-> w[k]]
<1>3. /\ \A k \in j + 1 .. Len(s) : k \in j .. Len(s)
      /\ j \in j .. Len(s) - 1 /\ j + 1 \in j + 1 .. Len(s) /\ Len(s) \in j + 1 .. Len(s)
  BY <1>1
<1>4. v \in [j + 1 .. Len(s) -> 1 .. Len(nd)] /\ v[j + 1] = w[j + 1] /\ v[Len(s)] = Base
  BY <1>2, <1>3
<1>5. \A k \in j + 1 .. Len(s) - 1 : Leads(nd, ls, v[k], v[k + 1], s[k + 1])
  <2> TAKE k \in j + 1 .. Len(s) - 1
  <2>1. k \in j .. Len(s) - 1 /\ k \in j + 1 .. Len(s) /\ k + 1 \in j + 1 .. Len(s)
    BY <1>1
  <2> QED
    BY <1>2, <2>1
<1>6. Stands(nd, ls, w[j + 1], s, j + 1)
  <2> HIDE DEF v
  <2> QED
    BY <1>4, <1>5 DEF Stands
<1> QED
  BY <1>2, <1>3, <1>6

\* and the other way round.
LEMMA StandsAhead ==
    ASSUME NEW nd, NEW ls, Placed(nd, ls), NEW s \in Seq(Marks), NEW n \in 1 .. Len(nd),
           NEW j \in 0 .. Len(s) - 1, NEW m,
           Leads(nd, ls, n, m, s[j + 1]), Stands(nd, ls, m, s, j + 1)
    PROVE Stands(nd, ls, n, s, j)
<1>1. Len(s) \in Nat
  BY LenProperties
<1>2. PICK w \in [j + 1 .. Len(s) -> 1 .. Len(nd)] :
         /\ w[j + 1] = m /\ w[Len(s)] = Base
         /\ \A k \in j + 1 .. Len(s) - 1 : Leads(nd, ls, w[k], w[k + 1], s[k + 1])
  BY DEF Stands
<1> DEFINE v == [k \in j .. Len(s) |-> IF k = j THEN n ELSE w[k]]
<1>3. /\ \A k \in j .. Len(s) : k # j => k \in j + 1 .. Len(s)
      /\ j \in j .. Len(s) /\ Len(s) \in j .. Len(s) /\ Len(s) # j
  BY <1>1
<1>4. v \in [j .. Len(s) -> 1 .. Len(nd)] /\ v[j] = n /\ v[Len(s)] = Base
  BY <1>2, <1>3
<1>5. \A k \in j .. Len(s) - 1 : Leads(nd, ls, v[k], v[k + 1], s[k + 1])
  <2> TAKE k \in j .. Len(s) - 1
  <2>1. k \in j .. Len(s) /\ k + 1 \in j .. Len(s) /\ k + 1 # j
        /\ (k # j => k \in j + 1 .. Len(s) - 1)
    BY <1>1
  <2>2. v[k + 1] = w[k + 1] /\ v[k] = IF k = j THEN n ELSE w[k]
    BY <2>1
  <2> QED
    BY <1>2, <2>1, <2>2
<1> HIDE DEF v
<1> QED
  BY <1>4, <1>5 DEF Stands

\* Growing takes no stack away.
LEMMA GrownLeads ==
    ASSUME NEW nd, NEW ls, Placed(nd, ls), NEW nd2, NEW ls2, Grown(nd, ls, nd2, ls2),
           NEW n \in 1 .. Len(nd), NEW m, NEW g, Leads(nd, ls, n, m, g)
    PROVE Leads(nd2, ls2, n, m, g)
<1>1. PICK i \in 1 .. Len(ls[n]) : ls[n][i].node = m /\ Mark(nd, ls[n][i]) = g
  BY DEF Leads
<1>2. /\ i \in 1 .. Len(ls2[n]) /\ ls2[n][i].node = m
      /\ Sym(ls2[n][i].sub) = Sym(ls[n][i].sub) /\ nd2[m] = nd[m]
  BY <1>1 DEF Grown, Placed
<1> QED
  BY <1>1, <1>2 DEF Leads, Mark

LEMMA GrownStands ==
    ASSUME NEW nd, NEW ls, Placed(nd, ls), NEW nd2, NEW ls2, Grown(nd, ls, nd2, ls2),
           Len(nd2) \in Nat, NEW s \in Seq(Marks), NEW n \in 1 .. Len(nd), NEW j \in Nat,
           Stands(nd, ls, n, s, j)
    PROVE Stands(nd2, ls2, n, s, j)
<1>1. PICK w \in [j .. Len(s) -> 1 .. Len(nd)] :
         /\ w[j] = n /\ w[Len(s)] = Base
         /\ \A k \in j .. Len(s) - 1 : Leads(nd, ls, w[k], w[k + 1], s[k + 1])
  BY DEF Stands
<1>2. 1 .. Len(nd) \subseteq 1 .. Len(nd2)
  BY DEF Grown, Placed
<1>3. w \in [j .. Len(s) -> 1 .. Len(nd2)]
  BY <1>1, <1>2
<1>4. \A k \in j .. Len(s) - 1 : Leads(nd2, ls2, w[k], w[k + 1], s[k + 1])
  <2> TAKE k \in j .. Len(s) - 1
  <2>1. Len(s) \in Nat
    BY LenProperties
  <2>2. k \in j .. Len(s)
    BY <2>1
  <2>3. w[k] \in 1 .. Len(nd)
    BY <1>1, <2>2
  <2> QED
    BY <1>1, <2>3, GrownLeads
<1> QED
  BY <1>1, <1>3, <1>4 DEF Stands

\* The graph is such a one,
LEMMA GraphPlaced ==
    ASSUME IInv
    PROVE Placed(node, links) /\ Base \in Nodes
<1>1. Len(node) \in Nat \ {0}
  BY LenProperties DEF IInv, TypeOK
<1>2. ASSUME NEW n \in Nodes PROVE Len(links[n]) \in Nat
  BY GraphTyped, LenProperties DEF IInv
<1>3. \A n \in Nodes : \A i \in 1 .. Len(links[n]) : links[n][i].node \in Nodes
  BY DEF IInv, LinkSums
<1> QED
  BY <1>1, <1>2, <1>3 DEF Placed, Nodes, Base

\* and grows when it stays as it is,
LEMMA SameGrown ==
    ASSUME IInv, UNCHANGED <<node, links>>
    PROVE Grown(node, links, node', links')
BY GraphPlaced DEF Grown, Placed

\* when a node gets links, and one of its subtrees gives way to an equivalent one,
LEMMA LinkedGrown ==
    ASSUME IInv, UNCHANGED node, NEW self \in Nodes, NEW ls \in Seq(Link),
           Len(ls) >= Len(links[self]),
           \A i \in 1 .. Len(links[self]) : /\ ls[i].node = links[self][i].node
                                            /\ Sym(ls[i].sub) = Sym(links[self][i].sub),
           links' = [links EXCEPT ![self] = ls]
    PROVE /\ Grown(node, links, node', links')
          /\ links'[self] = ls
<1>1. \A n \in Nodes : links'[n] = IF n = self THEN ls ELSE links[n]
  <2>1. links \in Seq(Seq(Link)) /\ Len(links) = Len(node) /\ self \in 1 .. Len(links)
    BY DEF IInv, TypeOK, Nodes
  <2> HIDE DEF IInv
  <2> QED
    BY <2>1, ExceptSeq DEF Nodes
<1>2. Len(ls) \in Nat /\ Placed(node, links)
  BY LenProperties, GraphPlaced
<1>3. ASSUME NEW n \in Nodes, NEW i \in 1 .. Len(links[n])
      PROVE /\ i \in 1 .. Len(links'[n]) /\ links'[n][i].node = links[n][i].node
            /\ Sym(links'[n][i].sub) = Sym(links[n][i].sub)
  <2>1. Len(links[n]) \in Nat
    BY <1>2 DEF Placed, Nodes
  <2>2. CASE n = self
    BY <1>1, <1>2, <2>1, <2>2
  <2>3. CASE n # self
    BY <1>1, <2>1, <2>3
  <2> QED
    BY <2>2, <2>3
<1> QED
  BY <1>1, <1>2, <1>3 DEF Grown, Nodes, Placed

\* and when a node is pushed.
LEMMA PushGrown ==
    ASSUME IInv, NEW v \in Versions, NEW t \in Trees, NEW p \in BOOLEAN, NEW s \in State,
           Push(v, t, p, s)
    PROVE Grown(node, links, node', links')
<1>1. Len(node) \in Nat /\ Placed(node, links)
  BY GraphPlaced DEF Placed
<1>2. /\ Len(node') = Len(node) + 1
      /\ \A n \in Nodes : node'[n] = node[n] /\ links'[n] = links[n]
  BY <1>1 DEF IInv, TypeOK, Nodes, Push
<1> QED
  BY <1>1, <1>2 DEF Grown, Nodes, Placed

\* A link that absorbs the given one leads to a node like the given one, by an equivalent
\* subtree.
LEMMA AbsorbsMark ==
    ASSUME NEW i, Absorbs(i)
    PROVE /\ Mark(node, links[Top.self][i]) = Mark(node, Given)
          /\ Sym(links[Top.self][i].sub) = Sym(Given.sub)
          /\ node[links[Top.self][i].node] = node[Given.node]
BY DEF Absorbs, Equivalent, Mark, Sym

LEMMA SameNodeGrown ==
    ASSUME IInv, calls # <<>>, NEW i \in 1 .. Len(links[Top.self]), LinkToSameNode(i)
    PROVE Grown(node, links, node', links')
<1> DEFINE self == Top.self  old == links[self][i]
           new == [old EXCEPT !.sub = Given.sub]
           ls == [links[self] EXCEPT ![i] = new]
<1>1. self \in Nodes /\ Given.sub \in Trees
  BY GivenTyped DEF LinkToSameNode
<1>2. links[self] \in Seq(Link) /\ old \in Link
  BY <1>1, GraphTyped DEF IInv
<1>3. /\ new \in Link /\ new.node = old.node /\ Sym(new.sub) = Sym(old.sub)
  <2>1. new = [node |-> old.node, sub |-> Given.sub, pending |-> old.pending]
    BY <1>2 DEF Link
  <2>2. old.node \in Nat /\ old.pending \in BOOLEAN
    BY <1>2 DEF Link
  <2>3. Sym(old.sub) = Sym(Given.sub)
    BY AbsorbsMark DEF LinkToSameNode, FirstAbsorbing
  <2> HIDE DEF new, old
  <2> QED
    BY <1>1, <2>1, <2>2, <2>3, Zenon DEF Link
<1>4. /\ ls \in Seq(Link) /\ Len(ls) = Len(links[self])
      /\ \A j \in 1 .. Len(ls) : ls[j] = IF j = i THEN new ELSE links[self][j]
  <2> HIDE DEF new
  <2> QED
    BY <1>2, <1>3, ExceptSeq
<1>5. links' = links \/ links' = [links EXCEPT ![self] = ls]
  BY DEF LinkToSameNode
<1>6. UNCHANGED node /\ Len(links[self]) \in Nat
  BY <1>2, LenProperties DEF LinkToSameNode
<1>7. \A j \in 1 .. Len(links[self]) : /\ ls[j].node = links[self][j].node
                                       /\ Sym(ls[j].sub) = Sym(links[self][j].sub)
  <2> HIDE DEF new, ls
  <2> QED
    BY <1>3, <1>4
<1> HIDE DEF ls, self
<1>8. ASSUME links' = [links EXCEPT ![self] = ls] PROVE Grown(node, links, node', links')
  <2>1. Len(ls) >= Len(links[self])
    BY <1>4, <1>6
  <2> QED
    BY <1>1, <1>4, <1>6, <1>7, <1>8, <2>1, LinkedGrown
<1> QED
  BY <1>5, <1>6, <1>8, SameGrown

LEMMA AddedGrown ==
    ASSUME IInv, calls # <<>>, LinkAdded
    PROVE /\ Grown(node, links, node', links')
          /\ Leads(node', links', Top.self, Given.node, Mark(node, Given))
<1> DEFINE self == Top.self  ls == Append(links[self], Given)
<1>1. self \in Nodes /\ Given \in Link /\ UNCHANGED node /\ links' = [links EXCEPT ![self] = ls]
  BY GivenTyped DEF LinkAdded
<1>2. links[self] \in Seq(Link) /\ Len(links[self]) \in Nat
  BY <1>1, GraphTyped, LenProperties DEF IInv
<1>3. /\ ls \in Seq(Link) /\ Len(ls) = Len(links[self]) + 1
      /\ \A j \in 1 .. Len(links[self]) : ls[j] = links[self][j]
      /\ ls[Len(links[self]) + 1] = Given
  BY <1>1, <1>2, AppendProperties
<1>4. Len(ls) >= Len(links[self]) /\ Len(ls) \in 1 .. Len(ls) /\ ls[Len(ls)] = Given
  <2> HIDE DEF ls
  <2> QED
    BY <1>2, <1>3
<1>5. Grown(node, links, node', links') /\ links'[self] = ls
  <2> HIDE DEF ls, self
  <2> QED
    BY <1>1, <1>3, <1>4, LinkedGrown
<1> QED
  <2> HIDE DEF ls
  <2> QED
    BY <1>1, <1>4, <1>5 DEF Leads, Mark

\* So the graph grows with every step, and only a push adds a node.
LEMMA StepGraph ==
    ASSUME IInv, Next
    PROVE /\ Grown(node, links, node', links')
          /\ \/ UNCHANGED node
             \/ \E v \in Versions, t \in Trees, p \in BOOLEAN, s \in State : Push(v, t, p, s)
<1>1. CASE UNCHANGED <<node, links>>
  BY <1>1, SameGrown
<1>2. ASSUME NEW v \in Versions, NEW t \in Trees, NEW p \in BOOLEAN, NEW s \in State,
             Push(v, t, p, s)
      PROVE Grown(node, links, node', links')
  BY <1>2, PushGrown
<1>3. CASE MergeStep
  <2>1. ASSUME NEW i \in 1 .. Len(links[Top.self]), LinkToSameNode(i)
        PROVE Grown(node, links, node', links') /\ UNCHANGED node
    BY <1>3, <2>1, SameNodeGrown DEF MergeStep, LinkToSameNode
  <2>2. CASE LinkAdded
    BY <1>3, <2>2, AddedGrown DEF MergeStep, LinkAdded
  <2>3. ASSUME \/ LinkToSelf \/ \E i \in 1 .. Len(links[Top.self]) : LinkToLikeNode(i)
               \/ LikeNodeDone \/ MergeDone
        PROVE UNCHANGED <<node, links>>
    BY <2>3 DEF LinkToSelf, LinkToLikeNode, LikeNodeDone, MergeDone, graph
  <2> QED
    BY <1>1, <1>3, <2>1, <2>2, <2>3 DEF MergeStep
<1>4. CASE ReleaseStep \/ WalkStep
  <2>1. UNCHANGED <<node, links>>
    BY <1>4 DEF ReleaseStep, WalkStep, StepOver, PopToNew, PopToSame, ReturnSlices,
                ReturnRenumbered, KeepSummary, graph
  <2> QED
    BY <1>1, <2>1
<1>5. CASE Clear
  <2>1. UNCHANGED <<node, links>>
    BY <1>5 DEF Clear, graph
  <2> QED
    BY <1>1, <2>1
<1>6. ASSUME NEW v \in Versions,
             \/ RemoveVersion(v) \/ CopyVersion(v) \/ Halt(v) \/ Pause(v) \/ Resume(v)
             \/ NodeCountSinceError(v)
             \/ \E t \in Token : SetLastExternalToken(v, t)
             \/ \E w \in Versions : RenumberVersion(v, w) \/ SwapVersions(v, w) \/ Merge(v, w)
      PROVE UNCHANGED <<node, links>>
  BY <1>6 DEF RemoveVersion, CopyVersion, Halt, Pause, Resume, NodeCountSinceError,
              SetLastExternalToken, RenumberVersion, SwapVersions, Merge, graph
<1>7. ASSUME NEW v \in Versions,
             \/ \E n \in 0 .. MaxPop : PopCount(v, n)
             \/ PopPending(v) \/ PopError(v) \/ PopAll(v) \/ RecordSummary(v)
      PROVE UNCHANGED <<node, links>>
  BY <1>7 DEF PopCount, PopPending, PopError, PopAll, RecordSummary, StartWalk, graph
<1> QED
  BY <1>1, <1>2, <1>3, <1>4, <1>5, <1>6, <1>7 DEF Next, Running, Call

\* The stack s is one of those below node n.
History(n, s) == Stands(node, links, n, s, 0)

\* Whatever the parser calls, no node ever loses a stack: popping, merging and replacing
\* subtrees by others of higher precedence leave what other versions stand on
\* (src/stack.go:170).
THEOREM StacksStay == Spec => [][\A n \in Nodes, s \in Seq(Marks) :
                                    History(n, s) => History(n, s)']_vars
<1>1. IInv /\ [Next]_vars => IInv'
  <2>1. IInv /\ UNCHANGED vars => IInv'
    BY DEF IInv, TypeOK, LinkSums, Descends, HeadsPlaced, OneTask, CallsAligned, DropsPlaced,
           WalkPlaced, vars, Nodes, Versions, Bytes, Cost, ZeroWidthRanked, Under
  <2> QED
    BY <2>1, RunningIInv, CallIInv DEF Next
<1>2. IInv /\ [Next]_vars => [\A n \in Nodes, s \in Seq(Marks) :
                                 History(n, s) => History(n, s)']_vars
  <2> SUFFICES ASSUME IInv, Next, NEW n \in Nodes, NEW s \in Seq(Marks), History(n, s)
               PROVE History(n, s)'
    OBVIOUS
  <2>1. Len(node') \in Nat
    BY <1>1, LenProperties DEF IInv, TypeOK
  <2>2. Stands(node', links', n, s, 0)
    BY <2>1, StepGraph, GraphPlaced, GrownStands DEF History, Nodes
  <2> QED
    BY <2>2 DEF History
<1> QED
  BY <1>1, <1>2, Invariant, PTL DEF Spec
-----------------------------------------------------------------------------
(* A merge.                                                                *)

\* The loops of stackNodeAddLink and the link a loop is at.
Loops(nd, cs) ==
    /\ Len(cs) \in Nat
    /\ \A k \in 1 .. Len(cs) :
          cs[k].self \in 1 .. Len(nd) /\ cs[k].from \in 1 .. Len(nd) /\ cs[k].next \in Nat \ {0}
At(ls, f) == ls[f.from][f.next]
InLoops(ls, cs) == \A k \in 1 .. Len(cs) - 1 : cs[k].next \in 1 .. Len(ls[cs[k].from])

\* An inner loop takes its links from the node that the link at hand leads to, and adds them
\* to a node that the outer loop's node has a like link to.
Chained(nd, ls, cs) ==
    \A k \in 1 .. Len(cs) - 1 :
       /\ cs[k + 1].from = At(ls, cs[k]).node
       /\ Leads(nd, ls, cs[k].self, cs[k + 1].self, Mark(nd, At(ls, cs[k])))

\* The stack s is below the node the merge goes to, or will be brought there: its first marks
\* are those of the links the loops are at, down to loop k, and the rest is already
\* below the node of loop k, or behind a link that loop k has still to go through.
Coming(nd, ls, cs, s, k) ==
    /\ k - 1 <= Len(s)
    /\ \A j \in 1 .. k - 1 : Mark(nd, At(ls, cs[j])) = s[j]
    /\ \/ Stands(nd, ls, cs[k].self, s, k - 1)
       \/ /\ k <= Len(s)
          /\ \E i \in 1 .. Len(ls[cs[k].from]) :
                /\ IF k < Len(cs) THEN i > cs[k].next ELSE i >= cs[k].next
                /\ Mark(nd, ls[cs[k].from][i]) = s[k]
                /\ Stands(nd, ls, ls[cs[k].from][i].node, s, k)
Kept(nd, ls, cs, s) == \E k \in 1 .. Len(cs) : Coming(nd, ls, cs, s, k)

\* Growing disturbs neither.
SameLinks(nd, ls, nd2, ls2) ==
    \A n \in 1 .. Len(nd) : \A i \in 1 .. Len(ls[n]) :
       /\ i \in 1 .. Len(ls2[n]) /\ ls2[n][i].node = ls[n][i].node
       /\ ls[n][i].node \in 1 .. Len(nd)
       /\ Mark(nd2, ls2[n][i]) = Mark(nd, ls[n][i])

LEMMA GrownAt ==
    ASSUME NEW nd, NEW ls, Placed(nd, ls), NEW nd2, NEW ls2, Grown(nd, ls, nd2, ls2)
    PROVE SameLinks(nd, ls, nd2, ls2)
<1> SUFFICES ASSUME NEW n \in 1 .. Len(nd), NEW i \in 1 .. Len(ls[n])
             PROVE /\ i \in 1 .. Len(ls2[n]) /\ ls2[n][i].node = ls[n][i].node
                   /\ ls[n][i].node \in 1 .. Len(nd)
                   /\ Mark(nd2, ls2[n][i]) = Mark(nd, ls[n][i])
  BY DEF SameLinks
<1>1. ls[n][i].node \in 1 .. Len(nd)
  BY DEF Placed
<1>2. /\ i \in 1 .. Len(ls2[n]) /\ ls2[n][i].node = ls[n][i].node
      /\ Sym(ls2[n][i].sub) = Sym(ls[n][i].sub)
      /\ nd2[ls[n][i].node] = nd[ls[n][i].node]
  BY <1>1 DEF Grown
<1> QED
  BY <1>1, <1>2 DEF Mark

LEMMA GrownChained ==
    ASSUME NEW nd, NEW ls, Placed(nd, ls), NEW nd2, NEW ls2, Grown(nd, ls, nd2, ls2),
           NEW cs, Loops(nd, cs), InLoops(ls, cs), Chained(nd, ls, cs)
    PROVE Chained(nd2, ls2, cs)
<1> SUFFICES ASSUME NEW k \in 1 .. Len(cs) - 1
             PROVE /\ cs[k + 1].from = At(ls2, cs[k]).node
                   /\ Leads(nd2, ls2, cs[k].self, cs[k + 1].self, Mark(nd2, At(ls2, cs[k])))
  BY DEF Chained
<1>1. /\ k \in 1 .. Len(cs) /\ cs[k].from \in 1 .. Len(nd) /\ cs[k].self \in 1 .. Len(nd)
      /\ cs[k].next \in 1 .. Len(ls[cs[k].from])
  BY DEF Loops, InLoops
<1>2. /\ At(ls2, cs[k]).node = At(ls, cs[k]).node
      /\ Mark(nd2, At(ls2, cs[k])) = Mark(nd, At(ls, cs[k]))
  <2>1. SameLinks(nd, ls, nd2, ls2)
    BY GrownAt
  <2> QED
    BY <1>1, <2>1 DEF At, SameLinks
<1>3. /\ cs[k + 1].from = At(ls, cs[k]).node
      /\ Leads(nd, ls, cs[k].self, cs[k + 1].self, Mark(nd, At(ls, cs[k])))
  BY DEF Chained
<1> QED
  BY <1>1, <1>2, <1>3, GrownLeads

LEMMA GrownComing ==
    ASSUME NEW nd, NEW ls, Placed(nd, ls), NEW nd2, NEW ls2, Grown(nd, ls, nd2, ls2),
           Len(nd2) \in Nat, NEW cs, Loops(nd, cs), InLoops(ls, cs), NEW s \in Seq(Marks),
           NEW k \in 1 .. Len(cs), Coming(nd, ls, cs, s, k)
    PROVE Coming(nd2, ls2, cs, s, k)
<1>1. k - 1 <= Len(s) /\ k \in Nat /\ k - 1 \in Nat /\ Len(cs) \in Nat
  BY DEF Coming, Loops
<1>a. SameLinks(nd, ls, nd2, ls2)
  BY GrownAt
<1>2. \A j \in 1 .. k - 1 : Mark(nd2, At(ls2, cs[j])) = s[j]
  <2> TAKE j \in 1 .. k - 1
  <2>1. j \in 1 .. Len(cs) - 1 /\ j \in 1 .. Len(cs)
    BY <1>1
  <2>2. cs[j].from \in 1 .. Len(nd) /\ cs[j].next \in 1 .. Len(ls[cs[j].from])
    BY <2>1 DEF Loops, InLoops
  <2>3. Mark(nd2, At(ls2, cs[j])) = Mark(nd, At(ls, cs[j]))
    BY <2>2, <1>a DEF At, SameLinks
  <2> QED
    BY <2>3 DEF Coming
<1>3. cs[k].self \in 1 .. Len(nd) /\ cs[k].from \in 1 .. Len(nd)
  BY DEF Loops
<1>4. CASE Stands(nd, ls, cs[k].self, s, k - 1)
  BY <1>1, <1>2, <1>3, <1>4, GrownStands DEF Coming
<1>5. ASSUME k <= Len(s), NEW i \in 1 .. Len(ls[cs[k].from]),
             IF k < Len(cs) THEN i > cs[k].next ELSE i >= cs[k].next,
             Mark(nd, ls[cs[k].from][i]) = s[k],
             Stands(nd, ls, ls[cs[k].from][i].node, s, k)
      PROVE Coming(nd2, ls2, cs, s, k)
  <2>1. /\ i \in 1 .. Len(ls2[cs[k].from])
        /\ ls2[cs[k].from][i].node = ls[cs[k].from][i].node
        /\ ls[cs[k].from][i].node \in 1 .. Len(nd)
        /\ Mark(nd2, ls2[cs[k].from][i]) = Mark(nd, ls[cs[k].from][i])
    BY <1>3, <1>a, <1>5 DEF SameLinks
  <2>2. Stands(nd2, ls2, ls2[cs[k].from][i].node, s, k)
    BY <1>1, <1>5, <2>1, GrownStands
  <2> QED
    BY <1>1, <1>2, <1>5, <2>1, <2>2 DEF Coming
<1> QED
  BY <1>4, <1>5 DEF Coming

\* A loop that goes on to its next link, when the node has one like the one it was at.
Onward(cs, cs2) ==
    /\ Len(cs) \in Nat \ {0} /\ Len(cs2) = Len(cs)
    /\ \A k \in 1 .. Len(cs) - 1 : cs2[k] = cs[k]
    /\ cs2[Len(cs)].self = cs[Len(cs)].self /\ cs2[Len(cs)].from = cs[Len(cs)].from
    /\ cs2[Len(cs)].next = cs[Len(cs)].next + 1

LEMMA OnwardChained ==
    ASSUME NEW nd, NEW ls, NEW cs, NEW cs2, Onward(cs, cs2), Chained(nd, ls, cs)
    PROVE Chained(nd, ls, cs2)
<1> SUFFICES ASSUME NEW k \in 1 .. Len(cs) - 1
             PROVE /\ cs2[k + 1].from = At(ls, cs2[k]).node
                   /\ Leads(nd, ls, cs2[k].self, cs2[k + 1].self, Mark(nd, At(ls, cs2[k])))
  BY DEF Chained, Onward
<1>1. /\ cs2[k] = cs[k] /\ cs2[k + 1].self = cs[k + 1].self /\ cs2[k + 1].from = cs[k + 1].from
  <2>1. k + 1 \in 1 .. Len(cs) - 1 \/ k + 1 = Len(cs)
    BY DEF Onward
  <2> QED
    BY <2>1 DEF Onward
<1> QED
  BY <1>1 DEF Chained

LEMMA OnwardComing ==
    ASSUME NEW nd, NEW ls, Placed(nd, ls), NEW cs, Loops(nd, cs), NEW cs2, Onward(cs, cs2),
           NEW s \in Seq(Marks), NEW k \in 1 .. Len(cs), Coming(nd, ls, cs, s, k),
           LET f == cs[Len(cs)]
           IN /\ f.next \in 1 .. Len(ls[f.from])
              /\ Leads(nd, ls, f.self, At(ls, f).node, Mark(nd, At(ls, f)))
    PROVE Coming(nd, ls, cs2, s, k)
<1>1. /\ k - 1 <= Len(s) /\ k \in Nat /\ k - 1 \in Nat /\ Len(cs) \in Nat \ {0}
      /\ Len(cs2) = Len(cs) /\ Len(s) \in Nat
  BY LenProperties DEF Coming, Onward
<1>2. \A j \in 1 .. k - 1 : Mark(nd, At(ls, cs2[j])) = s[j]
  <2> TAKE j \in 1 .. k - 1
  <2>1. j \in 1 .. Len(cs) - 1
    BY <1>1
  <2> QED
    BY <2>1 DEF Coming, Onward
<1>3. CASE k < Len(cs)
  <2>1. cs2[k] = cs[k]
    BY <1>1, <1>3 DEF Onward
  <2> QED
    BY <1>1, <1>2, <2>1 DEF Coming
<1>4. CASE k = Len(cs)
  <2> DEFINE f == cs[k]
  <2>1. cs2[k].self = f.self /\ cs2[k].from = f.from /\ cs2[k].next = f.next + 1
    BY <1>4 DEF Onward
  <2>2. /\ f.self \in 1 .. Len(nd) /\ f.from \in 1 .. Len(nd)
        /\ f.next \in 1 .. Len(ls[f.from])
        /\ Leads(nd, ls, f.self, At(ls, f).node, Mark(nd, At(ls, f)))
    BY <1>4 DEF Loops
  <2>3. CASE Stands(nd, ls, f.self, s, k - 1)
    BY <1>1, <1>2, <2>1, <2>3 DEF Coming
  <2>4. ASSUME k <= Len(s), NEW i \in 1 .. Len(ls[f.from]), i >= f.next,
               Mark(nd, ls[f.from][i]) = s[k], Stands(nd, ls, ls[f.from][i].node, s, k)
        PROVE Coming(nd, ls, cs2, s, k)
    <3>1. CASE i = f.next
      <4>1. Leads(nd, ls, f.self, At(ls, f).node, s[k]) /\ Stands(nd, ls, At(ls, f).node, s, k)
        BY <2>2, <2>4, <3>1 DEF At
      <4>2. k - 1 \in 0 .. Len(s) - 1 /\ (k - 1) + 1 = k
        BY <1>1, <2>4
      <4>3. Stands(nd, ls, f.self, s, k - 1)
        <5> HIDE DEF f
        <5> QED
          BY <2>2, <4>1, <4>2, StandsAhead
      <4> QED
        BY <2>3, <4>3
    <3>2. CASE i # f.next
      <4>1. i >= f.next + 1
        <5>1. f.next \in Nat
          BY <2>2
        <5> QED
          BY <2>4, <3>2, <5>1
      <4> QED
        BY <1>1, <1>2, <1>4, <2>1, <2>4, <4>1 DEF Coming
    <3> QED
      BY <3>1, <3>2
  <2> QED
    BY <1>4, <2>3, <2>4 DEF Coming
<1> QED
  BY <1>1, <1>3, <1>4

\* An inner loop begins for the link at hand.
Inward(ls, cs, cs2, m) ==
    /\ Len(cs) \in Nat \ {0} /\ Len(cs2) = Len(cs) + 1
    /\ \A k \in 1 .. Len(cs) : cs2[k] = cs[k]
    /\ cs2[Len(cs2)] = [self |-> m, from |-> At(ls, cs[Len(cs)]).node, next |-> 1]

LEMMA InwardChained ==
    ASSUME NEW nd, NEW ls, NEW cs, NEW cs2, NEW m, Inward(ls, cs, cs2, m), Chained(nd, ls, cs),
           Leads(nd, ls, cs[Len(cs)].self, m, Mark(nd, At(ls, cs[Len(cs)])))
    PROVE Chained(nd, ls, cs2)
<1> SUFFICES ASSUME NEW k \in 1 .. Len(cs2) - 1
             PROVE /\ cs2[k + 1].from = At(ls, cs2[k]).node
                   /\ Leads(nd, ls, cs2[k].self, cs2[k + 1].self, Mark(nd, At(ls, cs2[k])))
  BY DEF Chained
<1>1. k \in 1 .. Len(cs) /\ cs2[k] = cs[k]
  BY DEF Inward
<1>2. CASE k = Len(cs)
  <2>1. cs2[k + 1].self = m /\ cs2[k + 1].from = At(ls, cs[k]).node
    BY <1>2 DEF Inward
  <2> QED
    BY <1>1, <1>2, <2>1
<1>3. CASE k # Len(cs)
  <2>1. k \in 1 .. Len(cs) - 1 /\ cs2[k + 1] = cs[k + 1]
    BY <1>1, <1>3 DEF Inward
  <2> QED
    BY <1>1, <2>1 DEF Chained
<1> QED
  BY <1>2, <1>3

\* No stack is lost: one that is behind the link at hand is behind a link of the inner loop,
\* or was the empty one; then both nodes are the base.
LEMMA InwardKept ==
    ASSUME NEW nd, NEW ls, Placed(nd, ls), NEW cs, Loops(nd, cs), NEW cs2,
           NEW m \in 1 .. Len(nd), Inward(ls, cs, cs2, m),
           NEW s \in Seq(Marks), Kept(nd, ls, cs, s),
           LET f == cs[Len(cs)]
           IN f.next \in 1 .. Len(ls[f.from]) /\ (At(ls, f).node = Base => m = Base)
    PROVE Kept(nd, ls, cs2, s)
<1>1. PICK k \in 1 .. Len(cs) : Coming(nd, ls, cs, s, k)
  BY DEF Kept
<1>2. /\ k - 1 <= Len(s) /\ k \in Nat /\ Len(cs) \in Nat \ {0} /\ Len(s) \in Nat
      /\ Len(cs2) = Len(cs) + 1 /\ k \in 1 .. Len(cs2)
  BY <1>1, LenProperties DEF Coming, Inward
<1>3. cs2[k] = cs[k] /\ \A j \in 1 .. k - 1 : cs2[j] = cs[j] /\ Mark(nd, At(ls, cs2[j])) = s[j]
  <2>1. \A j \in 1 .. k - 1 : j \in 1 .. Len(cs)
    BY <1>2
  <2> QED
    BY <1>1, <2>1 DEF Inward, Coming
<1>4. CASE Stands(nd, ls, cs[k].self, s, k - 1)
  <2>1. Coming(nd, ls, cs2, s, k)
    BY <1>2, <1>3, <1>4 DEF Coming
  <2> QED
    BY <1>2, <2>1 DEF Kept
<1>5. ASSUME k <= Len(s), NEW i \in 1 .. Len(ls[cs[k].from]),
             IF k < Len(cs) THEN i > cs[k].next ELSE i >= cs[k].next,
             Mark(nd, ls[cs[k].from][i]) = s[k],
             Stands(nd, ls, ls[cs[k].from][i].node, s, k)
      PROVE Kept(nd, ls, cs2, s)
  <2>1. CASE i > cs[k].next
    <3>1. Coming(nd, ls, cs2, s, k)
      BY <1>2, <1>3, <1>5, <2>1 DEF Coming
    <3> QED
      BY <1>2, <3>1 DEF Kept
  <2>2. CASE ~(i > cs[k].next)
    <3> DEFINE g == At(ls, cs[k])
    <3>1. k = Len(cs) /\ cs[k].next \in Nat
      BY <1>2, <1>5, <2>2 DEF Loops
    <3>2. i = cs[k].next
      BY <1>2, <1>5, <2>2, <3>1 DEF Placed
    <3>3. cs2[k + 1] = [self |-> m, from |-> g.node, next |-> 1] /\ k + 1 = Len(cs2)
      BY <1>2, <3>1 DEF Inward
    <3>4. Mark(nd, g) = s[k] /\ Stands(nd, ls, g.node, s, k)
      BY <1>5, <3>2 DEF At
    <3>5. \A j \in 1 .. k : Mark(nd, At(ls, cs2[j])) = s[j]
      <4> TAKE j \in 1 .. k
      <4>1. j = k \/ j \in 1 .. k - 1
        BY <1>2
      <4> QED
        BY <1>3, <3>4, <4>1
    <3>6. g.node \in 1 .. Len(nd)
      BY <1>5, <3>2 DEF At, Placed, Loops
    <3> HIDE DEF g
    <3>7. k + 1 \in 1 .. Len(cs2)
      <4>1. k \in 1 .. Len(cs)
        BY <1>1
      <4> QED
        BY <4>1, <1>2
    <3>8. CASE k = Len(s)
      <4>1. g.node = Base
        BY <3>4, <3>6, <3>8, StandsOnBase
      <4>2. m = Base
        BY <3>1, <4>1 DEF g
      <4>3. Stands(nd, ls, m, s, k)
        BY <3>8, <4>2, StandsOnBase
      <4>4. cs2[k + 1].self = m /\ (k + 1) - 1 = k
        BY <1>2, <3>3
      <4>5. Coming(nd, ls, cs2, s, k + 1)
        BY <1>5, <3>5, <4>3, <4>4 DEF Coming
      <4> QED
        BY <3>7, <4>5 DEF Kept
    <3>9. CASE k # Len(s)
      <4>1. k \in 0 .. Len(s) - 1
        BY <1>2, <1>5, <3>9
      <4>2. PICK x \in 1 .. Len(nd) :
               Leads(nd, ls, g.node, x, s[k + 1]) /\ Stands(nd, ls, x, s, k + 1)
        BY <3>4, <3>6, <4>1, StandsBehind
      <4>3. PICK h \in 1 .. Len(ls[g.node]) :
               ls[g.node][h].node = x /\ Mark(nd, ls[g.node][h]) = s[k + 1]
        BY <4>2 DEF Leads
      <4>4. /\ cs2[k + 1].from = g.node /\ cs2[k + 1].next = 1 /\ ~(k + 1 < Len(cs2))
            /\ (k + 1) - 1 = k /\ k + 1 <= Len(s) /\ h >= 1
        BY <1>2, <3>3, <4>1 DEF Placed
      <4>5. \E e \in 1 .. Len(ls[cs2[k + 1].from]) :
               /\ IF k + 1 < Len(cs2) THEN e > cs2[k + 1].next ELSE e >= cs2[k + 1].next
               /\ Mark(nd, ls[cs2[k + 1].from][e]) = s[k + 1]
               /\ Stands(nd, ls, ls[cs2[k + 1].from][e].node, s, k + 1)
        <5>1. h \in 1 .. Len(ls[cs2[k + 1].from])
          BY <4>3, <4>4
        <5>2. /\ Mark(nd, ls[cs2[k + 1].from][h]) = s[k + 1]
              /\ Stands(nd, ls, ls[cs2[k + 1].from][h].node, s, k + 1)
          BY <4>2, <4>3, <4>4
        <5> QED
          BY <5>1, <5>2, <4>4
      <4>6. /\ (k + 1) - 1 <= Len(s)
            /\ \A j \in 1 .. (k + 1) - 1 : Mark(nd, At(ls, cs2[j])) = s[j]
        BY <3>5, <4>4, <4>1
      <4>7. Coming(nd, ls, cs2, s, k + 1)
        BY <4>4, <4>5, <4>6 DEF Coming
      <4> QED
        BY <3>7, <4>7 DEF Kept
    <3> QED
      BY <3>8, <3>9
  <2> QED
    BY <2>1, <2>2
<1> QED
  BY <1>1, <1>4, <1>5 DEF Coming

\* An inner loop is over: the outer one goes on behind the link it was at.
Outward(cs, cs2) ==
    /\ Len(cs) \in Nat /\ Len(cs) > 1 /\ Len(cs2) = Len(cs) - 1
    /\ \A k \in 1 .. Len(cs) - 2 : cs2[k] = cs[k]
    /\ cs2[Len(cs) - 1].self = cs[Len(cs) - 1].self
    /\ cs2[Len(cs) - 1].from = cs[Len(cs) - 1].from
    /\ cs2[Len(cs) - 1].next = cs[Len(cs) - 1].next + 1

LEMMA OutwardChained ==
    ASSUME NEW nd, NEW ls, NEW cs, NEW cs2, Outward(cs, cs2), Chained(nd, ls, cs)
    PROVE Chained(nd, ls, cs2)
<1> SUFFICES ASSUME NEW k \in 1 .. Len(cs) - 2
             PROVE /\ cs2[k + 1].from = At(ls, cs2[k]).node
                   /\ Leads(nd, ls, cs2[k].self, cs2[k + 1].self, Mark(nd, At(ls, cs2[k])))
  BY DEF Chained, Outward
<1>1. /\ cs2[k] = cs[k] /\ cs2[k + 1].self = cs[k + 1].self /\ cs2[k + 1].from = cs[k + 1].from
      /\ k \in 1 .. Len(cs) - 1
  <2>1. k + 1 \in 1 .. Len(cs) - 2 \/ k + 1 = Len(cs) - 1
    BY DEF Outward
  <2> QED
    BY <2>1 DEF Outward
<1> QED
  BY <1>1 DEF Chained

\* What the inner loop has brought below its node is below the outer one's.
LEMMA OutwardKept ==
    ASSUME NEW nd, NEW ls, Placed(nd, ls), NEW cs, Loops(nd, cs), NEW cs2, Outward(cs, cs2),
           Chained(nd, ls, cs), cs[Len(cs)].next > Len(ls[cs[Len(cs)].from]),
           NEW s \in Seq(Marks), Kept(nd, ls, cs, s)
    PROVE Kept(nd, ls, cs2, s)
<1> DEFINE n == Len(cs)
<1>1. PICK k \in 1 .. n : Coming(nd, ls, cs, s, k)
  BY DEF Kept
<1>2. /\ k - 1 <= Len(s) /\ k \in Nat /\ n \in Nat /\ n > 1 /\ Len(s) \in Nat
      /\ Len(cs2) = n - 1
  BY <1>1, LenProperties DEF Coming, Outward
<1>3. CASE k < n - 1
  <2>1. k \in 1 .. Len(cs2) /\ \A j \in 1 .. k : j \in 1 .. n - 2
    BY <1>2, <1>3
  <2>2. \A j \in 1 .. k : cs2[j] = cs[j]
    BY <2>1 DEF Outward
  <2>3. cs2[k] = cs[k] /\ \A j \in 1 .. k - 1 : cs2[j] = cs[j]
    BY <1>2, <2>2
  <2>4. k < Len(cs2) /\ k < Len(cs)
    BY <1>2, <1>3
  <2>5. Coming(nd, ls, cs2, s, k)
    BY <1>1, <2>3, <2>4 DEF Coming
  <2> QED
    BY <2>1, <2>5 DEF Kept
<1>4. \A j \in 1 .. n - 2 : cs2[j] = cs[j]
  BY DEF Outward
<1>5. CASE k = n - 1
  <2>1. /\ cs2[k].self = cs[k].self /\ cs2[k].from = cs[k].from /\ cs2[k].next = cs[k].next + 1
        /\ k \in 1 .. Len(cs2) /\ ~(k < Len(cs2)) /\ k < Len(cs) /\ k - 1 = n - 2
        /\ cs[k].next \in Nat
    BY <1>2, <1>5 DEF Outward, Loops
  <2>2. \A i \in Int : i > cs[k].next => i >= cs2[k].next
    BY <2>1
  <2>3. \A i \in 1 .. Len(ls[cs[k].from]) : i \in Int
    BY <2>1 DEF Placed, Loops
  <2>4. Coming(nd, ls, cs2, s, k)
    BY <1>1, <1>4, <2>1, <2>2, <2>3 DEF Coming
  <2> QED
    BY <2>1, <2>4 DEF Kept
<1>6. CASE k = n
  <2> DEFINE u == n - 1  f == cs[u]
  <2>1. Len(ls[cs[n].from]) \in Nat /\ cs[n].next \in Nat
    BY <1>2 DEF Placed, Loops
  <2>2. Stands(nd, ls, cs[n].self, s, n - 1)
    BY <1>1, <1>2, <1>6, <2>1 DEF Coming
  <2>3. Leads(nd, ls, f.self, cs[n].self, Mark(nd, At(ls, f)))
    <3>1. u \in 1 .. Len(cs) - 1 /\ u + 1 = n
      BY <1>2
    <3> QED
      BY <3>1 DEF Chained
  <2>4. Mark(nd, At(ls, f)) = s[u]
    BY <1>1, <1>2, <1>6 DEF Coming
  <2>5. Stands(nd, ls, f.self, s, n - 2)
    <3>1. n - 2 \in 0 .. Len(s) - 1 /\ (n - 2) + 1 = u /\ f.self \in 1 .. Len(nd)
      BY <1>2, <1>6 DEF Loops
    <3> HIDE DEF f, u
    <3> QED
      BY <2>2, <2>3, <2>4, <3>1, StandsAhead DEF u
  <2>6. cs2[u].self = f.self /\ u \in 1 .. Len(cs2) /\ u - 1 = n - 2 /\ n - 2 <= Len(s)
    BY <1>2, <1>6 DEF Outward
  <2>7. \A j \in 1 .. u - 1 : Mark(nd, At(ls, cs2[j])) = s[j]
    <3> TAKE j \in 1 .. u - 1
    <3>1. j \in 1 .. n - 2 /\ j \in 1 .. k - 1
      BY <1>2, <1>6
    <3> QED
      BY <1>1, <1>4, <3>1 DEF Coming
  <2>8. Coming(nd, ls, cs2, s, u)
    <3> HIDE DEF f, u
    <3> QED
      BY <2>5, <2>6, <2>7 DEF Coming
  <2> QED
    BY <2>6, <2>8 DEF Kept
<1> QED
  BY <1>2, <1>3, <1>5, <1>6

\* Under is an order.
LEMMA UnderOrder ==
    ASSUME NEW a \in Fixed, NEW b \in Fixed, NEW c \in Fixed
    PROVE /\ ~Under(a, a)
          /\ Under(a, b) /\ Under(b, c) => Under(a, c)
<1>1. /\ a.pos \in Nat /\ a.cost \in Nat /\ b.pos \in Nat /\ b.cost \in Nat
      /\ c.pos \in Nat /\ c.cost \in Nat
      /\ Rank[a.state] \in Nat /\ Rank[b.state] \in Nat /\ Rank[c.state] \in Nat
  BY RankAssumption DEF Fixed
<1> QED
  BY <1>1 DEF Under

\* Every node but the base is above it, if zero-width symbols are ranked: what is pushed on a
\* node is above that.
BaseLowest == ZeroWidthRanked => \A n \in Nodes : n = Base \/ Under(node[Base], node[n])

LEMMA LowestStep ==
    ASSUME IInv, BaseLowest, Next
    PROVE BaseLowest'
<1>1. ZeroWidthRanked' = ZeroWidthRanked
  BY DEF ZeroWidthRanked, Bytes, Cost
<1>2. CASE UNCHANGED node
  BY <1>1, <1>2 DEF BaseLowest, Nodes, Under
<1>3. ASSUME NEW v \in Versions, NEW t \in Trees, NEW p \in BOOLEAN, NEW s \in State,
             Push(v, t, p, s)
      PROVE BaseLowest'
  <2> DEFINE prev == heads[v].node
             above == [state |-> s, pos |-> node[prev].pos + Bytes(t),
                       cost |-> node[prev].cost + Cost(t)]
  <2>1. prev \in Nodes /\ Len(node) \in Nat \ {0} /\ Base \in Nodes
    BY HeadsTyped, GraphPlaced DEF Placed
  <2>2. node[prev] \in Fixed /\ node[Base] \in Fixed
    BY <2>1, GraphTyped DEF IInv
  <2>3. Bytes(t) \in Nat /\ Cost(t) \in Nat
    BY FactsTyped
  <2>4. above \in Fixed
    <3>1. node[prev].pos + Bytes(t) \in Nat /\ node[prev].cost + Cost(t) \in Nat
      BY <2>2, <2>3 DEF Fixed
    <3> QED
      BY <3>1 DEF Fixed
  <2>5. /\ Len(node') = Len(node) + 1 /\ \A n \in Nodes : node'[n] = node[n]
        /\ node'[Len(node) + 1] = above
    BY <1>3, <2>1 DEF Push, IInv, TypeOK, Nodes
  <2>6. ZeroWidthRanked => Under(node[prev], above)
    <3>1. <<node[prev].state, t, s>> \in Moves
      BY <1>3 DEF Push
    <3>2. ZeroWidthRanked => (Bytes(t) + Cost(t) = 0 => Rank[s] < Rank[node[prev].state])
      BY <3>1 DEF ZeroWidthRanked
    <3> QED
      BY <2>2, <2>3, <3>2, UnderAbove
  <2> HIDE DEF above
  <2>7. ZeroWidthRanked => Under(node[Base], above)
    BY <2>1, <2>2, <2>4, <2>6, UnderOrder DEF BaseLowest
  <2>8. ASSUME ZeroWidthRanked, NEW n \in Nodes', n # Base
        PROVE Under(node'[Base], node'[n])
    <3>1. n \in Nodes \/ n = Len(node) + 1
      BY <2>1, <2>5 DEF Nodes
    <3> QED
      BY <2>1, <2>5, <2>7, <2>8, <3>1 DEF BaseLowest
  <2> QED
    BY <1>1, <2>8 DEF BaseLowest, Under
<1> QED
  BY <1>2, <1>3, StepGraph

\* So a node like the base is the base.
LEMMA LikeBase ==
    ASSUME IInv, BaseLowest, ZeroWidthRanked, NEW n \in Nodes, node[n] = node[Base]
    PROVE n = Base
<1>1. Base \in Nodes /\ node[n] \in Fixed
  BY GraphPlaced, GraphTyped DEF IInv
<1> QED
  BY <1>1, UnderOrder DEF BaseLowest

\* The outermost loop goes from the second version to the first.
Outermost ==
    calls # <<>> => /\ merged[1] < merged[2]
                    /\ calls[1].self = heads[merged[1]].node
                    /\ calls[1].from = heads[merged[2]].node
KInv == BaseLowest /\ Chained(node, links, calls) /\ Outermost

\* The loops in IInv.
LEMMA LoopsTyped ==
    ASSUME IInv
    PROVE /\ Loops(node, calls) /\ InLoops(links, calls) /\ Placed(node, links)
          /\ calls \in Seq(Frame)
<1>1. Placed(node, links) /\ CallsGood(calls) /\ Len(calls) \in Nat
  BY GraphPlaced, CallsTyped
<1>2. ASSUME NEW k \in 1 .. Len(calls)
      PROVE /\ calls[k].self \in 1 .. Len(node) /\ calls[k].from \in 1 .. Len(node)
            /\ calls[k].next \in Nat \ {0}
            /\ k < Len(calls) => calls[k].next \in 1 .. Len(links[calls[k].from])
  <2>1. FrameGood(calls[k]) /\ (k < Len(calls) => calls[k].next <= Len(links[calls[k].from]))
    BY <1>1 DEF CallsGood
  <2>2. calls[k].self \in Nodes /\ calls[k].from \in Nodes /\ calls[k].next \in Nat \ {0}
    BY <2>1 DEF FrameGood, Frame
  <2> QED
    BY <1>1, <2>1, <2>2 DEF Nodes, Placed
<1>3. Loops(node, calls)
  BY <1>1, <1>2 DEF Loops
<1>4. InLoops(links, calls)
  <2> SUFFICES ASSUME NEW k \in 1 .. Len(calls) - 1
               PROVE calls[k].next \in 1 .. Len(links[calls[k].from])
    BY DEF InLoops
  <2>1. k \in 1 .. Len(calls) /\ k < Len(calls)
    BY <1>1
  <2> QED
    BY <1>2, <2>1
<1> QED
  BY <1>1, <1>3, <1>4 DEF CallsGood

\* NextLink takes the innermost loop onward.
LEMMA NextOnward ==
    ASSUME IInv, calls # <<>>, NextLink
    PROVE Onward(calls, calls') /\ Len(calls) \in Nat \ {0}
<1> DEFINE n == Len(calls)  f == [calls[n] EXCEPT !.next = @ + 1]
<1>1. n \in Nat \ {0} /\ calls \in Seq(Frame) /\ calls[n] \in Frame
  BY CallsTyped, LoopsTyped, ElementOfSeq
<1>2. f \in Frame /\ f.self = calls[n].self /\ f.from = calls[n].from
      /\ f.next = calls[n].next + 1
  BY <1>1 DEF Frame
<1>3. calls' = [calls EXCEPT ![n] = f]
  BY DEF NextLink
<1> HIDE DEF f
<1>4. Len(calls') = n /\ \A j \in 1 .. n : calls'[j] = IF j = n THEN f ELSE calls[j]
  BY <1>1, <1>2, <1>3, ExceptSeq
<1> QED
  BY <1>1, <1>2, <1>4 DEF Onward

LEMMA NextPlaced ==
    ASSUME IInv'
    PROVE Placed(node', links')
<1>1. Len(node') \in Nat \ {0} /\ links' \in Seq(Seq(Link)) /\ Len(links') = Len(node')
  BY LenProperties DEF IInv, TypeOK
<1>2. \A n \in 1 .. Len(node') : links'[n] \in Seq(Link)
  BY <1>1, ElementOfSeq
<1>3. \A n \in 1 .. Len(node') : Len(links'[n]) \in Nat
  BY <1>2, LenProperties
<1>4. \A n \in 1 .. Len(node') : \A i \in 1 .. Len(links'[n]) :
         links'[n][i].node \in 1 .. Len(node')
  BY DEF IInv, LinkSums, Nodes
<1> QED
  BY <1>1, <1>3, <1>4 DEF Placed

\* A step of a merge keeps the loops in order, and every stack that is there or coming.
Keeps == /\ KInv'
         /\ ZeroWidthRanked => \A s \in Seq(Marks) :
               Kept(node, links, calls, s) =>
                  IF calls' # <<>> THEN Kept(node', links', calls', s)
                  ELSE Stands(node', links', heads'[merged[1]].node, s, 0)

\* A link that the node already has like, or gets now, is behind the loop.
LEMMA OnwardKeeps ==
    ASSUME IInv, IInv', KInv, BaseLowest', calls # <<>>, InLoop, NextLink,
           UNCHANGED <<node, heads, merged>>, Grown(node, links, node', links'),
           ZeroWidthRanked => Leads(node', links', Top.self, Given.node, Mark(node, Given))
    PROVE Keeps
<1>1. /\ Loops(node, calls) /\ InLoops(links, calls) /\ Placed(node, links)
      /\ Placed(node', links') /\ Loops(node', calls) /\ Len(node') \in Nat
  BY LoopsTyped, NextPlaced DEF Loops, Placed
<1>2. Onward(calls, calls') /\ Len(calls) \in Nat \ {0} /\ calls' # <<>>
  <2>1. Onward(calls, calls') /\ Len(calls) \in Nat \ {0}
    BY NextOnward
  <2>2. Len(calls') # 0
    BY <2>1 DEF Onward
  <2> QED
    BY <2>1, <2>2
<1>3. Chained(node', links', calls)
  BY <1>1, GrownChained DEF KInv
<1>4. Chained(node', links', calls')
  BY <1>2, <1>3, OnwardChained
<1>5. Outermost'
  <2>1. calls'[1].self = calls[1].self /\ calls'[1].from = calls[1].from
    <3>1. CASE Len(calls) = 1
      BY <1>2, <3>1 DEF Onward
    <3>2. CASE Len(calls) # 1
      <4>1. \A j \in Nat : j = 1 => j \in 1 .. Len(calls) - 1
        BY <1>2, <3>2
      <4> QED
        BY <1>2, <4>1 DEF Onward
    <3> QED
      BY <3>1, <3>2
  <2> QED
    BY <2>1 DEF KInv, Outermost
<1>6. ASSUME ZeroWidthRanked, NEW s \in Seq(Marks), Kept(node, links, calls, s)
      PROVE Kept(node', links', calls', s)
  <2>1. PICK k \in 1 .. Len(calls) : Coming(node, links, calls, s, k)
    BY <1>6 DEF Kept
  <2>2. Coming(node', links', calls, s, k)
    BY <1>1, <2>1, GrownComing
  <2> DEFINE f == calls[Len(calls)]
  <2>3. /\ f = Top /\ f.from \in 1 .. Len(node) /\ f.next \in 1 .. Len(links[f.from])
        /\ Given = At(links, f)
    BY <1>2, GivenTyped DEF Top, Given, At, Nodes
  <2>4. /\ f.next \in 1 .. Len(links'[f.from]) /\ At(links', f).node = At(links, f).node
        /\ Mark(node', At(links', f)) = Mark(node, At(links, f))
    <3> HIDE DEF f
    <3>1. SameLinks(node, links, node', links')
      BY <1>1, GrownAt
    <3> QED
      BY <2>3, <3>1 DEF At, SameLinks
  <2>5. Leads(node', links', f.self, At(links', f).node, Mark(node', At(links', f)))
    <3> HIDE DEF f
    <3> QED
      BY <1>6, <2>3, <2>4
  <2>6. Coming(node', links', calls', s, k)
    BY <1>1, <1>2, <2>2, <2>4, <2>5, OnwardComing
  <2>7. Len(calls') = Len(calls)
    BY <1>2 DEF Onward
  <2> QED
    BY <2>1, <2>6, <2>7 DEF Kept
<1> QED
  BY <1>2, <1>4, <1>5, <1>6 DEF Keeps, KInv

\* The link that absorbs the given one, and the given one, lead to the same node or to nodes
\* of which both or neither are the base.
LEMMA AbsorbsLeads ==
    ASSUME IInv, calls # <<>>, InLoop, NEW i \in 1 .. Len(links[Top.self]), Absorbs(i)
    PROVE /\ Leads(node, links, Top.self, links[Top.self][i].node, Mark(node, Given))
          /\ links[Top.self][i].node \in Nodes
          /\ BaseLowest /\ ZeroWidthRanked /\ Given.node = Base
                => links[Top.self][i].node = Base
<1>1. /\ Mark(node, links[Top.self][i]) = Mark(node, Given)
      /\ node[links[Top.self][i].node] = node[Given.node]
  BY AbsorbsMark
<1>2. links[Top.self][i].node \in Nodes
  BY GivenTyped DEF IInv, LinkSums
<1> QED
  BY <1>1, <1>2, LikeBase DEF Leads

LEMMA LinkToSelfKeeps ==
    ASSUME IInv, IInv', KInv, BaseLowest', calls # <<>>, LinkToSelf
    PROVE Keeps
<1>1. ~ZeroWidthRanked
  <2>1. /\ ZeroWidthRanked => Under(node[Given.node], node[Top.self])
        /\ Given.node = Top.self /\ Top.self \in Nodes
    BY GivenTyped DEF LinkToSelf
  <2>2. node[Top.self] \in Fixed
    BY <2>1, GraphTyped DEF IInv
  <2> QED
    BY <2>1, <2>2, UnderOrder
<1>2. InLoop /\ NextLink /\ UNCHANGED <<node, links, heads, merged>>
  BY DEF LinkToSelf, graph
<1> QED
  BY <1>1, <1>2, SameGrown, OnwardKeeps

LEMMA LinkToSameNodeKeeps ==
    ASSUME IInv, IInv', KInv, BaseLowest', calls # <<>>,
           NEW i \in 1 .. Len(links[Top.self]), LinkToSameNode(i)
    PROVE Keeps
<1>1. /\ InLoop /\ NextLink /\ UNCHANGED <<node, heads, merged>> /\ Absorbs(i)
      /\ links[Top.self][i].node = Given.node
  BY DEF LinkToSameNode, FirstAbsorbing
<1>2. Leads(node, links, Top.self, Given.node, Mark(node, Given))
  BY <1>1, AbsorbsLeads
<1>3. Grown(node, links, node', links')
  BY SameNodeGrown
<1>4. Leads(node', links', Top.self, Given.node, Mark(node, Given))
  <2>1. Top.self \in 1 .. Len(node)
    BY <1>1, GivenTyped DEF Nodes
  <2> QED
    BY <1>2, <1>3, <2>1, GrownLeads, GraphPlaced
<1> QED
  BY <1>1, <1>3, <1>4, OnwardKeeps

LEMMA LinkAddedKeeps ==
    ASSUME IInv, IInv', KInv, BaseLowest', calls # <<>>, LinkAdded
    PROVE Keeps
<1>1. InLoop /\ NextLink /\ UNCHANGED <<node, heads, merged>>
  BY DEF LinkAdded
<1> QED
  BY <1>1, AddedGrown, OnwardKeeps

\* The search found a like node: the inner loop is to bring what is below the given one.
LEMMA LinkToLikeNodeKeeps ==
    ASSUME IInv, IInv', KInv, BaseLowest', calls # <<>>,
           NEW i \in 1 .. Len(links[Top.self]), LinkToLikeNode(i)
    PROVE Keeps
<1> DEFINE m == links[Top.self][i].node  f == calls[Len(calls)]
           g == [self |-> m, from |-> Given.node, next |-> 1]
<1>1. InLoop /\ Absorbs(i) /\ calls' = Append(calls, g)
      /\ UNCHANGED <<node, links, heads, merged>>
  BY DEF LinkToLikeNode, FirstAbsorbing, graph
<1>2. /\ Loops(node, calls) /\ Placed(node, links) /\ calls \in Seq(Frame)
      /\ Len(calls) \in Nat \ {0}
  BY LoopsTyped, CallsTyped
<1>3. /\ f = Top /\ Given = At(links, f) /\ f.next \in 1 .. Len(links[f.from])
      /\ m \in 1 .. Len(node) /\ Leads(node, links, f.self, m, Mark(node, At(links, f)))
      /\ ZeroWidthRanked /\ At(links, f).node = Base => m = Base
  BY <1>1, GivenTyped, AbsorbsLeads DEF Top, Given, At, Nodes, KInv
<1> HIDE DEF m, f
<1>4. Inward(links, calls, calls', m)
  <2>1. /\ Len(calls') = Len(calls) + 1 /\ calls'[Len(calls) + 1] = g
        /\ \A k \in 1 .. Len(calls) : calls'[k] = calls[k]
    <3> HIDE DEF g
    <3> QED
      BY <1>1, <1>2
  <2> QED
    BY <1>2, <1>3, <2>1 DEF Inward, f
<1>5. Chained(node', links', calls')
  BY <1>1, <1>3, <1>4, InwardChained DEF KInv, f
<1>6. calls' # <<>> /\ Outermost'
  <2>1. Len(calls') # 0 /\ calls'[1] = calls[1]
    BY <1>2, <1>4 DEF Inward
  <2> QED
    BY <1>1, <2>1 DEF KInv, Outermost
<1>7. ASSUME ZeroWidthRanked, NEW s \in Seq(Marks), Kept(node, links, calls, s)
      PROVE Kept(node', links', calls', s)
  BY <1>1, <1>2, <1>3, <1>4, <1>7, InwardKept DEF f
<1> QED
  BY <1>5, <1>6, <1>7 DEF Keeps, KInv

\* The inner loop is over and has brought it.
LEMMA LikeNodeDoneKeeps ==
    ASSUME IInv, IInv', KInv, BaseLowest', LikeNodeDone
    PROVE Keeps
<1> DEFINE n == Len(calls)  m == Len(Below)  up == [Below[m] EXCEPT !.next = @ + 1]
<1>1. /\ Loops(node, calls) /\ Placed(node, links) /\ calls \in Seq(Frame)
      /\ n \in Nat /\ n > 1 /\ UNCHANGED <<node, links, heads, merged>>
      /\ ~InLoop /\ calls # <<>>
  BY LoopsTyped, CallsTyped DEF LikeNodeDone
<1>2. Below \in Seq(Frame) /\ m = n - 1 /\ \A k \in 1 .. m : Below[k] = calls[k]
  BY <1>1, SubSeqProperties, ElementOfSeq DEF Below
<1>3. Below[m] \in Frame /\ Below[m] = calls[n - 1] /\ m \in 1 .. Len(Below)
  BY <1>1, <1>2, ElementOfSeq
<1>4. up \in Frame /\ up.self = calls[n - 1].self /\ up.from = calls[n - 1].from
      /\ up.next = calls[n - 1].next + 1
  BY <1>3 DEF Frame
<1>5. calls' = [Below EXCEPT ![m] = up]
  BY DEF LikeNodeDone
<1> HIDE DEF up
<1>6. Len(calls') = m /\ \A j \in 1 .. m : calls'[j] = IF j = m THEN up ELSE Below[j]
  BY <1>2, <1>3, <1>4, <1>5, ExceptSeq
<1>7. Outward(calls, calls')
  <2>1. \A k \in 1 .. n - 2 : k \in 1 .. m /\ k # m
    BY <1>1, <1>2
  <2>2. n - 1 \in 1 .. m
    BY <1>1, <1>2
  <2> QED
    BY <1>1, <1>2, <1>4, <1>6, <2>1, <2>2 DEF Outward
<1>8. Chained(node', links', calls')
  BY <1>1, <1>7, OutwardChained DEF KInv
<1>9. calls' # <<>> /\ Outermost'
  <2>1. Len(calls') # 0 /\ calls'[1].self = calls[1].self /\ calls'[1].from = calls[1].from
    <3>1. CASE n = 2
      BY <1>7, <3>1 DEF Outward
    <3>2. CASE n # 2
      <4>0. n \in Nat /\ n > 1 /\ n # 2
        BY <1>1, <3>2
      <4> HIDE DEF n
      <4>1. \A j \in Nat : j = 1 => j \in 1 .. n - 2
        BY <4>0
      <4> QED
        BY <1>7, <4>1 DEF Outward, n
    <3> QED
      BY <3>1, <3>2
  <2> QED
    BY <1>1, <2>1 DEF KInv, Outermost
<1>10. calls[n].next > Len(links[calls[n].from])
  BY <1>1 DEF InLoop, Top, Loops, Placed
<1>11. ASSUME NEW s \in Seq(Marks), Kept(node, links, calls, s)
       PROVE Kept(node', links', calls', s)
  BY <1>1, <1>7, <1>10, <1>11, OutwardKept DEF KInv
<1> QED
  BY <1>8, <1>9, <1>11 DEF Keeps, KInv

\* The outermost loop is over: what it was to bring is below the first version's node.
LEMMA MergeDoneKeeps ==
    ASSUME IInv, IInv', KInv, BaseLowest', MergeDone
    PROVE /\ Keeps /\ calls' = <<>>
          /\ heads'[merged[1]].node = heads[merged[1]].node
<1> DEFINE v1 == merged[1]  v2 == merged[2]  top == heads[v1].node
           hs == IF node[top].state = ErrorState
                 THEN [heads EXCEPT ![v1].atError = weight[top].count] ELSE heads
<1>1. /\ Len(calls) = 1 /\ ~InLoop /\ calls' = <<>> /\ UNCHANGED <<node, links>>
      /\ heads' = Without(hs, v2) /\ calls # <<>>
  <2>1. Len(calls) = 1
    BY DEF MergeDone
  <2> QED
    BY <2>1 DEF MergeDone, graph
<1>2. /\ heads \in Seq(Version) /\ v1 \in Versions /\ v2 \in Versions /\ v1 < v2
      /\ v1 \in Nat /\ v2 \in Nat /\ Len(heads) \in Nat /\ calls[1].self = top
  BY <1>1, HeadsTyped DEF KInv, Outermost, IInv, TypeOK, CallsAligned, Versions
<1>3. hs \in Seq(Version) /\ Len(hs) = Len(heads) /\ hs[v1].node = top
  <2>1. CASE node[top].state = ErrorState
    <3> DEFINE h == [heads[v1] EXCEPT !.atError = weight[top].count]
    <3>1. top \in Nodes /\ heads[v1] \in Version
      BY <1>2, HeadsTyped
    <3>2. weight[top].count \in Nat
      BY <3>1, GraphTyped DEF IInv, Raised
    <3>3. h \in Version /\ h.node = top
      BY <3>1, <3>2 DEF Version
    <3>4. hs = [heads EXCEPT ![v1] = h]
      BY <2>1
    <3> HIDE DEF h, hs
    <3> QED
      BY <1>2, <3>3, <3>4, ExceptSeq DEF Versions
  <2>2. CASE node[top].state # ErrorState
    BY <1>2, <2>2
  <2> QED
    BY <2>1, <2>2
<1> HIDE DEF hs
<1>4. heads'[v1] = hs[v1]
  <2>1. v2 \in 1 .. Len(hs) /\ v1 \in 1 .. Len(hs) - 1
    BY <1>2, <1>3 DEF Versions
  <2> HIDE DEF v1, v2
  <2> QED
    BY <1>1, <1>2, <1>3, <2>1, WithoutProperties
<1>5. KInv'
  <2>1. Len(calls') = 0
    BY <1>1
  <2>2. 1 .. Len(calls') - 1 = {}
    BY <2>1
  <2> QED
    BY <1>1, <2>2 DEF KInv, Chained, Outermost
<1>6. ASSUME NEW s \in Seq(Marks), Kept(node, links, calls, s)
      PROVE Stands(node', links', heads'[v1].node, s, 0)
  <2>1. PICK k \in 1 .. 1 : Coming(node, links, calls, s, k)
    BY <1>1, <1>6 DEF Kept
  <2>2. k = 1 /\ ~(k < Len(calls)) /\ k - 1 = 0
    BY <1>1, <2>1
  <2>3. /\ Top = calls[1] /\ calls[1].next \in Nat /\ Len(links[calls[1].from]) \in Nat
        /\ ~(calls[1].next <= Len(links[calls[1].from]))
    BY <1>1, LoopsTyped DEF Top, InLoop, Loops, Placed
  <2>4. Stands(node, links, calls[1].self, s, 0)
    BY <2>1, <2>2, <2>3 DEF Coming
  <2> QED
    BY <1>1, <1>2, <1>3, <1>4, <2>4
<1> QED
  BY <1>1, <1>3, <1>4, <1>5, <1>6 DEF Keeps

\* A merge sets out with the stacks of both versions.
LEMMA MergeStarts ==
    ASSUME IInv, KInv, BaseLowest', NEW v1 \in Versions, NEW v2 \in Versions, Merge(v1, v2)
    PROVE /\ KInv'
          /\ ZeroWidthRanked => \A s \in Seq(Marks) :
                History(heads[v1].node, s) \/ History(heads[v2].node, s) =>
                   Kept(node', links', calls', s)
<1> DEFINE a == heads[v1].node  b == heads[v2].node
           f == [self |-> a, from |-> b, next |-> 1]
<1>1. /\ calls' = <<f>> /\ merged' = <<v1, v2>> /\ UNCHANGED <<node, links, heads>>
      /\ v1 < v2 /\ node[a] = node[b]
  BY DEF Merge, CanMerge, graph
<1>2. /\ a \in 1 .. Len(node) /\ b \in 1 .. Len(node) /\ Placed(node, links)
  BY HeadsTyped, GraphPlaced DEF Nodes
<1>3. Len(calls') = 1 /\ calls'[1] = f
  BY <1>1
<1>4. KInv'
  <2>1. 1 .. Len(calls') - 1 = {}
    BY <1>3
  <2>2. Chained(node', links', calls')
    BY <2>1 DEF Chained
  <2>3. Outermost'
    BY <1>1, <1>3 DEF Outermost
  <2> QED
    BY <2>2, <2>3 DEF KInv
<1>5. ASSUME NEW s \in Seq(Marks), Stands(node, links, a, s, 0)
      PROVE Kept(node', links', calls', s)
  <2>1. Len(s) \in Nat /\ 1 .. 1 - 1 = {} /\ 1 - 1 = 0 /\ 1 \in 1 .. 1
    BY LenProperties
  <2>2. Coming(node', links', calls', s, 1)
    BY <1>1, <1>3, <1>5, <2>1 DEF Coming
  <2> QED
    BY <1>3, <2>1, <2>2 DEF Kept
<1>6. ASSUME ZeroWidthRanked, NEW s \in Seq(Marks), Stands(node, links, b, s, 0)
      PROVE Kept(node', links', calls', s)
  <2>1. Len(s) \in Nat /\ 1 .. 1 - 1 = {} /\ 1 - 1 = 0 /\ 1 \in 1 .. 1 /\ ~(1 < 1)
    BY LenProperties
  <2>2. CASE Len(s) = 0
    <3>0. Stands(node, links, b, s, Len(s))
      BY <1>6, <2>2
    <3>1. b = Base
      <4> HIDE DEF b
      <4> QED
        BY <1>2, <3>0, StandsOnBase
    <3>2. a = Base
      BY <1>1, <1>2, <1>6, <3>1, LikeBase DEF KInv, Nodes
    <3> QED
      BY <1>5, <1>6, <3>1, <3>2
  <2>3. CASE Len(s) # 0
    <3>1. 0 \in 0 .. Len(s) - 1 /\ 0 + 1 = 1 /\ 1 <= Len(s)
      BY <2>1, <2>3
    <3>2. PICK m \in 1 .. Len(node) : Leads(node, links, b, m, s[1]) /\ Stands(node, links, m, s, 1)
      <4> HIDE DEF a, b
      <4> QED
        BY <1>2, <1>6, <3>1, StandsBehind
    <3>3. PICK i \in 1 .. Len(links[b]) : links[b][i].node = m /\ Mark(node, links[b][i]) = s[1]
      BY <3>2 DEF Leads
    <3>4. i >= 1
      BY <1>2 DEF Placed
    <3>5. Coming(node', links', calls', s, 1)
      BY <1>1, <1>3, <2>1, <3>1, <3>2, <3>3, <3>4 DEF Coming
    <3> QED
      BY <1>3, <2>1, <3>5 DEF Kept
  <2> QED
    BY <2>2, <2>3
<1> QED
  BY <1>4, <1>5, <1>6 DEF History

\* The steps of a merge, together.
LEMMA MergeStepKeeps ==
    ASSUME IInv, IInv', KInv, BaseLowest', MergeStep
    PROVE Keeps
BY LinkToSelfKeeps, LinkToSameNodeKeeps, LinkToLikeNodeKeeps, LinkAddedKeeps, LikeNodeDoneKeeps,
   MergeDoneKeeps DEF MergeStep

\* While no merge runs there is none, unless one is called.
LEMMA QuietStep ==
    ASSUME IInv, Next, ~MergeStep, ~\E v, w \in Versions : Merge(v, w)
    PROVE calls = <<>> /\ calls' = <<>>
<1>1. ASSUME NEW op, CanCall(op)
      PROVE calls = <<>>
  BY <1>1 DEF CanCall, Idle
<1>2. CASE ReleaseStep
  BY <1>2 DEF ReleaseStep, IInv, OneTask
<1>3. CASE WalkStep
  BY <1>3 DEF WalkStep, StepOver, PopToNew, PopToSame, ReturnSlices, ReturnRenumbered, KeepSummary,
              Walking, WalkOver, IInv, OneTask
<1>4. CASE Clear
  BY <1>4 DEF Clear, CanCall, Idle
<1>5. ASSUME NEW v \in Versions,
             \/ \E t \in Trees, s \in State :
                  Push(v, t, FALSE, s) \/ (Inner(t) /\ Push(v, t, TRUE, s))
             \/ RemoveVersion(v) \/ CopyVersion(v) \/ Halt(v) \/ Pause(v) \/ Resume(v)
             \/ NodeCountSinceError(v)
             \/ \E t \in Token : SetLastExternalToken(v, t)
      PROVE calls = <<>> /\ calls' = <<>>
  BY <1>5 DEF Push, RemoveVersion, CopyVersion, Halt, Pause, Resume, NodeCountSinceError,
              SetLastExternalToken, CanCall, Idle
<1>6. ASSUME NEW v \in Versions,
             \/ \E n \in 0 .. MaxPop : PopCount(v, n)
             \/ PopPending(v) \/ PopError(v) \/ PopAll(v) \/ RecordSummary(v)
             \/ \E w \in Versions : RenumberVersion(v, w) \/ SwapVersions(v, w)
      PROVE calls = <<>> /\ calls' = <<>>
  BY <1>6 DEF PopCount, PopPending, PopError, PopAll, RecordSummary, StartWalk, RenumberVersion,
              SwapVersions, CanCall, Idle
<1> QED
  BY <1>2, <1>3, <1>4, <1>5, <1>6 DEF Next, Running, Call

LEMMA KInvStep ==
    ASSUME IInv, IInv', KInv, [Next]_vars
    PROVE KInv'
<1>1. CASE UNCHANGED vars
  BY <1>1 DEF KInv, BaseLowest, Chained, Outermost, Leads, Mark, Sym, At, vars, Nodes, Under,
              ZeroWidthRanked, Bytes, Cost
<1>2. CASE Next
  <2>1. BaseLowest'
    BY <1>2, LowestStep DEF KInv
  <2>2. CASE MergeStep
    BY <2>1, <2>2, MergeStepKeeps DEF Keeps
  <2>3. CASE \E v, w \in Versions : Merge(v, w)
    BY <2>1, <2>3, MergeStarts
  <2>4. CASE ~MergeStep /\ ~\E v, w \in Versions : Merge(v, w)
    <3>1. calls' = <<>>
      BY <1>2, <2>4, QuietStep
    <3>2. Len(calls') = 0
      BY <3>1
    <3>3. 1 .. Len(calls') - 1 = {}
      BY <3>2
    <3> QED
      BY <2>1, <3>1, <3>3 DEF KInv, Chained, Outermost
  <2> QED
    BY <2>2, <2>3, <2>4
<1> QED
  BY <1>1, <1>2

\* If zero-width symbols are ranked, a merge loses no stack of its two versions: it sets out
\* with all of them, no step of stackNodeAddLink loses one, and when it is over all of them are
\* below the node of the first version (src/stack.go:587).
THEOREM MergesKeepStacks ==
    ZeroWidthRanked =>
       (Spec => [][\A v1, v2 \in Versions, s \in Seq(Marks) :
                      /\ Merge(v1, v2) /\ (History(heads[v1].node, s) \/ History(heads[v2].node, s))
                            => Kept(node, links, calls, s)'
                      /\ calls # <<>> /\ merged = <<v1, v2>> /\ Kept(node, links, calls, s)
                            => IF calls' # <<>> THEN Kept(node, links, calls, s)'
                               ELSE History(heads[v1].node, s)']_vars)
<1> SUFFICES ASSUME ZeroWidthRanked
             PROVE Spec => [][\A v1, v2 \in Versions, s \in Seq(Marks) :
                      /\ Merge(v1, v2) /\ (History(heads[v1].node, s) \/ History(heads[v2].node, s))
                            => Kept(node, links, calls, s)'
                      /\ calls # <<>> /\ merged = <<v1, v2>> /\ Kept(node, links, calls, s)
                            => IF calls' # <<>> THEN Kept(node, links, calls, s)'
                               ELSE History(heads[v1].node, s)']_vars
  OBVIOUS
<1>1. Init => KInv
  <2> SUFFICES ASSUME Init PROVE KInv
    OBVIOUS
  <2>1. Len(node) = 1 /\ calls = <<>> /\ Len(calls) = 0
    BY DEF Init
  <2>2. Nodes = {1} /\ 1 .. Len(calls) - 1 = {}
    BY <2>1 DEF Nodes
  <2> QED
    BY <2>1, <2>2 DEF KInv, BaseLowest, Chained, Outermost, Base
<1>2. IInv /\ [Next]_vars => IInv'
  <2>1. IInv /\ UNCHANGED vars => IInv'
    BY DEF IInv, TypeOK, LinkSums, Descends, HeadsPlaced, OneTask, CallsAligned, DropsPlaced,
           WalkPlaced, vars, Nodes, Versions, Bytes, Cost, ZeroWidthRanked, Under
  <2> QED
    BY <2>1, RunningIInv, CallIInv DEF Next
<1>3. IInv /\ IInv' /\ KInv /\ [Next]_vars => KInv'
  BY KInvStep
<1>4. IInv /\ IInv' /\ KInv /\ KInv' /\ [Next]_vars =>
        [\A v1, v2 \in Versions, s \in Seq(Marks) :
                      /\ Merge(v1, v2) /\ (History(heads[v1].node, s) \/ History(heads[v2].node, s))
                            => Kept(node, links, calls, s)'
                      /\ calls # <<>> /\ merged = <<v1, v2>> /\ Kept(node, links, calls, s)
                            => IF calls' # <<>> THEN Kept(node, links, calls, s)'
                               ELSE History(heads[v1].node, s)']_vars
  <2> SUFFICES ASSUME IInv, IInv', KInv, KInv', Next,
                      NEW v1 \in Versions, NEW v2 \in Versions, NEW s \in Seq(Marks)
               PROVE  /\ Merge(v1, v2) /\ (History(heads[v1].node, s) \/ History(heads[v2].node, s))
                            => Kept(node, links, calls, s)'
                      /\ calls # <<>> /\ merged = <<v1, v2>> /\ Kept(node, links, calls, s)
                            => IF calls' # <<>> THEN Kept(node, links, calls, s)'
                               ELSE History(heads[v1].node, s)'
    OBVIOUS
  <2>1. ASSUME Merge(v1, v2), History(heads[v1].node, s) \/ History(heads[v2].node, s)
        PROVE Kept(node', links', calls', s)
    BY <2>1, MergeStarts DEF KInv
  <2>2. ASSUME calls # <<>>, merged = <<v1, v2>>, Kept(node, links, calls, s)
        PROVE IF calls' # <<>> THEN Kept(node', links', calls', s)
              ELSE Stands(node', links', heads'[v1].node, s, 0)
    <3>1. ~\E v, w \in Versions : Merge(v, w)
      BY <2>2 DEF Merge, CanCall, Idle
    <3>2. MergeStep
      BY <2>2, <3>1, QuietStep
    <3>3. merged[1] = v1
      BY <2>2
    <3> QED
      BY <2>2, <3>2, <3>3, MergeStepKeeps DEF Keeps, KInv
  <2> QED
    BY <2>1, <2>2 DEF History
<1> QED
  BY <1>1, <1>2, <1>3, <1>4, Invariant, PTL DEF Spec
-----------------------------------------------------------------------------
(* What pops and summaries find: the ways down from the version they were  *)
(* called for, each a list of the links that are followed.                 *)

\* The node a way has come to after m of its links,
WayAt(top, by, m) == IF m = 0 THEN top ELSE by[m].node
WayDown(ls, top, by) ==
    \A k \in 1 .. Len(by) :
       \E i \in 1 .. Len(ls[WayAt(top, by, k - 1)]) : by[k] = ls[WayAt(top, by, k - 1)][i]
\* the links with a subtree and those that count, extras aside, among the first m,
Met(by, m) == {k \in 1 .. m : by[k].sub # NoTree}
Symbols(by, m) == {k \in 1 .. m : ~Extra(by[k].sub)}
AllPending(by, m) ==
    \A k \in 1 .. m : Extra(by[k].sub) \/ (by[k].sub # NoTree /\ by[k].pending)
\* and a list of just the subtrees, in order.
Reads(subs, by, m) ==
    /\ Len(subs) = Cardinality(Met(by, m))
    /\ \A k \in Met(by, m) : subs[Cardinality(Met(by, k))] = by[k].sub

\* An iterator is where the first m links of a way lead, and has what is on them.
Follows(op, it, top, by, m) ==
    /\ it.node = WayAt(top, by, m)
    /\ it.count = Cardinality(Symbols(by, m))
    /\ op # "summary" => Reads(it.subs, by, m)
    /\ it.pending <=> AllPending(by, m)

\* The ways a pop returns: over as many symbols as it was asked for, the last link being one of
\* them; over one, all of it pending; to the bottom; down to the first subtree, an error.
LastCounts(by) == by # <<>> => ~Extra(by[Len(by)].sub)
Wanted(ls, op, goal, top, by) ==
    /\ WayDown(ls, top, by)
    /\ op = "count" => Cardinality(Symbols(by, Len(by))) = goal /\ LastCounts(by)
    /\ op = "pending" => /\ Cardinality(Symbols(by, Len(by))) = 1 /\ LastCounts(by)
                         /\ AllPending(by, Len(by))
    /\ op = "all" => ls[WayAt(top, by, Len(by))] = <<>>
    /\ op = "error" => Met(by, Len(by)) = {Len(by)} /\ Facts[by[Len(by)].sub].error
    /\ op = "summary" => Cardinality(Symbols(by, Len(by))) <= goal

\* Not stopped after m links, as far as the callback goes.
Open(op, goal, by, m) ==
    /\ op = "count" => Cardinality(Symbols(by, m)) # goal
    /\ op = "pending" => ~(Cardinality(Symbols(by, m)) >= 1)
    /\ op = "error" => Met(by, m) = {}
    /\ op = "summary" => ~(Cardinality(Symbols(by, m)) > goal)

\* A slice is what a way has: its subtrees, top last, and where it leads.
Returns(hs, slice, top, by) ==
    /\ hs[slice.version].node = WayAt(top, by, Len(by))
    /\ Reads(Backwards(slice.subs), by, Len(by))
\* An entry names the state and the place a way leads to, and its depth.
Names(nd, entry, top, by) ==
    LET n == WayAt(top, by, Len(by))
    IN entry = [depth |-> Cardinality(Symbols(by, Len(by))), state |-> nd[n].state,
                pos |-> nd[n].pos]

Tracks(ls, op, goal, it, top, by) ==
    /\ WayDown(ls, top, by)
    /\ Follows(op, it, top, by, Len(by))
    /\ by # <<>> => Open(op, goal, by, Len(by) - 1)

Origin == heads[walk.version].node

\* A set of the first places is finite, and has the next one or stays as it is.
LEMMA MetCounted ==
    ASSUME NEW by, NEW m \in Nat
    PROVE  /\ IsFiniteSet(Met(by, m)) /\ Cardinality(Met(by, m)) \in Nat
           /\ IsFiniteSet(Symbols(by, m)) /\ Cardinality(Symbols(by, m)) \in Nat
<1>1. IsFiniteSet(1 .. m)
  BY FS_Interval
<1>2. Met(by, m) \in SUBSET (1 .. m) /\ Symbols(by, m) \in SUBSET (1 .. m)
  BY DEF Met, Symbols
<1> QED
  BY <1>1, <1>2, FS_Subset, FS_CardinalityType

LEMMA NoneMet ==
    ASSUME NEW by
    PROVE  /\ Met(by, 0) = {} /\ Cardinality(Met(by, 0)) = 0
           /\ Symbols(by, 0) = {} /\ Cardinality(Symbols(by, 0)) = 0
           /\ AllPending(by, 0)
<1>1. 1 .. 0 = {}
  OBVIOUS
<1>2. Met(by, 0) = {} /\ Symbols(by, 0) = {}
  BY <1>1 DEF Met, Symbols
<1> QED
  BY <1>1, <1>2, FS_EmptySet DEF AllPending

\* One more link counts if it has a subtree, or if it is no extra.
LEMMA OneMoreMet ==
    ASSUME NEW by, NEW m \in Nat
    PROVE  /\ Met(by, m + 1) = IF by[m + 1].sub # NoTree THEN Met(by, m) \cup {m + 1} ELSE Met(by, m)
           /\ Cardinality(Met(by, m + 1)) =
                IF by[m + 1].sub # NoTree THEN Cardinality(Met(by, m)) + 1 ELSE Cardinality(Met(by, m))
           /\ Cardinality(Symbols(by, m + 1)) =
                IF ~Extra(by[m + 1].sub) THEN Cardinality(Symbols(by, m)) + 1
                ELSE Cardinality(Symbols(by, m))
<1>1. 1 .. m + 1 = (1 .. m) \cup {m + 1} /\ m + 1 \notin 1 .. m
  OBVIOUS
<1>2. Met(by, m + 1) = IF by[m + 1].sub # NoTree THEN Met(by, m) \cup {m + 1} ELSE Met(by, m)
  BY <1>1 DEF Met
<1>3. Symbols(by, m + 1) = IF ~Extra(by[m + 1].sub) THEN Symbols(by, m) \cup {m + 1} ELSE Symbols(by, m)
  BY <1>1 DEF Symbols
<1>4. m + 1 \notin Met(by, m) /\ m + 1 \notin Symbols(by, m)
  BY <1>1 DEF Met, Symbols
<1>5. Cardinality(Met(by, m) \cup {m + 1}) = Cardinality(Met(by, m)) + 1
  BY <1>4, MetCounted, FS_AddElement
<1>6. Cardinality(Symbols(by, m) \cup {m + 1}) = Cardinality(Symbols(by, m)) + 1
  BY <1>4, MetCounted, FS_AddElement
<1> QED
  BY <1>2, <1>3, <1>5, <1>6

\* The further down, the more.
LEMMA MoreMet ==
    ASSUME NEW by, NEW m \in Nat, NEW n \in Nat, m <= n
    PROVE  Cardinality(Symbols(by, m)) <= Cardinality(Symbols(by, n))
<1>1. Symbols(by, m) \in SUBSET Symbols(by, n)
  BY DEF Symbols
<1> QED
  BY <1>1, MetCounted, FS_Subset

\* The subtree of a link is in the list at the place of the link among those that have one.
LEMMA MetBefore ==
    ASSUME NEW by, NEW m \in Nat, NEW k \in Met(by, m)
    PROVE  k \in 1 .. m /\ Cardinality(Met(by, k)) \in 1 .. Cardinality(Met(by, m))
<1>1. k \in 1 .. m /\ k \in Nat
  BY DEF Met
<1>2. k \in Met(by, k) /\ Met(by, k) \in SUBSET Met(by, m)
  BY <1>1 DEF Met
<1>3. Cardinality(Met(by, k)) <= Cardinality(Met(by, m))
  BY <1>2, MetCounted, FS_Subset
<1>4. Cardinality(Met(by, k)) # 0
  BY <1>1, <1>2, MetCounted, FS_EmptySet
<1> QED
  BY <1>1, <1>3, <1>4, MetCounted

\* What is said of the first links depends on them alone.
LEMMA SameFirst ==
    ASSUME NEW by, NEW by2, NEW m \in Nat, \A k \in 1 .. m : by2[k] = by[k]
    PROVE  /\ \A j \in 0 .. m : Met(by2, j) = Met(by, j) /\ Symbols(by2, j) = Symbols(by, j)
           /\ \A top : \A j \in 0 .. m : WayAt(top, by2, j) = WayAt(top, by, j)
           /\ \A op, it, top : Follows(op, it, top, by, m) <=> Follows(op, it, top, by2, m)
<1>1. \A j \in 0 .. m : 1 .. j \subseteq 1 .. m
  OBVIOUS
<1>2. \A j \in 0 .. m : Met(by2, j) = Met(by, j) /\ Symbols(by2, j) = Symbols(by, j)
  BY <1>1 DEF Met, Symbols
<1>3. \A top : \A j \in 0 .. m : WayAt(top, by2, j) = WayAt(top, by, j)
  <2> SUFFICES ASSUME NEW top, NEW j \in 0 .. m PROVE WayAt(top, by2, j) = WayAt(top, by, j)
    OBVIOUS
  <2>1. j # 0 => j \in 1 .. m
    OBVIOUS
  <2> QED
    BY <2>1 DEF WayAt
<1>4. AllPending(by2, m) <=> AllPending(by, m)
  BY DEF AllPending
<1>5. \A subs : Reads(subs, by, m) <=> Reads(subs, by2, m)
  <2>1. \A k \in Met(by, m) : k \in 0 .. m /\ k \in 1 .. m
    BY DEF Met
  <2>2. Met(by2, m) = Met(by, m)
    BY <1>2
  <2>3. \A k \in Met(by, m) : Met(by2, k) = Met(by, k) /\ by2[k] = by[k]
    BY <1>2, <2>1
  <2> QED
    BY <2>2, <2>3 DEF Reads
<1>6. m \in 0 .. m
  OBVIOUS
<1> QED
  BY <1>2, <1>3, <1>4, <1>5, <1>6 DEF Follows

\* An iterator moved along the next link of a way follows it further.
LEMMA AlongFollows ==
    ASSUME NEW it \in Iterator, NEW by, NEW m \in Nat, by[m + 1] \in Link, NEW top,
           Follows(walk.op, it, top, by, m)
    PROVE  Follows(walk.op, Along(it, by[m + 1]), top, by, m + 1)
<1> DEFINE l == by[m + 1]  al == Along(it, l)
<1>1. /\ l.sub \in Trees /\ it.subs \in Seq(Subtree) /\ it.count \in Nat /\ it.pending \in BOOLEAN
  BY DEF Link, Iterator
<1>2. /\ al.node = l.node
      /\ al.subs = IF l.sub # NoTree /\ walk.op # "summary" THEN Append(it.subs, l.sub) ELSE it.subs
      /\ al.count = IF Extra(l.sub) THEN it.count ELSE it.count + 1
  BY DEF Along
<1>3. al.pending <=> it.pending /\ (Extra(l.sub) \/ (l.sub # NoTree /\ l.pending))
  BY Zenon DEF Along
<1>4. al.node = WayAt(top, by, m + 1)
  BY <1>2 DEF WayAt
<1>5. al.count = Cardinality(Symbols(by, m + 1))
  BY <1>1, <1>2, OneMoreMet DEF Follows
<1>6. al.pending <=> AllPending(by, m + 1)
  <2>1. 1 .. m + 1 = (1 .. m) \cup {m + 1}
    OBVIOUS
  <2>2. AllPending(by, m + 1) <=> AllPending(by, m) /\ (Extra(l.sub) \/ (l.sub # NoTree /\ l.pending))
    BY <2>1 DEF AllPending
  <2>3. it.pending <=> AllPending(by, m)
    BY Zenon DEF Follows
  <2> HIDE DEF l, al
  <2> QED
    BY <1>3, <2>2, <2>3, Zenon
<1>7. ASSUME walk.op # "summary"
      PROVE  Reads(al.subs, by, m + 1)
  <2>1. Reads(it.subs, by, m)
    BY <1>7 DEF Follows
  <2>2. Len(it.subs) = Cardinality(Met(by, m)) /\ Cardinality(Met(by, m)) \in Nat
    BY <2>1, MetCounted DEF Reads
  <2>3. CASE l.sub # NoTree
    <3>1. al.subs = Append(it.subs, l.sub) /\ l.sub \in Subtree
      BY <1>1, <1>2, <1>7, <2>3 DEF Trees
    <3>2. /\ Len(al.subs) = Len(it.subs) + 1
          /\ \A i \in 1 .. Len(it.subs) : al.subs[i] = it.subs[i]
          /\ al.subs[Len(it.subs) + 1] = l.sub
      BY <1>1, <3>1, AppendProperties
    <3>3. Met(by, m + 1) = Met(by, m) \cup {m + 1} /\ Cardinality(Met(by, m + 1)) = Cardinality(Met(by, m)) + 1
      BY <2>3, OneMoreMet
    <3>4. \A k \in Met(by, m) : al.subs[Cardinality(Met(by, k))] = by[k].sub
      BY <2>1, <2>2, <3>2, MetBefore DEF Reads
    <3>5. al.subs[Cardinality(Met(by, m + 1))] = by[m + 1].sub
      BY <2>2, <3>2, <3>3
    <3> QED
      BY <2>2, <3>2, <3>3, <3>4, <3>5 DEF Reads
  <2>4. CASE l.sub = NoTree
    <3>1. al.subs = it.subs /\ Met(by, m + 1) = Met(by, m)
      BY <1>2, <2>4, OneMoreMet
    <3> QED
      BY <2>1, <3>1 DEF Reads
  <2> QED
    BY <2>3, <2>4
<1> QED
  BY <1>4, <1>5, <1>6, <1>7, Zenon DEF Follows

\* An iterator is about to be moved, and there is no room for one along each link.
Crowded == /\ Walking /\ ~ShouldStop
           /\ Len(links[It.node]) - 1 > MaxIterators - Len(walk.its)

\* The iterators left when one is stopped,
LEMMA StoppedIterators ==
    ASSUME IInv, Walking, ShouldStop
    PROVE  /\ \A q \in 1 .. Len(Iterators) :
                 \E j \in 1 .. Len(walk.its) : Iterators[q] = walk.its[j]
           /\ \A j \in 1 .. Len(walk.its) :
                 j # walk.at => \E q \in 1 .. Len(Iterators) : Iterators[q] = walk.its[j]
<1> DEFINE s == walk.its  i == walk.at
<1>1. /\ s \in Seq(Iterator) /\ Len(s) \in Nat /\ i \in 1 .. Len(s)
  BY ItTyped, WalkTyped DEF Walking, ItsGood
<1>2. Iterators = Without(s, i)
  BY DEF Iterators
<1>3. /\ Len(Without(s, i)) = Len(s) - 1
      /\ \A j \in 1 .. Len(s) - 1 : Without(s, i)[j] = IF j < i THEN s[j] ELSE s[j + 1]
  BY <1>1, WithoutProperties
<1> HIDE DEF s, i
<1>4. ASSUME NEW q \in 1 .. Len(Iterators)
      PROVE  \E j \in 1 .. Len(s) : Iterators[q] = s[j]
  <2>1. q \in 1 .. Len(s) /\ q + 1 \in 1 .. Len(s) /\ q \in 1 .. Len(s) - 1
    BY <1>1, <1>2, <1>3
  <2>2. Iterators[q] = s[q] \/ Iterators[q] = s[q + 1]
    BY <1>2, <1>3, <2>1
  <2> QED
    BY <2>1, <2>2
<1>5. ASSUME NEW j \in 1 .. Len(s), j # i
      PROVE  \E q \in 1 .. Len(Iterators) : Iterators[q] = s[j]
  <2>1. CASE j < i
    <3>1. j \in 1 .. Len(s) - 1
      BY <1>1, <2>1
    <3> QED
      BY <1>2, <1>3, <2>1, <3>1
  <2>2. CASE j > i
    <3>1. j - 1 \in 1 .. Len(s) - 1 /\ ~(j - 1 < i) /\ (j - 1) + 1 = j
      BY <1>1, <2>2
    <3>2. Iterators[j - 1] = s[(j - 1) + 1]
      BY <1>2, <1>3, <3>1
    <3> QED
      BY <1>2, <1>3, <3>1, <3>2
  <2> QED
    BY <1>1, <1>5, <2>1, <2>2
<1> QED
  BY <1>4, <1>5 DEF s, i

\* and when it is not.
LEMMA MovedIterators ==
    ASSUME IInv, Walking, ~ShouldStop
    PROVE  /\ \A q \in 1 .. Len(Iterators) :
                 \/ \E j \in 1 .. Len(walk.its) : Iterators[q] = walk.its[j]
                 \/ \E k \in 1 .. Len(links[It.node]) : Iterators[q] = Along(It, links[It.node][k])
           /\ \A j \in 1 .. Len(walk.its) :
                 j # walk.at => \E q \in 1 .. Len(Iterators) : Iterators[q] = walk.its[j]
           /\ ~Crowded => \A k \in 1 .. Len(links[It.node]) :
                 \E q \in 1 .. Len(Iterators) : Iterators[q] = Along(It, links[It.node][k])
<1> DEFINE s == walk.its  i == walk.at  ls == links[It.node]
           room == MaxIterators - Len(s)
           n == IF Len(ls) - 1 <= room THEN Len(ls) - 1 ELSE room
           a == Along(It, ls[1])
           moved == [s EXCEPT ![i] = a]
<1>1. /\ s \in Seq(Iterator) /\ Len(s) \in Nat /\ Len(s) <= MaxIterators /\ i \in 1 .. Len(s)
  BY ItTyped, WalkTyped DEF Walking, ItsGood
<1>2. It \in Iterator /\ It.node \in Nodes
  BY ItTyped
<1>3. ls # <<>>
  BY DEF ShouldStop
<1>4. ls \in Seq(Link) /\ Len(ls) \in Nat \ {0}
  BY <1>2, <1>3, GraphTyped, LenProperties, EmptySeq DEF IInv
<1>5. \A k \in 1 .. Len(ls) : Along(It, ls[k]) \in Iterator
  BY <1>2, <1>4, ElementOfSeq, AlongTyped
<1>6. room \in Nat
  BY <1>1, BoundsAssumption
<1>7. Forks = [j \in 1 .. n |-> Along(It, ls[j + 1])] /\ Iterators = moved \o Forks
  BY DEF Forks, Iterators
<1>8. ~Crowded => Len(ls) - 1 <= room
  BY <1>1, <1>4, <1>6 DEF Crowded
<1> HIDE DEF s, i, ls, room
<1>9. n \in Nat /\ n <= Len(ls) - 1 /\ (~Crowded => n = Len(ls) - 1)
  BY <1>4, <1>6, <1>8
<1> HIDE DEF n
<1>10. a \in Iterator
  BY <1>4, <1>5
<1> HIDE DEF a
<1>11. moved \in Seq(Iterator) /\ Len(moved) = Len(s)
       /\ \A j \in 1 .. Len(s) : moved[j] = IF j = i THEN a ELSE s[j]
  BY <1>1, <1>10, ExceptSeq
<1>12. Forks \in Seq(Iterator) /\ Len(Forks) = n
       /\ \A j \in 1 .. n : Forks[j] = Along(It, ls[j + 1])
  <2>1. \A j \in 1 .. n : Along(It, ls[j + 1]) \in Iterator
    BY <1>4, <1>5, <1>9
  <2>2. [j \in 1 .. n |-> Along(It, ls[j + 1])] \in Seq(Iterator)
    BY <1>9, <2>1, IsASeq
  <2> QED
    BY <1>7, <1>9, <2>2
<1> HIDE DEF moved
<1>13. /\ Len(Iterators) = Len(s) + n
       /\ \A k \in 1 .. Len(s) + n : Iterators[k] =
             IF k <= Len(s) THEN moved[k] ELSE Forks[k - Len(s)]
  <2>1. /\ Len(moved \o Forks) = Len(moved) + Len(Forks)
        /\ \A k \in 1 .. Len(moved) + Len(Forks) : (moved \o Forks)[k] =
              IF k <= Len(moved) THEN moved[k] ELSE Forks[k - Len(moved)]
    BY <1>11, <1>12, ConcatProperties
  <2> QED
    BY <1>7, <1>11, <1>12, <2>1
<1>14. ASSUME NEW q \in 1 .. Len(Iterators)
       PROVE  \/ \E j \in 1 .. Len(s) : Iterators[q] = s[j]
              \/ \E k \in 1 .. Len(ls) : Iterators[q] = Along(It, ls[k])
  <2>1. CASE q <= Len(s)
    <3>1. q \in 1 .. Len(s) /\ Iterators[q] = moved[q]
      BY <1>1, <1>9, <1>13, <2>1
    <3>2. 1 \in 1 .. Len(ls) /\ a = Along(It, ls[1])
      BY <1>4 DEF a
    <3> QED
      BY <1>11, <3>1, <3>2
  <2>2. CASE q > Len(s)
    <3>1. q - Len(s) \in 1 .. n /\ Iterators[q] = Forks[q - Len(s)]
      BY <1>1, <1>9, <1>13, <2>2
    <3>2. (q - Len(s)) + 1 \in 1 .. Len(ls)
      BY <1>4, <1>9, <3>1
    <3> QED
      BY <1>12, <3>1, <3>2
  <2> QED
    BY <1>1, <1>9, <1>13, <2>1, <2>2
<1>15. ASSUME NEW j \in 1 .. Len(s), j # i
       PROVE  \E q \in 1 .. Len(Iterators) : Iterators[q] = s[j]
  <2>1. j \in 1 .. Len(s) + n /\ j <= Len(s)
    BY <1>1, <1>9
  <2> QED
    BY <1>11, <1>13, <1>15, <2>1
<1>16. ASSUME ~Crowded, NEW k \in 1 .. Len(ls)
       PROVE  \E q \in 1 .. Len(Iterators) : Iterators[q] = Along(It, ls[k])
  <2>1. CASE k = 1
    <3>1. i \in 1 .. Len(s) + n /\ i <= Len(s)
      BY <1>1, <1>9
    <3>2. Iterators[i] = a
      BY <1>1, <1>11, <1>13, <3>1
    <3> QED
      BY <1>13, <2>1, <3>1, <3>2 DEF a
  <2>2. CASE k > 1
    <3>1. k - 1 \in 1 .. n /\ (k - 1) + 1 = k
      BY <1>4, <1>9, <1>16, <2>2
    <3>2. Forks[k - 1] = Along(It, ls[k])
      BY <1>12, <3>1
    <3>3. /\ Len(s) + (k - 1) \in 1 .. Len(s) + n /\ ~(Len(s) + (k - 1) <= Len(s))
          /\ (Len(s) + (k - 1)) - Len(s) = k - 1
      BY <1>1, <1>9, <3>1
    <3>4. Iterators[Len(s) + (k - 1)] = Forks[k - 1]
      BY <1>13, <3>3
    <3> QED
      BY <1>13, <3>2, <3>3, <3>4
  <2> QED
    BY <1>4, <2>1, <2>2
<1> QED
  BY <1>14, <1>15, <1>16 DEF s, i, ls

\* Reversed twice, a list is as it was.
LEMMA TwiceBackwards ==
    ASSUME NEW S, NEW s \in Seq(S)
    PROVE  Backwards(Backwards(s)) = s
<1> DEFINE n == Len(s)  b == Backwards(s)
<1>1. n \in Nat /\ DOMAIN s = 1 .. n /\ s = [i \in 1 .. n |-> s[i]]
  BY LenProperties
<1>2. b = [i \in 1 .. n |-> s[n + 1 - i]]
  BY DEF Backwards
<1>3. b \in Seq(S)
  BY BackwardsTyped
<1>4. Len(b) = n
  BY <1>1, <1>2, <1>3, LenProperties
<1>5. Backwards(b) = [i \in 1 .. n |-> b[n + 1 - i]]
  BY <1>4 DEF Backwards
<1> HIDE DEF n, b
<1>6. \A i \in 1 .. n : b[n + 1 - i] = s[i]
  <2> SUFFICES ASSUME NEW i \in 1 .. n PROVE b[n + 1 - i] = s[i]
    OBVIOUS
  <2>1. n + 1 - i \in 1 .. n /\ n + 1 - (n + 1 - i) = i
    BY <1>1
  <2> QED
    BY <1>2, <2>1
<1>7. Backwards(b) = [i \in 1 .. n |-> s[i]]
  BY <1>5, <1>6
<1> QED
  BY <1>1, <1>7 DEF b

\* A call of the callback: what becomes of the iteration, and, if it pops, of the slices: one
\* more, for the iterator whose turn it is.
PoppingStep == StepOver \/ PopToNew \/ \E i \in 1 .. Len(walk.slices) : PopToSame(i)
ItsSlice(hs, s) == s.subs = Backwards(It.subs) /\ hs[s.version].node = It.node
OneMoreSlice(old, new, hs) ==
    /\ Len(new) = Len(old) + 1
    /\ \A k \in 1 .. Len(new) : ItsSlice(hs, new[k]) \/ \E j \in 1 .. Len(old) : new[k] = old[j]
    /\ \A j \in 1 .. Len(old) : \E k \in 1 .. Len(new) : new[k] = old[j]
    /\ \E k \in 1 .. Len(new) : ItsSlice(hs, new[k])

\* The fields of walk that a call of the callback sets.
LEMMA MovedWalk ==
    ASSUME IInv, Walking, NEW slices, Moved(slices)
    PROVE  /\ walk'.op = walk.op /\ walk'.version = walk.version /\ walk'.goal = walk.goal
           /\ walk'.its = Iterators /\ walk'.slices = slices /\ walk'.summary = Summary
           /\ walk'.found = (walk.found \/ (walk.op = "error" /\ ErrorFirst))
<1> DEFINE its == Iterators
           last == IF ShouldStop THEN walk.size - 1 ELSE walk.size
           next == IF ShouldStop THEN walk.at ELSE walk.at + 1
           found == walk.found \/ (walk.op = "error" /\ ErrorFirst)
           at == IF next > last THEN 1 ELSE next
           size == IF next > last THEN Len(Iterators) ELSE last
           summary == Summary
<1>1. walk' = [walk EXCEPT !.its = its, !.slices = slices, !.summary = summary,
                           !.found = found, !.at = at, !.size = size]
  BY DEF Moved
<1>2. walk \in Walk
  BY DEF IInv, TypeOK
<1> HIDE DEF its, at, size, found, summary
<1>3. walk' = [op |-> walk.op, version |-> walk.version, goal |-> walk.goal,
               its |-> its, at |-> at, size |-> size, slices |-> slices,
               found |-> found, summary |-> summary]
  BY <1>1, <1>2 DEF Walk
<1>4. /\ walk'.op = walk.op /\ walk'.version = walk.version /\ walk'.goal = walk.goal
      /\ walk'.its = its /\ walk'.slices = slices /\ walk'.summary = summary
      /\ walk'.found = found
  BY <1>3
<1> QED
  BY <1>4 DEF its, summary, found

\* A new version comes with its slice, the last,
LEMMA PoppedToNew ==
    ASSUME IInv, PopToNew
    PROVE  /\ OneMoreSlice(walk.slices, walk'.slices, heads')
           /\ \A v \in Versions : heads'[v] = heads[v]
<1> DEFINE h == NewHead(It.node, heads[walk.version])
           s == [version |-> Len(heads) + 1, subs |-> Backwards(It.subs)]
           old == walk.slices
           new == Append(old, s)
<1>1. Walking /\ walk.version \in Versions /\ SlicesGood(old, Len(heads)) /\ It \in Iterator
  BY WalkTyped, ItTyped DEF PopToNew, Walking
<1>2. walk'.slices = new
  BY <1>1, MovedWalk DEF PopToNew
<1>3. heads \in Seq(Version) /\ Len(heads) \in Nat
  BY HeadsTyped, LenProperties DEF IInv, TypeOK
<1>4. h.node = It.node
  BY DEF NewHead
<1> HIDE DEF h
<1>5. /\ \A v \in Versions : heads'[v] = heads[v]
      /\ heads'[Len(heads) + 1] = h
  <2>1. heads' = Append(heads, h)
    BY DEF PopToNew, h
  <2> QED
    BY <1>3, <2>1, AppendProperties DEF Versions
<1>6. ItsSlice(heads', s)
  BY <1>4, <1>5 DEF ItsSlice
<1>7. old \in Seq(Slice) /\ Len(old) \in Nat
  BY <1>1, LenProperties DEF SlicesGood
<1> HIDE DEF s, old
<1>8. Len(new) = Len(old) + 1 /\ (\A k \in 1 .. Len(old) : new[k] = old[k]) /\ new[Len(old) + 1] = s
  BY <1>7, AppendProperties
<1> HIDE DEF new
<1>9. ASSUME NEW k \in 1 .. Len(new)
      PROVE  ItsSlice(heads', new[k]) \/ \E j \in 1 .. Len(old) : new[k] = old[j]
  <2>1. k \in 1 .. Len(old) \/ k = Len(old) + 1
    BY <1>7, <1>8
  <2> QED
    BY <1>6, <1>8, <2>1
<1>10. ASSUME NEW j \in 1 .. Len(old)
       PROVE  \E k \in 1 .. Len(new) : new[k] = old[j]
  <2>1. j \in 1 .. Len(new)
    BY <1>7, <1>8
  <2> QED
    BY <1>8, <2>1
<1>11. \E k \in 1 .. Len(new) : ItsSlice(heads', new[k])
  <2>1. Len(old) + 1 \in 1 .. Len(new)
    BY <1>7, <1>8
  <2> QED
    BY <1>6, <1>8, <2>1
<1>12. OneMoreSlice(old, new, heads')
  BY <1>8, <1>9, <1>10, <1>11 DEF OneMoreSlice
<1> QED
  BY <1>2, <1>5, <1>12 DEF old

\* one more of a version that has slices comes after these,
LEMMA PoppedToSame ==
    ASSUME IInv, NEW i \in 1 .. Len(walk.slices), PopToSame(i)
    PROVE  OneMoreSlice(walk.slices, walk'.slices, heads)
<1> DEFINE old == walk.slices
           s == [version |-> old[i].version, subs |-> Backwards(It.subs)]
           a == SubSeq(old, 1, i)  b == SubSeq(old, i + 1, Len(old))
           new == a \o <<s>> \o b
<1>1. Walking /\ SlicesGood(old, Len(heads)) /\ It \in Iterator
  BY WalkTyped, ItTyped DEF PopToSame, Walking
<1>2. walk'.slices = new
  BY <1>1, MovedWalk DEF PopToSame
<1>3. heads[old[i].version].node = It.node
  BY DEF PopToSame, IsLast, SliceFor
<1>4. ItsSlice(heads, s)
  BY <1>3 DEF ItsSlice
<1>5. old \in Seq(Slice) /\ Len(old) \in Nat /\ i \in 1 .. Len(old)
  BY <1>1, LenProperties DEF SlicesGood
<1>6. s \in Slice
  <2>1. Backwards(It.subs) \in Seq(Subtree)
    BY <1>1, BackwardsTyped DEF Iterator
  <2>2. old[i] \in Slice
    BY <1>5, ElementOfSeq
  <2>3. old[i].version \in Nat
    BY <2>2 DEF Slice
  <2> QED
    BY <2>1, <2>3 DEF Slice
<1> HIDE DEF s, old
<1>7. a \in Seq(Slice) /\ Len(a) = i /\ \A j \in 1 .. i : a[j] = old[j]
  BY <1>5, SubSeqProperties
<1>8. b \in Seq(Slice) /\ Len(b) = Len(old) - i /\ \A j \in 1 .. Len(old) - i : b[j] = old[i + j]
  BY <1>5, SubSeqProperties
<1> HIDE DEF a, b
<1> DEFINE c == a \o <<s>>
<1>9. c \in Seq(Slice) /\ Len(c) = i + 1 /\ (\A j \in 1 .. i : c[j] = old[j]) /\ c[i + 1] = s
  <2>1. <<s>> \in Seq(Slice) /\ Len(<<s>>) = 1 /\ <<s>>[1] = s
    BY <1>6
  <2>2. /\ a \o <<s>> \in Seq(Slice) /\ Len(a \o <<s>>) = Len(a) + Len(<<s>>)
        /\ \A j \in 1 .. Len(a) + Len(<<s>>) :
              (a \o <<s>>)[j] = IF j <= Len(a) THEN a[j] ELSE <<s>>[j - Len(a)]
    BY <1>7, <2>1, ConcatProperties
  <2>3. \A j \in 1 .. i : j \in 1 .. i + 1 /\ j <= i
    BY <1>5
  <2>4. i + 1 \in 1 .. i + 1 /\ ~(i + 1 <= i) /\ (i + 1) - i = 1
    BY <1>5
  <2> QED
    BY <1>7, <2>1, <2>2, <2>3, <2>4
<1>10. new = c \o b
  OBVIOUS
<1> HIDE DEF c, new
<1>11. /\ Len(new) = Len(old) + 1
       /\ \A j \in 1 .. Len(old) + 1 : new[j] = IF j <= i + 1 THEN c[j] ELSE b[j - (i + 1)]
  <2>1. /\ Len(c \o b) = Len(c) + Len(b)
        /\ \A j \in 1 .. Len(c) + Len(b) : (c \o b)[j] = IF j <= Len(c) THEN c[j] ELSE b[j - Len(c)]
    BY <1>8, <1>9, ConcatProperties
  <2>2. (i + 1) + (Len(old) - i) = Len(old) + 1
    BY <1>5
  <2> QED
    BY <1>8, <1>9, <1>10, <2>1, <2>2
<1>12. \A j \in 1 .. i : new[j] = old[j]
  <2>1. \A j \in 1 .. i : j \in 1 .. Len(old) + 1 /\ j <= i + 1
    BY <1>5
  <2> QED
    BY <1>9, <1>11, <2>1
<1>13. i + 1 \in 1 .. Len(new) /\ new[i + 1] = s
  <2>1. i + 1 \in 1 .. Len(old) + 1 /\ i + 1 <= i + 1
    BY <1>5
  <2> QED
    BY <1>9, <1>11, <2>1
<1>14. \A j \in i + 1 .. Len(old) : new[j + 1] = old[j]
  <2> SUFFICES ASSUME NEW j \in i + 1 .. Len(old) PROVE new[j + 1] = old[j]
    OBVIOUS
  <2>1. /\ j + 1 \in 1 .. Len(old) + 1 /\ ~(j + 1 <= i + 1) /\ (j + 1) - (i + 1) = j - i
        /\ j - i \in 1 .. Len(old) - i /\ i + (j - i) = j
    BY <1>5
  <2>2. new[j + 1] = b[j - i]
    BY <1>11, <2>1
  <2> QED
    BY <1>8, <2>1, <2>2
<1>15. ASSUME NEW k \in 1 .. Len(new)
       PROVE  ItsSlice(heads, new[k]) \/ \E j \in 1 .. Len(old) : new[k] = old[j]
  <2>1. CASE k <= i
    <3>1. k \in 1 .. i /\ k \in 1 .. Len(old)
      BY <1>5, <2>1
    <3> QED
      BY <1>12, <3>1
  <2>2. CASE k = i + 1
    BY <1>4, <1>13, <2>2
  <2>3. CASE k > i + 1
    <3>1. k - 1 \in i + 1 .. Len(old) /\ (k - 1) + 1 = k /\ k - 1 \in 1 .. Len(old)
      BY <1>5, <1>11, <2>3
    <3> QED
      BY <1>14, <3>1
  <2> QED
    BY <1>5, <1>11, <2>1, <2>2, <2>3
<1>16. ASSUME NEW j \in 1 .. Len(old)
       PROVE  \E k \in 1 .. Len(new) : new[k] = old[j]
  <2>1. CASE j <= i
    <3>1. j \in 1 .. i /\ j \in 1 .. Len(new)
      BY <1>5, <1>11, <2>1
    <3> QED
      BY <1>12, <3>1
  <2>2. CASE j > i
    <3>1. j \in i + 1 .. Len(old) /\ j + 1 \in 1 .. Len(new)
      BY <1>5, <1>11, <2>2
    <3> QED
      BY <1>14, <3>1
  <2> QED
    BY <1>5, <2>1, <2>2
<1>17. OneMoreSlice(old, new, heads)
  BY <1>4, <1>11, <1>13, <1>15, <1>16 DEF OneMoreSlice
<1> QED
  BY <1>2, <1>17 DEF old

\* and so, of every call of the callback:
LEMMA PoppingSteps ==
    ASSUME IInv, Walking, PoppingStep
    PROVE  /\ walk'.op = walk.op /\ walk'.version = walk.version /\ walk'.goal = walk.goal
           /\ walk'.its = Iterators /\ walk'.summary = Summary
           /\ walk'.found = (walk.found \/ (walk.op = "error" /\ ErrorFirst))
           /\ links' = links /\ node' = node
           /\ \A v \in Versions : heads'[v] = heads[v]
           /\ ShouldPop => OneMoreSlice(walk.slices, walk'.slices, heads')
           /\ ~ShouldPop => walk'.slices = walk.slices
<1>1. CASE StepOver
  BY <1>1, MovedWalk DEF StepOver, graph
<1>2. CASE PopToNew
  <2>1. /\ OneMoreSlice(walk.slices, walk'.slices, heads')
        /\ \A v \in Versions : heads'[v] = heads[v]
    BY <1>2, PoppedToNew
  <2> QED
    BY <1>2, <2>1, MovedWalk DEF PopToNew, graph
<1>3. ASSUME NEW i \in 1 .. Len(walk.slices), PopToSame(i)
      PROVE  /\ walk'.op = walk.op /\ walk'.version = walk.version /\ walk'.goal = walk.goal
             /\ walk'.its = Iterators /\ walk'.summary = Summary
             /\ walk'.found = (walk.found \/ (walk.op = "error" /\ ErrorFirst))
             /\ links' = links /\ node' = node /\ heads' = heads
             /\ ShouldPop /\ OneMoreSlice(walk.slices, walk'.slices, heads)
  <2>1. OneMoreSlice(walk.slices, walk'.slices, heads)
    BY <1>3, PoppedToSame
  <2> QED
    BY <1>3, <2>1, MovedWalk DEF PopToSame, graph
<1> QED
  BY <1>1, <1>2, <1>3 DEF PoppingStep

\* All other steps are of a stack without iteration, end one, or start one.
LEMMA OtherSteps ==
    ASSUME IInv, Next, ~PoppingStep
    PROVE  \/ walk'.op = "none"
           \/ /\ walk.op = "none"
              /\ \E op \in Ops4, v \in Versions, goal \in Nat : StartWalk(op, v, goal)
<1>1. ASSUME NEW op, CanCall(op)
      PROVE walk.op = "none"
  BY <1>1 DEF CanCall, Idle
<1>2. CASE ReleaseStep
  BY <1>2 DEF ReleaseStep, IInv, OneTask
<1>3. CASE MergeStep
  <2>1. walk.op = "none"
    BY <1>3 DEF MergeStep, IInv, OneTask
  <2>2. walk' = walk
    BY <1>3 DEF MergeStep, LinkToSelf, LinkToSameNode, LinkToLikeNode, LinkAdded, LikeNodeDone,
                MergeDone
  <2> QED
    BY <2>1, <2>2
<1>4. CASE WalkStep
  BY <1>4 DEF WalkStep, PoppingStep, ReturnSlices, ReturnRenumbered, KeepSummary, WalkOver, NoWalk
<1>5. CASE Clear
  BY <1>5 DEF Clear, CanCall, Idle
<1>6. ASSUME NEW v \in Versions,
             \/ \E t \in Trees, s \in State :
                  Push(v, t, FALSE, s) \/ (Inner(t) /\ Push(v, t, TRUE, s))
             \/ RemoveVersion(v) \/ CopyVersion(v) \/ Halt(v) \/ Pause(v) \/ Resume(v)
             \/ NodeCountSinceError(v)
             \/ \E t \in Token : SetLastExternalToken(v, t)
             \/ \E w \in Versions : RenumberVersion(v, w) \/ SwapVersions(v, w) \/ Merge(v, w)
      PROVE walk'.op = "none"
  BY <1>6 DEF Push, RemoveVersion, CopyVersion, Halt, Pause, Resume, NodeCountSinceError,
              SetLastExternalToken, RenumberVersion, SwapVersions, Merge, CanCall, Idle
<1>7. ASSUME NEW v \in Versions,
             \/ \E n \in 0 .. MaxPop : PopCount(v, n)
             \/ PopPending(v) \/ PopError(v) \/ PopAll(v) \/ RecordSummary(v)
      PROVE walk.op = "none" /\ \E op \in Ops4, goal \in Nat : StartWalk(op, v, goal)
  <2>1. MaxDepth \in Nat /\ 0 .. MaxPop \subseteq Nat
    BY BoundsAssumption
  <2>2. walk.op = "none"
    BY <1>7 DEF PopCount, PopPending, PopError, PopAll, RecordSummary, CanCall, Idle
  <2>3. \E op \in Ops4, goal \in Nat : StartWalk(op, v, goal)
    BY <1>7, <2>1 DEF PopCount, PopPending, PopError, PopAll, RecordSummary, Ops4
  <2> QED
    BY <2>2, <2>3
<1> QED
  BY <1>2, <1>3, <1>4, <1>5, <1>6, <1>7 DEF Next, Running, Call

\* The answer of the callback, by operation.
LEMMA Answers ==
    ASSUME IInv, Walking
    PROVE  /\ walk.op = "count" => (ShouldPop <=> It.count = walk.goal)
           /\ walk.op = "pending" => (ShouldPop <=> It.count >= 1 /\ It.pending)
           /\ walk.op = "error" => (ShouldPop <=> ErrorFirst)
           /\ walk.op = "all" => (ShouldPop <=> links[It.node] = <<>>)
           /\ walk.op = "summary" => ~ShouldPop
           /\ walk.op \in Ops4
<1>1. walk.op \in Ops4
  BY WalkTyped DEF Walking
<1>2. walk.op = "count" => (ShouldPop <=> It.count = walk.goal)
  BY Zenon DEF ShouldPop
<1>3. walk.op = "pending" => (ShouldPop <=> It.count >= 1 /\ It.pending)
  BY Zenon DEF ShouldPop
<1>4. walk.op = "error" => (ShouldPop <=> ErrorFirst)
  BY Zenon DEF ShouldPop
<1>5. walk.op = "all" => (ShouldPop <=> links[It.node] = <<>>)
  BY Zenon DEF ShouldPop
<1>6. walk.op = "summary" => ~ShouldPop
  BY Zenon DEF ShouldPop
<1> QED
  BY <1>1, <1>2, <1>3, <1>4, <1>5, <1>6, Zenon

\* Whether it stops the iterator.
LEMMA Stops ==
    ASSUME IInv, Walking
    PROVE  /\ links[It.node] = <<>> => ShouldStop
           /\ walk.op = "count" => (ShouldStop <=> links[It.node] = <<>> \/ It.count = walk.goal)
           /\ walk.op = "pending" => (ShouldStop <=> links[It.node] = <<>> \/ It.count >= 1)
           /\ walk.op = "error" => (ShouldStop <=> links[It.node] = <<>> \/ It.subs # <<>>)
           /\ walk.op = "summary" => (ShouldStop <=> links[It.node] = <<>> \/ It.count > walk.goal)
           /\ walk.op = "all" => (ShouldStop <=> links[It.node] = <<>>)
<1>1. walk.op \in Ops4
  BY WalkTyped DEF Walking
<1>2. CASE walk.op = "count"
  BY <1>2, Zenon DEF ShouldStop
<1>3. CASE walk.op = "pending"
  BY <1>3, Zenon DEF ShouldStop
<1>4. CASE walk.op = "error"
  BY <1>4, Zenon DEF ShouldStop
<1>5. CASE walk.op = "all"
  BY <1>5, Zenon DEF ShouldStop
<1>6. CASE walk.op = "summary"
  BY <1>6, Zenon DEF ShouldStop
<1> QED
  BY <1>1, <1>2, <1>3, <1>4, <1>5, <1>6 DEF Ops4

\* A way with one more link, of the node it has come to, is a way.
LEMMA LongerWay ==
    ASSUME NEW by \in Seq(Link), NEW top, WayDown(links, top, by),
           NEW l \in Link, NEW k \in 1 .. Len(links[WayAt(top, by, Len(by))]),
           l = links[WayAt(top, by, Len(by))][k]
    PROVE  /\ Append(by, l) \in Seq(Link) /\ Len(Append(by, l)) = Len(by) + 1 /\ Len(by) \in Nat
           /\ Append(by, l)[Len(by) + 1] = l
           /\ \A j \in 1 .. Len(by) : Append(by, l)[j] = by[j]
           /\ WayDown(links, top, Append(by, l))
<1> DEFINE n == Len(by)  by2 == Append(by, l)
<1>1. n \in Nat /\ by2 \in Seq(Link) /\ Len(by2) = n + 1 /\ by2[n + 1] = l
      /\ \A j \in 1 .. n : by2[j] = by[j]
  BY AppendProperties, LenProperties
<1> HIDE DEF by2, n
<1>2. \A j \in 0 .. n : WayAt(top, by2, j) = WayAt(top, by, j)
  BY <1>1, SameFirst
<1>3. ASSUME NEW j \in 1 .. Len(by2)
      PROVE  \E i \in 1 .. Len(links[WayAt(top, by2, j - 1)]) :
                by2[j] = links[WayAt(top, by2, j - 1)][i]
  <2>1. CASE j \in 1 .. n
    <3>1. j - 1 \in 0 .. n
      BY <1>1, <2>1
    <3>2. \E i \in 1 .. Len(links[WayAt(top, by, j - 1)]) : by[j] = links[WayAt(top, by, j - 1)][i]
      BY <2>1 DEF WayDown, n
    <3> QED
      BY <1>1, <1>2, <2>1, <3>1, <3>2
  <2>2. CASE j = n + 1
    <3>1. j - 1 = n /\ n \in 0 .. n
      BY <1>1, <2>2
    <3>2. WayAt(top, by2, j - 1) = WayAt(top, by, n)
      BY <1>2, <3>1
    <3>3. by2[j] = links[WayAt(top, by, n)][k]
      BY <1>1, <2>2 DEF n
    <3> QED
      BY <3>2, <3>3 DEF n
  <2> QED
    BY <1>1, <2>1, <2>2
<1>4. WayDown(links, top, by2)
  BY <1>3 DEF WayDown
<1> QED
  BY <1>1, <1>4 DEF by2, n

\* An iterator not stopped goes on along a way, whichever link of its node it takes.
LEMMA TrackedAlong ==
    ASSUME IInv, Walking, ~ShouldStop, NEW by \in Seq(Link), NEW top,
           Tracks(links, walk.op, walk.goal, It, top, by), NEW k \in 1 .. Len(links[It.node])
    PROVE  \E by2 \in Seq(Link) :
              Tracks(links, walk.op, walk.goal, Along(It, links[It.node][k]), top, by2)
<1> DEFINE l == links[It.node][k]  by2 == Append(by, l)  n == Len(by)
<1>1. It \in Iterator /\ It.node \in Nodes
  BY ItTyped
<1>2. l \in Link
  BY <1>1, GraphTyped DEF IInv
<1>3. /\ WayDown(links, top, by) /\ Follows(walk.op, It, top, by, n)
      /\ It.node = WayAt(top, by, n)
  BY DEF Tracks, Follows
<1>4. /\ by2 \in Seq(Link) /\ Len(by2) = n + 1 /\ n \in Nat /\ by2[n + 1] = l
      /\ \A j \in 1 .. n : by2[j] = by[j] /\ WayDown(links, top, by2)
  BY <1>2, <1>3, LongerWay
<1>5. WayDown(links, top, by2)
  BY <1>2, <1>3, LongerWay
<1> HIDE DEF by2, l, n
<1>6. Follows(walk.op, It, top, by2, n)
  BY <1>3, <1>4, SameFirst
<1>7. Follows(walk.op, Along(It, l), top, by2, n + 1)
  BY <1>1, <1>2, <1>4, <1>6, AlongFollows
<1>8. (n + 1) - 1 = n
  BY <1>4
<1>9. Open(walk.op, walk.goal, by2, n)
  <2>1. It.count = Cardinality(Symbols(by2, n))
    BY <1>6 DEF Follows
  <2>2. walk.op = "error" => Met(by2, n) = {}
    <3> SUFFICES ASSUME walk.op = "error" PROVE Met(by2, n) = {}
      OBVIOUS
    <3>1. It.subs = <<>>
      BY Stops
    <3>2. Len(It.subs) = Cardinality(Met(by2, n))
      BY <1>6 DEF Follows, Reads
    <3> QED
      BY <1>4, <3>1, <3>2, MetCounted, FS_EmptySet
  <2> QED
    BY <2>1, <2>2, Stops DEF Open
<1>10. Tracks(links, walk.op, walk.goal, Along(It, l), top, by2)
  BY <1>4, <1>5, <1>7, <1>8, <1>9 DEF Tracks
<1> QED
  BY <1>4, <1>10 DEF l

\* One that pops has come to the end of a way that is wanted,
LEMMA TrackedPops ==
    ASSUME IInv, Walking, ShouldPop, NEW by \in Seq(Link), NEW top,
           Tracks(links, walk.op, walk.goal, It, top, by)
    PROVE  Wanted(links, walk.op, walk.goal, top, by)
<1> DEFINE n == Len(by)
<1>1. n \in Nat
  BY LenProperties
<1>2. /\ WayDown(links, top, by) /\ Follows(walk.op, It, top, by, n)
      /\ by # <<>> => Open(walk.op, walk.goal, by, n - 1)
  BY DEF Tracks
<1>3. /\ It.node = WayAt(top, by, n) /\ It.count = Cardinality(Symbols(by, n))
      /\ It.pending <=> AllPending(by, n)
  BY <1>2 DEF Follows
<1>4. ASSUME by # <<>>
      PROVE  n - 1 \in Nat /\ (n - 1) + 1 = n /\ n \in 1 .. n
  BY <1>1, <1>4, EmptySeq
<1>5. by = <<>> => n = 0
  OBVIOUS
<1> HIDE DEF n
<1>6. ASSUME by # <<>>
      PROVE  /\ Cardinality(Symbols(by, n)) = IF ~Extra(by[n].sub) THEN Cardinality(Symbols(by, n - 1)) + 1
                                              ELSE Cardinality(Symbols(by, n - 1))
             /\ Met(by, n) = IF by[n].sub # NoTree THEN Met(by, n - 1) \cup {n} ELSE Met(by, n - 1)
             /\ Cardinality(Symbols(by, n - 1)) \in Nat
  <2>1. PICK m \in Nat : n = m + 1
    BY <1>4, <1>6
  <2>2. n - 1 = m
    BY <2>1
  <2> QED
    BY <2>1, <2>2, OneMoreMet, MetCounted
<1>7. CASE walk.op = "count"
  <2>1. Cardinality(Symbols(by, n)) = walk.goal
    BY <1>3, <1>7, Answers
  <2>2. by # <<>> => ~Extra(by[n].sub)
    BY <1>2, <1>6, <1>7, <2>1 DEF Open
  <2> QED
    BY <1>2, <1>7, <2>1, <2>2 DEF Wanted, LastCounts, n
<1>8. CASE walk.op = "pending"
  <2>1. It.count >= 1 /\ It.pending
    BY <1>8, Answers
  <2>2. by # <<>>
    BY <1>3, <1>5, <2>1, NoneMet
  <2>3. ~(Cardinality(Symbols(by, n - 1)) >= 1)
    BY <1>2, <1>8, <2>2 DEF Open
  <2>4. Cardinality(Symbols(by, n - 1)) = 0
    BY <1>6, <2>2, <2>3
  <2>5. Cardinality(Symbols(by, n)) = 1 /\ ~Extra(by[n].sub)
    <3>1. Cardinality(Symbols(by, n)) >= 1
      BY <1>3, <2>1
    <3> QED
      BY <1>6, <2>2, <2>4, <3>1
  <2> QED
    BY <1>2, <1>3, <1>8, <2>1, <2>5 DEF Wanted, LastCounts, n
<1>9. CASE walk.op = "all"
  <2>1. links[WayAt(top, by, n)] = <<>>
    BY <1>3, <1>9, Answers
  <2> QED
    BY <1>2, <1>9, <2>1 DEF Wanted, n
<1>10. CASE walk.op = "error"
  <2>1. It.subs # <<>> /\ Facts[It.subs[1]].error
    BY <1>10, Answers DEF ErrorFirst
  <2>2. Reads(It.subs, by, n) /\ It.subs \in Seq(Subtree)
    BY <1>2, <1>10, ItTyped DEF Follows, Iterator
  <2>3. Cardinality(Met(by, n)) # 0
    BY <2>1, <2>2, EmptySeq DEF Reads
  <2>4. by # <<>>
    BY <1>5, <2>3, NoneMet
  <2>5. Met(by, n - 1) = {}
    BY <1>2, <1>10, <2>4 DEF Open
  <2>6. Met(by, n) = {n}
    BY <1>6, <2>3, <2>4, <2>5, FS_EmptySet
  <2>7. Cardinality(Met(by, n)) = 1
    BY <2>6, FS_Singleton
  <2>8. It.subs[1] = by[n].sub
    BY <2>2, <2>6, <2>7 DEF Reads
  <2> QED
    BY <1>2, <1>10, <2>1, <2>6, <2>8 DEF Wanted, n
<1> QED
  BY <1>7, <1>8, <1>9, <1>10, Answers DEF Ops4

\* and a slice has what it has collected.
LEMMA ItsSliceReturns ==
    ASSUME IInv, Walking, NEW by, NEW top, NEW hs, NEW s, ItsSlice(hs, s),
           Follows(walk.op, It, top, by, Len(by)), walk.op # "summary"
    PROVE  Returns(hs, s, top, by)
<1>1. It.subs \in Seq(Subtree)
  BY ItTyped DEF Iterator
<1>2. Backwards(s.subs) = It.subs
  BY <1>1, TwiceBackwards DEF ItsSlice
<1> QED
  BY <1>2 DEF Returns, Follows, ItsSlice

\* What the slices and the summary hold is real, and so is what each iterator has.
PopsReal ==
    walk.op \in {"count", "pending", "error", "all"} =>
       /\ \A k \in 1 .. Len(walk.slices) : \E by \in Seq(Link) :
             /\ Wanted(links, walk.op, walk.goal, Origin, by)
             /\ Returns(heads, walk.slices[k], Origin, by)
       /\ walk.op = "error" => Len(walk.slices) <= 1
SummaryReal ==
    walk.op = "summary" =>
       \A k \in 1 .. Len(walk.summary) : \E by \in Seq(Link) :
          /\ Wanted(links, walk.op, walk.goal, Origin, by)
          /\ Names(node, walk.summary[k], Origin, by)
OnWays ==
    walk.op # "none" =>
       \A q \in 1 .. Len(walk.its) : \E by \in Seq(Link) :
          Tracks(links, walk.op, walk.goal, walk.its[q], Origin, by)
FoundOnce ==
    walk.op = "error" => /\ walk.found => Len(walk.slices) = 1
                         /\ ~walk.found => Len(walk.slices) = 0
WInv == PopsReal /\ SummaryReal /\ OnWays /\ FoundOnce

\* At the start there is one iterator, and every way lies ahead of it.
LEMMA StartReal ==
    ASSUME IInv, walk.op = "none", NEW op \in Ops4, NEW v \in Versions, NEW goal \in Nat,
           StartWalk(op, v, goal)
    PROVE  /\ WInv'
           /\ \A by \in Seq(Link) : Follows(walk'.op, walk'.its[1], Origin', by, 0)
           /\ Len(walk'.its) = 1
<1> DEFINE it == [node |-> heads[v].node, subs |-> <<>>, count |-> 0, pending |-> TRUE]
<1>1. /\ walk'.op = op /\ walk'.version = v /\ walk'.goal = goal /\ walk'.its = <<it>>
      /\ walk'.slices = <<>> /\ walk'.found = FALSE /\ walk'.summary = <<>>
      /\ heads' = heads
  BY DEF StartWalk, NoWalk
<1>2. Origin' = heads[v].node
  BY <1>1 DEF Origin
<1>3. Len(walk'.its) = 1 /\ walk'.its[1] = it /\ Len(walk'.slices) = 0 /\ Len(walk'.summary) = 0
  BY <1>1
<1>4. ASSUME NEW by
      PROVE  Follows(op, it, heads[v].node, by, 0)
  <2>1. /\ Met(by, 0) = {} /\ Cardinality(Met(by, 0)) = 0
        /\ Symbols(by, 0) = {} /\ Cardinality(Symbols(by, 0)) = 0 /\ AllPending(by, 0)
    BY NoneMet
  <2>2. Reads(<<>>, by, 0)
    BY <2>1 DEF Reads
  <2> QED
    BY <2>1, <2>2 DEF Follows, WayAt
<1>5. Tracks(links', op, goal, it, heads[v].node, <<>>)
  <2>1. Len(<<>>) = 0 /\ 1 .. Len(<<>>) = {}
    OBVIOUS
  <2> QED
    BY <1>4, <2>1 DEF Tracks, WayDown
<1>6. OnWays'
  <2>1. <<>> \in Seq(Link)
    OBVIOUS
  <2>2. \A q \in 1 .. Len(walk'.its) : q = 1
    BY <1>3
  <2> QED
    BY <1>1, <1>2, <1>3, <1>5, <2>1, <2>2 DEF OnWays
<1>7. PopsReal' /\ SummaryReal' /\ FoundOnce'
  <2>1. 1 .. Len(walk'.slices) = {} /\ 1 .. Len(walk'.summary) = {} /\ Len(walk'.slices) <= 1
    BY <1>3
  <2> QED
    BY <1>1, <1>3, <2>1 DEF PopsReal, SummaryReal, FoundOnce
<1> QED
  BY <1>1, <1>2, <1>3, <1>4, <1>6, <1>7 DEF WInv

\* The callback changes no version there was.
LEMMA OriginStays ==
    ASSUME IInv, Walking, PoppingStep
    PROVE  /\ Origin' = Origin
           /\ \A k \in 1 .. Len(walk.slices) : \A top, by :
                 Returns(heads', walk.slices[k], top, by) <=> Returns(heads, walk.slices[k], top, by)
<1>1. walk.version \in Versions /\ \A k \in 1 .. Len(walk.slices) : walk.slices[k].version \in Versions
  BY WalkTyped DEF Walking, SlicesGood, Versions
<1>2. walk'.version = walk.version /\ \A v \in Versions : heads'[v] = heads[v]
  BY PoppingSteps
<1> QED
  BY <1>1, <1>2 DEF Origin, Returns

\* Each iterator stays on a way,
LEMMA OnWaysStep ==
    ASSUME IInv, WInv, Walking, PoppingStep
    PROVE  OnWays'
<1>1. /\ walk'.op = walk.op /\ walk'.goal = walk.goal /\ walk'.its = Iterators /\ links' = links
      /\ Origin' = Origin
  BY PoppingSteps, OriginStays
<1>2. \A q \in 1 .. Len(walk.its) : \E by \in Seq(Link) :
          Tracks(links, walk.op, walk.goal, walk.its[q], Origin, by)
  BY DEF WInv, OnWays, Walking
<1>3. walk.at \in 1 .. Len(walk.its)
  BY ItTyped
<1>4. PICK by \in Seq(Link) : Tracks(links, walk.op, walk.goal, It, Origin, by)
  BY <1>2, <1>3 DEF It
<1>5. ASSUME NEW q \in 1 .. Len(Iterators)
      PROVE  \E b \in Seq(Link) : Tracks(links, walk.op, walk.goal, Iterators[q], Origin, b)
  <2>1. CASE ShouldStop
    BY <1>2, <2>1, StoppedIterators
  <2>2. CASE ~ShouldStop
    <3>1. \A k \in 1 .. Len(links[It.node]) : \E b \in Seq(Link) :
             Tracks(links, walk.op, walk.goal, Along(It, links[It.node][k]), Origin, b)
      BY <1>4, <2>2, TrackedAlong
    <3> QED
      BY <1>2, <2>2, <3>1, MovedIterators
  <2> QED
    BY <2>1, <2>2
<1> QED
  BY <1>1, <1>5 DEF OnWays

\* what is popped was such a way,
LEMMA PopsRealStep ==
    ASSUME IInv, WInv, Walking, PoppingStep
    PROVE  PopsReal' /\ FoundOnce'
<1>1. /\ walk'.op = walk.op /\ walk'.goal = walk.goal /\ links' = links
      /\ walk'.found = (walk.found \/ (walk.op = "error" /\ ErrorFirst))
      /\ ShouldPop => OneMoreSlice(walk.slices, walk'.slices, heads')
      /\ ~ShouldPop => walk'.slices = walk.slices
  BY PoppingSteps
<1>2. /\ Origin' = Origin
      /\ \A k \in 1 .. Len(walk.slices) : \A top, by :
            Returns(heads', walk.slices[k], top, by) <=> Returns(heads, walk.slices[k], top, by)
  BY OriginStays
<1>3. walk.at \in 1 .. Len(walk.its)
  BY ItTyped
<1>4. PICK by \in Seq(Link) : Tracks(links, walk.op, walk.goal, It, Origin, by)
  BY <1>3 DEF WInv, OnWays, Walking, It
<1>5. ASSUME walk.op \in {"count", "pending", "error", "all"}, NEW k \in 1 .. Len(walk'.slices)
      PROVE  \E b \in Seq(Link) : /\ Wanted(links, walk.op, walk.goal, Origin, b)
                                  /\ Returns(heads', walk'.slices[k], Origin, b)
  <2>1. ASSUME NEW j \in 1 .. Len(walk.slices), walk'.slices[k] = walk.slices[j]
        PROVE  \E b \in Seq(Link) : /\ Wanted(links, walk.op, walk.goal, Origin, b)
                                    /\ Returns(heads', walk'.slices[k], Origin, b)
    BY <1>2, <1>5, <2>1 DEF WInv, PopsReal
  <2>2. ASSUME ShouldPop, ItsSlice(heads', walk'.slices[k])
        PROVE  \E b \in Seq(Link) : /\ Wanted(links, walk.op, walk.goal, Origin, b)
                                    /\ Returns(heads', walk'.slices[k], Origin, b)
    <3>1. Wanted(links, walk.op, walk.goal, Origin, by)
      BY <1>4, <2>2, TrackedPops
    <3>2. Follows(walk.op, It, Origin, by, Len(by))
      BY <1>4 DEF Tracks
    <3>3. Returns(heads', walk'.slices[k], Origin, by)
      BY <1>5, <2>2, <3>2, ItsSliceReturns
    <3> QED
      BY <3>1, <3>3
  <2> QED
    BY <1>1, <2>1, <2>2 DEF OneMoreSlice
<1>6. walk.op = "error" => (ShouldPop <=> ErrorFirst)
  BY Answers
<1>7. ErrorFirst => ~walk.found
  BY DEF ErrorFirst
<1>8. FoundOnce'
  <2> SUFFICES ASSUME walk.op = "error" PROVE FoundOnce'
    BY <1>1 DEF FoundOnce
  <2>1. CASE ErrorFirst
    <3>1. Len(walk.slices) = 0 /\ ShouldPop
      BY <1>6, <1>7, <2>1 DEF WInv, FoundOnce
    <3>2. Len(walk'.slices) = 1
      BY <1>1, <3>1 DEF OneMoreSlice
    <3>3. walk'.found
      BY <1>1, <2>1
    <3> QED
      BY <3>2, <3>3 DEF FoundOnce
  <2>2. CASE ~ErrorFirst
    <3>1. walk'.slices = walk.slices
      BY <1>1, <1>6, <2>2
    <3>2. walk'.found <=> walk.found
      BY <1>1, <2>2, Zenon
    <3> QED
      BY <3>1, <3>2 DEF WInv, FoundOnce
  <2> QED
    BY <2>1, <2>2
<1>9. walk'.op = "error" => Len(walk'.slices) <= 1
  <2>1. walk'.op = "error" => Len(walk'.slices) = 1 \/ Len(walk'.slices) = 0
    BY <1>8, Zenon DEF FoundOnce
  <2>2. \A n : n = 1 \/ n = 0 => n <= 1
    OBVIOUS
  <2> QED
    BY <2>1, <2>2, Zenon
<1>10. PopsReal'
  BY <1>1, <1>2, <1>5, <1>9 DEF PopsReal
<1> QED
  BY <1>8, <1>10

\* An iterator no deeper than asked for: its entry is there, now or before.
LEMMA Summarised ==
    ASSUME IInv, Walking, walk.op = "summary"
    PROVE  /\ Len(walk.summary) \in Nat /\ It.count \in Nat
           /\ \A k \in 1 .. Len(walk.summary) :
                 k \in 1 .. Len(Summary) /\ Summary[k] = walk.summary[k]
           /\ \A k \in 1 .. Len(Summary) :
                 \/ k \in 1 .. Len(walk.summary) /\ Summary[k] = walk.summary[k]
                 \/ /\ It.count <= walk.goal
                    /\ Summary[k] = [depth |-> It.count, state |-> node[It.node].state,
                                     pos |-> node[It.node].pos]
           /\ It.count <= walk.goal =>
                 \E k \in 1 .. Len(Summary) : /\ Summary[k].depth = It.count
                                              /\ Summary[k].state = node[It.node].state
<1> DEFINE e == [depth |-> It.count, state |-> node[It.node].state, pos |-> node[It.node].pos]
           s == walk.summary
<1>1. It \in Iterator /\ It.node \in Nodes
  BY ItTyped
<1>2. It.count \in Nat /\ node[It.node].state \in State /\ node[It.node].pos \in Nat
  BY <1>1, GraphTyped DEF Iterator, Fixed, IInv
<1>3. e \in Entry
  BY <1>2 DEF Entry
<1>4. s \in Seq(Entry) /\ Len(s) \in Nat /\ walk.goal \in Nat
  BY WalkTyped, LenProperties DEF Walking
<1>5. e.depth = It.count /\ e.state = node[It.node].state
  OBVIOUS
<1>6. CASE It.count > walk.goal \/ Recorded
  <2>1. Summary = s
    BY <1>6 DEF Summary
  <2>2. It.count <= walk.goal => Recorded
    BY <1>2, <1>4, <1>6
  <2> QED
    BY <1>2, <1>4, <2>1, <2>2 DEF Recorded
<1>7. CASE ~(It.count > walk.goal) /\ ~Recorded
  <2>1. Summary = Append(s, e)
    BY <1>7 DEF Summary
  <2> HIDE DEF e, s
  <2>2. Len(Summary) = Len(s) + 1 /\ Summary[Len(s) + 1] = e
        /\ \A k \in 1 .. Len(s) : Summary[k] = s[k]
    BY <1>3, <1>4, <2>1, AppendProperties
  <2>3. \A k \in 1 .. Len(s) : k \in 1 .. Len(Summary)
    BY <1>4, <2>2
  <2>4. \A k \in 1 .. Len(Summary) : k \in 1 .. Len(s) \/ k = Len(s) + 1
    BY <1>4, <2>2
  <2>5. Len(s) + 1 \in 1 .. Len(Summary)
    BY <1>4, <2>2
  <2>6. It.count <= walk.goal
    BY <1>2, <1>4, <1>7
  <2>7. \E k \in 1 .. Len(Summary) : Summary[k].depth = It.count /\ Summary[k].state = node[It.node].state
    BY <1>5, <2>2, <2>5
  <2> QED
    BY <1>2, <1>4, <2>2, <2>3, <2>4, <2>6, <2>7 DEF e, s
<1> QED
  BY <1>6, <1>7

\* and so was what is recorded.
LEMMA SummaryRealStep ==
    ASSUME IInv, WInv, Walking, PoppingStep
    PROVE  SummaryReal'
<1>1. /\ walk'.op = walk.op /\ walk'.goal = walk.goal /\ links' = links /\ node' = node
      /\ walk'.summary = Summary /\ Origin' = Origin
  BY PoppingSteps, OriginStays
<1>2. walk.at \in 1 .. Len(walk.its)
  BY ItTyped
<1>3. PICK by \in Seq(Link) : Tracks(links, walk.op, walk.goal, It, Origin, by)
  BY <1>2 DEF WInv, OnWays, Walking, It
<1>4. ASSUME walk.op = "summary", NEW k \in 1 .. Len(Summary)
      PROVE  \E b \in Seq(Link) : /\ Wanted(links, walk.op, walk.goal, Origin, b)
                                  /\ Names(node, Summary[k], Origin, b)
  <2>1. CASE k \in 1 .. Len(walk.summary) /\ Summary[k] = walk.summary[k]
    BY <1>4, <2>1 DEF WInv, SummaryReal
  <2>2. CASE /\ It.count <= walk.goal
             /\ Summary[k] = [depth |-> It.count, state |-> node[It.node].state,
                              pos |-> node[It.node].pos]
    <3>1. WayDown(links, Origin, by) /\ Follows(walk.op, It, Origin, by, Len(by))
      BY <1>3 DEF Tracks
    <3>2. It.node = WayAt(Origin, by, Len(by)) /\ It.count = Cardinality(Symbols(by, Len(by)))
      BY <3>1 DEF Follows
    <3>3. Wanted(links, walk.op, walk.goal, Origin, by)
      BY <1>4, <2>2, <3>1, <3>2 DEF Wanted
    <3>4. Names(node, Summary[k], Origin, by)
      BY <2>2, <3>2 DEF Names
    <3> QED
      BY <3>3, <3>4
  <2> QED
    BY <1>4, <2>1, <2>2, Summarised
<1> QED
  BY <1>1, <1>4 DEF SummaryReal

\* With the steps that are not of an iteration, or start one:
LEMMA WInvStep ==
    ASSUME IInv, WInv, [Next]_vars
    PROVE  WInv'
<1>1. CASE UNCHANGED vars
  BY <1>1 DEF vars, WInv, PopsReal, SummaryReal, OnWays, FoundOnce, Origin
<1>2. CASE Next /\ PoppingStep
  <2>1. Walking
    BY <1>2 DEF PoppingStep, StepOver, PopToNew, PopToSame
  <2> QED
    BY <1>2, <2>1, OnWaysStep, PopsRealStep, SummaryRealStep DEF WInv
<1>3. CASE Next /\ ~PoppingStep
  <2>1. CASE walk'.op = "none"
    BY <2>1 DEF WInv, PopsReal, SummaryReal, OnWays, FoundOnce
  <2>2. CASE /\ walk.op = "none"
             /\ \E op \in Ops4, v \in Versions, goal \in Nat : StartWalk(op, v, goal)
    BY <2>2, StartReal
  <2> QED
    BY <1>3, <2>1, <2>2, OtherSteps
<1> QED
  BY <1>1, <1>2, <1>3

\* the invariant of iterations always holds.
LEMMA WInvAlways == Spec => []WInv
<1>1. Init => WInv
  BY DEF Init, NoWalk, WInv, PopsReal, SummaryReal, OnWays, FoundOnce
<1>2. IInv /\ WInv /\ [Next]_vars => WInv'
  BY WInvStep
<1> QED
  BY <1>1, <1>2, Invariant, PTL DEF Spec

\* Each slice popCount, popPending, popAll and popError have collected is a way down from the
\* version they were called for that they want, with the subtrees on it and the node it leads to;
\* popError collects one at most (src/stack.go:424, 433, 475, 450).
THEOREM PopsAreReal == Spec => []PopsReal
<1>1. WInv => PopsReal
  BY DEF WInv
<1> QED
  BY <1>1, WInvAlways, PTL

\* Each entry recordSummary has collected names the state and the position that a way down,
\* not deeper than asked for, leads to, and its depth (src/stack.go:484).
THEOREM SummariesAreReal == Spec => []SummaryReal
<1>1. WInv => SummaryReal
  BY DEF WInv
<1> QED
  BY <1>1, WInvAlways, PTL

\* A way that is wanted has been found, or an iterator is still on it.
Seen(by) ==
    /\ walk.op \in {"count", "pending", "all"} =>
          \E k \in 1 .. Len(walk.slices) : Returns(heads, walk.slices[k], Origin, by)
    /\ walk.op = "error" => walk.slices # <<>>
    /\ walk.op = "summary" =>
          \E k \in 1 .. Len(walk.summary) :
             /\ walk.summary[k].depth = Cardinality(Symbols(by, Len(by)))
             /\ walk.summary[k].state = node[WayAt(Origin, by, Len(by))].state
Ahead(by) == \E q \in 1 .. Len(walk.its), m \in 0 .. Len(by) :
                Follows(walk.op, walk.its[q], Origin, by, m)
NoneMissed ==
    walk.op # "none" =>
       \A by \in Seq(Link) :
          Wanted(links, walk.op, walk.goal, Origin, by) => Seen(by) \/ Ahead(by)

\* What has been found stays so.
LEMMA SeenStays ==
    ASSUME IInv, Walking, PoppingStep, NEW by \in Seq(Link), Seen(by)
    PROVE  Seen(by)'
<1>1. /\ walk'.op = walk.op /\ walk'.goal = walk.goal /\ links' = links /\ node' = node
      /\ walk'.summary = Summary /\ Origin' = Origin
      /\ ShouldPop => OneMoreSlice(walk.slices, walk'.slices, heads')
      /\ ~ShouldPop => walk'.slices = walk.slices
      /\ \A k \in 1 .. Len(walk.slices) : \A top, b :
            Returns(heads', walk.slices[k], top, b) <=> Returns(heads, walk.slices[k], top, b)
  BY PoppingSteps, OriginStays
<1>2. \A j \in 1 .. Len(walk.slices) : \E k \in 1 .. Len(walk'.slices) : walk'.slices[k] = walk.slices[j]
  BY <1>1 DEF OneMoreSlice
<1>3. ASSUME walk.op \in {"count", "pending", "all"}
      PROVE  \E k \in 1 .. Len(walk'.slices) : Returns(heads', walk'.slices[k], Origin, by)
  BY <1>1, <1>2, <1>3 DEF Seen
<1>4. ASSUME walk.op = "error"
      PROVE  walk'.slices # <<>>
  <2>1. walk.slices # <<>> /\ walk.slices \in Seq(Slice)
    BY <1>4, WalkTyped DEF Seen, Walking, SlicesGood
  <2>2. 1 \in 1 .. Len(walk.slices)
    BY <2>1, EmptySeq, LenProperties
  <2>3. \E k \in 1 .. Len(walk'.slices) : TRUE
    BY <1>2, <2>2
  <2> QED
    BY <2>3
<1>5. ASSUME walk.op = "summary"
      PROVE  \E k \in 1 .. Len(Summary) :
                /\ Summary[k].depth = Cardinality(Symbols(by, Len(by)))
                /\ Summary[k].state = node[WayAt(Origin, by, Len(by))].state
  BY <1>5, Summarised DEF Seen
<1> QED
  BY <1>1, <1>3, <1>4, <1>5 DEF Seen

\* At its end a wanted way is found.
LEMMA EndSeen ==
    ASSUME IInv, WInv, Walking, PoppingStep, NEW by \in Seq(Link),
           Wanted(links, walk.op, walk.goal, Origin, by),
           Follows(walk.op, It, Origin, by, Len(by))
    PROVE  Seen(by)'
<1> DEFINE n == Len(by)
<1>1. /\ walk'.op = walk.op /\ walk'.goal = walk.goal /\ links' = links /\ node' = node
      /\ walk'.summary = Summary /\ Origin' = Origin
      /\ walk'.found = (walk.found \/ (walk.op = "error" /\ ErrorFirst))
      /\ ShouldPop => OneMoreSlice(walk.slices, walk'.slices, heads')
      /\ ~ShouldPop => walk'.slices = walk.slices
  BY PoppingSteps, OriginStays
<1>2. /\ It.node = WayAt(Origin, by, n) /\ It.count = Cardinality(Symbols(by, n))
      /\ It.pending <=> AllPending(by, n)
      /\ walk.op # "summary" => Reads(It.subs, by, n)
  BY DEF Follows
<1>3. n \in Nat /\ Cardinality(Symbols(by, n)) \in Nat
  BY LenProperties, MetCounted
<1> HIDE DEF n
<1>4. ASSUME walk.op \in {"count", "pending", "all"}
      PROVE  \E k \in 1 .. Len(walk'.slices) : Returns(heads', walk'.slices[k], Origin, by)
  <2>1. ShouldPop
    <3>1. CASE walk.op = "count"
      BY <1>2, <3>1, Answers DEF Wanted, n
    <3>2. CASE walk.op = "pending"
      <4>1. It.count = 1 /\ It.pending
        BY <1>2, <3>2 DEF Wanted, n
      <4>2. It.count >= 1
        BY <4>1
      <4> QED
        BY <3>2, <4>1, <4>2, Answers
    <3>3. CASE walk.op = "all"
      BY <1>2, <3>3, Answers DEF Wanted, n
    <3> QED
      BY <1>4, <3>1, <3>2, <3>3
  <2>2. PICK k \in 1 .. Len(walk'.slices) : ItsSlice(heads', walk'.slices[k])
    BY <1>1, <2>1 DEF OneMoreSlice
  <2> QED
    BY <1>4, <2>2, ItsSliceReturns
<1>5. ASSUME walk.op = "error"
      PROVE  walk'.slices # <<>>
  <2>1. CASE walk.found
    <3>1. Len(walk.slices) = 1
      BY <1>5, <2>1 DEF WInv, FoundOnce
    <3>2. walk'.slices = walk.slices
      <4>1. ~ErrorFirst
        BY <2>1, Zenon DEF ErrorFirst
      <4> QED
        BY <1>1, <1>5, <4>1, Answers
    <3>3. walk.slices = <<>> => Len(walk.slices) = 0
      OBVIOUS
    <3>4. 0 # 1
      OBVIOUS
    <3> QED
      BY <3>1, <3>2, <3>3, <3>4, Zenon
  <2>2. CASE ~walk.found
    <3>1. Met(by, n) = {n} /\ Facts[by[n].sub].error
      BY <1>5 DEF Wanted, n
    <3>2. Cardinality(Met(by, n)) = 1
      BY <3>1, FS_Singleton
    <3>3. Len(It.subs) = 1 /\ It.subs[1] = by[n].sub
      BY <1>2, <1>5, <3>1, <3>2 DEF Reads
    <3>4. It.subs # <<>>
      BY <3>3
    <3>5. ErrorFirst
      BY <2>2, <3>1, <3>3, <3>4 DEF ErrorFirst
    <3>6. OneMoreSlice(walk.slices, walk'.slices, heads')
      BY <1>1, <1>5, <3>5, Answers
    <3>7. \E k \in 1 .. Len(walk'.slices) : TRUE
      BY <3>6 DEF OneMoreSlice
    <3> QED
      BY <3>7
  <2> QED
    BY <2>1, <2>2
<1>6. ASSUME walk.op = "summary"
      PROVE  \E k \in 1 .. Len(Summary) : /\ Summary[k].depth = Cardinality(Symbols(by, n))
                                          /\ Summary[k].state = node[WayAt(Origin, by, n)].state
  <2>1. It.count <= walk.goal
    BY <1>2, <1>6 DEF Wanted, n
  <2> QED
    BY <1>2, <1>6, <2>1, Summarised
<1> QED
  BY <1>1, <1>4, <1>5, <1>6 DEF Seen, n

\* Before, the callback does not stop the iterator.
LEMMA NotYetStopped ==
    ASSUME IInv, Walking, NEW by \in Seq(Link), NEW m \in 0 .. Len(by), m # Len(by),
           Wanted(links, walk.op, walk.goal, Origin, by), Follows(walk.op, It, Origin, by, m)
    PROVE  /\ ~ShouldStop
           /\ m + 1 \in 1 .. Len(by)
           /\ \E k \in 1 .. Len(links[It.node]) : by[m + 1] = links[It.node][k]
<1> DEFINE n == Len(by)
<1>1. n \in Nat /\ m \in Nat /\ n # 0 /\ n - 1 \in Nat /\ (n - 1) + 1 = n /\ m <= n - 1 /\ m <= n
      /\ m + 1 \in 1 .. n /\ (m + 1) - 1 = m
  BY LenProperties
<1>2. It.node = WayAt(Origin, by, m) /\ It.count = Cardinality(Symbols(by, m))
  BY DEF Follows
<1>3. PICK k \in 1 .. Len(links[It.node]) : by[m + 1] = links[It.node][k]
  <2>1. WayDown(links, Origin, by)
    BY DEF Wanted
  <2>2. PICK j \in 1 .. n : j = m + 1 /\ j - 1 = m
    BY <1>1
  <2>3. \E i \in 1 .. Len(links[WayAt(Origin, by, j - 1)]) : by[j] = links[WayAt(Origin, by, j - 1)][i]
    BY <2>1, <2>2, Zenon DEF WayDown
  <2> QED
    BY <1>2, <2>2, <2>3
<1>4. links[It.node] # <<>>
  BY <1>3
<1>5. by # <<>>
  <2>1. by = <<>> => Len(by) = 0
    OBVIOUS
  <2> QED
    BY <1>1, <2>1, Zenon
<1> HIDE DEF n
<1>6. /\ Cardinality(Symbols(by, n)) = IF ~Extra(by[n].sub) THEN Cardinality(Symbols(by, n - 1)) + 1
                                       ELSE Cardinality(Symbols(by, n - 1))
      /\ Cardinality(Symbols(by, n - 1)) \in Nat /\ Cardinality(Symbols(by, m)) \in Nat
      /\ Cardinality(Symbols(by, m)) <= Cardinality(Symbols(by, n - 1))
  <2>1. PICK p \in Nat : n = p + 1 /\ n - 1 = p
    BY <1>1
  <2>2. Cardinality(Symbols(by, m)) <= Cardinality(Symbols(by, n - 1))
    BY <1>1, MoreMet
  <2> QED
    BY <1>1, <2>1, <2>2, OneMoreMet, MetCounted
<1>7. walk.op \in Ops4 /\ walk.goal \in Nat
  BY WalkTyped DEF Walking
<1>8. CASE walk.op = "count"
  <2>1. Cardinality(Symbols(by, n)) = walk.goal /\ ~Extra(by[n].sub)
    BY <1>5, <1>8 DEF Wanted, LastCounts, n
  <2>2. It.count # walk.goal
    BY <1>2, <1>6, <1>7, <2>1
  <2> QED
    BY <1>1, <1>3, <1>4, <1>8, <2>2, Stops DEF n
<1>9. CASE walk.op = "pending"
  <2>1. Cardinality(Symbols(by, n)) = 1 /\ ~Extra(by[n].sub)
    BY <1>5, <1>9 DEF Wanted, LastCounts, n
  <2>2. ~(It.count >= 1)
    BY <1>2, <1>6, <2>1
  <2> QED
    BY <1>1, <1>3, <1>4, <1>9, <2>2, Stops DEF n
<1>10. CASE walk.op = "error"
  <2>1. Met(by, n) = {n}
    BY <1>10 DEF Wanted, n
  <2>2. Met(by, m) = {}
    <3>1. Met(by, m) \subseteq Met(by, n) /\ n \notin Met(by, m)
      BY <1>1 DEF Met
    <3> QED
      BY <2>1, <3>1
  <2>3. Len(It.subs) = 0
    <3>1. Len(It.subs) = Cardinality(Met(by, m))
      BY <1>10 DEF Follows, Reads
    <3> QED
      BY <2>2, <3>1, FS_EmptySet
  <2>4. It.subs = <<>>
    BY <2>3, ItTyped, EmptySeq DEF Iterator
  <2> QED
    BY <1>1, <1>3, <1>4, <1>10, <2>4, Stops DEF n
<1>11. CASE walk.op = "summary"
  <2>1. Cardinality(Symbols(by, n)) <= walk.goal
    BY <1>11 DEF Wanted, n
  <2>2. ~(It.count > walk.goal)
    BY <1>2, <1>6, <1>7, <2>1
  <2> QED
    BY <1>1, <1>3, <1>4, <1>11, <2>2, Stops DEF n
<1>12. CASE walk.op = "all"
  BY <1>1, <1>3, <1>4, <1>12, Stops DEF n
<1> QED
  BY <1>7, <1>8, <1>9, <1>10, <1>11, <1>12 DEF Ops4

\* A call of the callback misses no way, unless there is no room for an iterator.
LEMMA PoppingMissesNone ==
    ASSUME IInv, WInv, Walking, PoppingStep, NoneMissed, ~Crowded
    PROVE  NoneMissed'
<1>1. /\ walk'.op = walk.op /\ walk'.goal = walk.goal /\ links' = links
      /\ walk'.its = Iterators /\ Origin' = Origin
  BY PoppingSteps, OriginStays
<1> SUFFICES ASSUME NEW by \in Seq(Link), Wanted(links, walk.op, walk.goal, Origin, by)
             PROVE  Seen(by)' \/ \E q \in 1 .. Len(Iterators), m \in 0 .. Len(by) :
                                    Follows(walk.op, Iterators[q], Origin, by, m)
  BY <1>1 DEF NoneMissed, Ahead
<1>2. CASE Seen(by)
  BY <1>2, SeenStays
<1>3. CASE Ahead(by)
  <2>1. PICK q \in 1 .. Len(walk.its), m \in 0 .. Len(by) :
           Follows(walk.op, walk.its[q], Origin, by, m)
    BY <1>3 DEF Ahead
  <2>2. CASE q # walk.at
    <3>1. \E r \in 1 .. Len(Iterators) : Iterators[r] = walk.its[q]
      BY <2>2, StoppedIterators, MovedIterators
    <3> QED
      BY <2>1, <3>1
  <2>3. CASE q = walk.at
    <3>1. Follows(walk.op, It, Origin, by, m)
      BY <2>1, <2>3 DEF It
    <3>2. CASE m = Len(by)
      BY <3>1, <3>2, EndSeen
    <3>3. CASE m # Len(by)
      <4>1. /\ ~ShouldStop /\ m + 1 \in 1 .. Len(by)
            /\ \E k \in 1 .. Len(links[It.node]) : by[m + 1] = links[It.node][k]
        BY <3>1, <3>3, NotYetStopped
      <4>2. \E r \in 1 .. Len(Iterators) : Iterators[r] = Along(It, by[m + 1])
        BY <4>1, MovedIterators
      <4>3. Follows(walk.op, Along(It, by[m + 1]), Origin, by, m + 1)
        <5>1. by[m + 1] \in Link /\ m \in Nat
          BY <4>1, ElementOfSeq
        <5> QED
          BY <3>1, <5>1, ItTyped, AlongFollows
      <4>4. m + 1 \in 0 .. Len(by)
        BY <4>1
      <4> QED
        BY <4>2, <4>3, <4>4
    <3> QED
      BY <3>2, <3>3
  <2> QED
    BY <2>2, <2>3
<1> QED
  BY <1>2, <1>3 DEF NoneMissed, Walking

\* Nor does any other step.
LEMMA StepMissesNone ==
    ASSUME IInv, WInv, NoneMissed, ~Crowded, [Next]_vars
    PROVE  NoneMissed'
<1>1. CASE UNCHANGED vars
  BY <1>1 DEF vars, NoneMissed, Seen, Ahead, Origin
<1>2. CASE Next /\ PoppingStep
  <2>1. Walking
    BY <1>2 DEF PoppingStep, StepOver, PopToNew, PopToSame
  <2> QED
    BY <1>2, <2>1, PoppingMissesNone
<1>3. CASE Next /\ ~PoppingStep
  <2>1. CASE walk'.op = "none"
    BY <2>1 DEF NoneMissed
  <2>2. CASE /\ walk.op = "none"
             /\ \E op \in Ops4, v \in Versions, goal \in Nat : StartWalk(op, v, goal)
    <3>1. /\ \A by \in Seq(Link) : Follows(walk'.op, walk'.its[1], Origin', by, 0)
          /\ Len(walk'.its) = 1
      BY <2>2, StartReal
    <3>2. \A by \in Seq(Link) : Ahead(by)'
      <4> SUFFICES ASSUME NEW by \in Seq(Link) PROVE Ahead(by)'
        OBVIOUS
      <4>1. 1 \in 1 .. Len(walk'.its) /\ 0 \in 0 .. Len(by)
        BY <3>1, LenProperties
      <4> QED
        BY <3>1, <4>1 DEF Ahead
    <3> QED
      BY <3>2 DEF NoneMissed
  <2> QED
    BY <1>3, <2>1, <2>2, OtherSteps
<1> QED
  BY <1>1, <1>2, <1>3

\* An iteration misses a way only in a step that drops a link because there are already as many
\* iterators as maxIteratorCount allows (src/stack.go:320): all others keep each wanted way found
\* or under way.
THEOREM MissedOnlyWhenCrowded == Spec => [][NoneMissed /\ ~Crowded => NoneMissed']_vars
<1>1. IInv /\ WInv /\ [Next]_vars => [NoneMissed /\ ~Crowded => NoneMissed']_vars
  BY StepMissesNone
<1> QED
  BY <1>1, Invariant, WInvAlways, PTL DEF Spec

\* When no iterator is left each wanted way has been found.
AllFound ==
    walk.op # "none" /\ walk.its = <<>> =>
       \A by \in Seq(Link) : Wanted(links, walk.op, walk.goal, Origin, by) => Seen(by)

\* So where no iteration has to drop a link, popCount, popPending and popAll return every way
\* there is, popError an error if one is first on a way, and recordSummary has the depth and the
\* state of every way down to its depth (src/stack.go:271).
THEOREM PopsFindAll == Spec /\ []~Crowded => []AllFound
<1>1. Init => NoneMissed
  BY DEF Init, NoWalk, NoneMissed
<1>2. IInv /\ WInv /\ ~Crowded /\ NoneMissed /\ [Next]_vars => NoneMissed'
  BY StepMissesNone
<1>3. NoneMissed => AllFound
  <2> SUFFICES ASSUME NoneMissed, walk.op # "none", walk.its = <<>>, NEW by \in Seq(Link),
                      Wanted(links, walk.op, walk.goal, Origin, by)
               PROVE  Seen(by)
    BY DEF AllFound
  <2>1. 1 .. Len(walk.its) = {}
    OBVIOUS
  <2> QED
    BY <2>1 DEF NoneMissed, Ahead
<1> QED
  BY <1>1, <1>2, <1>3, Invariant, WInvAlways, PTL DEF Spec
=============================================================================
