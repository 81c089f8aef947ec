------------------------- MODULE VersionRaceProofs -------------------------
(***************************************************************************)
(* What condenseStack makes of the versions, for any grammar, any costs    *)
(* and any limit on their number: no version lags behind, the best one is  *)
(* kept, and they come out in order; and how their race ends.              *)
(***************************************************************************)
EXTENDS VersionRace, SequenceTheorems, TLAPS

Heads ==
  [ status : {"active", "paused", "halted"}, state : State, fresh : BOOLEAN, pos : Nat,
    cost : Nat, count : Nat, prec : Nat ]
Statuses == [cost : Nat, nodeCount : Nat, prec : Nat, isInError : BOOLEAN]

TypeOK ==
  /\ heads \in Seq(Heads) /\ finished \in Nat \cup {None} /\ accepts \in Nat
  /\ phase \in {"advance", "condense", "compare", "resume", "done"}
  /\ version \in Nat \ {0} /\ lastPosition \in Nat /\ versionCount \in Nat /\ floor \in Nat
  /\ i \in Nat \ {0} /\ j \in Nat \ {0} /\ statusI \in Statuses /\ minErrorCost \in Nat
  /\ n \in Nat /\ hasUnpausedVersion \in BOOLEAN /\ best \in SUBSET Statuses

St(hs, k) == VersionStatus(hs[k])
\* Only a version that recover gave up is left with an error that has no tree.
Settled(hs) == \A k \in 1 .. Len(hs) : hs[k].fresh => hs[k].status = "halted"
\* Whatever was racing when condenseStack began, something as good is.
Keeps(b, hs) == \A s \in b : \E k \in Racing(hs) : NoWorse(St(hs, k), s)
Sorted(hs, m) == \A k, l \in 1 .. m : k <= l => NoWorse(St(hs, k), St(hs, l))
NoneHalted(hs, m) == \A k \in 1 .. m : hs[k].status # "halted"
AllAt(hs, p) == \A k \in 1 .. Len(hs) : Active(hs[k]) => hs[k].pos >= p

Advancing ==
  /\ floor <= lastPosition
  /\ \A k \in 1 .. Len(heads) : k < version /\ Active(heads[k]) => heads[k].pos >= floor
OuterOf(hs, x, p, b) ==
  /\ x \in 1 .. Len(hs) + 1
  /\ AllAt(hs, p) /\ Keeps(b, hs) /\ NoneHalted(hs, x - 1) /\ Sorted(hs, x - 1)
Outer == OuterOf(heads, i, floor, best)
\* Version i stands behind all it was compared with; once it was swapped it stands before
\* all it is still compared with, and what it was swapped for is as good as statusI.
InnerOf(hs, x, y, s, p, b) ==
  /\ x \in 1 .. Len(hs) /\ y \in 1 .. x
  /\ AllAt(hs, p) /\ Keeps(b, hs) /\ NoneHalted(hs, x) /\ Sorted(hs, x - 1)
  /\ \A k \in 1 .. y - 1 : NoWorse(St(hs, k), St(hs, x))
  /\ NoWorse(s, St(hs, x))
  /\ \E k \in 1 .. x : (k < y \/ k = x) /\ NoWorse(St(hs, k), s)
  /\ \/ NoWorse(St(hs, x), s)
     \/ \A k \in y .. x - 1 : NoWorse(St(hs, x), St(hs, k))
Inner == InnerOf(heads, i, j, statusI, floor, best)
Resuming ==
  /\ n <= Len(heads)
  /\ i = 1 => Sorted(heads, Len(heads)) /\ (MayResume => Keeps(best, heads))

IInv ==
  /\ TypeOK /\ Settled(heads) /\ floor <= lastPosition
  /\ phase = "advance" => Advancing
  /\ phase = "condense" => Outer
  /\ phase = "compare" => Inner
  /\ phase = "resume" => Resuming

-----------------------------------------------------------------------------
(* Statuses and their order. *)

\* The costs and limits of the parser are numbers.
LEMMA Numbers ==
  /\ End \in Nat /\ PerRecovery \in Nat /\ PerMissingTree \in Nat /\ PerSkippedTree \in Nat
  /\ Unlimited \in Nat /\ MaxCount \in Nat /\ MaxPrec \in Nat /\ MaxDepth \in Nat
  /\ MaxCostDifference \in Nat /\ MaxVersionCount \in Nat \ {0}
BY NumbersAssumption

\* The status of a version is one of Statuses.
LEMMA StatusTypes ==
  ASSUME NEW h \in Heads
  PROVE  /\ ErrorCost(h) \in Nat /\ VersionStatus(h) \in Statuses
         /\ VersionStatus(h).isInError = InError(h)
<1>1. ErrorCost(h) \in Nat BY Numbers DEF Heads, ErrorCost
<1>2. InError(h) \in BOOLEAN BY DEF InError
<1>3. VersionStatus(h) \in Statuses BY <1>1, <1>2, Numbers DEF VersionStatus, Statuses, Heads
<1> QED BY <1>1, <1>3 DEF VersionStatus

\* NoWorse is a total preorder.
LEMMA Order ==
  ASSUME NEW a \in Statuses, NEW b \in Statuses, NEW c \in Statuses
  PROVE  /\ NoWorse(a, a)
         /\ NoWorse(a, b) \/ NoWorse(b, a)
         /\ NoWorse(a, b) /\ NoWorse(b, c) => NoWorse(a, c)
<1>1. a.cost \in Nat /\ b.cost \in Nat /\ c.cost \in Nat BY DEF Statuses
<1> QED BY <1>1 DEF NoWorse

\* Whatever is taken or preferred is no worse; without a preference neither is.
LEMMA Comparisons ==
  ASSUME NEW a \in Statuses, NEW b \in Statuses
  PROVE  /\ CompareVersions(a, b) \in {"takeLeft", "preferLeft"} => NoWorse(a, b)
         /\ CompareVersions(a, b) \in {"takeRight", "preferRight"} => NoWorse(b, a)
         /\ CompareVersions(a, b) \in {"takeLeft", "preferLeft", "takeRight", "preferRight", "none"}
         /\ CompareVersions(a, b) = "none" => NoWorse(a, b) /\ NoWorse(b, a)
<1>1. /\ a.cost \in Nat /\ b.cost \in Nat /\ a.isInError \in BOOLEAN /\ b.isInError \in BOOLEAN
      /\ a.prec \in Nat /\ b.prec \in Nat
  BY DEF Statuses
<1>2. CASE ~a.isInError /\ b.isInError BY <1>1, <1>2 DEF CompareVersions, NoWorse
<1>3. CASE a.isInError /\ ~b.isInError BY <1>1, <1>3 DEF CompareVersions, NoWorse
<1>4. CASE a.isInError = b.isInError
  <2>1. (a.isInError <=> b.isInError) /\ ~(~a.isInError /\ b.isInError)
        /\ ~(a.isInError /\ ~b.isInError)
    BY <1>4
  <2>2. CASE a.cost < b.cost BY <1>1, <1>4, <2>1, <2>2 DEF CompareVersions, NoWorse
  <2>3. CASE b.cost < a.cost BY <1>1, <1>4, <2>1, <2>3 DEF CompareVersions, NoWorse
  <2>4. CASE a.cost = b.cost BY <1>1, <1>4, <2>1, <2>4 DEF CompareVersions, NoWorse
  <2> QED BY <1>1, <2>2, <2>3, <2>4
<1> QED BY <1>1, <1>2, <1>3, <1>4

\* Two versions that could be merged are as good as each other.
LEMMA Mergeable ==
  ASSUME NEW a \in Heads, NEW b \in Heads, CanMerge(a, b), ~a.fresh, ~b.fresh,
         NEW m \in MergedWith(a, b)
  PROVE  /\ m \in Heads /\ ~m.fresh /\ m.status = a.status /\ m.pos = a.pos
         /\ NoWorse(VersionStatus(m), VersionStatus(a))
         /\ NoWorse(VersionStatus(a), VersionStatus(m))
         /\ NoWorse(VersionStatus(m), VersionStatus(b))
<1>1. PICK c \in {a.count, Most(a.count, b.count)}, prec \in {a.prec, Most(a.prec, b.prec)} :
        m = [a EXCEPT !.count = IF a.state = ErrorState THEN 0 ELSE c, !.prec = prec]
  BY DEF MergedWith
<1> DEFINE count == IF a.state = ErrorState THEN 0 ELSE c
<1>2. count \in Nat /\ prec \in Nat /\ m = [a EXCEPT !.count = count, !.prec = prec]
  BY <1>1 DEF Heads, Most
<1> HIDE DEF count
<1>3. /\ m \in Heads /\ m.fresh = a.fresh /\ m.status = a.status /\ m.pos = a.pos
      /\ m.state = a.state /\ m.cost = a.cost
  BY <1>2 DEF Heads
<1>4. a.status = "active" /\ b.status = "active" /\ a.state = b.state /\ a.cost = b.cost
  BY DEF CanMerge, Active
<1>5. a.cost \in Nat BY DEF Heads
<1>6. /\ VersionStatus(a).cost = a.cost /\ VersionStatus(b).cost = a.cost
      /\ VersionStatus(m).cost = a.cost
  BY <1>3, <1>4, <1>5 DEF VersionStatus, ErrorCost
<1>7. /\ VersionStatus(a).isInError <=> a.state = ErrorState
      /\ VersionStatus(b).isInError <=> a.state = ErrorState
      /\ VersionStatus(m).isInError <=> a.state = ErrorState
  BY <1>3, <1>4 DEF VersionStatus, InError
<1> QED BY <1>3, <1>5, <1>6, <1>7 DEF NoWorse

-----------------------------------------------------------------------------
(* Lists of versions. *)

\* The versions after the one that is taken out move up.
LEMMA WithoutAt ==
  ASSUME NEW hs \in Seq(Heads), NEW x \in 1 .. Len(hs)
  PROVE  /\ Without(hs, x) \in Seq(Heads) /\ Len(Without(hs, x)) = Len(hs) - 1
         /\ \A k \in 1 .. Len(hs) - 1 : Without(hs, x)[k] = IF k < x THEN hs[k] ELSE hs[k + 1]
<1> DEFINE before == SubSeq(hs, 1, x - 1)  after == SubSeq(hs, x + 1, Len(hs))
<1>1. /\ before \in Seq(Heads) /\ Len(before) = x - 1
      /\ \A k \in 1 .. x - 1 : before[k] = hs[k]
  OBVIOUS
<1>2. /\ after \in Seq(Heads) /\ Len(after) = Len(hs) - x
      /\ \A k \in 1 .. Len(hs) - x : after[k] = hs[x + k]
  OBVIOUS
<1>3. Without(hs, x) = before \o after BY DEF Without
<1> HIDE DEF before, after
<1>4. /\ before \o after \in Seq(Heads) /\ Len(before \o after) = Len(before) + Len(after)
      /\ \A k \in 1 .. Len(before) + Len(after) :
            (before \o after)[k] = IF k <= Len(before) THEN before[k] ELSE after[k - Len(before)]
  <2>1. before \in Seq(Heads) /\ after \in Seq(Heads) BY <1>1, <1>2
  <2> QED BY <2>1, ConcatProperties, Zenon
<1>5. Len(before) + Len(after) = Len(hs) - 1 BY <1>1, <1>2
<1>6. ASSUME NEW k \in 1 .. Len(hs) - 1
      PROVE  (before \o after)[k] = IF k < x THEN hs[k] ELSE hs[k + 1]
  <2>1. (before \o after)[k] = IF k <= x - 1 THEN before[k] ELSE after[k - (x - 1)]
    BY <1>1, <1>4, <1>5
  <2>2. CASE k < x
    <3>1. k \in 1 .. x - 1 BY <2>2
    <3> QED BY <1>1, <2>1, <2>2, <3>1
  <2>3. CASE ~(k < x)
    <3>1. /\ k - (x - 1) \in 1 .. Len(hs) - x /\ x + (k - (x - 1)) = k + 1
          /\ ~(k <= x - 1)
      BY <2>3
    <3> QED BY <1>2, <2>1, <2>3, <3>1
  <2> QED BY <2>2, <2>3
<1> QED BY <1>3, <1>4, <1>5, <1>6

\* Taking out a version takes out nothing good, if one as good stays or it was halted.
LEMMA KeepsWithout ==
  ASSUME NEW hs \in Seq(Heads), NEW x \in 1 .. Len(hs), NEW b \in SUBSET Statuses, Keeps(b, hs),
         \/ hs[x].status = "halted"
         \/ \E y \in 1 .. Len(hs) : /\ y # x /\ hs[y].status # "halted"
                                   /\ NoWorse(St(hs, y), St(hs, x))
  PROVE  Keeps(b, Without(hs, x))
<1> DEFINE gs == Without(hs, x)
<1>1. /\ Len(gs) = Len(hs) - 1
      /\ \A k \in 1 .. Len(hs) - 1 : gs[k] = IF k < x THEN hs[k] ELSE hs[k + 1]
  BY WithoutAt
<1>2. ASSUME NEW y \in 1 .. Len(hs), y # x, hs[y].status # "halted"
      PROVE  \E k \in Racing(gs) : gs[k] = hs[y]
  <2>1. CASE y < x
    <3>1. y \in 1 .. Len(gs) /\ gs[y] = hs[y] BY <1>1, <2>1
    <3> QED BY <1>2, <3>1 DEF Racing
  <2>2. CASE y > x
    <3>1. y - 1 \in 1 .. Len(gs) /\ gs[y - 1] = hs[y] BY <1>1, <2>2
    <3> QED BY <1>2, <3>1 DEF Racing
  <2> QED BY <1>2, <2>1, <2>2
<1>3. ASSUME NEW s \in b PROVE \E k \in Racing(gs) : NoWorse(St(gs, k), s)
  <2>1. PICK y \in 1 .. Len(hs) : hs[y].status # "halted" /\ NoWorse(St(hs, y), s)
    BY <1>3 DEF Keeps, Racing
  <2>2. CASE y # x
    <3>1. PICK k \in Racing(gs) : gs[k] = hs[y] BY <1>2, <2>1, <2>2
    <3> QED BY <2>1, <3>1 DEF St
  <2>3. CASE y = x
    <3>1. PICK z \in 1 .. Len(hs) : /\ z # x /\ hs[z].status # "halted"
                                   /\ NoWorse(St(hs, z), St(hs, x))
      BY <2>1, <2>3
    <3>2. hs[z] \in Heads /\ hs[x] \in Heads /\ s \in Statuses OBVIOUS
    <3>3. NoWorse(St(hs, z), s) BY <2>1, <2>3, <3>1, <3>2, StatusTypes, Order DEF St
    <3>4. PICK k \in Racing(gs) : gs[k] = hs[z] BY <1>2, <3>1
    <3> QED BY <3>3, <3>4 DEF St
  <2> QED BY <2>2, <2>3
<1> QED BY <1>3 DEF Keeps

\* What else holds of all, or of the first, versions of a list.
LEMMA RestWithout ==
  ASSUME NEW hs \in Seq(Heads), NEW x \in 1 .. Len(hs)
  PROVE  /\ Settled(hs) => Settled(Without(hs, x))
         /\ \A p : AllAt(hs, p) => AllAt(Without(hs, x), p)
         /\ \A m \in x .. Len(hs) : Sorted(hs, m) => Sorted(Without(hs, x), m - 1)
         /\ \A m \in 0 .. x - 1 : Sorted(hs, m) => Sorted(Without(hs, x), m)
<1> DEFINE gs == Without(hs, x)
<1>1. /\ Len(gs) = Len(hs) - 1
      /\ \A k \in 1 .. Len(hs) - 1 : gs[k] = IF k < x THEN hs[k] ELSE hs[k + 1]
  BY WithoutAt
<1>2. \A k \in 1 .. Len(gs) : \E y \in 1 .. Len(hs) : gs[k] = hs[y]
  <2> SUFFICES ASSUME NEW k \in 1 .. Len(gs) PROVE \E y \in 1 .. Len(hs) : gs[k] = hs[y]
    OBVIOUS
  <2>1. CASE k < x BY <1>1, <2>1
  <2>2. CASE k >= x
    <3>1. k + 1 \in 1 .. Len(hs) /\ gs[k] = hs[k + 1] BY <1>1, <2>2
    <3> QED BY <3>1
  <2> QED BY <2>1, <2>2
<1>3. Settled(hs) => Settled(gs) BY <1>2 DEF Settled
<1>4. \A p : AllAt(hs, p) => AllAt(gs, p) BY <1>2 DEF AllAt
<1>5. ASSUME NEW m \in x .. Len(hs), Sorted(hs, m), NEW k \in 1 .. m - 1,
             NEW l \in 1 .. m - 1, k <= l
      PROVE  NoWorse(St(gs, k), St(gs, l))
  <2> DEFINE old(y) == IF y < x THEN y ELSE y + 1
  <2>1. old(k) \in 1 .. m /\ old(l) \in 1 .. m /\ old(k) <= old(l) BY <1>5
  <2>2. gs[k] = hs[old(k)] /\ gs[l] = hs[old(l)] BY <1>1, <1>5
  <2> HIDE DEF old
  <2> QED BY <1>5, <2>1, <2>2 DEF Sorted, St
<1>6. ASSUME NEW m \in 0 .. x - 1, Sorted(hs, m) PROVE Sorted(gs, m)
  <2>1. \A k \in 1 .. m : gs[k] = hs[k] BY <1>1
  <2> QED BY <1>6, <2>1 DEF Sorted, St
<1> QED BY <1>3, <1>4, <1>5, <1>6 DEF Sorted
-----------------------------------------------------------------------------
(* A call of advance: every version is still there, and no less far. *)

OnFrom(hs, gs) ==
  /\ gs \in Seq(Heads) /\ Settled(gs) /\ Len(hs) <= Len(gs)
  /\ \A k \in 1 .. Len(hs) : gs[k].pos >= hs[k].pos /\ (Active(gs[k]) => Active(hs[k]))

\* Members of a list of versions.
LEMMA Members ==
  ASSUME NEW hs \in Seq(Heads), NEW k \in 1 .. Len(hs)
  PROVE  hs[k] \in Heads /\ hs[k].pos \in Nat
<1>1. hs[k] \in Heads OBVIOUS
<1> QED BY <1>1 DEF Heads

\* A turn may append a version,
LEMMA OnFromAppend ==
  ASSUME NEW hs \in Seq(Heads), Settled(hs), NEW h \in Heads, ~h.fresh
  PROVE  OnFrom(hs, Append(hs, h))
<1>1. /\ Append(hs, h) \in Seq(Heads) /\ Len(Append(hs, h)) = Len(hs) + 1
      /\ \A k \in 1 .. Len(hs) : Append(hs, h)[k] = hs[k]
      /\ Append(hs, h)[Len(hs) + 1] = h
  OBVIOUS
<1>2. \A k \in 1 .. Len(hs) : hs[k].pos \in Nat BY Members
<1>3. Settled(Append(hs, h))
  <2>1. \A k \in 1 .. Len(hs) + 1 : k \in 1 .. Len(hs) \/ k = Len(hs) + 1 OBVIOUS
  <2> QED BY <1>1, <2>1 DEF Settled
<1> QED BY <1>1, <1>2, <1>3 DEF OnFrom

\* change one that was active for one no further back,
LEMMA OnFromExcept ==
  ASSUME NEW hs \in Seq(Heads), NEW v \in 1 .. Len(hs), NEW h \in Heads,
         \A k \in 1 .. Len(hs) : k # v /\ hs[k].fresh => hs[k].status = "halted",
         h.fresh => h.status = "halted", h.pos >= hs[v].pos, Active(h) => Active(hs[v])
  PROVE  OnFrom(hs, [hs EXCEPT ![v] = h])
<1> DEFINE gs == [hs EXCEPT ![v] = h]
<1>1. gs \in Seq(Heads) /\ Len(gs) = Len(hs) OBVIOUS
<1>2. \A k \in 1 .. Len(hs) : gs[k] = IF k = v THEN h ELSE hs[k] OBVIOUS
<1>3. \A k \in 1 .. Len(hs) : hs[k].pos \in Nat BY Members
<1> HIDE DEF gs
<1>4. Settled(gs) BY <1>1, <1>2 DEF Settled
<1>5. ASSUME NEW k \in 1 .. Len(hs)
      PROVE  gs[k].pos >= hs[k].pos /\ (Active(gs[k]) => Active(hs[k]))
  BY <1>2, <1>3
<1>6. OnFrom(hs, gs) BY <1>1, <1>4, <1>5 DEF OnFrom
<1> QED BY <1>6 DEF gs

\* and do so several times.
LEMMA OnFromTwice ==
  ASSUME NEW fs \in Seq(Heads), NEW hs \in Seq(Heads), NEW gs,
         OnFrom(fs, hs), OnFrom(hs, gs)
  PROVE  OnFrom(fs, gs)
<1>1. gs \in Seq(Heads) BY DEF OnFrom
<1>2. Len(fs) \in Nat /\ Len(hs) \in Nat /\ Len(gs) \in Nat BY <1>1
<1>3. Len(fs) <= Len(hs) /\ Len(hs) <= Len(gs) /\ Settled(gs) BY DEF OnFrom
<1>4. ASSUME NEW k \in 1 .. Len(fs)
      PROVE  gs[k].pos >= fs[k].pos /\ (Active(gs[k]) => Active(fs[k]))
  <2>1. k \in 1 .. Len(hs) /\ k \in 1 .. Len(gs) BY <1>2, <1>3
  <2>2. fs[k] \in Heads /\ hs[k] \in Heads /\ gs[k] \in Heads BY <1>1, <2>1
  <2>3. fs[k].pos \in Nat /\ hs[k].pos \in Nat /\ gs[k].pos \in Nat BY <2>2 DEF Heads
  <2>4. gs[k].pos >= hs[k].pos /\ (Active(gs[k]) => Active(hs[k])) BY <2>1 DEF OnFrom
  <2>5. hs[k].pos >= fs[k].pos /\ (Active(hs[k]) => Active(fs[k])) BY DEF OnFrom
  <2> QED BY <2>3, <2>4, <2>5
<1> QED BY <1>1, <1>2, <1>3, <1>4 DEF OnFrom

\* A reduction leaves a version where it is in the text, and as active as it was.
LEMMA Reducing ==
  ASSUME NEW h \in Heads, NEW f \in Reduced(h)
  PROVE  f \in Heads /\ f.fresh = h.fresh /\ f.status = h.status /\ f.pos = h.pos
<1>1. PICK s \in State, prec \in {h.prec, Least(h.prec + 1, MaxPrec)} : f = ReducedTo(h, s, prec)
  <2> DEFINE ss == {t \in State : <<h.state, t>> \in Reduces}
             ps == {h.prec, Least(h.prec + 1, MaxPrec)}
  <2>1. f \in {ReducedTo(h, s, p) : s \in ss, p \in ps} BY DEF Reduced
  <2>2. ss \subseteq State OBVIOUS
  <2> HIDE DEF ss
  <2>3. \E s \in ss, p \in ps : f = ReducedTo(h, s, p)
    <3> HIDE DEF ps
    <3> QED BY <2>1
  <2> QED BY <2>2, <2>3
<1>2. prec \in Nat BY Numbers DEF Heads, Least
<1> QED BY <1>1, <1>2 DEF Heads, ReducedTo

\* A fork, merged into another version or not, is such a turn,
LEMMA Forking ==
  ASSUME NEW hs \in Seq(Heads), Settled(hs), NEW v \in 1 .. Len(hs), Active(hs[v]),
         NEW f \in Reduced(hs[v]), NEW gs \in Forked(hs, v, f)
  PROVE  OnFrom(hs, gs)
<1>1. f \in Heads /\ ~f.fresh
  <2>1. hs[v] \in Heads /\ hs[v].status = "active" BY DEF Active
  <2>2. ~hs[v].fresh BY <2>1 DEF Settled
  <2> QED BY <2>1, <2>2, Reducing DEF Heads
<1>2. CASE gs = hs
  <2>1. \A k \in 1 .. Len(hs) : hs[k].pos \in Nat BY Members
  <2> QED BY <1>2, <2>1 DEF OnFrom
<1>3. CASE gs = Append(hs, f) BY <1>1, <1>3, OnFromAppend
<1>4. ASSUME NEW k \in Takers(hs, v, f), NEW m \in MergedWith(hs[k], f), gs = [hs EXCEPT ![k] = m]
      PROVE  OnFrom(hs, gs)
  <2>1. k \in 1 .. Len(hs) /\ CanMerge(hs[k], f) BY DEF Takers
  <2>2. hs[k] \in Heads /\ Active(hs[k]) /\ ~hs[k].fresh BY <2>1 DEF CanMerge, Active, Settled
  <2>3. m \in Heads /\ ~m.fresh /\ m.status = hs[k].status /\ m.pos = hs[k].pos
    BY <1>1, <1>4, <2>1, <2>2, Mergeable
  <2>4. m.pos >= hs[k].pos
    <3>1. hs[k].pos \in Nat BY <2>1, Members
    <3> QED BY <2>3, <3>1
  <2>5. Active(m) => Active(hs[k]) BY <2>2
  <2> QED BY <1>4, <2>1, <2>3, <2>4, <2>5, OnFromExcept DEF Settled
<1> QED BY <1>2, <1>3, <1>4 DEF Forked

\* so is none,
LEMMA WithForking ==
  ASSUME NEW hs \in Seq(Heads), Settled(hs), NEW v \in 1 .. Len(hs), Active(hs[v]),
         NEW gs \in WithForks(hs, v)
  PROVE  OnFrom(hs, gs)
<1>1. CASE gs = hs
  <2>1. \A k \in 1 .. Len(hs) : hs[k].pos \in Nat BY Members
  <2> QED BY <1>1, <2>1 DEF OnFrom
<1>2. CASE gs # hs BY <1>2, Forking DEF WithForks
<1> QED BY <1>1, <1>2

\* In recover a version other than the one that recovers is settled; it becomes so.
SettledBut(hs, v) == \A k \in 1 .. Len(hs) : k # v /\ hs[k].fresh => hs[k].status = "halted"

\* a version that is halted,
LEMMA Halting ==
  ASSUME NEW hs \in Seq(Heads), NEW v \in 1 .. Len(hs), SettledBut(hs, v), Active(hs[v])
  PROVE  OnFrom(hs, Halt(hs, v))
<1> DEFINE h == [hs[v] EXCEPT !.status = "halted"]
<1>1. hs[v] \in Heads /\ hs[v].pos \in Nat BY Members
<1>2. h \in Heads /\ h.status = "halted" /\ h.pos = hs[v].pos BY <1>1 DEF Heads
<1>3. Halt(hs, v) = [hs EXCEPT ![v] = h] BY DEF Halt
<1> HIDE DEF h
<1>4. OnFrom(hs, [hs EXCEPT ![v] = h])
  <2>1. h.pos >= hs[v].pos BY <1>1, <1>2
  <2>2. Active(h) => Active(hs[v]) OBVIOUS
  <2>3. \A k \in 1 .. Len(hs) : k # v /\ hs[k].fresh => hs[k].status = "halted" BY DEF SettledBut
  <2> QED BY <1>2, <2>1, <2>2, <2>3, OnFromExcept
<1> QED BY <1>3, <1>4

\* one that skips a token,
LEMMA Skipping ==
  ASSUME NEW hs \in Seq(Heads), NEW v \in 1 .. Len(hs), SettledBut(hs, v), Active(hs[v])
  PROVE  OnFrom(hs, SkipLookahead(hs, v))
<1> DEFINE cost == ErrorCost(hs[v]) + PerSkippedTree
           pos == hs[v].pos + 1
           count == Least(hs[v].count + 1, MaxCount)
           h == [hs[v] EXCEPT !.pos = pos, !.cost = cost, !.fresh = FALSE, !.count = count]
           skipped == [hs EXCEPT ![v].pos = @ + 1, ![v].cost = cost, ![v].fresh = FALSE,
                                 ![v].count = Least(@ + 1, MaxCount)]
<1>1. hs[v] \in Heads /\ hs[v].pos \in Nat /\ hs[v].count \in Nat BY Members DEF Heads
<1>2. cost \in Nat /\ pos \in Nat BY <1>1, StatusTypes, Numbers
<1>3. count \in Nat BY <1>1, Numbers DEF Least
<1>5. skipped = [hs EXCEPT ![v] = h] OBVIOUS
<1> HIDE DEF cost, pos, count
<1>4. h \in Heads /\ ~h.fresh /\ h.pos = pos /\ h.status = hs[v].status
  BY <1>1, <1>2, <1>3 DEF Heads
<1> HIDE DEF h
<1>6. OnFrom(hs, [hs EXCEPT ![v] = h])
  BY <1>1, <1>4, OnFromExcept DEF SettledBut, Active, pos
<1>7. SkipLookahead(hs, v) \in {Halt(hs, v), skipped} BY DEF SkipLookahead, cost
<1> HIDE DEF skipped
<1> QED BY <1>5, <1>6, <1>7, Halting

\* With or without the version recovered to appended.
LEMMA Recovering ==
  ASSUME NEW hs \in Seq(Heads), NEW v \in 1 .. Len(hs), SettledBut(hs, v), Active(hs[v]),
         NEW gs \in {hs} \cup {Append(hs, h) : h \in RecoveredTo(hs, v)}
  PROVE  /\ gs \in Seq(Heads) /\ v \in 1 .. Len(gs) /\ SettledBut(gs, v) /\ Active(gs[v])
         /\ Len(hs) <= Len(gs) /\ \A k \in 1 .. Len(hs) : gs[k] = hs[k]
<1>1. CASE gs = hs BY <1>1
<1>2. ASSUME NEW h \in RecoveredTo(hs, v), gs = Append(hs, h)
      PROVE  /\ gs \in Seq(Heads) /\ v \in 1 .. Len(gs) /\ SettledBut(gs, v) /\ Active(gs[v])
             /\ Len(hs) <= Len(gs) /\ \A k \in 1 .. Len(hs) : gs[k] = hs[k]
  <2> DEFINE goals == {g \in Goals : ~WouldMerge(hs, v, g)}
  <2>1. PICK s \in goals, d \in 1 .. MaxDepth :
          h = [status |-> "active", state |-> s, fresh |-> FALSE, pos |-> hs[v].pos,
               cost |-> ErrorCost(hs[v]) + d * PerSkippedTree, count |-> 0, prec |-> hs[v].prec]
    <3> HIDE DEF goals
    <3> QED BY <1>2 DEF RecoveredTo, goals
  <2>2. s \in State /\ hs[v] \in Heads BY StatesAssumption
  <2>3. d * PerSkippedTree \in Nat
    <3>1. d \in Nat /\ PerSkippedTree \in Nat BY Numbers
    <3> QED BY <3>1
  <2>4. ErrorCost(hs[v]) + d * PerSkippedTree \in Nat BY <2>2, <2>3, StatusTypes
  <2>5. h \in Heads /\ ~h.fresh BY <2>1, <2>2, <2>4 DEF Heads
  <2>6. /\ gs \in Seq(Heads) /\ Len(gs) = Len(hs) + 1 /\ gs[Len(hs) + 1] = h
        /\ \A k \in 1 .. Len(hs) : gs[k] = hs[k]
    BY <1>2, <2>5
  <2>7. \A k \in 1 .. Len(gs) : k \in 1 .. Len(hs) \/ k = Len(hs) + 1 BY <2>6
  <2>8. SettledBut(gs, v) BY <2>5, <2>6, <2>7 DEF SettledBut
  <2> QED BY <2>6, <2>8
<1> QED BY <1>1, <1>2

\* and whatever recover makes of it.
LEMMA RecoveryOutcomes ==
  ASSUME NEW hs \in Seq(Heads), NEW v \in 1 .. Len(hs), SettledBut(hs, v), Active(hs[v]),
         NEW o \in Recover(hs, v)
  PROVE  OnFrom(hs, o.heads) /\ o.root \in Nat \cup {None}
<1> DEFINE recovered == {Append(hs, h) : h \in {x \in RecoveredTo(hs, v) : Worth(hs, v, x)}}
<1>1. PICK gs \in {hs} \cup recovered :
        \/ o = Outcome(Halt(gs, v), hs[v].cost + PerRecovery)
        \/ o = Outcome(SkipLookahead(gs, v), None)
        \/ o = Outcome(Halt(gs, v), None)
  <2> HIDE DEF recovered
  <2> QED BY DEF Recover, recovered
<1>2. gs \in {hs} \cup {Append(hs, h) : h \in RecoveredTo(hs, v)} OBVIOUS
<1>3. /\ gs \in Seq(Heads) /\ v \in 1 .. Len(gs) /\ SettledBut(gs, v) /\ Active(gs[v])
      /\ Len(hs) <= Len(gs) /\ \A k \in 1 .. Len(hs) : gs[k] = hs[k]
  BY <1>2, Recovering
<1>4. hs[v].cost + PerRecovery \in Nat
  <2>1. hs[v] \in Heads OBVIOUS
  <2>2. hs[v].cost \in Nat BY <2>1 DEF Heads
  <2> QED BY <2>2, Numbers
<1>5. OnFrom(gs, o.heads) /\ o.root \in Nat \cup {None}
  BY <1>1, <1>3, <1>4, Halting, Skipping DEF Outcome
<1>6. OnFrom(hs, o.heads)
  <2>1. \A k \in 1 .. Len(hs) : k \in 1 .. Len(gs) BY <1>3
  <2>2. o.heads \in Seq(Heads) /\ Len(gs) <= Len(o.heads) /\ Settled(o.heads)
    BY <1>5 DEF OnFrom
  <2>3. Len(hs) <= Len(o.heads) BY <1>3, <2>2
  <2>4. \A k \in 1 .. Len(hs) :
          o.heads[k].pos >= hs[k].pos /\ (Active(o.heads[k]) => Active(hs[k]))
    BY <1>3, <1>5, <2>1 DEF OnFrom
  <2> QED BY <2>2, <2>3, <2>4 DEF OnFrom
<1> QED BY <1>5, <1>6

\* What handleError makes of the versions before it calls recover.
LEMMA EnteringError ==
  ASSUME NEW hs \in Seq(Heads), NEW v \in 1 .. Len(hs), Settled(hs), hs[v].status = "paused",
         NEW gs \in WithMissing(hs, v), NEW fs, fs = InErrorState(gs, v)
  PROVE  /\ fs \in Seq(Heads) /\ Len(hs) <= Len(fs) /\ v \in 1 .. Len(fs)
         /\ SettledBut(fs, v) /\ Active(fs[v]) /\ fs[v].state = ErrorState
         /\ \A k \in 1 .. Len(hs) : k # v => fs[k] = hs[k]
<1>2. hs[v] \in Heads /\ ~hs[v].fresh BY DEF Settled
<1>3. /\ gs \in Seq(Heads) /\ Len(hs) <= Len(gs) /\ Settled(gs)
      /\ \A k \in 1 .. Len(hs) : gs[k] = hs[k]
  <2>1. CASE gs = hs BY <2>1
  <2>2. ASSUME NEW s \in Goals,
               gs = Append(hs, [hs[v] EXCEPT !.status = "active", !.state = s,
                                             !.cost = @ + PerMissingTree,
                                             !.count = Least(1, MaxCount)])
        PROVE  /\ gs \in Seq(Heads) /\ Len(hs) <= Len(gs) /\ Settled(gs)
               /\ \A k \in 1 .. Len(hs) : gs[k] = hs[k]
    <3> DEFINE cost == hs[v].cost + PerMissingTree
               count == Least(1, MaxCount)
               h == [hs[v] EXCEPT !.status = "active", !.state = s, !.cost = cost, !.count = count]
    <3>1. gs = Append(hs, h) BY <2>2
    <3>2. cost \in Nat
      <4>1. hs[v].cost \in Nat BY <1>2 DEF Heads
      <4> QED BY <4>1, Numbers
    <3>3. count \in Nat BY Numbers DEF Least
    <3>4. s \in State BY StatesAssumption
    <3> HIDE DEF cost, count
    <3>5. h \in Heads /\ ~h.fresh BY <1>2, <3>2, <3>3, <3>4 DEF Heads
    <3> HIDE DEF h
    <3>6. OnFrom(hs, gs) BY <3>1, <3>5, OnFromAppend
    <3>7. \A k \in 1 .. Len(hs) : gs[k] = hs[k] BY <3>1, <3>5
    <3> QED BY <3>6, <3>7 DEF OnFrom
  <2> QED BY <2>1, <2>2 DEF WithMissing
<1>4. v \in 1 .. Len(gs) BY <1>3
<1> DEFINE h == [gs[v] EXCEPT !.status = "active", !.state = ErrorState, !.fresh = TRUE,
                              !.count = 0]
<1>5. fs = [gs EXCEPT ![v] = h] BY <1>3, <1>4 DEF InErrorState
<1>6. h \in Heads /\ h.status = "active" /\ h.state = ErrorState
  <2>1. gs[v] \in Heads /\ ErrorState \in State BY <1>3, <1>4, StatesAssumption
  <2> QED BY <2>1 DEF Heads
<1> HIDE DEF h
<1>7. /\ fs \in Seq(Heads) /\ Len(fs) = Len(gs) /\ fs[v] = h
      /\ \A k \in 1 .. Len(fs) : k # v => fs[k] = gs[k]
  BY <1>3, <1>4, <1>5, <1>6
<1>8. v \in 1 .. Len(fs) /\ SettledBut(fs, v) /\ Active(fs[v])
  BY <1>3, <1>4, <1>6, <1>7 DEF Settled, SettledBut, Active
<1> QED BY <1>3, <1>6, <1>7, <1>8

\* handleError keeps the number of versions from falling, and settles them.
LEMMA HandlingError ==
  ASSUME NEW hs \in Seq(Heads), NEW v \in 1 .. Len(hs), Settled(hs), hs[v].status = "paused",
         NEW o \in HandleError(hs, v)
  PROVE  /\ o.heads \in Seq(Heads) /\ Settled(o.heads) /\ Len(hs) <= Len(o.heads)
         /\ o.root \in Nat \cup {None}
<1>1. PICK gs \in WithMissing(hs, v) : o \in Recover(InErrorState(gs, v), v) BY DEF HandleError
<1> DEFINE fs == InErrorState(gs, v)
<1>2. /\ fs \in Seq(Heads) /\ Len(hs) <= Len(fs) /\ v \in 1 .. Len(fs)
      /\ SettledBut(fs, v) /\ Active(fs[v])
  BY EnteringError
<1>3. o \in Recover(fs, v) BY <1>1
<1> HIDE DEF fs
<1>4. OnFrom(fs, o.heads) /\ o.root \in Nat \cup {None} BY <1>2, <1>3, RecoveryOutcomes
<1>5. o.heads \in Seq(Heads) /\ Settled(o.heads) /\ Len(fs) <= Len(o.heads)
  BY <1>4 DEF OnFrom
<1> QED BY <1>2, <1>4, <1>5
-----------------------------------------------------------------------------
(* The round of Parse. *)

\* The error cost of the tree that is kept is a number.
LEMMA Accepting ==
  ASSUME TypeOK, NEW root \in Nat \cup {None}, Accepted(root)
  PROVE  finished' \in Nat \cup {None} /\ accepts' \in Nat
BY DEF TypeOK, Accepted, Least

\* A turn that leaves versions as OnFrom says keeps the invariant.
LEMMA Advance ==
  ASSUME IInv, InTurn, NEW gs, OnFrom(heads, gs), Advanced(gs),
         finished' \in Nat \cup {None}, accepts' \in Nat
  PROVE  IInv'
<1>1. /\ TypeOK /\ Advancing /\ version \in 1 .. Len(heads) /\ lastPosition \in Nat /\ floor \in Nat
      /\ phase = "advance" /\ Active(heads[version]) /\ heads \in Seq(Heads)
  BY DEF IInv, InTurn, TypeOK
<1>2. heads' = gs /\ gs \in Seq(Heads) /\ Settled(gs) BY DEF Advanced, OnFrom
<1>3. version \in 1 .. Len(gs) /\ gs[version].pos \in Nat
  <2>1. version \in 1 .. Len(gs) BY <1>1, <1>2 DEF OnFrom
  <2> QED BY <1>2, <2>1, Members
<1>4. \/ version' = version + 1 /\ lastPosition' = gs[version].pos /\ lastPosition' >= lastPosition
      \/ version' = version /\ lastPosition' = lastPosition
  BY <1>1, <1>3 DEF Advanced
<1>5. UNCHANGED <<phase, versionCount, floor, condense>> BY DEF Advanced
<1>6. TypeOK'
  BY <1>1, <1>2, <1>3, <1>4, <1>5 DEF TypeOK, condense
<1>7. floor' <= lastPosition' BY <1>1, <1>3, <1>4, <1>5 DEF Advancing
<1>8. ASSUME NEW k \in 1 .. Len(gs), k < version', Active(gs[k]) PROVE gs[k].pos >= floor
  <2>1. k \in 1 .. Len(heads) BY <1>1, <1>4, <1>8
  <2>2. gs[k].pos \in Nat /\ heads[k].pos \in Nat BY <1>1, <1>2, <2>1, Members
  <2>3. gs[k].pos >= heads[k].pos /\ Active(heads[k]) BY <1>8, <2>1 DEF OnFrom
  <2>4. CASE k < version
    <3>1. heads[k].pos >= floor BY <1>1, <2>1, <2>3, <2>4 DEF Advancing
    <3> QED BY <1>1, <2>2, <2>3, <3>1
  <2>5. CASE k = version BY <1>1, <1>4, <1>8, <2>2, <2>5 DEF Advancing
  <2> QED BY <1>1, <1>4, <1>8, <2>4, <2>5
<1>9. Advancing' BY <1>2, <1>5, <1>7, <1>8 DEF Advancing
<1> QED BY <1>1, <1>2, <1>5, <1>6, <1>7, <1>9 DEF IInv, Settled

\* So do a shift,
LEMMA ShiftKeeps ==
  ASSUME IInv, NEW s \in State, NEW width \in {0, 1}, Shift(s, width)
  PROVE  IInv'
<1>1. /\ InTurn /\ heads \in Seq(Heads) /\ Settled(heads) /\ version \in 1 .. Len(heads)
      /\ Active(heads[version])
  BY DEF Shift, InTurn, IInv, TypeOK
<1>2. PICK hs \in WithForks(heads, version) :
        Advanced([hs EXCEPT ![version].state = s, ![version].pos = @ + width,
                            ![version].count = Least(@ + 1, MaxCount)])
  BY DEF Shift
<1>3. OnFrom(heads, hs) BY <1>1, <1>2, WithForking
<1>4. hs \in Seq(Heads) /\ Settled(hs) /\ version \in 1 .. Len(hs) BY <1>1, <1>3 DEF OnFrom
<1> DEFINE pos == hs[version].pos + width
           count == Least(hs[version].count + 1, MaxCount)
           h == [hs[version] EXCEPT !.state = s, !.pos = pos, !.count = count]
           gs == [hs EXCEPT ![version].state = s, ![version].pos = @ + width,
                            ![version].count = Least(@ + 1, MaxCount)]
<1>5. gs = [hs EXCEPT ![version] = h] BY <1>4
<1>6. hs[version] \in Heads /\ hs[version].pos \in Nat /\ hs[version].count \in Nat
  BY <1>4, Members DEF Heads
<1>7. pos \in Nat /\ pos >= hs[version].pos /\ count \in Nat BY <1>6, Numbers DEF Least
<1> HIDE DEF pos, count
<1>8. h \in Heads /\ h.fresh = hs[version].fresh /\ h.status = hs[version].status /\ h.pos = pos
  BY <1>6, <1>7 DEF Heads
<1> HIDE DEF h
<1>9. OnFrom(hs, [hs EXCEPT ![version] = h])
  BY <1>4, <1>7, <1>8, OnFromExcept DEF Settled, Active
<1>10. OnFrom(heads, gs) BY <1>1, <1>3, <1>4, <1>5, <1>9, OnFromTwice
<1>11. finished' \in Nat \cup {None} /\ accepts' \in Nat BY DEF Shift, IInv, TypeOK
<1>12. Advanced(gs) BY <1>2
<1> HIDE DEF gs
<1> QED BY <1>1, <1>10, <1>11, <1>12, Advance

\* a reduction,
LEMMA ReduceKeeps ==
  ASSUME IInv, NEW f \in Reductions, Reduce(f)
  PROVE  IInv'
<1>1. InTurn /\ f \in Reduced(heads[version]) BY DEF Reductions, H
<1>2. /\ heads \in Seq(Heads) /\ Settled(heads) /\ version \in 1 .. Len(heads)
      /\ Active(heads[version]) /\ phase = "advance" /\ Advancing /\ floor \in Nat
  BY <1>1 DEF InTurn, IInv, TypeOK
<1>3. PICK hs \in WithForks(heads, version) : heads' = [hs EXCEPT ![version] = f] BY DEF Reduce
<1>4. OnFrom(heads, hs) BY <1>2, <1>3, WithForking
<1>5. hs \in Seq(Heads) /\ Settled(hs) /\ version \in 1 .. Len(hs) BY <1>2, <1>4 DEF OnFrom
<1>6. f \in Heads /\ ~f.fresh /\ f.pos = heads[version].pos /\ heads[version].pos \in Nat
  <2>1. heads[version] \in Heads /\ heads[version].pos \in Nat /\ ~heads[version].fresh
    BY <1>2, Members DEF Settled, Active
  <2> QED BY <1>1, <2>1, Reducing
<1>7. /\ heads' \in Seq(Heads) /\ Len(heads') = Len(hs)
      /\ \A k \in 1 .. Len(hs) : heads'[k] = IF k = version THEN f ELSE hs[k]
  BY <1>3, <1>5, <1>6
<1>8. Settled(heads') BY <1>5, <1>6, <1>7 DEF Settled
<1>9. UNCHANGED <<finished, accepts, phase, parse, condense>> BY DEF Reduce
<1>10. ASSUME NEW k \in 1 .. Len(hs), k < version, Active(heads'[k]) PROVE heads'[k].pos >= floor
  <2>1. k \in 1 .. Len(heads) BY <1>2, <1>10
  <2>2. heads'[k].pos \in Nat /\ heads[k].pos \in Nat BY <1>2, <1>7, <2>1, Members
  <2>3. heads'[k].pos >= heads[k].pos /\ Active(heads[k])
    BY <1>2, <1>4, <1>7, <1>10, <2>1 DEF OnFrom
  <2>4. heads[k].pos >= floor BY <1>2, <1>10, <2>1, <2>3 DEF Advancing
  <2> QED BY <1>2, <2>2, <2>3, <2>4
<1>11. Advancing' BY <1>2, <1>7, <1>9, <1>10 DEF Advancing, parse
<1>12. TypeOK' BY <1>7, <1>9 DEF IInv, TypeOK, parse, condense
<1> QED BY <1>2, <1>8, <1>9, <1>11, <1>12 DEF IInv, Settled, parse

\* one that merges the version into another,
LEMMA ReduceAwayKeeps ==
  ASSUME IInv, NEW f \in Reductions, ReduceAway(f)
  PROVE  IInv'
<1>1. InTurn /\ f \in Reduced(heads[version]) BY DEF Reductions, H
<1>2. /\ heads \in Seq(Heads) /\ Settled(heads) /\ version \in 1 .. Len(heads)
      /\ Active(heads[version])
  BY <1>1 DEF InTurn, IInv, TypeOK
<1>3. PICK hs \in Forked(heads, version, f) : Advanced(Halt(hs, version)) BY DEF ReduceAway
<1>4. OnFrom(heads, hs) BY <1>1, <1>2, <1>3, Forking
<1>5. hs \in Seq(Heads) /\ Settled(hs) /\ version \in 1 .. Len(hs) BY <1>2, <1>4 DEF OnFrom
<1> DEFINE h == [hs[version] EXCEPT !.status = "halted"]
<1>6. h \in Heads /\ h.status = "halted" /\ h.pos >= hs[version].pos
  <2>1. hs[version] \in Heads /\ hs[version].pos \in Nat BY <1>5, Members
  <2> QED BY <2>1 DEF Heads
<1>7. Halt(hs, version) = [hs EXCEPT ![version] = h] BY DEF Halt
<1> HIDE DEF h
<1>8. OnFrom(hs, [hs EXCEPT ![version] = h])
  BY <1>5, <1>6, OnFromExcept DEF Settled, Active
<1>9. OnFrom(heads, Halt(hs, version)) BY <1>2, <1>4, <1>5, <1>7, <1>8, OnFromTwice
<1>10. finished' \in Nat \cup {None} /\ accepts' \in Nat BY DEF ReduceAway, IInv, TypeOK
<1> QED BY <1>1, <1>3, <1>9, <1>10, Advance

\* an accept, which halts the version,
LEMMA AcceptKeeps ==
  ASSUME IInv, Accept
  PROVE  IInv'
<1>1. /\ InTurn /\ heads \in Seq(Heads) /\ Settled(heads) /\ version \in 1 .. Len(heads)
      /\ Active(heads[version]) /\ TypeOK
  BY DEF Accept, InTurn, IInv, TypeOK
<1>2. OnFrom(heads, Halt(heads, version)) BY <1>1, Halting DEF Settled, SettledBut
<1>3. heads[version].cost \in Nat
  <2>1. heads[version] \in Heads BY <1>1
  <2> QED BY <2>1 DEF Heads
<1>4. finished' \in Nat \cup {None} /\ accepts' \in Nat
  BY <1>1, <1>3, Accepting DEF Accept, H
<1> QED BY <1>1, <1>2, <1>4, Advance DEF Accept

\* a pause,
LEMMA PauseKeeps ==
  ASSUME IInv, Pause
  PROVE  IInv'
<1>1. /\ InTurn /\ heads \in Seq(Heads) /\ Settled(heads) /\ version \in 1 .. Len(heads)
      /\ Active(heads[version])
  BY DEF Pause, InTurn, IInv, TypeOK
<1> DEFINE h == [heads[version] EXCEPT !.status = "paused", !.count = 0]
           gs == [heads EXCEPT ![version].status = "paused", ![version].count = 0]
<1>2. h \in Heads /\ h.status = "paused" /\ ~h.fresh /\ h.pos >= heads[version].pos
  <2>1. heads[version] \in Heads /\ heads[version].pos \in Nat /\ ~heads[version].fresh
    BY <1>1, Members DEF Settled, Active
  <2>2. h \in Heads BY <2>1 DEF Heads
  <2>3. /\ h.status = "paused" /\ h.fresh = heads[version].fresh
        /\ h.pos = heads[version].pos
    BY <2>1 DEF Heads
  <2> QED BY <2>1, <2>2, <2>3
<1>3. gs = [heads EXCEPT ![version] = h] BY <1>1
<1> HIDE DEF h
<1>4. OnFrom(heads, [heads EXCEPT ![version] = h])
  BY <1>1, <1>2, OnFromExcept DEF Settled, Active
<1>5. Advanced(gs) BY DEF Pause
<1>6. finished' \in Nat \cup {None} /\ accepts' \in Nat BY DEF Pause, IInv, TypeOK
<1> HIDE DEF gs
<1> QED BY <1>1, <1>3, <1>4, <1>5, <1>6, Advance

\* recover,
LEMMA RecoverKeeps ==
  ASSUME IInv, RecoverInTurn
  PROVE  IInv'
<1>1. /\ InTurn /\ heads \in Seq(Heads) /\ Settled(heads) /\ version \in 1 .. Len(heads)
      /\ Active(heads[version]) /\ TypeOK
  BY DEF RecoverInTurn, InTurn, IInv, TypeOK
<1>2. PICK o \in Recover(heads, version) : Advanced(o.heads) /\ Accepted(o.root)
  BY DEF RecoverInTurn
<1>3. OnFrom(heads, o.heads) /\ o.root \in Nat \cup {None}
  BY <1>1, RecoveryOutcomes DEF Settled, SettledBut
<1>4. finished' \in Nat \cup {None} /\ accepts' \in Nat BY <1>1, <1>2, <1>3, Accepting
<1> QED BY <1>1, <1>2, <1>3, <1>4, Advance

\* the turn passing to the next version,
LEMMA NextTurnKeeps ==
  ASSUME IInv, NextTurn
  PROVE  IInv'
<1>1. /\ TypeOK /\ Advancing /\ Settled(heads) /\ version \in Nat \ {0}
      /\ phase = "advance" /\ ~Active(heads[version]) /\ version' = version + 1
  BY DEF NextTurn, IInv, TypeOK
<1>2. UNCHANGED <<heads, finished, accepts, phase, lastPosition, versionCount, floor, condense>>
  BY DEF NextTurn
<1>3. TypeOK' BY <1>1, <1>2 DEF TypeOK, condense
<1>4. Advancing'
  <2>1. \A k \in 1 .. Len(heads) : k < version' /\ Active(heads[k]) => k < version BY <1>1
  <2> QED BY <1>1, <1>2, <2>1 DEF Advancing
<1> QED BY <1>1, <1>2, <1>3, <1>4 DEF IInv, Settled, Advancing

\* and the end of all turns, when condenseStack begins.
LEMMA TurnsOverKeeps ==
  ASSUME IInv, TurnsOver
  PROVE  IInv'
<1>1. /\ TypeOK /\ Advancing /\ Settled(heads) /\ heads \in Seq(Heads) /\ version \in Nat
      /\ phase = "advance" /\ version > Len(heads) /\ phase' = "condense" /\ i' = 1
  BY DEF TurnsOver, IInv, TypeOK
<1>2. /\ versionCount' = Len(heads) /\ minErrorCost' = Unlimited
      /\ UNCHANGED <<heads, finished, accepts, version, lastPosition, floor, j, statusI, n,
                     hasUnpausedVersion>>
  BY DEF TurnsOver
<1>3. \A s \in best' : \E k \in Racing(heads) : s = VersionStatus(heads[k]) BY DEF TurnsOver
<1>4. \A k \in Racing(heads) : VersionStatus(heads[k]) \in Statuses
  BY <1>1, Members, StatusTypes DEF Racing
<1>5. best' \in SUBSET Statuses BY <1>3, <1>4
<1>6. TypeOK' BY <1>1, <1>2, <1>5, Numbers DEF TypeOK
<1>7. AllAt(heads, floor) BY <1>1 DEF AllAt, Advancing
<1>8. Keeps(best', heads) BY <1>3, <1>4, Order DEF St, Keeps
<1>9. OuterOf(heads', i', floor', best')
  BY <1>1, <1>2, <1>7, <1>8 DEF OuterOf, NoneHalted, Sorted
<1> QED BY <1>1, <1>2, <1>6, <1>9 DEF IInv, Settled, Advancing, Outer
-----------------------------------------------------------------------------
(* condenseStack. *)

\* Replacing versions by others that are as good.
LEMMA Alike ==
  ASSUME NEW hs \in Seq(Heads), NEW gs \in Seq(Heads), Len(gs) = Len(hs),
         NEW b \in SUBSET Statuses,
         \A k \in 1 .. Len(hs) :
            /\ gs[k].status = hs[k].status /\ gs[k].pos = hs[k].pos
            /\ gs[k].fresh => hs[k].fresh
            /\ NoWorse(St(gs, k), St(hs, k)) /\ NoWorse(St(hs, k), St(gs, k))
  PROVE  /\ Settled(hs) => Settled(gs)
         /\ Keeps(b, hs) => Keeps(b, gs)
         /\ \A p : AllAt(hs, p) => AllAt(gs, p)
         /\ \A m \in 0 .. Len(hs) : NoneHalted(hs, m) => NoneHalted(gs, m)
         /\ \A m \in 0 .. Len(hs) : Sorted(hs, m) => Sorted(gs, m)
<1>1. \A k \in 1 .. Len(hs) : St(hs, k) \in Statuses /\ St(gs, k) \in Statuses
  BY Members, StatusTypes DEF St
<1>2. Settled(hs) => Settled(gs) BY DEF Settled
<1>3. Keeps(b, hs) => Keeps(b, gs)
  <2> SUFFICES ASSUME Keeps(b, hs), NEW s \in b PROVE \E k \in Racing(gs) : NoWorse(St(gs, k), s)
    BY DEF Keeps
  <2>1. PICK k \in Racing(hs) : NoWorse(St(hs, k), s) BY DEF Keeps
  <2>2. k \in 1 .. Len(hs) /\ k \in Racing(gs) BY <2>1 DEF Racing
  <2>3. NoWorse(St(gs, k), s) BY <1>1, <2>1, <2>2, Order
  <2> QED BY <2>2, <2>3
<1>4. \A p : AllAt(hs, p) => AllAt(gs, p) BY DEF AllAt, Active
<1>5. \A m \in 0 .. Len(hs) : NoneHalted(hs, m) => NoneHalted(gs, m) BY DEF NoneHalted
<1>6. ASSUME NEW m \in 0 .. Len(hs), Sorted(hs, m), NEW k \in 1 .. m, NEW l \in 1 .. m, k <= l
      PROVE  NoWorse(St(gs, k), St(gs, l))
  <2>1. k \in 1 .. Len(hs) /\ l \in 1 .. Len(hs) BY <1>6
  <2>2. NoWorse(St(hs, k), St(hs, l)) BY <1>6 DEF Sorted
  <2>3. NoWorse(St(gs, k), St(hs, l)) BY <1>1, <2>1, <2>2, Order
  <2> QED BY <1>1, <2>1, <2>3, Order
<1> QED BY <1>2, <1>3, <1>4, <1>5, <1>6 DEF Sorted

\* What every step of the comparisons leaves alone.
LEMMA CondensingTypes ==
  ASSUME TypeOK, NEW p, Condensing(p), heads' \in Seq(Heads),
         phase' \in {"condense", "compare", "resume"},
         i' \in Nat \ {0}, j' \in Nat \ {0}, statusI' \in Statuses, minErrorCost' \in Nat,
         n' \in Nat, hasUnpausedVersion' \in BOOLEAN
  PROVE  TypeOK' /\ floor' = floor /\ lastPosition' = lastPosition /\ best' = best
BY DEF TypeOK, Condensing, parse

\* condenseStack removes a halted version, which is none of the best.
LEMMA RemoveHaltedKeeps ==
  ASSUME IInv, RemoveHalted
  PROVE  IInv'
<1>1. /\ TypeOK /\ Outer /\ Settled(heads) /\ heads \in Seq(Heads) /\ i \in 1 .. Len(heads)
      /\ best \in SUBSET Statuses /\ floor <= lastPosition
      /\ heads[i].status = "halted" /\ heads' = Without(heads, i) /\ Condensing("condense")
  BY DEF RemoveHalted, Condensing, IInv, TypeOK, Outer, OuterOf
<1>2. UNCHANGED <<phase, i, j, statusI, minErrorCost, n, hasUnpausedVersion>> /\ phase = "condense"
  BY DEF RemoveHalted, Condensing
<1>3. /\ heads' \in Seq(Heads) /\ Len(heads') = Len(heads) - 1
      /\ \A k \in 1 .. Len(heads) - 1 : heads'[k] = IF k < i THEN heads[k] ELSE heads[k + 1]
  BY <1>1, WithoutAt
<1>4. /\ TypeOK' /\ floor' = floor /\ lastPosition' = lastPosition /\ best' = best
  BY <1>1, <1>2, <1>3, CondensingTypes DEF TypeOK
<1>5. Settled(heads') /\ AllAt(heads', floor) /\ Sorted(heads', i - 1)
  <2>1. i - 1 \in 0 .. i - 1 BY <1>1
  <2> QED BY <1>1, <2>1, RestWithout DEF Outer, OuterOf
<1>6. Keeps(best, heads') BY <1>1, KeepsWithout DEF Outer, OuterOf
<1>7. NoneHalted(heads', i - 1)
  <2>1. \A k \in 1 .. i - 1 : heads'[k] = heads[k] BY <1>1, <1>3
  <2> QED BY <1>1, <2>1 DEF Outer, OuterOf, NoneHalted
<1>8. OuterOf(heads', i', floor', best')
  BY <1>1, <1>2, <1>3, <1>4, <1>5, <1>6, <1>7 DEF OuterOf
<1> QED BY <1>1, <1>2, <1>4, <1>5, <1>8 DEF IInv, Settled, Outer

\* A version is taken up to be compared with those before it.
LEMMA TakeUpKeeps ==
  ASSUME IInv, TakeUp
  PROVE  IInv'
<1>1. /\ TypeOK /\ Outer /\ Settled(heads) /\ heads \in Seq(Heads) /\ i \in 1 .. Len(heads)
      /\ minErrorCost \in Nat /\ floor <= lastPosition /\ heads[i].status # "halted"
      /\ Condensing("condense")
      /\ j' = 1 /\ phase' = "compare" /\ UNCHANGED <<heads, i, n, hasUnpausedVersion>>
      /\ statusI' = St(heads, i)
  BY DEF TakeUp, Condensing, IInv, TypeOK, Outer, OuterOf, St
<1>2. St(heads, i) \in Statuses /\ St(heads, i).cost \in Nat
  BY <1>1, Members, StatusTypes DEF St, Statuses
<1>3. minErrorCost' \in Nat BY <1>1, <1>2 DEF TakeUp, Least, St
<1>4. /\ TypeOK' /\ floor' = floor /\ lastPosition' = lastPosition /\ best' = best
  BY <1>1, <1>2, <1>3, CondensingTypes DEF TypeOK
<1>5. NoneHalted(heads, i) BY <1>1 DEF Outer, OuterOf, NoneHalted
<1>6. NoWorse(St(heads, i), St(heads, i)) BY <1>2, Order
<1>7. InnerOf(heads', i', j', statusI', floor', best')
  BY <1>1, <1>2, <1>4, <1>5, <1>6 DEF InnerOf, Outer, OuterOf
<1> QED BY <1>1, <1>4, <1>7 DEF IInv, Settled, Inner

\* Compared with all of them, it is in its place.
LEMMA ComparedKeeps ==
  ASSUME IInv, Compared
  PROVE  IInv'
<1>1. /\ TypeOK /\ Inner /\ Settled(heads) /\ heads \in Seq(Heads) /\ i \in 1 .. Len(heads)
      /\ floor <= lastPosition /\ Condensing("compare") /\ j = i
      /\ i' = i + 1 /\ phase' = "condense"
      /\ UNCHANGED <<heads, j, statusI, minErrorCost, n, hasUnpausedVersion>>
  BY DEF Compared, Condensing, IInv, TypeOK, Inner, InnerOf
<1>2. /\ TypeOK' /\ floor' = floor /\ lastPosition' = lastPosition /\ best' = best
  BY <1>1, CondensingTypes DEF TypeOK
<1>3. Sorted(heads, i)
  <2> SUFFICES ASSUME NEW k \in 1 .. i, NEW l \in 1 .. i, k <= l
               PROVE  NoWorse(St(heads, k), St(heads, l))
    BY DEF Sorted
  <2>1. CASE l < i BY <1>1, <2>1 DEF Inner, InnerOf, Sorted
  <2>2. CASE l = i /\ k < i BY <1>1, <2>2 DEF Inner, InnerOf
  <2>3. CASE l = i /\ k = i
    <3>1. St(heads, i) \in Statuses BY <1>1, Members, StatusTypes DEF St
    <3> QED BY <2>3, <3>1, Order
  <2> QED BY <1>1, <2>1, <2>2, <2>3
<1>4. i' \in 1 .. Len(heads') + 1 /\ i' - 1 = i BY <1>1
<1>5. OuterOf(heads', i', floor', best')
  BY <1>1, <1>2, <1>3, <1>4 DEF OuterOf, Inner, InnerOf
<1> QED BY <1>1, <1>2, <1>5 DEF IInv, Settled, Outer

\* What holds when version i is compared with version j.
LEMMA WhenComparing ==
  ASSUME IInv, Comparing
  PROVE  /\ TypeOK /\ Settled(heads) /\ floor <= lastPosition /\ Condensing("compare")
         /\ phase = "compare"
         /\ heads \in Seq(Heads) /\ best \in SUBSET Statuses /\ statusI \in Statuses
         /\ i \in 1 .. Len(heads) /\ j \in 1 .. i - 1 /\ j \in 1 .. Len(heads)
         /\ InnerOf(heads, i, j, statusI, floor, best)
         /\ \A k \in 1 .. Len(heads) : St(heads, k) \in Statuses
<1>1. TypeOK /\ Settled(heads) /\ floor <= lastPosition /\ Inner /\ phase = "compare"
  BY DEF Comparing, Condensing, IInv
<1>2. heads \in Seq(Heads) /\ best \in SUBSET Statuses /\ statusI \in Statuses
  BY <1>1 DEF TypeOK
<1>3. i \in 1 .. Len(heads) /\ j \in 1 .. i /\ j < i BY <1>1 DEF Inner, InnerOf, Comparing
<1>4. \A k \in 1 .. Len(heads) : St(heads, k) \in Statuses BY <1>2, Members, StatusTypes DEF St
<1> QED BY <1>1, <1>2, <1>3, <1>4 DEF Inner, Comparing

\* Without version i, the comparisons go on with the next.
LEMMA WithoutI ==
  ASSUME NEW hs \in Seq(Heads), NEW x \in 1 .. Len(hs), NEW p, NEW b \in SUBSET Statuses,
         AllAt(hs, p), Keeps(b, hs), NoneHalted(hs, x), Sorted(hs, x - 1), Settled(hs),
         NEW y \in 1 .. x - 1, NoWorse(St(hs, y), St(hs, x))
  PROVE  /\ OuterOf(Without(hs, x), x, p, b) /\ Settled(Without(hs, x))
         /\ Without(hs, x) \in Seq(Heads)
<1> DEFINE gs == Without(hs, x)
<1>1. /\ gs \in Seq(Heads) /\ Len(gs) = Len(hs) - 1
      /\ \A k \in 1 .. Len(hs) - 1 : gs[k] = IF k < x THEN hs[k] ELSE hs[k + 1]
  BY WithoutAt
<1>2. x - 1 \in 0 .. x - 1 OBVIOUS
<1>3. Settled(gs) /\ AllAt(gs, p) /\ Sorted(gs, x - 1) BY <1>2, RestWithout
<1>4. Keeps(b, gs)
  <2>1. y \in 1 .. Len(hs) /\ y # x /\ hs[y].status # "halted" BY DEF NoneHalted
  <2> QED BY <2>1, KeepsWithout
<1>5. NoneHalted(gs, x - 1) BY <1>1 DEF NoneHalted
<1>6. x \in 1 .. Len(gs) + 1 BY <1>1
<1> HIDE DEF gs
<1>7. OuterOf(gs, x, p, b) BY <1>3, <1>4, <1>5, <1>6 DEF OuterOf
<1> QED BY <1>1, <1>3, <1>7 DEF gs

\* Version i is removed for one before it that is no worse.
LEMMA RemoveIKeeps ==
  ASSUME IInv, RemoveI
  PROVE  IInv'
<1>1. Comparing /\ Comparison = "takeLeft" BY DEF RemoveI
<1>2. /\ heads' = Without(heads, i) /\ phase' = "condense"
      /\ UNCHANGED <<i, j, statusI, minErrorCost, n, hasUnpausedVersion>>
  BY DEF RemoveI, OutOfTheRace
<1>3. /\ TypeOK /\ Settled(heads) /\ floor <= lastPosition /\ Condensing("compare")
      /\ heads \in Seq(Heads) /\ best \in SUBSET Statuses /\ statusI \in Statuses
      /\ i \in 1 .. Len(heads) /\ j \in 1 .. i - 1 /\ j \in 1 .. Len(heads)
      /\ InnerOf(heads, i, j, statusI, floor, best)
      /\ \A k \in 1 .. Len(heads) : St(heads, k) \in Statuses
  BY <1>1, WhenComparing
<1>4. NoWorse(St(heads, j), statusI) BY <1>1, <1>3, Comparisons DEF Comparison, St
<1>5. NoWorse(St(heads, j), St(heads, i)) BY <1>3, <1>4, Order DEF InnerOf
<1>6. /\ OuterOf(heads', i, floor, best) /\ Settled(heads') /\ heads' \in Seq(Heads)
  BY <1>2, <1>3, <1>5, WithoutI DEF InnerOf
<1>7. /\ TypeOK' /\ floor' = floor /\ lastPosition' = lastPosition /\ best' = best
  BY <1>2, <1>3, <1>6, CondensingTypes DEF TypeOK
<1> QED BY <1>2, <1>3, <1>6, <1>7 DEF IInv, Settled, Outer

\* Version j is removed for version i, which is no worse.
LEMMA RemoveJKeeps ==
  ASSUME IInv, RemoveJ
  PROVE  IInv'
<1>1. Comparing /\ Comparison = "takeRight" BY DEF RemoveJ
<1>2. /\ heads' = Without(heads, j) /\ i' = i - 1
      /\ UNCHANGED <<phase, j, statusI, minErrorCost, n, hasUnpausedVersion>>
  BY DEF RemoveJ
<1>3. /\ TypeOK /\ Settled(heads) /\ floor <= lastPosition /\ Condensing("compare")
      /\ phase = "compare"
      /\ heads \in Seq(Heads) /\ best \in SUBSET Statuses /\ statusI \in Statuses
      /\ i \in 1 .. Len(heads) /\ j \in 1 .. i - 1 /\ j \in 1 .. Len(heads)
      /\ InnerOf(heads, i, j, statusI, floor, best)
      /\ \A k \in 1 .. Len(heads) : St(heads, k) \in Statuses
  BY <1>1, WhenComparing
<1>4. NoWorse(statusI, St(heads, j)) BY <1>1, <1>3, Comparisons DEF Comparison, St
<1> DEFINE gs == Without(heads, j)
<1>5. /\ gs \in Seq(Heads) /\ Len(gs) = Len(heads) - 1
      /\ \A k \in 1 .. Len(heads) - 1 : gs[k] = IF k < j THEN heads[k] ELSE heads[k + 1]
  BY <1>3, WithoutAt
<1>6. PICK y \in 1 .. i : (y < j \/ y = i) /\ NoWorse(St(heads, y), statusI)
  BY <1>3 DEF InnerOf
<1>7. Keeps(best, gs)
  <2>1. y \in 1 .. Len(heads) /\ y # j /\ heads[y].status # "halted"
    BY <1>3, <1>6 DEF InnerOf, NoneHalted
  <2>2. NoWorse(St(heads, y), St(heads, j)) BY <1>3, <1>4, <1>6, <2>1, Order
  <2> QED BY <1>3, <2>1, <2>2, KeepsWithout DEF InnerOf
<1>8. Settled(gs) /\ AllAt(gs, floor) /\ Sorted(gs, i - 1 - 1)
  <2>1. i - 1 \in j .. Len(heads) BY <1>3
  <2> QED BY <1>3, <2>1, RestWithout DEF InnerOf
<1> HIDE DEF gs
<1>9. /\ \A k \in 1 .. j - 1 : gs[k] = heads[k] /\ k \in 1 .. i - 1
      /\ \A k \in j .. i - 1 : gs[k] = heads[k + 1] /\ k + 1 \in j .. i
      /\ gs[i - 1] = heads[i]
  <2>1. ASSUME NEW k \in 1 .. j - 1 PROVE gs[k] = heads[k] /\ k \in 1 .. i - 1
    <3>1. k \in 1 .. Len(heads) - 1 /\ k < j BY <1>3
    <3> QED BY <1>3, <1>5, <3>1
  <2>2. ASSUME NEW k \in j .. i - 1 PROVE gs[k] = heads[k + 1] /\ k + 1 \in j .. i
    <3>1. k \in 1 .. Len(heads) - 1 /\ ~(k < j) BY <1>3
    <3> QED BY <1>3, <1>5, <3>1
  <2>3. i - 1 \in j .. i - 1 /\ i - 1 + 1 = i BY <1>3
  <2>4. gs[i - 1] = heads[i] BY <2>2, <2>3
  <2> QED BY <2>1, <2>2, <2>4
<1>10. InnerOf(gs, i - 1, j, statusI, floor, best)
  <2>1. i - 1 \in 1 .. Len(gs) /\ j \in 1 .. i - 1 BY <1>3, <1>5
  <2>2. NoneHalted(gs, i - 1)
    <3>1. \A k \in 1 .. i - 1 : \E l \in 1 .. i : gs[k] = heads[l]
      <4> SUFFICES ASSUME NEW k \in 1 .. i - 1 PROVE \E l \in 1 .. i : gs[k] = heads[l]
        OBVIOUS
      <4>1. CASE k < j BY <1>3, <1>9, <4>1
      <4>2. CASE k >= j
        <5>1. k + 1 \in 1 .. i /\ gs[k] = heads[k + 1] BY <1>3, <1>9, <4>2
        <5> QED BY <5>1
      <4> QED BY <1>3, <4>1, <4>2
    <3> QED BY <1>3, <3>1 DEF InnerOf, NoneHalted
  <2>3. \A k \in 1 .. j - 1 : NoWorse(St(gs, k), St(gs, i - 1))
    BY <1>3, <1>9 DEF InnerOf, St
  <2>4. NoWorse(statusI, St(gs, i - 1)) BY <1>3, <1>9 DEF InnerOf, St
  <2>5. \E k \in 1 .. i - 1 : (k < j \/ k = i - 1) /\ NoWorse(St(gs, k), statusI)
    <3>1. CASE y < j
      <4>1. y \in 1 .. j - 1 BY <3>1, <1>3
      <4> QED BY <1>6, <1>9, <3>1, <4>1 DEF St
    <3>2. CASE y = i
      <4>1. i - 1 \in 1 .. i - 1 BY <1>3
      <4> QED BY <1>6, <1>9, <3>2, <4>1 DEF St
    <3> QED BY <1>6, <3>1, <3>2
  <2>6. \/ NoWorse(St(gs, i - 1), statusI)
        \/ \A k \in j .. i - 1 - 1 : NoWorse(St(gs, i - 1), St(gs, k))
    <3>1. CASE NoWorse(St(heads, i), statusI) BY <1>9, <3>1 DEF St
    <3>2. CASE \A k \in j .. i - 1 : NoWorse(St(heads, i), St(heads, k))
      <4>1. \A k \in j .. i - 1 - 1 : k + 1 \in j .. i - 1 /\ gs[k] = heads[k + 1] BY <1>3, <1>9
      <4> QED BY <1>9, <3>2, <4>1 DEF St
    <3> QED BY <1>3, <3>1, <3>2 DEF InnerOf
  <2> QED BY <1>7, <1>8, <2>1, <2>2, <2>3, <2>4, <2>5, <2>6 DEF InnerOf
<1>11. heads' = gs BY <1>2 DEF gs
<1>12. i' \in Nat \ {0} /\ i' = i - 1 BY <1>2, <1>3
<1>13. /\ TypeOK' /\ floor' = floor /\ lastPosition' = lastPosition /\ best' = best
  BY <1>2, <1>3, <1>5, <1>11, <1>12, CondensingTypes DEF TypeOK
<1>14. InnerOf(heads', i', j', statusI', floor', best') BY <1>2, <1>10, <1>11, <1>13
<1> QED BY <1>2, <1>3, <1>8, <1>11, <1>13, <1>14 DEF IInv, Settled, Inner

\* Version i is merged into one it is as good as.
LEMMA MergeIntoJKeeps ==
  ASSUME IInv, MergeIntoJ
  PROVE  IInv'
<1>1. Comparing /\ CanMerge(heads[j], heads[i]) BY DEF MergeIntoJ
<1>2. PICK m \in MergedWith(heads[j], heads[i]) :
        OutOfTheRace(Without([heads EXCEPT ![j] = m], i))
  BY DEF MergeIntoJ
<1>3. /\ TypeOK /\ Settled(heads) /\ floor <= lastPosition /\ Condensing("compare")
      /\ heads \in Seq(Heads) /\ best \in SUBSET Statuses /\ statusI \in Statuses
      /\ i \in 1 .. Len(heads) /\ j \in 1 .. i - 1 /\ j \in 1 .. Len(heads)
      /\ InnerOf(heads, i, j, statusI, floor, best)
      /\ \A k \in 1 .. Len(heads) : St(heads, k) \in Statuses
  BY <1>1, WhenComparing
<1>4. /\ heads[i] \in Heads /\ heads[j] \in Heads /\ ~heads[i].fresh /\ ~heads[j].fresh
  BY <1>1, <1>3 DEF Settled, CanMerge, Active
<1>5. /\ m \in Heads /\ ~m.fresh /\ m.status = heads[j].status /\ m.pos = heads[j].pos
      /\ NoWorse(VersionStatus(m), VersionStatus(heads[j]))
      /\ NoWorse(VersionStatus(heads[j]), VersionStatus(m))
      /\ NoWorse(VersionStatus(m), VersionStatus(heads[i]))
  BY <1>1, <1>4, Mergeable
<1> DEFINE hs == [heads EXCEPT ![j] = m]
<1>6. /\ hs \in Seq(Heads) /\ Len(hs) = Len(heads)
      /\ \A k \in 1 .. Len(heads) : hs[k] = IF k = j THEN m ELSE heads[k]
  BY <1>3, <1>5
<1>7. OutOfTheRace(Without(hs, i)) BY <1>2
<1> HIDE DEF hs
<1>8. ASSUME NEW k \in 1 .. Len(heads)
      PROVE  /\ hs[k].status = heads[k].status /\ hs[k].pos = heads[k].pos
             /\ hs[k].fresh => heads[k].fresh
             /\ NoWorse(St(hs, k), St(heads, k)) /\ NoWorse(St(heads, k), St(hs, k))
  <2>1. CASE k = j BY <1>5, <1>6, <2>1 DEF St
  <2>2. CASE k # j BY <1>3, <1>6, <2>2, Order DEF St
  <2> QED BY <2>1, <2>2
<1>9. /\ Settled(hs) /\ Keeps(best, hs) /\ AllAt(hs, floor) /\ NoneHalted(hs, i)
      /\ Sorted(hs, i - 1)
  <2>1. i \in 0 .. Len(heads) /\ i - 1 \in 0 .. Len(heads) BY <1>3
  <2>2. /\ Settled(heads) => Settled(hs)
        /\ Keeps(best, heads) => Keeps(best, hs)
        /\ \A p : AllAt(heads, p) => AllAt(hs, p)
        /\ \A l \in 0 .. Len(heads) : NoneHalted(heads, l) => NoneHalted(hs, l)
        /\ \A l \in 0 .. Len(heads) : Sorted(heads, l) => Sorted(hs, l)
    BY <1>3, <1>6, <1>8, Alike
  <2> QED BY <1>3, <2>1, <2>2 DEF InnerOf
<1>10. NoWorse(St(hs, j), St(hs, i)) BY <1>3, <1>5, <1>6 DEF St
<1>11. /\ OuterOf(Without(hs, i), i, floor, best) /\ Settled(Without(hs, i))
       /\ Without(hs, i) \in Seq(Heads)
  BY <1>3, <1>6, <1>9, <1>10, WithoutI
<1>12. /\ heads' = Without(hs, i) /\ phase' = "condense"
       /\ UNCHANGED <<i, j, statusI, minErrorCost, n, hasUnpausedVersion>>
  BY <1>7 DEF OutOfTheRace
<1>13. /\ TypeOK' /\ floor' = floor /\ lastPosition' = lastPosition /\ best' = best
  BY <1>3, <1>11, <1>12, CondensingTypes DEF TypeOK
<1> QED BY <1>3, <1>11, <1>12, <1>13 DEF IInv, Settled, Outer

\* A better version is swapped to the front, and all others stay in order.
LEMMA SwapOrKeepKeeps ==
  ASSUME IInv, SwapOrKeep
  PROVE  IInv'
<1>1. Comparing /\ Comparison \notin {"takeLeft", "takeRight"} BY DEF SwapOrKeep
<1>2. /\ heads' = IF Comparison = "preferRight"
                 THEN [heads EXCEPT ![i] = heads[j], ![j] = heads[i]] ELSE heads
      /\ j' = j + 1
      /\ UNCHANGED <<phase, i, statusI, minErrorCost, n, hasUnpausedVersion>>
  BY DEF SwapOrKeep
<1>3. /\ TypeOK /\ Settled(heads) /\ floor <= lastPosition /\ Condensing("compare")
      /\ phase = "compare"
      /\ heads \in Seq(Heads) /\ best \in SUBSET Statuses /\ statusI \in Statuses
      /\ i \in 1 .. Len(heads) /\ j \in 1 .. i - 1 /\ j \in 1 .. Len(heads)
      /\ InnerOf(heads, i, j, statusI, floor, best)
      /\ \A k \in 1 .. Len(heads) : St(heads, k) \in Statuses
  BY <1>1, WhenComparing
<1>4. /\ AllAt(heads, floor) /\ Keeps(best, heads) /\ NoneHalted(heads, i) /\ Sorted(heads, i - 1)
      /\ \A k \in 1 .. j - 1 : NoWorse(St(heads, k), St(heads, i))
      /\ NoWorse(statusI, St(heads, i))
  BY <1>3 DEF InnerOf
<1>5. PICK y \in 1 .. i : (y < j \/ y = i) /\ NoWorse(St(heads, y), statusI)
  BY <1>3 DEF InnerOf
<1>6. NoWorse(St(heads, i), statusI) \/ \A k \in j .. i - 1 : NoWorse(St(heads, i), St(heads, k))
  BY <1>3 DEF InnerOf
<1>7. /\ \A k \in 1 .. i : k \in 1 .. Len(heads)
      /\ \A k \in 1 .. j : k < j \/ k = j
      /\ j + 1 \in 1 .. i
  BY <1>3
<1>8. CASE Comparison # "preferRight"
  <2>1. NoWorse(St(heads, j), statusI) BY <1>1, <1>3, <1>8, Comparisons DEF Comparison, St
  <2>2. NoWorse(St(heads, j), St(heads, i)) BY <1>3, <1>4, <2>1, Order
  <2>3. \A k \in 1 .. j + 1 - 1 : NoWorse(St(heads, k), St(heads, i)) BY <1>3, <1>4, <1>7, <2>2
  <2>4. InnerOf(heads, i, j + 1, statusI, floor, best)
    BY <1>3, <1>4, <1>5, <1>6, <1>7, <2>3 DEF InnerOf
  <2>5. heads' = heads BY <1>2, <1>8
  <2>6. /\ TypeOK' /\ floor' = floor /\ lastPosition' = lastPosition /\ best' = best
    BY <1>2, <1>3, <2>5, CondensingTypes DEF TypeOK
  <2>7. InnerOf(heads', i', j', statusI', floor', best') BY <1>2, <2>4, <2>5, <2>6
  <2> QED BY <1>2, <1>3, <2>5, <2>6, <2>7 DEF IInv, Settled, Inner
<1>9. CASE Comparison = "preferRight"
  <2> DEFINE gs == [heads EXCEPT ![i] = heads[j], ![j] = heads[i]]
  <2>1. /\ gs \in Seq(Heads) /\ Len(gs) = Len(heads) /\ gs[i] = heads[j] /\ gs[j] = heads[i]
        /\ \A k \in 1 .. Len(heads) : k # i /\ k # j => gs[k] = heads[k]
    BY <1>3
  <2>2. heads' = gs BY <1>2, <1>9
  <2> HIDE DEF gs
  <2> DEFINE other(k) == IF k = i THEN j ELSE IF k = j THEN i ELSE k
  <2>3. /\ \A k \in 1 .. Len(heads) : other(k) \in 1 .. Len(heads) /\ gs[k] = heads[other(k)]
                                      /\ gs[other(k)] = heads[k]
        /\ \A k \in 1 .. i : other(k) \in 1 .. i
    <3>1. ASSUME NEW k \in 1 .. Len(heads)
          PROVE  other(k) \in 1 .. Len(heads) /\ gs[k] = heads[other(k)]
                 /\ gs[other(k)] = heads[k]
      <4>1. CASE k = i BY <1>3, <2>1, <4>1
      <4>2. CASE k = j /\ k # i BY <1>3, <2>1, <4>2
      <4>3. CASE k # i /\ k # j BY <1>3, <2>1, <4>3
      <4> QED BY <4>1, <4>2, <4>3
    <3>2. \A k \in 1 .. i : other(k) \in 1 .. i BY <1>3
    <3> QED BY <3>1, <3>2
  <2> HIDE DEF other
  <2>4. Settled(gs) /\ AllAt(gs, floor) /\ NoneHalted(gs, i)
    <3>1. Settled(gs)
      <4> SUFFICES ASSUME NEW k \in 1 .. Len(heads), gs[k].fresh PROVE gs[k].status = "halted"
        BY <2>1 DEF Settled
      <4>1. other(k) \in 1 .. Len(heads) /\ gs[k] = heads[other(k)] BY <2>3
      <4> QED BY <1>3, <4>1 DEF Settled
    <3>2. AllAt(gs, floor) BY <1>4, <2>1, <2>3 DEF AllAt
    <3>3. NoneHalted(gs, i) BY <1>4, <1>7, <2>3 DEF NoneHalted
    <3> QED BY <3>1, <3>2, <3>3
  <2>5. Keeps(best, gs)
    <3> SUFFICES ASSUME NEW s \in best PROVE \E k \in Racing(gs) : NoWorse(St(gs, k), s)
      BY DEF Keeps
    <3>1. PICK l \in Racing(heads) : NoWorse(St(heads, l), s) BY <1>4 DEF Keeps
    <3>2. PICK k \in 1 .. Len(gs) : gs[k] = heads[l] BY <2>1, <2>3, <3>1 DEF Racing
    <3> QED BY <3>1, <3>2 DEF Racing, St
  <2>6. NoWorse(statusI, St(heads, j)) BY <1>1, <1>3, <1>9, Comparisons DEF Comparison, St
  <2>7. \A l \in j .. i - 1 : NoWorse(St(heads, j), St(heads, l)) BY <1>3, <1>4 DEF Sorted
  <2>8. ASSUME NEW l \in j .. i - 1 PROVE NoWorse(St(heads, i), St(heads, l))
    <3>1. l \in 1 .. Len(heads) BY <1>3
    <3>2. CASE NoWorse(St(heads, i), statusI)
      <4>1. NoWorse(St(heads, i), St(heads, j)) BY <1>3, <2>6, <3>2, Order
      <4>2. NoWorse(St(heads, j), St(heads, l)) BY <2>7
      <4> QED BY <1>3, <3>1, <4>1, <4>2, Order
    <3> QED BY <1>6, <3>2
  <2>9. /\ St(gs, i) = St(heads, j) /\ St(gs, j) = St(heads, i)
        /\ \A k \in 1 .. i - 1 : k # j => St(gs, k) = St(heads, k)
    BY <1>3, <2>1 DEF St
  <2>10. Sorted(gs, i - 1)
    <3> SUFFICES ASSUME NEW k \in 1 .. i - 1, NEW l \in 1 .. i - 1, k <= l
                 PROVE  NoWorse(St(gs, k), St(gs, l))
      BY DEF Sorted
    <3>1. CASE k # j /\ l # j BY <1>4, <2>9, <3>1 DEF Sorted
    <3>2. CASE k # j /\ l = j
      <4>1. k \in 1 .. j - 1 BY <1>3, <3>2
      <4> QED BY <1>4, <2>9, <3>2, <4>1
    <3>3. CASE k = j /\ l # j
      <4>1. l \in j .. i - 1 BY <1>3, <3>3
      <4> QED BY <2>8, <2>9, <3>3, <4>1
    <3>4. CASE k = j /\ l = j BY <1>3, <2>9, <3>4, Order
    <3> QED BY <3>1, <3>2, <3>3, <3>4
  <2>11. \A k \in 1 .. j + 1 - 1 : NoWorse(St(gs, k), St(gs, i))
    <3> SUFFICES ASSUME NEW k \in 1 .. j PROVE NoWorse(St(gs, k), St(heads, j)) BY <1>3, <2>9
    <3>1. CASE k < j
      <4>1. k \in 1 .. i - 1 /\ j \in 1 .. i - 1 /\ k # j /\ k <= j BY <1>3, <3>1
      <4> QED BY <1>4, <2>9, <4>1 DEF Sorted
    <3>2. CASE k = j
      <4>1. j \in j .. i - 1 BY <1>3
      <4> QED BY <2>8, <2>9, <3>2, <4>1
    <3> QED BY <1>7, <3>1, <3>2
  <2>12. \E k \in 1 .. i : (k < j + 1 \/ k = i) /\ NoWorse(St(gs, k), statusI)
    <3>1. CASE y < j
      <4>1. y \in 1 .. i - 1 /\ y # j /\ y < j + 1 BY <1>3, <3>1
      <4> QED BY <1>5, <2>9, <4>1
    <3>2. CASE y = i
      <4>1. j \in 1 .. i /\ j < j + 1 BY <1>3
      <4> QED BY <1>5, <2>9, <3>2, <4>1
    <3> QED BY <1>5, <3>1, <3>2
  <2>13. \A k \in j + 1 .. i - 1 : NoWorse(St(gs, i), St(gs, k))
    <3>1. \A k \in j + 1 .. i - 1 : k \in 1 .. i - 1 /\ k # j /\ k \in j .. i - 1 BY <1>3
    <3> QED BY <2>7, <2>9, <3>1
  <2>14. InnerOf(gs, i, j + 1, statusI, floor, best)
    BY <1>3, <1>7, <2>1, <2>4, <2>5, <2>6, <2>9, <2>10, <2>11, <2>12, <2>13 DEF InnerOf
  <2>15. /\ TypeOK' /\ floor' = floor /\ lastPosition' = lastPosition /\ best' = best
    BY <1>2, <1>3, <2>1, <2>2, CondensingTypes DEF TypeOK
  <2>16. InnerOf(heads', i', j', statusI', floor', best') BY <1>2, <2>2, <2>14, <2>15
  <2> QED BY <1>2, <1>3, <2>2, <2>4, <2>15, <2>16 DEF IInv, Settled, Inner
<1> QED BY <1>8, <1>9

\* The cut to MAX_VERSION_COUNT removes no version that is better than one that stays.
LEMMA CutKeeps ==
  ASSUME IInv, Cut
  PROVE  IInv'
<1>1. /\ TypeOK /\ Settled(heads) /\ floor <= lastPosition /\ Condensing("condense")
      /\ OuterOf(heads, i, floor, best) /\ heads \in Seq(Heads) /\ best \in SUBSET Statuses
      /\ i = Len(heads) + 1
  BY DEF Cut, Condensing, IInv, TypeOK, Outer, OuterOf
<1> DEFINE m == Least(Len(heads), MaxVersionCount)
           gs == SubSeq(heads, 1, m)
<1>2. /\ heads' = gs /\ phase' = "resume" /\ i' = 1 /\ n' = Len(gs) /\ hasUnpausedVersion' = FALSE
      /\ UNCHANGED <<j, statusI, minErrorCost>>
  BY DEF Cut
<1>3. m \in 0 .. Len(heads) /\ (m < Len(heads) => m >= 1) BY <1>1, Numbers DEF Least
<1> HIDE DEF m
<1>4. gs \in Seq(Heads) /\ Len(gs) = m /\ \A k \in 1 .. m : gs[k] = heads[k] BY <1>1, <1>3
<1> HIDE DEF gs
<1>5. Settled(gs) BY <1>1, <1>3, <1>4 DEF Settled
<1>6. Sorted(heads, Len(heads)) /\ NoneHalted(heads, Len(heads)) /\ Keeps(best, heads)
  <2>1. i - 1 = Len(heads) BY <1>1
  <2> QED BY <1>1, <2>1 DEF OuterOf
<1>7. Sorted(gs, Len(gs)) BY <1>3, <1>4, <1>6 DEF Sorted, St
<1>8. Keeps(best, gs)
  <2> SUFFICES ASSUME NEW s \in best PROVE \E k \in Racing(gs) : NoWorse(St(gs, k), s)
    BY DEF Keeps
  <2>1. PICK l \in 1 .. Len(heads) : NoWorse(St(heads, l), s) BY <1>6 DEF Keeps, Racing
  <2>2. CASE l <= m
    <3>1. l \in 1 .. m /\ gs[l] = heads[l] BY <1>4, <2>2
    <3> QED BY <1>4, <1>6, <2>1, <3>1 DEF Racing, St, NoneHalted
  <2>3. CASE l > m
    <3>1. 1 \in 1 .. m /\ 1 \in 1 .. Len(heads) /\ 1 <= l BY <1>3, <2>3
    <3>2. NoWorse(St(heads, 1), St(heads, l)) BY <1>6, <3>1 DEF Sorted
    <3>3. /\ St(heads, 1) \in Statuses /\ St(heads, l) \in Statuses /\ s \in Statuses
      BY <1>1, <3>1, Members, StatusTypes DEF St
    <3>4. NoWorse(St(heads, 1), s) BY <2>1, <3>2, <3>3, Order
    <3> QED BY <1>4, <1>6, <3>1, <3>4 DEF Racing, St, NoneHalted
  <2> QED BY <1>3, <2>2, <2>3
<1>9. /\ TypeOK' /\ floor' = floor /\ lastPosition' = lastPosition /\ best' = best
  <2>1. /\ i' \in Nat \ {0} /\ n' \in Nat /\ hasUnpausedVersion' \in BOOLEAN
        /\ heads' \in Seq(Heads) /\ phase' \in {"condense", "compare", "resume"}
    <3>1. n' \in Nat BY <1>2, <1>3, <1>4
    <3>2. i' \in Nat \ {0} BY <1>2
    <3>3. hasUnpausedVersion' \in BOOLEAN BY <1>2, Zenon
    <3>4. heads' \in Seq(Heads) BY <1>2, <1>4
    <3>5. phase' \in {"condense", "compare", "resume"} BY <1>2
    <3> QED BY <3>1, <3>2, <3>3, <3>4, <3>5
  <2>2. j' \in Nat \ {0} /\ statusI' \in Statuses /\ minErrorCost' \in Nat
    BY <1>1, <1>2 DEF TypeOK
  <2> QED BY <1>1, <2>1, <2>2, CondensingTypes
<1>10. n' <= Len(heads') BY <1>2, <1>4
<1> QED BY <1>1, <1>2, <1>5, <1>7, <1>8, <1>9, <1>10 DEF IInv, Settled, Resuming

\* Resuming a paused version is all that is done with it,
LEMMA ResumeKeeps ==
  ASSUME IInv, Resume
  PROVE  IInv'
<1>1. /\ TypeOK /\ Settled(heads) /\ floor <= lastPosition /\ heads \in Seq(Heads)
      /\ phase = "resume" /\ i \in 1 .. Len(heads) /\ heads[i].status = "paused"
      /\ n \in Nat /\ n <= Len(heads)
  BY DEF Resume, Paused, IInv, TypeOK, Resuming
<1>2. /\ minErrorCost' = ErrorCost(heads[i]) /\ hasUnpausedVersion' = TRUE /\ i' = i + 1
      /\ UNCHANGED <<phase, parse, j, statusI, n, best>>
  BY DEF Resume
<1>3. PICK o \in HandleError(heads, i) : heads' = o.heads /\ Accepted(o.root) BY DEF Resume
<1>4. /\ heads' \in Seq(Heads) /\ Settled(heads') /\ Len(heads) <= Len(heads')
      /\ o.root \in Nat \cup {None}
  BY <1>1, <1>3, HandlingError
<1>5. finished' \in Nat \cup {None} /\ accepts' \in Nat BY <1>1, <1>3, <1>4, Accepting
<1>6. minErrorCost' \in Nat BY <1>1, <1>2, Members, StatusTypes
<1>7. i' \in Nat \ {0} /\ i' # 1 /\ n' <= Len(heads') BY <1>1, <1>2, <1>4
<1>8. TypeOK' BY <1>1, <1>2, <1>4, <1>5, <1>6, <1>7 DEF TypeOK, parse
<1> QED BY <1>1, <1>2, <1>4, <1>7, <1>8 DEF IInv, Settled, Resuming, parse

\* any other paused one is removed,
LEMMA RemovePausedKeeps ==
  ASSUME IInv, RemovePaused
  PROVE  IInv'
<1>1. /\ TypeOK /\ Settled(heads) /\ floor <= lastPosition /\ heads \in Seq(Heads)
      /\ phase = "resume" /\ Resuming /\ ~MayResume /\ i \in 1 .. Len(heads)
      /\ n \in 1 .. Len(heads)
  BY DEF RemovePaused, Paused, IInv, TypeOK, Resuming
<1>2. /\ heads' = Without(heads, i) /\ n' = n - 1
      /\ UNCHANGED <<finished, accepts, phase, parse, i, j, statusI, minErrorCost,
                     hasUnpausedVersion, best>>
  BY DEF RemovePaused
<1>3. heads' \in Seq(Heads) /\ Len(heads') = Len(heads) - 1 BY <1>1, <1>2, WithoutAt
<1>4. Settled(heads') BY <1>1, <1>2, RestWithout
<1>5. i = 1 => Sorted(heads', Len(heads'))
  <2>1. Len(heads) \in i .. Len(heads) BY <1>1
  <2> QED BY <1>1, <1>2, <1>3, <2>1, RestWithout DEF Resuming
<1>6. ~MayResume' BY <1>1, <1>2 DEF MayResume
<1>7. n' \in Nat /\ n' <= Len(heads') BY <1>1, <1>2, <1>3
<1>8. TypeOK' BY <1>1, <1>2, <1>3, <1>7 DEF TypeOK, parse
<1> QED BY <1>1, <1>2, <1>4, <1>5, <1>6, <1>7, <1>8 DEF IInv, Settled, Resuming, parse

\* and one that is not paused stays.
LEMMA KeepUnpausedKeeps ==
  ASSUME IInv, KeepUnpaused
  PROVE  IInv'
<1>1. /\ TypeOK /\ Settled(heads) /\ floor <= lastPosition /\ phase = "resume"
      /\ i \in Nat \ {0} /\ n <= Len(heads)
  BY DEF KeepUnpaused, IInv, TypeOK, Resuming
<1>2. /\ hasUnpausedVersion' = TRUE /\ i' = i + 1
      /\ UNCHANGED <<heads, finished, accepts, phase, parse, j, statusI, minErrorCost, n, best>>
  BY DEF KeepUnpaused
<1>3. i' \in Nat \ {0} /\ i' # 1 BY <1>1, <1>2
<1>4. TypeOK' BY <1>1, <1>2, <1>3 DEF TypeOK, parse
<1> QED BY <1>1, <1>2, <1>3, <1>4 DEF IInv, Settled, Resuming, parse

\* The stack of a new parse.
LEMMA OneVersionIsHeads ==
  OneVersion \in Seq(Heads) /\ Settled(OneVersion) /\ Len(OneVersion) = 1
<1> DEFINE h == [status |-> "active", state |-> StartState, fresh |-> FALSE, pos |-> 0,
                 cost |-> 0, count |-> 0, prec |-> 0]
<1>1. h \in Heads /\ ~h.fresh BY StatesAssumption DEF Heads
<1>2. OneVersion = <<h>> BY DEF OneVersion
<1> HIDE DEF h
<1> QED BY <1>1, <1>2 DEF Settled

\* The next round begins where the last one ended.
LEMMA RoundOverKeeps ==
  ASSUME IInv, RoundOver
  PROVE  IInv'
<1>1. /\ TypeOK /\ Settled(heads) /\ heads \in Seq(Heads) /\ lastPosition \in Nat
  BY DEF IInv, TypeOK
<1>2. /\ heads' \in {OneVersion, heads} /\ phase' \in {"done", "advance"}
      /\ version' = 1 /\ floor' = lastPosition
      /\ UNCHANGED <<finished, accepts, lastPosition, versionCount, condense>>
  BY DEF RoundOver
<1>3. heads' \in Seq(Heads) /\ Settled(heads') BY <1>1, <1>2, OneVersionIsHeads
<1>4. TypeOK' BY <1>1, <1>2, <1>3 DEF TypeOK, condense
<1>5. floor' <= lastPosition' BY <1>1, <1>2
<1>6. Advancing' BY <1>2, <1>5 DEF Advancing
<1> QED BY <1>2, <1>3, <1>4, <1>5, <1>6 DEF IInv, Settled
-----------------------------------------------------------------------------
\* The invariant holds at first,
LEMMA InitHolds == Init => IInv
<1> SUFFICES ASSUME Init PROVE IInv OBVIOUS
<1>1. heads \in Seq(Heads) /\ Settled(heads) /\ Len(heads) = 1 BY OneVersionIsHeads DEF Init
<1>2. statusI \in Statuses
  <2>1. heads[1] \in Heads BY <1>1
  <2> QED BY <2>1, StatusTypes DEF Init
<1>3. TypeOK
  <2>1. finished \in Nat \cup {None} /\ accepts \in Nat BY DEF Init
  <2>2. phase \in {"advance", "condense", "compare", "resume", "done"} BY DEF Init
  <2>3. /\ version \in Nat \ {0} /\ lastPosition \in Nat /\ versionCount \in Nat /\ floor \in Nat
        /\ i \in Nat \ {0} /\ j \in Nat \ {0} /\ n \in Nat
    BY DEF Init
  <2>4. minErrorCost \in Nat BY Numbers DEF Init
  <2>5. hasUnpausedVersion \in BOOLEAN BY DEF Init
  <2>6. best \in SUBSET Statuses BY DEF Init
  <2> QED BY <1>1, <1>2, <2>1, <2>2, <2>3, <2>4, <2>5, <2>6 DEF TypeOK
<1>4. Advancing BY DEF Init, Advancing
<1> QED BY <1>1, <1>3, <1>4 DEF Init, IInv

\* every step keeps it,
LEMMA StepKeeps == IInv /\ [Next]_vars => IInv'
<1> SUFFICES ASSUME IInv, [Next]_vars PROVE IInv' OBVIOUS
<1>1. ASSUME NEW s \in State, NEW width \in {0, 1}, Shift(s, width) PROVE IInv'
  BY <1>1, ShiftKeeps
<1>2. ASSUME NEW f \in Reductions, Reduce(f) PROVE IInv' BY <1>2, ReduceKeeps
<1>3. ASSUME NEW f \in Reductions, ReduceAway(f) PROVE IInv' BY <1>3, ReduceAwayKeeps
<1>4. CASE Accept BY <1>4, AcceptKeeps
<1>5. CASE Pause BY <1>5, PauseKeeps
<1>6. CASE RecoverInTurn BY <1>6, RecoverKeeps
<1>7. CASE NextTurn BY <1>7, NextTurnKeeps
<1>8. CASE TurnsOver BY <1>8, TurnsOverKeeps
<1>9. CASE RemoveHalted BY <1>9, RemoveHaltedKeeps
<1>10. CASE TakeUp BY <1>10, TakeUpKeeps
<1>11. CASE RemoveI BY <1>11, RemoveIKeeps
<1>12. CASE RemoveJ BY <1>12, RemoveJKeeps
<1>13. CASE MergeIntoJ BY <1>13, MergeIntoJKeeps
<1>14. CASE SwapOrKeep BY <1>14, SwapOrKeepKeeps
<1>15. CASE Compared BY <1>15, ComparedKeeps
<1>16. CASE Cut BY <1>16, CutKeeps
<1>17. CASE Resume BY <1>17, ResumeKeeps
<1>18. CASE RemovePaused BY <1>18, RemovePausedKeeps
<1>19. CASE KeepUnpaused BY <1>19, KeepUnpausedKeeps
<1>20. CASE RoundOver BY <1>20, RoundOverKeeps
<1>21. CASE UNCHANGED vars
  <2>1. UNCHANGED <<heads, finished, accepts, phase, version, lastPosition, versionCount, floor,
                    i, j, statusI, minErrorCost, n, hasUnpausedVersion, best>>
    BY <1>21 DEF vars, parse, condense
  <2>2. TypeOK' BY <2>1 DEF IInv, TypeOK
  <2>3. Settled(heads)' /\ (floor <= lastPosition)' BY <2>1 DEF IInv, Settled
  <2>4. (phase = "advance" => Advancing)' BY <2>1 DEF IInv, Advancing
  <2>5. (phase = "condense" => Outer)' BY <2>1 DEF IInv, Outer
  <2>6. (phase = "compare" => Inner)' BY <2>1 DEF IInv, Inner
  <2>7. (phase = "resume" => Resuming)' BY <2>1 DEF IInv, Resuming, MayResume
  <2> QED BY <2>2, <2>3, <2>4, <2>5, <2>6, <2>7 DEF IInv
<1> QED
  BY <1>1, <1>2, <1>3, <1>4, <1>5, <1>6, <1>7, <1>8, <1>9, <1>10, <1>11, <1>12, <1>13, <1>14,
     <1>15, <1>16, <1>17, <1>18, <1>19, <1>20, <1>21 DEF Next

\* and so it always holds.
LEMMA Invariant == Spec => []IInv
BY InitHolds, StepKeeps, PTL DEF Spec

\* The versions, their counts and costs are what TypeOK says, whatever the grammar.
THEOREM TypeCorrect == Spec => []TypeOK
<1>1. IInv => TypeOK BY DEF IInv
<1> QED BY <1>1, Invariant, PTL

\* A round of Parse (src/parser_loop.go) takes no version less far than the furthest had come
\* before it: a version gets turn after turn until it has passed the one before it.
THEOREM InStepAlways == Spec => []InStep
<1>1. IInv => InStep BY DEF IInv, Outer, OuterOf, AllAt, InStep
<1> QED BY <1>1, Invariant, PTL

\* Whatever condenseStack removes, merges, swaps or cuts off, a version as good as the best
\* of those it began with is still there when a paused one may be resumed.
THEOREM BestKeptAlways == Spec => []BestKept
<1>1. IInv => BestKept
  BY DEF IInv, Outer, OuterOf, Inner, InnerOf, Resuming, Keeps, St, BestKept
<1> QED BY <1>1, Invariant, PTL

\* The one pass of condenseStack, which after a swap goes on with the status of the version
\* it moved away, sorts the versions all the same, for any grammar and any costs.
THEOREM BestFirstAlways == Spec => []BestFirst
<1>1. IInv => BestFirst
  <2> SUFFICES ASSUME IInv, phase = "resume", i = 1, NEW k \in 1 .. Len(heads) - 1
               PROVE  NoWorse(VersionStatus(heads[k]), VersionStatus(heads[k + 1]))
    BY DEF BestFirst
  <2>1. Sorted(heads, Len(heads)) /\ heads \in Seq(Heads) BY DEF IInv, Resuming, TypeOK
  <2>2. k \in 1 .. Len(heads) /\ k + 1 \in 1 .. Len(heads) /\ k <= k + 1 BY <2>1
  <2> QED BY <2>1, <2>2 DEF Sorted, St
<1> QED BY <1>1, Invariant, PTL
-----------------------------------------------------------------------------
(* How the race ends: however the versions give up because of better ones, are dropped,    *)
(* cut off or halted, one that goes on or a tree is left, Parse stops with a tree, and only *)
(* with one that is worth it.                                                               *)

\* None of the first m versions that is not in error costs less than c.
Costly(hs, m, c) == \A k \in 1 .. m : St(hs, k).isInError \/ c <= St(hs, k).cost
SomeActive(hs) == \E k \in 1 .. Len(hs) : Active(hs[k])
Underway == phase \in {"condense", "compare", "resume"}

\* A version that was counted as going on may have been halted by handleError since, in
\* favour of an active one: no paused one that is dropped later can be what was left.
Unpausing ==
  /\ n <= versionCount
  /\ i = 1 \/ hasUnpausedVersion
  /\ \A k \in i .. n : heads[k].status # "halted"
  /\ hasUnpausedVersion => finished # None \/ SomeActive(heads)
  /\ Costly(heads, n, minErrorCost)

EndInv ==
  /\ finished # None \/ Racing(heads) # {}
  /\ accepts > 0 \/ phase = "done" \/ (Underway /\ versionCount = 0) => finished # None
  /\ phase \in {"condense", "compare"} => Len(heads) <= versionCount
  /\ phase = "condense" => Costly(heads, i - 1, minErrorCost)
  /\ phase = "compare" => Costly(heads, i, minErrorCost)
  /\ phase = "resume" => Unpausing

-----------------------------------------------------------------------------
(* What is left of the versions. *)

\* A version that is active is still in the race.
LEMMA ActiveRaces ==
  ASSUME NEW hs, SomeActive(hs)
  PROVE  Racing(hs) # {}
BY DEF SomeActive, Active, Racing

\* All versions but the one that is taken out stay, and in order.
LEMMA OthersStay ==
  ASSUME NEW hs \in Seq(Heads), NEW x \in 1 .. Len(hs), NEW y \in 1 .. Len(hs), y # x
  PROVE  \E k \in 1 .. Len(Without(hs, x)) : Without(hs, x)[k] = hs[y]
<1> DEFINE gs == Without(hs, x)
<1>1. /\ Len(gs) = Len(hs) - 1
      /\ \A k \in 1 .. Len(hs) - 1 : gs[k] = IF k < x THEN hs[k] ELSE hs[k + 1]
  BY WithoutAt
<1> HIDE DEF gs
<1>2. CASE y < x
  <2>1. y \in 1 .. Len(gs) /\ gs[y] = hs[y] BY <1>1, <1>2
  <2> QED BY <2>1 DEF gs
<1>3. CASE y > x
  <2>1. y - 1 \in 1 .. Len(gs) /\ gs[y - 1] = hs[y] BY <1>1, <1>3
  <2> QED BY <2>1 DEF gs
<1> QED BY <1>2, <1>3

\* The costs of the first versions stay bounded when one is taken out.
LEMMA CostlyWithout ==
  ASSUME NEW hs \in Seq(Heads), NEW x \in 1 .. Len(hs), NEW m \in 0 .. Len(hs), NEW c,
         Costly(hs, m, c)
  PROVE  /\ m >= x => Costly(Without(hs, x), m - 1, c)
         /\ m < x => Costly(Without(hs, x), m, c)
<1> DEFINE gs == Without(hs, x)
<1>1. /\ Len(gs) = Len(hs) - 1
      /\ \A k \in 1 .. Len(hs) - 1 : gs[k] = IF k < x THEN hs[k] ELSE hs[k + 1]
  BY WithoutAt
<1> HIDE DEF gs
<1>2. ASSUME m >= x, NEW k \in 1 .. m - 1 PROVE \E l \in 1 .. m : gs[k] = hs[l]
  <2>1. CASE k < x
    <3>1. k \in 1 .. m /\ gs[k] = hs[k] BY <1>1, <1>2, <2>1
    <3> QED BY <3>1
  <2>2. CASE k >= x
    <3>1. k + 1 \in 1 .. m /\ gs[k] = hs[k + 1] BY <1>1, <1>2, <2>2
    <3> QED BY <3>1
  <2> QED BY <2>1, <2>2
<1>3. ASSUME m < x, NEW k \in 1 .. m PROVE gs[k] = hs[k] BY <1>1, <1>3
<1>4. m >= x => Costly(gs, m - 1, c) BY <1>2 DEF Costly, St
<1>5. m < x => Costly(gs, m, c) BY <1>3 DEF Costly, St
<1> QED BY <1>4, <1>5 DEF gs

\* What is no better than one that does not cost less does not either.
LEMMA CostlyNoWorse ==
  ASSUME NEW a \in Statuses, NEW b \in Statuses, NoWorse(a, b), NEW c \in Nat,
         a.isInError \/ c <= a.cost
  PROVE  b.isInError \/ c <= b.cost
<1>1. a.cost \in Nat /\ b.cost \in Nat BY DEF Statuses
<1> QED BY <1>1 DEF NoWorse

\* A better version is a tree that was accepted or another version that is active.
LEMMA BetterOneLeft ==
  ASSUME NEW hs, NEW v, NEW inError, NEW cost, BetterVersionExists(hs, v, inError, cost)
  PROVE  finished # None \/ \E k \in 1 .. Len(hs) \ {v} : Active(hs[k])
BY DEF BetterVersionExists

\* Halting a version changes its status alone.
LEMMA Halted ==
  ASSUME NEW hs \in Seq(Heads), NEW v \in 1 .. Len(hs)
  PROVE  /\ Len(Halt(hs, v)) = Len(hs) /\ Halt(hs, v)[v].state = hs[v].state
         /\ \A k \in 1 .. Len(hs) : k # v => Halt(hs, v)[k] = hs[k]
<1> DEFINE h == [hs[v] EXCEPT !.status = "halted"]
<1>1. hs[v] \in Heads BY Members
<1>2. h \in Heads /\ h.state = hs[v].state BY <1>1 DEF Heads
<1>3. Halt(hs, v) = [hs EXCEPT ![v] = h] BY DEF Halt
<1> HIDE DEF h
<1> QED BY <1>2, <1>3

\* A version that skips a token goes on, or gives up because of another or a tree.
LEMMA SkippingLeaves ==
  ASSUME NEW hs \in Seq(Heads), NEW v \in 1 .. Len(hs), Active(hs[v]),
         NEW gs, gs = SkipLookahead(hs, v)
  PROVE  /\ finished # None \/ SomeActive(gs)
         /\ Len(gs) = Len(hs) /\ gs[v].state = hs[v].state
         /\ \A k \in 1 .. Len(hs) : k # v => gs[k] = hs[k]
<1> DEFINE cost == ErrorCost(hs[v]) + PerSkippedTree
           pos == hs[v].pos + 1
           count == Least(hs[v].count + 1, MaxCount)
           h == [hs[v] EXCEPT !.pos = pos, !.cost = cost, !.fresh = FALSE, !.count = count]
           skipped == [hs EXCEPT ![v].pos = @ + 1, ![v].cost = cost, ![v].fresh = FALSE,
                                 ![v].count = Least(@ + 1, MaxCount)]
<1>1. CASE BetterVersionExists(hs, v, FALSE, cost)
  <2>1. gs = Halt(hs, v) BY <1>1 DEF SkipLookahead
  <2>2. finished # None \/ \E k \in 1 .. Len(hs) \ {v} : Active(hs[k]) BY <1>1, BetterOneLeft
  <2>3. /\ Len(gs) = Len(hs) /\ gs[v].state = hs[v].state
        /\ \A k \in 1 .. Len(hs) : k # v => gs[k] = hs[k]
    BY <2>1, Halted
  <2> QED BY <2>2, <2>3 DEF SomeActive
<1>2. CASE ~BetterVersionExists(hs, v, FALSE, cost)
  <2>1. gs = skipped BY <1>2 DEF SkipLookahead
  <2>2. skipped = [hs EXCEPT ![v] = h] OBVIOUS
  <2>3. hs[v] \in Heads /\ hs[v].pos \in Nat /\ hs[v].count \in Nat BY Members DEF Heads
  <2>4. cost \in Nat /\ pos \in Nat BY <2>3, StatusTypes, Numbers
  <2>5. count \in Nat BY <2>3, Numbers DEF Least
  <2> HIDE DEF cost, pos, count
  <2>6. h \in Heads /\ h.state = hs[v].state /\ h.status = hs[v].status
    BY <2>3, <2>4, <2>5 DEF Heads
  <2> HIDE DEF h, skipped
  <2>7. /\ Len(gs) = Len(hs) /\ gs[v] = h /\ \A k \in 1 .. Len(hs) : k # v => gs[k] = hs[k]
    BY <2>1, <2>2, <2>6
  <2> QED BY <2>6, <2>7 DEF SomeActive, Active
<1> QED BY <1>1, <1>2

\* recover leaves a version that goes on, a tree that was there, or the one it accepts, and
\* changes no other version.
LEMMA RecoveryLeaves ==
  ASSUME NEW hs \in Seq(Heads), NEW v \in 1 .. Len(hs), SettledBut(hs, v), Active(hs[v]),
         NEW o \in Recover(hs, v)
  PROVE  /\ finished # None \/ o.root # None \/ SomeActive(o.heads)
         /\ Len(hs) <= Len(o.heads) /\ o.heads[v].state = hs[v].state
         /\ \A k \in 1 .. Len(hs) : k # v => o.heads[k] = hs[k]
<1> DEFINE recovered == {Append(hs, h) : h \in {x \in RecoveredTo(hs, v) : Worth(hs, v, x)}}
<1>1. \/ \E gs \in {hs} \cup recovered : o = Outcome(Halt(gs, v), hs[v].cost + PerRecovery)
      \/ o = Outcome(SkipLookahead(hs, v), None)
      \/ \E gs \in recovered : o = Outcome(Halt(gs, v), None)
      \/ \E gs \in recovered : o = Outcome(SkipLookahead(gs, v), None)
  <2> HIDE DEF recovered
  <2> QED BY DEF Recover, recovered
<1>2. ASSUME NEW gs \in recovered
      PROVE  /\ gs \in Seq(Heads) /\ v \in 1 .. Len(gs) /\ Active(gs[v]) /\ Len(hs) <= Len(gs)
             /\ \A k \in 1 .. Len(hs) : gs[k] = hs[k]
             /\ \E k \in 1 .. Len(gs) : k # v /\ Active(gs[k])
  <2>1. gs \in {hs} \cup {Append(hs, h) : h \in RecoveredTo(hs, v)} OBVIOUS
  <2>2. /\ gs \in Seq(Heads) /\ v \in 1 .. Len(gs) /\ Active(gs[v])
        /\ Len(hs) <= Len(gs) /\ \A k \in 1 .. Len(hs) : gs[k] = hs[k]
    BY <2>1, Recovering
  <2>3. PICK h \in RecoveredTo(hs, v) : gs = Append(hs, h) OBVIOUS
  <2>4. Active(h)
    <3> DEFINE goals == {g \in Goals : ~WouldMerge(hs, v, g)}
    <3>1. \E s \in goals, d \in 1 .. MaxDepth :
            h = [status |-> "active", state |-> s, fresh |-> FALSE, pos |-> hs[v].pos,
                 cost |-> ErrorCost(hs[v]) + d * PerSkippedTree, count |-> 0,
                 prec |-> hs[v].prec]
      <4> HIDE DEF goals
      <4> QED BY DEF RecoveredTo, goals
    <3> QED BY <3>1 DEF Active
  <2>5. Len(gs) = Len(hs) + 1 /\ gs[Len(hs) + 1] = h BY <2>3
  <2>6. Len(hs) + 1 \in 1 .. Len(gs) /\ Len(hs) + 1 # v BY <2>5
  <2> QED BY <2>2, <2>4, <2>5, <2>6
<1> HIDE DEF recovered
<1>3. ASSUME NEW gs \in {hs} \cup recovered
      PROVE  gs \in Seq(Heads) /\ v \in 1 .. Len(gs) /\ Active(gs[v]) /\ Len(hs) <= Len(gs)
             /\ \A k \in 1 .. Len(hs) : gs[k] = hs[k]
  BY <1>2
<1>4. ASSUME NEW gs \in {hs} \cup recovered, NEW fs, Len(fs) = Len(gs),
             fs[v].state = gs[v].state, \A k \in 1 .. Len(gs) : k # v => fs[k] = gs[k]
      PROVE  /\ Len(hs) <= Len(fs) /\ fs[v].state = hs[v].state
             /\ \A k \in 1 .. Len(hs) : k # v => fs[k] = hs[k]
  <2>1. \A k \in 1 .. Len(hs) : k \in 1 .. Len(gs) BY <1>3
  <2> QED BY <1>3, <1>4, <2>1
<1>5. CASE \E gs \in {hs} \cup recovered : o = Outcome(Halt(gs, v), hs[v].cost + PerRecovery)
  <2>1. PICK gs \in {hs} \cup recovered : o = Outcome(Halt(gs, v), hs[v].cost + PerRecovery)
    BY <1>5
  <2>2. o.root \in Nat
    <3>1. hs[v] \in Heads OBVIOUS
    <3>2. hs[v].cost \in Nat BY <3>1 DEF Heads
    <3> QED BY <2>1, <3>2, Numbers DEF Outcome
  <2>3. o.root # None BY <2>2 DEF None
  <2>4. o.heads = Halt(gs, v) BY <2>1 DEF Outcome
  <2> QED BY <1>3, <1>4, <2>3, <2>4, Halted
<1>6. CASE o = Outcome(SkipLookahead(hs, v), None)
  <2>1. o.heads = SkipLookahead(hs, v) BY <1>6 DEF Outcome
  <2>2. /\ finished # None \/ SomeActive(o.heads)
        /\ Len(o.heads) = Len(hs) /\ o.heads[v].state = hs[v].state
        /\ \A k \in 1 .. Len(hs) : k # v => o.heads[k] = hs[k]
    BY <2>1, SkippingLeaves
  <2> QED BY <2>2
<1>7. CASE \E gs \in recovered : o = Outcome(Halt(gs, v), None)
  <2>1. PICK gs \in recovered : o = Outcome(Halt(gs, v), None) BY <1>7
  <2>2. o.heads = Halt(gs, v) BY <2>1 DEF Outcome
  <2>3. /\ Len(o.heads) = Len(gs) /\ o.heads[v].state = gs[v].state
        /\ \A k \in 1 .. Len(gs) : k # v => o.heads[k] = gs[k]
    BY <1>2, <2>2, Halted
  <2>4. SomeActive(o.heads) BY <1>2, <2>3 DEF SomeActive
  <2> QED BY <1>4, <2>3, <2>4
<1>8. CASE \E gs \in recovered : o = Outcome(SkipLookahead(gs, v), None)
  <2>1. PICK gs \in recovered : o = Outcome(SkipLookahead(gs, v), None) BY <1>8
  <2>2. o.heads = SkipLookahead(gs, v) BY <2>1 DEF Outcome
  <2>3. /\ Len(o.heads) = Len(gs) /\ o.heads[v].state = gs[v].state
        /\ \A k \in 1 .. Len(gs) : k # v => o.heads[k] = gs[k]
    BY <1>2, <2>2, SkippingLeaves
  <2>4. SomeActive(o.heads) BY <1>2, <2>3 DEF SomeActive
  <2> QED BY <1>4, <2>3, <2>4
<1> QED BY <1>1, <1>5, <1>6, <1>7, <1>8

\* So does handleError, which leaves its version in the error state.
LEMMA HandlingLeaves ==
  ASSUME NEW hs \in Seq(Heads), NEW v \in 1 .. Len(hs), Settled(hs), hs[v].status = "paused",
         NEW o \in HandleError(hs, v)
  PROVE  /\ finished # None \/ o.root # None \/ SomeActive(o.heads)
         /\ o.heads[v].state = ErrorState
         /\ \A k \in 1 .. Len(hs) : k # v => o.heads[k] = hs[k]
<1>1. PICK gs \in WithMissing(hs, v) : o \in Recover(InErrorState(gs, v), v) BY DEF HandleError
<1> DEFINE fs == InErrorState(gs, v)
<1>2. /\ fs \in Seq(Heads) /\ Len(hs) <= Len(fs) /\ v \in 1 .. Len(fs)
      /\ SettledBut(fs, v) /\ Active(fs[v]) /\ fs[v].state = ErrorState
      /\ \A k \in 1 .. Len(hs) : k # v => fs[k] = hs[k]
  BY EnteringError
<1>3. o \in Recover(fs, v) BY <1>1
<1> HIDE DEF fs
<1>4. /\ finished # None \/ o.root # None \/ SomeActive(o.heads)
      /\ o.heads[v].state = fs[v].state
      /\ \A k \in 1 .. Len(fs) : k # v => o.heads[k] = fs[k]
  BY <1>2, <1>3, RecoveryLeaves
<1>5. \A k \in 1 .. Len(hs) : k \in 1 .. Len(fs) BY <1>2
<1> QED BY <1>2, <1>4, <1>5

\* acceptance keeps the better of two trees, so that there never is none again.
LEMMA AcceptedStays ==
  ASSUME TypeOK, NEW root \in Nat \cup {None}, Accepted(root)
  PROVE  /\ finished # None \/ root # None => finished' # None
         /\ accepts' > 0 => accepts > 0 \/ root # None
BY DEF TypeOK, Accepted, Least, None

\* A fork of a version takes nothing from it; one that was merged into another leaves it.
LEMMA ForkingLeaves ==
  ASSUME NEW hs \in Seq(Heads), Settled(hs), NEW v \in 1 .. Len(hs), Active(hs[v]),
         NEW f \in Reduced(hs[v]), NEW gs \in Forked(hs, v, f)
  PROVE  /\ gs \in Seq(Heads) /\ v \in 1 .. Len(gs) /\ gs[v] = hs[v]
         /\ Takers(hs, v, f) # {} => \E k \in 1 .. Len(gs) : k # v /\ Active(gs[k])
<1>1. gs \in Seq(Heads) /\ Len(hs) <= Len(gs) BY Forking DEF OnFrom
<1>2. v \in 1 .. Len(gs) BY <1>1
<1>3. \A k \in Takers(hs, v, f) : k \in 1 .. Len(hs) /\ k # v /\ Active(hs[k])
  BY DEF Takers, CanMerge
<1>4. CASE gs = hs BY <1>2, <1>3, <1>4
<1>5. CASE gs = Append(hs, f) /\ Takers(hs, v, f) = {}
  <2>1. gs[v] = hs[v] BY <1>5
  <2> QED BY <1>1, <1>2, <1>5, <2>1
<1>6. ASSUME NEW k \in Takers(hs, v, f), NEW m \in MergedWith(hs[k], f), gs = [hs EXCEPT ![k] = m]
      PROVE  gs[v] = hs[v] /\ Active(gs[k]) /\ k \in 1 .. Len(gs) /\ k # v
  <2>1. k \in 1 .. Len(hs) /\ k # v /\ Active(hs[k]) BY <1>3
  <2>2. gs[v] = hs[v] /\ gs[k] = m /\ Len(gs) = Len(hs) BY <1>6, <2>1
  <2>3. m.status = hs[k].status
    <3>1. hs[k] \in Heads BY <2>1
    <3>2. PICK c \in {hs[k].count, Most(hs[k].count, f.count)},
               prec \in {hs[k].prec, Most(hs[k].prec, f.prec)} :
            m = [hs[k] EXCEPT !.count = IF hs[k].state = ErrorState THEN 0 ELSE c,
                              !.prec = prec]
      BY DEF MergedWith
    <3> QED BY <3>1, <3>2 DEF Heads
  <2> QED BY <2>1, <2>2, <2>3 DEF Active
<1>7. \/ gs = hs
      \/ gs = Append(hs, f) /\ Takers(hs, v, f) = {}
      \/ \E k \in Takers(hs, v, f) : \E m \in MergedWith(hs[k], f) : gs = [hs EXCEPT ![k] = m]
  BY DEF Forked
<1> QED BY <1>1, <1>2, <1>4, <1>5, <1>6, <1>7

\* With or without a fork, the version itself stays as it was.
LEMMA ForksLeave ==
  ASSUME NEW hs \in Seq(Heads), Settled(hs), NEW v \in 1 .. Len(hs), Active(hs[v]),
         NEW gs \in WithForks(hs, v)
  PROVE  gs \in Seq(Heads) /\ v \in 1 .. Len(gs) /\ gs[v] = hs[v]
<1>1. CASE gs = hs BY <1>1
<1>2. CASE gs # hs BY <1>2, ForkingLeaves DEF WithForks
<1> QED BY <1>1, <1>2
-----------------------------------------------------------------------------
(* The round of Parse. *)

\* What a turn of the round has to leave for EndInv.
LEMMA InRound ==
  ASSUME phase' = "advance", finished' # None \/ Racing(heads') # {},
         accepts' > 0 => finished' # None
  PROVE  EndInv'
BY DEF EndInv, Underway

\* The version whose turn it is.
LEMMA WhoseTurn ==
  ASSUME IInv, EndInv, InTurn
  PROVE  /\ TypeOK /\ heads \in Seq(Heads) /\ Settled(heads) /\ SettledBut(heads, version)
         /\ version \in 1 .. Len(heads) /\ Active(heads[version]) /\ phase = "advance"
         /\ accepts > 0 => finished # None
BY DEF InTurn, IInv, TypeOK, Settled, SettledBut, EndInv

\* The version that shifts goes on.
LEMMA ShiftLeaves ==
  ASSUME IInv, EndInv, NEW s \in State, NEW width \in {0, 1}, Shift(s, width)
  PROVE  EndInv'
<1>1. /\ heads \in Seq(Heads) /\ Settled(heads) /\ version \in 1 .. Len(heads)
      /\ Active(heads[version]) /\ phase = "advance"
      /\ accepts > 0 => finished # None
  BY WhoseTurn DEF Shift
<1>2. PICK hs \in WithForks(heads, version) :
        Advanced([hs EXCEPT ![version].state = s, ![version].pos = @ + width,
                            ![version].count = Least(@ + 1, MaxCount)])
  BY DEF Shift
<1>3. hs \in Seq(Heads) /\ version \in 1 .. Len(hs) /\ Active(hs[version])
  BY <1>1, ForksLeave
<1> DEFINE h == [hs[version] EXCEPT !.state = s, !.pos = @ + width,
                                    !.count = Least(@ + 1, MaxCount)]
<1>4. h.status = hs[version].status
  <2>1. hs[version] \in Heads BY <1>3
  <2> QED BY <2>1 DEF Heads
<1>5. heads' = [hs EXCEPT ![version] = h] /\ phase' = phase BY <1>2, <1>3 DEF Advanced
<1> HIDE DEF h
<1>6. version \in 1 .. Len(heads') /\ Active(heads'[version])
  <2>1. Len(heads') = Len(hs) /\ heads'[version] = h BY <1>3, <1>5
  <2> QED BY <1>3, <1>4, <2>1 DEF Active
<1>7. Racing(heads') # {} BY <1>6, ActiveRaces DEF SomeActive
<1>8. accepts' > 0 => finished' # None BY <1>1 DEF Shift
<1> QED BY <1>1, <1>5, <1>7, <1>8, InRound

\* The version that reduces goes on, or the one it forks.
LEMMA ReduceLeaves ==
  ASSUME IInv, EndInv, NEW f \in Reductions, Reduce(f)
  PROVE  EndInv'
<1>1. InTurn /\ f \in Reduced(heads[version]) BY DEF Reductions, H
<1>2. /\ heads \in Seq(Heads) /\ Settled(heads) /\ version \in 1 .. Len(heads)
      /\ Active(heads[version]) /\ phase = "advance"
      /\ accepts > 0 => finished # None
  BY <1>1, WhoseTurn
<1>3. PICK hs \in WithForks(heads, version) : heads' = [hs EXCEPT ![version] = f] BY DEF Reduce
<1>4. hs \in Seq(Heads) /\ version \in 1 .. Len(hs) BY <1>2, ForksLeave
<1>5. Active(f)
  <2>1. heads[version] \in Heads BY <1>2
  <2> QED BY <1>1, <1>2, <2>1, Reducing DEF Active
<1>6. version \in 1 .. Len(heads') /\ Active(heads'[version]) BY <1>3, <1>4, <1>5
<1>7. Racing(heads') # {} BY <1>6, ActiveRaces DEF SomeActive
<1>8. phase' = "advance" /\ (accepts' > 0 => finished' # None) BY <1>2 DEF Reduce
<1> QED BY <1>7, <1>8, InRound

\* The version gives up, but the one it was merged into is another.
LEMMA ReduceAwayLeaves ==
  ASSUME IInv, EndInv, NEW f \in Reductions, ReduceAway(f)
  PROVE  EndInv'
<1>1. InTurn /\ f \in Reduced(heads[version]) BY DEF Reductions, H
<1>2. /\ heads \in Seq(Heads) /\ Settled(heads) /\ version \in 1 .. Len(heads)
      /\ Active(heads[version]) /\ phase = "advance"
      /\ accepts > 0 => finished # None
  BY <1>1, WhoseTurn
<1>3. PICK hs \in Forked(heads, version, f) : Advanced(Halt(hs, version)) BY DEF ReduceAway
<1>4. /\ hs \in Seq(Heads) /\ version \in 1 .. Len(hs)
      /\ \E k \in 1 .. Len(hs) : k # version /\ Active(hs[k])
  BY <1>1, <1>2, ForkingLeaves DEF ReduceAway
<1>5. heads' = Halt(hs, version) /\ phase' = phase BY <1>3 DEF Advanced
<1>6. /\ Len(heads') = Len(hs)
      /\ \A k \in 1 .. Len(hs) : k # version => heads'[k] = hs[k]
  BY <1>4, <1>5, Halted
<1>7. SomeActive(heads') BY <1>4, <1>6 DEF SomeActive
<1>8. Racing(heads') # {} BY <1>7, ActiveRaces
<1>9. accepts' > 0 => finished' # None BY <1>2 DEF ReduceAway
<1> QED BY <1>2, <1>5, <1>8, <1>9, InRound

\* The version that accepts is halted and leaves a tree.
LEMMA AcceptLeaves ==
  ASSUME IInv, EndInv, Accept
  PROVE  EndInv'
<1>1. /\ TypeOK /\ heads \in Seq(Heads) /\ version \in 1 .. Len(heads) /\ phase = "advance"
  BY WhoseTurn DEF Accept
<1>2. heads[version].cost \in Nat
  <2>1. heads[version] \in Heads BY <1>1
  <2> QED BY <2>1 DEF Heads
<1>3. Accepted(heads[version].cost) /\ heads[version].cost # None
  BY <1>2 DEF Accept, H, None
<1>4. finished' # None BY <1>1, <1>2, <1>3, AcceptedStays
<1>5. phase' = "advance" BY <1>1 DEF Accept, Advanced
<1> QED BY <1>4, <1>5, InRound

\* A version that pauses stays in the race.
LEMMA PauseLeaves ==
  ASSUME IInv, EndInv, Pause
  PROVE  EndInv'
<1>1. /\ heads \in Seq(Heads) /\ version \in 1 .. Len(heads) /\ phase = "advance"
      /\ accepts > 0 => finished # None
  BY WhoseTurn DEF Pause
<1> DEFINE h == [heads[version] EXCEPT !.status = "paused", !.count = 0]
<1>2. heads' = [heads EXCEPT ![version] = h] /\ phase' = phase BY <1>1 DEF Pause, Advanced
<1>3. h.status = "paused"
  <2>1. heads[version] \in Heads BY <1>1
  <2> QED BY <2>1 DEF Heads
<1> HIDE DEF h
<1>4. version \in Racing(heads')
  <2>1. Len(heads') = Len(heads) /\ heads'[version] = h BY <1>1, <1>2
  <2> QED BY <1>1, <1>3, <2>1 DEF Racing
<1>5. accepts' > 0 => finished' # None BY <1>1 DEF Pause
<1> QED BY <1>1, <1>2, <1>4, <1>5, InRound

\* recover leaves a version that goes on, or a tree.
LEMMA RecoverLeaves ==
  ASSUME IInv, EndInv, RecoverInTurn
  PROVE  EndInv'
<1>1. /\ TypeOK /\ heads \in Seq(Heads) /\ SettledBut(heads, version)
      /\ version \in 1 .. Len(heads) /\ Active(heads[version]) /\ phase = "advance"
      /\ accepts > 0 => finished # None
  BY WhoseTurn DEF RecoverInTurn
<1>2. PICK o \in Recover(heads, version) : Advanced(o.heads) /\ Accepted(o.root)
  BY DEF RecoverInTurn
<1>3. finished # None \/ o.root # None \/ SomeActive(o.heads) BY <1>1, RecoveryLeaves
<1>4. o.root \in Nat \cup {None} BY <1>1, RecoveryOutcomes
<1>5. heads' = o.heads /\ phase' = phase BY <1>2 DEF Advanced
<1>6. /\ finished' # None \/ SomeActive(heads')
      /\ accepts' > 0 => finished' # None
  BY <1>1, <1>2, <1>3, <1>4, <1>5, AcceptedStays
<1>7. finished' # None \/ Racing(heads') # {} BY <1>6, ActiveRaces
<1> QED BY <1>1, <1>5, <1>6, <1>7, InRound

\* The next turn changes no version.
LEMMA NextTurnLeaves ==
  ASSUME IInv, EndInv, NextTurn
  PROVE  EndInv'
<1>1. /\ phase' = "advance" /\ UNCHANGED <<heads, finished, accepts>>
  BY DEF NextTurn
<1>2. finished' # None \/ Racing(heads') # {} BY <1>1 DEF EndInv
<1>3. accepts' > 0 => finished' # None BY <1>1 DEF EndInv
<1> QED BY <1>1, <1>2, <1>3, InRound

\* So does the beginning of condenseStack, which counts them.
LEMMA TurnsOverLeaves ==
  ASSUME IInv, EndInv, TurnsOver
  PROVE  EndInv'
<1>1. /\ heads \in Seq(Heads) /\ phase' = "condense" /\ i' = 1 /\ versionCount' = Len(heads)
      /\ UNCHANGED <<heads, finished, accepts>>
  BY DEF TurnsOver, IInv, TypeOK
<1>2. versionCount' = 0 => finished' # None
  <2>1. Len(heads) = 0 => Racing(heads) = {} BY DEF Racing
  <2> QED BY <1>1, <2>1 DEF EndInv
<1>3. Costly(heads', i' - 1, minErrorCost') BY <1>1 DEF Costly
<1>4. /\ finished' # None \/ Racing(heads') # {}
      /\ accepts' > 0 => finished' # None
  BY <1>1 DEF EndInv
<1>5. Len(heads') <= versionCount' BY <1>1
<1> QED BY <1>1, <1>2, <1>3, <1>4, <1>5 DEF EndInv
-----------------------------------------------------------------------------
(* condenseStack. *)

\* What a comparison of condenseStack has to leave for EndInv.
LEMMA InComparisons ==
  ASSUME EndInv, Underway, phase' \in {"condense", "compare"},
         UNCHANGED <<finished, accepts, versionCount>>,
         finished # None \/ Racing(heads') # {}, Len(heads') <= versionCount,
         phase' = "condense" => Costly(heads', i' - 1, minErrorCost'),
         phase' = "compare" => Costly(heads', i', minErrorCost')
  PROVE  EndInv'
BY DEF EndInv, Underway

\* What holds as the comparisons go on.
LEMMA WhenCondensing ==
  ASSUME IInv, EndInv, NEW p \in {"condense", "compare"}, Condensing(p)
  PROVE  /\ TypeOK /\ Underway /\ UNCHANGED <<finished, accepts, versionCount>>
         /\ heads \in Seq(Heads) /\ Settled(heads) /\ i \in Nat \ {0} /\ minErrorCost \in Nat
         /\ Len(heads) \in Nat /\ versionCount \in Nat
         /\ finished # None \/ Racing(heads) # {}
         /\ Len(heads) <= versionCount
         /\ p = "condense" => /\ i \in 1 .. Len(heads) + 1 /\ NoneHalted(heads, i - 1)
                              /\ Costly(heads, i - 1, minErrorCost)
         /\ p = "compare" => /\ i \in 1 .. Len(heads) /\ NoneHalted(heads, i)
                             /\ Costly(heads, i, minErrorCost)
<1>1. phase = p /\ UNCHANGED <<finished, accepts, parse>> BY DEF Condensing
<1>2. UNCHANGED <<finished, accepts, versionCount>> BY <1>1 DEF parse
<1>3. /\ TypeOK /\ heads \in Seq(Heads) /\ i \in Nat \ {0} /\ minErrorCost \in Nat /\ Settled(heads)
      /\ versionCount \in Nat
  BY DEF IInv, TypeOK
<1>4. /\ p = "condense" => i \in 1 .. Len(heads) + 1 /\ NoneHalted(heads, i - 1)
      /\ p = "compare" => i \in 1 .. Len(heads) /\ NoneHalted(heads, i)
  BY <1>1 DEF IInv, Outer, OuterOf, Inner, InnerOf
<1> QED BY <1>1, <1>2, <1>3, <1>4 DEF EndInv, Underway

\* Removing a halted version leaves the others, and no active one was removed.
LEMMA RemoveHaltedLeaves ==
  ASSUME IInv, EndInv, RemoveHalted
  PROVE  EndInv'
<1>1. Condensing("condense") BY DEF RemoveHalted
<1>2. /\ Underway /\ UNCHANGED <<finished, accepts, versionCount>> /\ heads \in Seq(Heads)
      /\ finished # None \/ Racing(heads) # {}
      /\ Len(heads) \in Nat /\ versionCount \in Nat /\ Len(heads) <= versionCount
      /\ i \in 1 .. Len(heads) + 1 /\ Costly(heads, i - 1, minErrorCost)
  BY <1>1, WhenCondensing
<1>3. /\ i \in 1 .. Len(heads) /\ heads[i].status = "halted" /\ heads' = Without(heads, i)
      /\ UNCHANGED <<i, minErrorCost>> /\ phase' = "condense"
  BY <1>1, <1>2 DEF RemoveHalted, Condensing
<1>4. finished # None \/ Racing(heads') # {}
  <2> SUFFICES ASSUME NEW y \in Racing(heads) PROVE Racing(heads') # {} BY <1>2
  <2>1. y \in 1 .. Len(heads) /\ y # i /\ heads[y].status # "halted" BY <1>3 DEF Racing
  <2>2. PICK k \in 1 .. Len(heads') : heads'[k] = heads[y] BY <1>2, <1>3, <2>1, OthersStay
  <2> QED BY <2>1, <2>2 DEF Racing
<1>5. Len(heads') <= versionCount
  <2>1. Len(heads') = Len(heads) - 1 BY <1>2, <1>3, WithoutAt
  <2> QED BY <1>2, <2>1
<1>6. Costly(heads', i' - 1, minErrorCost')
  <2>1. i - 1 \in 0 .. Len(heads) /\ i - 1 < i BY <1>3
  <2> QED BY <1>2, <1>3, <2>1, CostlyWithout
<1> QED BY <1>2, <1>3, <1>4, <1>5, <1>6, InComparisons

\* What is taken up now costs no less than the least cost, which may be its own.
LEMMA TakeUpLeaves ==
  ASSUME IInv, EndInv, TakeUp
  PROVE  EndInv'
<1>1. Condensing("condense") BY DEF TakeUp
<1>2. /\ Underway /\ UNCHANGED <<finished, accepts, versionCount>> /\ heads \in Seq(Heads)
      /\ finished # None \/ Racing(heads) # {}
      /\ Len(heads) \in Nat /\ versionCount \in Nat /\ Len(heads) <= versionCount
      /\ minErrorCost \in Nat
      /\ i \in 1 .. Len(heads) + 1 /\ Costly(heads, i - 1, minErrorCost)
  BY <1>1, WhenCondensing
<1>3. /\ i \in 1 .. Len(heads) /\ UNCHANGED <<heads, i>> /\ phase' = "compare"
      /\ minErrorCost' = IF St(heads, i).isInError THEN minErrorCost
                         ELSE Least(minErrorCost, St(heads, i).cost)
  BY <1>2 DEF TakeUp, St
<1>4. \A k \in 1 .. Len(heads) : St(heads, k).cost \in Nat
  BY <1>2, Members, StatusTypes DEF St, Statuses
<1>5. minErrorCost' \in Nat /\ minErrorCost' <= minErrorCost
      /\ (St(heads, i).isInError \/ minErrorCost' <= St(heads, i).cost)
  BY <1>2, <1>3, <1>4 DEF Least
<1>6. Costly(heads, i, minErrorCost')
  <2> SUFFICES ASSUME NEW k \in 1 .. i
               PROVE  St(heads, k).isInError \/ minErrorCost' <= St(heads, k).cost
    BY DEF Costly
  <2>1. CASE k = i BY <1>5, <2>1
  <2>2. CASE k # i
    <3>1. k \in 1 .. i - 1 /\ k \in 1 .. Len(heads) BY <1>3, <2>2
    <3>2. St(heads, k).isInError \/ minErrorCost <= St(heads, k).cost BY <1>2, <3>1 DEF Costly
    <3> QED BY <1>2, <1>4, <1>5, <3>1, <3>2
  <2> QED BY <2>1, <2>2
<1> QED BY <1>2, <1>3, <1>6, InComparisons

\* Going on to the next version changes none.
LEMMA ComparedLeaves ==
  ASSUME IInv, EndInv, Compared
  PROVE  EndInv'
<1>1. Condensing("compare") BY DEF Compared
<1>2. /\ Underway /\ UNCHANGED <<finished, accepts, versionCount>>
      /\ (finished # None \/ Racing(heads) # {}) /\ Len(heads) <= versionCount
      /\ i \in 1 .. Len(heads) /\ Costly(heads, i, minErrorCost)
  BY <1>1, WhenCondensing
<1>3. phase' = "condense" /\ i' = i + 1 /\ UNCHANGED <<heads, minErrorCost>> BY DEF Compared
<1>4. i' - 1 = i BY <1>2, <1>3
<1>5. finished # None \/ Racing(heads') # {} BY <1>3 DEF EndInv
<1>6. Len(heads') <= versionCount BY <1>1, <1>3, WhenCondensing
<1> QED BY <1>2, <1>3, <1>4, <1>5, <1>6, InComparisons

\* Version i goes only for a better one, which is no less in the race.
LEMMA RemoveILeaves ==
  ASSUME IInv, EndInv, RemoveI
  PROVE  EndInv'
<1>1. Condensing("compare") /\ Comparing BY DEF RemoveI, Comparing
<1>2. /\ Underway /\ UNCHANGED <<finished, accepts, versionCount>> /\ heads \in Seq(Heads)
      /\ Len(heads) \in Nat /\ versionCount \in Nat /\ Len(heads) <= versionCount
      /\ i \in 1 .. Len(heads) /\ NoneHalted(heads, i) /\ Costly(heads, i, minErrorCost)
  BY <1>1, WhenCondensing
<1>3. /\ heads' = Without(heads, i) /\ phase' = "condense" /\ UNCHANGED <<i, minErrorCost>>
  BY DEF RemoveI, OutOfTheRace
<1>4. j \in 1 .. Len(heads) /\ j # i /\ heads[j].status # "halted"
  <2>1. j \in 1 .. Len(heads) /\ j \in 1 .. i - 1 BY <1>1, WhenComparing
  <2> QED BY <1>2, <2>1 DEF NoneHalted
<1>5. Racing(heads') # {}
  <2>1. PICK k \in 1 .. Len(heads') : heads'[k] = heads[j] BY <1>2, <1>3, <1>4, OthersStay
  <2> QED BY <1>4, <2>1 DEF Racing
<1>6. Len(heads') <= versionCount
  <2>1. Len(heads') = Len(heads) - 1 BY <1>2, <1>3, WithoutAt
  <2> QED BY <1>2, <2>1
<1>7. Costly(heads', i' - 1, minErrorCost')
  <2>1. i \in 0 .. Len(heads) /\ i >= i BY <1>2
  <2> QED BY <1>2, <1>3, <2>1, CostlyWithout
<1> QED BY <1>2, <1>3, <1>5, <1>6, <1>7, InComparisons

\* So does version j.
LEMMA RemoveJLeaves ==
  ASSUME IInv, EndInv, RemoveJ
  PROVE  EndInv'
<1>1. Condensing("compare") /\ Comparing BY DEF RemoveJ, Comparing
<1>2. /\ Underway /\ UNCHANGED <<finished, accepts, versionCount>> /\ heads \in Seq(Heads)
      /\ Len(heads) \in Nat /\ versionCount \in Nat /\ Len(heads) <= versionCount
      /\ i \in 1 .. Len(heads) /\ NoneHalted(heads, i) /\ Costly(heads, i, minErrorCost)
  BY <1>1, WhenCondensing
<1>3. /\ heads' = Without(heads, j) /\ i' = i - 1 /\ UNCHANGED <<phase, minErrorCost>>
      /\ phase = "compare"
  BY <1>1 DEF RemoveJ, Condensing
<1>4. j \in 1 .. Len(heads) /\ j \in 1 .. i - 1 BY <1>1, WhenComparing
<1>5. Racing(heads') # {}
  <2>1. i # j /\ heads[i].status # "halted" BY <1>2, <1>4 DEF NoneHalted
  <2>2. PICK k \in 1 .. Len(heads') : heads'[k] = heads[i] BY <1>2, <1>3, <1>4, <2>1, OthersStay
  <2> QED BY <2>1, <2>2 DEF Racing
<1>6. Len(heads') <= versionCount
  <2>1. Len(heads') = Len(heads) - 1 BY <1>2, <1>3, <1>4, WithoutAt
  <2> QED BY <1>2, <2>1
<1>7. Costly(heads', i', minErrorCost')
  <2>1. i \in 0 .. Len(heads) /\ i >= j BY <1>2, <1>4
  <2> QED BY <1>2, <1>3, <1>4, <2>1, CostlyWithout
<1> QED BY <1>2, <1>3, <1>5, <1>6, <1>7, InComparisons

\* What a version is merged into costs what it did.
LEMMA MergeIntoJLeaves ==
  ASSUME IInv, EndInv, MergeIntoJ
  PROVE  EndInv'
<1>1. /\ Condensing("compare") /\ Comparing /\ CanMerge(heads[j], heads[i])
  BY DEF MergeIntoJ, Comparing
<1>2. /\ Underway /\ UNCHANGED <<finished, accepts, versionCount>> /\ heads \in Seq(Heads)
      /\ Len(heads) \in Nat /\ versionCount \in Nat /\ Len(heads) <= versionCount
      /\ Settled(heads) /\ minErrorCost \in Nat
      /\ i \in 1 .. Len(heads) /\ Costly(heads, i, minErrorCost)
  BY <1>1, WhenCondensing
<1>3. j \in 1 .. Len(heads) /\ j \in 1 .. i - 1 BY <1>1, WhenComparing
<1>4. PICK m \in MergedWith(heads[j], heads[i]) :
        OutOfTheRace(Without([heads EXCEPT ![j] = m], i))
  BY DEF MergeIntoJ
<1>5. /\ heads[i] \in Heads /\ heads[j] \in Heads /\ ~heads[i].fresh /\ ~heads[j].fresh
      /\ heads[j].status = "active"
  BY <1>1, <1>2, <1>3 DEF Settled, CanMerge, Active
<1>6. m \in Heads /\ m.status = "active" /\ NoWorse(VersionStatus(heads[j]), VersionStatus(m))
  BY <1>1, <1>5, Mergeable
<1> DEFINE hs == [heads EXCEPT ![j] = m]
<1>7. /\ hs \in Seq(Heads) /\ Len(hs) = Len(heads)
      /\ \A k \in 1 .. Len(heads) : hs[k] = IF k = j THEN m ELSE heads[k]
  BY <1>2, <1>3, <1>6
<1>8. OutOfTheRace(Without(hs, i)) BY <1>4
<1> HIDE DEF hs
<1>9. /\ heads' = Without(hs, i) /\ phase' = "condense" /\ UNCHANGED <<i, minErrorCost>>
  BY <1>8 DEF OutOfTheRace
<1>10. Racing(heads') # {}
  <2>1. j \in 1 .. Len(hs) /\ i \in 1 .. Len(hs) /\ j # i BY <1>2, <1>3, <1>7
  <2>2. PICK k \in 1 .. Len(heads') : heads'[k] = hs[j] BY <1>7, <1>9, <2>1, OthersStay
  <2> QED BY <1>3, <1>6, <1>7, <2>2 DEF Racing
<1>11. Len(heads') <= versionCount
  <2>1. Len(heads') = Len(heads) - 1 BY <1>2, <1>7, <1>9, WithoutAt
  <2> QED BY <1>2, <2>1
<1>12. Costly(hs, i, minErrorCost)
  <2> SUFFICES ASSUME NEW k \in 1 .. i
               PROVE  St(hs, k).isInError \/ minErrorCost <= St(hs, k).cost
    BY DEF Costly
  <2>1. k \in 1 .. Len(heads) BY <1>2
  <2>2. St(heads, k).isInError \/ minErrorCost <= St(heads, k).cost BY <1>2 DEF Costly
  <2>3. CASE k = j
    <3>1. VersionStatus(heads[j]) \in Statuses /\ VersionStatus(m) \in Statuses
      BY <1>5, <1>6, StatusTypes
    <3>2. VersionStatus(m).isInError \/ minErrorCost <= VersionStatus(m).cost
      BY <1>2, <1>6, <2>2, <2>3, <3>1, CostlyNoWorse DEF St
    <3> QED BY <1>3, <1>7, <2>3, <3>2 DEF St
  <2>4. CASE k # j BY <1>7, <2>1, <2>2, <2>4 DEF St
  <2> QED BY <2>3, <2>4
<1>13. Costly(heads', i' - 1, minErrorCost')
  <2>1. i \in 0 .. Len(hs) /\ i \in 1 .. Len(hs) /\ i >= i BY <1>2, <1>7
  <2> QED BY <1>7, <1>9, <1>12, <2>1, CostlyWithout
<1> QED BY <1>2, <1>9, <1>10, <1>11, <1>13, InComparisons

\* A swap changes the order of the versions alone.
LEMMA SwapOrKeepLeaves ==
  ASSUME IInv, EndInv, SwapOrKeep
  PROVE  EndInv'
<1>1. Condensing("compare") /\ Comparing BY DEF SwapOrKeep, Comparing
<1>2. /\ Underway /\ UNCHANGED <<finished, accepts, versionCount>> /\ heads \in Seq(Heads)
      /\ Len(heads) \in Nat /\ versionCount \in Nat /\ Len(heads) <= versionCount
      /\ i \in 1 .. Len(heads) /\ NoneHalted(heads, i) /\ Costly(heads, i, minErrorCost)
      /\ finished # None \/ Racing(heads) # {}
  BY <1>1, WhenCondensing
<1>3. j \in 1 .. Len(heads) /\ j \in 1 .. i - 1 BY <1>1, WhenComparing
<1>4. /\ heads' \in {heads, [heads EXCEPT ![i] = heads[j], ![j] = heads[i]]}
      /\ UNCHANGED <<phase, i, minErrorCost>> /\ phase = "compare"
  BY <1>1 DEF SwapOrKeep, Condensing
<1>5. /\ Len(heads') = Len(heads)
      /\ \A k \in 1 .. i : \E l \in 1 .. i : heads'[k] = heads[l]
  <2>1. CASE heads' = heads BY <2>1
  <2>2. CASE heads' = [heads EXCEPT ![i] = heads[j], ![j] = heads[i]]
    <3>1. /\ Len(heads') = Len(heads)
          /\ \A k \in 1 .. i : heads'[k] = IF k = j THEN heads[i]
                                           ELSE IF k = i THEN heads[j] ELSE heads[k]
      BY <1>2, <1>3, <2>2
    <3>2. i \in 1 .. i /\ j \in 1 .. i BY <1>2, <1>3
    <3> QED BY <3>1, <3>2
  <2> QED BY <1>4, <2>1, <2>2
<1>6. Racing(heads') # {}
  <2>1. i \in 1 .. i /\ i \in 1 .. Len(heads') BY <1>2, <1>5
  <2>2. PICK l \in 1 .. i : heads'[i] = heads[l] BY <1>5, <2>1
  <2>3. heads[l].status # "halted" BY <1>2 DEF NoneHalted
  <2> QED BY <2>1, <2>2, <2>3 DEF Racing
<1>7. Costly(heads', i', minErrorCost') BY <1>2, <1>4, <1>5 DEF Costly, St
<1>8. Len(heads') <= versionCount BY <1>2, <1>5
<1> QED BY <1>2, <1>4, <1>6, <1>7, <1>8, InComparisons

\* The cut to MAX_VERSION_COUNT leaves the first version, which is in the race.
LEMMA CutLeaves ==
  ASSUME IInv, EndInv, Cut
  PROVE  EndInv'
<1>1. Condensing("condense") BY DEF Cut
<1>2. /\ UNCHANGED <<finished, accepts, versionCount>> /\ heads \in Seq(Heads)
      /\ (finished # None \/ Racing(heads) # {}) /\ Len(heads) \in Nat /\ versionCount \in Nat
      /\ i \in 1 .. Len(heads) + 1 /\ NoneHalted(heads, i - 1)
      /\ Costly(heads, i - 1, minErrorCost)
  BY <1>1, WhenCondensing
<1> DEFINE m == Least(Len(heads), MaxVersionCount)
           gs == SubSeq(heads, 1, m)
<1>3. /\ heads' = gs /\ phase' = "resume" /\ i' = 1 /\ n' = Len(gs) /\ hasUnpausedVersion' = FALSE
      /\ UNCHANGED minErrorCost /\ i - 1 = Len(heads)
  BY <1>2 DEF Cut
<1>4. m \in 0 .. Len(heads) /\ (Len(heads) > 0 => m >= 1) BY <1>2, Numbers DEF Least
<1> HIDE DEF m
<1>5. gs \in Seq(Heads) /\ Len(gs) = m /\ \A k \in 1 .. m : gs[k] = heads[k] BY <1>2, <1>4
<1> HIDE DEF gs
<1>6. finished' # None \/ Racing(heads') # {}
  <2>1. CASE Len(heads) = 0
    <3>1. Racing(heads) = {} BY <2>1 DEF Racing
    <3> QED BY <1>2, <3>1
  <2>2. CASE Len(heads) > 0
    <3>1. 1 \in 1 .. Len(gs) /\ 1 \in 1 .. i - 1 /\ gs[1] = heads[1]
      BY <1>2, <1>3, <1>4, <1>5, <2>2
    <3>2. heads[1].status # "halted" BY <1>2, <3>1 DEF NoneHalted
    <3> QED BY <1>3, <3>1, <3>2 DEF Racing
  <2> QED BY <1>2, <2>1, <2>2
<1>7. \A k \in 1 .. m : gs[k] = heads[k] /\ k \in 1 .. i - 1 BY <1>2, <1>3, <1>4, <1>5
<1>8. \A k \in i' .. n' : heads'[k].status # "halted" BY <1>2, <1>3, <1>5, <1>7 DEF NoneHalted
<1>9. Costly(heads', n', minErrorCost') BY <1>2, <1>3, <1>5, <1>7 DEF Costly, St
<1>10. n' <= versionCount'
  <2>1. Len(heads) <= versionCount BY <1>1, WhenCondensing
  <2> QED BY <1>2, <1>3, <1>4, <1>5, <2>1
<1>11. /\ accepts' > 0 => finished' # None
       /\ versionCount' = 0 => finished' # None
  BY <1>1, <1>2 DEF EndInv, Underway, Condensing
<1> QED BY <1>3, <1>6, <1>8, <1>9, <1>10, <1>11 DEF EndInv, Unpausing

\* Only the first version can be one that is resumed, and if it is in error all are.
LEMMA FirstResumed ==
  ASSUME IInv, EndInv, Paused, MayResume
  PROVE  /\ i = 1 /\ i \in 1 .. n /\ n \in Nat /\ n <= Len(heads) /\ heads \in Seq(Heads)
         /\ \A k \in 1 .. n : InError(heads[k])
                              /\ NoWorse(VersionStatus(heads[1]), VersionStatus(heads[k]))
<1>1. /\ heads \in Seq(Heads) /\ i \in Nat \ {0} /\ n \in Nat /\ n <= Len(heads)
      /\ i <= n /\ heads[i].status = "paused"
      /\ i = 1 \/ hasUnpausedVersion
      /\ ~hasUnpausedVersion
      /\ i = 1 => Sorted(heads, Len(heads))
  BY DEF IInv, TypeOK, Resuming, EndInv, Unpausing, Paused, MayResume
<1>2. i = 1 /\ Sorted(heads, Len(heads)) BY <1>1
<1>3. ASSUME NEW k \in 1 .. n
      PROVE  InError(heads[k]) /\ NoWorse(VersionStatus(heads[1]), VersionStatus(heads[k]))
  <2>1. 1 \in 1 .. Len(heads) /\ k \in 1 .. Len(heads) /\ 1 <= k BY <1>1
  <2>2. NoWorse(VersionStatus(heads[1]), VersionStatus(heads[k]))
    BY <1>2, <2>1 DEF Sorted, St
  <2>3. /\ VersionStatus(heads[1]).isInError = InError(heads[1])
        /\ VersionStatus(heads[k]).isInError = InError(heads[k])
    BY <1>1, <2>1, Members, StatusTypes
  <2>4. InError(heads[1]) BY <1>1, <1>2 DEF InError
  <2>5. InError(heads[k]) BY <2>2, <2>3, <2>4 DEF NoWorse
  <2> QED BY <2>2, <2>5
<1> QED BY <1>1, <1>2, <1>3

\* The version that is resumed goes on through handleError, or leaves a tree or another.
LEMMA ResumeLeaves ==
  ASSUME IInv, EndInv, Resume
  PROVE  EndInv'
<1>1. /\ TypeOK /\ Settled(heads) /\ phase = "resume" /\ heads[i].status = "paused"
      /\ accepts > 0 => finished # None
      /\ versionCount = 0 => finished # None
      /\ n <= versionCount /\ \A k \in i .. n : heads[k].status # "halted"
  BY DEF Resume, Paused, IInv, EndInv, Unpausing, Underway
<1>2. /\ i = 1 /\ i \in 1 .. n /\ n \in Nat /\ n <= Len(heads) /\ heads \in Seq(Heads)
      /\ \A k \in 1 .. n : InError(heads[k])
  BY FirstResumed DEF Resume
<1>3. PICK o \in HandleError(heads, i) : heads' = o.heads /\ Accepted(o.root) BY DEF Resume
<1>4. i \in 1 .. Len(heads) BY <1>2
<1>5. /\ finished # None \/ o.root # None \/ SomeActive(heads')
      /\ heads'[i].state = ErrorState
      /\ \A k \in 1 .. Len(heads) : k # i => heads'[k] = heads[k]
  BY <1>1, <1>2, <1>3, <1>4, HandlingLeaves
<1>6. o.root \in Nat \cup {None} BY <1>1, <1>2, <1>3, <1>4, HandlingError
<1>7. /\ finished' # None \/ SomeActive(heads')
      /\ accepts' > 0 => finished' # None
      /\ versionCount = 0 => finished' # None
  BY <1>1, <1>3, <1>5, <1>6, AcceptedStays
<1>8. /\ i' = i + 1 /\ hasUnpausedVersion' = TRUE
      /\ UNCHANGED <<phase, n, versionCount>>
  BY DEF Resume, parse
<1>9. \A k \in i' .. n' : heads'[k].status # "halted"
  <2>1. \A k \in i + 1 .. n : k \in i .. n /\ k # i /\ k \in 1 .. Len(heads) BY <1>2
  <2> QED BY <1>1, <1>5, <1>8, <2>1
<1>10. Costly(heads', n', minErrorCost')
  <2>1. ASSUME NEW k \in 1 .. n PROVE InError(heads'[k])
    <3>1. CASE k = i BY <1>5, <3>1 DEF InError
    <3>2. CASE k # i
      <4>1. k \in 1 .. Len(heads) BY <1>2
      <4> QED BY <1>2, <1>5, <3>2, <4>1
    <3> QED BY <3>1, <3>2
  <2> QED BY <1>8, <2>1 DEF Costly, St, VersionStatus
<1>11. finished' # None \/ Racing(heads') # {} BY <1>7, ActiveRaces
<1>12. Unpausing' BY <1>1, <1>7, <1>8, <1>9, <1>10 DEF Unpausing
<1> QED BY <1>1, <1>7, <1>8, <1>11, <1>12 DEF EndInv

\* A paused version is dropped only when an active one or a tree is left.
LEMMA RemovePausedLeaves ==
  ASSUME IInv, EndInv, RemovePaused
  PROVE  EndInv'
<1>1. /\ heads \in Seq(Heads) /\ phase = "resume" /\ ~MayResume /\ i \in 1 .. n
      /\ heads[i].status = "paused" /\ n \in Nat /\ n <= Len(heads) /\ Unpausing
      /\ accepts \in Nat /\ versionCount \in Nat
      /\ accepts > 0 => finished # None
  BY DEF RemovePaused, Paused, IInv, TypeOK, Resuming, EndInv
<1>2. /\ heads' = Without(heads, i) /\ n' = n - 1
      /\ UNCHANGED <<finished, accepts, phase, versionCount, i, minErrorCost, hasUnpausedVersion>>
  BY DEF RemovePaused, parse
<1>3. /\ i \in 1 .. Len(heads) /\ Len(heads') = Len(heads) - 1
      /\ \A k \in 1 .. Len(heads) - 1 : heads'[k] = IF k < i THEN heads[k] ELSE heads[k + 1]
  <2>1. i \in 1 .. Len(heads) BY <1>1
  <2> QED BY <1>1, <1>2, <2>1, WithoutAt
<1>4. finished # None \/ SomeActive(heads)
  <2>1. CASE accepts < MaxVersionCount
    <3>1. hasUnpausedVersion BY <1>1, <2>1 DEF MayResume
    <3> QED BY <1>1, <3>1 DEF Unpausing
  <2>2. CASE ~(accepts < MaxVersionCount)
    <3>1. accepts > 0 BY <1>1, <2>2, Numbers
    <3> QED BY <1>1, <3>1
  <2> QED BY <2>1, <2>2
<1>5. SomeActive(heads) => SomeActive(heads')
  <2> SUFFICES ASSUME NEW y \in 1 .. Len(heads), Active(heads[y]) PROVE SomeActive(heads')
    BY DEF SomeActive
  <2>1. y # i BY <1>1 DEF Active
  <2>2. PICK k \in 1 .. Len(heads') : heads'[k] = heads[y] BY <1>1, <1>2, <1>3, <2>1, OthersStay
  <2> QED BY <2>2 DEF SomeActive
<1>6. finished' # None \/ Racing(heads') # {} BY <1>2, <1>4, <1>5, ActiveRaces
<1>7. ASSUME NEW k \in i' .. n' PROVE heads'[k].status # "halted"
  <2>1. k + 1 \in i .. n /\ heads'[k] = heads[k + 1] BY <1>1, <1>2, <1>3
  <2> QED BY <1>1, <2>1 DEF Unpausing
<1>8. Costly(heads', n', minErrorCost')
  <2>1. n \in 0 .. Len(heads) /\ n >= i BY <1>1
  <2> QED BY <1>1, <1>2, <1>3, <2>1, CostlyWithout DEF Unpausing
<1>9. Unpausing'
  <2>1. n' <= versionCount' BY <1>1, <1>2 DEF Unpausing
  <2>2. i' = 1 \/ hasUnpausedVersion' BY <1>1, <1>2 DEF Unpausing
  <2>3. hasUnpausedVersion' => finished' # None \/ SomeActive(heads') BY <1>2, <1>4, <1>5
  <2> QED BY <1>7, <1>8, <2>1, <2>2, <2>3 DEF Unpausing
<1> QED BY <1>1, <1>2, <1>6, <1>9 DEF EndInv, Underway

\* A version that is not paused stays and is active.
LEMMA KeepUnpausedLeaves ==
  ASSUME IInv, EndInv, KeepUnpaused
  PROVE  EndInv'
<1>1. /\ heads \in Seq(Heads) /\ phase = "resume" /\ i \in 1 .. n
      /\ heads[i].status # "paused" /\ n \in Nat /\ n <= Len(heads) /\ Unpausing
  BY DEF KeepUnpaused, IInv, TypeOK, Resuming, EndInv
<1>2. /\ i' = i + 1 /\ hasUnpausedVersion' = TRUE
      /\ UNCHANGED <<heads, finished, accepts, phase, versionCount, minErrorCost, n>>
  BY DEF KeepUnpaused, parse
<1>3. SomeActive(heads)
  <2>1. i \in 1 .. Len(heads) /\ i \in i .. n BY <1>1
  <2>2. heads[i] \in Heads /\ heads[i].status # "halted" BY <1>1, <2>1 DEF Unpausing
  <2>3. Active(heads[i]) BY <1>1, <2>2 DEF Active, Heads
  <2> QED BY <2>1, <2>3 DEF SomeActive
<1>4. \A k \in i' .. n' : heads'[k].status # "halted"
  <2>1. \A k \in i + 1 .. n : k \in i .. n BY <1>1
  <2> QED BY <1>1, <1>2, <2>1 DEF Unpausing
<1>5. SomeActive(heads') BY <1>2, <1>3 DEF SomeActive
<1>6. Costly(heads', n', minErrorCost') BY <1>1, <1>2 DEF Unpausing, Costly, St
<1>7. Unpausing' BY <1>1, <1>2, <1>4, <1>5, <1>6 DEF Unpausing
<1>8. Racing(heads') # {} BY <1>5, ActiveRaces
<1> QED BY <1>1, <1>2, <1>7, <1>8 DEF EndInv, Underway

\* Parse stops with a tree that is worth it, or with nothing that could go on.
LEMMA RoundOverLeaves ==
  ASSUME IInv, EndInv, RoundOver
  PROVE  /\ EndInv'
         /\ phase' = "done" =>
               \A k \in Racing(heads) :
                  k <= n => InError(heads[k]) \/ finished < ErrorCost(heads[k])
<1>1. /\ heads \in Seq(Heads) /\ phase = "resume" /\ n \in Nat /\ n <= Len(heads) /\ Unpausing
      /\ finished \in Nat \cup {None} /\ minErrorCost \in Nat /\ versionCount \in Nat
      /\ accepts > 0 => finished # None
      /\ versionCount = 0 => finished # None
      /\ finished # None \/ Racing(heads) # {}
  BY DEF RoundOver, IInv, TypeOK, Resuming, EndInv, Underway
<1> DEFINE beaten == finished # None /\ finished < minErrorCost
<1>2. /\ heads' = IF beaten THEN OneVersion ELSE heads
      /\ phase' = IF beaten \/ versionCount = 0 THEN "done" ELSE "advance"
      /\ UNCHANGED <<finished, accepts>>
  BY DEF RoundOver
<1>3. phase' = "done" => beaten \/ versionCount = 0 BY <1>2
<1>4. phase' = "done" => finished' # None BY <1>1, <1>2, <1>3
<1>5. finished' # None \/ Racing(heads') # {} BY <1>1, <1>2
<1>6. EndInv' BY <1>1, <1>2, <1>4, <1>5 DEF EndInv, Underway
<1>7. ASSUME phase' = "done", NEW k \in Racing(heads), k <= n
      PROVE  InError(heads[k]) \/ finished < ErrorCost(heads[k])
  <2>1. k \in 1 .. n /\ k \in 1 .. Len(heads) /\ n # 0 BY <1>1, <1>7 DEF Racing
  <2>2. n <= versionCount BY <1>1 DEF Unpausing
  <2>3. beaten BY <1>1, <1>3, <1>7, <2>1, <2>2
  <2>4. St(heads, k).isInError \/ minErrorCost <= St(heads, k).cost
    BY <1>1, <2>1 DEF Unpausing, Costly
  <2>5. /\ heads[k] \in Heads /\ ErrorCost(heads[k]) \in Nat
        /\ VersionStatus(heads[k]).isInError = InError(heads[k])
    BY <1>1, <2>1, StatusTypes
  <2>6. InError(heads[k]) \/ VersionStatus(heads[k]).cost = ErrorCost(heads[k])
    BY <2>5 DEF VersionStatus, InError
  <2> QED BY <1>1, <2>3, <2>4, <2>5, <2>6 DEF St, None
<1> QED BY <1>6, <1>7
-----------------------------------------------------------------------------
\* A parse begins with one active version.
LEMMA EndInit == Init => EndInv
<1> SUFFICES ASSUME Init PROVE EndInv OBVIOUS
<1>1. heads = OneVersion /\ accepts = 0 /\ phase = "advance" BY DEF Init
<1>2. 1 \in Racing(heads) BY <1>1, OneVersionIsHeads DEF OneVersion, Racing
<1> QED BY <1>1, <1>2 DEF EndInv, Underway

\* Every step keeps EndInv, given the invariant of the race,
LEMMA EndStep == IInv /\ EndInv /\ [Next]_vars => EndInv'
<1> SUFFICES ASSUME IInv, EndInv, [Next]_vars PROVE EndInv' OBVIOUS
<1>1. ASSUME NEW s \in State, NEW width \in {0, 1}, Shift(s, width) PROVE EndInv'
  BY <1>1, ShiftLeaves
<1>2. ASSUME NEW f \in Reductions, Reduce(f) PROVE EndInv' BY <1>2, ReduceLeaves
<1>3. ASSUME NEW f \in Reductions, ReduceAway(f) PROVE EndInv' BY <1>3, ReduceAwayLeaves
<1>4. CASE Accept BY <1>4, AcceptLeaves
<1>5. CASE Pause BY <1>5, PauseLeaves
<1>6. CASE RecoverInTurn BY <1>6, RecoverLeaves
<1>7. CASE NextTurn BY <1>7, NextTurnLeaves
<1>8. CASE TurnsOver BY <1>8, TurnsOverLeaves
<1>9. CASE RemoveHalted BY <1>9, RemoveHaltedLeaves
<1>10. CASE TakeUp BY <1>10, TakeUpLeaves
<1>11. CASE RemoveI BY <1>11, RemoveILeaves
<1>12. CASE RemoveJ BY <1>12, RemoveJLeaves
<1>13. CASE MergeIntoJ BY <1>13, MergeIntoJLeaves
<1>14. CASE SwapOrKeep BY <1>14, SwapOrKeepLeaves
<1>15. CASE Compared BY <1>15, ComparedLeaves
<1>16. CASE Cut BY <1>16, CutLeaves
<1>17. CASE Resume BY <1>17, ResumeLeaves
<1>18. CASE RemovePaused BY <1>18, RemovePausedLeaves
<1>19. CASE KeepUnpaused BY <1>19, KeepUnpausedLeaves
<1>20. CASE RoundOver BY <1>20, RoundOverLeaves
<1>21. CASE UNCHANGED vars
  <2>1. UNCHANGED <<heads, finished, accepts, phase, versionCount, i, minErrorCost, n,
                    hasUnpausedVersion>>
    BY <1>21 DEF vars, parse, condense
  <2>2. Racing(heads)' = Racing(heads) /\ SomeActive(heads)' = SomeActive(heads)
    BY <2>1 DEF Racing, SomeActive
  <2>3. /\ Costly(heads, i - 1, minErrorCost)' = Costly(heads, i - 1, minErrorCost)
        /\ Costly(heads, i, minErrorCost)' = Costly(heads, i, minErrorCost)
        /\ Costly(heads, n, minErrorCost)' = Costly(heads, n, minErrorCost)
    BY <2>1 DEF Costly, St
  <2>4. (phase = "resume" => Unpausing)' BY <2>1, <2>2, <2>3 DEF EndInv, Unpausing
  <2> QED BY <2>1, <2>2, <2>3, <2>4 DEF EndInv, Underway
<1> QED
  BY <1>1, <1>2, <1>3, <1>4, <1>5, <1>6, <1>7, <1>8, <1>9, <1>10, <1>11, <1>12, <1>13, <1>14,
     <1>15, <1>16, <1>17, <1>18, <1>19, <1>20, <1>21 DEF Next

\* and so it always holds.
LEMMA EndInvariant == Spec => []EndInv
BY EndInit, EndStep, Invariant, PTL DEF Spec

\* However versions give up because of better ones (src/parser_recover.go), are halted, merged
\* away, cut off or dropped while paused (condenseStack), there is always one that goes on or
\* a tree, and Parse never ends without a tree, whatever the grammar and the costs.
THEOREM NeverEmptyHandedAlways == Spec => []NeverEmptyHanded
<1>1. EndInv => NeverEmptyHanded BY DEF EndInv, NeverEmptyHanded
<1> QED BY <1>1, EndInvariant, PTL

\* Parse stops nowhere but at the end of a round.
LEMMA OnlyAtRoundOver ==
  ASSUME Next, phase' = "done"
  PROVE  RoundOver
<1>1. ASSUME NEW s \in State, NEW width \in {0, 1}, Shift(s, width) PROVE FALSE
  BY <1>1 DEF Shift, InTurn, Advanced
<1>2. ASSUME NEW f \in Reductions, Reduce(f) \/ ReduceAway(f) PROVE FALSE
  BY <1>2 DEF Reductions, InTurn, Reduce, ReduceAway, Advanced
<1>3. CASE Accept BY <1>3 DEF Accept, InTurn, Advanced
<1>4. CASE Pause BY <1>4 DEF Pause, InTurn, Advanced
<1>5. CASE RecoverInTurn BY <1>5 DEF RecoverInTurn, InTurn, Advanced
<1>6. CASE NextTurn BY <1>6 DEF NextTurn
<1>7. CASE TurnsOver BY <1>7 DEF TurnsOver
<1>8. CASE RemoveHalted BY <1>8 DEF RemoveHalted, Condensing
<1>9. CASE TakeUp BY <1>9 DEF TakeUp
<1>10. CASE RemoveI BY <1>10 DEF RemoveI, OutOfTheRace
<1>11. CASE RemoveJ BY <1>11 DEF RemoveJ, Comparing, Condensing
<1>12. CASE MergeIntoJ BY <1>12 DEF MergeIntoJ, OutOfTheRace
<1>13. CASE SwapOrKeep BY <1>13 DEF SwapOrKeep, Comparing, Condensing
<1>14. CASE Compared BY <1>14 DEF Compared
<1>15. CASE Cut BY <1>15 DEF Cut
<1>16. CASE Resume BY <1>16 DEF Resume, Paused
<1>17. CASE RemovePaused BY <1>17 DEF RemovePaused, Paused
<1>18. CASE KeepUnpaused BY <1>18 DEF KeepUnpaused
<1> QED
  BY <1>1, <1>2, <1>3, <1>4, <1>5, <1>6, <1>7, <1>8, <1>9, <1>10, <1>11, <1>12, <1>13, <1>14,
     <1>15, <1>16, <1>17, <1>18 DEF Next

\* Parse stops early (src/parser_loop.go:310) only if its tree costs less than every version
\* without an error of those that went through condenseStack.
THEOREM StopsRightlyAlways == Spec => StopsRightly
<1>1. ASSUME IInv, EndInv, [Next]_vars
      PROVE  [phase' = "done" =>
                \A k \in Racing(heads) :
                   k <= n => InError(heads[k]) \/ finished < ErrorCost(heads[k])]_vars
  <2> SUFFICES ASSUME Next, phase' = "done"
               PROVE  \A k \in Racing(heads) :
                         k <= n => InError(heads[k]) \/ finished < ErrorCost(heads[k])
    BY <1>1
  <2>1. RoundOver BY OnlyAtRoundOver
  <2> QED BY <1>1, <2>1, RoundOverLeaves
<1> QED BY <1>1, Invariant, EndInvariant, PTL DEF Spec, StopsRightly

\* A paused version is resumed, and its error handled, only if every version that is left is
\* in error too and none is better (src/parser_loop.go:194).
THEOREM ResumesTheBestAlways == Spec => ResumesTheBest
<1>1. ASSUME IInv, EndInv
      PROVE  [Paused /\ MayResume =>
                \A k \in 1 .. n :
                   InError(heads[k])
                   /\ NoWorse(VersionStatus(heads[i]), VersionStatus(heads[k]))]_vars
  BY <1>1, FirstResumed
<1> QED BY <1>1, Invariant, EndInvariant, PTL DEF ResumesTheBest
=============================================================================
