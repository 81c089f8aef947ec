---------------------------- MODULE VersionRace ----------------------------
(***************************************************************************)
(* How the parser lets the versions of its stack compete: the loop of      *)
(* Parse and condenseStack (src/parser_loop.go), compareVersions and       *)
(* betterVersionExists (src/parser_core.go), and what one call of advance, *)
(* recover or handleError does to a version as the others see it.  A       *)
(* version is what the comparisons read of it; the graph it is the top of  *)
(* is module ParseStack.  The loops of condenseStack, which remove and     *)
(* swap the versions they go through, run one comparison a step.           *)
(***************************************************************************)
EXTENDS Integers, Sequences, FiniteSets

CONSTANTS
    State, StartState, ErrorState,  \* parse states
    Shifts,     \* <<state, width, state>>: the shifts of the grammar
    Reduces,    \* <<state, state>>: from and to where a reduction leads
    Goals,      \* states recoverToState and a missing token can lead to
    End,        \* length of the text
    MaxVersionCount, MaxVersionCountOverflow,
    PerRecovery, PerMissingTree, PerSkippedTree,    \* error costs
    MaxCostDifference,
    Unlimited,  \* ^uint32(0), more than any error cost
    MaxCount, MaxPrec,  \* bounds: node counts and precedences beyond them count as them
    MaxDepth    \* bound: depth of the stack summary

ASSUME StatesAssumption ==
    /\ {StartState, ErrorState} \cup Goals \subseteq State /\ ErrorState \notin Goals
    /\ Shifts \subseteq State \X {0, 1} \X State /\ Reduces \subseteq State \X State
ASSUME NumbersAssumption ==
    /\ {End, MaxVersionCountOverflow, PerRecovery, PerMissingTree, PerSkippedTree,
        MaxCostDifference, Unlimited, MaxCount, MaxPrec, MaxDepth} \subseteq Nat
    /\ MaxVersionCount \in Nat \ {0}

VARIABLES
    heads,      \* the versions: status ("active", "paused" or "halted"), state, whether an
                \* error is fresh, pos, cost, count (of nodes) and prec
    finished,   \* error cost of finishedTree, or None
    accepts,    \* acceptCount
    phase,      \* where Parse and condenseStack are
    version, lastPosition, versionCount,    \* variables of Parse
    i, j, statusI, minErrorCost,            \* variables of condenseStack
    n, hasUnpausedVersion,                  \* and of its last loop
    floor,      \* lastPosition when the round began
    best        \* statuses of the best versions when condenseStack began
parse == <<version, lastPosition, versionCount, floor>>
condense == <<i, j, statusI, minErrorCost, n, hasUnpausedVersion, best>>
vars == <<heads, finished, accepts, phase, parse, condense>>

\* Definitions that stand for a mistake in the code, before the one each could replace:
\* TurnOfOne, HaltedKept, LastCost, RemoveLeft, NeverSwapped, CutUnreset, ResumeAlways.

None == -1

Active(h) == h.status = "active"
Without(hs, k) == SubSeq(hs, 1, k - 1) \o SubSeq(hs, k + 1, Len(hs))
Least(a, b) == IF a < b THEN a ELSE b
Most(a, b) == IF a > b THEN a ELSE b
HaltedIn(hs) == {k \in 1 .. Len(hs) : hs[k].status = "halted"}
-----------------------------------------------------------------------------
(* Comparing versions.                                                     *)

\* A version whose error has no tree yet (`fresh`) is charged for it all the same.
ErrorCost(h) ==
    h.cost + (IF h.status = "paused" \/ (h.state = ErrorState /\ h.fresh)
              THEN PerRecovery ELSE 0)
InError(h) == h.status = "paused" \/ h.state = ErrorState
VersionStatus(h) ==
    [cost |-> ErrorCost(h) + (IF h.status = "paused" THEN PerSkippedTree ELSE 0),
     nodeCount |-> h.count, prec |-> h.prec, isInError |-> InError(h)]

TooFar(a, b) == (b.cost - a.cost) * (1 + a.nodeCount) > MaxCostDifference
CompareVersions(a, b) ==
    CASE ~a.isInError /\ b.isInError -> IF a.cost < b.cost THEN "takeLeft" ELSE "preferLeft"
      [] a.isInError /\ ~b.isInError -> IF b.cost < a.cost THEN "takeRight" ELSE "preferRight"
      [] a.isInError = b.isInError /\ a.cost < b.cost ->
            IF TooFar(a, b) THEN "takeLeft" ELSE "preferLeft"
      [] a.isInError = b.isInError /\ b.cost < a.cost ->
            IF TooFar(b, a) THEN "takeRight" ELSE "preferRight"
      [] a.isInError = b.isInError /\ a.cost = b.cost ->
            IF a.prec > b.prec THEN "preferLeft"
            ELSE IF b.prec > a.prec THEN "preferRight" ELSE "none"

CanMerge(a, b) ==
    Active(a) /\ Active(b) /\ a.state = b.state /\ a.pos = b.pos /\ a.cost = b.cost

\* What becomes of a when b is merged into it: node count and precedence may rise.
MergedWith(a, b) ==
    {[a EXCEPT !.count = IF a.state = ErrorState THEN 0 ELSE c, !.prec = p] :
        c \in {a.count, Most(a.count, b.count)}, p \in {a.prec, Most(a.prec, b.prec)}}

BetterVersionExists(hs, v, isInError, cost) ==
    \/ finished # None /\ finished <= cost
    \/ LET status == [VersionStatus(hs[v]) EXCEPT !.cost = cost, !.isInError = isInError]
       IN \E k \in 1 .. Len(hs) \ {v} :
             /\ Active(hs[k]) /\ hs[k].pos >= hs[v].pos
             /\ LET c == CompareVersions(status, VersionStatus(hs[k]))
                IN c = "takeRight" \/ (c = "preferRight" /\ CanMerge(hs[k], hs[v]))
-----------------------------------------------------------------------------
(* A call of advance for version v of hs.  The outcomes are lists of       *)
(* versions, with the error cost of the tree that was accepted, or None.   *)

Outcome(hs, root) == [heads |-> hs, root |-> root]
Halt(hs, v) == [hs EXCEPT ![v].status = "halted"]

\* The versions that reductions of v make.
ReducedTo(h, s, p) == [h EXCEPT !.state = s, !.prec = p]
Reduced(h) == {ReducedTo(h, s, p) : s \in {t \in State : <<h.state, t>> \in Reduces},
                                    p \in {h.prec, Least(h.prec + 1, MaxPrec)}}

\* One of them is merged into the first version, other than v, that takes it, or is a new
\* one, or one too many.
Takers(hs, v, f) == {k \in 1 .. Len(hs) \ {v} : CanMerge(hs[k], f)}
Forked(hs, v, f) ==
    LET takers == Takers(hs, v, f)
        first == {k \in takers : \A t \in takers : k <= t}
    IN IF Len(hs) > MaxVersionCount + MaxVersionCountOverflow + Cardinality(HaltedIn(hs))
       THEN {hs}
       ELSE IF takers = {} THEN {Append(hs, f)}
       ELSE UNION {{[hs EXCEPT ![k] = m] : m \in MergedWith(hs[k], f)} : k \in first}
\* What reductions before the last action leave.
WithForks(hs, v) == {hs} \cup UNION {Forked(hs, v, f) : f \in Reduced(hs[v])}

\* recover, for a version in the error state: back to a state further down, if that is
\* worth it, and at the end of the text accept what there is, else skip the lookahead.
WouldMerge(hs, v, s) == \E k \in 1 .. Len(hs) : hs[k].state = s /\ hs[k].pos = hs[v].pos
RecoveredTo(hs, v) ==
    {[status |-> "active", state |-> s, fresh |-> FALSE, pos |-> hs[v].pos,
      cost |-> ErrorCost(hs[v]) + d * PerSkippedTree, count |-> 0, prec |-> hs[v].prec] :
        s \in {g \in Goals : ~WouldMerge(hs, v, g)}, d \in 1 .. MaxDepth}
Worth(hs, v, h) == ~BetterVersionExists(hs, v, FALSE, h.cost)

SkipLookahead(hs, v) ==
    LET cost == ErrorCost(hs[v]) + PerSkippedTree
    IN IF BetterVersionExists(hs, v, FALSE, cost) THEN Halt(hs, v)
       ELSE [hs EXCEPT ![v].pos = @ + 1, ![v].cost = cost, ![v].fresh = FALSE,
                       ![v].count = Least(@ + 1, MaxCount)]

Recover(hs, v) ==
    LET recovered == {Append(hs, h) : h \in {x \in RecoveredTo(hs, v) : Worth(hs, v, x)}}
    IN IF hs[v].pos = End
       THEN {Outcome(Halt(gs, v), hs[v].cost + PerRecovery) : gs \in {hs} \cup recovered}
       ELSE {Outcome(SkipLookahead(hs, v), None)}
            \cup {Outcome(Halt(gs, v), None) : gs \in recovered}
            \cup {Outcome(SkipLookahead(gs, v), None) :
                    gs \in {x \in recovered : Len(x) <= MaxVersionCount}}
-----------------------------------------------------------------------------
(* The rounds of Parse: every version in turn.                             *)

\* A stack that is new, or cleared.
OneVersion == <<[status |-> "active", state |-> StartState, fresh |-> FALSE, pos |-> 0,
                 cost |-> 0, count |-> 0, prec |-> 0]>>

Init ==
    /\ heads = OneVersion
    /\ finished = None /\ accepts = 0
    /\ phase = "advance"
    /\ version = 1 /\ lastPosition = 0 /\ versionCount = 1 /\ floor = 0
    /\ i = 1 /\ j = 1 /\ statusI = VersionStatus(heads[1]) /\ minErrorCost = Unlimited
    /\ n = 0 /\ hasUnpausedVersion = FALSE /\ best = {}

InTurn == phase = "advance" /\ version <= Len(heads) /\ Active(heads[version])
H == heads[version]

\* accept: the better tree stays.
Accepted(root) ==
    IF root = None THEN UNCHANGED <<finished, accepts>>
    ELSE /\ finished' = IF finished = None THEN root ELSE Least(finished, root)
         /\ accepts' = accepts + 1

TurnOfOne(hs) ==
    /\ heads' = hs
    /\ version' = version + 1 /\ lastPosition' = Most(lastPosition, hs[version].pos)
    /\ UNCHANGED <<phase, versionCount, floor, condense>>

\* After advance: is it the next version's turn?
Advanced(hs) ==
    LET position == hs[version].pos
        turnOver == position > lastPosition \/ (version > 1 /\ position = lastPosition)
    IN /\ heads' = hs
       /\ version' = IF turnOver THEN version + 1 ELSE version
       /\ lastPosition' = IF turnOver THEN position ELSE lastPosition
       /\ UNCHANGED <<phase, versionCount, floor, condense>>

Shift(s, width) ==
    /\ InTurn /\ <<H.state, width, s>> \in Shifts /\ H.pos + width <= End
    /\ \E hs \in WithForks(heads, version) :
          Advanced([hs EXCEPT ![version].state = s, ![version].pos = @ + width,
                              ![version].count = Least(@ + 1, MaxCount)])
    /\ UNCHANGED <<finished, accepts>>

Reductions == IF InTurn THEN Reduced(H) ELSE {}

\* A reduction takes the place of the version, and advance goes on with it.
Reduce(f) ==
    /\ \E hs \in WithForks(heads, version) : heads' = [hs EXCEPT ![version] = f]
    /\ UNCHANGED <<finished, accepts, phase, parse, condense>>

\* Or all that is left of the version is in others.
ReduceAway(f) ==
    /\ Takers(heads, version, f) # {}
    /\ \E hs \in Forked(heads, version, f) : Advanced(Halt(hs, version))
    /\ UNCHANGED <<finished, accepts>>

Accept ==
    /\ InTurn /\ H.pos = End /\ H.state # ErrorState
    /\ Advanced(Halt(heads, version))
    /\ Accepted(H.cost)

\* No action for the lookahead; there is one in a state just recovered to.
Pause ==
    /\ InTurn /\ H.state \notin Goals \cup {ErrorState}
    /\ Advanced([heads EXCEPT ![version].status = "paused", ![version].count = 0])
    /\ UNCHANGED <<finished, accepts>>

RecoverInTurn ==
    /\ InTurn /\ H.state = ErrorState
    /\ \E o \in Recover(heads, version) : Advanced(o.heads) /\ Accepted(o.root)

NextTurn ==
    /\ phase = "advance" /\ version <= Len(heads) /\ ~Active(heads[version])
    /\ version' = version + 1
    /\ UNCHANGED <<heads, finished, accepts, phase, lastPosition, versionCount, floor, condense>>

\* What makes one version better than another, whatever its length or precedence.
NoWorse(a, b) ==
    \/ ~a.isInError /\ b.isInError
    \/ (a.isInError <=> b.isInError) /\ a.cost <= b.cost
Racing(hs) == {k \in 1 .. Len(hs) : hs[k].status # "halted"}

TurnsOver ==
    /\ phase = "advance" /\ version > Len(heads)
    /\ phase' = "condense" /\ versionCount' = Len(heads)
    /\ i' = 1 /\ minErrorCost' = Unlimited
    /\ LET statuses == {VersionStatus(heads[k]) : k \in Racing(heads)}
       IN best' = {s \in statuses : \A other \in statuses : NoWorse(s, other)}
    /\ UNCHANGED <<heads, finished, accepts, version, lastPosition, floor, j, statusI, n,
                   hasUnpausedVersion>>
-----------------------------------------------------------------------------
(* condenseStack.                                                          *)

Condensing(p) == phase = p /\ UNCHANGED <<finished, accepts, parse, best>>

HaltedKept ==
    /\ Condensing("condense") /\ i <= Len(heads) /\ heads[i].status = "halted"
    /\ UNCHANGED vars
RemoveHalted ==
    /\ Condensing("condense") /\ i <= Len(heads) /\ heads[i].status = "halted"
    /\ heads' = Without(heads, i)
    /\ UNCHANGED <<phase, i, j, statusI, minErrorCost, n, hasUnpausedVersion>>

LastCost ==
    /\ Condensing("condense") /\ i <= Len(heads) /\ heads[i].status # "halted"
    /\ LET status == VersionStatus(heads[i])
       IN statusI' = status /\ minErrorCost' = IF status.isInError THEN minErrorCost ELSE status.cost
    /\ j' = 1 /\ phase' = "compare"
    /\ UNCHANGED <<heads, i, n, hasUnpausedVersion>>
TakeUp ==
    /\ Condensing("condense") /\ i <= Len(heads) /\ heads[i].status # "halted"
    /\ LET status == VersionStatus(heads[i])
       IN /\ statusI' = status
          /\ minErrorCost' = IF status.isInError THEN minErrorCost
                             ELSE Least(minErrorCost, status.cost)
    /\ j' = 1 /\ phase' = "compare"
    /\ UNCHANGED <<heads, i, n, hasUnpausedVersion>>

Comparing == Condensing("compare") /\ j < i
Comparison == CompareVersions(VersionStatus(heads[j]), statusI)
OutOfTheRace(hs) ==
    /\ heads' = hs /\ phase' = "condense"
    /\ UNCHANGED <<i, j, statusI, minErrorCost, n, hasUnpausedVersion>>

RemoveI ==
    /\ Comparing /\ Comparison = "takeLeft"
    /\ OutOfTheRace(Without(heads, i))

RemoveLeft ==
    /\ Comparing /\ Comparison = "takeRight"
    /\ heads' = Without(heads, i) /\ i' = i - 1
    /\ UNCHANGED <<phase, j, statusI, minErrorCost, n, hasUnpausedVersion>>
RemoveJ ==
    /\ Comparing /\ Comparison = "takeRight"
    /\ heads' = Without(heads, j) /\ i' = i - 1
    /\ UNCHANGED <<phase, j, statusI, minErrorCost, n, hasUnpausedVersion>>

MergeIntoJ ==
    /\ Comparing /\ Comparison \notin {"takeLeft", "takeRight"}
    /\ CanMerge(heads[j], heads[i])
    /\ \E m \in MergedWith(heads[j], heads[i]) :
          OutOfTheRace(Without([heads EXCEPT ![j] = m], i))

\* After a swap statusI is still the status of what is now version j.
NeverSwapped ==
    /\ Comparing /\ Comparison \notin {"takeLeft", "takeRight"}
    /\ ~CanMerge(heads[j], heads[i])
    /\ j' = j + 1
    /\ UNCHANGED <<heads, phase, i, statusI, minErrorCost, n, hasUnpausedVersion>>
SwapOrKeep ==
    /\ Comparing /\ Comparison \notin {"takeLeft", "takeRight"}
    /\ ~CanMerge(heads[j], heads[i])
    /\ heads' = IF Comparison = "preferRight"
                THEN [heads EXCEPT ![i] = heads[j], ![j] = heads[i]] ELSE heads
    /\ j' = j + 1
    /\ UNCHANGED <<phase, i, statusI, minErrorCost, n, hasUnpausedVersion>>

Compared ==
    /\ Condensing("compare") /\ j >= i
    /\ phase' = "condense" /\ i' = i + 1
    /\ UNCHANGED <<heads, j, statusI, minErrorCost, n, hasUnpausedVersion>>

CutUnreset ==
    /\ Condensing("condense") /\ i > Len(heads)
    /\ heads' = SubSeq(heads, 1, Least(Len(heads), MaxVersionCount))
    /\ phase' = "resume" /\ i' = 1 /\ n' = Len(heads')
    /\ UNCHANGED <<j, statusI, minErrorCost, hasUnpausedVersion>>
Cut ==
    /\ Condensing("condense") /\ i > Len(heads)
    /\ heads' = SubSeq(heads, 1, Least(Len(heads), MaxVersionCount))
    /\ phase' = "resume" /\ i' = 1 /\ n' = Len(heads') /\ hasUnpausedVersion' = FALSE
    /\ UNCHANGED <<j, statusI, minErrorCost>>

\* handleError: into the error state, perhaps with a version that goes on with a missing
\* token, and then recover.
InErrorState(hs, v) ==
    [hs EXCEPT ![v].status = "active", ![v].state = ErrorState, ![v].fresh = TRUE,
               ![v].count = 0]
WithMissing(hs, v) ==
    {hs} \cup {Append(hs, [hs[v] EXCEPT !.status = "active", !.state = s,
                                        !.cost = @ + PerMissingTree,
                                        !.count = Least(1, MaxCount)]) : s \in Goals}
HandleError(hs, v) == UNION {Recover(InErrorState(gs, v), v) : gs \in WithMissing(hs, v)}

ResumeAlways == accepts < MaxVersionCount
MayResume == ~hasUnpausedVersion /\ accepts < MaxVersionCount
Paused == phase = "resume" /\ i <= n /\ heads[i].status = "paused"

Resume ==
    /\ Paused /\ MayResume
    /\ minErrorCost' = ErrorCost(heads[i])
    /\ \E o \in HandleError(heads, i) : heads' = o.heads /\ Accepted(o.root)
    /\ hasUnpausedVersion' = TRUE /\ i' = i + 1
    /\ UNCHANGED <<phase, parse, j, statusI, n, best>>

RemovePaused ==
    /\ Paused /\ ~MayResume
    /\ heads' = Without(heads, i) /\ n' = n - 1
    /\ UNCHANGED <<finished, accepts, phase, parse, i, j, statusI, minErrorCost,
                   hasUnpausedVersion, best>>

KeepUnpaused ==
    /\ phase = "resume" /\ i <= n /\ heads[i].status # "paused"
    /\ hasUnpausedVersion' = TRUE /\ i' = i + 1
    /\ UNCHANGED <<heads, finished, accepts, phase, parse, j, statusI, minErrorCost, n, best>>

\* Parse: is the finished tree better than all that goes on, is anything left?
RoundOver ==
    /\ phase = "resume" /\ i > n
    /\ LET beaten == finished # None /\ finished < minErrorCost
       IN /\ heads' = IF beaten THEN OneVersion ELSE heads
          /\ phase' = IF beaten \/ versionCount = 0 THEN "done" ELSE "advance"
    /\ version' = 1 /\ floor' = lastPosition
    /\ UNCHANGED <<finished, accepts, lastPosition, versionCount, condense>>

Next ==
    \/ \E s \in State, width \in {0, 1} : Shift(s, width)
    \/ \E f \in Reductions : Reduce(f)
    \/ \E f \in Reductions : ReduceAway(f)
    \/ Accept \/ Pause \/ RecoverInTurn \/ NextTurn \/ TurnsOver
    \/ RemoveHalted \/ TakeUp \/ RemoveI \/ RemoveJ \/ MergeIntoJ \/ SwapOrKeep \/ Compared
    \/ Cut \/ Resume \/ RemovePaused \/ KeepUnpaused \/ RoundOver

\* Parse is one loop of Go code.
Spec == Init /\ [][Next]_vars /\ WF_vars(Next)
-----------------------------------------------------------------------------
(* Properties.                                                             *)

\* No version lags behind: when the round is over every version has come at least as far as
\* the furthest had before it, those that were made on the way included.
InStep ==
    phase = "condense" => \A k \in 1 .. Len(heads) : Active(heads[k]) => heads[k].pos >= floor

\* Removing, merging and swapping the versions it goes through, condenseStack never drops
\* the best one without keeping one as good, and neither does the limit on their number.
BestKept ==
    phase \in {"condense", "compare"} \/ (phase = "resume" /\ i = 1 /\ MayResume) =>
       \A s \in best : \E k \in Racing(heads) : NoWorse(VersionStatus(heads[k]), s)

\* It leaves the versions ordered, those without an error first and then by cost: it is the
\* worst that go over the limit, and the best paused one that is resumed.
BestFirst ==
    phase = "resume" /\ i = 1 =>
       \A k \in 1 .. Len(heads) - 1 : NoWorse(VersionStatus(heads[k]), VersionStatus(heads[k + 1]))

\* Parse only stops with a tree that beats every version that is not in error, of those that
\* went through the comparisons: minErrorCost is the least of their costs, and resuming one
\* sets it only when there is none.  (A version that handleError then made with a missing
\* token may still cost less: minErrorCost is read before it is made.)
StopsRightly ==
    [][phase' = "done" =>
          \A k \in Racing(heads) :
             k <= n => InError(heads[k]) \/ finished < ErrorCost(heads[k])]_vars

\* A paused version is resumed only if all that are left are in error and none is better,
\* though one that is worse, and recovering, may stand behind it.
ResumesTheBest ==
    [][Paused /\ MayResume =>
          \A k \in 1 .. n : InError(heads[k])
                            /\ NoWorse(VersionStatus(heads[i]), VersionStatus(heads[k]))]_vars

\* However versions give up because of better ones, there is always one that goes on or a
\* tree, and in the end a tree.
NeverEmptyHanded ==
    /\ finished # None \/ Racing(heads) # {}
    /\ phase = "done" => finished # None

\* Parse comes to an end.
Terminates == <>(phase = "done")
=============================================================================
