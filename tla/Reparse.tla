------------------------------- MODULE Reparse -------------------------------
(***************************************************************************)
(* Parsing a text, editing it or changing its included ranges, and parsing *)
(* it again with the old tree at hand: reuseNode walks the old tree next   *)
(* to the text and takes what must come out the same, and what was taken   *)
(* too early is broken down.  Then the same text is parsed without a tree, *)
(* to compare.  There is one version, as long as there is no error; at a   *)
(* syntax error the model ends the parse without a tree.                   *)
(***************************************************************************)
EXTENDS TreeEdit, RangeDiff

CONSTANTS Texts, RangeLists,    \* to begin with
          Edits(_),             \* [from, to, insert], of a text
          Table,                \* [type, state, symbol, count, extra] of a state and a symbol
          Reusable,             \* <<state, symbol>> of the entries marked so
          LexModes,             \* of a state: lex state and external lex state
          Spellings,            \* of a lex state: the tokens, as <<symbol, word>>
          Scanner,              \* of a scanner state: symbol, word and the next state
          MaxEdits              \* bound

VARIABLES text, ranges,         \* the input, and the parser's included ranges
          tree,                 \* the last result of Parse: root and included ranges
          stage,                \* "first", "again" or "fresh": what is being parsed
          phase,                \* where Parse and advance are
          stack,                \* of the version: state, tree, pending, end of its text
          lastExternal,         \* its scanner state
          reusable,             \* reusableNode: stack and scanner state
          diffIndex,            \* includedRangeDiffIndex
          lookahead,            \* of advance
          entry,                \* the symbol its table entry is of
          didReuse,
          fresh,                \* the result of parsing without a tree
          edits                 \* how many there were
input == <<text, ranges, tree, stage, fresh, edits>>
version == <<stack, lastExternal>>
taken == <<lookahead, entry, didReuse>>
vars == <<input, phase, version, reusable, diff, diffIndex, taken>>

StartState == 1
NoLexState == 65535
Space == " "
Nil == [symbol |-> -1, kids |-> <<>>]
NoTree == [root |-> Nil, ranges |-> <<>>]
NoAction == [type |-> "none", state |-> 0, symbol |-> 0, count |-> 0, extra |-> FALSE]
TableEntry(state, symbol) ==
  IF symbol \in DOMAIN Table[state] THEN Table[state][symbol] ELSE NoAction
NextState(state, symbol) ==
  IF TableEntry(state, symbol).extra THEN state ELSE TableEntry(state, symbol).state
Bytes(n) == Length(n, Point(0, n))
IsEOF(s) == s.symbol = BuiltinSymEnd
Suffix(s, n) == SubSeq(s, Len(s) - n + 1, Len(s))

\* The scanner's state that the last external token of a subtree left.
Scanned == {Scanner[x] : x \in DOMAIN Scanner}
RECURSIVE LastExternal(_, _)
LastExternal(s, before) ==
  IF s.kids # <<>> THEN FoldLeft(LAMBDA x, kid : LastExternal(kid, x), before, s.kids)
  ELSE IF s.symbol \in {x.symbol : x \in Scanned}
       THEN (CHOOSE x \in Scanned : x.symbol = s.symbol).next
  ELSE before

-----------------------------------------------------------------------------
(* The lexer, over the included text; every character is one byte wide.    *)

RangeAt(at) ==
  LET later == {i \in DOMAIN ranges : ranges[i].end.bytes > at
                                      /\ ranges[i].end.bytes > ranges[i].start.bytes}
  IN  IF later = {} THEN 0 ELSE Min(later)
Landed(at) == IF RangeAt(at) = 0 THEN at ELSE Max({at, ranges[RangeAt(at)].start.bytes})
CharAt(at) == IF RangeAt(at) = 0 \/ at >= Len(text) THEN "end" ELSE text[at + 1]
MarkedEnd(at) ==
  IF CharAt(at) # "end" /\ RangeAt(at) > 1 /\ at = ranges[RangeAt(at)].start.bytes
  THEN ranges[RangeAt(at) - 1].end.bytes ELSE at

RECURSIVE PastSpace(_), Past(_, _)
PastSpace(at) == IF CharAt(at) = Space THEN PastSpace(Landed(at + 1)) ELSE at
Past(at, n) == IF n = 0 THEN at ELSE Past(Landed(at + 1), n - 1)
Reads(at, word) == \A i \in DOMAIN word : CharAt(Past(at, i - 1)) = word[i]

\* The longest token there is, with the character after the furthest one tried.
Token(at, state, symbol, external, from, length, tried) ==
  LET end == MarkedEnd(Past(from, length))
  IN  NewLeaf(symbol, Bytes(from - at), Bytes(end - from), Past(from, tried) + 1 - end,
              state, external, FALSE)
Lexed(at, state) ==
  LET from == PastSpace(Landed(at))
      scanned == Scanner[lastExternal]
      spellings == Spellings[LexModes[state].lex]
      found == {s \in spellings : Reads(from, s[2])}
      best == CHOOSE s \in found : \A other \in found : Len(other[2]) <= Len(s[2])
      tried == Max({0} \union {Len(p) : p \in {q \in UNION {Prefixes(s[2]) : s \in spellings} :
                                                 Reads(from, q)}})
  IN  IF LexModes[state].external # 0 /\ Reads(from, scanned.word)
      THEN Token(at, state, scanned.symbol, TRUE, from, Len(scanned.word), Len(scanned.word))
      ELSE IF CharAt(from) = "end" THEN Token(at, state, BuiltinSymEnd, FALSE, from, 0, 0)
      ELSE IF found = {} THEN Nil
      ELSE Token(at, state, best[1], FALSE, from, Len(best[2]), tried)

-----------------------------------------------------------------------------
(* The stack of the one version. *)

Top == Last(stack)
State == Top.state
Base == <<[state |-> StartState, tree |-> Nil, pending |-> FALSE, at |-> LengthZero]>>
Push(s, sub, pending, state) ==
  Append(s, [state |-> state, tree |-> sub, pending |-> pending,
             at |-> LengthAdd(Last(s).at, TotalSize(sub))])
Extra(e) == e.tree.symbol # -1 /\ e.tree.extra
\* What is left of the stack without its last n subtrees, extras not counted.
Below(s, n) ==
  Max({k \in 0..Len(s) : Quantify(k + 1..Len(s), LAMBDA i : ~Extra(s[i])) = n})
TreesAbove(s, k) == [i \in 1..Len(s) - k |-> s[k + i].tree]
PushAll(s, subs, state) == FoldLeft(LAMBDA acc, sub : Push(acc, sub, FALSE, state), s, subs)

\* The top subtree was taken whole from the old tree.
Pending(s) == Len(s) > 1 /\ Below(s, 1) > 0 /\ s[Below(s, 1) + 1].pending
RECURSIVE BreakDown(_)
BreakDown(s) ==
  LET k == Below(s, 1)
      parent == s[k + 1].tree
      Onto(acc, kid) ==
        Push(acc, kid, kid.kids # <<>>,
             IF kid.extra THEN Last(acc).state ELSE NextState(Last(acc).state, kid.symbol))
      opened == FoldLeft(Onto, SubSeq(s, 1, k), parent.kids)
      closed == PushAll(opened, TreesAbove(s, k + 1), Last(opened).state)
  IN  IF ~Pending(s) THEN s
      ELSE IF Last(parent.kids).kids = <<>> THEN closed
      ELSE BreakDown(closed)

-----------------------------------------------------------------------------
(* reusableNode. *)

Step(sub, child, offset) == [tree |-> sub, child |-> child, offset |-> offset]
NoWalk == [stack |-> <<>>, external |-> 0]
Descend(w) ==
  LET last == Last(w.stack)
  IN  [w EXCEPT !.stack = Append(@, Step(last.tree.kids[1], 1, last.offset))]
Advance(w) ==
  LET last == Last(w.stack)
      open == {k \in 1..Len(w.stack) - 1 : w.stack[k + 1].child < Len(w.stack[k].tree.kids)}
      k == Max(open)
      next == w.stack[k + 1].child + 1
  IN  [ stack |-> IF open = {} THEN <<>>
                  ELSE Append(SubSeq(w.stack, 1, k),
                              Step(w.stack[k].tree.kids[next], next,
                                   last.offset + TotalBytes(last.tree))),
        external |-> LastExternal(last.tree, w.external) ]
RECURSIVE AdvancePastLeaf(_), DescendTo(_, _)
AdvancePastLeaf(w) ==
  IF Last(w.stack).tree.kids = <<>> THEN Advance(w) ELSE AdvancePastLeaf(Descend(w))
ResetTo(root) ==
  LET w == [stack |-> <<Step(root, 0, 0)>>, external |-> 0]
  IN  IF root.kids = <<>> THEN NoWalk ELSE Descend(w)
\* A node that was made in another state is opened until one was made in this one.
DescendTo(w, state) ==
  LET sub == Last(w.stack).tree
  IN  IF sub.kids # <<>> /\ sub.state # state THEN DescendTo(Descend(w), state) ELSE w

-----------------------------------------------------------------------------
(* Parse. *)

Init ==
  /\ text \in Texts /\ ranges \in RangeLists
  /\ tree = NoTree /\ fresh = NoTree /\ stage = "first" /\ phase = "start" /\ edits = 0
  /\ stack = Base /\ lastExternal = 0 /\ reusable = NoWalk
  /\ DiffInit /\ diffIndex = 1
  /\ lookahead = Nil /\ entry = -1 /\ didReuse = FALSE

Start ==
  /\ phase = "start" /\ phase' = "reuse"
  /\ stack' = Base /\ lastExternal' = 0
  /\ IF stage = "again"
     THEN GetChangedRanges(tree.ranges, ranges) /\ reusable' = ResetTo(tree.root)
     ELSE GetChangedRanges(<<>>, <<>>) /\ reusable' = NoWalk
  /\ diffIndex' = 1 /\ lookahead' = Nil /\ entry' = -1 /\ didReuse' = FALSE
  /\ UNCHANGED input

Diff ==
  /\ phase = "reuse" /\ DiffRound
  /\ UNCHANGED <<input, phase, version, reusable, diffIndex, taken>>

-----------------------------------------------------------------------------
(* reuseNode, one round of its loop at a time. *)

Reusing == phase = "reuse" /\ DiffOver
Candidate == Last(reusable.stack)
Node == Candidate.tree
Position == Top.at.bytes
EndOf(c) == IF IsEOF(c.tree) THEN LengthMax ELSE c.offset + TotalBytes(c.tree)
\* A plausible mistake: what the lexer only looked at is not part of what it saw.
SeenToEnd(c) == EndOf(c)
SeenTo(c) == IF IsEOF(c.tree) THEN LengthMax ELSE EndOf(c) + c.tree.lookahead
Here == Reusing /\ reusable.stack # <<>> /\ Candidate.offset = Position
HasIncludedRangeDifference(from, to) == RangeArrayIntersects(diff.found, diffIndex, from, to)
Blocked ==
  \/ Node.changed \/ IsError(Node) \/ Node.missing \/ Node.fragileLeft \/ Node.fragileRight
  \/ HasIncludedRangeDifference(Candidate.offset, SeenTo(Candidate))
\* A plausible mistake: a leaf is taken wherever the grammar has a way on with it.
CanReuseAnyLeaf(state, sub) == TableEntry(state, sub.leafSymbol) # NoAction
CanReuseFirstLeaf(state, sub) ==
  LET current == LexModes[state] was == LexModes[sub.leafState]
      found == TableEntry(state, sub.leafSymbol) # NoAction
  IN  /\ current.lex # NoLexState
      /\ \/ found /\ was = current
              /\ (sub.leafSymbol # BuiltinSymEnd \/ sub.state = state)
         \/ /\ sub.size.bytes > 0 \/ sub.leafSymbol = BuiltinSymEnd
            /\ current.external = 0 /\ <<state, sub.leafSymbol>> \in Reusable
Kept == <<input, version, diff, diffIndex>>

NothingHere ==
  /\ Reusing /\ (reusable.stack # <<>> => Candidate.offset > Position)
  /\ phase' = "lex" /\ didReuse' = FALSE
  /\ UNCHANGED <<Kept, reusable, lookahead, entry>>
CatchUp ==
  /\ Reusing /\ reusable.stack # <<>> /\ Candidate.offset < Position
  /\ reusable' = IF EndOf(Candidate) <= Position \/ Node.kids = <<>> THEN Advance(reusable)
                 ELSE Descend(reusable)
  /\ UNCHANGED <<Kept, phase, taken>>
OtherScannerState ==
  /\ Here /\ reusable.external # lastExternal
  /\ reusable' = Advance(reusable)
  /\ UNCHANGED <<Kept, phase, taken>>
OpenBlocked ==
  /\ Here /\ reusable.external = lastExternal /\ Blocked /\ Node.kids # <<>>
  /\ reusable' = Descend(reusable)
  /\ UNCHANGED <<Kept, phase, taken>>
PassBlocked ==
  /\ Here /\ reusable.external = lastExternal /\ Blocked /\ Node.kids = <<>>
  /\ reusable' = Advance(reusable) /\ stack' = BreakDown(stack)
  /\ UNCHANGED <<input, phase, lastExternal, diff, diffIndex, taken>>
PassUnfit ==
  /\ Here /\ reusable.external = lastExternal /\ ~Blocked /\ ~CanReuseFirstLeaf(State, Node)
  /\ reusable' = AdvancePastLeaf(reusable)
  /\ phase' = "lex" /\ didReuse' = FALSE
  /\ UNCHANGED <<Kept, lookahead, entry>>
Take ==
  /\ Here /\ reusable.external = lastExternal /\ ~Blocked /\ CanReuseFirstLeaf(State, Node)
  /\ lookahead' = Node /\ entry' = Node.leafSymbol /\ didReuse' = TRUE
  /\ phase' = "act"
  /\ UNCHANGED <<Kept, reusable>>

-----------------------------------------------------------------------------
(* advance, with a lookahead. *)

Lex ==
  /\ phase = "lex" /\ phase' = "act"
  /\ lookahead' = Lexed(Position, State)
  /\ entry' = lookahead'.symbol
  /\ UNCHANGED <<Kept, reusable, didReuse>>

Action == TableEntry(State, entry)
\* Parse moves the index on when the version has passed a difference.
IndexPast(at) ==
  CHOOSE i \in diffIndex..Len(diff.found) + 1 :
    /\ i <= Len(diff.found) => diff.found[i].end.bytes > at
    /\ \A j \in diffIndex..i - 1 : diff.found[j].end.bytes <= at

Shift ==
  LET whole == lookahead.kids # <<>>
      walk == IF whole THEN DescendTo(reusable, State) ELSE reusable
      sub == IF whole THEN Last(walk.stack).tree ELSE lookahead
      leaf == IF sub.kids = <<>> THEN [sub EXCEPT !.extra = Action.extra] ELSE sub
      next == IF whole THEN NextState(State, sub.symbol)
              ELSE IF Action.extra THEN State ELSE Action.state
  IN  /\ phase = "act" /\ Action.type = "shift" /\ phase' = "reuse"
      /\ stack' = Push(stack, leaf, sub.kids # <<>>, next)
      /\ lastExternal' = LastExternal(leaf, lastExternal)
      /\ reusable' = IF didReuse THEN Advance(walk) ELSE walk
      /\ diffIndex' = IndexPast(Last(stack').at.bytes)
      /\ UNCHANGED <<input, diff, taken>>

Reduce ==
  LET k == Below(stack, Action.count)
      popped == TreesAbove(stack, k)
      kids == SubSeq(popped, 1, Max({0} \union {i \in DOMAIN popped : ~popped[i].extra}))
      extras == Suffix(popped, Len(popped) - Len(kids))
      state == stack[k].state
      parent == [NewNode(Action.symbol, kids, kids, 0) EXCEPT !.state = state]
      next == NextState(state, Action.symbol)
  IN  /\ phase = "act" /\ Action.type = "reduce"
      /\ stack' = PushAll(Push(SubSeq(stack, 1, k), parent, FALSE, next), extras, next)
      /\ entry' = lookahead.leafSymbol
      /\ UNCHANGED <<input, phase, lastExternal, reusable, diff, diffIndex, lookahead, didReuse>>

Finish(result) ==
  /\ phase' = "done"
  /\ IF stage = "fresh" THEN fresh' = result /\ tree' = tree ELSE tree' = result /\ fresh' = fresh
  /\ UNCHANGED <<text, ranges, stage, edits, version, reusable, diff, diffIndex, taken>>

\* The root takes in what lies around it.
Accept ==
  LET subs == TreesAbove(Push(stack, lookahead, FALSE, 1), 1)
      r == Max({i \in DOMAIN subs : ~subs[i].extra})
      spliced == SubSeq(subs, 1, r - 1) \o subs[r].kids \o SubSeq(subs, r + 1, Len(subs))
  IN  /\ phase = "act" /\ Action.type = "accept"
      /\ Finish([root |-> NewNode(subs[r].symbol, spliced, spliced, 0), ranges |-> ranges])

\* What was taken whole is opened and the next token read again; if nothing was,
\* it is a syntax error, and there is no tree.
NoWayOn ==
  /\ phase = "act" /\ Action.type = "none"
  /\ IF Pending(stack)
     THEN /\ stack' = BreakDown(stack) /\ phase' = "lex"
          /\ UNCHANGED <<input, lastExternal, reusable, diff, diffIndex, taken>>
     ELSE Finish(NoTree)

-----------------------------------------------------------------------------
(* Between two parses. *)

RECURSIVE SubtreeEdit(_, _)
SubtreeEdit(s, e) ==
  LET to == Shifted(s, e)
      parts == ChildEdits(s, to.padding, s.kids, e)
  IN  IF Misses(s, e) THEN s
      ELSE [Resize(s, to.padding, to.size) EXCEPT
             !.changed = TRUE,
             !.kids = [i \in DOMAIN @ |-> IF i \in DOMAIN parts THEN SubtreeEdit(@[i], parts[i])
                                          ELSE @[i]]]

HasTree == phase = "done" /\ stage # "again" /\ tree.root # Nil
\* Tree.Edit, for an edit of the text.
Edit(edit) ==
  LET e == Span(Bytes(edit.from), Bytes(edit.to), Bytes(edit.from + Len(edit.insert)))
  IN  /\ HasTree /\ edits < MaxEdits
      /\ text' = SubSeq(text, 1, edit.from) \o edit.insert \o SubSeq(text, edit.to + 1, Len(text))
      /\ tree' = [root |-> SubtreeEdit(tree.root, e),
                  ranges |-> [i \in DOMAIN tree.ranges |-> RangeEdit(tree.ranges[i], e)]]
      /\ ranges' = tree'.ranges
      /\ stage' = "again" /\ phase' = "start" /\ edits' = edits + 1
      /\ UNCHANGED <<fresh, version, reusable, diff, diffIndex, taken>>
SetIncludedRanges(list) ==
  /\ HasTree /\ edits < MaxEdits /\ list # ranges
  /\ ranges' = list
  /\ stage' = "again" /\ phase' = "start" /\ edits' = edits + 1
  /\ UNCHANGED <<text, tree, fresh, version, reusable, diff, diffIndex, taken>>
\* Parse(nil), to compare.
ParseFresh ==
  /\ phase = "done" /\ stage = "again"
  /\ stage' = "fresh" /\ phase' = "start"
  /\ UNCHANGED <<text, ranges, tree, fresh, edits, version, reusable, diff, diffIndex, taken>>

ParseStep ==
  \/ Start \/ Diff \/ NothingHere \/ CatchUp \/ OtherScannerState \/ OpenBlocked \/ PassBlocked
  \/ PassUnfit \/ Take \/ Lex \/ Shift \/ Reduce \/ Accept \/ NoWayOn \/ ParseFresh
Next ==
  \/ ParseStep
  \/ \E edit \in Edits(text) : Edit(edit)
  \/ \E list \in RangeLists : SetIncludedRanges(list)
Spec == Init /\ [][Next]_vars

-----------------------------------------------------------------------------
(* Properties. *)

RECURSIVE Same(_, _)
Same(a, b) ==
  /\ a.symbol = b.symbol /\ Len(a.kids) = Len(b.kids)
  /\ a # Nil /\ b # Nil => a.padding = b.padding /\ a.size = b.size
  /\ \A i \in DOMAIN a.kids : Same(a.kids[i], b.kids[i])

\* Parsing again with an edited tree at hand gives the tree that parsing without
\* one gives, or none where that gives none (parser_core.go:370).
SameTree == stage = "fresh" /\ phase = "done" => Same(tree.root, fresh.root)
=============================================================================
