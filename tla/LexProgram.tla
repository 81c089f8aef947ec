------------------------------ MODULE LexProgram ------------------------------
(***************************************************************************)
(* A grammar's lexer as data: ts-translate lays the generated C function  *)
(* out as one instruction stream (cmd/ts-translate/lexprog.go) and the    *)
(* runtime walks it for a token (lexprog.go).  Expressions and statements *)
(* are records whose `is` names the Go type; a comparison stands for the  *)
(* binary operators, which differ in the value they compute alone.        *)
(***************************************************************************)
EXTENDS Integers, Sequences, TLC
LOCAL INSTANCE SequencesExt
LOCAL INSTANCE FiniteSetsExt

CONSTANT MaxStackDepth   \* 16, the runtime's operand stack
ASSUME StackAssumption == MaxStackDepth \in Nat \ {0}

Ops == <<"PushLit", "PushLookahead", "PushEOF", "PushSet", "Not", "Neg", "Binary",
         "JumpIfFalse", "Dispatch", "Advance", "Skip", "AdvanceMap", "Accept",
         "End", "Return", "ReadEOF">>
BinaryOps == <<"||", "&&", "==", "!=", "<", ">">>
Op(name) == (CHOOSE i \in DOMAIN Ops : Ops[i] = name) - 1
Binary(name) == (CHOOSE i \in DOMAIN BinaryOps : BinaryOps[i] = name) - 1

Truth(b) == IF b THEN 1 ELSE 0
ApplyBinary(op, l, r) ==
    CASE op = Binary("||") -> Truth(l # 0 \/ r # 0)
      [] op = Binary("&&") -> Truth(l # 0 /\ r # 0)
      [] op = Binary("==") -> Truth(l = r)
      [] op = Binary("!=") -> Truth(l # r)
      [] op = Binary("<") -> Truth(l < r)
      [] op = Binary(">") -> Truth(l > r)

-----------------------------------------------------------------------------
(* The builder: the code and maps so far, and how deep a condition nests. *)

Emit(b, op, arg) == [b EXCEPT !.code = Append(@, <<Op(op), arg>>)]
PushUncounted(b, op, arg) == [Emit(b, op, arg) EXCEPT !.depth = @ + 1]
Push(b, op, arg) ==
    LET e == Emit(b, op, arg)
    IN  [e EXCEPT !.depth = @ + 1, !.max = IF e.depth + 1 > @ THEN e.depth + 1 ELSE @]

RECURSIVE Cond(_, _, _)
Cond(b, x, setIndex) ==
    CASE x.is = "lit" -> Push(b, "PushLit", x.v)
      [] x.is = "lookahead" -> Push(b, "PushLookahead", 0)
      [] x.is = "eof" -> Push(b, "PushEOF", 0)
      [] x.is = "set" -> Push(b, "PushSet", setIndex[x.set])
      [] x.is \in {"Not", "Neg"} -> Emit(Cond(b, x.x, setIndex), x.is, 0)
      [] x.is = "bin" ->
            LET e == Emit(Cond(Cond(b, x.l, setIndex), x.r, setIndex), "Binary", Binary(x.op))
            IN  [e EXCEPT !.depth = @ - 1]

RECURSIVE Stmts(_, _, _)
Stmt(b, st, setIndex) ==
    CASE st.is = "if" ->
            LET test == Cond([b EXCEPT !.depth = 0], st.cond, setIndex)
                jump == Len(test.code) + 1
                body == Stmts(Emit(test, "JumpIfFalse", 0), st.then, setIndex)
            IN  IF st.cond.is = "lit" /\ st.cond.v = 1 THEN Stmts(b, st.then, setIndex)
                ELSE [body EXCEPT !.code[jump] = <<@[1], Len(body.code)>>]
      [] st.is = "advance" -> Emit(b, IF st.skip THEN "Skip" ELSE "Advance", st.state)
      [] st.is = "map" ->
            Emit([b EXCEPT !.maps = Append(@, FlattenSeq(st.pairs))], "AdvanceMap", Len(b.maps))
      [] st.is = "accept" -> Emit(b, "Accept", st.symbol)
      [] st.is = "end" \/ (st.is = "return" /\ st.value = "result") -> Emit(b, "End", 0)
      [] st.is = "return" -> Emit(b, "Return", Truth(st.value = "true"))
      [] st.is = "readeof" -> Emit(b, "ReadEOF", 0)
Stmts(b, stmts, setIndex) ==
    IF stmts = << >> THEN b ELSE Stmts(Stmt(b, Head(stmts), setIndex), Tail(stmts), setIndex)

EndsRun(b) == b.code # << >> /\ Last(b.code)[1] \in {Op("End"), Op("Return")}

(* A case is laid out where its label's entry points, and ends the run if *)
(* its last statement does not.                                           *)
Case(b, c, setIndex) ==
    LET body == Stmts(b, c.stmts, setIndex)
        pc == Len(b.code)
        ended == IF EndsRun(body) THEN body ELSE Emit(body, "End", 0)
    IN  [ended EXCEPT !.entry = [l \in DOMAIN @ \cup c.labels |-> IF l \in c.labels THEN pc ELSE @[l]],
                      !.default = IF c.isDefault THEN pc ELSE @]

RECURSIVE Cases(_, _, _)
Cases(b, cases, setIndex) ==
    IF cases = << >> THEN b ELSE Cases(Case(b, Head(cases), setIndex), Tail(cases), setIndex)

BuildLexProgram(fn, setIndex) ==
    LET start == [code |-> << >>, maps |-> << >>, depth |-> 0, max |-> 0,
                  entry |-> << >>, default |-> -1]
        prologue == Emit(Stmts(start, fn.prologue, setIndex), "Dispatch", 0)
        b == Cases(prologue, fn.cases, setIndex)
        highest == Max(DOMAIN b.entry \cup {-1})
    IN  [fits |-> b.max <= MaxStackDepth,
         code |-> b.code, maps |-> b.maps,
         states |-> [i \in 1 .. highest + 1 |->
                        IF i - 1 \in DOMAIN b.entry THEN b.entry[i - 1] ELSE b.default]]

-----------------------------------------------------------------------------
(***************************************************************************)
(* Run.  A run is the program counter, the operand stack, the flags and   *)
(* the lexer: where it stands in the text, where the token's end was       *)
(* marked, where the token starts and its symbol.  answer is empty while  *)
(* the run lasts.  In(set, c) is the runtime's SetContains.               *)
(***************************************************************************)
Peek(text, at) == IF at < Len(text) THEN text[at + 1] ELSE 0

Restart(run, state) == [run EXCEPT !.pc = 0, !.stack = << >>, !.eof = FALSE, !.state = state]
StartRun(state) ==
    [pc |-> 0, stack |-> << >>, eof |-> FALSE, state |-> state, result |-> FALSE,
     at |-> 0, start |-> 0, mark |-> 0, symbol |-> 0, answer |-> << >>]

(* lexer.Advance stays where it is at the end of the text. *)
Move(run, text, state, skip) ==
    LET at == IF run.at < Len(text) THEN run.at + 1 ELSE run.at
    IN  Restart([run EXCEPT !.at = at, !.start = IF skip THEN at ELSE @], state)

Pushed(run, v) == [run EXCEPT !.stack = Append(@, v)]

(* One instruction. *)
Step(program, run, text, In(_, _)) ==
    LET ins == program.code[run.pc + 1]
        op == Ops[ins[1] + 1]
        arg == ins[2]
        lookahead == Peek(text, run.at)
        went == [run EXCEPT !.pc = @ + 1]
        top == Last(run.stack)
        rest == Front(run.stack)
        target == IF run.state < Len(program.states) THEN program.states[run.state + 1] ELSE -1
        pairs == program.maps[arg + 1]
        hits == {i \in DOMAIN pairs : i % 2 = 1 /\ pairs[i] = lookahead}
    IN  CASE op = "PushLit" -> Pushed(went, arg)
          [] op = "PushLookahead" -> Pushed(went, lookahead)
          [] op = "PushEOF" -> Pushed(went, Truth(run.eof))
          [] op = "PushSet" -> Pushed(went, Truth(In(arg, lookahead)))
          [] op = "Not" -> [went EXCEPT !.stack = Append(rest, Truth(top = 0))]
          [] op = "Neg" -> [went EXCEPT !.stack = Append(rest, -top)]
          [] op = "Binary" ->
                [went EXCEPT !.stack = Append(Front(rest), ApplyBinary(arg, Last(rest), top))]
          [] op = "JumpIfFalse" ->
                [went EXCEPT !.stack = rest, !.pc = IF top = 0 THEN arg ELSE @]
          [] op = "Dispatch" ->
                IF target < 0 THEN [went EXCEPT !.answer = <<run.result>>]
                ELSE [went EXCEPT !.pc = target]
          [] op \in {"Advance", "Skip"} -> Move(run, text, arg, op = "Skip")
          [] op = "AdvanceMap" ->
                IF hits = {} THEN went ELSE Move(run, text, pairs[Min(hits) + 1], FALSE)
          [] op = "Accept" ->
                [went EXCEPT !.result = TRUE, !.symbol = arg, !.mark = run.at]
          [] op = "End" -> [went EXCEPT !.answer = <<run.result>>]
          [] op = "Return" -> [went EXCEPT !.answer = <<arg # 0>>]
          [] op = "ReadEOF" -> [went EXCEPT !.eof = run.at = Len(text)]

-----------------------------------------------------------------------------
(***************************************************************************)
(* What the C function means, the text clexfn.go reads: START_LEXER, the  *)
(* prologue, a switch on the state, cases that fall through; ADVANCE and  *)
(* SKIP go round again.  member[set] is what C's set_contains finds.      *)
(***************************************************************************)
RECURSIVE Means(_, _, _, _)
Means(x, run, c, member) ==
    CASE x.is = "lit" -> x.v
      [] x.is = "lookahead" -> c
      [] x.is = "eof" -> Truth(run.eof)
      [] x.is = "set" -> Truth(c \in member[x.set])
      [] x.is = "Not" -> Truth(Means(x.x, run, c, member) = 0)
      [] x.is = "Neg" -> -Means(x.x, run, c, member)
      [] x.is = "bin" ->
            ApplyBinary(Binary(x.op), Means(x.l, run, c, member), Means(x.r, run, c, member))

(* Executing statements until one moves on (moved) or answers. *)
RECURSIVE Executed(_, _, _, _)
Executed(stmts, run, text, member) ==
    IF stmts = << >> \/ run.moved \/ run.answer # << >> THEN run
    ELSE LET st == Head(stmts)
             c == Peek(text, run.at)
             Go(state, skip) == [Move(run, text, state, skip) EXCEPT !.moved = TRUE]
             hits == {i \in DOMAIN st.pairs : st.pairs[i][1] = c}
             next == CASE st.is = "if" ->
                            IF Means(st.cond, run, c, member) # 0
                            THEN Executed(st.then, run, text, member) ELSE run
                       [] st.is = "advance" -> Go(st.state, st.skip)
                       [] st.is = "map" ->
                            IF hits = {} THEN run ELSE Go(st.pairs[Min(hits)][2], FALSE)
                       [] st.is = "accept" ->
                            [run EXCEPT !.result = TRUE, !.symbol = st.symbol, !.mark = run.at]
                       [] st.is = "end" -> [run EXCEPT !.answer = <<run.result>>]
                       [] st.is = "return" ->
                            [run EXCEPT !.answer = <<IF st.value = "result" THEN run.result
                                                     ELSE st.value = "true">>]
                       [] st.is = "readeof" -> [run EXCEPT !.eof = run.at = Len(text)]
         IN  Executed(Tail(stmts), next, text, member)

RECURSIVE Lexed(_, _, _, _)
Lexed(fn, run, text, member) ==
    LET matching == {i \in DOMAIN fn.cases : run.state \in fn.cases[i].labels}
        defaults == {i \in DOMAIN fn.cases : fn.cases[i].isDefault}
        first == Min(IF matching # {} THEN matching ELSE defaults)
        body == FlattenSeq([i \in 1 .. Len(fn.cases) - first + 1 |-> fn.cases[first + i - 1].stmts])
        out == Executed(fn.prologue \o body, run, text, member)
    IN  IF out.moved THEN Lexed(fn, [out EXCEPT !.moved = FALSE], text, member) ELSE out

(* What lexing the text from a state comes to: the answer, and the token. *)
Token(run) == [answer |-> run.answer, symbol |-> run.symbol, start |-> run.start, mark |-> run.mark]
MeantToken(fn, state, text, member) ==
    Token(Lexed(fn, StartRun(state) @@ [moved |-> FALSE], text, member))

=============================================================================
