------------------------------ MODULE Lowering ------------------------------
(***************************************************************************)
(* How lower.rs makes blocks of a procedure's statements, and what         *)
(* analyze.rs asks of the statements before.                               *)
(*                                                                         *)
(* A statement is a record with a kind; tag tells one from the other.  An  *)
(* ELSE part is a sequence of one body or of none.  A condition is one     *)
(* test or two, joined by AND or by OR.  A block is a sequence of          *)
(* instructions and a terminator; instructions that only fetch what a test *)
(* or a call needs belong to it.                                           *)
(***************************************************************************)
EXTENDS Naturals, Sequences, SequencesExt

-----------------------------------------------------------------------------
(* The builder: the blocks, the active one, and the exit blocks of the loops. *)

Open == [to |-> "open"]                 \* Terminator::Unreachable
Goto(b) == [to |-> "block", next |-> b]
Branch(t, f) == [to |-> "branch", yes |-> t, no |-> f]
Switch(arms, default) == [to |-> "switch", arms |-> arms, default |-> default]
Return == [to |-> "return"]

Empty == [code |-> <<>>, term |-> Open]

ExitBlock == 2

NewBuilder == [blocks |-> <<Empty, Empty>>, current |-> 1, loops |-> <<>>]

\* The number the n-th next new block will have.
NextBlock(b, n) == Len(b.blocks) + n

NewBlocks(b, n) == [b EXCEPT !.blocks = @ \o [i \in 1 .. n |-> Empty]]

SwitchTo(b, block) == [b EXCEPT !.current = block]

IsTerminated(b) == b.blocks[b.current].term # Open

Push(b, inst) ==
    IF IsTerminated(b) THEN b
    ELSE [b EXCEPT !.blocks[b.current].code = Append(@, inst)]

\* Mutant: the last terminator wins.
TerminateAgain(b, term) == [b EXCEPT !.blocks[b.current].term = term]

\* The first terminator wins.
Terminate(b, term) == IF IsTerminated(b) THEN b ELSE [b EXCEPT !.blocks[b.current].term = term]

PushLoop(b, exit) == [b EXCEPT !.loops = Append(@, exit)]

PopLoop(b) == [b EXCEPT !.loops = Front(@)]

-----------------------------------------------------------------------------
(* Instructions that the behaviour of the code shows.                         *)

Do(tag) == [do |-> "op", tag |-> tag]
Ask(tag, i) == [do |-> "ask", tag |-> tag, nth |-> i]   \* a test, to the flag
Save == [do |-> "save"]                                 \* the flag to the slot
Load == [do |-> "load"]                                 \* and back
Poll == [do |-> "poll"]                                 \* GcSafePoint

\* eval_expr and eval_short_circuit of a condition.
Condition(b, c) ==
    IF c.join = "none" THEN Push(b, Ask(c.tag, c.nth))
    ELSE LET rhs == NextBlock(b, 1)
             join == NextBlock(b, 2)
             first == Push(Push(NewBlocks(b, 2), Ask(c.tag, c.nth)), Save)
             split == Terminate(first, IF c.join = "and" THEN Branch(rhs, join) ELSE Branch(join, rhs))
             second == Push(Push(SwitchTo(split, rhs), Ask(c.tag, c.nth + 1)), Save)
         IN  Push(SwitchTo(Terminate(second, Goto(join)), join), Load)

RECURSIVE Lower(_, _)

\* The body, and then to block next unless it has gone elsewhere.
BodyThen(b, body, next) == Terminate(Lower(b, body), Goto(next))

LoopBody(b, body, exit) == PopLoop(Lower(PushLoop(b, exit), body))

\* An ELSE part in the active block; without one, the exception, if any.
ElsePart(b, else, next, exception) ==
    IF else # <<>> THEN BodyThen(b, else[1], next)
    ELSE IF IsTerminated(b) THEN b
    ELSE Push(b, [do |-> "raise", number |-> exception])

LowerIf(b, s) ==
    LET join == NextBlock(b, 1)
        Arm(c, i) ==
            LET last == i = Len(s.arms)
                then == NextBlock(c, 1)
                false == IF last /\ s.else = <<>> THEN join ELSE NextBlock(c, 2)
                blocks == NewBlocks(c, IF false = join THEN 1 ELSE 2)
                test == Terminate(Condition(blocks, s.arms[i].cond), Branch(then, false))
            IN  SwitchTo(BodyThen(SwitchTo(test, then), s.arms[i].body, join), false)
        arms == FoldLeftDomain(Arm, NewBlocks(b, 1), s.arms)
    IN  IF s.else = <<>> THEN arms ELSE SwitchTo(BodyThen(arms, s.else[1], join), join)

LowerWhile(b, s) ==
    LET header == NextBlock(b, 1)
        body == NextBlock(b, 2)
        exit == NextBlock(b, 3)
        test == Condition(SwitchTo(Terminate(NewBlocks(b, 3), Goto(header)), header), s.cond)
        loop == LoopBody(SwitchTo(Terminate(test, Branch(body, exit)), body), s.body, exit)
    IN  SwitchTo(Terminate(Push(loop, Poll), Goto(header)), exit)

LowerRepeat(b, s) ==
    LET body == NextBlock(b, 1)
        exit == NextBlock(b, 2)
        loop == LoopBody(SwitchTo(Terminate(NewBlocks(b, 2), Goto(body)), body), s.body, exit)
        test == IF IsTerminated(loop) THEN loop
                ELSE Terminate(Condition(loop, s.cond), Branch(exit, body))
    IN  SwitchTo(test, exit)

LowerLoop(b, s) ==
    LET body == NextBlock(b, 1)
        exit == NextBlock(b, 2)
        loop == LoopBody(SwitchTo(Terminate(NewBlocks(b, 2), Goto(body)), body), s.body, exit)
    IN  SwitchTo(Terminate(Push(loop, Poll), Goto(body)), exit)

LowerFor(b, s) ==
    LET header == NextBlock(b, 1)
        body == NextBlock(b, 2)
        step == NextBlock(b, 3)
        exit == NextBlock(b, 4)
        start == Terminate(Push(NewBlocks(b, 4), [do |-> "start", loop |-> s.loop]), Goto(header))
        test == Push(SwitchTo(start, header), [do |-> "enters", loop |-> s.loop])
        loop == LoopBody(SwitchTo(Terminate(test, Branch(body, exit)), body), s.body, exit)
        fits == Push(SwitchTo(Terminate(loop, Goto(step)), step), [do |-> "fits", loop |-> s.loop])
        advance == NextBlock(fits, 1)
        last == SwitchTo(Terminate(NewBlocks(fits, 1), Branch(advance, exit)), advance)
    IN  SwitchTo(Terminate(Push(last, [do |-> "advance", loop |-> s.loop]), Goto(header)), exit)

\* The bodies of the arms of CASE and GUARD, in blocks made before; after is
\* what an arm that falls through still does.
ArmBodies(b, arms, block(_), after(_, _), join) ==
    FoldLeftDomain(LAMBDA c, i :
        Terminate(after(Lower(SwitchTo(c, block(i)), arms[i].body), i), Goto(join)), b, arms)

\* Ranges are tested one by one, then comes the switch on the single labels.
\* A label has a lowest and a highest value; with one value it is a single one.
LowerCase(b, s) ==
    LET join == NextBlock(b, 1)
        default == NextBlock(b, 2)
        Block(i) == default + i
        labels == FlattenSeq([i \in DOMAIN s.arms |->
                     [j \in DOMAIN s.arms[i].labels |-> [of |-> s.arms[i].labels[j], arm |-> Block(i)]]])
        Try(c, l) ==
            LET next == NextBlock(c, 1)
                test == Push(NewBlocks(c, 1), [do |-> "range", label |-> l.of])
            IN  SwitchTo(Terminate(test, Branch(l.arm, next)), next)
        pick == NewBlocks(Push(b, [do |-> "pick", tag |-> s.tag]), 2 + Len(s.arms))
        ranges == FoldLeft(Try, pick, SelectSeq(labels, LAMBDA l : l.of.lo # l.of.hi))
        singles == SelectSeq(labels, LAMBDA l : l.of.lo = l.of.hi)
        tests == Terminate(ranges, Switch(singles, default))
        bodies == ArmBodies(tests, s.arms, Block, LAMBDA c, i : c, join)
    IN  SwitchTo(ElsePart(SwitchTo(bodies, default), s.else, join, "case"), join)

\* The tests of a GUARD, one by one, each in the block the one before leaves to.
LowerGuard(b, s) ==
    LET join == NextBlock(b, 1)
        default == NextBlock(b, 2)
        Block(i) == default + i
        Test(c, i) ==
            LET next == IF i = Len(s.arms) THEN default ELSE NextBlock(c, 1)
                isa == NewBlocks(Push(c, Ask(s.tag, i)), IF next = default THEN 0 ELSE 1)
            IN  SwitchTo(Terminate(isa, Branch(Block(i), next)), next)
        tests == FoldLeftDomain(Test, NewBlocks(b, 2 + Len(s.arms)), s.arms)
        bodies == ArmBodies(tests, s.arms, Block, LAMBDA c, i : c, join)
    IN  SwitchTo(ElsePart(SwitchTo(bodies, default), s.else, join, "guard"), join)

Release(tag, i) == [do |-> "release", slot |-> <<tag, i>>]

\* An arm that does not match releases what its query may have left behind.
\* Mutant: it goes on to the next test without.
NoMatchLeaks(c, tag, i, after) == Terminate(c, Goto(after))

NoMatch(c, tag, i, after) == Terminate(Push(c, Release(tag, i)), Goto(after))

\* On an interface: QueryInterface instead of the class test.
LowerGuardIface(b, s) ==
    LET join == NextBlock(b, 1)
        default == NextBlock(b, 2)
        Block(i) == default + i
        Test(c, i) ==
            LET query == Push(c, [do |-> "query", tag |-> s.tag, nth |-> i, slot |-> <<s.tag, i>>])
                last == i = Len(s.arms)
                after == IF last THEN default ELSE NextBlock(c, 1)
                nomatch == NextBlock(c, IF last THEN 1 ELSE 2)
                split == Terminate(NewBlocks(query, IF last THEN 1 ELSE 2), Branch(Block(i), nomatch))
            IN  SwitchTo(NoMatch(SwitchTo(split, nomatch), s.tag, i, after), after)
        tests == FoldLeftDomain(Test, NewBlocks(b, 2 + Len(s.arms)), s.arms)
        bodies == ArmBodies(tests, s.arms, Block, LAMBDA c, i : Push(c, Release(s.tag, i)), join)
    IN  SwitchTo(ElsePart(SwitchTo(bodies, default), s.else, join, "guard"), join)

\* What comes after HALT is not reached, but gets a block.
LowerHalt(b) ==
    LET halt == Push(b, [do |-> "halt"]) IN SwitchTo(NewBlocks(halt, 1), NextBlock(halt, 1))

LowerAssert(b, s) ==
    LET test == Condition(b, s.cond)
        fail == NextBlock(test, 1)
        cont == NextBlock(test, 2)
        split == SwitchTo(Terminate(NewBlocks(test, 2), Branch(cont, fail)), fail)
    IN  SwitchTo(Push(split, [do |-> "fail"]), cont)

\* Mutant: an EXIT leaves the outermost loop.
LowerExitOutermost(b) == IF b.loops = <<>> THEN b ELSE Terminate(b, Goto(Head(b.loops)))

\* EXIT leaves the innermost loop, of whatever kind.
LowerExit(b) == IF b.loops = <<>> THEN b ELSE Terminate(b, Goto(Last(b.loops)))

LowerStmt(b, s) ==
    CASE s.kind = "op" -> Push(b, Do(s.tag))
      [] s.kind = "exit" -> LowerExit(b)
      [] s.kind = "return" -> Terminate(b, Return)
      [] s.kind = "halt" -> LowerHalt(b)
      [] s.kind = "assert" -> LowerAssert(b, s)
      [] s.kind = "if" -> LowerIf(b, s)
      [] s.kind = "while" -> LowerWhile(b, s)
      [] s.kind = "repeat" -> LowerRepeat(b, s)
      [] s.kind = "loop" -> LowerLoop(b, s)
      [] s.kind = "for" -> LowerFor(b, s)
      [] s.kind = "case" -> LowerCase(b, s)
      [] s.kind = "guard" -> LowerGuard(b, s)
      [] s.kind = "iguard" -> LowerGuardIface(b, s)
      [] s.kind = "with" -> Lower(Push(b, Do(s.tag)), s.body)

\* lower_stmts: what follows an EXIT or a RETURN is dropped.
Lower(b, stmts) ==
    IF IsTerminated(b) THEN b
    ELSE FoldLeft(LAMBDA c, s : IF IsTerminated(c) THEN c ELSE LowerStmt(c, s), b, stmts)

\* finish: in a proper procedure the blocks left open return.
FinishBlocks(b, isFunction) ==
    [i \in DOMAIN b.blocks |->
        IF b.blocks[i].term = Open /\ ~isFunction
        THEN [b.blocks[i] EXCEPT !.term = Return] ELSE b.blocks[i]]

Compile(stmts, isFunction) ==
    FinishBlocks(Terminate(Lower(NewBuilder, stmts), Goto(ExitBlock)), isFunction)

-----------------------------------------------------------------------------
(* analyze.rs: what a procedure has to fulfil.                                *)

Conditional == {"if", "case", "guard", "iguard"}
Repeating == {"while", "repeat", "for", "loop"}

\* The bodies within a statement.
Parts(s) ==
    IF s.kind \in Conditional THEN {s.arms[i].body : i \in DOMAIN s.arms} \cup ToSet(s.else)
    ELSE IF s.kind \in Repeating \cup {"with"} THEN {s.body}
    ELSE {}

\* An EXIT among the statements that belongs to the LOOP around them.
RECURSIVE LoopHasExit(_)
LoopHasExit(stmts) ==
    \E s \in ToSet(stmts) :
        \/ s.kind = "exit"
        \/ s.kind # "loop" /\ \E p \in Parts(s) : LoopHasExit(p)

RECURSIVE SeqCompletes(_)

\* Mutant: an IF completes only by one of its arms.
StmtCompletesByArm(s) ==
    CASE s.kind \in {"exit", "return", "halt"} -> FALSE
      [] s.kind \in Conditional \cup {"with"} -> \E p \in Parts(s) : SeqCompletes(p)
      [] s.kind = "loop" -> LoopHasExit(s.body)
      [] OTHER -> TRUE

\* Can control reach the end of the statement?
StmtCompletes(s) ==
    CASE s.kind \in {"exit", "return", "halt"} -> FALSE
      [] s.kind \in Conditional \cup {"with"} ->
            \/ s.kind = "if" /\ s.else = <<>>
            \/ \E p \in Parts(s) : SeqCompletes(p)
      [] s.kind = "loop" -> LoopHasExit(s.body)
      [] OTHER -> TRUE

SeqCompletes(stmts) == \A s \in ToSet(stmts) : StmtCompletes(s)

\* A RETURN, or an EXIT of a loop outside, in an arm that holds a reference.
RECURSIVE NonlocalExit(_, _)
NonlocalExit(stmts, inLoop) ==
    \E s \in ToSet(stmts) :
        \/ s.kind = "return"
        \/ s.kind = "exit" /\ ~inLoop
        \/ \E p \in Parts(s) : NonlocalExit(p, inLoop \/ s.kind \in Repeating)

RECURSIVE ArmsFallThrough(_)
ArmsFallThrough(stmts) ==
    \A s \in ToSet(stmts) :
        /\ s.kind = "iguard" => \A i \in DOMAIN s.arms : ~NonlocalExit(s.arms[i].body, FALSE)
        /\ \A p \in Parts(s) : ArmsFallThrough(p)

Accepted(stmts, isFunction) ==
    /\ isFunction => ~SeqCompletes(stmts)
    /\ ArmsFallThrough(stmts)
=============================================================================
