----------------------------- MODULE Semantics ------------------------------
(***************************************************************************)
(* A procedure's statements and the blocks Lowering makes of them, run     *)
(* side by side.  Each side goes on by itself until it shows something: an *)
(* operation, a test, a query, a poll, its end.  There they have to agree, *)
(* and what the test finds is the same for both.                           *)
(*                                                                         *)
(* What the statements mean is the language's: it is not taken from        *)
(* lower.rs.  A loop that goes round has a poll on the way, as lower.rs:11 *)
(* and inst.rs:189 say of every back-edge.  FOR loops are those of         *)
(* Ordinals, and are not nested.                                           *)
(***************************************************************************)
EXTENDS Lowering, Ordinals, FiniteSets

CONSTANT Procedures     \* records of a body and whether it is a function

VARIABLES
    proc,       \* what is known of the procedure that runs
    blocks,       \* its blocks
    rest,       \* source: the statements still to be done
    turn,       \* source: the next value of the FOR variable
    block, at,  \* the next instruction of the code
    flag,       \* code: the last test
    slot,       \* code: the memory of a short-circuit operator
    number,     \* code: the register a CASE looks at
    counter,    \* code: the FOR variable
    held,       \* code: the QueryInterface slots that are not NIL
    refs,       \* references that queries gave and no release took back
    ended

sourceVars == <<rest, turn>>
memory == <<slot, number, counter>>
semVars == <<proc, blocks, sourceVars, block, at, flag, memory, held, refs, ended>>

\* The loops nearest to the EXITs in stmts that are in a LOOP, and "none" for
\* one that is not.
RECURSIVE ExitsFrom(_, _)
ExitsFrom(stmts, around) ==
    LET Nearest(s) == IF s.kind = "loop" \/ (s.kind \in Repeating /\ around # "none")
                       THEN s.kind ELSE around
    IN  UNION {IF s.kind = "exit" THEN {around}
               ELSE UNION {ExitsFrom(p, Nearest(s)) : p \in Parts(s)} : s \in ToSet(stmts)}

SemInit ==
    /\ \E p \in Procedures :
          /\ Accepted(p.body, p.isFunction)
          /\ proc = [isFunction |-> p.isFunction, exits |-> ExitsFrom(p.body, "none")]
          /\ rest = p.body
          /\ blocks = Compile(p.body, p.isFunction)
    /\ turn = 0
    /\ block = 1 /\ at = 1
    /\ flag = FALSE /\ slot = FALSE /\ number = Zero /\ counter = Zero
    /\ held = {} /\ refs = 0
    /\ ended = FALSE

-----------------------------------------------------------------------------
(* The meaning of statements.  Unfolding one puts simpler ones in its place:  *)
(* beside statements there are tests with a body for either answer, marks     *)
(* where a LOOP starts again and where an arm gives its reference back, and   *)
(* the FOR variable's next value.                                             *)

Asking(cond, yes, no) == <<[kind |-> "test", cond |-> cond, yes |-> yes, no |-> no]>>

Mark(kind, s) == <<[kind |-> kind, of |-> s]>>

Arm(s, i) == <<[kind |-> "arm", of |-> s, nth |-> i]>>

Otherwise(s) ==
    IF s.else # <<>> THEN s.else[1]
    ELSE IF s.kind = "if" THEN <<>>
    ELSE <<[kind |-> "raise", number |-> IF s.kind = "case" THEN "case" ELSE "guard"]>>

\* EXIT goes on behind the LOOP it is in; outside of one it means nothing.
BehindLoop(stmts) ==
    LET loops == {i \in DOMAIN stmts : stmts[i].kind = "again"}
    IN  IF loops = {} THEN <<>>
        ELSE SubSeq(stmts, 1 + CHOOSE i \in loops : \A j \in loops : i <= j, Len(stmts))

Atom(s, i) == [join |-> "none", tag |-> s.tag, nth |-> i]

\* What comes of the first statement of rest, when it shows nothing.
Unfolded(s) ==
    CASE s.kind = "if" -> Arm(s, 1)
      [] s.kind = "guard" -> Arm(s, 1)
      [] s.kind = "iguard" -> Arm(s, 1)
      [] s.kind = "arm" ->
            IF s.nth > Len(s.of.arms) THEN Otherwise(s.of)
            ELSE Asking(IF s.of.kind = "if" THEN s.of.arms[s.nth].cond ELSE Atom(s.of, s.nth),
                      s.of.arms[s.nth].body, Arm(s.of, s.nth + 1))
      [] s.kind = "while" -> Asking(s.cond, s.body \o Mark("poll", s) \o <<s>>, <<>>)
      [] s.kind = "repeat" -> s.body \o Asking(s.cond, <<>>, Mark("poll", s) \o <<s>>)
      [] s.kind = "loop" -> s.body \o Mark("again", s)
      [] s.kind = "assert" -> Asking(s.cond, <<>>, <<[kind |-> "fail"]>>)
      [] s.kind = "for" -> Mark("next", s)
      [] s.kind = "next" -> IF Within(s.of.loop, turn) THEN s.of.body \o Mark("step", s.of) ELSE <<>>
      [] s.kind = "step" ->
            IF Within(s.of.loop, turn + s.of.loop.step) THEN Mark("poll", s.of) \o Mark("next", s.of)
            ELSE <<>>
      [] s.kind = "leave" -> <<>>

IsQuery(s) == s.kind = "arm" /\ s.of.kind = "iguard" /\ s.nth <= Len(s.of.arms)

Silent == (Conditional \ {"case"}) \cup Repeating
          \cup {"arm", "assert", "next", "step", "leave", "exit"}

SourceWaits ==
    IF ended \/ rest = <<>> THEN TRUE
    ELSE Head(rest).kind \notin Silent \/ IsQuery(Head(rest))

\* What the statements show next.
SourceEvent ==
    IF rest = <<>> THEN [do |-> IF proc.isFunction THEN "off" ELSE "return"]
    ELSE LET s == Head(rest) IN
         CASE s.kind \in {"op", "with"} -> Do(s.tag)
           [] s.kind = "test" -> Ask(s.cond.tag, s.cond.nth)
           [] s.kind = "arm" -> [do |-> "query", tag |-> s.of.tag, nth |-> s.nth,
                                 slot |-> <<s.of.tag, s.nth>>]
           [] s.kind = "case" -> [do |-> "pick", tag |-> s.tag]
           [] s.kind \in {"poll", "again"} -> Poll
           [] s.kind \in {"raise", "return", "halt", "fail"} ->
                IF s.kind = "raise" THEN [do |-> "raise", number |-> s.number] ELSE [do |-> s.kind]

Unfold ==
    /\ ~SourceWaits
    /\ LET s == Head(rest) IN
       /\ rest' = IF s.kind = "exit" THEN BehindLoop(rest) ELSE Unfolded(s) \o Tail(rest)
       /\ turn' = CASE s.kind = "for" -> s.loop.start
                   [] s.kind = "step" -> turn + s.of.loop.step
                   [] OTHER -> turn
    /\ UNCHANGED <<proc, blocks, block, at, flag, memory, held, refs, ended>>

-----------------------------------------------------------------------------
(* Steps of the code that show nothing.                                       *)

Here == blocks[block]

InBlock == at <= Len(Here.code)

Instruction == Here.code[at]

Inst(do) ==
    /\ InBlock /\ Instruction.do = do
    /\ ~ended /\ SourceWaits
    /\ at' = at + 1 /\ UNCHANGED block

ShortCircuit ==
    /\ \/ Inst("save") /\ slot' = flag /\ UNCHANGED flag
       \/ Inst("load") /\ flag' = slot /\ UNCHANGED slot
    /\ UNCHANGED <<proc, blocks, sourceVars, number, counter, held, refs, ended>>

Control ==
    /\ \/ Inst("start") /\ counter' = StartRegister(Instruction.loop) /\ UNCHANGED flag
       \/ Inst("enters") /\ flag' = Enters(Instruction.loop, counter) /\ UNCHANGED counter
       \/ Inst("fits") /\ flag' = Fits(Instruction.loop, counter) /\ UNCHANGED counter
       \/ Inst("advance") /\ counter' = Advanced(Instruction.loop, counter) /\ UNCHANGED flag
    /\ UNCHANGED <<proc, blocks, sourceVars, slot, number, held, refs, ended>>

InRange ==
    /\ Inst("range")
    /\ flag' = LET l == Instruction.label IN
               /\ AtMost(Register(l.lo, Wide), number)
               /\ AtMost(number, Register(l.hi, Wide))
    /\ UNCHANGED <<proc, blocks, sourceVars, memory, held, refs, ended>>

\* nm2_com_release: nothing for a NIL.
ReleaseSlot ==
    /\ Inst("release")
    /\ refs' = IF Instruction.slot \in held THEN refs - 1 ELSE refs
    /\ UNCHANGED <<proc, blocks, sourceVars, flag, memory, held, ended>>

Chosen(term) ==
    LET fit == {i \in DOMAIN term.arms : Register(term.arms[i].of.lo, number.size) = number}
    IN  IF fit = {} THEN term.default ELSE term.arms[CHOOSE i \in fit : TRUE].arm

Jump ==
    /\ ~InBlock /\ Here.term.to \in {"block", "branch", "switch"}
    /\ ~ended /\ SourceWaits
    /\ block' = LET t == Here.term IN
                CASE t.to = "block" -> t.next
                  [] t.to = "branch" -> IF flag THEN t.yes ELSE t.no
                  [] t.to = "switch" -> Chosen(t)
    /\ at' = 1
    /\ UNCHANGED <<proc, blocks, sourceVars, flag, memory, held, refs, ended>>

Quiet == {"save", "load", "start", "enters", "fits", "advance", "range", "release"}

CodeWaits == IF InBlock THEN Instruction.do \notin Quiet ELSE Here.term.to \in {"return", "open"}

\* What the code shows next.
CodeEvent ==
    IF InBlock THEN Instruction
    ELSE [do |-> IF Here.term.to = "open" THEN "off" ELSE "return"]

-----------------------------------------------------------------------------
(* What both show.                                                            *)

Shown(events) ==
    /\ ~ended /\ CodeWaits /\ CodeEvent.do \in events
    /\ SourceWaits /\ SourceEvent = CodeEvent
    /\ UNCHANGED <<proc, blocks, turn>>

Onward == at' = at + 1 /\ UNCHANGED <<block, slot, counter, ended>>

Operation ==
    /\ Shown({"op", "poll"})
    /\ rest' = LET s == Head(rest) IN
               CASE s.kind = "with" -> s.body \o Tail(rest)
                 [] s.kind = "again" -> <<s.of>> \o Tail(rest)
                 [] OTHER -> Tail(rest)
    /\ Onward /\ UNCHANGED <<flag, number, held, refs>>

\* c1 AND c2, c1 OR c2: is there more to ask?
Answered(s, answer) ==
    IF s.cond.join = "none" \/ answer = (s.cond.join = "or")
    THEN IF answer THEN s.yes ELSE s.no
    ELSE Asking([s.cond EXCEPT !.join = "none", !.nth = @ + 1], s.yes, s.no)

Answer ==
    /\ Shown({"ask"})
    /\ flag' \in BOOLEAN
    /\ rest' = Answered(Head(rest), flag') \o Tail(rest)
    /\ Onward /\ UNCHANGED <<number, held, refs>>

Pick ==
    /\ Shown({"pick"})
    /\ LET s == Head(rest) IN
       \E n \in Values(s.ty) :
          LET arms == {i \in DOMAIN s.arms : \E l \in ToSet(s.arms[i].labels) : n \in l.lo .. l.hi}
          IN  /\ number' = Register(n, Size(s.ty))
              /\ rest' = (IF arms = {} THEN Otherwise(s) ELSE s.arms[CHOOSE i \in arms : TRUE].body)
                         \o Tail(rest)
    /\ Onward /\ UNCHANGED <<flag, held, refs>>

\* A query that fails may have left a reference all the same.
Query ==
    /\ Shown({"query"})
    /\ LET s == Head(rest) IN
       \E result \in {"yes", "no", "partial"} :
          /\ flag' = (result = "yes")
          /\ held' = IF result = "no" THEN held \ {Instruction.slot} ELSE held \cup {Instruction.slot}
          /\ refs' = IF result = "no" THEN refs ELSE refs + 1
          /\ rest' = (IF flag' THEN s.of.arms[s.nth].body \o Mark("leave", s.of)
                      ELSE Arm(s.of, s.nth + 1)) \o Tail(rest)
    /\ Onward /\ UNCHANGED number

Stop ==
    /\ Shown({"return", "off", "halt", "fail", "raise"})
    /\ ended' = TRUE
    /\ UNCHANGED <<rest, block, at, flag, memory, held, refs>>

\* The safe point that is due on a back-edge where the code has none: REPEAT's
\* and FOR's.
PollDue == rest # <<>> /\ Head(rest).kind = "poll" /\ Head(rest).of.kind \in {"repeat", "for"}

PassPoll ==
    /\ ~ended /\ CodeWaits /\ PollDue /\ CodeEvent # Poll
    /\ rest' = Tail(rest)
    /\ UNCHANGED <<proc, blocks, turn, block, at, flag, memory, held, refs, ended>>

SemNext ==
    \/ Unfold \/ PassPoll
    \/ ShortCircuit \/ Control \/ InRange \/ ReleaseSlot \/ Jump
    \/ Operation \/ Answer \/ Pick \/ Query \/ Stop

SemSpec == SemInit /\ [][SemNext]_semVars

-----------------------------------------------------------------------------

TypeOKSem ==
    /\ \A i \in DOMAIN rest : rest[i].kind \in STRING
    /\ block \in DOMAIN blocks /\ at \in 1 .. (Len(Here.code) + 1)
    /\ {flag, slot, ended} \subseteq BOOLEAN
    /\ refs \in Nat

\* Every EXIT is in a LOOP, and no other loop is nearer.
ExitsPlain == proc.exits \subseteq {"loop"}

(* The code does what the statements mean: the same operations and tests in   *)
(* the same order, the same way out, for every answer.  (lower_stmts and all  *)
(* it calls, with the builder.)  Where a loop goes round, WHILE and LOOP poll *)
(* and REPEAT and FOR do not, though lower.rs:11 and inst.rs:189 promise it.  *)
(* Nor does it hold for an EXIT that is not directly in a LOOP: see           *)
(* ExitLeavesLoop.                                                            *)
CodeFollowsSource ==
    ExitsPlain /\ ~ended /\ SourceWaits /\ CodeWaits => SourceEvent = CodeEvent \/ PollDue

(* A function that analyze.rs accepts never reaches its end without a RETURN, *)
(* where codegen has no result to give (seq_completes).                       *)
FunctionsReturn ==
    ExitsPlain /\ proc.isFunction /\ ~ended /\ CodeWaits => CodeEvent.do # "off"

(* The code holds one reference for every arm of a GUARD on an interface that *)
(* is being run, and none that a query left behind (lower_guard_iface): no    *)
(* way through the arms leaks one or gives one back twice.                    *)
ReleasedOnce ==
    ExitsPlain /\ ~ended /\ SourceWaits /\ CodeWaits =>
        refs = Len(SelectSeq(rest, LAMBDA s : s.kind = "leave"))

(* The guide: an EXIT leaves the LOOP around it, whatever loop is nearer.     *)
ExitLeavesLoop ==
    "none" \notin proc.exits /\ ~ended /\ SourceWaits /\ CodeWaits =>
        SourceEvent = CodeEvent \/ PollDue
=============================================================================
