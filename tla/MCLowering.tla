----------------------------- MODULE MCLowering -----------------------------
(***************************************************************************)
(* Instances of Semantics, ForLoop and Arithmetic for TLC: procedures with *)
(* a statement within a statement and one after it, all FOR loops and all  *)
(* expressions of one operator, over small registers.  MCCompile runs      *)
(* them; what a behaviour does not run is idle.                            *)
(***************************************************************************)
EXTENDS Semantics, ForLoop, Arithmetic, TLC

CONSTANT ValueLimit     \* bound: a FOR loop's values

-----------------------------------------------------------------------------

Op(tag) == [kind |-> "op", tag |-> tag]
Cond(tag, join) == [tag |-> tag, join |-> join, nth |-> 1]

Downward == [ty |-> "INTEGER8", typed |-> TRUE, start |-> 1, end |-> -2, step |-> -2]

Short == [none |-> <<>>,
          op |-> <<Op("x")>>,
          exit |-> <<[kind |-> "exit"]>>,
          return |-> <<[kind |-> "return"]>>,
          halt |-> <<[kind |-> "halt"]>>,
          ops |-> <<Op("x"), [kind |-> "exit"], Op("y")>>]

\* Statements with body p, and with a second body q.
Single(tag, p) ==
    [if |-> [kind |-> "if", arms |-> <<[cond |-> Cond(tag, "none"), body |-> p]>>, else |-> <<>>],
     ifAnd |-> [kind |-> "if", arms |-> <<[cond |-> Cond(tag, "and"), body |-> p]>>, else |-> <<>>],
     while |-> [kind |-> "while", cond |-> Cond(tag, "or"), body |-> p],
     repeat |-> [kind |-> "repeat", cond |-> Cond(tag, "none"), body |-> p],
     loop |-> [kind |-> "loop", body |-> p],
     for |-> [kind |-> "for", loop |-> Downward, body |-> p],
     with |-> [kind |-> "with", tag |-> tag, body |-> p]]

Guarded(kind, tag, arms, else) ==
    [kind |-> kind, tag |-> tag, else |-> else, arms |-> [i \in DOMAIN arms |-> [body |-> arms[i]]]]

Double(tag, p, q) ==
    [ifElse |-> [kind |-> "if", arms |-> <<[cond |-> Cond(tag, "none"), body |-> p]>>, else |-> <<q>>],
     elsif |-> [kind |-> "if", else |-> <<>>,
                arms |-> <<[cond |-> Cond(tag, "or"), body |-> p],
                           [cond |-> [tag |-> tag, join |-> "and", nth |-> 3], body |-> q]>>],
     case |-> [kind |-> "case", tag |-> tag, ty |-> "INTEGER", else |-> <<>>,
               arms |-> <<[labels |-> <<[lo |-> 2, hi |-> 4], [lo |-> -1, hi |-> -1]>>, body |-> p],
                          [labels |-> <<[lo |-> 0, hi |-> 0], [lo |-> -5, hi |-> -3]>>, body |-> q]>>],
     caseElse |-> [kind |-> "case", tag |-> tag, ty |-> "INTEGER8", else |-> <<q>>,
                   arms |-> <<[labels |-> <<[lo |-> -1, hi |-> -1]>>, body |-> p]>>],
     guard |-> Guarded("guard", tag, <<p, q>>, <<>>),
     guardElse |-> Guarded("guard", tag, <<p>>, <<q>>),
     iguard |-> Guarded("iguard", tag, <<p, q>>, <<>>),
     iguardElse |-> Guarded("iguard", tag, <<p>>, <<q>>)]

Inner(n) == (Single("inner", Short[n.first]) @@ Double("inner", Short[n.first], Short[n.second]))[n.inner]

Outer(n) ==
    LET p == <<Inner(n), Op("z")>>
    IN  (Single("outer", p) @@ Double("outer", p, <<Op("v")>>))[n.outer]

Singles == DOMAIN Single("", <<>>)
Doubles == DOMAIN Double("", <<>>, <<>>)

\* A procedure has the shape of its statements; with outer = "none" there is no
\* statement around the inner one.
Shapes ==
    {n \in [outer : ((Singles \cup Doubles) \ {"ifAnd", "with"}) \cup {"none"},
            inner : Singles \cup Doubles,
            first : DOMAIN Short, second : {"none", "exit", "return", "op"}, isFunction : BOOLEAN] :
        n.inner \in Singles => n.second = "none"}

ProcedureBody(n) ==
    IF n.outer = "none" THEN <<Inner(n)>>
    ELSE IF n.isFunction THEN <<Outer(n)>>
    ELSE <<Outer(n), [kind |-> "assert", cond |-> Cond("assert", "and")]>>

MCProcedures == {[body |-> ProcedureBody(n), isFunction |-> n.isFunction] : n \in Shapes}

-----------------------------------------------------------------------------

\* All loops of all types.
MCLoops ==
    {f \in [ty : Types, typed : BOOLEAN, start : -8 .. 15, end : -8 .. 15, step : {-5, -2, -1, 1, 2, 5, 7}] :
        {f.start, f.end} \subseteq Values(f.ty)}

\* All operands: variables of all types, and constants.
MCOperands ==
    {x \in [const : BOOLEAN, ty : Types, value : -8 .. 15] :
        IF x.const THEN x.ty = "INTEGER" ELSE x.value \in Values(x.ty)}

ProcedureIdle ==
    /\ proc = [isFunction |-> FALSE, exits |-> {}]
    /\ blocks = Compile(<<>>, FALSE) /\ rest = <<>> /\ turn = 0
    /\ block = 1 /\ at = 1 /\ flag = FALSE /\ slot = FALSE
    /\ number = Zero /\ counter = Zero /\ held = {} /\ refs = 0 /\ ended = TRUE

ForIdle == loop = Downward /\ control = StartRegister(loop) /\ place = "exit" /\ due = -3

SumIdle == expr = [op |-> "+", l |-> [const |-> TRUE, ty |-> "INTEGER", value |-> 0],
                              r |-> [const |-> TRUE, ty |-> "INTEGER", value |-> 0]]

For == ForNext /\ Magnitude(due') <= ValueLimit
=============================================================================
