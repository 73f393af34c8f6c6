------------------------------ MODULE ForLoop -------------------------------
(***************************************************************************)
(* The blocks lower_for emits for FOR v := start TO end BY step, run one   *)
(* by one: the header tests, the body runs, the step block tests whether   *)
(* another step fits, and only then is the variable advanced.  Next to     *)
(* them runs what the loop means: due is the value the variable takes      *)
(* next, a number of any size.  The body leaves the variable alone.        *)
(***************************************************************************)
EXTENDS Ordinals

CONSTANT Loops

ASSUME LoopsAssumption ==
    \A f \in Loops :
        /\ f.ty \in Types /\ f.typed \in BOOLEAN
        /\ f.start \in Values(f.ty) /\ f.end \in Values(f.ty)
        /\ f.step \in Int /\ f.step # 0

VARIABLES loop, control, place, due

forVars == <<loop, control, place, due>>

(* The blocks of the loop, and a control variable of its type.                *)
TypeOKFor ==
    /\ loop \in Loops
    /\ control \in [bits : 0 .. (Size(loop.ty) - 1), size : {Size(loop.ty)}]
    /\ place \in {"cond", "body", "step", "advance", "exit"}
    /\ due \in Int

ForInit ==
    /\ loop \in Loops
    /\ control = StartRegister(loop)
    /\ place = "cond"
    /\ due = loop.start

Header ==
    /\ place = "cond"
    /\ place' = IF Enters(loop, control) THEN "body" ELSE "exit"
    /\ UNCHANGED <<loop, control, due>>

\* The body has seen the value that was due.
Body ==
    /\ place = "body"
    /\ place' = "step"
    /\ due' = due + loop.step
    /\ UNCHANGED <<loop, control>>

StepTest ==
    /\ place = "step"
    /\ place' = IF Fits(loop, control) THEN "advance" ELSE "exit"
    /\ UNCHANGED <<loop, control, due>>

Advance ==
    /\ place = "advance"
    /\ control' = Advanced(loop, control)
    /\ place' = "cond"
    /\ UNCHANGED <<loop, due>>

ForNext == Header \/ Body \/ StepTest \/ Advance

ForSpec == ForInit /\ [][ForNext]_forVars

-----------------------------------------------------------------------------

\* n can be compared as codegen compares: extended with zeros to the size of
\* the wider operand, and then taken as a signed number.
ComparesRight(f, n) ==
    CASE f.ty = "INTEGER" -> TRUE
      [] f.ty = "CARDINAL" -> n < Wide \div 2
      [] f.ty = "INTEGER8" -> f.typed \/ n >= 0
      [] f.ty = "CARDINAL8" -> ~f.typed \/ n < Narrow \div 2

\* The distance of the bounds and the step can be subtracted without overflow.
DistanceFits(f) ==
    /\ Magnitude(f.end - f.start) < Wide \div 2
    /\ Magnitude(f.step) < Wide \div 2

Ordinary(f) ==
    ComparesRight(f, f.start) /\ ComparesRight(f, f.end) /\ DistanceFits(f)

(* The body runs with exactly the values the loop means, in order: it never   *)
(* sees another one, and the loop ends only when none is due.  It neither     *)
(* repeats nor misses one at the ends of the type, where end - cur or         *)
(* cur + step could wrap (lower_for's step block).  Not so for a loop that is *)
(* not Ordinary: there codegen compares numbers the registers do not hold.    *)
EveryValueOnce ==
    Ordinary(loop) =>
        /\ place = "body" => Number(control, loop.ty) = due /\ Within(loop, due)
        /\ place = "exit" => ~Within(loop, due)
=============================================================================
