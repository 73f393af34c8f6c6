------------------------------- MODULE Levels --------------------------------
(***************************************************************************)
(* The pass of the preprocessor over a text with conditions                *)
(* (newm2-lexer/src/preprocess.rs): a stack of levels, one for each %IF    *)
(* without its %END yet, decides what is passed on.  A text is a sequence  *)
(* of pieces: directives, and pragmas, comments and anything else.  How a  *)
(* condition is read and what pragmas name is Preprocess's.                *)
(***************************************************************************)
EXTENDS Naturals, Sequences

CONSTANTS
    Legible(_),         \* can a condition be read
    Satisfied(_, _, _), \* does it hold: the environment, the versions, the condition
    Introduces(_)       \* the versions that the pragmas of a piece name

Directives == {"%IF", "%ELSIF", "%ELSE", "%END"}

\* A level is one %IF ... %END.
NewLevel(active) == [parentActive |-> active, anyTaken |-> FALSE, currentTake |-> FALSE]

\* Versions are what env.define_bool has added to the environment, kept are the
\* places of the pieces that are not blanked.
Preproc(env) ==
    [env |-> env, versions |-> {}, stack |-> <<>>, kept |-> {}, ok |-> TRUE]

Active(p) == \A i \in DOMAIN p.stack : p.stack[i].currentTake

\* Mutant: a level forgets that it has taken an arm.
ArmAgain(level, wanted) ==
    LET take == level.parentActive /\ wanted
    IN  [level EXCEPT !.currentTake = take, !.anyTaken = @ \/ take]

\* At most one arm of a level is taken.
NextArm(level, wanted) ==
    LET take == level.parentActive /\ ~level.anyTaken /\ wanted
    IN  [level EXCEPT !.currentTake = take, !.anyTaken = @ \/ take]

Spoiled(p) == [p EXCEPT !.ok = FALSE]

Wanted(p, d) == d.kind = "%ELSE" \/ Satisfied(p.env, p.versions, d.below)

HandleDirective(p, d) ==
    CASE d.kind \in {"%IF", "%ELSIF"} /\ ~Legible(d.below) -> Spoiled(p)
      [] d.kind # "%IF" /\ p.stack = <<>> -> Spoiled(p)
      [] d.kind = "%IF" /\ Legible(d.below) ->
            [p EXCEPT !.stack = Append(@, NextArm(NewLevel(Active(p)), Wanted(p, d)))]
      [] d.kind = "%END" /\ p.stack # <<>> -> [p EXCEPT !.stack = SubSeq(@, 1, Len(@) - 1)]
      [] OTHER -> [p EXCEPT !.stack[Len(p.stack)] = NextArm(@, Wanted(p, d))]

\* The pragmas of what is passed on count as defined from there on.
Emit(p, place, piece) ==
    IF Active(p)
    THEN [p EXCEPT !.versions = @ \cup Introduces(piece), !.kept = @ \cup {place}]
    ELSE p

\* An error ends the pass.
PieceStep(p, place, piece) ==
    CASE ~p.ok -> p
      [] p.ok /\ piece.kind \in Directives -> HandleDirective(p, piece)
      [] p.ok /\ piece.kind \notin Directives -> Emit(p, place, piece)
=============================================================================
