------------------------------ MODULE Branches -------------------------------
(***************************************************************************)
(* A text with conditions is preprocessed piece by piece, and what that    *)
(* should choose, seen over the text as a whole.                           *)
(***************************************************************************)
EXTENDS Levels, Integers, FiniteSets

CONSTANTS
    TextPieces,     \* what a text is made of
    Predefined,     \* the predefined symbols
    Named           \* what pragmas can define

ASSUME NamedAssumption == \A piece \in TextPieces : Introduces(piece) \subseteq Named

VARIABLES
    pieces,     \* the text up to where the preprocessor is
    pass        \* its state

branchVars == <<pieces, pass>>

BranchesInit == pieces = <<>> /\ pass = Preproc(Predefined)

ReadPiece(piece) ==
    /\ pass.ok
    /\ pieces' = Append(pieces, piece)
    /\ pass' = PieceStep(pass, Len(pieces) + 1, piece)

BranchesNext == \E piece \in TextPieces : ReadPiece(piece)

BranchesSpec == BranchesInit /\ [][BranchesNext]_branchVars

-----------------------------------------------------------------------------
(* The text as a whole.                                                    *)

Before(i, kind) == {k \in 1..(i - 1) : pieces[k].kind = kind}

\* How many %IFs there are around the place i.
Depth(i) == Cardinality(Before(i, "%IF")) - Cardinality(Before(i, "%END"))

\* The place i is between the %IF at o and its %END.
Encloses(o, i) ==
    /\ o \in 1..(i - 1)
    /\ pieces[o].kind = "%IF"
    /\ \A k \in (o + 1)..i : Depth(k) > Depth(o)

\* The heads of the arms of the %IF at o up to i.
Heads(o, i) ==
    {o} \cup {j \in (o + 1)..(i - 1) : pieces[j].kind \in {"%ELSIF", "%ELSE"} /\ Depth(j) = Depth(o) + 1}

VersionsAt(i) == UNION {Introduces(pieces[k]) : k \in {j \in pass.kept : j < i}}

IsTrue(j) == pieces[j].kind = "%ELSE" \/ Satisfied(Predefined, VersionsAt(j), pieces[j].below)

\* The last of the heads, and no other, is true.
LastIsFirst(heads) == \A j \in heads : IsTrue(j) <=> \A k \in heads : k <= j

\* Every arm that i is in is the first of its %IF with a condition that holds.
OnChosenPath(i) == \A o \in 1..(i - 1) : Encloses(o, i) => LastIsFirst(Heads(o, i))

\* A directive in its place, with a condition that can be read.
InPlace(i) ==
    /\ pieces[i].kind \in Directives \ {"%IF"} => Depth(i) > 0
    /\ pieces[i].kind \in {"%IF", "%ELSIF"} => Legible(pieces[i].below)

-----------------------------------------------------------------------------

LevelSet == [parentActive : BOOLEAN, anyTaken : BOOLEAN, currentTake : BOOLEAN]

TypeOKBranches ==
    /\ pieces \in Seq(TextPieces)
    /\ pass \in [env : {Predefined}, versions : SUBSET Named,
                 stack : Seq(LevelSet), kept : SUBSET DOMAIN pieces, ok : BOOLEAN]

(* Of a text with conditions the preprocessor passes on what the conditions   *)
(* choose: of each IF the first branch that holds, or its ELSE, and of a      *)
(* branch that is not chosen nothing, nested IFs and the versions that are    *)
(* defined on the way included (preprocess.rs, handle_directive).  It reports *)
(* an error exactly when an ELSIF, ELSE or END has no IF, or a condition can- *)
(* not be read, and sees at the end whether an IF has no END.                 *)
BranchesChosen ==
    /\ pass.ok <=> \A i \in DOMAIN pieces : InPlace(i)
    /\ pass.ok =>
        /\ pass.kept = {i \in DOMAIN pieces : pieces[i].kind \notin Directives /\ OnChosenPath(i)}
        /\ pass.stack = <<>> <=> Depth(Len(pieces) + 1) = 0
=============================================================================
