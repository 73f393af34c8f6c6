----------------------------- MODULE MCProtected -----------------------------
(***************************************************************************)
(* Instances of Protected for TLC.                                         *)
(***************************************************************************)
EXTENDS Protected, TLC

CONSTANTS e1, e2

ExceptionSymmetry == Permutations(Exceptions)
=============================================================================
