---------------------------- MODULE MCGcSafepoint ----------------------------
(***************************************************************************)
(* Instances of GcSafepoint for TLC.  A behaviour shows one of two scenes: *)
(* of three threads the first alone collects ("one collector"), or the     *)
(* first two collect, at the same time too, and the third stays out        *)
(* ("two collectors").                                                     *)
(***************************************************************************)
EXTENDS GcSafepoint

CONSTANTS t1, t2, t3

VARIABLE scene

mcVars == <<vars, scene>>

MCInit == Init /\ scene \in {"one collector", "two collectors"}

\* What a thread may do of its own accord in the scene.
InScene(t) ==
    IF scene = "one collector" THEN pc'[t] = "snapshot" => t = t1 ELSE t # t3

MCNext ==
    /\ \E t \in Threads : Runtime(t) \/ (Mutator(t) /\ InScene(t))
    /\ UNCHANGED scene

MCSpec == MCInit /\ [][MCNext]_mcVars

MCFairSpec == MCSpec /\ \A t \in Threads : WF_vars(Runtime(t))
=============================================================================
