----------------------------- MODULE MCHeapGuard -----------------------------
(***************************************************************************)
(* Instances of HeapGuard for TLC.  A behaviour shows one of two scenes:   *)
(* two threads that dispose only of what they own ("race"), or one thread  *)
(* that also makes the mistakes the guard is for ("stale").                *)
(***************************************************************************)
EXTENDS HeapGuard, TLC

CONSTANTS t1, t2, p1, p2, p3, p4

VARIABLE scene

TwoThreads == {t1, t2}
FourPtrs == {p1, p2, p3, p4}

\* Two slots per pointer; three share slot 2, p2 and p3 share both, and p4 shares
\* one with p1 and the other with p2 and p3.
HashPair == (p1 :> <<1, 2>>) @@ (p2 :> <<2, 3>>) @@ (p3 :> <<3, 2>>) @@ (p4 :> <<1, 3>>)

mcVars == <<vars, scene>>

MCInit == Init /\ scene \in {"race", "stale"}

MCNext ==
    /\ Next
    /\ scene = "race" => stale' = 0
    /\ scene = "stale" => \A t \in Threads \ {t1} : pc'[t] = Idle
    /\ UNCHANGED scene

MCFairSpec ==
    /\ MCInit /\ [][MCNext]_mcVars
    /\ \A t \in Threads : WF_vars(Inside(t))
=============================================================================
