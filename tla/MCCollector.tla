----------------------------- MODULE MCCollector -----------------------------
(***************************************************************************)
(* Instances of GcCluster and of Coroutine for TLC: what a collection does *)
(* to the heap, and what it sees of the stacks.  A behaviour shows one of  *)
(* two scenes: a program works on a cluster ("cluster"), or on coroutines  *)
(* ("coroutines").  What does not belong to the scene stays as it is.      *)
(***************************************************************************)
EXTENDS GcCluster, Coroutine, TLC

CONSTANTS node, pair, w1, w2, r1, b0, b1, b2, o1, o2

VARIABLE scene

mcVars == <<clusterVars, vars, scene>>

\* Blocks of two and three units: reusing three for two leaves one.
MixedTotal == (node :> 2) @@ (pair :> 3)
\* Blocks of three and four units: reusing four for three leaves one.
OddTotal == (node :> 3) @@ (pair :> 4)
\* A node points to another object, a pair does not.
OneField == (node :> {1}) @@ (pair :> {})

WordSymmetry == Permutations(Words)

MCInit == ClusterInit /\ Init /\ scene \in {"cluster", "coroutines"}

\* Nothing is said of a cluster with a gap: the scene ends there.
OnCluster == scene = "cluster" /\ ~gapped /\ ClusterNext /\ UNCHANGED <<vars, scene>>

\* ... but for the run that shows what becomes of it.
OnGapped == scene = "cluster" /\ ClusterNext /\ UNCHANGED <<vars, scene>>

OnCoroutines == scene = "coroutines" /\ Next /\ UNCHANGED <<clusterVars, scene>>

MCNext == OnCluster \/ OnCoroutines

MCSpec == MCInit /\ [][MCNext]_mcVars

GapSpec == MCInit /\ [][OnGapped]_mcVars

(* The shapes of both scenes' state.                                          *)
SceneTypes == TypeOKCluster /\ TypeOK
=============================================================================
