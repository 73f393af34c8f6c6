------------------------------- MODULE Loader -------------------------------
(***************************************************************************)
(* The module graph of a compilation (newm2-loader/src/loader.rs): the     *)
(* entry file and the modules the compiler adds as roots, the modules they *)
(* import, found on the search path one after the other, and the order the *)
(* walk of TopoSort puts them in, in which the rest of the compiler takes  *)
(* them and the program runs their bodies.  A file is the set of names it  *)
(* imports.                                                                *)
(***************************************************************************)
EXTENDS TopoSort, SequencesExt

CONSTANTS
    Intrinsic,  \* names the compiler provides without a file
    Roots       \* the roots added for compiler options (Heap for --m2-heap)

ASSUME LoaderAssumption ==
    /\ Intrinsic \subseteq Names /\ Roots \subseteq Names
    /\ IsFiniteSet(Names)

VARIABLES
    entry,      \* the name the entry file declares
    text,       \* text[n]: the names imported by the DEF and the MOD of n,
                \* for each n the search path has a file for
    phase,      \* "roots", "load", "sort", "done" or "failed"
    queue       \* nodes whose imports are not resolved yet

files == <<entry, text>>
loadVars == <<files, phase, queue, sortVars>>

found == DOMAIN text

\* The entry's own file is read first.
LoadInit ==
    /\ \E F \in SUBSET (Names \ Intrinsic) : text \in [F -> SUBSET Names] /\ entry \in F
    /\ phase = "roots"
    /\ nodes = <<entry>>
    /\ queue = <<entry>>
    /\ edges = [n \in Names |-> {}]
    /\ SortInit

InOrder(S) ==
    CHOOSE s \in [1 .. Cardinality(S) -> S] : \A i, j \in DOMAIN s : i < j => s[i] < s[j]

Missing(S) == S \ (found \cup Intrinsic)

\* resolve_or_load for each of a set of names: one that is not in the graph
\* becomes a node and, unless it is intrinsic, waits for its imports.
Resolve(S, waiting) ==
    LET new == S \ Range(nodes)
    IN /\ nodes' = nodes \o InOrder(new)
       /\ queue' = waiting \o InOrder(new \ Intrinsic)

AddRoots ==
    /\ phase = "roots"
    /\ Missing(Roots) = {}
    /\ Resolve(Roots, queue)
    /\ phase' = "load"
    /\ UNCHANGED <<files, edges, walk, visited, order>>

\* Mutant: the imports of a root are not followed.
LoadImportsOfOthers ==
    /\ phase = "load"
    /\ queue # <<>>
    /\ Missing(text[Last(queue)]) = {}
    /\ Resolve(IF Last(queue) \in Roots THEN {} ELSE text[Last(queue)], Front(queue))
    /\ edges' = [edges EXCEPT ![Last(queue)] = text[Last(queue)]]
    /\ UNCHANGED <<files, phase, walk, visited, order>>

\* The node added last is taken; its imports come from both its files.
LoadImports ==
    /\ phase = "load"
    /\ queue # <<>>
    /\ Missing(text[Last(queue)]) = {}
    /\ Resolve(text[Last(queue)], Front(queue))
    /\ edges' = [edges EXCEPT ![Last(queue)] = text[Last(queue)]]
    /\ UNCHANGED <<files, phase, walk, visited, order>>

\* A name that is neither intrinsic nor on the search path ends the compilation.
NotFound ==
    /\ \/ phase = "roots" /\ Missing(Roots) # {}
       \/ phase = "load" /\ queue # <<>> /\ Missing(text[Last(queue)]) # {}
    /\ phase' = "failed"
    /\ UNCHANGED <<files, queue, sortVars>>

Loaded ==
    /\ phase = "load"
    /\ queue = <<>>
    /\ phase' = "sort"
    /\ UNCHANGED <<files, queue, sortVars>>

Sort == phase = "sort" /\ SortNext /\ UNCHANGED <<files, phase, queue>>

Finish ==
    /\ phase = "sort"
    /\ Sorted
    /\ phase' = "done"
    /\ UNCHANGED <<files, queue, sortVars>>

LoadNext == AddRoots \/ LoadImports \/ NotFound \/ Loaded \/ Sort \/ Finish

LoadSpec == LoadInit /\ [][LoadNext]_loadVars

-----------------------------------------------------------------------------

(* A module is one node, waits at most once, has at most one place, and the   *)
(* walk is inside of it at most once.                                         *)
TypeOKLoader ==
    /\ nodes \in Seq(Names) /\ IsInjective(nodes)
    /\ Range(queue) \subseteq Range(nodes) \ Intrinsic /\ IsInjective(queue)
    /\ Range(order) \subseteq visited /\ IsInjective(order)
    /\ \A i, j \in DOMAIN walk : walk[i].id = walk[j].id => i = j
    /\ edges \in [Names -> SUBSET Names]

\* What the files of a set of modules ask for.
Asks(S) == UNION {text[n] : n \in S \cap found}

\* The modules a compilation needs: the entry, the roots and what they import.
Needed == {n \in Names :
    \A S \in SUBSET Names : {entry} \cup Roots \cup Asks(S) \subseteq S => n \in S}

(* The order that is handed on names exactly the modules the program needs,   *)
(* and loading fails only for a module that is needed and is not there.       *)
GraphComplete ==
    /\ phase = "done" => Range(order) = Needed /\ Missing(Needed) = {}
    /\ phase = "failed" => Missing(Needed) # {}

=============================================================================
