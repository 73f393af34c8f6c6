------------------------------ MODULE TopoSort ------------------------------
(***************************************************************************)
(* The order of the modules of a program (topo_sort in                     *)
(* newm2-loader/src/loader.rs): a depth-first walk over the module graph   *)
(* places a module when all its imports have been visited.  Circular       *)
(* imports are legal; the walk breaks a circle at the import that leads    *)
(* back to a module it is still inside of.  The recursion is explicit: an  *)
(* entry of walk is a call of visit that has not returned.                 *)
(***************************************************************************)
EXTENDS Naturals, Sequences, Functions

CONSTANT Names      \* the modules' names: numbers, in alphabetical order

ASSUME NamesAssumption == Names \subseteq Nat

VARIABLES
    nodes,      \* ModuleGraph.modules: the names, in the order of the ids
    edges,      \* edges[n]: the imports of node n
    walk,       \* the calls of visit: a node and the imports still to visit
    visited,    \* the nodes marked Visiting or Done
    order       \* topo_order

graph == <<nodes, edges>>
sortVars == <<nodes, edges, walk, visited, order>>

SortInit == walk = <<>> /\ visited = {} /\ order = <<>>

\* visit(n) for a node marked New.
Enter(n) == [id |-> n, left |-> edges[n]]

Top == walk[Len(walk)]
Below == SubSeq(walk, 1, Len(walk) - 1)

\* The loop over all nodes goes by their ids.
VisitNode ==
    /\ walk = <<>>
    /\ \E i \in DOMAIN nodes :
          /\ nodes[i] \notin visited
          /\ \A j \in 1 .. i - 1 : nodes[j] \in visited
          /\ walk' = <<Enter(nodes[i])>>
          /\ visited' = visited \cup {nodes[i]}
    /\ UNCHANGED <<graph, order>>

\* The imports are sorted by name.
IsNext(c) == c \in Top.left /\ \A k \in Top.left : c <= k

\* The next import: one that is Visiting closes a circle, one that is Done has
\* its place; both are passed over.
VisitImport ==
    /\ walk # <<>>
    /\ \E c \in Top.left :
          LET here == Append(Below, [Top EXCEPT !.left = @ \ {c}])
          IN /\ IsNext(c)
             /\ walk' = IF c \in visited THEN here ELSE Append(here, Enter(c))
             /\ visited' = visited \cup {c}
    /\ UNCHANGED <<graph, order>>

\* Mutant: a module is placed before its imports are visited.
PlaceEarly ==
    /\ walk # <<>>
    /\ Top.left = {}
    /\ order' = <<Top.id>> \o order
    /\ walk' = Below
    /\ UNCHANGED <<graph, visited>>

\* All imports have been visited: the module gets its place.
Place ==
    /\ walk # <<>>
    /\ Top.left = {}
    /\ order' = Append(order, Top.id)
    /\ walk' = Below
    /\ UNCHANGED <<graph, visited>>

SortNext == VisitNode \/ VisitImport \/ Place

Sorted == walk = <<>> /\ Range(nodes) \subseteq visited

\* The walk over any graph.
Spec ==
    /\ nodes \in Seq(Names) /\ edges \in [Names -> SUBSET Names] /\ SortInit
    /\ [][SortNext]_sortVars

-----------------------------------------------------------------------------

Closed(S) == \A n \in S : edges[n] \subseteq S

\* The modules n imports, directly or through others.
Imported(n) == {m \in Names :
    \A S \in SUBSET Names : edges[n] \subseteq S /\ Closed(S) => m \in S}

(* A module is placed after every module it names in an import, unless that   *)
(* one needs it in turn (graph.rs:45: dependency before dependent).  What a   *)
(* circle imports may come after a module on it: that is the arbitrary part   *)
(* of the order (loader.rs:429-432).                                          *)
ImportsFirst ==
    \A i \in DOMAIN order : \A m \in edges[order[i]] :
        order[i] \in Imported(m) \/ \E j \in 1 .. i - 1 : order[j] = m
=============================================================================
