---------------------------- MODULE LoaderProofs ----------------------------
(***************************************************************************)
(* Proofs about the loader, for any set of files: the walk puts the        *)
(* modules of every graph in order (topo_sort), and the graph it is given  *)
(* holds exactly the modules the program needs.  Then about the interface  *)
(* cache: whatever compilers, edits and broken writes do to the shared     *)
(* files, a compilation uses the declarations it has read.                 *)
(***************************************************************************)
EXTENDS Loader, SymCache, SequenceTheorems, SetLemmas

Calls == [id : Names, left : SUBSET Names]

Shape ==
    /\ nodes \in Seq(Names)
    /\ edges \in [Names -> SUBSET Names]
    /\ walk \in Seq(Calls)
    /\ visited \subseteq Names
    /\ order \in Seq(Names)

\* A visited module has its place, or the walk is inside of it.
Placed(n) == \E i \in DOMAIN order : order[i] = n
Inside(n) == \E i \in DOMAIN walk : walk[i].id = n
Accounted == \A n \in visited : Placed(n) \/ Inside(n)

\* A call has visited the imports it has no longer to visit.
Progress ==
    \A i \in DOMAIN walk :
        /\ walk[i].left \subseteq edges[walk[i].id]
        /\ edges[walk[i].id] \ walk[i].left \subseteq visited

\* The calls of the walk follow imports.
Path == \A i, j \in DOMAIN walk : i < j => walk[j].id \in Imported(walk[i].id)

\* The inductive invariant.
IInv == Shape /\ Accounted /\ Progress /\ Path /\ ImportsFirst

-----------------------------------------------------------------------------

LEMMA InitHolds ==
  ASSUME nodes \in Seq(Names), edges \in [Names -> SUBSET Names], SortInit
  PROVE  IInv
BY DEF SortInit, IInv, Shape, Accounted, Progress, Path, ImportsFirst

\* What a module imports, it needs; and it needs what that one imports.
LEMMA ImportsAreImported ==
  ASSUME NEW n \in Names, edges \in [Names -> SUBSET Names]
  PROVE  /\ edges[n] \subseteq Imported(n)
         /\ \A m \in Imported(n) : edges[m] \subseteq Imported(n)
<1>1. edges[n] \subseteq Imported(n)
  BY DEF Imported
<1>2. ASSUME NEW m \in Imported(n), NEW c \in edges[m]
      PROVE  c \in Imported(n)
  <2>1. ASSUME NEW S \in SUBSET Names, edges[n] \subseteq S, Closed(S)
        PROVE  c \in S
    <3>1. m \in S
      BY <1>2, <2>1 DEF Imported
    <3> QED  BY <1>2, <2>1, <3>1 DEF Closed
  <2>2. c \in Names
    BY <1>2 DEF Imported
  <2> QED  BY <2>1, <2>2 DEF Imported
<1> QED  BY <1>1, <1>2

\* Imported is a matter of the graph, which the walk leaves alone.
LEMMA GraphStays ==
  ASSUME edges' = edges
  PROVE  \A n : Imported(n)' = Imported(n)
BY DEF Imported, Closed

\* The walk without its innermost call.
LEMMA BelowIs ==
  ASSUME walk \in Seq(Calls), walk # <<>>
  PROVE  /\ Len(walk) \in Nat \ {0}
         /\ Top \in Calls
         /\ Below \in Seq(Calls)
         /\ Len(Below) = Len(walk) - 1
         /\ \A i \in 1 .. Len(walk) - 1 : Below[i] = walk[i]
<1>1. Len(walk) \in Nat \ {0}
  BY EmptySeq
<1>2. \A i \in 1 .. Len(walk) - 1 : walk[i] \in Calls
  BY <1>1, ElementOfSeq
<1>3. Top \in Calls
  BY <1>1, ElementOfSeq DEF Top
<1> DEFINE n == Len(walk) - 1
<1>4. n \in Nat /\ Below = SubSeq(walk, 1, n)
  BY <1>1 DEF Below
<1> HIDE DEF n
<1>5. /\ SubSeq(walk, 1, n) \in Seq(Calls)
      /\ Len(SubSeq(walk, 1, n)) = IF 1 <= n THEN n - 1 + 1 ELSE 0
      /\ \A i \in 1 .. n - 1 + 1 : SubSeq(walk, 1, n)[i] = walk[1 + i - 1]
  <2>1. \A i \in 1 .. n : walk[i] \in Calls
    BY <1>2 DEF n
  <2> QED  BY <1>4, <2>1, SubSeqProperties
<1>6. Len(Below) = n /\ \A i \in 1 .. n : Below[i] = walk[i]
  BY <1>4, <1>5
<1> QED  BY <1>1, <1>3, <1>4, <1>5, <1>6 DEF n

-----------------------------------------------------------------------------

LEMMA VisitNodeKeeps ==
  ASSUME IInv, VisitNode
  PROVE  IInv'
<1> USE DEF IInv, Shape
<1>1. PICK i \in DOMAIN nodes : /\ walk' = <<Enter(nodes[i])>>
                                /\ visited' = visited \cup {nodes[i]}
  BY DEF VisitNode
<1>2. nodes[i] \in Names /\ walk = <<>> /\ UNCHANGED <<nodes, edges, order>>
  BY <1>1, ElementOfSeq DEF VisitNode, graph
<1>3. /\ DOMAIN walk' = {1}
      /\ walk'[1] = [id |-> nodes[i], left |-> edges[nodes[i]]]
  BY <1>1 DEF Enter
<1>4. Enter(nodes[i]) \in Calls
  BY <1>2 DEF Enter, Calls
<1>5. Shape'
  BY <1>1, <1>2, <1>4
<1>6. Accounted'
  BY <1>1, <1>2, <1>3 DEF Accounted, Placed, Inside
<1>7. Progress' /\ Path'
  BY <1>2, <1>3 DEF Progress, Path
<1>8. ImportsFirst'
  BY <1>2, GraphStays DEF ImportsFirst
<1> QED  BY <1>5, <1>6, <1>7, <1>8

LEMMA VisitImportKeeps ==
  ASSUME IInv, VisitImport
  PROVE  IInv'
<1> USE DEF IInv, Shape
<1> DEFINE top == Len(walk)
<1>1. PICK c \in Top.left :
         /\ walk' = IF c \in visited
                    THEN Append(Below, [Top EXCEPT !.left = @ \ {c}])
                    ELSE Append(Append(Below, [Top EXCEPT !.left = @ \ {c}]), Enter(c))
         /\ visited' = visited \cup {c}
  BY DEF VisitImport
<1> DEFINE here == Append(Below, [Top EXCEPT !.left = @ \ {c}])
<1>2. walk # <<>> /\ UNCHANGED <<nodes, edges, order>>
  BY DEF VisitImport, graph
<1>3. /\ top \in Nat \ {0} /\ Top = walk[top] /\ Top \in Calls
      /\ Below \in Seq(Calls) /\ Len(Below) = top - 1
      /\ \A i \in 1 .. top - 1 : Below[i] = walk[i]
  BY <1>2, BelowIs DEF Top
<1>4. c \in Names /\ Top.id \in Names /\ c \in edges[Top.id]
  BY <1>1, <1>2, <1>3 DEF Calls, Progress
<1>5. [Top EXCEPT !.left = @ \ {c}] \in Calls /\ Enter(c) \in Calls
  BY <1>3, <1>4 DEF Calls, Enter
<1>6. /\ here \in Seq(Calls) /\ Len(here) = top
      /\ \A i \in 1 .. top : here[i].id = walk[i].id
      /\ \A i \in 1 .. top - 1 : here[i].left = walk[i].left
      /\ here[top].left = Top.left \ {c}
  <2>1. /\ here \in Seq(Calls) /\ Len(here) = top
        /\ here[top] = [Top EXCEPT !.left = @ \ {c}]
        /\ \A i \in 1 .. top - 1 : here[i] = walk[i]
    BY <1>3, <1>5, AppendProperties
  <2>2. /\ here[top].id = Top.id
        /\ here[top].left = Top.left \ {c}
    BY <1>3, <2>1 DEF Calls
  <2> QED  BY <1>3, <2>1, <2>2
<1>7. /\ DOMAIN here = 1 .. top /\ DOMAIN walk = 1 .. top
  BY <1>2, <1>3, <1>6
<1>14. walk' = IF c \in visited THEN here ELSE Append(here, Enter(c))
  BY <1>1
<1> HIDE DEF here, top
<1>8. \A i \in 1 .. top : c \in Imported(here[i].id)
  <2>1. c \in Imported(Top.id)
    BY <1>4, ImportsAreImported
  <2>2. ASSUME NEW i \in 1 .. top - 1 PROVE c \in Imported(here[i].id)
    <3>1. i \in DOMAIN walk /\ top \in DOMAIN walk /\ i < top
      BY <1>3, <1>7, <2>2
    <3>2. walk[i] \in Calls
      BY <3>1, ElementOfSeq
    <3>3. Top.id \in Imported(walk[i].id) /\ walk[i].id \in Names
      BY <1>3, <3>1, <3>2 DEF Path, Calls
    <3> QED  BY <1>3, <1>4, <1>6, <3>1, <3>3, ImportsAreImported
  <2> QED  BY <1>3, <1>6, <2>1, <2>2
<1>9. \A i \in 1 .. top :
         /\ here[i].left \subseteq edges[here[i].id]
         /\ edges[here[i].id] \ here[i].left \subseteq visited'
  <2>1. ASSUME NEW i \in 1 .. top
        PROVE  /\ here[i].left \subseteq edges[here[i].id]
               /\ edges[here[i].id] \ here[i].left \subseteq visited'
    <3>1. /\ walk[i].left \subseteq edges[walk[i].id]
          /\ edges[walk[i].id] \ walk[i].left \subseteq visited
          /\ here[i].id = walk[i].id
      BY <1>6, <1>7, <2>1 DEF Progress
    <3>2. CASE i = top
      BY <1>1, <1>3, <1>6, <3>1, <3>2
    <3>3. CASE i # top
      <4>1. here[i].left = walk[i].left
        BY <1>3, <1>6, <2>1, <3>3
      <4> QED  BY <1>1, <3>1, <4>1
    <3> QED  BY <3>2, <3>3
  <2> QED  BY <2>1
<1>10. \A i, j \in 1 .. top : i < j => here[j].id \in Imported(here[i].id)
  BY <1>6, <1>7 DEF Path
<1>11. ImportsFirst'
  BY <1>2, GraphStays DEF ImportsFirst
<1>12. CASE c \in visited
  <2>1. walk' = here /\ visited' = visited
    BY <1>1, <1>12, <1>14
  <2>2. Shape'
    BY <1>2, <1>6, <2>1
  <2>3. Accounted'
    <3>1. ASSUME NEW n \in visited PROVE Placed(n)' \/ Inside(n)'
      <4>1. Placed(n) \/ Inside(n)
        BY <3>1 DEF Accounted
      <4> QED  BY <1>2, <1>6, <1>7, <2>1, <4>1 DEF Placed, Inside
    <3> QED  BY <2>1, <3>1 DEF Accounted
  <2>4. Progress'
    BY <1>2, <1>7, <1>9, <2>1 DEF Progress
  <2>5. Path'
    BY <1>2, <1>7, <1>10, <2>1, GraphStays DEF Path
  <2> QED  BY <1>11, <2>2, <2>3, <2>4, <2>5
<1>13. CASE c \notin visited
  <2>1. walk' = Append(here, Enter(c))
    BY <1>13, <1>14
  <2>2. /\ walk' \in Seq(Calls) /\ Len(walk') = top + 1
        /\ walk'[top + 1] = Enter(c)
        /\ \A i \in 1 .. top : walk'[i] = here[i]
    BY <1>3, <1>5, <1>6, <2>1, AppendProperties
  <2>3. DOMAIN walk' = 1 .. top + 1 /\ walk'[top + 1].id = c /\ walk'[top + 1].left = edges[c]
    BY <1>3, <2>2 DEF Enter
  <2>4. Shape'
    BY <1>1, <1>2, <1>4, <2>2
  <2>5. Accounted'
    <3>1. ASSUME NEW n \in visited PROVE Placed(n)' \/ Inside(n)'
      <4>1. Placed(n) \/ Inside(n)
        BY <3>1 DEF Accounted
      <4>2. CASE Placed(n)
        BY <1>2, <4>2 DEF Placed
      <4>3. CASE Inside(n)
        <5>1. PICK i \in 1 .. top : walk[i].id = n
          BY <1>7, <4>3 DEF Inside
        <5>2. i \in DOMAIN walk' /\ walk'[i].id = n
          BY <1>3, <1>6, <2>2, <2>3, <5>1
        <5> QED  BY <5>2 DEF Inside
      <4> QED  BY <4>1, <4>2, <4>3
    <3>2. Inside(c)'
      BY <1>3, <2>3 DEF Inside
    <3> QED  BY <1>1, <3>1, <3>2 DEF Accounted
  <2>6. Progress'
    <3>1. ASSUME NEW i \in 1 .. top + 1
          PROVE  /\ walk'[i].left \subseteq edges[walk'[i].id]
                 /\ edges[walk'[i].id] \ walk'[i].left \subseteq visited'
      <4>1. CASE i = top + 1
        BY <2>3, <4>1
      <4>2. CASE i # top + 1
        <5>1. i \in 1 .. top /\ walk'[i] = here[i]
          BY <1>3, <2>2, <3>1, <4>2
        <5> QED  BY <1>9, <5>1
      <4> QED  BY <4>1, <4>2
    <3> QED  BY <1>2, <2>3, <3>1 DEF Progress
  <2>7. Path'
    <3>1. ASSUME NEW i \in 1 .. top + 1, NEW j \in 1 .. top + 1, i < j
          PROVE  walk'[j].id \in Imported(walk'[i].id)
      <4>1. CASE j = top + 1
        <5>1. i \in 1 .. top /\ walk'[i] = here[i] /\ walk'[j].id = c
          BY <1>3, <2>2, <2>3, <3>1, <4>1
        <5> QED  BY <1>8, <5>1
      <4>2. CASE j # top + 1
        <5>1. /\ i \in 1 .. top /\ j \in 1 .. top
              /\ walk'[i] = here[i] /\ walk'[j] = here[j]
          BY <1>3, <2>2, <3>1, <4>2
        <5> QED  BY <1>10, <3>1, <5>1
      <4> QED  BY <4>1, <4>2
    <3> QED  BY <1>2, <2>3, <3>1, GraphStays DEF Path
  <2> QED  BY <1>11, <2>4, <2>5, <2>6, <2>7
<1> QED  BY <1>12, <1>13

LEMMA PlaceKeeps ==
  ASSUME IInv, Place
  PROVE  IInv'
<1> USE DEF IInv, Shape
<1> DEFINE top == Len(walk)
           last == Len(order) + 1
<1>1. /\ walk # <<>> /\ Top.left = {} /\ order' = Append(order, Top.id) /\ walk' = Below
      /\ UNCHANGED <<nodes, edges, visited>>
  BY DEF Place, graph
<1>2. /\ top \in Nat \ {0} /\ Top = walk[top] /\ Top \in Calls
      /\ Below \in Seq(Calls) /\ Len(Below) = top - 1
      /\ \A i \in 1 .. top - 1 : Below[i] = walk[i]
      /\ DOMAIN walk = 1 .. top /\ DOMAIN walk' = 1 .. top - 1
  <2>1. /\ top \in Nat \ {0} /\ Top \in Calls /\ Below \in Seq(Calls) /\ Len(Below) = top - 1
        /\ \A i \in 1 .. top - 1 : Below[i] = walk[i]
    BY <1>1, BelowIs
  <2>2. DOMAIN walk = 1 .. top /\ DOMAIN Below = 1 .. top - 1
    BY <2>1
  <2> QED  BY <1>1, <2>1, <2>2 DEF Top
<1>3. Top.id \in Names
  BY <1>2 DEF Calls
<1>4. /\ order' \in Seq(Names) /\ Len(order') = last /\ order'[last] = Top.id
      /\ \A i \in 1 .. Len(order) : order'[i] = order[i]
      /\ DOMAIN order = 1 .. Len(order) /\ DOMAIN order' = 1 .. last
      /\ Len(order) \in Nat
  BY <1>1, <1>3, AppendProperties
<1>5. Shape'
  BY <1>1, <1>2, <1>4
<1>6. Accounted'
  <2>1. ASSUME NEW n \in visited PROVE Placed(n)' \/ Inside(n)'
    <3>1. CASE Placed(n)
      BY <1>4, <3>1 DEF Placed
    <3>2. CASE n = Top.id
      BY <1>4, <3>2 DEF Placed
    <3>3. CASE Inside(n) /\ n # Top.id
      <4>1. PICK i \in 1 .. top : walk[i].id = n
        BY <1>2, <3>3 DEF Inside
      <4>2. i \in 1 .. top - 1 /\ walk'[i].id = n
        BY <1>1, <1>2, <3>3, <4>1
      <4> QED  BY <1>2, <4>2 DEF Inside
    <3> QED  BY <3>1, <3>2, <3>3 DEF Accounted
  <2> QED  BY <1>1, <2>1 DEF Accounted
<1>7. Progress'
  BY <1>1, <1>2 DEF Progress
<1>8. Path'
  <2>1. ASSUME NEW i \in 1 .. top - 1, NEW j \in 1 .. top - 1, i < j
        PROVE  walk'[j].id \in Imported(walk'[i].id)
    <3>1. /\ i \in DOMAIN walk /\ j \in DOMAIN walk
          /\ walk'[i] = walk[i] /\ walk'[j] = walk[j]
      <4>1. /\ top \in Nat /\ DOMAIN walk = 1 .. top /\ walk' = Below
            /\ \A k \in 1 .. top - 1 : Below[k] = walk[k]
        BY <1>1, <1>2
      <4> HIDE DEF IInv, Shape, top
      <4> QED  BY <2>1, <4>1
    <3>2. walk[j].id \in Imported(walk[i].id)
      <4>1. Path
        OBVIOUS
      <4> HIDE DEF IInv, Shape, top
      <4> QED  BY <2>1, <3>1, <4>1 DEF Path
    <3> QED  BY <3>1, <3>2
  <2>2. \A n : Imported(n)' = Imported(n)
    BY <1>1, GraphStays
  <2>3. DOMAIN walk' = 1 .. top - 1
    BY <1>2
  <2> HIDE DEF top
  <2> QED  BY <2>1, <2>2, <2>3 DEF Path
<1>9. ImportsFirst'
  <2>1. ASSUME NEW i \in 1 .. last, NEW m \in edges[order'[i]]
        PROVE  order'[i] \in Imported(m) \/ \E j \in 1 .. i - 1 : order'[j] = m
    <3>1. CASE i # last
      <4>1. i \in DOMAIN order /\ order'[i] = order[i]
        BY <1>4, <3>1
      <4>2. order[i] \in Imported(m) \/ \E j \in 1 .. i - 1 : order[j] = m
        BY <2>1, <4>1 DEF ImportsFirst
      <4> QED  BY <1>4, <4>1, <4>2
    <3>2. CASE i = last
      <4>1. m \in edges[Top.id] /\ m \in visited /\ m \in Names
        <5>1. m \in edges[Top.id]
          BY <1>4, <2>1, <3>2
        <5>2. edges[Top.id] \ Top.left \subseteq visited
          BY <1>2 DEF Progress
        <5> QED  BY <1>1, <1>3, <5>1, <5>2
      <4>2. CASE Placed(m)
        BY <1>4, <3>2, <4>2 DEF Placed
      <4>3. CASE Inside(m)
        <5>1. PICK k \in 1 .. top : walk[k].id = m
          BY <1>2, <4>3 DEF Inside
        <5>2. Top.id \in Imported(m)
          <6>1. CASE k = top
            BY <1>2, <1>3, <4>1, <5>1, <6>1, ImportsAreImported
          <6>2. CASE k < top
            BY <1>2, <5>1, <6>2 DEF Path
          <6> QED  BY <1>2, <6>1, <6>2
        <5> QED  BY <1>4, <3>2, <5>2
      <4> QED  BY <4>1, <4>2, <4>3 DEF Accounted
    <3> QED  BY <3>1, <3>2
  <2> QED  BY <1>1, <1>4, <2>1, GraphStays DEF ImportsFirst
<1> QED  BY <1>5, <1>6, <1>7, <1>8, <1>9

LEMMA SortStays ==
  ASSUME IInv, UNCHANGED <<nodes, edges, walk, visited, order>>
  PROVE  IInv'
<1>1. \A n : Imported(n)' = Imported(n)
  BY GraphStays
<1> QED  BY <1>1 DEF IInv, Shape, Accounted, Placed, Inside, Progress, Path, ImportsFirst

(* Whatever the modules import, in circles or not, and in whatever order they *)
(* were found, the walk places a module after each of its imports, unless     *)
(* that one needs it in turn (topo_sort).                                     *)
THEOREM ModulesComeAfterImports == Spec => []ImportsFirst
<1>1. nodes \in Seq(Names) /\ edges \in [Names -> SUBSET Names] /\ SortInit => IInv
  BY InitHolds
<1>2. IInv /\ [SortNext]_sortVars => IInv'
  BY SortStays, VisitNodeKeeps, VisitImportKeeps, PlaceKeeps DEF SortNext, sortVars
<1>3. IInv => ImportsFirst
  BY DEF IInv
<1> QED  BY <1>1, <1>2, <1>3, PTL DEF Spec

-----------------------------------------------------------------------------

\* resolve_or_load takes each of the names once.
LEMMA InOrderLists ==
  ASSUME NEW S, S \subseteq Names
  PROVE  /\ InOrder(S) \in Seq(S)
         /\ Range(InOrder(S)) = S
         /\ IsInjective(InOrder(S))
<1> DEFINE s == InOrder(S)
           n == Cardinality(S)
<1>1. S \subseteq Nat /\ IsFiniteSet(S) /\ n \in Nat
  BY NamesAssumption, LoaderAssumption, FS_Subset, FS_CardinalityType
<1>2. s \in [1 .. n -> S] /\ Increasing(s)
  <2>1. \E t \in [1 .. n -> S] : Increasing(t)
    BY <1>1, CanList DEF Listed
  <2>2. s = CHOOSE t \in [1 .. n -> S] : Increasing(t)
    BY DEF InOrder, Increasing
  <2> HIDE DEF s, n
  <2> QED  BY <2>1, <2>2
<1> HIDE DEF s, n
<1>3. s \in Seq(S)
  BY <1>1, <1>2, IsASeq
<1>4. ASSUME NEW i \in 1 .. n, NEW j \in 1 .. n, s[i] = s[j] PROVE i = j
  <2>1. s[i] \in Nat /\ s[j] \in Nat
    BY <1>1, <1>2
  <2> QED  BY <1>1, <1>2, <1>4, <2>1 DEF Increasing
<1>5. s \in Injection(1 .. n, S)
  BY <1>2, <1>4 DEF Injection, IsInjective
<1>6. Cardinality(1 .. n) = n
  BY <1>1, FS_Interval
<1>7. s \in Surjection(1 .. n, S)
  BY <1>1, <1>5, <1>6, FS_Injection DEF n
<1>8. Range(s) = S
  BY <1>2, <1>7 DEF Surjection, Range
<1>9. IsInjective(s)
  BY <1>2, <1>4 DEF IsInjective
<1> QED  BY <1>3, <1>8, <1>9 DEF s

-----------------------------------------------------------------------------

Files ==
    /\ found \subseteq Names \ Intrinsic
    /\ text \in [found -> SUBSET Names]
    /\ entry \in found

\* Every node is needed and there, and imports lead from node to node.
Grown ==
    /\ IsInjective(nodes)
    /\ entry \in Range(nodes)
    /\ Range(nodes) \subseteq Needed
    /\ Range(nodes) \ Intrinsic \subseteq found
    /\ \A n \in Names : edges[n] \subseteq Range(nodes)

\* A node that waits no longer has the imports of its files.
Waiting ==
    /\ queue \in Seq(Names) /\ IsInjective(queue)
    /\ Range(queue) \subseteq Range(nodes) \ Intrinsic
    /\ \A n \in (Range(nodes) \cap found) \ Range(queue) : edges[n] = text[n]

Phases ==
    /\ phase \in {"roots", "load", "sort", "done", "failed"}
    /\ phase \in {"roots", "load"} => SortInit
    /\ phase \in {"load", "sort", "done"} => Roots \subseteq Range(nodes)
    /\ phase \in {"sort", "done"} => queue = <<>>
    /\ phase = "done" => Sorted
    /\ phase = "failed" => Missing(Needed) # {}

\* A module that has its place is one the walk has left.
Places ==
    /\ visited \subseteq Range(nodes)
    /\ Range(order) \subseteq visited /\ IsInjective(order)
    /\ \A i \in DOMAIN walk : walk[i].id \in visited \ Range(order)
    /\ \A i, j \in DOMAIN walk : walk[i].id = walk[j].id => i = j

LInv == IInv /\ Files /\ Grown /\ Waiting /\ Phases /\ Places

-----------------------------------------------------------------------------

\* Names that are new go behind those that are there.
LEMMA Behind ==
  ASSUME NEW s \in Seq(Names), IsInjective(s), NEW S, S \subseteq Names,
         Range(s) \cap S = {}
  PROVE  /\ s \o InOrder(S) \in Seq(Names)
         /\ Range(s \o InOrder(S)) = Range(s) \cup S
         /\ IsInjective(s \o InOrder(S))
<1> DEFINE t == InOrder(S)
           u == s \o t
<1>1. t \in Seq(S) /\ Range(t) = S /\ IsInjective(t)
  BY InOrderLists
<1>2. t \in Seq(Names)
  BY <1>1, SeqMonotonic
<1> HIDE DEF t
<1>3. /\ u \in Seq(Names) /\ Len(u) = Len(s) + Len(t)
      /\ \A i \in 1 .. Len(s) + Len(t) : u[i] = IF i <= Len(s) THEN s[i] ELSE t[i - Len(s)]
  BY <1>2, ConcatProperties
<1>4. Range(u) = Range(s) \cup Range(t)
  BY <1>2, RangeConcatenation
<1>5. /\ Len(s) \in Nat /\ Len(t) \in Nat
      /\ DOMAIN s = 1 .. Len(s) /\ DOMAIN t = 1 .. Len(t) /\ DOMAIN u = 1 .. Len(u)
  BY <1>2, <1>3, LenProperties
<1> HIDE DEF u
<1>6. \A i \in 1 .. Len(s) : s[i] \in Range(s)
  BY <1>5 DEF Range
<1>7. \A i \in 1 .. Len(t) : t[i] \in S
  BY <1>1, <1>5 DEF Range
<1>8. ASSUME NEW i \in DOMAIN u, NEW j \in DOMAIN u, u[i] = u[j] PROVE i = j
  <2>1. i \in 1 .. Len(s) + Len(t) /\ j \in 1 .. Len(s) + Len(t)
    BY <1>3, <1>5, <1>8
  <2>2. CASE i <= Len(s) /\ j <= Len(s)
    <3>1. i \in DOMAIN s /\ j \in DOMAIN s /\ s[i] = s[j]
      BY <1>3, <1>5, <1>8, <2>1, <2>2
    <3> QED  BY <3>1 DEF IsInjective
  <2>3. CASE i > Len(s) /\ j > Len(s)
    <3>1. i - Len(s) \in DOMAIN t /\ j - Len(s) \in DOMAIN t /\ t[i - Len(s)] = t[j - Len(s)]
      BY <1>3, <1>5, <1>8, <2>1, <2>3
    <3>2. i - Len(s) = j - Len(s)
      BY <1>1, <3>1 DEF IsInjective
    <3> QED  BY <1>5, <2>1, <3>2
  <2>4. CASE i <= Len(s) /\ j > Len(s)
    <3>1. i \in 1 .. Len(s) /\ j - Len(s) \in 1 .. Len(t) /\ s[i] = t[j - Len(s)]
      BY <1>3, <1>5, <1>8, <2>1, <2>4
    <3> QED  BY <1>6, <1>7, <3>1
  <2>5. CASE i > Len(s) /\ j <= Len(s)
    <3>1. j \in 1 .. Len(s) /\ i - Len(s) \in 1 .. Len(t) /\ s[j] = t[i - Len(s)]
      BY <1>3, <1>5, <1>8, <2>1, <2>5
    <3> QED  BY <1>6, <1>7, <3>1
  <2> QED  BY <1>5, <2>1, <2>2, <2>3, <2>4, <2>5
<1>9. IsInjective(u)
  BY <1>8 DEF IsInjective
<1> QED  BY <1>1, <1>3, <1>4, <1>9 DEF u, t

\* The node that is taken off the queue.
LEMMA TakenOff ==
  ASSUME NEW s \in Seq(Names), IsInjective(s), s # <<>>
  PROVE  /\ Last(s) \in Range(s)
         /\ Front(s) \in Seq(Names)
         /\ IsInjective(Front(s))
         /\ Range(Front(s)) = Range(s) \ {Last(s)}
<1>1. Len(s) \in Nat \ {0} /\ DOMAIN s = 1 .. Len(s)
  BY EmptySeq, LenProperties
<1> DEFINE n == Len(s) - 1
           f == Front(s)
<1>2. n \in Nat /\ \A i \in 1 .. n : s[i] \in Names
  BY <1>1, ElementOfSeq
<1>3. f = SubSeq(s, 1, n)
  BY DEF Front
<1> HIDE DEF n, f
<1>4. /\ f \in Seq(Names) /\ Len(f) = IF 1 <= n THEN n - 1 + 1 ELSE 0
      /\ \A i \in 1 .. n - 1 + 1 : f[i] = s[1 + i - 1]
  BY <1>2, <1>3, SubSeqProperties
<1>5. Len(f) = n /\ DOMAIN f = 1 .. n /\ \A i \in 1 .. n : f[i] = s[i] /\ i \in DOMAIN s
  <2>1. Len(f) = n /\ \A i \in 1 .. n : f[i] = s[i]
    BY <1>2, <1>4
  <2>2. DOMAIN f = 1 .. n
    BY <1>4, <2>1, LenProperties
  <2>3. \A i \in 1 .. n : i \in DOMAIN s
    BY <1>1 DEF n
  <2> QED  BY <2>1, <2>2, <2>3
<1>6. Last(s) = s[n + 1] /\ n + 1 \in DOMAIN s
  BY <1>1 DEF Last, n
<1>7. IsInjective(f)
  BY <1>5 DEF IsInjective
<1>8. DOMAIN s = 1 .. n \cup {n + 1}
  BY <1>1, <1>2 DEF n
<1>9. \A i \in 1 .. n : s[i] # s[n + 1]
  BY <1>2, <1>5, <1>6 DEF IsInjective
<1>10. Range(f) = Range(s) \ {Last(s)}
  BY <1>5, <1>6, <1>8, <1>9 DEF Range
<1> QED  BY <1>4, <1>6, <1>7, <1>10 DEF f, Range

\* What is needed has what it asks for in it.
LEMMA NeededIsClosed ==
  ASSUME Files
  PROVE  /\ entry \in Needed
         /\ Roots \subseteq Needed
         /\ \A n \in Needed \cap found : text[n] \subseteq Needed
<1> USE DEF Files
<1>1. entry \in Needed
  BY DEF Needed
<1>2. Roots \subseteq Needed
  BY LoaderAssumption DEF Needed
<1>3. ASSUME NEW n \in Needed \cap found, NEW m \in text[n] PROVE m \in Needed
  <2>1. m \in Names
    BY <1>3
  <2>2. ASSUME NEW S \in SUBSET Names, {entry} \cup Roots \cup Asks(S) \subseteq S PROVE m \in S
    <3>1. n \in S
      BY <1>3, <2>2 DEF Needed
    <3> QED  BY <1>3, <2>2, <3>1 DEF Asks
  <2> QED  BY <2>1, <2>2 DEF Needed
<1> QED  BY <1>1, <1>2, <1>3

\* And it is the least such set.
LEMMA NeededIsLeast ==
  ASSUME NEW S, S \subseteq Names, entry \in S, Roots \subseteq S,
         \A n \in S \cap found : text[n] \subseteq S
  PROVE  Needed \subseteq S
<1>1. Asks(S) \subseteq S
  BY DEF Asks
<1> QED  BY <1>1 DEF Needed

\* Which modules are needed is a matter of the files.
LEMMA NeedStays ==
  ASSUME UNCHANGED files
  PROVE  /\ Needed' = Needed /\ found' = found
         /\ \A S : Missing(S)' = Missing(S)
<1>1. entry' = entry /\ text' = text
  BY DEF files
<1>2. \A S : Asks(S)' = Asks(S)
  BY <1>1 DEF Asks, found
<1> QED  BY <1>1, <1>2 DEF Needed, Missing, found

-----------------------------------------------------------------------------

LEMMA LoadInitHolds == LoadInit => LInv
<1> SUFFICES ASSUME LoadInit PROVE LInv
  OBVIOUS
<1>1. /\ found \subseteq Names \ Intrinsic
      /\ text \in [found -> SUBSET Names]
      /\ entry \in found
  BY DEF LoadInit, found
<1>2. /\ nodes = <<entry>> /\ queue = <<entry>> /\ edges = [n \in Names |-> {}]
      /\ phase = "roots" /\ SortInit
  BY DEF LoadInit
<1>3. Files
  BY <1>1 DEF Files
<1>4. nodes \in Seq(Names) /\ edges \in [Names -> SUBSET Names]
  BY <1>1, <1>2
<1>5. Range(nodes) = {entry} /\ Range(queue) = {entry} /\ IsInjective(nodes) /\ IsInjective(queue)
  BY <1>2 DEF Range, IsInjective
<1>6. IInv
  BY <1>2, <1>4, InitHolds
<1>7. Grown
  BY <1>1, <1>2, <1>3, <1>5, NeededIsClosed DEF Grown
<1>8. Waiting
  BY <1>1, <1>2, <1>4, <1>5 DEF Waiting
<1>9. Phases
  BY <1>2 DEF Phases
<1>10. Places
  BY <1>2 DEF Places, SortInit, Range, IsInjective
<1> QED  BY <1>3, <1>6, <1>7, <1>8, <1>9, <1>10 DEF LInv

\* What resolve_or_load does to the nodes and to the queue.
LEMMA Resolved ==
  ASSUME LInv, NEW S, S \subseteq Names, NEW w \in Seq(Names), IsInjective(w),
         Range(w) \subseteq Range(queue), Resolve(S, w)
  PROVE  /\ nodes' \in Seq(Names) /\ IsInjective(nodes')
         /\ Range(nodes') = Range(nodes) \cup S
         /\ queue' \in Seq(Names) /\ IsInjective(queue')
         /\ Range(queue') = Range(w) \cup ((S \ Range(nodes)) \ Intrinsic)
<1> DEFINE new == S \ Range(nodes)
<1>1. nodes' = nodes \o InOrder(new) /\ queue' = w \o InOrder(new \ Intrinsic)
  BY DEF Resolve
<1>2. /\ nodes \in Seq(Names) /\ IsInjective(nodes)
      /\ Range(w) \subseteq Range(nodes)
  BY DEF LInv, IInv, Shape, Grown, Waiting
<1>3. /\ new \subseteq Names /\ Range(nodes) \cap new = {} /\ Range(nodes) \cup new = Range(nodes) \cup S
      /\ new \ Intrinsic \subseteq Names /\ Range(w) \cap (new \ Intrinsic) = {}
  BY <1>2
<1> HIDE DEF new
<1>4. /\ nodes' \in Seq(Names) /\ IsInjective(nodes')
      /\ Range(nodes') = Range(nodes) \cup new
  BY <1>1, <1>2, <1>3, Behind
<1>5. /\ queue' \in Seq(Names) /\ IsInjective(queue')
      /\ Range(queue') = Range(w) \cup (new \ Intrinsic)
  BY <1>1, <1>3, Behind
<1> QED  BY <1>3, <1>4, <1>5 DEF new

\* While modules are found, the walk has not begun.
LEMMA NotYetWalked ==
  ASSUME SortInit, nodes' \in Seq(Names), edges' \in [Names -> SUBSET Names],
         UNCHANGED <<walk, visited, order>>
  PROVE  IInv' /\ Places' /\ SortInit'
<1>1. walk' = <<>> /\ visited' = {} /\ order' = <<>>
  BY DEF SortInit
<1>2. SortInit'
  BY <1>1 DEF SortInit
<1>3. IInv'
  BY <1>1 DEF IInv, Shape, Accounted, Progress, Path, ImportsFirst
<1>4. Places'
  BY <1>1 DEF Places, Range, IsInjective
<1> QED  BY <1>2, <1>3, <1>4

LEMMA AddRootsKeeps ==
  ASSUME LInv, AddRoots
  PROVE  LInv'
<1>1. /\ phase = "roots" /\ phase' = "load" /\ Missing(Roots) = {} /\ Resolve(Roots, queue)
      /\ UNCHANGED <<files, edges, walk, visited, order>>
  BY DEF AddRoots
<1>2. /\ nodes' \in Seq(Names) /\ IsInjective(nodes')
      /\ Range(nodes') = Range(nodes) \cup Roots
      /\ queue' \in Seq(Names) /\ IsInjective(queue')
      /\ Range(queue') = Range(queue) \cup ((Roots \ Range(nodes)) \ Intrinsic)
  BY <1>1, LoaderAssumption, Resolved DEF LInv, Waiting
<1>3. SortInit /\ edges \in [Names -> SUBSET Names]
  BY <1>1 DEF LInv, Phases, IInv, Shape
<1>4. IInv' /\ Places' /\ SortInit'
  BY <1>1, <1>2, <1>3, NotYetWalked
<1>5. Needed' = Needed /\ found' = found /\ text' = text /\ entry' = entry /\ edges' = edges
  BY <1>1, NeedStays DEF files
<1>6. Files'
  BY <1>5 DEF LInv, Files
<1>7. Roots \subseteq Needed
  BY NeededIsClosed DEF LInv
<1>8. Grown'
  <2>1. Roots \ Intrinsic \subseteq found
    BY <1>1 DEF Missing
  <2> QED  BY <1>2, <1>5, <1>7, <2>1 DEF LInv, Grown
<1>9. Waiting'
  BY <1>2, <1>5 DEF LInv, Waiting, Files
<1>10. Phases'
  BY <1>1, <1>2, <1>4 DEF Phases
<1> QED  BY <1>4, <1>6, <1>8, <1>9, <1>10 DEF LInv

LEMMA LoadImportsKeeps ==
  ASSUME LInv, LoadImports
  PROVE  LInv'
<1> DEFINE n == Last(queue)
<1>1. /\ phase = "load" /\ phase' = phase /\ queue # <<>> /\ Missing(text[n]) = {}
      /\ Resolve(text[n], Front(queue))
      /\ edges' = [edges EXCEPT ![n] = text[n]]
      /\ UNCHANGED <<files, walk, visited, order>>
  BY DEF LoadImports
<1>2. /\ n \in Range(queue) /\ Front(queue) \in Seq(Names) /\ IsInjective(Front(queue))
      /\ Range(Front(queue)) = Range(queue) \ {n}
  BY <1>1, TakenOff DEF LInv, Waiting
<1> HIDE DEF n
<1>3. n \in Range(nodes) /\ n \in Needed /\ n \in found /\ n \in Names
  BY <1>2 DEF LInv, Waiting, Grown, Files
<1>4. text[n] \subseteq Names
  BY <1>3 DEF LInv, Files
<1>5. /\ nodes' \in Seq(Names) /\ IsInjective(nodes')
      /\ Range(nodes') = Range(nodes) \cup text[n]
      /\ queue' \in Seq(Names) /\ IsInjective(queue')
      /\ Range(queue') = (Range(queue) \ {n}) \cup ((text[n] \ Range(nodes)) \ Intrinsic)
  BY <1>1, <1>2, <1>4, Resolved
<1>6. SortInit /\ edges \in [Names -> SUBSET Names] /\ edges' \in [Names -> SUBSET Names]
  BY <1>1, <1>4 DEF LInv, Phases, IInv, Shape
<1>7. IInv' /\ Places' /\ SortInit'
  BY <1>1, <1>5, <1>6, NotYetWalked
<1>8. /\ Needed' = Needed /\ found' = found /\ text' = text /\ entry' = entry
      /\ edges'[n] = text[n] /\ \A m \in Names : m # n => edges'[m] = edges[m]
  BY <1>1, <1>3, <1>6, NeedStays DEF files
<1>9. Files'
  BY <1>8 DEF LInv, Files
<1>10. Grown'
  <2>1. text[n] \subseteq Needed
    BY <1>3, NeededIsClosed DEF LInv
  <2>2. text[n] \ Intrinsic \subseteq found
    BY <1>1 DEF Missing
  <2>3. \A m \in Names : edges'[m] \subseteq Range(nodes')
    BY <1>5, <1>8 DEF LInv, Grown
  <2> QED  BY <1>5, <1>8, <2>1, <2>2, <2>3 DEF LInv, Grown
<1>11. Waiting'
  <2>1. Range(queue') \subseteq Range(nodes') \ Intrinsic
    BY <1>5 DEF LInv, Waiting
  <2>2. \A m \in (Range(nodes') \cap found) \ Range(queue') : edges'[m] = text[m]
    BY <1>5, <1>8 DEF LInv, Waiting, Files
  <2> QED  BY <1>5, <1>8, <2>1, <2>2 DEF Waiting
<1>12. Phases'
  BY <1>1, <1>5, <1>7 DEF LInv, Phases
<1> QED  BY <1>7, <1>9, <1>10, <1>11, <1>12 DEF LInv

LEMMA NotFoundKeeps ==
  ASSUME LInv, NotFound
  PROVE  LInv'
<1>1. phase' = "failed" /\ UNCHANGED <<files, queue, sortVars>>
  BY DEF NotFound
<1>2. Missing(Needed) # {}
  <2>1. CASE Missing(Roots) # {}
    <3>1. Roots \subseteq Needed
      BY NeededIsClosed DEF LInv
    <3> QED  BY <2>1, <3>1 DEF Missing
  <2>2. CASE queue # <<>> /\ Missing(text[Last(queue)]) # {}
    <3>1. Last(queue) \in Range(queue)
      BY <2>2, TakenOff DEF LInv, Waiting
    <3>2. Last(queue) \in Needed \cap found
      BY <3>1 DEF LInv, Waiting, Grown
    <3>3. text[Last(queue)] \subseteq Needed
      BY <3>2, NeededIsClosed DEF LInv
    <3> QED  BY <2>2, <3>3 DEF Missing
  <2> QED  BY <2>1, <2>2 DEF NotFound
<1>3. /\ Needed' = Needed /\ found' = found /\ text' = text /\ entry' = entry
      /\ Missing(Needed)' = Missing(Needed)
  <2>1. UNCHANGED files
    BY <1>1
  <2> QED  BY <2>1, NeedStays DEF files, Missing
<1>4. UNCHANGED <<nodes, edges, walk, visited, order, queue>>
  BY <1>1 DEF sortVars
<1>5. IInv'
  BY <1>4, SortStays DEF LInv
<1>6. Files' /\ Grown' /\ Waiting' /\ Places'
  BY <1>3, <1>4 DEF LInv, Files, Grown, Waiting, Places
<1>7. Phases'
  BY <1>1, <1>2, <1>3 DEF Phases
<1> QED  BY <1>5, <1>6, <1>7 DEF LInv

LEMMA LoadedKeeps ==
  ASSUME LInv, Loaded \/ Finish
  PROVE  LInv'
<1>1. UNCHANGED <<files, queue, nodes, edges, walk, visited, order>>
  BY DEF Loaded, Finish, sortVars
<1>2. Needed' = Needed /\ found' = found /\ text' = text /\ entry' = entry
  BY <1>1, NeedStays DEF files
<1>3. IInv'
  BY <1>1, SortStays DEF LInv
<1>4. Files' /\ Grown' /\ Waiting' /\ Places'
  BY <1>1, <1>2 DEF LInv, Files, Grown, Waiting, Places
<1>5. Phases'
  <2>1. CASE Loaded
    BY <1>1, <2>1 DEF Loaded, LInv, Phases
  <2>2. CASE Finish
    <3>1. Sorted'
      BY <1>1, <2>2 DEF Finish, Sorted
    <3> QED  BY <1>1, <2>2, <3>1 DEF Finish, LInv, Phases
  <2> QED  BY <2>1, <2>2
<1> QED  BY <1>3, <1>4, <1>5 DEF LInv

\* Where the walk is after it has looked at an import.
LEMMA WalkedOn ==
  ASSUME IInv, VisitImport
  PROVE  \E c \in Names :
            /\ Top.id \in Names /\ c \in edges[Top.id]
            /\ visited' = visited \cup {c}
            /\ \A i \in DOMAIN walk : i \in DOMAIN walk' /\ walk'[i].id = walk[i].id
            /\ \A i \in DOMAIN walk' \ DOMAIN walk :
                  i = Len(walk) + 1 /\ walk'[i].id = c /\ c \notin visited
<1> USE DEF IInv, Shape
<1> DEFINE top == Len(walk)
<1>1. PICK c \in Top.left :
         /\ walk' = IF c \in visited
                    THEN Append(Below, [Top EXCEPT !.left = @ \ {c}])
                    ELSE Append(Append(Below, [Top EXCEPT !.left = @ \ {c}]), Enter(c))
         /\ visited' = visited \cup {c}
  BY DEF VisitImport
<1> DEFINE here == Append(Below, [Top EXCEPT !.left = @ \ {c}])
<1>2. walk # <<>>
  BY DEF VisitImport
<1>3. /\ top \in Nat \ {0} /\ Top = walk[top] /\ Top \in Calls
      /\ Below \in Seq(Calls) /\ Len(Below) = top - 1
      /\ \A i \in 1 .. top - 1 : Below[i] = walk[i]
  BY <1>2, BelowIs DEF Top
<1>4. c \in Names /\ Top.id \in Names /\ c \in edges[Top.id]
  <2>1. Top.id \in Names /\ Top.left \subseteq Names
    BY <1>3 DEF Calls
  <2>2. top \in DOMAIN walk
    BY <1>3, LenProperties
  <2>3. Top.left \subseteq edges[Top.id]
    BY <1>3, <2>2 DEF Progress
  <2> QED  BY <1>1, <2>1, <2>3
<1>5. [Top EXCEPT !.left = @ \ {c}] \in Calls /\ Enter(c) \in Calls /\ Enter(c).id = c
  BY <1>3, <1>4 DEF Calls, Enter
<1>6. /\ here \in Seq(Calls) /\ Len(here) = top
      /\ here[top] = [Top EXCEPT !.left = @ \ {c}]
      /\ \A i \in 1 .. top - 1 : here[i] = walk[i]
  BY <1>3, <1>5, AppendProperties
<1>7. here[top].id = Top.id
  BY <1>3, <1>6 DEF Calls
<1>8. \A i \in 1 .. top : here[i].id = walk[i].id
  BY <1>3, <1>6, <1>7
<1>9. DOMAIN walk = 1 .. top /\ DOMAIN here = 1 .. top
  BY <1>3, <1>6, LenProperties
<1>10. walk' = IF c \in visited THEN here ELSE Append(here, Enter(c))
  BY <1>1
<1> HIDE DEF here, top
<1>11. CASE c \in visited
  BY <1>1, <1>4, <1>8, <1>9, <1>10, <1>11
<1>12. CASE c \notin visited
  <2>1. walk' = Append(here, Enter(c))
    BY <1>10, <1>12
  <2>2. /\ walk' \in Seq(Calls) /\ Len(walk') = top + 1
        /\ \A i \in 1 .. top : walk'[i] = here[i]
        /\ walk'[top + 1] = Enter(c)
    BY <1>5, <1>6, <2>1, AppendProperties
  <2>3. DOMAIN walk' = 1 .. top + 1
    BY <2>2, LenProperties
  <2>4. \A i \in DOMAIN walk : i \in DOMAIN walk' /\ walk'[i].id = walk[i].id
    BY <1>3, <1>8, <1>9, <2>2, <2>3
  <2>5. \A i \in DOMAIN walk' \ DOMAIN walk : i = top + 1 /\ walk'[i].id = c
    BY <1>3, <1>5, <1>9, <2>2, <2>3
  <2> QED  BY <1>1, <1>4, <1>12, <2>4, <2>5 DEF top
<1> QED  BY <1>11, <1>12

LEMMA WalkKeepsPlaces ==
  ASSUME LInv, SortNext
  PROVE  Places'
<1>1. IInv /\ Grown /\ Places /\ nodes \in Seq(Names) /\ order \in Seq(Names)
  BY DEF LInv, IInv, Shape
<1>2. nodes' = nodes
  BY DEF SortNext, VisitNode, VisitImport, Place, graph
<1>3. CASE VisitNode
  <2>1. PICK i \in DOMAIN nodes : /\ nodes[i] \notin visited
                                  /\ walk' = <<Enter(nodes[i])>>
                                  /\ visited' = visited \cup {nodes[i]}
    BY <1>3 DEF VisitNode
  <2>2. order' = order
    BY <1>3 DEF VisitNode
  <2>3. nodes[i] \in Range(nodes)
    BY DEF Range
  <2>4. DOMAIN walk' = {1} /\ walk'[1].id = nodes[i]
    BY <2>1 DEF Enter
  <2>5. visited' \subseteq Range(nodes') /\ Range(order') \subseteq visited' /\ IsInjective(order')
    BY <1>1, <1>2, <2>1, <2>2, <2>3 DEF Places
  <2>6. \A k \in DOMAIN walk' : walk'[k].id \in visited' \ Range(order')
    BY <1>1, <2>1, <2>2, <2>4 DEF Places
  <2> QED  BY <2>4, <2>5, <2>6 DEF Places
<1>4. CASE VisitImport
  <2>1. PICK c \in Names :
            /\ Top.id \in Names /\ c \in edges[Top.id]
            /\ visited' = visited \cup {c}
            /\ \A i \in DOMAIN walk : i \in DOMAIN walk' /\ walk'[i].id = walk[i].id
            /\ \A i \in DOMAIN walk' \ DOMAIN walk :
                  i = Len(walk) + 1 /\ walk'[i].id = c /\ c \notin visited
    BY <1>1, <1>4, WalkedOn
  <2>2. order' = order
    BY <1>4 DEF VisitImport
  <2>3. c \in Range(nodes)
    BY <1>1, <2>1 DEF Grown
  <2>4. visited' \subseteq Range(nodes') /\ Range(order') \subseteq visited' /\ IsInjective(order')
    BY <1>1, <1>2, <2>1, <2>2, <2>3 DEF Places
  <2>5. ASSUME NEW i \in DOMAIN walk' PROVE walk'[i].id \in visited' \ Range(order')
    BY <1>1, <2>1, <2>2, <2>5 DEF Places
  <2>6. ASSUME NEW i \in DOMAIN walk', NEW j \in DOMAIN walk', walk'[i].id = walk'[j].id
        PROVE  i = j
    <3>1. CASE i \in DOMAIN walk /\ j \in DOMAIN walk
      BY <1>1, <2>1, <2>6, <3>1 DEF Places
    <3>2. CASE i \in DOMAIN walk /\ j \notin DOMAIN walk
      BY <1>1, <2>1, <2>6, <3>2 DEF Places
    <3>3. CASE i \notin DOMAIN walk /\ j \in DOMAIN walk
      BY <1>1, <2>1, <2>6, <3>3 DEF Places
    <3>4. CASE i \notin DOMAIN walk /\ j \notin DOMAIN walk
      BY <2>1, <3>4
    <3> QED  BY <3>1, <3>2, <3>3, <3>4
  <2> QED  BY <2>4, <2>5, <2>6 DEF Places
<1>5. CASE Place
  <2> DEFINE top == Len(walk)
             last == Len(order) + 1
  <2>1. /\ walk # <<>> /\ order' = Append(order, Top.id) /\ walk' = Below
        /\ visited' = visited
    BY <1>5 DEF Place
  <2>2. /\ top \in Nat \ {0} /\ Top = walk[top] /\ Top \in Calls
        /\ Below \in Seq(Calls) /\ Len(Below) = top - 1
        /\ \A i \in 1 .. top - 1 : Below[i] = walk[i]
    BY <1>1, <2>1, BelowIs DEF Top, IInv, Shape
  <2>3. DOMAIN walk = 1 .. top /\ DOMAIN walk' = 1 .. top - 1
    <3>1. walk \in Seq(Calls) /\ walk' \in Seq(Calls) /\ Len(walk') = top - 1
      BY <1>1, <2>1, <2>2 DEF IInv, Shape
    <3> QED  BY <3>1, LenProperties
  <2>4. /\ order' \in Seq(Names) /\ Len(order') = last /\ order'[last] = Top.id
        /\ \A i \in 1 .. Len(order) : order'[i] = order[i]
        /\ DOMAIN order = 1 .. Len(order) /\ DOMAIN order' = 1 .. last
        /\ Len(order) \in Nat
    <3>1. Top.id \in Names
      BY <2>2 DEF Calls
    <3>2. order' \in Seq(Names)
      BY <1>1, <2>1, <3>1, AppendProperties
    <3> QED  BY <1>1, <2>1, <3>1, <3>2, AppendProperties, LenProperties
  <2> HIDE DEF top, last
  <2>5. Top.id \in visited \ Range(order)
    BY <1>1, <2>2, <2>3 DEF Places
  <2>6. Range(order') = Range(order) \cup {Top.id}
    <3>1. DOMAIN order' = DOMAIN order \cup {last}
      BY <2>4 DEF last
    <3>2. \A k \in DOMAIN order : order'[k] = order[k]
      BY <2>4
    <3>3. last \in DOMAIN order'
      BY <3>1
    <3>4. \A x \in Range(order') : x \in Range(order) \cup {Top.id}
      BY <2>4, <3>1, <3>2 DEF Range
    <3>5. \A x \in Range(order) \cup {Top.id} : x \in Range(order')
      BY <2>4, <3>1, <3>2, <3>3 DEF Range
    <3> QED  BY <3>4, <3>5
  <2>7. ASSUME NEW i \in DOMAIN order', NEW j \in DOMAIN order', order'[i] = order'[j]
        PROVE  i = j
    <3>1. \A k \in DOMAIN order : order'[k] = order[k] /\ order[k] # order'[last]
      BY <2>4, <2>5 DEF Range
    <3>2. \A k \in DOMAIN order' : k \in DOMAIN order \/ k = last
      BY <2>4 DEF last
    <3> QED  BY <1>1, <2>7, <3>1, <3>2 DEF Places, IsInjective
  <2>8. ASSUME NEW i \in DOMAIN walk'
        PROVE  i \in DOMAIN walk /\ walk'[i] = walk[i] /\ walk[i].id # Top.id
    <3>1. i \in DOMAIN walk /\ top \in DOMAIN walk /\ i # top /\ walk'[i] = walk[i]
      BY <2>1, <2>2, <2>3, <2>8
    <3> QED  BY <1>1, <2>2, <3>1 DEF Places
  <2>9. visited' \subseteq Range(nodes') /\ Range(order') \subseteq visited'
    BY <1>1, <1>2, <2>1, <2>5, <2>6 DEF Places
  <2>10. IsInjective(order')
    BY <2>7 DEF IsInjective
  <2>11. \A i \in DOMAIN walk' : walk'[i].id \in visited' \ Range(order')
    BY <1>1, <2>1, <2>6, <2>8 DEF Places
  <2>12. \A i, j \in DOMAIN walk' : walk'[i].id = walk'[j].id => i = j
    BY <1>1, <2>8 DEF Places
  <2> QED  BY <2>9, <2>10, <2>11, <2>12 DEF Places
<1> QED  BY <1>3, <1>4, <1>5 DEF SortNext

LEMMA SortKeeps ==
  ASSUME LInv, Sort
  PROVE  LInv'
<1>1. phase = "sort" /\ SortNext /\ UNCHANGED <<files, phase, queue>>
  BY DEF Sort
<1>2. UNCHANGED <<nodes, edges>>
  BY <1>1 DEF SortNext, VisitNode, VisitImport, Place, graph
<1>3. IInv'
  BY <1>1, VisitNodeKeeps, VisitImportKeeps, PlaceKeeps DEF LInv, SortNext
<1>4. Places'
  BY <1>1, WalkKeepsPlaces
<1>5. Needed' = Needed /\ found' = found /\ text' = text /\ entry' = entry
  BY <1>1, NeedStays DEF files
<1>6. Files' /\ Grown' /\ Waiting'
  BY <1>1, <1>2, <1>5 DEF LInv, Files, Grown, Waiting
<1>7. Phases'
  BY <1>1, <1>2 DEF LInv, Phases
<1> QED  BY <1>3, <1>4, <1>6, <1>7 DEF LInv

-----------------------------------------------------------------------------

THEOREM LoaderInvariant == LoadSpec => []LInv
<1>1. LInv /\ UNCHANGED loadVars => LInv'
  <2> SUFFICES ASSUME LInv, UNCHANGED loadVars PROVE LInv'
    OBVIOUS
  <2>1. UNCHANGED <<files, phase, queue, nodes, edges, walk, visited, order>>
    BY DEF loadVars, sortVars
  <2>2. Needed' = Needed /\ found' = found /\ text' = text /\ entry' = entry
    BY <2>1, NeedStays DEF files
  <2>3. Missing(Needed)' = Missing(Needed)
    BY <2>2 DEF Missing
  <2>4. IInv'
    BY <2>1, SortStays DEF LInv
  <2>5. Files' /\ Grown' /\ Waiting' /\ Places'
    BY <2>1, <2>2 DEF LInv, Files, Grown, Waiting, Places
  <2>6. Phases'
    BY <2>1, <2>3 DEF LInv, Phases, Sorted, SortInit
  <2> QED  BY <2>4, <2>5, <2>6 DEF LInv
<1>2. LInv /\ LoadNext => LInv'
  BY AddRootsKeeps, LoadImportsKeeps, NotFoundKeeps, LoadedKeeps, SortKeeps DEF LoadNext
<1> QED  BY LoadInitHolds, <1>1, <1>2, PTL DEF LoadSpec

(* A module is one node, waits at most once, has at most one place, and the   *)
(* walk is inside of it at most once (ModuleGraph.index, load_graph).         *)
THEOREM LoaderShape == LoadSpec => []TypeOKLoader
<1>1. LInv => TypeOKLoader
  BY DEF LInv, IInv, Shape, Grown, Waiting, Places, TypeOKLoader
<1> QED  BY <1>1, LoaderInvariant, PTL

(* The graph a compilation has loaded is one the order is right for: what is  *)
(* added to it on the way, and the imports that come late, change nothing.    *)
THEOREM LoadedInOrder == LoadSpec => []ImportsFirst
<1>1. LInv => ImportsFirst
  BY DEF LInv, IInv
<1> QED  BY <1>1, LoaderInvariant, PTL

\* The modules that are there when nothing waits any more.
LEMMA LoadedIsNeeded ==
  ASSUME LInv, phase = "done"
  PROVE  Range(nodes) = Needed /\ Range(order) = Range(nodes)
<1>1. queue = <<>> /\ Roots \subseteq Range(nodes) /\ walk = <<>> /\ Range(nodes) \subseteq visited
  BY DEF LInv, Phases, Sorted
<1>2. Range(queue) = {}
  BY <1>1 DEF Range
<1>3. Range(nodes) \subseteq Names
  BY RangeOfSeq DEF LInv, IInv, Shape
<1>4. \A n \in Range(nodes) \cap found : text[n] \subseteq Range(nodes)
  BY <1>2, <1>3 DEF LInv, Waiting, Grown
<1>5. Needed \subseteq Range(nodes)
  BY <1>1, <1>3, <1>4, NeededIsLeast DEF LInv, Grown
<1>6. \A n \in visited : n \in Range(order)
  BY <1>1 DEF LInv, IInv, Accounted, Placed, Inside, Range
<1> QED  BY <1>1, <1>5, <1>6 DEF LInv, Grown, Places

(* The order that is handed on names exactly the modules the program needs,   *)
(* and loading fails only for a module that is needed and is not there        *)
(* (load_graph with its worklist, loader.rs).                                 *)
THEOREM LoadsWhatIsNeeded == LoadSpec => []GraphComplete
<1>1. LInv => GraphComplete
  <2> SUFFICES ASSUME LInv PROVE GraphComplete
    OBVIOUS
  <2>1. CASE phase = "done"
    <3>1. Range(nodes) = Needed /\ Range(order) = Range(nodes)
      BY <2>1, LoadedIsNeeded
    <3>2. Missing(Needed) = {}
      BY <3>1 DEF LInv, Grown, Missing
    <3> QED  BY <2>1, <3>1, <3>2 DEF GraphComplete
  <2>2. CASE phase = "failed"
    BY <2>2 DEF LInv, Phases, GraphComplete
  <2>3. CASE phase \notin {"done", "failed"}
    BY <2>3 DEF GraphComplete
  <2> QED  BY <2>1, <2>2, <2>3
<1> QED  BY <1>1, LoaderInvariant, PTL
-----------------------------------------------------------------------------
(***************************************************************************)
(* The interface cache (SymCache), for any import graph and any number of  *)
(* compilers: what a compilation uses is what it has read.                 *)
(***************************************************************************)

Downward(im, S) == \A m \in S : im[m] \subseteq S

\* A module with all it imports, on the import graph im.
Cone(im, m) == {n \in Modules : \A S \in SUBSET Modules : m \in S /\ Downward(im, S) => n \in S}

\* The DEFs of the modules in S, and those that a key is about.
DefsOf(sn, S) == {<<n, "def", sn[n].def>> : n \in S}
DefsIn(key) == {<<k[1], "def", k[2]>> : k \in key}

Marks == Versions \cup {0}
Texts == Modules \X {"def", "mod"} \X Marks

CacheTypes ==
    /\ imports \in [Modules -> SUBSET Modules] /\ bodied \subseteq Modules
    /\ source \in [Modules -> [def : Versions, mod : Versions]]
    /\ file \in [Modules -> [Versions -> [key : SUBSET (Modules \X Marks), parts : SUBSET Texts]]]
    /\ stage \in [Procs -> {"idle", "read", "check", "store"}]
    /\ seen \in [Procs -> [Modules -> [def : Marks, mod : Marks]]]
    /\ made \in [Procs -> [Modules -> SUBSET Texts]]
    /\ hits \in [Procs -> SUBSET Modules]
    /\ linked \in [Procs -> [Modules -> [Modules -> Nat]]]
    /\ todo \in [Procs -> SUBSET Modules]
    /\ torn \in [Procs -> SUBSET Modules]

\* An interface file, when it is there and whole, is about its module, and its
\* content is made from the DEFs its key names.
Filed(m, v, iface) ==
    iface = NoFile \/ (<<m, v>> \in iface.key /\ Defs(iface.parts) = DefsIn(iface.key))

\* How far a process has come: what it has read, built and written.
StageFits(bo, st, sn, md, ht, td, tr) ==
    /\ st \in {"idle", "read"} => ht = {} /\ \A m \in Modules : md[m] = {}
    /\ st = "read" => \A m \in Modules \ td : sn[m].def \in Versions
    /\ st \in {"check", "store"} => \A m \in Modules : sn[m].def \in Versions
    /\ st = "check" => \A m \in Modules \ td : md[m] # {}
    /\ st = "store" => td \subseteq Modules \ (ht \cup bo) /\ \A m \in Modules : md[m] # {}
    /\ tr \subseteq td /\ (tr = {} \/ st = "store")

\* What a process has built: of the DEFs it has read, from modules it has built
\* and linked to them.
Builds(im, bo, na, sn, md, ht, lk) ==
    /\ \A m \in ht : m \notin bo /\ md[m] # {}
    /\ \A m \in Modules : md[m] # {} =>
          /\ Defs(md[m]) = DefsOf(sn, Cone(im, m))
          /\ \A n \in im[m] : /\ md[n] # {}
                              /\ lk[m][n] = IF m \in ht /\ n \in na \ {m} THEN 0 ELSE lk[n][n]

\* The inductive invariant.
CacheInv ==
    /\ CacheTypes
    /\ \A m \in Modules, v \in Versions : Filed(m, v, file[m][v])
    /\ \A p \in Procs :
         /\ StageFits(bodied, stage[p], seen[p], made[p], hits[p], todo[p], torn[p])
         /\ Builds(imports, bodied, nameless, seen[p], made[p], hits[p], linked[p])

-----------------------------------------------------------------------------
(* What a module imports, directly or not.                                   *)

Onward(im, S) == S \cup UNION {im[m] : m \in S}
Onwards(im, f) == [S \in SUBSET Modules |-> IF Onward(im, S) = S THEN S ELSE f[Onward(im, S)]]
Smallest(im, S) == {n \in Modules : \A T \in SUBSET Modules : S \subseteq T /\ Downward(im, T) => n \in T}

LEMMA SmallestIs ==
  ASSUME NEW im \in [Modules -> SUBSET Modules], NEW S \in SUBSET Modules
  PROVE  /\ Onward(im, S) \in SUBSET Modules
         /\ Smallest(im, S) = Smallest(im, Onward(im, S))
         /\ Onward(im, S) = S => Smallest(im, S) = S
<1>1. Onward(im, S) \in SUBSET Modules
  BY DEF Onward
<1>2. \A T \in SUBSET Modules : Downward(im, T) => (S \subseteq T <=> Onward(im, S) \subseteq T)
  BY DEF Downward, Onward
<1>3. Smallest(im, S) = Smallest(im, Onward(im, S))
  BY <1>2 DEF Smallest
<1>4. ASSUME Onward(im, S) = S PROVE Smallest(im, S) = S
  <2>1. Downward(im, S)
    BY <1>4 DEF Downward, Onward
  <2> QED  BY <2>1 DEF Smallest
<1> QED  BY <1>1, <1>3, <1>4

LEMMA ReachExists ==
  ASSUME NEW im \in [Modules -> SUBSET Modules]
  PROVE  \E f : f = Onwards(im, f)
<1> DEFINE f == [S \in SUBSET Modules |-> Smallest(im, S)]
<1>1. ASSUME NEW S \in SUBSET Modules
      PROVE  f[S] = IF Onward(im, S) = S THEN S ELSE f[Onward(im, S)]
  BY SmallestIs
<1>2. f = [S \in SUBSET Modules |-> f[S]]
  OBVIOUS
<1> HIDE DEF f
<1>3. [S \in SUBSET Modules |-> f[S]] = Onwards(im, f)
  BY <1>1 DEF Onwards
<1> QED  BY <1>2, <1>3

LEMMA ReachIs ==
  ASSUME imports \in [Modules -> SUBSET Modules], NEW m \in Modules
  PROVE  Reach[{m}] = Cone(imports, m)
<1> DEFINE g == CHOOSE f : f = Onwards(imports, f)
           Right(S) == g[S] = Smallest(imports, S)
           I == {k \in Nat : \A S \in SUBSET Modules : Cardinality(Modules \ S) <= k => Right(S)}
<1>1. Reach = g
  BY DEF Reach, Onwards, Onward
<1>2. g = Onwards(imports, g)
  BY ReachExists
<1> HIDE DEF g
<1>3. \A S \in SUBSET Modules : g[S] = IF Onward(imports, S) = S THEN S ELSE g[Onward(imports, S)]
  BY <1>2 DEF Onwards
<1>4. ASSUME NEW S \in SUBSET Modules
      PROVE  Cardinality(Modules \ S) \in Nat /\ IsFiniteSet(Modules \ S)
  <2>1. IsFiniteSet(Modules \ S)
    BY CacheAssumption, FS_Subset
  <2> QED  BY <2>1, FS_CardinalityType
<1>5. ASSUME NEW S \in SUBSET Modules, Onward(imports, S) # S
      PROVE  Cardinality(Modules \ Onward(imports, S)) < Cardinality(Modules \ S)
  <2> DEFINE A == Modules \ S
             B == Modules \ Onward(imports, S)
  <2>1. IsFiniteSet(A)
    BY <1>4
  <2>2. B \subseteq A /\ B # A
    BY <1>5 DEF Onward
  <2> HIDE DEF A, B
  <2>3. Cardinality(B) < Cardinality(A)
    <3>1. /\ IsFiniteSet(B) /\ Cardinality(B) <= Cardinality(A)
          /\ Cardinality(A) = Cardinality(B) => A = B
      BY <2>1, <2>2, FS_Subset
    <3>2. Cardinality(A) \in Nat /\ Cardinality(B) \in Nat
      BY <2>1, <3>1, FS_CardinalityType
    <3> QED  BY <2>2, <3>1, <3>2
  <2> QED  BY <2>3 DEF A, B
<1>6. ASSUME NEW S \in SUBSET Modules, Onward(imports, S) = S PROVE Right(S)
  BY <1>3, <1>6, SmallestIs
<1>7. 0 \in I
  <2>1. ASSUME NEW S \in SUBSET Modules, Cardinality(Modules \ S) <= 0 PROVE Right(S)
    <3>1. CASE Onward(imports, S) = S
      BY <1>6, <3>1
    <3>2. CASE Onward(imports, S) # S
      <4>1. Onward(imports, S) \in SUBSET Modules
        BY SmallestIs
      <4>2. /\ Cardinality(Modules \ Onward(imports, S)) < Cardinality(Modules \ S)
            /\ Cardinality(Modules \ Onward(imports, S)) \in Nat
        BY <1>4, <1>5, <3>2, <4>1
      <4>3. Cardinality(Modules \ S) \in Nat
        BY <1>4
      <4> HIDE DEF Right
      <4> QED  BY <2>1, <4>2, <4>3
    <3> QED  BY <3>1, <3>2
  <2> QED  BY <2>1
<1>8. ASSUME NEW k \in Nat, k \in I PROVE k + 1 \in I
  <2>1. ASSUME NEW S \in SUBSET Modules, Cardinality(Modules \ S) <= k + 1 PROVE Right(S)
    <3>1. CASE Onward(imports, S) = S
      BY <1>6, <3>1
    <3>2. CASE Onward(imports, S) # S
      <4> DEFINE T == Onward(imports, S)
      <4>1. T \in SUBSET Modules /\ Smallest(imports, S) = Smallest(imports, T)
        BY SmallestIs
      <4>2. Cardinality(Modules \ T) < Cardinality(Modules \ S)
        BY <1>5, <3>2
      <4> HIDE DEF T
      <4>3. Cardinality(Modules \ T) <= k
        BY <1>4, <2>1, <4>1, <4>2
      <4>4. Right(T)
        BY <1>8, <4>1, <4>3
      <4>5. g[S] = g[T]
        BY <1>3, <3>2 DEF T
      <4> QED  BY <4>1, <4>4, <4>5
    <3> QED  BY <3>1, <3>2
  <2> QED  BY <2>1
<1>9. Nat \subseteq I
  <2> HIDE DEF I
  <2> QED  BY <1>7, <1>8, Induction
<1>10. Right({m})
  <2>1. Cardinality(Modules \ {m}) \in Nat
    BY <1>4
  <2>2. Cardinality(Modules \ {m}) \in I
    BY <1>9, <2>1
  <2>3. Cardinality(Modules \ {m}) <= Cardinality(Modules \ {m})
    BY <2>1
  <2> QED  BY <2>2, <2>3
<1>11. Smallest(imports, {m}) = Cone(imports, m)
  BY DEF Smallest, Cone
<1> QED  BY <1>1, <1>10, <1>11

LEMMA ConeIs ==
  ASSUME NEW im \in [Modules -> SUBSET Modules], NEW m \in Modules
  PROVE  /\ m \in Cone(im, m) /\ Cone(im, m) \subseteq Modules
         /\ \A n \in Cone(im, m) : im[n] \subseteq Cone(im, m) /\ Cone(im, n) \subseteq Cone(im, m)
<1>1. m \in Cone(im, m) /\ Cone(im, m) \subseteq Modules
  BY DEF Cone
<1>2. \A n \in Cone(im, m) : im[n] \subseteq Cone(im, m)
  BY DEF Cone, Downward
<1>3. \A n \in Cone(im, m) : Cone(im, n) \subseteq Cone(im, m)
  BY <1>1, <1>2 DEF Cone, Downward
<1> QED  BY <1>1, <1>2, <1>3

-----------------------------------------------------------------------------
(* One process.                                                              *)

\* The state's operators, on the values they depend on.
LEMMA KeysAre ==
  ASSUME CacheTypes, NEW p \in Procs, NEW m \in Modules
  PROVE  /\ Reach[{m}] = Cone(imports, m)
         /\ KeyOf(p, m) \subseteq Modules \X Marks
         /\ <<m, seen[p][m].def>> \in KeyOf(p, m)
         /\ DefsIn(KeyOf(p, m)) = DefsOf(seen[p], Cone(imports, m))
         /\ Defs(Fresh(p, m)) = DefsOf(seen[p], Cone(imports, m))
<1>1. imports \in [Modules -> SUBSET Modules]
  BY DEF CacheTypes
<1>2. Reach[{m}] = Cone(imports, m) /\ m \in Cone(imports, m) /\ Cone(imports, m) \subseteq Modules
  BY <1>1, ReachIs, ConeIs
<1>3. KeyOf(p, m) = {<<n, seen[p][n].def>> : n \in Cone(imports, m)}
  BY <1>2 DEF KeyOf
<1>4. \A n \in Modules : seen[p][n].def \in Marks
  BY DEF CacheTypes
<1>5. KeyOf(p, m) \subseteq Modules \X Marks /\ <<m, seen[p][m].def>> \in KeyOf(p, m)
  BY <1>2, <1>3, <1>4
<1>6. DefsIn(KeyOf(p, m)) = DefsOf(seen[p], Cone(imports, m))
  <2>1. ASSUME NEW k \in KeyOf(p, m) PROVE <<k[1], "def", k[2]>> \in DefsOf(seen[p], Cone(imports, m))
    <3>1. PICK n \in Cone(imports, m) : k = <<n, seen[p][n].def>>
      BY <1>3, <2>1
    <3>2. k[1] = n /\ k[2] = seen[p][n].def
      BY <3>1
    <3> QED  BY <3>2 DEF DefsOf
  <2>2. ASSUME NEW n \in Cone(imports, m) PROVE <<n, "def", seen[p][n].def>> \in DefsIn(KeyOf(p, m))
    <3> DEFINE k == <<n, seen[p][n].def>>
    <3>1. k \in KeyOf(p, m) /\ k[1] = n /\ k[2] = seen[p][n].def
      BY <1>3
    <3> QED  BY <3>1 DEF DefsIn
  <2> QED  BY <2>1, <2>2 DEF DefsIn, DefsOf
<1>7. Fresh(p, m) = UNION {TextsOf(seen[p], n) : n \in Cone(imports, m)}
  BY <1>2 DEF Fresh
<1>8. \A n : Defs(TextsOf(seen[p], n)) = {<<n, "def", seen[p][n].def>>}
  BY DEF Defs, TextsOf
<1>9. Defs(Fresh(p, m)) = DefsOf(seen[p], Cone(imports, m))
  BY <1>7, <1>8 DEF Defs, DefsOf
<1> QED  BY <1>2, <1>5, <1>6, <1>9

\* Link, on the generations of one process.
Relinked(im, lk, S, copied) ==
    [m \in Modules |-> IF m \in S
                       THEN [n \in Modules |-> IF n \in (im[m] \ copied) \cup {m}
                                               THEN lk[n][n] + (IF n \in S THEN 1 ELSE 0) ELSE 0]
                       ELSE lk[m]]

LEMMA RelinkedIs ==
  ASSUME NEW im, NEW lk \in [Modules -> [Modules -> Nat]], NEW S, NEW copied
  PROVE  /\ Relinked(im, lk, S, copied) \in [Modules -> [Modules -> Nat]]
         /\ \A m, n \in Modules :
              Relinked(im, lk, S, copied)[m][n] =
                 IF m \in S THEN IF n \in (im[m] \ copied) \cup {m}
                                 THEN lk[n][n] + (IF n \in S THEN 1 ELSE 0) ELSE 0
                 ELSE lk[m][n]
BY DEF Relinked

\* A module is taken from its file.
LEMMA HitBuilds ==
  ASSUME NEW im \in [Modules -> SUBSET Modules], NEW bo, NEW na, NEW sn,
         NEW md \in [Modules -> SUBSET Texts], NEW ht \in SUBSET Modules,
         NEW lk \in [Modules -> [Modules -> Nat]], Builds(im, bo, na, sn, md, ht, lk),
         NEW m \in Modules, m \notin bo, md[m] = {}, \A n \in im[m] \ {m} : md[n] # {},
         NEW parts \in SUBSET Texts, parts # {}, Defs(parts) = DefsOf(sn, Cone(im, m)),
         NEW md2, md2 = [md EXCEPT ![m] = parts], NEW lk2, lk2 = Relinked(im, lk, {m}, na)
  PROVE  Builds(im, bo, na, sn, md2, ht \cup {m}, lk2)
<1>1. \A n \in Modules : md2[n] = IF n = m THEN parts ELSE md[n]
  OBVIOUS
<1>2. \A k, n \in Modules : lk2[k][n] =
          IF k = m THEN IF n \in (im[m] \ na) \cup {m} THEN lk[n][n] + (IF n = m THEN 1 ELSE 0) ELSE 0
          ELSE lk[k][n]
  BY RelinkedIs
<1>3. lk[m][m] \in Nat /\ \A n \in Modules : lk[n][n] \in Nat
  OBVIOUS
<1>4. \A k \in ht \cup {m} : k \notin bo /\ md2[k] # {}
  BY <1>1 DEF Builds
<1>5. ASSUME NEW k \in Modules, k # m, md[k] # {}
      PROVE  /\ Defs(md2[k]) = DefsOf(sn, Cone(im, k))
             /\ \A n \in im[k] : /\ md2[n] # {}
                                 /\ lk2[k][n] = IF k \in ht \cup {m} /\ n \in na \ {k} THEN 0 ELSE lk2[n][n]
  <2>1. /\ Defs(md[k]) = DefsOf(sn, Cone(im, k))
        /\ \A n \in im[k] : /\ md[n] # {}
                            /\ lk[k][n] = IF k \in ht /\ n \in na \ {k} THEN 0 ELSE lk[n][n]
    BY <1>5 DEF Builds
  <2>2. ASSUME NEW n \in im[k]
        PROVE  /\ md2[n] # {}
               /\ lk2[k][n] = IF k \in ht \cup {m} /\ n \in na \ {k} THEN 0 ELSE lk2[n][n]
    <3>1. n \in Modules /\ n # m
      BY <2>1
    <3> QED  BY <1>1, <1>2, <1>5, <2>1, <3>1
  <2> QED  BY <1>1, <1>5, <2>1, <2>2
<1>6. ASSUME NEW n \in im[m]
      PROVE  /\ md2[n] # {}
             /\ lk2[m][n] = IF n \in na \ {m} THEN 0 ELSE lk2[n][n]
  <2>1. n \in Modules
    OBVIOUS
  <2>2. CASE n = m
    BY <1>1, <2>2
  <2>3. CASE n # m
    <3>1. md2[n] # {} /\ lk2[n][n] = lk[n][n]
      BY <1>1, <1>2, <2>1, <2>3
    <3>2. lk2[m][n] = IF n \in im[m] \ na THEN lk[n][n] + 0 ELSE 0
      BY <1>2, <2>1, <2>3
    <3>3. lk[n][n] + 0 = lk[n][n]
      BY <1>3, <2>1
    <3> QED  BY <2>3, <3>1, <3>2, <3>3
  <2> QED  BY <2>2, <2>3
<1>7. ASSUME NEW k \in Modules, md2[k] # {}
      PROVE  /\ Defs(md2[k]) = DefsOf(sn, Cone(im, k))
             /\ \A n \in im[k] : /\ md2[n] # {}
                                 /\ lk2[k][n] = IF k \in ht \cup {m} /\ n \in na \ {k} THEN 0 ELSE lk2[n][n]
  <2>1. CASE k = m
    BY <1>1, <1>6, <2>1
  <2>2. CASE k # m
    BY <1>1, <1>5, <1>7, <2>2
  <2> QED  BY <2>1, <2>2
<1> QED  BY <1>4, <1>7 DEF Builds

\* TextsOf, with the modules that have an implementation.
TextsFrom(bo, sn, m) ==
    {<<m, "def", sn[m].def>>} \cup (IF m \in bo THEN {<<m, "mod", sn[m].mod>>} ELSE {})

PartsOf(im, bo, sn, md, new, n) ==
    UNION {IF k \in new THEN TextsFrom(bo, sn, k) ELSE md[k] : k \in Cone(im, n)}

\* The modules that a check of m makes, and what there is then.
MissingOf(im, md, m) == {n \in Cone(im, m) : md[n] = {}}
Remade(im, bo, sn, md, new) ==
    [n \in Modules |-> IF n \in new THEN PartsOf(im, bo, sn, md, new, n) ELSE md[n]]

\* What one process has built, with its types.
Holds(im, bo, na, sn, md, ht, lk) ==
    /\ im \in [Modules -> SUBSET Modules] /\ md \in [Modules -> SUBSET Texts]
    /\ ht \in SUBSET Modules /\ lk \in [Modules -> [Modules -> Nat]]
    /\ Builds(im, bo, na, sn, md, ht, lk)

\* A module is checked, with what it imports and is not there yet.
LEMMA EnsureBuilds ==
  ASSUME NEW im, NEW bo, NEW na, NEW sn, NEW md, NEW ht, NEW lk, Holds(im, bo, na, sn, md, ht, lk),
         NEW m \in Modules, NEW new, new = MissingOf(im, md, m),
         NEW md2, md2 = Remade(im, bo, sn, md, new), NEW lk2, lk2 = Relinked(im, lk, new, {})
  PROVE  Builds(im, bo, na, sn, md2, ht, lk2) /\ \A n \in new : md2[n] # {}
<1>0. /\ im \in [Modules -> SUBSET Modules] /\ md \in [Modules -> SUBSET Texts]
      /\ ht \in SUBSET Modules /\ lk \in [Modules -> [Modules -> Nat]]
      /\ Builds(im, bo, na, sn, md, ht, lk) /\ new = {n \in Cone(im, m) : md[n] = {}}
      /\ md2 = [n \in Modules |-> IF n \in new THEN PartsOf(im, bo, sn, md, new, n) ELSE md[n]]
  BY DEF Holds, MissingOf, Remade
<1> USE <1>0
<1>1. /\ new \subseteq Modules
      /\ \A n \in new : im[n] \subseteq Cone(im, m) /\ Cone(im, n) \subseteq Cone(im, m)
  BY ConeIs
<1>2. \A n \in Modules : n \in Cone(im, n) /\ Cone(im, n) \subseteq Modules
  BY ConeIs
<1>3. \A k, n \in Modules : lk2[k][n] =
          IF k \in new THEN IF n \in im[k] \cup {k} THEN lk[n][n] + (IF n \in new THEN 1 ELSE 0) ELSE 0
          ELSE lk[k][n]
  <2>1. \A k : (im[k] \ {}) \cup {k} = im[k] \cup {k}
    OBVIOUS
  <2>2. \A k, n \in Modules : lk2[k][n] =
          IF k \in new THEN IF n \in (im[k] \ {}) \cup {k} THEN lk[n][n] + (IF n \in new THEN 1 ELSE 0) ELSE 0
          ELSE lk[k][n]
    <3>1. lk \in [Modules -> [Modules -> Nat]]
      OBVIOUS
    <3> DEFINE l == Relinked(im, lk, new, {})
    <3>2. \A k, n \in Modules : l[k][n] =
            IF k \in new THEN IF n \in (im[k] \ {}) \cup {k} THEN lk[n][n] + (IF n \in new THEN 1 ELSE 0) ELSE 0
            ELSE lk[k][n]
      BY <3>1 DEF Relinked
    <3>3. lk2 = l
      OBVIOUS
    <3> HIDE DEF l
    <3> QED  BY <3>2, <3>3
  <2> QED  BY <2>1, <2>2
<1>4. \A n \in Modules : lk[n][n] \in Nat
  OBVIOUS
<1>5. ASSUME NEW n \in new
      PROVE  md2[n] # {} /\ Defs(md2[n]) = DefsOf(sn, Cone(im, n))
  <2> DEFINE part(k) == IF k \in new THEN TextsFrom(bo, sn, k) ELSE md[k]
  <2>1. n \in Modules /\ md2[n] = UNION {part(k) : k \in Cone(im, n)}
    BY <1>1 DEF PartsOf
  <2>2. ASSUME NEW k \in Cone(im, n)
        PROVE  Defs(part(k)) \subseteq DefsOf(sn, Cone(im, n)) /\ <<k, "def", sn[k].def>> \in part(k)
    <3>1. k \in Modules /\ k \in Cone(im, m)
      BY <1>1, <1>2, <2>1
    <3>2. CASE k \in new
      <4>1. Defs(part(k)) = {<<k, "def", sn[k].def>>}
        BY <3>2 DEF Defs, TextsFrom
      <4> QED  BY <3>2, <4>1 DEF DefsOf, TextsFrom
    <3>3. CASE k \notin new
      <4>1. part(k) = md[k] /\ Defs(md[k]) = DefsOf(sn, Cone(im, k))
        BY <3>1, <3>3 DEF Builds
      <4>2. k \in Cone(im, k) /\ Cone(im, k) \subseteq Cone(im, n)
        BY <2>1, <3>1, ConeIs
      <4>3. DefsOf(sn, Cone(im, k)) \subseteq DefsOf(sn, Cone(im, n))
        BY <4>2 DEF DefsOf
      <4>4. <<k, "def", sn[k].def>> \in DefsOf(sn, Cone(im, k))
        BY <4>2 DEF DefsOf
      <4> QED  BY <4>1, <4>3, <4>4 DEF Defs
    <3> QED  BY <3>2, <3>3
  <2> HIDE DEF part
  <2>3. Defs(md2[n]) \subseteq DefsOf(sn, Cone(im, n))
    <3>1. \A t \in md2[n] : \E k \in Cone(im, n) : t \in part(k)
      BY <2>1
    <3>2. \A k \in Cone(im, n) : \A t \in part(k) : t[2] = "def" => t \in DefsOf(sn, Cone(im, n))
      BY <2>2 DEF Defs
    <3> QED  BY <3>1, <3>2 DEF Defs
  <2>4. \A k \in Cone(im, n) : <<k, "def", sn[k].def>> \in md2[n]
    <3>1. ASSUME NEW k \in Cone(im, n) PROVE <<k, "def", sn[k].def>> \in md2[n]
      BY <2>1, <2>2
    <3> QED  BY <3>1
  <2>5. DefsOf(sn, Cone(im, n)) \subseteq Defs(md2[n])
    <3>1. ASSUME NEW k \in Cone(im, n) PROVE <<k, "def", sn[k].def>> \in Defs(md2[n])
      <4>1. <<k, "def", sn[k].def>>[2] = "def"
        OBVIOUS
      <4> QED  BY <2>4, <4>1 DEF Defs
    <3> QED  BY <3>1 DEF DefsOf
  <2>6. md2[n] # {}
    BY <1>2, <2>1, <2>4
  <2> QED  BY <2>3, <2>5, <2>6
<1>6. \A n \in Modules \ new : md2[n] = md[n]
  OBVIOUS
<1>7. \A n \in ht : n \notin bo /\ md[n] # {} /\ n \notin new /\ n \in Modules
  BY DEF Builds
<1>8. ASSUME NEW k \in new, NEW n \in im[k]
      PROVE  md2[n] # {} /\ lk2[k][n] = lk2[n][n]
  <2>1. k \in Modules /\ n \in Modules /\ n \in Cone(im, m)
    BY <1>1
  <2>2. CASE n \in new
    BY <1>3, <1>5, <2>1, <2>2
  <2>3. CASE n \notin new
    <3>1. md[n] # {}
      BY <2>1, <2>3
    <3>2. lk2[k][n] = lk[n][n] + 0 /\ lk2[n][n] = lk[n][n]
      BY <1>3, <2>1, <2>3
    <3>3. lk[n][n] + 0 = lk[n][n]
      BY <1>4, <2>1
    <3>4. md2[n] = md[n]
      BY <1>6, <2>1, <2>3
    <3> QED  BY <3>1, <3>2, <3>3, <3>4
  <2> QED  BY <2>2, <2>3
<1>9. ASSUME NEW k \in Modules \ new, md[k] # {}, NEW n \in im[k]
      PROVE  /\ md2[n] # {}
             /\ lk2[k][n] = IF k \in ht /\ n \in na \ {k} THEN 0 ELSE lk2[n][n]
  <2>1. n \in Modules /\ md[n] # {} /\ lk[k][n] = IF k \in ht /\ n \in na \ {k} THEN 0 ELSE lk[n][n]
    BY <1>9 DEF Builds
  <2>2. n \notin new
    BY <2>1
  <2> QED  BY <1>3, <1>6, <2>1, <2>2
<1>10. ASSUME NEW k \in Modules, md2[k] # {}
       PROVE  /\ Defs(md2[k]) = DefsOf(sn, Cone(im, k))
              /\ \A n \in im[k] : /\ md2[n] # {}
                                  /\ lk2[k][n] = IF k \in ht /\ n \in na \ {k} THEN 0 ELSE lk2[n][n]
  <2>1. CASE k \in new
    BY <1>5, <1>7, <1>8, <2>1
  <2>2. CASE k \notin new
    <3>1. md[k] # {} /\ md2[k] = md[k]
      BY <1>6, <1>10, <2>2
    <3>2. Defs(md[k]) = DefsOf(sn, Cone(im, k))
      BY <3>1 DEF Builds
    <3>3. \A n \in im[k] : /\ md2[n] # {}
                          /\ lk2[k][n] = IF k \in ht /\ n \in na \ {k} THEN 0 ELSE lk2[n][n]
      BY <1>9, <2>2, <3>1
    <3> QED  BY <3>1, <3>2, <3>3
  <2> QED  BY <2>1, <2>2
<1>11. \A n \in ht : n \notin bo /\ md2[n] # {}
  BY <1>6, <1>7
<1> QED  BY <1>5, <1>10, <1>11 DEF Builds

-----------------------------------------------------------------------------
(* The steps.                                                                *)

\* What holds of a process after a step, and what of the others.
ProcFits(p) == /\ StageFits(bodied, stage[p], seen[p], made[p], hits[p], todo[p], torn[p])
            /\ Builds(imports, bodied, nameless, seen[p], made[p], hits[p], linked[p])

Unmoved(p) == /\ stage'[p] = stage[p] /\ seen'[p] = seen[p] /\ made'[p] = made[p] /\ hits'[p] = hits[p]
           /\ linked'[p] = linked[p] /\ todo'[p] = todo[p] /\ torn'[p] = torn[p]

EntriesFit == \A m \in Modules, v \in Versions : Filed(m, v, file[m][v])

LEMMA CacheInvIs == CacheInv <=> CacheTypes /\ EntriesFit /\ \A p \in Procs : ProcFits(p)
  BY DEF CacheInv, EntriesFit, ProcFits

LEMMA OthersKeep ==
  ASSUME CacheInv, UNCHANGED shape, NEW p \in Procs, \A q \in Procs \ {p} : Unmoved(q),
         CacheTypes', EntriesFit', ProcFits(p)'
  PROVE  CacheInv'
<1>1. ASSUME NEW q \in Procs \ {p} PROVE ProcFits(q)'
  <2>1. ProcFits(q) /\ Unmoved(q) /\ imports' = imports /\ bodied' = bodied /\ nameless' = nameless
    BY CacheInvIs DEF shape
  <2> QED  BY <2>1 DEF ProcFits, Unmoved
<1>2. \A q \in Procs : ProcFits(q)'
  BY <1>1
<1> QED  BY <1>2 DEF CacheInv, EntriesFit, ProcFits

LEMMA CacheStarts == CacheInit => CacheInv
<1> SUFFICES ASSUME CacheInit PROVE CacheInv
  OBVIOUS
<1>1. CacheTypes
  <2>1. /\ imports \in [Modules -> SUBSET Modules] /\ bodied \subseteq Modules
        /\ source \in [Modules -> [def : Versions, mod : Versions]]
    BY CacheAssumption DEF CacheInit
  <2>2. NoFile \in [key : SUBSET (Modules \X Marks), parts : SUBSET Texts]
    BY DEF NoFile
  <2>3. Unread \in [def : Marks, mod : Marks]
    BY DEF Unread, Marks
  <2>4. /\ file \in [Modules -> [Versions -> [key : SUBSET (Modules \X Marks), parts : SUBSET Texts]]]
        /\ seen \in [Procs -> [Modules -> [def : Marks, mod : Marks]]]
    BY <2>2, <2>3 DEF CacheInit
  <2>5. /\ made \in [Procs -> [Modules -> SUBSET Texts]]
        /\ linked \in [Procs -> [Modules -> [Modules -> Nat]]]
    BY DEF CacheInit
  <2> QED  BY <2>1, <2>4, <2>5 DEF CacheInit, CacheTypes
<1>2. EntriesFit
  BY DEF CacheInit, EntriesFit, Filed
<1>3. \A p \in Procs : ProcFits(p)
  BY DEF CacheInit, ProcFits, StageFits, Builds
<1> QED  BY <1>1, <1>2, <1>3, CacheInvIs

LEMMA EditKeeps ==
  ASSUME CacheInv, NEW m \in Modules, NEW part \in {"def", "mod"}, NEW v \in Versions, Edit(m, part, v)
  PROVE  CacheInv'
<1>1. CacheTypes'
  <2>1. source' \in [Modules -> [def : Versions, mod : Versions]]
    BY DEF Edit, CacheInv, CacheTypes
  <2> QED  BY <2>1 DEF Edit, CacheInv, CacheTypes, shape, procVars
<1> QED  BY <1>1 DEF Edit, CacheInv, shape, procVars

LEMMA BeginKeeps ==
  ASSUME CacheInv, NEW p \in Procs, Begin(p)
  PROVE  CacheInv'
<1>1. CacheTypes /\ EntriesFit /\ ProcFits(p)
  BY CacheInvIs
<1>2. /\ imports' = imports /\ bodied' = bodied /\ nameless' = nameless /\ source' = source /\ file' = file
      /\ seen' = seen /\ made' = made /\ hits' = hits /\ linked' = linked /\ torn' = torn
      /\ stage[p] = "idle" /\ stage' = [stage EXCEPT ![p] = "read"] /\ todo' = [todo EXCEPT ![p] = Modules]
  BY DEF Begin, disk, shape
<1>3. CacheTypes' /\ EntriesFit'
  BY <1>1, <1>2 DEF CacheTypes, EntriesFit
<1>4. stage'[p] = "read" /\ todo'[p] = Modules
  BY <1>1, <1>2 DEF CacheTypes
<1>5. ProcFits(p)'
  <2>1. torn[p] = {}
    BY <1>1, <1>2 DEF ProcFits, StageFits
  <2> QED  BY <1>1, <1>2, <1>4, <2>1 DEF ProcFits, StageFits
<1>6. \A q \in Procs \ {p} : Unmoved(q)
  BY <1>1, <1>2 DEF CacheTypes, Unmoved
<1> QED  BY <1>2, <1>3, <1>5, <1>6, OthersKeep DEF shape

LEMMA ReadKeeps ==
  ASSUME CacheInv, NEW p \in Procs, NEW m \in Modules, Read(p, m)
  PROVE  CacheInv'
<1>1. CacheTypes /\ EntriesFit /\ ProcFits(p)
  BY CacheInvIs
<1>2. /\ imports' = imports /\ bodied' = bodied /\ nameless' = nameless /\ source' = source /\ file' = file
      /\ made' = made /\ hits' = hits /\ linked' = linked /\ torn' = torn
      /\ stage[p] = "read" /\ m \in todo[p] /\ seen' = [seen EXCEPT ![p][m] = source[m]]
      /\ todo' = [todo EXCEPT ![p] = IF @ = {m} THEN Modules ELSE @ \ {m}]
      /\ stage' = [stage EXCEPT ![p] = IF todo[p] = {m} THEN "check" ELSE @]
  BY DEF Read, disk, shape
<1>3. source[m] \in [def : Versions, mod : Versions] /\ source[m] \in [def : Marks, mod : Marks]
  BY <1>1 DEF CacheTypes, Marks
<1>4. CacheTypes' /\ EntriesFit'
  <2>1. seen' \in [Procs -> [Modules -> [def : Marks, mod : Marks]]]
    BY <1>1, <1>2, <1>3 DEF CacheTypes
  <2>2. /\ todo' \in [Procs -> SUBSET Modules]
        /\ stage' \in [Procs -> {"idle", "read", "check", "store"}]
    BY <1>1, <1>2 DEF CacheTypes
  <2> QED  BY <1>1, <1>2, <2>1, <2>2 DEF CacheTypes, EntriesFit
<1>5. /\ \A n \in Modules : seen'[p][n] = IF n = m THEN source[m] ELSE seen[p][n]
      /\ todo'[p] = IF todo[p] = {m} THEN Modules ELSE todo[p] \ {m}
      /\ stage'[p] = IF todo[p] = {m} THEN "check" ELSE "read"
      /\ todo[p] \subseteq Modules
  BY <1>1, <1>2 DEF CacheTypes
<1>6. /\ hits[p] = {} /\ torn[p] = {} /\ \A n \in Modules : made[p][n] = {}
      /\ \A n \in Modules \ todo[p] : seen[p][n].def \in Versions
  BY <1>1, <1>2 DEF ProcFits, StageFits
<1>7. \A n \in Modules \ (todo[p] \ {m}) : seen'[p][n].def \in Versions
  BY <1>3, <1>5, <1>6
<1>8. ProcFits(p)'
  <2>1. Builds(imports, bodied, nameless, seen'[p], made[p], hits[p], linked[p])
    BY <1>6 DEF Builds
  <2>2. StageFits(bodied, stage'[p], seen'[p], made[p], hits[p], todo'[p], torn[p])
    <3>1. CASE todo[p] = {m}
      BY <1>5, <1>6, <1>7, <3>1 DEF StageFits
    <3>2. CASE todo[p] # {m}
      BY <1>5, <1>6, <1>7, <3>2 DEF StageFits
    <3> QED  BY <3>1, <3>2
  <2> QED  BY <1>2, <2>1, <2>2 DEF ProcFits
<1>9. \A q \in Procs \ {p} : Unmoved(q)
  BY <1>1, <1>2 DEF CacheTypes, Unmoved
<1> QED  BY <1>2, <1>4, <1>8, <1>9, OthersKeep DEF shape

\* The process has md, ht and lk: what it had before and module m.
Gained(p, m, md, ht, lk) ==
    /\ Holds(imports, bodied, nameless, seen[p], md, ht, lk)
    /\ md[m] # {} /\ \A n \in Modules : made[p][n] # {} => md[n] # {}

LEMMA TookOne ==
  ASSUME CacheInv, NEW p \in Procs, NEW m \in Modules, stage[p] = "check",
         UNCHANGED <<disk, stage, seen, torn>>, todo' = [todo EXCEPT ![p] = @ \ {m}],
         NEW md, made' = [made EXCEPT ![p] = md], NEW ht, hits' = [hits EXCEPT ![p] = ht],
         NEW lk, linked' = [linked EXCEPT ![p] = lk], Gained(p, m, md, ht, lk)
  PROVE  CacheInv'
<1>1. CacheTypes /\ EntriesFit /\ ProcFits(p)
  BY CacheInvIs
<1>g. /\ md \in [Modules -> SUBSET Texts] /\ ht \in SUBSET Modules /\ lk \in [Modules -> [Modules -> Nat]]
      /\ Builds(imports, bodied, nameless, seen[p], md, ht, lk)
      /\ md[m] # {} /\ \A n \in Modules : made[p][n] # {} => md[n] # {}
  BY DEF Gained, Holds
<1>2. /\ imports' = imports /\ bodied' = bodied /\ nameless' = nameless /\ source' = source /\ file' = file
      /\ stage' = stage /\ seen' = seen /\ torn' = torn
  BY DEF disk, shape
<1>3. CacheTypes' /\ EntriesFit'
  <2>1. todo' \in [Procs -> SUBSET Modules] /\ hits' \in [Procs -> SUBSET Modules]
    BY <1>1, <1>g DEF CacheTypes
  <2>2. /\ made' \in [Procs -> [Modules -> SUBSET Texts]]
        /\ linked' \in [Procs -> [Modules -> [Modules -> Nat]]]
    BY <1>1, <1>g DEF CacheTypes
  <2> QED  BY <1>1, <1>2, <2>1, <2>2 DEF CacheTypes, EntriesFit
<1>4. todo'[p] = todo[p] \ {m} /\ made'[p] = md /\ hits'[p] = ht /\ linked'[p] = lk
  BY <1>1 DEF CacheTypes
<1>5. /\ \A n \in Modules : seen[p][n].def \in Versions
      /\ \A n \in Modules \ todo[p] : made[p][n] # {}
      /\ torn[p] = {}
  BY <1>1 DEF ProcFits, StageFits
<1>6. ProcFits(p)'
  <2>1. StageFits(bodied, stage[p], seen[p], md, ht, todo[p] \ {m}, torn[p])
    BY <1>5, <1>g DEF StageFits
  <2> QED  BY <1>2, <1>4, <1>g, <2>1 DEF ProcFits
<1>7. \A q \in Procs \ {p} : Unmoved(q)
  BY <1>1, <1>2 DEF CacheTypes, Unmoved
<1> QED  BY <1>2, <1>3, <1>6, <1>7, OthersKeep DEF shape

LEMMA HitKeeps ==
  ASSUME CacheInv, NEW p \in Procs, NEW m \in Modules, stage[p] = "check",
         UNCHANGED <<disk, stage, seen, torn>>, m \notin Built(p), Hit(p, m)
  PROVE  CacheInv'
<1> DEFINE iface == file[m][seen[p][m].def]
           parts == iface.parts
           md == [made[p] EXCEPT ![m] = parts]
           ht == hits[p] \cup {m}
           lk == Relinked(imports, linked[p], {m}, nameless)
<1>1. CacheTypes /\ EntriesFit /\ ProcFits(p)
  BY CacheInvIs
<1>2. /\ imports \in [Modules -> SUBSET Modules] /\ made[p] \in [Modules -> SUBSET Texts]
      /\ hits[p] \in SUBSET Modules /\ linked[p] \in [Modules -> [Modules -> Nat]]
      /\ seen[p][m].def \in Versions
  BY <1>1 DEF CacheTypes, ProcFits, StageFits
<1>3. /\ m \notin bodied /\ iface.key = KeyOf(p, m) /\ \A n \in imports[m] \ {m} : made[p][n] # {}
      /\ made[p][m] = {}
  BY <1>2 DEF Hit, Valid, Pure, Built
<1>4. parts \in SUBSET Texts
  BY <1>1, <1>2 DEF CacheTypes
<1>5. /\ <<m, seen[p][m].def>> \in KeyOf(p, m)
      /\ DefsIn(KeyOf(p, m)) = DefsOf(seen[p], Cone(imports, m))
  BY <1>1, KeysAre
<1>6. iface # NoFile
  BY <1>3, <1>5 DEF NoFile
<1>7. Defs(parts) = DefsOf(seen[p], Cone(imports, m))
  BY <1>1, <1>2, <1>3, <1>5, <1>6 DEF EntriesFit, Filed
<1>8. parts # {}
  <2>1. m \in Cone(imports, m)
    BY <1>2, ConeIs
  <2>2. DefsOf(seen[p], Cone(imports, m)) # {}
    BY <2>1 DEF DefsOf
  <2> QED  BY <1>7, <2>2 DEF Defs
<1>9. made' = [made EXCEPT ![p] = md] /\ hits' = [hits EXCEPT ![p] = ht] /\ todo' = [todo EXCEPT ![p] = @ \ {m}]
  BY <1>1 DEF Hit, Taken, CacheTypes
<1>10. linked' = [linked EXCEPT ![p] = lk]
  BY DEF Hit, Link, Relinked
<1>11. md \in [Modules -> SUBSET Texts] /\ ht \in SUBSET Modules /\ lk \in [Modules -> [Modules -> Nat]]
  BY <1>2, <1>4, RelinkedIs
<1>12. md[m] = parts /\ \A n \in Modules \ {m} : md[n] = made[p][n]
  BY <1>2
<1>13. Builds(imports, bodied, nameless, seen[p], made[p], hits[p], linked[p])
  BY <1>1 DEF ProcFits
<1> HIDE DEF parts, iface
<1>14. Builds(imports, bodied, nameless, seen[p], md, ht, lk)
  BY <1>2, <1>3, <1>4, <1>7, <1>8, <1>13, HitBuilds
<1>15. Gained(p, m, md, ht, lk)
  <2> HIDE DEF md, ht, lk
  <2> QED  BY <1>2, <1>8, <1>11, <1>12, <1>14 DEF Gained, Holds
<1> HIDE DEF md, ht, lk
<1> QED  BY <1>9, <1>10, <1>15, TookOne

LEMMA EnsureKeeps ==
  ASSUME CacheInv, NEW p \in Procs, NEW m \in Modules, stage[p] = "check",
         UNCHANGED <<disk, stage, seen, torn>>, m \notin Built(p), Ensure(p, m)
  PROVE  CacheInv'
<1> DEFINE new == MissingOf(imports, made[p], m)
           md == Remade(imports, bodied, seen[p], made[p], new)
           lk == Relinked(imports, linked[p], new, {})
<1>1. CacheTypes /\ EntriesFit /\ ProcFits(p)
  BY CacheInvIs
<1>2. /\ imports \in [Modules -> SUBSET Modules] /\ made[p] \in [Modules -> SUBSET Texts]
      /\ hits[p] \in SUBSET Modules /\ linked[p] \in [Modules -> [Modules -> Nat]]
      /\ seen[p] \in [Modules -> [def : Marks, mod : Marks]]
  BY <1>1 DEF CacheTypes
<1>3. \A n \in Modules : Reach[{n}] = Cone(imports, n) /\ Cone(imports, n) \subseteq Modules /\ n \in Cone(imports, n)
  BY <1>2, ReachIs, ConeIs
<1>4. new = {n \in Reach[{m}] : n \notin Built(p)} /\ new \subseteq Modules
  BY <1>3 DEF Built, MissingOf
<1>5. made[p][m] = {} /\ m \in new
  BY <1>3 DEF Built, MissingOf
<1>6. made' = [made EXCEPT ![p] = md]
  <2> DEFINE set == {n \in Reach[{m}] : n \notin Built(p)}
             parts(n) == UNION {IF k \in set THEN TextsOf(seen[p], k) ELSE made[p][k] : k \in Reach[{n}]}
  <2>1. made' = [made EXCEPT ![p] = [n \in Modules |-> IF n \in set THEN parts(n) ELSE @[n]]]
    BY DEF Ensure
  <2>2. set = new
    BY <1>4
  <2> HIDE DEF set, new
  <2>3. ASSUME NEW n \in Modules PROVE parts(n) = PartsOf(imports, bodied, seen[p], made[p], set, n)
    BY <1>3 DEF PartsOf, TextsFrom, TextsOf
  <2> HIDE DEF parts
  <2>4. [n \in Modules |-> IF n \in set THEN parts(n) ELSE made[p][n]] = Remade(imports, bodied, seen[p], made[p], set)
    BY <2>3 DEF Remade
  <2> QED  BY <2>1, <2>2, <2>4
<1>7. hits' = [hits EXCEPT ![p] = hits[p]] /\ todo' = [todo EXCEPT ![p] = @ \ {m}]
  BY <1>1 DEF Ensure, Taken, CacheTypes
<1>8. linked' = [linked EXCEPT ![p] = lk]
  <2> DEFINE set == {n \in Reach[{m}] : n \notin Built(p)}
  <2>1. Link(p, set, {})
    BY DEF Ensure
  <2> HIDE DEF set, new
  <2>2. linked' = [linked EXCEPT ![p] = Relinked(imports, linked[p], set, {})]
    BY <2>1 DEF Link, Relinked
  <2> QED  BY <1>4, <2>2 DEF set
<1>9. md \in [Modules -> SUBSET Texts]
  <2>1. \A k \in Modules : TextsFrom(bodied, seen[p], k) \subseteq Texts
    BY <1>2 DEF TextsFrom, Texts
  <2> HIDE DEF new
  <2>2. ASSUME NEW n \in Modules
        PROVE  PartsOf(imports, bodied, seen[p], made[p], new, n) \subseteq Texts
    <3>1. \A k \in Cone(imports, n) : (IF k \in new THEN TextsFrom(bodied, seen[p], k) ELSE made[p][k]) \subseteq Texts
      BY <1>2, <1>3, <2>1
    <3> QED  BY <3>1 DEF PartsOf
  <2> QED  BY <1>2, <2>2 DEF Remade
<1>10. lk \in [Modules -> [Modules -> Nat]]
  <2> HIDE DEF new
  <2> QED  BY <1>2, RelinkedIs
<1>11. Holds(imports, bodied, nameless, seen[p], made[p], hits[p], linked[p])
  BY <1>1, <1>2 DEF ProcFits, Holds
<1>12. Builds(imports, bodied, nameless, seen[p], md, hits[p], lk) /\ \A n \in new : md[n] # {}
  <2> HIDE DEF md, lk, new
  <2>1. /\ new = MissingOf(imports, made[p], m) /\ md = Remade(imports, bodied, seen[p], made[p], new)
        /\ lk = Relinked(imports, linked[p], new, {})
    BY DEF new, md, lk
  <2> QED  BY <1>11, <2>1, EnsureBuilds
<1>13. \A n \in Modules : made[p][n] # {} => md[n] # {}
  <2>1. \A n \in Modules : n \notin new => md[n] = made[p][n]
    BY DEF Remade
  <2> HIDE DEF md, new
  <2> QED  BY <1>12, <2>1
<1>14. Gained(p, m, md, hits[p], lk)
  <2> HIDE DEF md, lk, new
  <2> QED  BY <1>2, <1>5, <1>9, <1>10, <1>12, <1>13 DEF Gained, Holds
<1> HIDE DEF md, lk, new
<1> QED  BY <1>6, <1>7, <1>8, <1>14, TookOne

LEMMA TakeKeeps ==
  ASSUME CacheInv, NEW p \in Procs, NEW m \in Modules, Take(p, m)
  PROVE  CacheInv'
<1>1. stage[p] = "check" /\ UNCHANGED <<disk, stage, seen, torn>>
  BY DEF Take
<1>2. CASE m \in Built(p) /\ Taken(p, m) /\ UNCHANGED <<made, hits, linked>>
  <2>1. CacheTypes /\ ProcFits(p)
    BY CacheInvIs
  <2>2. /\ made' = [made EXCEPT ![p] = made[p]] /\ made[p] \in [Modules -> SUBSET Texts]
        /\ hits' = [hits EXCEPT ![p] = hits[p]] /\ hits[p] \in SUBSET Modules
        /\ linked' = [linked EXCEPT ![p] = linked[p]] /\ linked[p] \in [Modules -> [Modules -> Nat]]
    BY <1>2, <2>1 DEF CacheTypes
  <2>3. made[p][m] # {} /\ Builds(imports, bodied, nameless, seen[p], made[p], hits[p], linked[p])
    BY <1>2, <2>1 DEF Built, ProcFits
  <2>4. todo' = [todo EXCEPT ![p] = @ \ {m}]
    BY <1>2 DEF Taken
  <2>5. imports \in [Modules -> SUBSET Modules]
    BY <2>1 DEF CacheTypes
  <2>6. Gained(p, m, made[p], hits[p], linked[p])
    BY <2>2, <2>3, <2>5 DEF Gained, Holds
  <2> QED  BY <1>1, <2>2, <2>4, <2>6, TookOne
<1>3. CASE m \notin Built(p) /\ (Hit(p, m) \/ Ensure(p, m))
  BY <1>1, <1>3, HitKeeps, EnsureKeeps
<1> QED  BY <1>2, <1>3 DEF Take

LEMMA WriteBackKeeps ==
  ASSUME CacheInv, NEW p \in Procs, WriteBack(p)
  PROVE  CacheInv'
<1>1. CacheTypes /\ EntriesFit /\ ProcFits(p)
  BY CacheInvIs
<1>2. /\ imports' = imports /\ bodied' = bodied /\ nameless' = nameless /\ source' = source /\ file' = file
      /\ seen' = seen /\ made' = made /\ hits' = hits /\ linked' = linked /\ torn' = torn
      /\ stage[p] = "check" /\ todo[p] = {} /\ stage' = [stage EXCEPT ![p] = "store"]
      /\ todo' = [todo EXCEPT ![p] = {m \in Modules \ hits[p] : Pure(m)}]
  BY DEF WriteBack, disk, shape
<1>3. CacheTypes' /\ EntriesFit'
  BY <1>1, <1>2 DEF CacheTypes, EntriesFit
<1>4. stage'[p] = "store" /\ todo'[p] = Modules \ (hits[p] \cup bodied)
  BY <1>1, <1>2 DEF CacheTypes, Pure
<1>5. ProcFits(p)'
  BY <1>1, <1>2, <1>4 DEF ProcFits, StageFits
<1>6. \A q \in Procs \ {p} : Unmoved(q)
  BY <1>1, <1>2 DEF CacheTypes, Unmoved
<1> QED  BY <1>2, <1>3, <1>5, <1>6, OthersKeep DEF shape

\* A step that writes an interface file.
LEMMA WroteOne ==
  ASSUME CacheInv, NEW p \in Procs, NEW m \in Modules, UNCHANGED <<shape, source, stage, seen, made, hits, linked>>,
         NEW iface \in [key : SUBSET (Modules \X Marks), parts : SUBSET Texts],
         file' = [file EXCEPT ![m][seen[p][m].def] = iface], Filed(m, seen[p][m].def, iface),
         NEW td \in SUBSET Modules, todo' = [todo EXCEPT ![p] = td],
         NEW tr \in SUBSET Modules, torn' = [torn EXCEPT ![p] = tr],
         stage[p] = "store", td \subseteq todo[p], tr \subseteq td
  PROVE  CacheInv'
<1>1. CacheTypes /\ EntriesFit /\ ProcFits(p)
  BY CacheInvIs
<1>2. /\ imports' = imports /\ bodied' = bodied /\ nameless' = nameless /\ source' = source
      /\ stage' = stage /\ seen' = seen /\ made' = made /\ hits' = hits /\ linked' = linked
  BY DEF shape
<1>3. CacheTypes'
  <2>1. file' \in [Modules -> [Versions -> [key : SUBSET (Modules \X Marks), parts : SUBSET Texts]]]
    BY <1>1 DEF CacheTypes
  <2>2. todo' \in [Procs -> SUBSET Modules] /\ torn' \in [Procs -> SUBSET Modules]
    BY <1>1 DEF CacheTypes
  <2> QED  BY <1>1, <1>2, <2>1, <2>2 DEF CacheTypes
<1>4. \A n \in Modules, v \in Versions : file'[n][v] = IF n = m /\ v = seen[p][m].def THEN iface ELSE file[n][v]
  BY <1>1 DEF CacheTypes
<1>5. EntriesFit'
  BY <1>1, <1>4 DEF EntriesFit
<1>6. todo'[p] = td /\ torn'[p] = tr
  BY <1>1 DEF CacheTypes
<1>7. ProcFits(p)'
  BY <1>1, <1>2, <1>6 DEF ProcFits, StageFits
<1>8. \A q \in Procs \ {p} : Unmoved(q)
  BY <1>1, <1>2 DEF CacheTypes, Unmoved
<1> QED  BY <1>2, <1>3, <1>5, <1>7, <1>8, OthersKeep DEF shape

LEMMA TruncateKeeps ==
  ASSUME CacheInv, NEW p \in Procs, NEW m \in Modules, Truncate(p, m)
  PROVE  CacheInv'
<1>1. CacheTypes /\ EntriesFit /\ ProcFits(p)
  BY CacheInvIs
<1>2. /\ UNCHANGED <<shape, source, stage, seen, made, hits, linked>> /\ todo' = todo
      /\ stage[p] = "store" /\ m \in todo[p] /\ torn' = [torn EXCEPT ![p] = {m}]
      /\ file' = [file EXCEPT ![m][seen[p][m].def] = NoFile]
  BY DEF Truncate, Next1
<1>3. NoFile \in [key : SUBSET (Modules \X Marks), parts : SUBSET Texts] /\ Filed(m, seen[p][m].def, NoFile)
  BY DEF NoFile, Filed
<1>4. todo' = [todo EXCEPT ![p] = todo[p]] /\ todo[p] \in SUBSET Modules /\ {m} \in SUBSET Modules
  BY <1>1, <1>2 DEF CacheTypes
<1>5. todo[p] \subseteq todo[p] /\ {m} \subseteq todo[p]
  BY <1>2
<1> QED  BY <1>2, <1>3, <1>4, <1>5, WroteOne

LEMMA FillKeeps ==
  ASSUME CacheInv, NEW p \in Procs, NEW m \in Modules, Fill(p, m)
  PROVE  CacheInv'
<1> DEFINE iface == [key |-> KeyOf(p, m), parts |-> made[p][m]]
<1>1. CacheTypes /\ EntriesFit /\ ProcFits(p)
  BY CacheInvIs
<1>2. /\ UNCHANGED <<shape, source, stage, seen, made, hits, linked>>
      /\ m \in torn[p] /\ torn' = [torn EXCEPT ![p] = {}] /\ todo' = [todo EXCEPT ![p] = todo[p] \ {m}]
      /\ file' = [file EXCEPT ![m][seen[p][m].def] = iface]
  BY <1>1 DEF Fill, Taken, CacheTypes
<1>3. stage[p] = "store" /\ made[p][m] # {}
  BY <1>1, <1>2 DEF ProcFits, StageFits
<1>4. iface \in [key : SUBSET (Modules \X Marks), parts : SUBSET Texts]
  <2>1. KeyOf(p, m) \subseteq Modules \X Marks
    BY <1>1, KeysAre
  <2>2. made[p][m] \subseteq Texts
    BY <1>1 DEF CacheTypes
  <2> QED  BY <2>1, <2>2
<1>5. Filed(m, seen[p][m].def, iface)
  <2>1. Defs(made[p][m]) = DefsOf(seen[p], Cone(imports, m))
    BY <1>1, <1>3 DEF ProcFits, Builds
  <2>2. <<m, seen[p][m].def>> \in KeyOf(p, m) /\ DefsIn(KeyOf(p, m)) = DefsOf(seen[p], Cone(imports, m))
    BY <1>1, KeysAre
  <2> QED  BY <2>1, <2>2 DEF Filed
<1>6. todo[p] \ {m} \in SUBSET Modules /\ {} \in SUBSET Modules
  BY <1>1 DEF CacheTypes
<1>7. todo[p] \ {m} \subseteq todo[p] /\ {} \subseteq todo[p] \ {m}
  OBVIOUS
<1> HIDE DEF iface
<1> QED  BY <1>2, <1>3, <1>4, <1>5, <1>6, <1>7, WroteOne

LEMMA SkipKeeps ==
  ASSUME CacheInv, NEW p \in Procs, NEW m \in Modules, Skip(p, m)
  PROVE  CacheInv'
<1>1. CacheTypes /\ EntriesFit /\ ProcFits(p)
  BY CacheInvIs
<1>2. /\ imports' = imports /\ bodied' = bodied /\ nameless' = nameless /\ source' = source /\ file' = file
      /\ stage' = stage /\ seen' = seen /\ made' = made /\ hits' = hits /\ linked' = linked /\ torn' = torn
      /\ stage[p] = "store" /\ torn[p] = {} /\ todo' = [todo EXCEPT ![p] = @ \ {m}]
  BY DEF Skip, Taken, disk, shape
<1>3. CacheTypes' /\ EntriesFit'
  BY <1>1, <1>2 DEF CacheTypes, EntriesFit
<1>4. todo'[p] = todo[p] \ {m}
  BY <1>1, <1>2 DEF CacheTypes
<1>5. ProcFits(p)'
  BY <1>1, <1>2, <1>4 DEF ProcFits, StageFits
<1>6. \A q \in Procs \ {p} : Unmoved(q)
  BY <1>1, <1>2 DEF CacheTypes, Unmoved
<1> QED  BY <1>2, <1>3, <1>5, <1>6, OthersKeep DEF shape

LEMMA EndKeeps ==
  ASSUME CacheInv, NEW p \in Procs, End(p)
  PROVE  CacheInv'
<1>1. CacheTypes /\ EntriesFit /\ ProcFits(p)
  BY CacheInvIs
<1>2. /\ imports' = imports /\ bodied' = bodied /\ nameless' = nameless /\ source' = source /\ file' = file
      /\ stage' = [stage EXCEPT ![p] = "idle"] /\ seen' = [seen EXCEPT ![p] = [m \in Modules |-> Unread]]
      /\ made' = [made EXCEPT ![p] = [m \in Modules |-> {}]] /\ hits' = [hits EXCEPT ![p] = {}]
      /\ linked' = [linked EXCEPT ![p] = [m \in Modules |-> [n \in Modules |-> 0]]]
      /\ todo' = [todo EXCEPT ![p] = {}] /\ torn' = [torn EXCEPT ![p] = {}]
  BY DEF End, disk, shape
<1>3. CacheTypes' /\ EntriesFit'
  <2>1. Unread \in [def : Marks, mod : Marks]
    BY DEF Unread, Marks
  <2>2. seen' \in [Procs -> [Modules -> [def : Marks, mod : Marks]]]
    BY <1>1, <1>2, <2>1 DEF CacheTypes
  <2>3. made' \in [Procs -> [Modules -> SUBSET Texts]] /\ linked' \in [Procs -> [Modules -> [Modules -> Nat]]]
    BY <1>1, <1>2 DEF CacheTypes
  <2>4. /\ stage' \in [Procs -> {"idle", "read", "check", "store"}] /\ hits' \in [Procs -> SUBSET Modules]
        /\ todo' \in [Procs -> SUBSET Modules] /\ torn' \in [Procs -> SUBSET Modules]
    BY <1>1, <1>2 DEF CacheTypes
  <2> QED  BY <1>1, <1>2, <2>2, <2>3, <2>4 DEF CacheTypes, EntriesFit
<1>4. /\ stage'[p] = "idle" /\ made'[p] = [m \in Modules |-> {}] /\ hits'[p] = {}
      /\ todo'[p] = {} /\ torn'[p] = {}
  BY <1>1, <1>2 DEF CacheTypes
<1>5. ProcFits(p)'
  BY <1>4 DEF ProcFits, StageFits, Builds
<1>6. \A q \in Procs \ {p} : Unmoved(q)
  BY <1>1, <1>2 DEF CacheTypes, Unmoved
<1> QED  BY <1>2, <1>3, <1>5, <1>6, OthersKeep DEF shape

(* What the processes of the cache hold, and what is in the files, is as      *)
(* CacheInv says: an entry is made from the DEFs its key names, a process's    *)
(* interfaces from those it has read.                                          *)
THEOREM CacheInvariant == CacheSpec => []CacheInv
<1>1. CacheInv /\ UNCHANGED cacheVars => CacheInv'
  <2> SUFFICES ASSUME CacheInv, UNCHANGED cacheVars PROVE CacheInv'
    OBVIOUS
  <2>1. CacheTypes /\ EntriesFit /\ \A p \in Procs : ProcFits(p)
    BY CacheInvIs
  <2>2. CacheTypes' /\ EntriesFit'
    BY <2>1 DEF cacheVars, disk, shape, procVars, CacheTypes, EntriesFit
  <2>3. ASSUME NEW p \in Procs PROVE ProcFits(p)'
    BY <2>1 DEF cacheVars, disk, shape, procVars, ProcFits
  <2> QED  BY <2>2, <2>3 DEF CacheInv, EntriesFit, ProcFits
<1>2. CacheInv /\ CacheNext => CacheInv'
  <2> SUFFICES ASSUME CacheInv, CacheNext PROVE CacheInv'
    OBVIOUS
  <2>1. ASSUME NEW m \in Modules, NEW part \in {"def", "mod"}, NEW v \in Versions, Edit(m, part, v)
        PROVE  CacheInv'
    BY <2>1, EditKeeps
  <2>2. ASSUME NEW p \in Procs, Begin(p) \/ WriteBack(p) \/ End(p) PROVE CacheInv'
    BY <2>2, BeginKeeps, WriteBackKeeps, EndKeeps
  <2>3. ASSUME NEW p \in Procs, NEW m \in Modules,
               Read(p, m) \/ Take(p, m) \/ Truncate(p, m) \/ Fill(p, m) \/ Skip(p, m)
        PROVE  CacheInv'
    BY <2>3, ReadKeeps, TakeKeeps, TruncateKeeps, FillKeeps, SkipKeeps
  <2> QED  BY <2>1, <2>2, <2>3 DEF CacheNext
<1> QED  BY CacheStarts, <1>1, <1>2, PTL DEF CacheSpec

(* A process is inside of one file, which it has not taken from the cache,    *)
(* and an entry's key is about its own module.                                 *)
THEOREM CacheShape == CacheSpec => []TypeOKCache
<1>1. CacheInv => TypeOKCache
  <2> SUFFICES ASSUME CacheInv PROVE TypeOKCache
    OBVIOUS
  <2>1. CacheTypes /\ EntriesFit /\ \A p \in Procs : ProcFits(p)
    BY CacheInvIs
  <2>2. \A p \in Procs : torn[p] \subseteq todo[p] \ (hits[p] \cup bodied)
    BY <2>1 DEF ProcFits, StageFits
  <2>3. \A p \in Procs : hits[p] \subseteq Built(p) \ bodied
    BY <2>1 DEF ProcFits, Builds, Built, CacheTypes
  <2>4. \A m \in Modules, v \in Versions : file[m][v] # NoFile => <<m, v>> \in file[m][v].key
    BY <2>1 DEF EntriesFit, Filed
  <2> QED  BY <2>2, <2>3, <2>4 DEF TypeOKCache
<1> QED  BY CacheInvariant, <1>1, PTL

(* Whatever the import graph, the number of compilers and the order of reads,  *)
(* edits, interrupted writes and kills: an interface a compilation uses, from  *)
(* the cache or not, is made from the DEFs that compilation has read           *)
(* (cache_key, load_valid_interface, store_interface in symcache.rs).          *)
THEOREM DefsAlwaysFresh == CacheSpec => []DefsFresh
<1>1. CacheInv => DefsFresh
  <2> SUFFICES ASSUME CacheInv, NEW p \in Procs, NEW m \in Built(p)
               PROVE  Defs(made[p][m]) = Defs(Fresh(p, m))
    BY DEF DefsFresh
  <2>1. CacheTypes /\ ProcFits(p) /\ m \in Modules /\ made[p][m] # {}
    BY CacheInvIs DEF Built
  <2>2. Defs(made[p][m]) = DefsOf(seen[p], Cone(imports, m))
    BY <2>1 DEF ProcFits, Builds
  <2>3. Defs(Fresh(p, m)) = DefsOf(seen[p], Cone(imports, m))
    BY <2>1, KeysAre
  <2> QED  BY <2>2, <2>3
<1> QED  BY CacheInvariant, <1>1, PTL

(* A module, built or from the cache, means by an imported type what the       *)
(* imported module means by it; the types without a name, which a cached       *)
(* module has a copy of, apart (try_intern_cached in analyze.rs).              *)
THEOREM TypesHaveOneIdentity == CacheSpec => []OneIdentity
<1>1. CacheInv => OneIdentity
  <2> SUFFICES ASSUME CacheInv, NEW p \in Procs, NEW m \in Built(p), NEW n \in imports[m]
               PROVE  /\ n \in Built(p)
                      /\ linked[p][m][n] = IF m \in hits[p] /\ n \in nameless \ {m} THEN 0 ELSE linked[p][n][n]
    BY DEF OneIdentity
  <2>1. CacheTypes /\ ProcFits(p) /\ m \in Modules /\ made[p][m] # {}
    BY CacheInvIs DEF Built
  <2>2. n \in Modules
    BY <2>1 DEF CacheTypes
  <2> QED  BY <2>1, <2>2 DEF ProcFits, Builds, Built
<1> QED  BY CacheInvariant, <1>1, PTL
=============================================================================
