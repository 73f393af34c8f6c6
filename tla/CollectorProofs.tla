-------------------------- MODULE CollectorProofs --------------------------
(***************************************************************************)
(* Proofs about what a collection does: to a cluster of the heap, for any  *)
(* size, any types and any program, as long as no reuse of a block has     *)
(* left a gap; and to what the stacks of coroutines refer to, for any      *)
(* number of boxes and objects.                                            *)
(***************************************************************************)
EXTENDS GcCluster, Coroutine, SequenceTheorems, SetLemmas

-----------------------------------------------------------------------------
(* A cluster of the heap.                                                    *)

\* The blocks that hold objects.
Objects(c) == {b \in c.starts : c.tag[b] # FreeTag}

\* The unit after a block.
EndOf(c, b) == b + c.size[b]

\* The blocks tile the cluster up to the bump pointer.
Tiled(c) ==
    /\ 0 \in c.starts \cup {c.bump}
    /\ \A b \in c.starts :
          /\ c.size[b] >= MinBlock
          /\ EndOf(c, b) <= c.bump
          /\ EndOf(c, b) \in c.starts \cup {c.bump}
    /\ \A a, b \in c.starts : a < b => EndOf(c, a) <= b
    /\ \A b \in c.starts \cup {c.bump} : b = 0 \/ \E a \in c.starts : EndOf(c, a) = b

\* The free list has the free blocks, each once.
FreeListed(c) ==
    /\ IsInjective(c.free)
    /\ Range(c.free) = c.starts \ Objects(c)

\* Between two collections nothing is marked, and memory never handed out is
\* zero.
Clean(c) ==
    /\ \A u \in Units : ~c.mark[u]
    /\ \A u \in Units : u >= c.bump => c.field[u] = NoFields

\* A pointer is Nil or leads to an object, and so does each field of one.
Points(c, p) == p = Nil \/ p - 1 \in Objects(c)

Linked(c) == \A b \in Objects(c) : \A f \in Fields[c.tag[b]] : Points(c, c.field[b][f])

Good(c) == c \in ClusterShape /\ Tiled(c) /\ FreeListed(c) /\ Clean(c) /\ Linked(c)

\* The pointers of the program.
Rooted(c) ==
    /\ words \in [Words -> 0 .. Size - 1] /\ roots \in [Roots -> 0 .. Size - 1]
    /\ \A w \in Words : Points(c, words[w])
    /\ \A r \in Roots : Points(c, roots[r])

\* What holds until a reuse leaves a gap.
CInv == Good(cluster) /\ Rooted(cluster)

-----------------------------------------------------------------------------
(* The linear walk.                                                          *)

\* Where the walk stops.
Stops(c, u) == u >= c.bump \/ c.size[u] < MinBlock \/ u + c.size[u] > c.bump

\* The walk from a unit, given the walk from those behind.
Rest(c, f) == [u \in 0 .. 2 * Size |-> IF Stops(c, u) THEN {} ELSE {u} \cup f[u + c.size[u]]]

\* There is a walk from every unit: the least set with the next header of each
\* of its own.
LEMMA WalkExists ==
  ASSUME NEW c \in ClusterShape
  PROVE  \E f : f = Rest(c, f)
<1> DEFINE Onward(S) == \A x \in S : Stops(c, x + c.size[x]) \/ x + c.size[x] \in S
           Holds(u, S) == Onward(S) /\ (Stops(c, u) \/ u \in S)
           From(u) == {v \in Units : \A S \in SUBSET Units : Holds(u, S) => v \in S}
           g == [u \in 0 .. 2 * Size |-> From(u)]
<1>1. Size \in Nat /\ c.bump \in 0 .. Size /\ c.size \in [Units -> 0 .. Size]
  BY ClusterAssumption DEF ClusterShape
<1>2. ASSUME NEW u \in 0 .. 2 * Size, Stops(c, u)
      PROVE  From(u) = {}
  <2>1. {} \in SUBSET Units /\ Holds(u, {})
    BY <1>2
  <2> QED  BY <2>1
<1>3. ASSUME NEW u \in 0 .. 2 * Size, ~Stops(c, u)
      PROVE  From(u) = {u} \cup From(u + c.size[u]) /\ u + c.size[u] \in 0 .. 2 * Size
  <2> DEFINE n == u + c.size[u]
  <2>1. u \in Units /\ n \in 0 .. 2 * Size
    <3>1. u \in Units
      BY <1>1, <1>3 DEF Stops, Units
    <3>2. c.size[u] \in Nat /\ n <= c.bump
      BY <1>1, <1>3, <3>1 DEF Stops, MinBlock
    <3> QED  BY <1>1, <3>1, <3>2
  <2> HIDE DEF n
  <2>2. ASSUME NEW v \in From(u), v # u PROVE v \in From(n)
    <3>1. ASSUME NEW S \in SUBSET Units, Holds(n, S) PROVE v \in S
      <4>1. S \cup {u} \in SUBSET Units /\ Holds(u, S \cup {u})
        BY <2>1, <3>1 DEF n
      <4>2. v \in S \cup {u}
        BY <4>1
      <4> QED  BY <2>2, <4>2
    <3> QED  BY <3>1
  <2>3. u \in From(u)
    BY <1>3, <2>1
  <2>4. ASSUME NEW v \in From(n) PROVE v \in From(u)
    <3>1. ASSUME NEW S \in SUBSET Units, Holds(u, S) PROVE v \in S
      <4>1. Holds(n, S)
        BY <1>3, <3>1 DEF n
      <4> QED  BY <4>1
    <3> QED  BY <3>1
  <2> HIDE DEF From
  <2> QED  BY <2>1, <2>2, <2>3, <2>4 DEF n
<1> HIDE DEF From
<1>4. g = Rest(c, g)
  BY <1>2, <1>3 DEF Rest
<1> QED  BY <1>4

\* The walk of a tiled cluster meets its blocks.
LEMMA WalkIs ==
  ASSUME NEW c \in ClusterShape, Tiled(c)
  PROVE  Walk(c) = c.starts
<1> DEFINE g == CHOOSE f : f = Rest(c, f)
<1>1. Walk(c) = g[0]
  BY DEF Walk, Rest, Stops
<1>2. g = Rest(c, g)
  BY WalkExists
<1> HIDE DEF g
<1>3. \A u \in 0 .. 2 * Size : g[u] = IF Stops(c, u) THEN {} ELSE {u} \cup g[u + c.size[u]]
  BY <1>2 DEF Rest
<1>4. /\ Size \in Nat /\ c.bump \in 0 .. Size /\ c.size \in [Units -> 0 .. Size]
      /\ c.starts \subseteq Nat
      /\ \A b \in c.starts : /\ b \in Units /\ c.size[b] \in Nat /\ c.size[b] >= 2
                             /\ EndOf(c, b) = b + c.size[b] /\ EndOf(c, b) <= c.bump
  BY ClusterAssumption DEF ClusterShape, Tiled, Units, EndOf, MinBlock
<1> DEFINE Right(b) == g[b] = {s \in c.starts : s >= b}
           I == {k \in Nat : \A b \in c.starts \cup {c.bump} : c.bump <= b + k => Right(b)}
<1>5. Right(c.bump)
  <2>1. c.bump \in 0 .. 2 * Size /\ Stops(c, c.bump)
    BY <1>4 DEF Stops
  <2>2. \A s \in c.starts : ~(s >= c.bump)
    BY <1>4
  <2> QED  BY <1>3, <2>1, <2>2
<1>6. 0 \in I
  <2>1. ASSUME NEW b \in c.starts \cup {c.bump}, c.bump <= b + 0 PROVE Right(b)
    <3>1. b = c.bump
      BY <1>4, <2>1
    <3> QED  BY <1>5, <3>1
  <2> QED  BY <2>1
<1>7. ASSUME NEW k \in Nat, k \in I PROVE k + 1 \in I
  <2>1. ASSUME NEW b \in c.starts, c.bump <= b + (k + 1) PROVE Right(b)
    <3> DEFINE e == EndOf(c, b)
    <3>1. e \in c.starts \cup {c.bump} /\ e = b + c.size[b] /\ e \in Nat /\ b \in Nat /\ b + 2 <= e
      BY <1>4 DEF Tiled, Units
    <3>2. c.bump <= e + k
      BY <1>4, <2>1, <3>1
    <3>3. Right(e)
      BY <1>7, <3>1, <3>2
    <3>4. g[b] = {b} \cup g[e]
      <4>1. b \in 0 .. 2 * Size /\ ~Stops(c, b)
        BY <1>4, <3>1 DEF Stops, MinBlock
      <4> QED  BY <1>3, <3>1, <4>1
    <3>5. \A s \in c.starts : s >= b <=> s = b \/ s >= e
      <4>1. \A s \in c.starts : b < s => e <= s
        BY DEF Tiled
      <4> QED  BY <1>4, <3>1, <4>1
    <3> HIDE DEF e
    <3> QED  BY <3>3, <3>4, <3>5
  <2> QED  BY <1>5, <2>1
<1>8. Nat \subseteq I
  <2> HIDE DEF I
  <2> QED  BY <1>6, <1>7, Induction
<1>9. Right(0)
  <2>1. c.bump \in I /\ 0 \in c.starts \cup {c.bump} /\ c.bump <= 0 + c.bump
    BY <1>4, <1>8 DEF Tiled
  <2> QED  BY <2>1
<1> QED  BY <1>1, <1>4, <1>9

LEMMA GreatestIs ==
  ASSUME NEW n \in Nat, NEW S, S \subseteq 0 .. n, S # {}
  PROVE  Max(S) \in S /\ \A x \in S : x <= Max(S)
<1>1. \E x \in S : \A y \in S : x >= y
  BY Greatest
<1>2. Max(S) \in S /\ \A y \in S : Max(S) >= y
  BY <1>1 DEF Max
<1> QED  BY <1>2

LEMMA LeastIs ==
  ASSUME NEW S, S \subseteq Nat, S # {}
  PROVE  Min(S) \in S /\ \A x \in S : Min(S) <= x
<1>1. \E x \in S : \A y \in S : x <= y
  BY Least
<1> QED  BY <1>1 DEF Min

\* It ends at the bump pointer.
LEMMA WalkEndIs ==
  ASSUME NEW c \in ClusterShape, Tiled(c)
  PROVE  WalkEnd(c) = c.bump
<1>1. Walk(c) = c.starts
  BY WalkIs
<1>2. /\ Size \in Nat /\ c.bump \in 0 .. Size /\ c.starts \subseteq Units
      /\ \A b \in c.starts : c.size[b] \in Nat /\ EndOf(c, b) = b + c.size[b]
  BY ClusterAssumption DEF ClusterShape, EndOf
<1>3. CASE c.starts = {}
  BY <1>1, <1>2, <1>3 DEF WalkEnd, Tiled
<1>4. CASE c.starts # {}
  <2> DEFINE last == Max(c.starts)
  <2>1. c.starts \subseteq 0 .. Size
    BY <1>2 DEF Units
  <2>2. last \in c.starts /\ \A x \in c.starts : x <= last
    BY <1>2, <1>4, <2>1, GreatestIs
  <2> HIDE DEF last
  <2>3. EndOf(c, last) \in c.starts \cup {c.bump} /\ EndOf(c, last) > last
    BY <1>2, <2>1, <2>2 DEF Tiled, MinBlock
  <2>4. EndOf(c, last) = c.bump
    BY <1>2, <2>1, <2>2, <2>3
  <2>5. WalkEnd(c) = last + c.size[last]
    BY <1>1, <1>4 DEF WalkEnd, last
  <2> QED  BY <2>4, <2>5 DEF EndOf
<1> QED  BY <1>3, <1>4

-----------------------------------------------------------------------------
(* The trace.                                                                *)

\* One round of the trace.
Further(c, r, closed) == r \cup UNION {Children(c, b) : b \in r \ closed}

Rounds(c, start, closed, f) ==
    [n \in 0 .. Size |-> IF n = 0 THEN start ELSE Further(c, f[n - 1], closed)]

\* The rounds of a trace exist, up to any number of them.
LEMMA RoundsExist ==
  ASSUME NEW c, NEW start, NEW closed
  PROVE  \E f : f = Rounds(c, start, closed, f)
<1> DEFINE Upto(k, f) == \A n \in 0 .. k : f[n] = IF n = 0 THEN start ELSE Further(c, f[n - 1], closed)
           I == {k \in Nat : \E f : f = [n \in 0 .. k |-> f[n]] /\ Upto(k, f)}
<1>1. 0 \in I
  <2> DEFINE f == [n \in 0 .. 0 |-> start]
  <2>1. f = [n \in 0 .. 0 |-> f[n]] /\ Upto(0, f)
    OBVIOUS
  <2> QED  BY <2>1
<1>2. ASSUME NEW k \in Nat, k \in I PROVE k + 1 \in I
  <2>1. PICK f : f = [n \in 0 .. k |-> f[n]] /\ Upto(k, f)
    BY <1>2
  <2> DEFINE g == [n \in 0 .. k + 1 |-> IF n = k + 1 THEN Further(c, f[k], closed) ELSE f[n]]
  <2>2. \A n \in 0 .. k : g[n] = f[n]
    OBVIOUS
  <2>3. g[k + 1] = Further(c, f[k], closed)
    OBVIOUS
  <2>4. g = [n \in 0 .. k + 1 |-> g[n]]
    OBVIOUS
  <2> HIDE DEF g
  <2>5. ASSUME NEW n \in 0 .. k + 1
        PROVE  g[n] = IF n = 0 THEN start ELSE Further(c, g[n - 1], closed)
    <3>1. CASE n = k + 1
      <4>1. n - 1 \in 0 .. k /\ n - 1 = k /\ n # 0
        BY <3>1
      <4> QED  BY <2>2, <2>3, <3>1, <4>1
    <3>2. CASE n # k + 1
      <4>1. n \in 0 .. k /\ (n # 0 => n - 1 \in 0 .. k)
        BY <3>2
      <4>2. f[n] = IF n = 0 THEN start ELSE Further(c, f[n - 1], closed)
        BY <2>1, <4>1
      <4> QED  BY <2>2, <4>1, <4>2
    <3> QED  BY <3>1, <3>2
  <2>6. Upto(k + 1, g)
    BY <2>5
  <2> HIDE DEF Upto
  <2>7. \E h : h = [n \in 0 .. k + 1 |-> h[n]] /\ Upto(k + 1, h)
    BY <2>4, <2>6
  <2> QED  BY <2>7
<1>3. Nat \subseteq I
  <2> HIDE DEF I
  <2> QED  BY <1>1, <1>2, Induction
<1>4. PICK f : f = [n \in 0 .. Size |-> f[n]] /\ Upto(Size, f)
  BY <1>3, ClusterAssumption
<1>5. f = Rounds(c, start, closed, f)
  BY <1>4 DEF Rounds
<1> QED  BY <1>5

LEMMA FurtherIs ==
  ASSUME NEW c, NEW S, NEW start, start \subseteq S, NEW closed,
         \A b \in S : Children(c, b) \subseteq S
  PROVE  Further(c, start, closed) \subseteq S /\ start \subseteq Further(c, start, closed)
BY DEF Further

\* What is traced lies in any set that has the start and all children of its own.
LEMMA TraceStaysIn ==
  ASSUME NEW c, NEW S, NEW start, start \subseteq S, NEW closed,
         \A b \in S : Children(c, b) \subseteq S
  PROVE  Traced(c, start, closed) \subseteq S
<1> DEFINE f == CHOOSE f : f = Rounds(c, start, closed, f)
           I == {k \in Nat : k <= Size => f[k] \subseteq S}
<1>1. Traced(c, start, closed) = f[Size]
  BY DEF Traced, Rounds, Further
<1>2. f = Rounds(c, start, closed, f)
  BY RoundsExist
<1> HIDE DEF f
<1>3. Size \in Nat
  BY ClusterAssumption
<1>4. \A n \in 0 .. Size : f[n] = IF n = 0 THEN start ELSE Further(c, f[n - 1], closed)
  BY <1>2 DEF Rounds
<1>5. 0 \in I
  BY <1>3, <1>4
<1>6. ASSUME NEW k \in Nat, k \in I PROVE k + 1 \in I
  <2>1. CASE k + 1 <= Size
    <3>1. f[k] \subseteq S /\ k + 1 \in 0 .. Size /\ k + 1 # 0 /\ (k + 1) - 1 = k
      BY <1>3, <1>6, <2>1
    <3>2. f[k + 1] = Further(c, f[k], closed)
      BY <1>4, <3>1
    <3>3. Further(c, f[k], closed) \subseteq S
      BY <3>1, FurtherIs
    <3> QED  BY <3>2, <3>3
  <2>2. CASE ~(k + 1 <= Size)
    BY <2>2
  <2> QED  BY <2>1, <2>2
<1>7. Nat \subseteq I
  <2> HIDE DEF I
  <2> QED  BY <1>5, <1>6, Induction
<1>8. f[Size] \subseteq S
  BY <1>3, <1>7
<1> QED  BY <1>1, <1>8

\* As many rounds as there are units are enough: each but the last finds a block.
LEMMA TraceIsClosed ==
  ASSUME NEW c, NEW S, S \subseteq Units, NEW start, start \subseteq S,
         \A b \in S : Children(c, b) \subseteq S
  PROVE  /\ start \subseteq Traced(c, start, {})
         /\ Traced(c, start, {}) \subseteq S
         /\ \A b \in Traced(c, start, {}) : Children(c, b) \subseteq Traced(c, start, {})
<1> DEFINE f == CHOOSE f : f = Rounds(c, start, {}, f)
           Closed(r) == \A b \in r : Children(c, b) \subseteq r
           Grows(r, k) == /\ start \subseteq r /\ r \subseteq S
                          /\ Closed(r) \/ Cardinality(r) >= k
           I == {k \in Nat : k <= Size => Grows(f[k], k)}
<1>1. Traced(c, start, {}) = f[Size]
  BY DEF Traced, Rounds, Further
<1>2. f = Rounds(c, start, {}, f)
  BY RoundsExist
<1> HIDE DEF f
<1>3. /\ Size \in Nat /\ IsFiniteSet(Units) /\ Cardinality(Units) = Size
  <2>1. Size \in Nat \ {0} /\ 0 \in Int /\ Size - 1 \in Int
    BY ClusterAssumption
  <2>2. IsFiniteSet(0 .. Size - 1) /\ Cardinality(0 .. Size - 1) = IF 0 > Size - 1 THEN 0 ELSE (Size - 1) - 0 + 1
    BY <2>1, FS_Interval
  <2> QED  BY <2>1, <2>2 DEF Units
<1>4. \A n \in 0 .. Size : f[n] = IF n = 0 THEN start ELSE Further(c, f[n - 1], {})
  BY <1>2 DEF Rounds
<1>5. \A r : r \subseteq S => IsFiniteSet(r) /\ Cardinality(r) \in Nat /\ Cardinality(r) <= Size
                              /\ (Cardinality(r) = Size => r = Units)
  <2>1. ASSUME NEW r, r \subseteq S
        PROVE  IsFiniteSet(r) /\ Cardinality(r) \in Nat /\ Cardinality(r) <= Size
               /\ (Cardinality(r) = Size => r = Units)
    <3>1. r \in SUBSET Units
      BY <2>1
    <3>2. /\ IsFiniteSet(r) /\ Cardinality(r) <= Cardinality(Units)
          /\ Cardinality(Units) = Cardinality(r) => Units = r
      BY <1>3, <3>1, FS_Subset
    <3>3. Cardinality(r) \in Nat
      BY <3>2, FS_CardinalityType
    <3> QED  BY <1>3, <3>2, <3>3
  <2> QED  BY <2>1
<1>6. 0 \in I
  <2>1. f[0] = start
    BY <1>3, <1>4
  <2>2. Cardinality(start) >= 0
    BY <1>5
  <2> QED  BY <2>1, <2>2
<1>7. ASSUME NEW k \in Nat, k \in I PROVE k + 1 \in I
  <2>1. CASE k + 1 <= Size
    <3>1. Grows(f[k], k) /\ k + 1 \in 0 .. Size /\ k + 1 # 0 /\ (k + 1) - 1 = k
      BY <1>3, <1>7, <2>1
    <3> DEFINE r == f[k]
               s == Further(c, r, {})
    <3>2. f[k + 1] = s
      BY <1>4, <3>1
    <3> HIDE DEF r
    <3>3. start \subseteq r /\ r \subseteq S
      BY <3>1 DEF r
    <3>4. s \subseteq S /\ r \subseteq s
      BY <3>3, FurtherIs
    <3>5. CASE Closed(r)
      <4>1. s = r
        BY <3>5 DEF Further
      <4> QED  BY <3>2, <3>3, <3>5, <4>1
    <3>6. CASE ~Closed(r)
      <4>1. PICK x : x \in s /\ x \notin r
        BY <3>6 DEF Further
      <4> HIDE DEF s
      <4>2. r \cup {x} \subseteq s
        BY <3>4, <4>1
      <4>3. IsFiniteSet(r) /\ IsFiniteSet(s) /\ Cardinality(r) \in Nat /\ Cardinality(s) \in Nat
        BY <1>5, <3>3, <3>4
      <4>4. Cardinality(r \cup {x}) = Cardinality(r) + 1
        BY <4>1, <4>3, FS_AddElement
      <4>5. Cardinality(r \cup {x}) <= Cardinality(s)
        BY <4>2, <4>3, FS_Subset
      <4>6. Cardinality(r) >= k
        BY <3>1, <3>6 DEF r
      <4>7. Cardinality(s) >= k + 1
        BY <4>3, <4>4, <4>5, <4>6
      <4> QED  BY <3>2, <3>3, <3>4, <4>7
    <3> QED  BY <3>5, <3>6
  <2>2. CASE ~(k + 1 <= Size)
    BY <2>2
  <2> QED  BY <2>1, <2>2
<1>8. Nat \subseteq I
  <2> HIDE DEF I
  <2> QED  BY <1>6, <1>7, Induction
<1>9. Grows(f[Size], Size)
  BY <1>3, <1>8
<1>10. CASE Closed(f[Size])
  BY <1>1, <1>9, <1>10
<1>11. CASE Cardinality(f[Size]) >= Size
  <2>1. f[Size] \subseteq S
    BY <1>9
  <2>2. f[Size] = Units
    BY <1>3, <1>5, <1>11, <2>1
  <2>3. f[Size] = S
    BY <2>1, <2>2
  <2> QED  BY <1>1, <1>9, <2>3
<1> QED  BY <1>9, <1>10, <1>11

-----------------------------------------------------------------------------
(* The sweep: the blocks in K are kept.                                      *)

Open(c, K) == c.starts \ K

\* The first block of each run of free blocks.
Heads(c, K) == {b \in Open(c, K) : \A p \in Open(c, K) : EndOf(c, p) # b}

\* A run of free blocks ends at the next block that is kept, or at the bump pointer.
Ends(c, K, e) == \A h \in Heads(c, K) :
    /\ e[h] \in K \cup {c.bump} /\ h < e[h]
    /\ \A k \in K \cup {c.bump} : h < k => e[h] <= k

LEMMA BlockFacts ==
  ASSUME NEW c \in ClusterShape, Tiled(c)
  PROVE  /\ Size \in Nat \ {0} /\ c.bump \in 0 .. Size /\ c.starts \subseteq Nat /\ c.starts \subseteq Units
         /\ c.size \in [Units -> 0 .. Size]
         /\ \A b \in c.starts : /\ c.size[b] \in Nat /\ c.size[b] >= 2
                                /\ EndOf(c, b) = b + c.size[b] /\ EndOf(c, b) \in Nat
                                /\ b + 2 <= EndOf(c, b) /\ EndOf(c, b) <= c.bump
<1>1. Size \in Nat \ {0}
  BY ClusterAssumption
<1>2. c.bump \in 0 .. Size /\ c.starts \subseteq Units /\ c.size \in [Units -> 0 .. Size]
  BY DEF ClusterShape
<1>3. Units \subseteq Nat
  BY <1>1 DEF Units
<1>4. ASSUME NEW b \in c.starts
      PROVE  /\ c.size[b] \in Nat /\ c.size[b] >= 2 /\ EndOf(c, b) = b + c.size[b]
             /\ EndOf(c, b) \in Nat /\ b + 2 <= EndOf(c, b) /\ EndOf(c, b) <= c.bump
  <2>1. c.size[b] \in Nat /\ b \in Nat
    <3>1. b \in Units /\ c.size[b] \in 0 .. Size
      BY <1>2
    <3>2. b \in Nat
      BY <1>3, <3>1
    <3>3. c.size[b] \in Nat
      BY <1>1, <3>1
    <3> QED  BY <3>2, <3>3
  <2>2. c.size[b] >= 2 /\ EndOf(c, b) <= c.bump
    BY DEF Tiled, MinBlock
  <2> QED  BY <2>1, <2>2 DEF EndOf
<1> QED  BY <1>1, <1>2, <1>3, <1>4

\* The run that a free block is in starts at a head, and no kept block is in it.
LEMMA RunHasHead ==
  ASSUME NEW c \in ClusterShape, Tiled(c), NEW K, K \subseteq c.starts, NEW p \in Open(c, K)
  PROVE  \E h \in Heads(c, K) : h <= p /\ \A k \in K : ~(h < k /\ k < EndOf(c, p))
<1> DEFINE R == {x \in Open(c, K) : x <= p /\ \A k \in K : ~(x < k /\ k < EndOf(c, p))}
<1>1. /\ c.starts \subseteq Nat
      /\ \A b \in c.starts : EndOf(c, b) \in Nat /\ b + 2 <= EndOf(c, b)
      /\ \A a, b \in c.starts : a < b => EndOf(c, a) <= b
  BY BlockFacts DEF Tiled
<1>2. p \in c.starts /\ p \in Nat
  BY <1>1 DEF Open
<1>3. p \in R
  <2>1. ASSUME NEW k \in K, p < k PROVE ~(k < EndOf(c, p))
    <3>1. k \in c.starts /\ k \in Nat /\ EndOf(c, p) \in Nat /\ EndOf(c, p) <= k
      BY <1>1, <1>2, <2>1
    <3> QED  BY <3>1
  <2> QED  BY <1>2, <2>1
<1>4. R \subseteq Nat
  BY <1>1 DEF Open
<1>5. PICK h \in R : \A x \in R : h <= x
  BY <1>3, <1>4, Least
<1>6. ASSUME NEW q \in Open(c, K), EndOf(c, q) = h PROVE FALSE
  <2>1. /\ q \in c.starts /\ q \in Nat /\ h \in Open(c, K) /\ h \in c.starts /\ h \in Nat /\ h <= p
        /\ q < h
    BY <1>1, <1>6 DEF Open
  <2>2. ASSUME NEW k \in K, q < k, k < EndOf(c, p) PROVE FALSE
    <3>1. k \in c.starts /\ k \in Nat /\ h <= k /\ k # h
      BY <1>1, <1>6, <2>1, <2>2 DEF Open
    <3>2. h < k
      BY <2>1, <3>1
    <3> QED  BY <1>5, <2>2, <3>2
  <2>3. q \in R
    BY <1>2, <2>1, <2>2
  <2>4. h <= q
    BY <1>5, <2>3
  <2> QED  BY <2>1, <2>4
<1>7. h \in Heads(c, K)
  BY <1>5, <1>6 DEF Heads
<1> QED  BY <1>5, <1>7

\* After the sweep the kept blocks and the heads tile the cluster.
LEMMA SweepTiles ==
  ASSUME NEW c \in ClusterShape, Tiled(c), NEW K, K \subseteq c.starts,
         NEW d \in ClusterShape, d.bump = c.bump, d.starts = K \cup Heads(c, K),
         NEW e, Ends(c, K, e),
         \A u \in Units : d.size[u] = IF u \in Heads(c, K) THEN e[u] - u ELSE c.size[u]
  PROVE  /\ Tiled(d)
         /\ \A a, b \in d.starts : EndOf(d, a) = b => a \in K \/ b \in K
<1> DEFINE H == Heads(c, K)
<1>1. /\ c.starts \subseteq Nat /\ c.starts \subseteq Units /\ c.bump \in Nat
      /\ \A b \in c.starts : /\ EndOf(c, b) \in Nat /\ b + 2 <= EndOf(c, b) /\ EndOf(c, b) <= c.bump
                             /\ EndOf(c, b) = b + c.size[b] /\ c.size[b] \in Nat
  BY BlockFacts
<1>2. /\ 0 \in c.starts \cup {c.bump}
      /\ \A b \in c.starts : EndOf(c, b) \in c.starts \cup {c.bump}
      /\ \A a, b \in c.starts : a < b => EndOf(c, a) <= b
      /\ \A b \in c.starts \cup {c.bump} : b = 0 \/ \E a \in c.starts : EndOf(c, a) = b
  BY DEF Tiled
<1>3. H \subseteq c.starts /\ H \cap K = {}
  BY DEF Heads, Open
<1>4. ASSUME NEW h \in H
      PROVE  /\ h \in c.starts /\ h \in Nat /\ e[h] \in Nat /\ h < e[h] /\ e[h] \in K \cup {c.bump}
             /\ EndOf(d, h) = e[h] /\ d.size[h] = e[h] - h
             /\ h + 2 <= e[h] /\ e[h] <= c.bump
             /\ \A k \in K \cup {c.bump} : h < k => e[h] <= k
  <2>1. h \in c.starts /\ h \in Units /\ h \in Nat
    BY <1>1, <1>3
  <2>2. /\ e[h] \in K \cup {c.bump} /\ h < e[h]
        /\ \A k \in K \cup {c.bump} : h < k => e[h] <= k
    BY DEF Ends
  <2>3. e[h] \in Nat /\ (e[h] \in c.starts \/ e[h] = c.bump)
    BY <1>1, <2>2
  <2>4. d.size[h] = e[h] - h
    BY <2>1
  <2>5. EndOf(d, h) = e[h]
    BY <2>1, <2>3, <2>4 DEF EndOf
  <2>6. EndOf(c, h) <= e[h]
    BY <1>1, <1>2, <2>1, <2>2, <2>3
  <2>7. h + 2 <= e[h]
    BY <1>1, <2>1, <2>3, <2>6
  <2>8. e[h] <= c.bump
    <3>1. CASE e[h] = c.bump
      BY <1>1, <3>1
    <3>2. CASE e[h] \in c.starts
      <4>1. e[h] + 2 <= EndOf(c, e[h]) /\ EndOf(c, e[h]) <= c.bump /\ EndOf(c, e[h]) \in Nat
        BY <1>1, <3>2
      <4> QED  BY <1>1, <2>3, <4>1
    <3> QED  BY <2>3, <3>1, <3>2
  <2> QED  BY <2>1, <2>2, <2>3, <2>4, <2>5, <2>7, <2>8
<1>5. ASSUME NEW k \in K
      PROVE  k \in c.starts /\ k \in Nat /\ EndOf(d, k) = EndOf(c, k) /\ d.size[k] = c.size[k]
  <2>1. k \in Units /\ k \notin H
    BY <1>1, <1>3
  <2> QED  BY <1>1, <2>1 DEF EndOf
<1> HIDE DEF H
<1>6. d.starts = K \cup H
  BY DEF H
<1>7. \A p \in c.starts \ K : \E h \in H : h <= p /\ \A k \in K : ~(h < k /\ k < EndOf(c, p))
  BY RunHasHead DEF H, Open
<1>8. \A b \in c.starts \ K : b \in H \/ \E p \in c.starts \ K : EndOf(c, p) = b
  BY DEF H, Heads, Open
<1>9. \A b \in H, p \in c.starts : EndOf(c, p) = b => p \in K
  BY DEF H, Heads, Open
<1>10. 0 \in d.starts \cup {d.bump}
  <2>1. CASE 0 = c.bump
    BY <2>1
  <2>2. CASE 0 \in c.starts
    <3>1. \A p \in c.starts : EndOf(c, p) # 0
      BY <1>1
    <3> QED  BY <1>6, <1>8, <2>2, <3>1
  <2> QED  BY <1>2, <2>1, <2>2
<1>11. ASSUME NEW b \in d.starts
       PROVE  /\ d.size[b] >= MinBlock
              /\ EndOf(d, b) <= d.bump /\ EndOf(d, b) \in d.starts \cup {d.bump}
  <2>1. CASE b \in K
    <3>1. EndOf(d, b) \in c.starts \cup {c.bump} /\ d.size[b] >= 2 /\ EndOf(d, b) <= c.bump
      BY <1>1, <1>2, <1>5, <2>1
    <3>2. EndOf(d, b) \in d.starts \cup {d.bump}
      <4>1. CASE EndOf(c, b) \in c.starts \ K
        <5>1. ASSUME NEW p \in c.starts \ K, EndOf(c, p) = EndOf(c, b) PROVE FALSE
          <6>1. b \in c.starts /\ p \in c.starts /\ b # p
            BY <1>5, <2>1, <5>1
          <6>2. b < p \/ p < b
            BY <1>1, <6>1
          <6>3. EndOf(c, b) <= p \/ EndOf(c, p) <= b
            BY <1>2, <6>1, <6>2
          <6> QED  BY <1>1, <5>1, <6>1, <6>3
        <5>2. EndOf(c, b) \in H
          BY <1>8, <4>1, <5>1
        <5> QED  BY <1>5, <1>6, <2>1, <5>2
      <4>2. CASE EndOf(c, b) \in K \cup {c.bump}
        BY <1>5, <1>6, <2>1, <4>2
      <4> QED  BY <1>5, <2>1, <3>1, <4>1, <4>2
    <3> QED  BY <3>1, <3>2 DEF MinBlock
  <2>2. CASE b \in H
    <3>1. /\ b \in Nat /\ e[b] \in Nat /\ b + 2 <= e[b] /\ d.size[b] = e[b] - b /\ EndOf(d, b) = e[b]
          /\ e[b] <= c.bump /\ e[b] \in K \cup {c.bump}
      BY <1>4, <2>2
    <3> QED  BY <1>6, <3>1 DEF MinBlock
  <2> QED  BY <1>6, <2>1, <2>2
<1>12. ASSUME NEW a \in d.starts, NEW b \in d.starts, a < b PROVE EndOf(d, a) <= b
  <2>1. a \in c.starts /\ b \in c.starts /\ a \in Nat /\ b \in Nat
    BY <1>1, <1>4, <1>5, <1>6
  <2>2. CASE a \in K
    BY <1>2, <1>5, <1>12, <2>1, <2>2
  <2>3. CASE a \in H /\ b \in K
    BY <1>4, <1>12, <2>3
  <2>4. CASE a \in H /\ b \in H
    <3>1. PICK p \in c.starts : EndOf(c, p) = b
      BY <1>2, <1>12, <2>1
    <3>2. p \in K /\ p \in Nat /\ p + 2 <= b
      BY <1>1, <1>9, <2>4, <3>1
    <3>3. a < p
      <4>1. CASE p < a
        <5>1. EndOf(c, p) <= a
          BY <1>2, <2>1, <3>1, <4>1
        <5> QED  BY <1>12, <2>1, <3>1, <5>1
      <4>2. CASE p = a
        BY <1>3, <2>4, <3>2, <4>2 DEF H
      <4> QED  BY <2>1, <3>2, <4>1, <4>2
    <3>4. e[a] <= p /\ EndOf(d, a) = e[a] /\ e[a] \in Nat
      BY <1>4, <2>4, <3>2, <3>3
    <3> QED  BY <2>1, <3>2, <3>4
  <2> QED  BY <1>6, <2>2, <2>3, <2>4
<1>13. ASSUME NEW b \in d.starts \cup {d.bump}
       PROVE  b = 0 \/ \E a \in d.starts : EndOf(d, a) = b
  <2>1. b \in c.starts \cup {c.bump} /\ b \in Nat
    BY <1>1, <1>4, <1>5, <1>6
  <2>2. ASSUME b # 0 PROVE \E a \in d.starts : EndOf(d, a) = b
    <3>1. PICK p \in c.starts : EndOf(c, p) = b
      BY <1>2, <2>1, <2>2
    <3>2. CASE p \in K
      BY <1>5, <1>6, <3>1, <3>2
    <3>3. CASE p \notin K
      <4>1. b \in K \cup {c.bump}
        BY <1>6, <1>9, <3>1, <3>3
      <4>2. PICK h \in H : h <= p /\ \A k \in K : ~(h < k /\ k < b)
        BY <1>7, <3>1, <3>3
      <4>3. p \in Nat /\ p + 2 <= b
        BY <1>1, <3>1
      <4>4. /\ h \in Nat /\ e[h] \in Nat /\ h < e[h] /\ e[h] \in K \cup {c.bump} /\ e[h] <= c.bump
            /\ EndOf(d, h) = e[h] /\ (h < b => e[h] <= b)
        BY <1>4, <4>1
      <4>5. e[h] <= b
        BY <2>1, <4>2, <4>3, <4>4
      <4>6. e[h] = b
        <5>1. CASE e[h] \in K
          BY <2>1, <4>2, <4>4, <4>5, <5>1
        <5>2. CASE e[h] = c.bump
          <6>1. b <= c.bump
            BY <1>1, <3>1
          <6> QED  BY <1>1, <2>1, <4>5, <5>2, <6>1
        <5> QED  BY <4>4, <5>1, <5>2
      <4> QED  BY <1>6, <4>4, <4>6
    <3> QED  BY <3>2, <3>3
  <2> QED  BY <2>2
<1>14. ASSUME NEW a \in d.starts, NEW b \in d.starts, EndOf(d, a) = b PROVE a \in K \/ b \in K
  <2>1. CASE a \in H
    <3>1. b \in K \cup {c.bump}
      BY <1>4, <1>14, <2>1
    <3>2. \A x \in c.starts : x # c.bump
      BY <1>1
    <3>3. b \in c.starts
      BY <1>4, <1>5, <1>6
    <3> QED  BY <3>1, <3>2, <3>3
  <2> QED  BY <1>6, <2>1
<1> QED  BY <1>10, <1>11, <1>12, <1>13, <1>14 DEF Tiled

-----------------------------------------------------------------------------
(* The collection cycle.                                                     *)

\* An address resolves exactly to the object whose payload it points into.
LEMMA ResolveIs ==
  ASSUME NEW c \in ClusterShape, Tiled(c), NEW addr \in Nat
  PROVE  Resolve(c, addr) = {b \in Objects(c) : b < addr /\ addr < EndOf(c, b)}
<1> DEFINE below == BlockStartAtOrBelow(c, addr)
<1>1. /\ c.starts \subseteq Nat /\ c.bump \in Nat
      /\ \A b \in c.starts : /\ EndOf(c, b) \in Nat /\ b + 2 <= EndOf(c, b) /\ EndOf(c, b) <= c.bump
                             /\ EndOf(c, b) = b + c.size[b] /\ c.size[b] >= 2
      /\ \A a, b \in c.starts : a < b => EndOf(c, a) <= b
  BY BlockFacts DEF Tiled
<1>2. below = {s \in c.starts : s <= addr}
  BY DEF BlockStartAtOrBelow
<1> HIDE DEF below
<1>3. CASE addr >= c.bump \/ below = {}
  <2>1. Resolve(c, addr) = {}
    BY <1>3 DEF Resolve, below
  <2>2. ASSUME NEW b \in Objects(c), b < addr, addr < EndOf(c, b) PROVE FALSE
    <3>1. b \in c.starts /\ b \in Nat /\ EndOf(c, b) \in Nat
      BY <1>1 DEF Objects
    <3>2. b \in below
      BY <1>2, <2>2, <3>1
    <3>3. addr < c.bump
      BY <1>1, <2>2, <3>1
    <3> QED  BY <1>1, <1>3, <3>2, <3>3
  <2> QED  BY <2>1, <2>2
<1>4. CASE addr < c.bump /\ below # {}
  <2> DEFINE block == Max(below)
  <2>1. below \subseteq 0 .. addr
    BY <1>1, <1>2
  <2>2. block \in below /\ \A x \in below : x <= block
    BY <1>4, <2>1, GreatestIs
  <2>3. Resolve(c, addr) =
          {b \in {block} : /\ c.size[b] >= MinBlock
                           /\ b + c.size[b] <= c.bump
                           /\ addr < b + c.size[b]
                           /\ c.tag[b] # FreeTag
                           /\ addr > b}
    BY <1>1, <1>4 DEF Resolve, below
  <2> HIDE DEF block
  <2>4. block \in c.starts /\ block \in Nat /\ block <= addr
    BY <1>1, <1>2, <2>2
  <2>5. ASSUME NEW b \in Objects(c), b < addr, addr < EndOf(c, b)
        PROVE  b = block
    <3>1. b \in c.starts /\ b \in Nat /\ EndOf(c, b) \in Nat /\ b \in below
      BY <1>1, <1>2, <2>5 DEF Objects
    <3>2. b <= block
      BY <2>2, <3>1
    <3>3. b < block => EndOf(c, b) <= block
      BY <1>1, <2>4, <3>1
    <3> QED  BY <2>4, <2>5, <3>1, <3>2, <3>3
  <2>6. ASSUME NEW b \in Resolve(c, addr)
        PROVE  b \in Objects(c) /\ b < addr /\ addr < EndOf(c, b)
    <3>1. b = block /\ addr < b + c.size[b] /\ c.tag[b] # FreeTag /\ addr > b
      BY <2>3
    <3> QED  BY <1>1, <2>4, <3>1 DEF Objects
  <2>7. ASSUME NEW b \in Objects(c), b < addr, addr < EndOf(c, b)
        PROVE  b \in Resolve(c, addr)
    <3>1. b = block /\ b \in c.starts /\ c.tag[b] # FreeTag
      BY <2>5, <2>7 DEF Objects
    <3>2. /\ c.size[b] >= MinBlock /\ b + c.size[b] <= c.bump /\ addr < b + c.size[b]
      BY <1>1, <2>7, <3>1 DEF MinBlock
    <3>3. addr > b
      BY <1>1, <2>7, <3>1
    <3> QED  BY <2>3, <3>1, <3>2, <3>3
  <2> QED  BY <2>6, <2>7
<1> QED  BY <1>1, <1>3, <1>4

\* The conservative scan of the words finds what they point to, and no more.
LEMMA HeldIs ==
  ASSUME NEW c \in ClusterShape, Tiled(c), Rooted(c)
  PROVE  RootBlocks(c) = Held /\ Held \subseteq Objects(c)
<1>1. /\ c.starts \subseteq Nat
      /\ \A b \in c.starts : EndOf(c, b) \in Nat /\ b + 2 <= EndOf(c, b)
      /\ \A a, b \in c.starts : a < b => EndOf(c, a) <= b
  BY BlockFacts DEF Tiled
<1>2. Size \in Nat \ {0}
  BY ClusterAssumption
<1>3. ASSUME NEW w \in Words
      PROVE  Resolve(c, words[w]) = IF words[w] = Nil THEN {} ELSE {words[w] - 1}
  <2>1. words[w] \in Nat
    BY <1>2 DEF Rooted
  <2>2. Resolve(c, words[w]) = {b \in Objects(c) : b < words[w] /\ words[w] < EndOf(c, b)}
    BY <2>1, ResolveIs
  <2>3. CASE words[w] = Nil
    <3>1. \A b \in Objects(c) : ~(b < 0)
      BY <1>1 DEF Objects
    <3> QED  BY <2>2, <2>3, <3>1 DEF Nil
  <2>4. CASE words[w] # Nil
    <3> DEFINE o == words[w] - 1
    <3>1. o \in Objects(c) /\ o \in c.starts /\ o \in Nat /\ words[w] = o + 1
      BY <1>1, <2>1, <2>4 DEF Rooted, Points, Objects
    <3> HIDE DEF o
    <3>2. o < words[w] /\ words[w] < EndOf(c, o)
      BY <1>1, <3>1
    <3>3. ASSUME NEW b \in Objects(c), b < words[w], words[w] < EndOf(c, b) PROVE b = o
      <4>1. b \in c.starts /\ b \in Nat /\ EndOf(c, b) \in Nat /\ EndOf(c, o) \in Nat
        BY <1>1, <3>1 DEF Objects
      <4>2. (b < o => EndOf(c, b) <= o) /\ (o < b => EndOf(c, o) <= b)
        BY <1>1, <3>1, <4>1
      <4> QED  BY <3>1, <3>2, <3>3, <4>1, <4>2
    <3>4. Resolve(c, words[w]) = {o}
      BY <2>2, <3>1, <3>2, <3>3
    <3> QED  BY <2>4, <3>4 DEF o
  <2> QED  BY <2>3, <2>4
<1>4. UNION {Resolve(c, words[w]) : w \in Words}
        = {words[w] - 1 : w \in {x \in Words : words[x] # Nil}}
  BY <1>3
<1>5. RootBlocks(c) = Held
  BY <1>4 DEF RootBlocks, Held
<1>6. Held \subseteq Objects(c)
  BY DEF Held, Rooted, Points
<1> QED  BY <1>5, <1>6

LEMMA ChildrenAreObjects ==
  ASSUME NEW c, Linked(c), NEW b \in Objects(c)
  PROVE  Children(c, b) \subseteq Objects(c)
BY DEF Children, Linked, Points, Objects

\* What the cycle marks: the objects the program can still get at.
Live(c) == Traced(c, Held, {})

LEMMA LiveIs ==
  ASSUME NEW c \in ClusterShape, Tiled(c), Linked(c), Rooted(c)
  PROVE  /\ Held \subseteq Live(c) /\ Live(c) \subseteq Objects(c)
         /\ \A b \in Live(c) : Children(c, b) \subseteq Live(c)
<1>1. Objects(c) \subseteq Units
  BY DEF ClusterShape, Objects
<1>2. Held \subseteq Objects(c)
  BY HeldIs
<1>3. \A b \in Objects(c) : Children(c, b) \subseteq Objects(c)
  BY ChildrenAreObjects
<1> QED  BY <1>1, <1>2, <1>3, TraceIsClosed DEF Live

LEMMA ClearMarksIs ==
  ASSUME NEW c \in ClusterShape, Clean(c)
  PROVE  ClearMarks(c) = c
<1> DEFINE m == [u \in Units |-> u \notin Walk(c) /\ c.mark[u]]
<1>1. c.mark \in [Units -> BOOLEAN]
  BY DEF ClusterShape
<1>2. \A u \in Units : m[u] = c.mark[u]
  BY <1>1 DEF Clean
<1>3. m = c.mark
  BY <1>1, <1>2
<1>4. ClearMarks(c) = [c EXCEPT !.mark = m]
  BY DEF ClearMarks
<1> HIDE DEF m
<1> QED  BY <1>3, <1>4 DEF ClusterShape

\* The cluster with the objects marked that the program can get at.
LEMMA MarkedIs ==
  ASSUME NEW c \in ClusterShape, Tiled(c), Clean(c), Linked(c), Rooted(c)
  PROVE  Marked(c) = [c EXCEPT !.mark = [u \in Units |-> u \in Live(c)]]
<1>1. {u \in Units : c.mark[u]} = {}
  BY DEF Clean
<1>2. Traced(c, RootBlocks(c), {u \in Units : c.mark[u]}) = Live(c)
  BY <1>1, HeldIs DEF Live
<1>3. Marked(c) = [c EXCEPT !.mark = [u \in Units |-> c.mark[u] \/ (u \in Live(c) /\ c.tag[u] # FreeTag)]]
  BY <1>2 DEF Marked
<1>4. \A u \in Units : (c.mark[u] \/ (u \in Live(c) /\ c.tag[u] # FreeTag)) <=> u \in Live(c)
  BY LiveIs DEF Clean, Objects
<1>5. \A u \in Units : (c.mark[u] \/ (u \in Live(c) /\ c.tag[u] # FreeTag)) = (u \in Live(c))
  <2>1. \A u \in Units : (c.mark[u] \/ (u \in Live(c) /\ c.tag[u] # FreeTag)) \in BOOLEAN
    OBVIOUS
  <2> QED  BY <1>4, <2>1
<1>6. [u \in Units |-> c.mark[u] \/ (u \in Live(c) /\ c.tag[u] # FreeTag)] = [u \in Units |-> u \in Live(c)]
  BY <1>5
<1> QED  BY <1>3, <1>6

LEMMA DescendingLists ==
  ASSUME NEW S, S \subseteq Units
  PROVE  Descending(S) \in Seq(S) /\ IsInjective(Descending(S)) /\ Range(Descending(S)) = S
<1> DEFINE s == Descending(S)
<1>1. Size \in Nat \ {0} /\ Units \subseteq Nat /\ S \subseteq Nat
  BY ClusterAssumption DEF Units
<1>2. IsFiniteSet(S)
  <2>1. IsFiniteSet(0 .. Size - 1)
    BY <1>1, FS_Interval
  <2> QED  BY <2>1, FS_Subset DEF Units
<1>3. \E t \in [1 .. Cardinality(S) -> S] : \A i, j \in DOMAIN t : i < j => t[i] > t[j]
  BY <1>1, <1>2, CanListDown DEF Decreasing
<1>4. s \in [1 .. Cardinality(S) -> S] /\ \A i, j \in DOMAIN s : i < j => s[i] > s[j]
  BY <1>3 DEF Descending
<1> HIDE DEF s
<1>5. Cardinality(S) \in Nat
  BY <1>2, FS_CardinalityType
<1>6. IsInjective(s)
  <2>1. ASSUME NEW i \in DOMAIN s, NEW j \in DOMAIN s, s[i] = s[j] PROVE i = j
    <3>1. i \in 1 .. Cardinality(S) /\ j \in 1 .. Cardinality(S)
      BY <1>4, <2>1
    <3>2. i \in Nat /\ j \in Nat /\ s[i] \in Nat /\ s[j] \in Nat
      <4>1. i \in Nat /\ j \in Nat
        BY <1>5, <3>1
      <4>2. s[i] \in S /\ s[j] \in S
        BY <1>4, <3>1
      <4> QED  BY <1>1, <4>1, <4>2
    <3>3. ~(i < j) /\ ~(j < i)
      BY <1>4, <2>1, <3>2
    <3> QED  BY <3>2, <3>3
  <2> QED  BY <2>1 DEF IsInjective
<1> QED  BY <1>2, <1>4, <1>6, ListsAll DEF s

\* The cluster a sweep leaves, that keeps the blocks in K.
IsSwept(c, K, d) ==
    LET heads == Heads(c, K) IN
    /\ d \in ClusterShape
    /\ d.bump = c.bump
    /\ d.starts = K \cup heads
    /\ \A u \in Units : /\ ~d.mark[u]
                        /\ d.tag[u] = IF u \in heads THEN FreeTag ELSE c.tag[u]
                        /\ d.field[u] = IF u \in Open(c, K) THEN NoFields ELSE c.field[u]
    /\ IsInjective(d.free) /\ Range(d.free) = heads
    /\ \E e : Ends(c, K, e) /\ \A u \in Units : d.size[u] = IF u \in heads THEN e[u] - u ELSE c.size[u]

LEMMA SweptIs ==
  ASSUME NEW c \in ClusterShape, Tiled(c), NEW K, K \subseteq Objects(c),
         c.mark = [u \in Units |-> u \in K]
  PROVE  IsSwept(c, K, Swept(c))
<1> DEFINE met == Walk(c)
           kept == {b \in met : c.mark[b] /\ c.tag[b] # FreeTag}
           open == met \ kept
           heads == {b \in open : \A p \in open : p + c.size[p] # b}
           After(b) == Min({k \in kept \cup {WalkEnd(c)} : k > b})
           e == [u \in Units |-> Min({k \in K \cup {c.bump} : k > u})]
           H == Heads(c, K)
<1>1. /\ Size \in Nat \ {0} /\ c.bump \in 0 .. Size /\ c.starts \subseteq Nat /\ c.starts \subseteq Units
      /\ c.size \in [Units -> 0 .. Size] /\ \A b \in c.starts : EndOf(c, b) = b + c.size[b]
      /\ \A b \in c.starts : EndOf(c, b) \in Nat /\ b + 2 <= EndOf(c, b) /\ EndOf(c, b) <= c.bump
  BY BlockFacts
<1>2. met = c.starts /\ WalkEnd(c) = c.bump
  BY WalkIs, WalkEndIs
<1>3. K \subseteq c.starts /\ kept = K
  BY <1>1, <1>2 DEF Objects
<1>4. open = Open(c, K) /\ heads = H
  <2>1. open = Open(c, K)
    BY <1>2, <1>3 DEF Open
  <2> HIDE DEF open
  <2>2. open \subseteq c.starts
    BY <2>1 DEF Open
  <2>3. heads = {b \in open : \A p \in open : EndOf(c, p) # b}
    BY <1>1, <2>2
  <2> QED  BY <2>1, <2>3 DEF Heads
<1>5. \A u \in Units : After(u) = e[u]
  BY <1>2, <1>3
<1>6. H \subseteq c.starts
  BY DEF Heads, Open
<1>7. Ends(c, K, e)
  <2>1. ASSUME NEW h \in H
        PROVE  /\ e[h] \in K \cup {c.bump} /\ h < e[h]
               /\ \A k \in K \cup {c.bump} : h < k => e[h] <= k
    <3> DEFINE T == {k \in K \cup {c.bump} : k > h}
    <3>1. h \in Units /\ h \in Nat /\ h \in c.starts /\ h < c.bump
      BY <1>1, <1>6
    <3>2. T \subseteq Nat /\ c.bump \in T
      BY <1>1, <1>3, <3>1
    <3>3. Min(T) \in T /\ \A x \in T : Min(T) <= x
      BY <3>2, LeastIs
    <3>4. e[h] = Min(T)
      BY <3>1
    <3>5. \A k \in K \cup {c.bump} : h < k => k \in T
      BY <1>1, <1>3, <3>1
    <3> HIDE DEF e
    <3>6. e[h] \in T
      BY <3>3, <3>4
    <3>7. e[h] \in K \cup {c.bump} /\ e[h] > h /\ e[h] \in Nat
      BY <3>2, <3>6
    <3> QED  BY <3>1, <3>3, <3>4, <3>5, <3>7
  <2> QED  BY <2>1 DEF Ends
<1> DEFINE mark == [u \in Units |-> u \notin kept /\ c.mark[u]]
           tag == [u \in Units |-> IF u \in heads THEN FreeTag ELSE c.tag[u]]
           size == [u \in Units |-> IF u \in heads THEN After(u) - u ELSE c.size[u]]
           field == [u \in Units |-> IF u \in open THEN NoFields ELSE c.field[u]]
           starts == c.starts \ (open \ heads)
<1>8. Swept(c) = [c EXCEPT !.mark = mark, !.tag = tag, !.size = size, !.field = field,
                           !.starts = starts, !.free = Descending(heads)]
  BY DEF Swept
<1>9. starts = K \cup H
  BY <1>3, <1>4 DEF Open, Heads
<1>10. Descending(heads) \in Seq(H) /\ IsInjective(Descending(heads)) /\ Range(Descending(heads)) = H
  BY <1>1, <1>4, <1>6, DescendingLists
<1>11. mark = [u \in Units |-> FALSE]
  BY <1>3
<1>12. tag = [u \in Units |-> IF u \in H THEN FreeTag ELSE c.tag[u]]
  BY <1>4
<1>13. field = [u \in Units |-> IF u \in Open(c, K) THEN NoFields ELSE c.field[u]]
  BY <1>4
<1>14. size = [u \in Units |-> IF u \in H THEN e[u] - u ELSE c.size[u]]
  BY <1>4, <1>5
<1> HIDE DEF mark, tag, size, field, starts, e, met, kept, open, heads, H
<1>15. mark \in [Units -> BOOLEAN] /\ starts \in SUBSET Units
  BY <1>1, <1>3, <1>6, <1>9, <1>11
<1>16. /\ tag \in [Units -> Types \cup {FreeTag}]
       /\ field \in [Units -> [AllFields -> 0 .. Size - 1]]
  <2>1. c.tag \in [Units -> Types \cup {FreeTag}] /\ c.field \in [Units -> [AllFields -> 0 .. Size - 1]]
    BY DEF ClusterShape
  <2>2. NoFields \in [AllFields -> 0 .. Size - 1]
    BY <1>1 DEF NoFields, Nil
  <2> QED  BY <1>12, <1>13, <2>1, <2>2
<1>17. size \in [Units -> 0 .. Size]
  <2>1. ASSUME NEW u \in H PROVE e[u] - u \in 0 .. Size
    <3>1. e[u] \in K \cup {c.bump} /\ u < e[u]
      BY <1>7, <2>1 DEF Ends, H
    <3>2. e[u] \in 0 .. Size
      BY <1>1, <1>3, <3>1 DEF Units
    <3>3. u \in Nat
      BY <1>1, <1>6
    <3> QED  BY <1>1, <3>1, <3>2, <3>3
  <2> QED  BY <1>1, <1>14, <2>1
<1>18. Descending(heads) \in Seq(Units)
  <2>1. Seq(H) \subseteq Seq(Units)
    BY <1>1, <1>6
  <2> QED  BY <1>10, <2>1
<1>19. Swept(c) \in ClusterShape
  BY <1>8, <1>15, <1>16, <1>17, <1>18 DEF ClusterShape
<1>20. /\ Swept(c).bump = c.bump /\ Swept(c).starts = starts /\ Swept(c).mark = mark
       /\ Swept(c).tag = tag /\ Swept(c).size = size /\ Swept(c).field = field
       /\ Swept(c).free = Descending(heads)
  BY <1>8 DEF ClusterShape
<1>21. \A u \in Units : /\ ~mark[u]
                        /\ tag[u] = IF u \in H THEN FreeTag ELSE c.tag[u]
                        /\ field[u] = IF u \in Open(c, K) THEN NoFields ELSE c.field[u]
                        /\ size[u] = IF u \in H THEN e[u] - u ELSE c.size[u]
  BY <1>11, <1>12, <1>13, <1>14
<1>22. \E e1 : Ends(c, K, e1) /\ \A u \in Units : Swept(c).size[u] = IF u \in H THEN e1[u] - u ELSE c.size[u]
  BY <1>7, <1>20, <1>21
<1>23. \A u \in Units : /\ ~Swept(c).mark[u]
                        /\ Swept(c).tag[u] = IF u \in H THEN FreeTag ELSE c.tag[u]
                        /\ Swept(c).field[u] = IF u \in Open(c, K) THEN NoFields ELSE c.field[u]
  BY <1>20, <1>21
<1>24. /\ Swept(c).bump = c.bump /\ Swept(c).starts = K \cup H
       /\ IsInjective(Swept(c).free) /\ Range(Swept(c).free) = H
  BY <1>9, <1>10, <1>20
<1> DEFINE d == Swept(c)
<1> HIDE DEF d
<1> QED  BY <1>19, <1>22, <1>23, <1>24 DEF IsSwept, H, d

\* A cycle keeps what the program can get at.
LEMMA CycleIs ==
  ASSUME NEW c, Good(c), Rooted(c)
  PROVE  IsSwept(c, Live(c), AfterCycle(c))
<1> DEFINE n == Marked(c)
           K == Live(c)
           mark == [u \in Units |-> u \in K]
<1>1. c \in ClusterShape /\ Tiled(c) /\ Clean(c) /\ Linked(c)
  BY DEF Good
<1>2. AfterCycle(c) = Swept(n)
  BY <1>1, ClearMarksIs DEF AfterCycle
<1>3. n = [c EXCEPT !.mark = mark] /\ mark \in [Units -> BOOLEAN]
  BY <1>1, MarkedIs
<1>4. K \subseteq Objects(c)
  BY <1>1, LiveIs
<1> HIDE DEF n, K, mark
<1>5. /\ n \in ClusterShape /\ n.mark = mark /\ n.bump = c.bump /\ n.starts = c.starts
      /\ n.tag = c.tag /\ n.size = c.size /\ n.field = c.field
  BY <1>1, <1>3 DEF ClusterShape
<1>6. \A b : EndOf(n, b) = EndOf(c, b)
  BY <1>5 DEF EndOf
<1>7. Tiled(n)
  BY <1>1, <1>5, <1>6 DEF Tiled
<1>8. Objects(n) = Objects(c) /\ Open(n, K) = Open(c, K) /\ Heads(n, K) = Heads(c, K)
  BY <1>5, <1>6 DEF Objects, Open, Heads
<1>9. IsSwept(n, K, Swept(n))
  BY <1>4, <1>5, <1>7, <1>8, SweptIs DEF mark
<1>10. \A e : Ends(n, K, e) <=> Ends(c, K, e)
  BY <1>5, <1>8 DEF Ends
<1> DEFINE d == Swept(n)
<1> HIDE DEF d
<1>11. IsSwept(n, K, d)
  BY <1>9 DEF d
<1>12. \E e : Ends(n, K, e) /\ \A u \in Units : d.size[u] = IF u \in Heads(n, K) THEN e[u] - u ELSE n.size[u]
  BY <1>11 DEF IsSwept
<1>13. \E e : Ends(c, K, e) /\ \A u \in Units : d.size[u] = IF u \in Heads(c, K) THEN e[u] - u ELSE c.size[u]
  BY <1>5, <1>8, <1>10, <1>12
<1>14. IsSwept(c, K, d)
  BY <1>5, <1>8, <1>11, <1>13 DEF IsSwept
<1> QED  BY <1>2, <1>14 DEF d, K

LEMMA SweepKeeps ==
  ASSUME NEW c, Good(c), NEW K, K \subseteq Objects(c), \A b \in K : Children(c, b) \subseteq K,
         NEW d, IsSwept(c, K, d)
  PROVE  /\ Good(d) /\ Objects(d) = K
         /\ \A a, b \in d.starts : EndOf(d, a) = b => a \in K \/ b \in K
<1>1. c \in ClusterShape /\ Tiled(c) /\ Clean(c) /\ Linked(c)
  BY DEF Good
<1>2. /\ Size \in Nat \ {0} /\ c.bump \in 0 .. Size /\ c.starts \subseteq Nat /\ c.starts \subseteq Units
      /\ \A b \in c.starts : EndOf(c, b) \in Nat /\ b + 2 <= EndOf(c, b) /\ EndOf(c, b) <= c.bump
  BY <1>1, BlockFacts
<1>3. K \subseteq c.starts /\ Open(c, K) \subseteq c.starts /\ Heads(c, K) \subseteq Open(c, K)
      /\ Open(c, K) \cap K = {}
  BY DEF Objects, Open, Heads
<1>4. /\ d \in ClusterShape /\ d.bump = c.bump /\ d.starts = K \cup Heads(c, K)
      /\ \A u \in Units : /\ ~d.mark[u]
                          /\ d.tag[u] = IF u \in Heads(c, K) THEN FreeTag ELSE c.tag[u]
                          /\ d.field[u] = IF u \in Open(c, K) THEN NoFields ELSE c.field[u]
      /\ IsInjective(d.free) /\ Range(d.free) = Heads(c, K)
  BY DEF IsSwept
<1>5. PICK e : Ends(c, K, e) /\ \A u \in Units : d.size[u] = IF u \in Heads(c, K) THEN e[u] - u ELSE c.size[u]
  BY DEF IsSwept
<1>6. Tiled(d) /\ \A a, b \in d.starts : EndOf(d, a) = b => a \in K \/ b \in K
  BY <1>1, <1>3, <1>4, <1>5, SweepTiles
<1>7. \A b \in K : b \in Units /\ b \notin Heads(c, K) /\ d.tag[b] = c.tag[b] /\ d.field[b] = c.field[b]
  BY <1>2, <1>3, <1>4
<1>8. Objects(d) = K
  <2>1. \A b \in K : b \in Objects(d)
    BY <1>4, <1>7 DEF Objects
  <2>2. \A b \in Heads(c, K) : b \notin Objects(d)
    BY <1>2, <1>3, <1>4 DEF Objects
  <2> QED  BY <1>4, <2>1, <2>2 DEF Objects
<1>9. FreeListed(d)
  BY <1>3, <1>4, <1>8 DEF FreeListed
<1>10. Clean(d)
  <2>1. ASSUME NEW u \in Units, u >= d.bump PROVE d.field[u] = NoFields
    <3>1. u \notin c.starts
      BY <1>2, <1>4, <2>1
    <3>2. d.field[u] = c.field[u]
      BY <1>3, <1>4, <3>1
    <3> QED  BY <1>1, <1>4, <2>1, <3>2 DEF Clean
  <2> QED  BY <1>4, <2>1 DEF Clean
<1>11. Linked(d)
  <2>1. ASSUME NEW b \in K, NEW f \in Fields[c.tag[b]] PROVE Points(d, c.field[b][f])
    <3>1. c.tag[b] # FreeTag
      BY DEF Objects
    <3>2. c.field[b][f] # Nil => c.field[b][f] - 1 \in Children(c, b)
      BY <2>1, <3>1 DEF Children
    <3> QED  BY <1>8, <3>2 DEF Points
  <2> QED  BY <1>7, <1>8, <2>1 DEF Linked
<1> QED  BY <1>4, <1>6, <1>8, <1>9, <1>10, <1>11 DEF Good

LEMMA CycleKeeps ==
  ASSUME NEW c, Good(c), Rooted(c)
  PROVE  /\ Good(AfterCycle(c)) /\ Objects(AfterCycle(c)) = Live(c) /\ Rooted(AfterCycle(c))
         /\ \A a, b \in AfterCycle(c).starts :
               EndOf(AfterCycle(c), a) = b => a \in Live(c) \/ b \in Live(c)
<1> DEFINE d == AfterCycle(c)
<1>1. /\ Held \subseteq Live(c) /\ Live(c) \subseteq Objects(c)
      /\ \A b \in Live(c) : Children(c, b) \subseteq Live(c)
  BY LiveIs DEF Good
<1>2. IsSwept(c, Live(c), d)
  BY CycleIs
<1> HIDE DEF d
<1>3. /\ Good(d) /\ Objects(d) = Live(c)
      /\ \A a, b \in d.starts : EndOf(d, a) = b => a \in Live(c) \/ b \in Live(c)
  BY <1>1, <1>2, SweepKeeps
<1>4. Rooted(d)
  BY <1>1, <1>3 DEF Held, Rooted, Points
<1> QED  BY <1>3, <1>4 DEF d

-----------------------------------------------------------------------------
(* Allocation.                                                               *)

LEMMA WithoutOne ==
  ASSUME NEW S, NEW s \in Seq(S), IsInjective(s), NEW i \in DOMAIN s
  PROVE  /\ RemoveAt(s, i) \in Seq(S) /\ IsInjective(RemoveAt(s, i))
         /\ Range(RemoveAt(s, i)) = Range(s) \ {s[i]}
<1> DEFINE n == Len(s)
           r == RemoveAt(s, i)
           front == SubSeq(s, 1, i - 1)
           back == SubSeq(s, i + 1, n)
<1>1. n \in Nat /\ DOMAIN s = 1 .. n /\ i \in 1 .. n /\ \A j \in 1 .. n : s[j] \in S
  OBVIOUS
<1>2. front \in Seq(S) /\ Len(front) = i - 1 /\ \A j \in 1 .. i - 1 : front[j] = s[j]
  BY <1>1
<1>3. back \in Seq(S) /\ Len(back) = n - i /\ \A j \in 1 .. n - i : back[j] = s[i + j]
  <2> HIDE DEF n
  <2>1. /\ i + 1 \in Int /\ n \in Int /\ \A j \in i + 1 .. n : s[j] \in S
        /\ n - (i + 1) + 1 = n - i
    BY <1>1
  <2>2. /\ SubSeq(s, i + 1, n) \in Seq(S)
        /\ Len(SubSeq(s, i + 1, n)) = IF i + 1 <= n THEN n - (i + 1) + 1 ELSE 0
        /\ \A j \in 1 .. n - (i + 1) + 1 : SubSeq(s, i + 1, n)[j] = s[i + 1 + j - 1]
    BY <2>1, SubSeqProperties
  <2>3. Len(SubSeq(s, i + 1, n)) = n - i
    <3> DEFINE len == Len(SubSeq(s, i + 1, n))
    <3>1. len = IF i + 1 <= n THEN n - (i + 1) + 1 ELSE 0
      BY <2>2
    <3> HIDE DEF len
    <3>2. len = n - i
      BY <1>1, <3>1
    <3> QED  BY <3>2 DEF len
  <2>4. \A j \in 1 .. n - i : i + 1 + j - 1 = i + j
    BY <1>1
  <2> QED  BY <2>1, <2>2, <2>3, <2>4
<1>4. r = front \o back
  BY DEF RemoveAt
<1> HIDE DEF n, r, front, back
<1>5. r \in Seq(S) /\ Len(r) = n - 1
  <2>1. r \in Seq(S) /\ Len(r) = Len(front) + Len(back)
    BY <1>2, <1>3, <1>4, ConcatProperties
  <2> QED  BY <1>1, <1>2, <1>3, <2>1
<1>6. \A j \in 1 .. n - 1 : r[j] = IF j < i THEN s[j] ELSE s[j + 1]
  <2>1. ASSUME NEW j \in 1 .. n - 1 PROVE r[j] = IF j < i THEN s[j] ELSE s[j + 1]
    <3>1. CASE j < i
      BY <1>1, <1>2, <1>3, <1>4, <3>1
    <3>2. CASE ~(j < i)
      <4>1. j - (i - 1) \in 1 .. n - i /\ i + (j - (i - 1)) = j + 1
        BY <1>1, <3>2
      <4>2. r[j] = back[j - (i - 1)]
        <5>1. /\ Len(front) + Len(back) = n - 1
              /\ ~(j <= Len(front))
          BY <1>1, <1>2, <1>3, <3>2
        <5>2. \A k \in 1 .. Len(front) + Len(back) :
                (front \o back)[k] = IF k <= Len(front) THEN front[k] ELSE back[k - Len(front)]
          BY <1>2, <1>3, ConcatProperties
        <5> QED  BY <1>2, <1>4, <5>1, <5>2
      <4> QED  BY <1>3, <3>2, <4>1, <4>2
    <3> QED  BY <3>1, <3>2
  <2> QED  BY <2>1
<1> DEFINE At(j) == IF j < i THEN j ELSE j + 1
<1>7. DOMAIN r = 1 .. n - 1 /\ \A j \in 1 .. n - 1 : At(j) \in 1 .. n /\ At(j) # i /\ r[j] = s[At(j)]
  BY <1>1, <1>5, <1>6
<1>8. \A j, k \in 1 .. n - 1 : At(j) = At(k) => j = k
  BY <1>1
<1>9. \A k \in 1 .. n : k # i => \E j \in 1 .. n - 1 : At(j) = k
  <2>1. ASSUME NEW k \in 1 .. n, k # i PROVE \E j \in 1 .. n - 1 : At(j) = k
    <3>1. CASE k < i
      <4>1. k \in 1 .. n - 1 /\ At(k) = k
        BY <1>1, <3>1
      <4> QED  BY <4>1
    <3>2. CASE ~(k < i)
      <4>1. k - 1 \in 1 .. n - 1 /\ At(k - 1) = k
        BY <1>1, <2>1, <3>2
      <4> QED  BY <4>1
    <3> QED  BY <3>1, <3>2
  <2> QED  BY <2>1
<1> HIDE DEF At
<1>10. IsInjective(r)
  BY <1>1, <1>7, <1>8 DEF IsInjective
<1>11. Range(r) = Range(s) \ {s[i]}
  <2>1. Range(r) = {r[j] : j \in 1 .. n - 1} /\ Range(s) = {s[j] : j \in 1 .. n}
    BY <1>1, <1>7 DEF Range
  <2>2. \A j \in 1 .. n : j # i => s[j] # s[i]
    BY <1>1 DEF IsInjective
  <2>3. ASSUME NEW x \in Range(r) PROVE x \in Range(s) /\ x # s[i]
    <3>1. PICK j \in 1 .. n - 1 : x = r[j]
      BY <2>1, <2>3
    <3>2. At(j) \in 1 .. n /\ At(j) # i /\ x = s[At(j)]
      BY <1>7, <3>1
    <3> QED  BY <2>1, <2>2, <3>2
  <2>4. ASSUME NEW x \in Range(s), x # s[i] PROVE x \in Range(r)
    <3>1. PICK k \in 1 .. n : x = s[k]
      BY <2>1, <2>4
    <3>2. PICK j \in 1 .. n - 1 : At(j) = k
      BY <1>9, <2>4, <3>1
    <3> QED  BY <1>7, <2>1, <3>1, <3>2
  <2> QED  BY <2>3, <2>4
<1> QED  BY <1>5, <1>10, <1>11 DEF r

LEMMA WithOneFirst ==
  ASSUME NEW S, NEW s \in Seq(S), IsInjective(s), NEW x \in S, x \notin Range(s)
  PROVE  <<x>> \o s \in Seq(S) /\ IsInjective(<<x>> \o s) /\ Range(<<x>> \o s) = Range(s) \cup {x}
<1> DEFINE n == Len(s)
           r == <<x>> \o s
<1>1. n \in Nat /\ DOMAIN s = 1 .. n /\ r \in Seq(S) /\ DOMAIN r = 1 .. n + 1
  OBVIOUS
<1>2. r[1] = x /\ \A j \in 1 .. n : r[j + 1] = s[j]
  OBVIOUS
<1> HIDE DEF n, r
<1>3. \A j \in 1 .. n + 1 : j = 1 \/ (j - 1 \in 1 .. n /\ r[j] = s[j - 1])
  <2>1. ASSUME NEW j \in 1 .. n + 1, j # 1 PROVE j - 1 \in 1 .. n /\ r[j] = s[j - 1]
    <3>1. j - 1 \in 1 .. n /\ (j - 1) + 1 = j
      BY <1>1, <2>1
    <3> QED  BY <1>2, <3>1
  <2> QED  BY <2>1
<1>4. IsInjective(r)
  <2>1. ASSUME NEW j \in 1 .. n + 1, NEW k \in 1 .. n + 1, r[j] = r[k] PROVE j = k
    <3>1. CASE j = 1 \/ k = 1
      BY <1>1, <1>2, <1>3, <2>1, <3>1 DEF Range
    <3>2. CASE j # 1 /\ k # 1
      <4>1. j - 1 \in 1 .. n /\ k - 1 \in 1 .. n /\ s[j - 1] = s[k - 1]
        BY <1>3, <2>1, <3>2
      <4>2. j - 1 = k - 1
        BY <1>1, <4>1 DEF IsInjective
      <4> QED  BY <1>1, <4>2
    <3> QED  BY <3>1, <3>2
  <2> QED  BY <1>1, <2>1 DEF IsInjective
<1>5. Range(r) = Range(s) \cup {x}
  <2>1. ASSUME NEW j \in 1 .. n PROVE j + 1 \in 1 .. n + 1
    BY <1>1
  <2>2. 1 \in 1 .. n + 1
    BY <1>1
  <2>3. Range(r) = {r[j] : j \in 1 .. n + 1} /\ Range(s) = {s[j] : j \in 1 .. n}
    BY <1>1 DEF Range
  <2>4. \A y \in Range(r) : y \in Range(s) \cup {x}
    BY <1>2, <1>3, <2>3
  <2>5. \A y \in Range(s) \cup {x} : y \in Range(r)
    BY <1>2, <2>1, <2>2, <2>3
  <2> QED  BY <2>4, <2>5
<1> QED  BY <1>1, <1>4, <1>5 DEF r

\* What the blocks tile stays tiled when the last unit handed out moves up ...
LEMMA BumpTiles ==
  ASSUME NEW c \in ClusterShape, Tiled(c), NEW total \in Nat, total >= 2,
         NEW d \in ClusterShape, d.bump = c.bump + total, d.starts = c.starts \cup {c.bump},
         d.size[c.bump] = total, \A b \in c.starts : d.size[b] = c.size[b]
  PROVE  Tiled(d)
<1>1. /\ c.starts \subseteq Nat /\ c.bump \in Nat
      /\ \A b \in c.starts : /\ EndOf(c, b) \in Nat /\ b + 2 <= EndOf(c, b) /\ EndOf(c, b) <= c.bump
                             /\ EndOf(c, b) = b + c.size[b] /\ c.size[b] \in Nat
  BY BlockFacts
<1>2. /\ 0 \in c.starts \cup {c.bump}
      /\ \A b \in c.starts : c.size[b] >= MinBlock /\ EndOf(c, b) \in c.starts \cup {c.bump}
      /\ \A a, b \in c.starts : a < b => EndOf(c, a) <= b
      /\ \A b \in c.starts \cup {c.bump} : b = 0 \/ \E a \in c.starts : EndOf(c, a) = b
  BY DEF Tiled
<1>3. \A b \in c.starts : EndOf(d, b) = EndOf(c, b) /\ b < c.bump /\ b \in Nat
  BY <1>1 DEF EndOf
<1>4. EndOf(d, c.bump) = d.bump /\ d.bump \in Nat /\ c.bump < d.bump
  BY <1>1 DEF EndOf
<1>5. 0 \in d.starts
  BY <1>2
<1>6. ASSUME NEW b \in d.starts
      PROVE  /\ d.size[b] >= MinBlock
             /\ EndOf(d, b) <= d.bump /\ EndOf(d, b) \in d.starts \cup {d.bump}
  <2>1. CASE b \in c.starts
    <3>1. EndOf(d, b) <= d.bump
      BY <1>1, <1>3, <1>4, <2>1
    <3> QED  BY <1>2, <1>3, <2>1, <3>1
  <2>2. CASE b = c.bump
    BY <1>4, <2>2 DEF MinBlock
  <2> QED  BY <2>1, <2>2
<1>7. ASSUME NEW a \in d.starts, NEW b \in d.starts, a < b PROVE EndOf(d, a) <= b
  <2>1. CASE a \in c.starts /\ b \in c.starts
    BY <1>2, <1>3, <1>7, <2>1
  <2>2. CASE a \in c.starts /\ b = c.bump
    BY <1>1, <1>3, <2>2
  <2>3. CASE a = c.bump
    BY <1>1, <1>3, <1>7, <2>3
  <2> QED  BY <2>1, <2>2, <2>3
<1>8. ASSUME NEW b \in d.starts \cup {d.bump}
      PROVE  b = 0 \/ \E a \in d.starts : EndOf(d, a) = b
  <2>1. CASE b \in c.starts \cup {c.bump}
    BY <1>2, <1>3, <2>1
  <2>2. CASE b = d.bump
    BY <1>4, <2>2
  <2> QED  BY <2>1, <2>2
<1> QED  BY <1>5, <1>6, <1>7, <1>8 DEF Tiled

\* ... and when a block is split in two.
LEMMA SplitTiles ==
  ASSUME NEW c \in ClusterShape, Tiled(c), NEW block \in c.starts, NEW total \in Nat,
         total >= 2, c.size[block] - total >= 2,
         NEW split, split = block + total,
         NEW d \in ClusterShape, d.bump = c.bump, d.starts = c.starts \cup {split},
         d.size[block] = total, d.size[split] = c.size[block] - total,
         \A b \in c.starts \ {block} : d.size[b] = c.size[b]
  PROVE  Tiled(d) /\ split \notin c.starts
<1>1. /\ c.starts \subseteq Nat /\ c.bump \in Nat
      /\ \A b \in c.starts : /\ EndOf(c, b) \in Nat /\ b + 2 <= EndOf(c, b) /\ EndOf(c, b) <= c.bump
                             /\ EndOf(c, b) = b + c.size[b] /\ c.size[b] \in Nat
  BY BlockFacts
<1>2. /\ 0 \in c.starts \cup {c.bump}
      /\ \A b \in c.starts : c.size[b] >= MinBlock /\ EndOf(c, b) \in c.starts \cup {c.bump}
      /\ \A a, b \in c.starts : a < b => EndOf(c, a) <= b
      /\ \A b \in c.starts \cup {c.bump} : b = 0 \/ \E a \in c.starts : EndOf(c, a) = b
  BY DEF Tiled
<1> DEFINE end == EndOf(c, block)
<1>3. /\ block \in Nat /\ split \in Nat /\ end \in Nat /\ c.size[block] \in Nat /\ end = block + c.size[block]
      /\ block < split /\ split < end /\ split + 2 <= end
  BY <1>1
<1>4. split \notin c.starts
  <2>1. ASSUME split \in c.starts PROVE FALSE
    BY <1>2, <1>3, <2>1
  <2> QED  BY <2>1
<1>5. \A b \in c.starts \ {block} : EndOf(d, b) = EndOf(c, b)
  BY <1>1 DEF EndOf
<1>6. EndOf(d, block) = split /\ EndOf(d, split) = end
  BY <1>3 DEF EndOf
<1>7. ASSUME NEW b \in d.starts
      PROVE  /\ d.size[b] >= MinBlock
             /\ EndOf(d, b) <= d.bump /\ EndOf(d, b) \in d.starts \cup {d.bump}
  <2>1. CASE b = block
    <3>1. split <= c.bump
      BY <1>1, <1>3
    <3> QED  BY <1>6, <2>1, <3>1 DEF MinBlock
  <2>2. CASE b = split
    BY <1>1, <1>2, <1>6, <2>2 DEF MinBlock
  <2>3. CASE b \in c.starts \ {block}
    BY <1>1, <1>2, <1>5, <2>3
  <2> QED  BY <2>1, <2>2, <2>3
<1>8. ASSUME NEW a \in d.starts, NEW b \in d.starts, a < b PROVE EndOf(d, a) <= b
  <2>1. CASE b \in c.starts
    <3>1. a \in c.starts => EndOf(c, a) <= b
      BY <1>2, <1>8, <2>1
    <3>2. CASE a = block
      BY <1>1, <1>3, <1>6, <2>1, <3>1, <3>2
    <3>3. CASE a = split
      <4>1. b \in Nat /\ block < b
        BY <1>1, <1>3, <1>8, <2>1, <3>3
      <4> QED  BY <1>2, <1>6, <2>1, <3>3, <4>1
    <3>4. CASE a \in c.starts \ {block}
      BY <1>5, <3>1, <3>4
    <3> QED  BY <3>2, <3>3, <3>4
  <2>2. CASE b = split
    <3>1. CASE a = block
      BY <1>3, <1>6, <2>2, <3>1
    <3>2. CASE a \in c.starts \ {block}
      <4>1. a \in Nat /\ EndOf(c, a) \in Nat /\ (block < a => end <= a) /\ (a < block => EndOf(c, a) <= block)
        BY <1>1, <1>2, <3>2
      <4>2. a < block
        BY <1>3, <1>8, <2>2, <3>2, <4>1
      <4> QED  BY <1>3, <1>5, <2>2, <3>2, <4>1, <4>2
    <3> QED  BY <1>3, <1>8, <2>2, <3>1, <3>2
  <2> QED  BY <2>1, <2>2
<1>9. ASSUME NEW b \in d.starts \cup {d.bump}
      PROVE  b = 0 \/ \E a \in d.starts : EndOf(d, a) = b
  <2>1. CASE b = split
    BY <1>6, <2>1
  <2>2. CASE b \in c.starts \cup {c.bump}
    <3>1. CASE b = 0
      BY <1>2, <2>2, <3>1
    <3>2. CASE b # 0
      <4>1. PICK a \in c.starts : EndOf(c, a) = b
        BY <1>2, <2>2, <3>2
      <4>2. CASE a = block
        BY <1>2, <1>6, <2>2, <4>1, <4>2
      <4>3. CASE a # block
        BY <1>2, <1>5, <2>2, <4>1, <4>3
      <4> QED  BY <4>2, <4>3
    <3> QED  BY <3>1, <3>2
  <2> QED  BY <2>1, <2>2
<1> QED  BY <1>2, <1>4, <1>7, <1>8, <1>9 DEF Tiled

LEMMA SameTiles ==
  ASSUME NEW c, Tiled(c), NEW d, d.bump = c.bump, d.starts = c.starts,
         \A b \in c.starts : d.size[b] = c.size[b]
  PROVE  Tiled(d)
<1>1. \A b \in c.starts : EndOf(d, b) = EndOf(c, b)
  BY DEF EndOf
<1> QED  BY <1>1 DEF Tiled

\* What zeroing a payload does to the memory of the cluster.
IsZeroed(c, block, inside, z) ==
    /\ z \in ClusterShape /\ z.bump = c.bump /\ z.free = c.free /\ z.starts = c.starts
    /\ \A u \in Units :
         /\ z.tag[u] = IF u \in inside THEN FreeTag ELSE c.tag[u]
         /\ z.mark[u] => c.mark[u]
         /\ z.size[u] = IF u \in inside THEN 0 ELSE c.size[u]
         /\ z.field[u] = IF u \in inside \cup {block} THEN NoFields ELSE c.field[u]

LEMMA ZeroedIs ==
  ASSUME NEW c \in ClusterShape, NEW block \in Units, NEW length,
         NEW inside, inside = block + 1 .. block + length - 1
  PROVE  IsZeroed(c, block, inside, Zeroed(c, block, length))
<1> DEFINE tag == [u \in Units |-> IF u \in inside THEN FreeTag ELSE c.tag[u]]
           mark == [u \in Units |-> u \notin inside /\ c.mark[u]]
           size == [u \in Units |-> IF u \in inside THEN 0 ELSE c.size[u]]
           field == [u \in Units |-> IF u \in inside \cup {block} THEN NoFields ELSE c.field[u]]
           z == Zeroed(c, block, length)
<1>1. z = [c EXCEPT !.tag = tag, !.mark = mark, !.size = size, !.field = field]
  BY DEF Zeroed
<1>2. Size \in Nat \ {0} /\ NoFields \in [AllFields -> 0 .. Size - 1]
  BY ClusterAssumption DEF NoFields, Nil
<1>3. /\ tag \in [Units -> Types \cup {FreeTag}] /\ mark \in [Units -> BOOLEAN]
      /\ size \in [Units -> 0 .. Size] /\ field \in [Units -> [AllFields -> 0 .. Size - 1]]
  BY <1>2 DEF ClusterShape
<1>4. \A u \in Units : /\ tag[u] = IF u \in inside THEN FreeTag ELSE c.tag[u]
                       /\ mark[u] => c.mark[u]
                       /\ size[u] = IF u \in inside THEN 0 ELSE c.size[u]
                       /\ field[u] = IF u \in inside \cup {block} THEN NoFields ELSE c.field[u]
  OBVIOUS
<1> HIDE DEF tag, mark, size, field, z
<1>5. /\ z \in ClusterShape /\ z.bump = c.bump /\ z.free = c.free /\ z.starts = c.starts
      /\ z.tag = tag /\ z.mark = mark /\ z.size = size /\ z.field = field
  BY <1>1, <1>3 DEF ClusterShape
<1> QED  BY <1>4, <1>5 DEF IsZeroed, z

\* Writing the header of a block.
Headed(c, block, tag, size) ==
    [c EXCEPT !.tag[block] = tag, !.mark[block] = FALSE, !.size[block] = size]

IsHeaded(c, block, tag, size, h) ==
    /\ h \in ClusterShape /\ h.bump = c.bump /\ h.free = c.free
    /\ h.starts = c.starts /\ h.field = c.field
    /\ \A u \in Units : /\ h.tag[u] = IF u = block THEN tag ELSE c.tag[u]
                        /\ h.mark[u] => c.mark[u]
                        /\ h.size[u] = IF u = block THEN size ELSE c.size[u]

LEMMA HeadedIs ==
  ASSUME NEW c \in ClusterShape, NEW block \in Units, NEW tag \in Types \cup {FreeTag}, NEW size \in 0 .. Size
  PROVE  IsHeaded(c, block, tag, size, Headed(c, block, tag, size))
<1> DEFINE tags == [c.tag EXCEPT ![block] = tag]
           marks == [c.mark EXCEPT ![block] = FALSE]
           sizes == [c.size EXCEPT ![block] = size]
           h == Headed(c, block, tag, size)
<1>1. h = [c EXCEPT !.tag = tags, !.mark = marks, !.size = sizes]
  BY DEF Headed
<1>2. /\ tags \in [Units -> Types \cup {FreeTag}] /\ marks \in [Units -> BOOLEAN]
      /\ sizes \in [Units -> 0 .. Size]
  BY DEF ClusterShape
<1>3. \A u \in Units : /\ tags[u] = IF u = block THEN tag ELSE c.tag[u]
                       /\ marks[u] => c.mark[u]
                       /\ sizes[u] = IF u = block THEN size ELSE c.size[u]
  BY DEF ClusterShape
<1> HIDE DEF tags, marks, sizes, h
<1>4. /\ h \in ClusterShape /\ h.bump = c.bump /\ h.free = c.free /\ h.starts = c.starts /\ h.field = c.field
      /\ h.tag = tags /\ h.mark = marks /\ h.size = sizes
  BY <1>1, <1>2 DEF ClusterShape
<1> QED  BY <1>3, <1>4 DEF IsHeaded, h

\* Splitting a free block.
IsSplitOff(c, block, total, split, rest, free, h) ==
    /\ h \in ClusterShape /\ h.bump = c.bump /\ h.free = free
    /\ h.starts = c.starts \cup {split} /\ h.field = c.field
    /\ \A u \in Units :
         /\ h.tag[u] = IF u = split THEN FreeTag ELSE c.tag[u]
         /\ h.mark[u] => c.mark[u]
         /\ h.size[u] = IF u = block THEN total ELSE IF u = split THEN rest ELSE c.size[u]

LEMMA SplitOffIs ==
  ASSUME NEW c \in ClusterShape, NEW i \in DOMAIN c.free, NEW total \in Nat,
         NEW block, block = c.free[i], NEW split, split = block + total,
         block \in Units, split \in Units, block # split,
         NEW rest, rest = c.size[block] - total, rest \in 0 .. Size, total \in 0 .. Size,
         NEW free \in Seq(Units), free = <<split>> \o RemoveAt(c.free, i)
  PROVE  IsSplitOff(c, block, total, split, rest, free, SplitOff(c, i, total))
<1> DEFINE tags == [c.tag EXCEPT ![split] = FreeTag]
           marks == [c.mark EXCEPT ![split] = FALSE]
           sizes == [[c.size EXCEPT ![split] = rest] EXCEPT ![block] = total]
           starts == c.starts \cup {split}
           h == SplitOff(c, i, total)
<1>1. h = [c EXCEPT !.free = free, !.starts = starts, !.tag = tags, !.mark = marks, !.size = sizes]
  BY DEF SplitOff
<1>2. /\ tags \in [Units -> Types \cup {FreeTag}] /\ marks \in [Units -> BOOLEAN]
      /\ sizes \in [Units -> 0 .. Size] /\ starts \in SUBSET Units
  BY DEF ClusterShape
<1>3. \A u \in Units : /\ tags[u] = IF u = split THEN FreeTag ELSE c.tag[u]
                       /\ marks[u] => c.mark[u]
                       /\ sizes[u] = IF u = block THEN total ELSE IF u = split THEN rest ELSE c.size[u]
  BY DEF ClusterShape
<1> HIDE DEF tags, marks, sizes, starts, h
<1>4. /\ h \in ClusterShape /\ h.bump = c.bump /\ h.free = free /\ h.starts = starts /\ h.field = c.field
      /\ h.tag = tags /\ h.mark = marks /\ h.size = sizes
  BY <1>1, <1>2 DEF ClusterShape
<1> QED  BY <1>3, <1>4 DEF IsSplitOff, h, starts

\* A cluster d with one more object than c, whose fields are Nil.
IsNew(c, d, block) ==
    /\ d \in ClusterShape /\ Tiled(d) /\ FreeListed(d) /\ Clean(d)
    /\ block \in Units /\ block + 1 \in Units
    /\ Objects(d) = Objects(c) \cup {block}
    /\ \A b \in Objects(c) : b # block /\ d.tag[b] = c.tag[b] /\ d.field[b] = c.field[b]
    /\ d.field[block] = NoFields

LEMMA NewIsGood ==
  ASSUME NEW c, Good(c), NEW d, NEW block, IsNew(c, d, block)
  PROVE  Good(d)
<1>1. \A p : Points(c, p) => Points(d, p)
  BY DEF Points, IsNew
<1>2. ASSUME NEW b \in Objects(c), NEW f \in Fields[d.tag[b]] PROVE Points(d, d.field[b][f])
  BY <1>1 DEF Good, Linked, IsNew
<1>3. ASSUME NEW f \in Fields[d.tag[block]] PROVE Points(d, d.field[block][f])
  <2>1. d.tag[block] \in Types
    BY DEF IsNew, ClusterShape, Objects
  <2>2. f \in AllFields
    BY <2>1, ClusterAssumption
  <2> QED  BY <2>2 DEF IsNew, NoFields, Points
<1>4. Linked(d)
  BY <1>2, <1>3 DEF IsNew, Linked
<1> QED  BY <1>4 DEF IsNew, Good

LEMMA BumpIsNew ==
  ASSUME NEW c, Good(c), NEW ty \in Types, NEW total, total = Total[ty],
         Fitting(c, total) = {}, c.bump + total <= Size
  PROVE  IsNew(c, AfterNewRec(c, ty), c.bump)
<1> DEFINE block == c.bump
           bump == c.bump + total
           starts == c.starts \cup {block}
           sizes == [c.size EXCEPT ![block] = total]
           x == [c EXCEPT !.bump = bump, !.starts = starts, !.size = sizes]
           d == Headed(x, block, ty, total)
<1>1. c \in ClusterShape /\ Tiled(c) /\ FreeListed(c) /\ Clean(c)
  BY DEF Good
<1>2. /\ Size \in Nat \ {0} /\ c.bump \in 0 .. Size /\ c.starts \subseteq Nat /\ c.starts \subseteq Units
      /\ \A b \in c.starts : EndOf(c, b) \in Nat /\ b + 2 <= EndOf(c, b) /\ EndOf(c, b) <= c.bump
  BY <1>1, BlockFacts
<1>3. total \in Nat /\ 2 <= total /\ total <= Size /\ ty # FreeTag
  BY <1>2, ClusterAssumption DEF MinBlock
<1>4. block \in Nat /\ block \in Units /\ block + 1 \in Units /\ bump \in 0 .. Size /\ total \in 0 .. Size
  BY <1>2, <1>3 DEF Units
<1>5. AfterNewRec(c, ty) = d
  BY DEF AfterNewRec, AllocBlock, AfterAlloc, Headed
<1>6. starts \subseteq Units /\ sizes \in [Units -> 0 .. Size]
  BY <1>1, <1>2, <1>4 DEF ClusterShape
<1>7. \A u \in Units : sizes[u] = IF u = block THEN total ELSE c.size[u]
  BY <1>1 DEF ClusterShape
<1>8. \A b \in c.starts : b < block /\ b # block
  BY <1>2
<1> HIDE DEF block, bump, sizes, starts, x, d
<1>9. /\ x \in ClusterShape /\ x.bump = bump /\ x.starts = starts /\ x.size = sizes
      /\ x.free = c.free /\ x.tag = c.tag /\ x.mark = c.mark /\ x.field = c.field
  BY <1>1, <1>4, <1>6 DEF ClusterShape, x
<1>10. /\ d \in ClusterShape /\ d.bump = bump /\ d.starts = starts /\ d.free = c.free /\ d.field = c.field
       /\ \A u \in Units : /\ d.tag[u] = IF u = block THEN ty ELSE c.tag[u]
                           /\ d.mark[u] => c.mark[u]
                           /\ d.size[u] = IF u = block THEN total ELSE c.size[u]
  <2>1. ty \in Types \cup {FreeTag}
    OBVIOUS
  <2>2. IsHeaded(x, block, ty, total, d)
    BY <1>4, <1>9, <2>1, HeadedIs DEF d
  <2> QED  BY <1>7, <1>9, <2>2 DEF IsHeaded
<1>11. Tiled(d)
  <2>1. d.bump = c.bump + total /\ d.starts = c.starts \cup {c.bump} /\ d.size[c.bump] = total
    BY <1>4, <1>10 DEF bump, starts, block
  <2>2. \A b \in c.starts : d.size[b] = c.size[b]
    BY <1>2, <1>8, <1>10
  <2> QED  BY <1>1, <1>3, <1>10, <2>1, <2>2, BumpTiles
<1>12. Objects(d) = Objects(c) \cup {block}
  BY <1>2, <1>3, <1>4, <1>8, <1>10 DEF Objects, starts
<1>13. FreeListed(d)
  BY <1>1, <1>8, <1>10, <1>12 DEF FreeListed, Objects, starts
<1>14. Clean(d)
  <2>1. \A u \in Units : u >= bump => u >= c.bump
    BY <1>2, <1>3 DEF bump, Units
  <2> QED  BY <1>1, <1>10, <2>1 DEF Clean
<1>15. \A b \in Objects(c) : b # block /\ d.tag[b] = c.tag[b] /\ d.field[b] = c.field[b]
  BY <1>2, <1>8, <1>10 DEF Objects
<1>16. d.field[block] = NoFields
  BY <1>1, <1>2, <1>4, <1>10 DEF Clean, block
<1> QED  BY <1>4, <1>5, <1>10, <1>11, <1>12, <1>13, <1>14, <1>15, <1>16 DEF IsNew, block

\* What the free list has at a place.
LEMMA FreeBlock ==
  ASSUME NEW c, Good(c), NEW i \in DOMAIN c.free
  PROVE  c.free[i] \in c.starts /\ c.tag[c.free[i]] = FreeTag
BY DEF Good, FreeListed, Range, Objects

LEMMA SplitIsNew ==
  ASSUME NEW c, Good(c), NEW ty \in Types, NEW total, total = Total[ty],
         NEW i \in DOMAIN c.free, NEW block, block = c.free[i], c.size[block] - total >= 2
  PROVE  IsNew(c, Headed(Zeroed(SplitOff(c, i, total), block, total), block, ty, total), block)
<1> DEFINE split == block + total
           rest == c.size[block] - total
           free == <<split>> \o RemoveAt(c.free, i)
           inside == block + 1 .. block + total - 1
           x == SplitOff(c, i, total)
           z == Zeroed(x, block, total)
           d == Headed(z, block, ty, total)
<1>1. c \in ClusterShape /\ Tiled(c) /\ FreeListed(c) /\ Clean(c)
  BY DEF Good
<1>2. /\ Size \in Nat \ {0} /\ c.bump \in 0 .. Size /\ c.starts \subseteq Nat /\ c.starts \subseteq Units
      /\ \A b \in c.starts : /\ EndOf(c, b) \in Nat /\ b + 2 <= EndOf(c, b) /\ EndOf(c, b) <= c.bump
                             /\ EndOf(c, b) = b + c.size[b] /\ c.size[b] \in Nat
  BY <1>1, BlockFacts
<1>3. total \in Nat /\ 2 <= total /\ total <= Size /\ ty # FreeTag /\ ty \in Types \cup {FreeTag}
  BY <1>2, ClusterAssumption DEF MinBlock
<1>4. block \in c.starts /\ c.tag[block] = FreeTag /\ block \in Nat /\ block \in Units
  BY <1>2, FreeBlock
<1>5. /\ split \in Units /\ split # block /\ block + 1 \in Units
      /\ rest \in 0 .. Size /\ total \in 0 .. Size /\ split + 2 <= EndOf(c, block)
  BY <1>2, <1>3, <1>4 DEF Units
<1>6. \A b \in c.starts : b # block => b \notin inside
  <2>1. ASSUME NEW b \in c.starts, b \in inside PROVE FALSE
    <3>1. b \in Nat /\ block < b /\ b < split
      BY <1>2, <1>3, <1>4, <2>1
    <3>2. EndOf(c, block) <= b
      BY <1>1, <1>4, <3>1 DEF Tiled
    <3> QED  BY <1>2, <1>3, <1>4, <1>5, <3>1, <3>2
  <2> QED  BY <2>1
<1>7. split \notin inside /\ block \notin inside
  BY <1>3, <1>4
<1> HIDE DEF split, rest, inside, free, x, z, d
<1>8. /\ RemoveAt(c.free, i) \in Seq(Units) /\ IsInjective(RemoveAt(c.free, i))
      /\ Range(RemoveAt(c.free, i)) = (c.starts \ Objects(c)) \ {block}
  <2>1. c.free \in Seq(Units) /\ IsInjective(c.free) /\ Range(c.free) = c.starts \ Objects(c)
    BY <1>1 DEF ClusterShape, FreeListed
  <2> QED  BY <2>1, WithoutOne
<1>9. split \notin c.starts
  <2>1. ASSUME split \in c.starts PROVE FALSE
    <3>1. block < split
      BY <1>3, <1>4 DEF split
    <3>2. EndOf(c, block) <= split
      BY <1>1, <1>4, <2>1, <3>1 DEF Tiled
    <3> QED  BY <1>2, <1>4, <1>5, <2>1, <3>2
  <2> QED  BY <2>1
<1>10. /\ free \in Seq(Units) /\ IsInjective(free)
       /\ Range(free) = ((c.starts \ Objects(c)) \ {block}) \cup {split}
  <2>1. split \notin Range(RemoveAt(c.free, i))
    BY <1>8, <1>9
  <2> QED  BY <1>5, <1>8, <2>1, WithOneFirst DEF free
<1>11. /\ x \in ClusterShape /\ x.bump = c.bump /\ x.free = free
       /\ x.starts = c.starts \cup {split} /\ x.field = c.field
       /\ \A u \in Units : /\ x.tag[u] = IF u = split THEN FreeTag ELSE c.tag[u]
                           /\ x.mark[u] => c.mark[u]
                           /\ x.size[u] = IF u = block THEN total ELSE IF u = split THEN rest ELSE c.size[u]
  <2>1. split = block + total /\ rest = c.size[block] - total /\ free = <<split>> \o RemoveAt(c.free, i)
    BY DEF split, rest, free
  <2>2. IsSplitOff(c, block, total, split, rest, free, x)
    BY <1>1, <1>3, <1>4, <1>5, <1>10, <2>1, SplitOffIs DEF x
  <2> QED  BY <2>2 DEF IsSplitOff
<1>12. /\ z \in ClusterShape /\ z.bump = x.bump /\ z.free = x.free /\ z.starts = x.starts
       /\ \A u \in Units : /\ z.tag[u] = IF u \in inside THEN FreeTag ELSE x.tag[u]
                           /\ z.mark[u] => x.mark[u]
                           /\ z.size[u] = IF u \in inside THEN 0 ELSE x.size[u]
                           /\ z.field[u] = IF u \in inside \cup {block} THEN NoFields ELSE x.field[u]
  <2>1. inside = block + 1 .. block + total - 1
    BY DEF inside
  <2>2. IsZeroed(x, block, inside, z)
    BY <1>4, <1>11, <2>1, ZeroedIs DEF z
  <2> QED  BY <2>2 DEF IsZeroed
<1>13. /\ d \in ClusterShape /\ d.bump = z.bump /\ d.starts = z.starts /\ d.free = z.free /\ d.field = z.field
       /\ \A u \in Units : /\ d.tag[u] = IF u = block THEN ty ELSE z.tag[u]
                           /\ d.mark[u] => z.mark[u]
                           /\ d.size[u] = IF u = block THEN total ELSE z.size[u]
  <2>1. IsHeaded(z, block, ty, total, d)
    BY <1>3, <1>4, <1>5, <1>12, HeadedIs DEF d
  <2> QED  BY <2>1 DEF IsHeaded
<1>14. \A b \in c.starts \ {block} : /\ b \in Units /\ b # split /\ b \notin inside
                                     /\ d.tag[b] = c.tag[b] /\ d.size[b] = c.size[b] /\ d.field[b] = c.field[b]
  BY <1>2, <1>6, <1>9, <1>11, <1>12, <1>13
<1>15. d.tag[split] = FreeTag /\ d.size[split] = rest /\ d.tag[block] = ty /\ d.size[block] = total
  BY <1>4, <1>5, <1>7, <1>11, <1>12, <1>13
<1>16. d.bump = c.bump /\ d.starts = c.starts \cup {split} /\ d.free = free /\ d.field[block] = NoFields
  BY <1>4, <1>11, <1>12, <1>13
<1>17. Tiled(d)
  <2>1. split = block + total /\ rest = c.size[block] - total
    BY DEF split, rest
  <2> QED  BY <1>1, <1>3, <1>4, <1>13, <1>14, <1>15, <1>16, <2>1, SplitTiles
<1>18. Objects(d) = Objects(c) \cup {block}
  BY <1>3, <1>4, <1>14, <1>15, <1>16 DEF Objects
<1>19. FreeListed(d)
  <2>1. block \notin Objects(c) /\ split \notin Objects(c) /\ Objects(c) \subseteq c.starts
    BY <1>4, <1>9 DEF Objects
  <2> QED  BY <1>5, <1>10, <1>16, <1>18, <2>1 DEF FreeListed
<1>20. Clean(d)
  <2>1. ASSUME NEW u \in Units, u >= d.bump PROVE d.field[u] = NoFields
    BY <1>1, <1>11, <1>12, <1>13, <2>1 DEF Clean
  <2> QED  BY <1>1, <1>11, <1>12, <1>13, <2>1 DEF Clean
<1>21. \A b \in Objects(c) : b # block /\ d.tag[b] = c.tag[b] /\ d.field[b] = c.field[b]
  BY <1>4, <1>14 DEF Objects
<1>22. IsNew(c, d, block)
  BY <1>4, <1>5, <1>13, <1>16, <1>17, <1>18, <1>19, <1>20, <1>21 DEF IsNew
<1> QED  BY <1>22 DEF d, z, x

LEMMA WholeIsNew ==
  ASSUME NEW c, Good(c), NEW ty \in Types, NEW total, total = Total[ty],
         NEW i \in DOMAIN c.free, NEW block, block = c.free[i], c.size[block] = total
  PROVE  IsNew(c, Headed(Zeroed([c EXCEPT !.free = RemoveAt(@, i)], block, total), block, ty, total), block)
<1> DEFINE free == RemoveAt(c.free, i)
           inside == block + 1 .. block + total - 1
           x == [c EXCEPT !.free = free]
           z == Zeroed(x, block, total)
           d == Headed(z, block, ty, total)
<1>1. c \in ClusterShape /\ Tiled(c) /\ FreeListed(c) /\ Clean(c)
  BY DEF Good
<1>2. /\ Size \in Nat \ {0} /\ c.bump \in 0 .. Size /\ c.starts \subseteq Nat /\ c.starts \subseteq Units
      /\ \A b \in c.starts : /\ EndOf(c, b) \in Nat /\ b + 2 <= EndOf(c, b) /\ EndOf(c, b) <= c.bump
                             /\ EndOf(c, b) = b + c.size[b] /\ c.size[b] \in Nat
  BY <1>1, BlockFacts
<1>3. /\ total \in Nat /\ 2 <= total /\ total <= Size /\ ty # FreeTag /\ ty \in Types \cup {FreeTag}
      /\ total \in 0 .. Size
  BY <1>2, ClusterAssumption DEF MinBlock
<1>4. block \in c.starts /\ c.tag[block] = FreeTag /\ block \in Nat /\ block \in Units /\ block + 1 \in Units
  <2>1. block \in c.starts /\ c.tag[block] = FreeTag
    BY FreeBlock
  <2> QED  BY <1>2, <2>1 DEF Units
<1>5. \A b \in c.starts : b # block => b \notin inside
  <2>1. ASSUME NEW b \in c.starts, b \in inside PROVE FALSE
    <3>1. b \in Nat /\ block < b /\ b < block + total
      BY <1>2, <1>3, <1>4, <2>1
    <3>2. EndOf(c, block) <= b
      BY <1>1, <1>4, <3>1 DEF Tiled
    <3> QED  BY <1>2, <1>3, <1>4, <3>1, <3>2
  <2> QED  BY <2>1
<1> HIDE DEF inside, free, x, z, d
<1>6. /\ free \in Seq(Units) /\ IsInjective(free)
      /\ Range(free) = (c.starts \ Objects(c)) \ {block}
  <2>1. c.free \in Seq(Units) /\ IsInjective(c.free) /\ Range(c.free) = c.starts \ Objects(c)
    BY <1>1 DEF ClusterShape, FreeListed
  <2> QED  BY <2>1, WithoutOne DEF free
<1>7. /\ x \in ClusterShape /\ x.bump = c.bump /\ x.free = free /\ x.starts = c.starts
      /\ x.tag = c.tag /\ x.mark = c.mark /\ x.size = c.size /\ x.field = c.field
  BY <1>1, <1>6 DEF ClusterShape, x
<1>8. /\ z \in ClusterShape /\ z.bump = x.bump /\ z.free = x.free /\ z.starts = x.starts
      /\ \A u \in Units : /\ z.tag[u] = IF u \in inside THEN FreeTag ELSE x.tag[u]
                          /\ z.mark[u] => x.mark[u]
                          /\ z.size[u] = IF u \in inside THEN 0 ELSE x.size[u]
                          /\ z.field[u] = IF u \in inside \cup {block} THEN NoFields ELSE x.field[u]
  <2>1. inside = block + 1 .. block + total - 1
    BY DEF inside
  <2>2. IsZeroed(x, block, inside, z)
    BY <1>4, <1>7, <2>1, ZeroedIs DEF z
  <2> QED  BY <2>2 DEF IsZeroed
<1>9. /\ d \in ClusterShape /\ d.bump = z.bump /\ d.starts = z.starts /\ d.free = z.free /\ d.field = z.field
      /\ \A u \in Units : /\ d.tag[u] = IF u = block THEN ty ELSE z.tag[u]
                          /\ d.mark[u] => z.mark[u]
                          /\ d.size[u] = IF u = block THEN total ELSE z.size[u]
  <2>1. IsHeaded(z, block, ty, total, d)
    BY <1>3, <1>4, <1>8, HeadedIs DEF d
  <2> QED  BY <2>1 DEF IsHeaded
<1>10. \A b \in c.starts \ {block} : /\ b \in Units /\ b \notin inside
                                     /\ d.tag[b] = c.tag[b] /\ d.size[b] = c.size[b] /\ d.field[b] = c.field[b]
  BY <1>2, <1>5, <1>7, <1>8, <1>9
<1>11. /\ d.tag[block] = ty /\ d.size[block] = total /\ d.field[block] = NoFields
       /\ d.bump = c.bump /\ d.starts = c.starts /\ d.free = free
  BY <1>4, <1>7, <1>8, <1>9
<1>12. Tiled(d)
  BY <1>1, <1>10, <1>11, SameTiles
<1>13. Objects(d) = Objects(c) \cup {block}
  BY <1>3, <1>4, <1>10, <1>11 DEF Objects
<1>14. FreeListed(d)
  BY <1>6, <1>11, <1>13 DEF FreeListed
<1>15. Clean(d)
  <2>1. ASSUME NEW u \in Units, u >= d.bump PROVE d.field[u] = NoFields
    BY <1>1, <1>7, <1>8, <1>9, <2>1 DEF Clean
  <2> QED  BY <1>1, <1>7, <1>8, <1>9, <2>1 DEF Clean
<1>16. \A b \in Objects(c) : b # block /\ d.tag[b] = c.tag[b] /\ d.field[b] = c.field[b]
  BY <1>4, <1>10 DEF Objects
<1>17. IsNew(c, d, block)
  BY <1>4, <1>9, <1>11, <1>12, <1>13, <1>14, <1>15, <1>16 DEF IsNew
<1> QED  BY <1>17 DEF d, z, x, free

\* An allocation that leaves no gap adds one object, and a remainder it leaves can
\* be walked over.
LEMMA AllocIsNew ==
  ASSUME NEW c, Good(c), NEW ty \in Types, CanAlloc(c, Total[ty]), ~LeavesGap(c, Total[ty])
  PROVE  IsNew(c, AfterNewRec(c, ty), AllocBlock(c, Total[ty]))
<1> DEFINE total == Total[ty]
           fit == Fitting(c, total)
<1>1. CASE fit = {}
  <2>1. c.bump + total <= Size /\ AllocBlock(c, total) = c.bump
    BY <1>1 DEF CanAlloc, AllocBlock
  <2> QED  BY <1>1, <2>1, BumpIsNew
<1>2. CASE fit # {}
  <2> DEFINE i == Min(fit)
             block == c.free[i]
  <2>1. c \in ClusterShape /\ Tiled(c)
    BY DEF Good
  <2>2. fit \subseteq Nat /\ fit \subseteq DOMAIN c.free /\ \A j \in fit : c.size[c.free[j]] >= total
    BY <2>1 DEF Fitting, ClusterShape
  <2>3. i \in fit
    BY <1>2, <2>2, LeastIs
  <2>4. i \in DOMAIN c.free /\ c.size[block] >= total
    BY <2>2, <2>3
  <2>5. AllocBlock(c, total) = block /\ AfterAlloc(c, total) = FromFreeList(c, i, total)
    BY <1>2 DEF AllocBlock, AfterAlloc
  <2>6. AfterNewRec(c, ty) = Headed(FromFreeList(c, i, total), block, ty, total)
    BY <2>5 DEF AfterNewRec, Headed
  <2> HIDE DEF i
  <2>7. total \in Nat /\ c.size[block] \in Nat
    <3>1. block \in c.starts
      BY <2>4, FreeBlock
    <3>2. c.size[block] \in Nat
      BY <2>1, <3>1, BlockFacts
    <3> QED  BY <3>2, ClusterAssumption DEF MinBlock
  <2>10. c.size[block] - total \notin 1 .. 1
    BY <1>2, <2>5 DEF LeavesGap, MinBlock
  <2> HIDE DEF block
  <2>8. CASE c.size[block] - total >= 2
    <3>1. FromFreeList(c, i, total) = Zeroed(SplitOff(c, i, total), block, total)
      BY <2>8 DEF FromFreeList, block, MinBlock
    <3>2. block = c.free[i]
      BY DEF block
    <3> QED  BY <2>4, <2>5, <2>6, <2>8, <3>1, <3>2, SplitIsNew
  <2>9. CASE ~(c.size[block] - total >= 2)
    <3>1. c.size[block] - total \in Nat /\ c.size[block] - total < 2
      BY <2>4, <2>7, <2>9
    <3>4. c.size[block] = total
      BY <2>7, <2>10, <3>1
    <3>5. FromFreeList(c, i, total) = Zeroed([c EXCEPT !.free = RemoveAt(@, i)], block, total)
      BY <2>9, <3>4 DEF FromFreeList, block, MinBlock
    <3>6. block = c.free[i]
      BY DEF block
    <3> QED  BY <2>4, <2>5, <2>6, <3>4, <3>5, <3>6, WholeIsNew
  <2> QED  BY <2>8, <2>9
<1> QED  BY <1>1, <1>2

LEMMA AllocKeeps ==
  ASSUME NEW c, Good(c), Rooted(c), NEW ty \in Types, CanAlloc(c, Total[ty]), ~LeavesGap(c, Total[ty]),
         NEW d, d = AfterNewRec(c, ty), NEW block, block = AllocBlock(c, Total[ty])
  PROVE  Good(d) /\ Rooted(d) /\ block + 1 \in 0 .. Size - 1 /\ Points(d, block + 1)
<1>1. IsNew(c, d, block)
  BY AllocIsNew
<1>2. Good(d)
  BY <1>1, NewIsGood
<1>3. \A p : Points(c, p) => Points(d, p)
  BY <1>1 DEF Points, IsNew
<1>4. block \in Nat /\ block + 1 \in 0 .. Size - 1
  BY <1>1, ClusterAssumption DEF IsNew, Units
<1>5. Points(d, block + 1)
  <2>1. (block + 1) - 1 = block
    BY <1>4
  <2> QED  BY <1>1, <2>1 DEF IsNew, Points
<1> QED  BY <1>2, <1>3, <1>4, <1>5 DEF Rooted

\* Writing a field of an object with a pointer the program has.
LEMMA StoreKeeps ==
  ASSUME NEW c, Good(c), NEW b \in Objects(c), NEW f \in AllFields,
         NEW p \in 0 .. Size - 1, Points(c, p),
         NEW d, d = [c EXCEPT !.field[b][f] = p]
  PROVE  Good(d) /\ Objects(d) = Objects(c)
<1> DEFINE field == [c.field EXCEPT ![b] = [c.field[b] EXCEPT ![f] = p]]
<1>1. c \in ClusterShape /\ Tiled(c) /\ FreeListed(c) /\ Clean(c) /\ Linked(c)
  BY DEF Good
<1>2. c.field \in [Units -> [AllFields -> 0 .. Size - 1]] /\ b \in c.starts /\ c.starts \subseteq Units
  BY <1>1 DEF ClusterShape, Objects
<1>3. field \in [Units -> [AllFields -> 0 .. Size - 1]]
  BY <1>2
<1>4. \A u \in Units : /\ u # b => field[u] = c.field[u]
                       /\ u = b => /\ field[u][f] = p
                                   /\ \A g \in AllFields : g # f => field[u][g] = c.field[u][g]
  BY <1>2
<1>5. d = [c EXCEPT !.field = field]
  BY <1>1, <1>2 DEF ClusterShape
<1> HIDE DEF field
<1>6. /\ d \in ClusterShape /\ d.bump = c.bump /\ d.free = c.free /\ d.starts = c.starts /\ d.tag = c.tag
      /\ d.mark = c.mark /\ d.size = c.size /\ d.field = field
  BY <1>1, <1>3, <1>5 DEF ClusterShape
<1>7. Objects(d) = Objects(c) /\ FreeListed(d)
  BY <1>1, <1>6 DEF Objects, FreeListed
<1>8. Tiled(d)
  BY <1>1, <1>6, SameTiles
<1>9. Clean(d)
  <2>1. b < c.bump /\ b \in Nat /\ c.bump \in Nat
    BY <1>1, <1>2, BlockFacts
  <2>2. ASSUME NEW u \in Units, u >= c.bump PROVE field[u] = NoFields
    <3>1. u # b
      BY <2>1, <2>2
    <3> QED  BY <1>1, <1>4, <2>2, <3>1 DEF Clean
  <2> QED  BY <1>1, <1>6, <2>2 DEF Clean
<1>10. Linked(d)
  <2>1. ASSUME NEW a \in Objects(c), NEW g \in Fields[c.tag[a]] PROVE Points(c, field[a][g])
    <3>1. a \in Units /\ c.tag[a] \in Types
      BY <1>1, <1>2 DEF ClusterShape, Objects
    <3>2. g \in AllFields
      BY <3>1, ClusterAssumption
    <3>3. Points(c, c.field[a][g])
      BY <1>1 DEF Linked
    <3>4. CASE a = b /\ g = f
      BY <1>4, <3>1, <3>4
    <3>5. CASE a # b \/ g # f
      BY <1>4, <3>1, <3>2, <3>3, <3>5
    <3> QED  BY <3>4, <3>5
  <2> QED  BY <1>6, <1>7, <2>1 DEF Linked, Points
<1> QED  BY <1>6, <1>7, <1>8, <1>9, <1>10 DEF Good

-----------------------------------------------------------------------------
(* The specification.  A block reused for a request one unit shorter leaves a *)
(* gap at which the walk stops: what follows holds, for blocks of any sizes,  *)
(* as long as that has not happened.                                          *)

\* The inductive invariant.
ClusterInv == ~gapped => CInv

LEMMA GapStays == ASSUME [ClusterNext]_clusterVars, gapped PROVE gapped'
  BY DEF ClusterNext, CollectCluster, NewRec, CollectAndNew, Drop, StoreRoot, LoadRoot,
         LoadField, StoreField, clusterVars

LEMMA ClusterStarts == ClusterInit => ClusterInv
<1> SUFFICES ASSUME ClusterInit PROVE CInv
  BY DEF ClusterInv
<1>1. Size \in Nat \ {0} /\ NoFields \in [AllFields -> 0 .. Size - 1]
  BY ClusterAssumption DEF NoFields, Nil
<1>2. /\ cluster.bump = 0 /\ cluster.free = <<>> /\ cluster.starts = {}
      /\ cluster.mark = [u \in Units |-> FALSE] /\ cluster.field = [u \in Units |-> NoFields]
  BY DEF ClusterInit
<1>3. cluster \in ClusterShape
  <2>1. 0 \in 0 .. Size
    BY <1>1
  <2>2. /\ [u \in Units |-> FreeTag] \in [Units -> Types \cup {FreeTag}]
        /\ [u \in Units |-> FALSE] \in [Units -> BOOLEAN]
        /\ [u \in Units |-> 0] \in [Units -> 0 .. Size]
        /\ [u \in Units |-> NoFields] \in [Units -> [AllFields -> 0 .. Size - 1]]
    BY <1>1, <2>1
  <2>3. <<>> \in Seq(Units) /\ {} \in SUBSET Units
    OBVIOUS
  <2> QED  BY <2>1, <2>2, <2>3 DEF ClusterInit, ClusterShape
<1>4. Objects(cluster) = {}
  BY <1>2 DEF Objects
<1>5. Tiled(cluster)
  BY <1>2 DEF Tiled
<1>6. FreeListed(cluster)
  <2>1. DOMAIN cluster.free = {}
    BY <1>2
  <2>2. Range(cluster.free) = {} /\ IsInjective(cluster.free)
    BY <2>1 DEF Range, IsInjective
  <2> QED  BY <1>2, <1>4, <2>2 DEF FreeListed
<1>7. Clean(cluster) /\ Linked(cluster)
  BY <1>2, <1>4 DEF Clean, Linked
<1>8. Rooted(cluster)
  BY <1>1 DEF ClusterInit, Rooted, Points, Nil
<1> QED  BY <1>3, <1>5, <1>6, <1>7, <1>8 DEF CInv, Good

LEMMA ClusterSteps ==
  ASSUME CInv, ~gapped', [ClusterNext]_clusterVars
  PROVE  CInv'
<1>1. Good(cluster) /\ Rooted(cluster) /\ Size \in Nat \ {0}
  BY ClusterAssumption DEF CInv
<1>2. CASE CollectCluster
  <2>1. Good(AfterCycle(cluster)) /\ Rooted(AfterCycle(cluster))
    BY <1>1, CycleKeeps
  <2>2. cluster' = AfterCycle(cluster) /\ words' = words /\ roots' = roots
    BY <1>2 DEF CollectCluster
  <2> QED  BY <2>1, <2>2 DEF CInv, Rooted
<1>3. ASSUME NEW w \in Words, NEW ty \in Types, NEW c, Good(c), Rooted(c), CanAlloc(c, Total[ty]),
             ~LeavesGap(c, Total[ty]), cluster' = AfterNewRec(c, ty),
             words' = [words EXCEPT ![w] = AllocBlock(c, Total[ty]) + 1], roots' = roots
      PROVE  CInv'
  <2> DEFINE p == AllocBlock(c, Total[ty]) + 1
  <2>2. Good(cluster') /\ Rooted(cluster') /\ p \in 0 .. Size - 1 /\ Points(cluster', p)
    BY <1>3, AllocKeeps
  <2>3. words' = [words EXCEPT ![w] = p]
    BY <1>3
  <2> HIDE DEF p
  <2> QED  BY <1>3, <2>2, <2>3 DEF CInv, Rooted
<1>4. ASSUME NEW w \in Words, NEW ty \in Types, NewRec(ty, w) PROVE CInv'
  <2>1. ~LeavesGap(cluster, Total[ty])
    BY <1>4, Zenon DEF NewRec
  <2> QED  BY <1>1, <1>3, <1>4, <2>1 DEF NewRec
<1>5. ASSUME NEW w \in Words, NEW ty \in Types, CollectAndNew(ty, w) PROVE CInv'
  <2>1. Good(AfterCycle(cluster)) /\ Rooted(AfterCycle(cluster))
    BY <1>1, CycleKeeps
  <2>2. ~LeavesGap(AfterCycle(cluster), Total[ty])
    BY <1>5, Zenon DEF CollectAndNew
  <2> QED  BY <1>3, <1>5, <2>1, <2>2 DEF CollectAndNew
<1>6. ASSUME NEW w \in Words, Drop(w) PROVE CInv'
  <2>1. Nil \in 0 .. Size - 1 /\ Points(cluster, Nil)
    BY <1>1 DEF Nil, Points
  <2> QED  BY <1>1, <1>6, <2>1 DEF Drop, CInv, Rooted
<1>7. ASSUME NEW w \in Words, NEW r \in Roots, StoreRoot(r, w) PROVE CInv'
  BY <1>1, <1>7 DEF StoreRoot, CInv, Rooted
<1>8. ASSUME NEW w \in Words, NEW r \in Roots, LoadRoot(w, r) PROVE CInv'
  BY <1>1, <1>8 DEF LoadRoot, CInv, Rooted
<1>9. ASSUME NEW w \in Words, NEW f \in AllFields, LoadField(w, f) PROVE CInv'
  <2> DEFINE b == words[w] - 1
  <2>1. b \in Objects(cluster) /\ f \in Fields[cluster.tag[b]] /\ words' = [words EXCEPT ![w] = cluster.field[b][f]]
        /\ cluster' = cluster /\ roots' = roots
    BY <1>1, <1>9 DEF LoadField, Rooted, Points
  <2> HIDE DEF b
  <2>2. Points(cluster, cluster.field[b][f])
    BY <1>1, <2>1 DEF Good, Linked
  <2>3. cluster.field[b][f] \in 0 .. Size - 1
    BY <1>1, <2>1 DEF Good, ClusterShape, Objects
  <2> QED  BY <1>1, <2>1, <2>2, <2>3 DEF CInv, Rooted
<1>10. ASSUME NEW w \in Words, NEW f \in AllFields, NEW v \in Words, StoreField(w, f, v) PROVE CInv'
  <2> DEFINE b == words[w] - 1
             p == words[v]
  <2>1. b \in Objects(cluster) /\ p \in 0 .. Size - 1 /\ Points(cluster, p)
    BY <1>1, <1>10 DEF StoreField, Rooted, Points
  <2>2. cluster' = [cluster EXCEPT !.field[b][f] = p] /\ words' = words /\ roots' = roots
    BY <1>10 DEF StoreField
  <2> HIDE DEF b, p
  <2>3. Good(cluster') /\ Objects(cluster') = Objects(cluster)
    BY <1>1, <2>1, <2>2, StoreKeeps
  <2>4. \A q : Points(cluster, q) <=> Points(cluster', q)
    BY <2>3 DEF Points
  <2> QED  BY <1>1, <2>2, <2>3, <2>4 DEF CInv, Rooted
<1>11. CASE UNCHANGED clusterVars
  BY <1>1, <1>11 DEF clusterVars, CInv, Rooted
<1> QED  BY <1>2, <1>4, <1>5, <1>6, <1>7, <1>8, <1>9, <1>10, <1>11 DEF ClusterNext

\* Whatever the program allocates and does with its pointers, as long as no reuse
\* has left a gap: the blocks tile the cluster, the free list has the free ones,
\* and every pointer the program holds, and every field of an object, leads to an
\* object (gc.rs).
THEOREM ClusterInvariant == ClusterSpec => []ClusterInv
<1>1. ClusterInv /\ [ClusterNext]_clusterVars => ClusterInv'
  <2> SUFFICES ASSUME ClusterInv, [ClusterNext]_clusterVars, ~gapped' PROVE CInv'
    BY DEF ClusterInv
  <2>1. ~gapped
    BY GapStays
  <2> QED  BY <2>1, ClusterSteps DEF ClusterInv
<1> QED  BY <1>1, ClusterStarts, PTL DEF ClusterSpec

\* An object the program can reach is never reclaimed as long as no reuse has left
\* a gap, for a cluster and blocks of any sizes and any program: its block keeps
\* its tag and its bit, and no block overlaps it (cluster_sweep, try_alloc).
THEOREM ReachableStaysIntact == ClusterSpec => []ReachableIntact
<1>1. ASSUME ClusterInv, ~gapped PROVE ReachableIntact
  <2>1. Good(cluster) /\ Rooted(cluster)
    BY <1>1 DEF CInv, ClusterInv
  <2>2. Reachable \subseteq Objects(cluster)
    BY <2>1, LiveIs DEF Reachable, Live, Good
  <2>3. ASSUME NEW b \in Reachable, NEW s \in cluster.starts, s # b
        PROVE  s + cluster.size[s] <= b \/ b + cluster.size[b] <= s
    <3>1. b \in cluster.starts /\ b \in Nat /\ s \in Nat
      BY <2>1, <2>2, BlockFacts DEF Good, Objects
    <3>2. (s < b => EndOf(cluster, s) <= b) /\ (b < s => EndOf(cluster, b) <= s)
      BY <2>1, <3>1 DEF Good, Tiled
    <3> QED  BY <2>3, <3>1, <3>2 DEF EndOf
  <2> QED  BY <2>2, <2>3 DEF ReachableIntact, Intact, Objects
<1>2. ClusterInv => ReachableIntact
  BY <1>1 DEF ReachableIntact
<1> QED  BY <1>2, ClusterInvariant, PTL

\* As long as no reuse has left a gap, the linear walk meets every block up to the
\* bump pointer, and the bitmap and the free list agree with it (cluster_sweep,
\* cluster_clear_marks).
THEOREM WalkMeetsAll == ClusterSpec => []WalkTiles
<1>1. ASSUME ClusterInv, ~gapped PROVE WalkTiles
  <2>1. cluster \in ClusterShape /\ Tiled(cluster) /\ FreeListed(cluster)
    BY <1>1 DEF ClusterInv, CInv, Good
  <2>2. WalkEnd(cluster) = cluster.bump /\ Walk(cluster) = cluster.starts
    BY <2>1, WalkIs, WalkEndIs
  <2>3. ToSet(cluster.free) = Range(cluster.free)
    BY DEF ToSet, Range
  <2>4. Range(cluster.free) = {b \in cluster.starts : cluster.tag[b] = FreeTag}
    BY <2>1 DEF FreeListed, Objects
  <2> QED  BY <2>1, <2>2, <2>3, <2>4 DEF WalkTiles, FreeListed
<1>2. ClusterInv => WalkTiles
  BY <1>1 DEF WalkTiles
<1> QED  BY <1>2, ClusterInvariant, PTL

\* As long as no reuse has left a gap, the conservative scan finds the object an
\* address points into, and nothing for any other address
\* (block_start_at_or_below, resolve_in_cluster).
THEOREM ResolutionIsExact == ClusterSpec => []ResolveExact
<1>1. ASSUME ClusterInv, ~gapped PROVE ResolveExact
  <2>1. cluster \in ClusterShape /\ Tiled(cluster) /\ Units \subseteq Nat
    BY <1>1, ClusterAssumption DEF ClusterInv, CInv, Good, Units
  <2>2. \A addr \in Units : Resolve(cluster, addr) = {b \in Objects(cluster) : b < addr /\ addr < EndOf(cluster, b)}
    BY <2>1, ResolveIs
  <2>3. Walk(cluster) = cluster.starts
    BY <2>1, WalkIs
  <2> QED  BY <2>2, <2>3 DEF ResolveExact, Objects, EndOf
<1>2. ClusterInv => ResolveExact
  BY <1>1 DEF ResolveExact
<1> QED  BY <1>2, ClusterInvariant, PTL

\* As long as no reuse has left a gap, a cycle leaves exactly the objects the
\* program could reach, and no two free blocks side by side.
THEOREM CycleReclaimsAll == ClusterSpec => CycleReclaims
<1> DEFINE Reclaims == ~gapped /\ cluster' = AfterCycle(cluster) =>
         /\ {b \in Walk(cluster') : cluster'.tag[b] # FreeTag} = Reachable
         /\ \A a, b \in Walk(cluster') :
                a + cluster'.size[a] = b => cluster'.tag[a] # FreeTag \/ cluster'.tag[b] # FreeTag
<1>1. ASSUME ClusterInv PROVE Reclaims
  <2> SUFFICES ASSUME ~gapped, cluster' = AfterCycle(cluster)
               PROVE  /\ {b \in Walk(cluster') : cluster'.tag[b] # FreeTag} = Reachable
                      /\ \A a, b \in Walk(cluster') :
                            a + cluster'.size[a] = b => cluster'.tag[a] # FreeTag \/ cluster'.tag[b] # FreeTag
    OBVIOUS
  <2>1. /\ Good(cluster') /\ Objects(cluster') = Live(cluster)
        /\ \A a, b \in cluster'.starts : EndOf(cluster', a) = b => a \in Live(cluster) \/ b \in Live(cluster)
    BY <1>1, CycleKeeps DEF ClusterInv, CInv
  <2>2. Walk(cluster') = cluster'.starts
    BY <2>1, WalkIs DEF Good
  <2>3. Live(cluster) = Reachable
    BY DEF Live, Reachable
  <2> QED  BY <2>1, <2>2, <2>3 DEF Objects, EndOf
<1>2. ClusterInv => [Reclaims]_cluster
  BY <1>1
<1> QED  BY <1>2, ClusterInvariant, PTL DEF CycleReclaims

-----------------------------------------------------------------------------
(* Coroutines.                                                               *)

(* Before the first call nothing exists; afterwards the main coroutine's box   *)
(* stays and a box runs.                                                       *)
MainStays ==
    /\ main = NoBox => held = {} /\ Allocated = {} /\ cur = NoBox
    /\ main # NoBox => cur \in Boxes /\ ctx[main] # "none"

\* CURRENT and MAIN know which stack the processor is on.
OnOwnStack == fate = "runs" => sp = StackScanned

\* The inductive invariant.
IInv == TypeOK /\ MainStays /\ SwitchesLand /\ OnOwnStack /\ RunningStackKept

LEMMA InitHolds == Init => IInv
  BY CoroutineAssumption
     DEF Init, IInv, TypeOK, MainStays, SwitchesLand, OnOwnStack, StackScanned,
         RunningStackKept, Allocated, Stacks

(* A call that only looks up or makes a handle.                                *)
LEMMA CurrentKeeps ==
  ASSUME IInv, NEW b \in Boxes, Current(b)
  PROVE  IInv'
<1> USE CoroutineAssumption DEF Current, memory, IInv, MainStays
<1>1. CASE main = NoBox
  <2>1. ctx = [c \in Boxes |-> "none"]
    BY <1>1 DEF TypeOK, Allocated
  <2>2. TypeOK'
    BY <1>1, <2>1 DEF TypeOK, Allocated
  <2>3. MainStays' /\ SwitchesLand'
    BY <1>1, <2>1, <2>2 DEF TypeOK, SwitchesLand
  <2>4. RunningStackKept' /\ OnOwnStack'
    BY <1>1 DEF RunningStackKept, OnOwnStack, StackScanned
  <2> QED  BY <2>2, <2>3, <2>4
<1>2. CASE main # NoBox
  BY <1>2 DEF TypeOK, SwitchesLand, OnOwnStack, StackScanned, RunningStackKept, Allocated
<1> QED  BY <1>1, <1>2

LEMMA NewKeeps ==
  ASSUME IInv, NEW b \in Boxes, New(b)
  PROVE  IInv'
<1> USE CoroutineAssumption DEF New, IInv, MainStays, Stacks
<1>1. b # main /\ b # cur /\ main \in Boxes /\ cur \in Boxes
  BY DEF TypeOK, SwitchesLand
<1>2. TypeOK'
  BY <1>1 DEF TypeOK, Allocated
<1>3. MainStays' /\ SwitchesLand'
  BY <1>1, <1>2 DEF TypeOK, SwitchesLand
<1>4. RunningStackKept' /\ OnOwnStack'
  BY DEF RunningStackKept, OnOwnStack, StackScanned, TypeOK
<1> QED  BY <1>2, <1>3, <1>4

(* What a switch from the running coroutine leaves, whoever makes it.          *)
LEMMA SwitchKeeps ==
  ASSUME IInv, fate = "runs", main # NoBox, NEW b \in Boxes, b # cur,
         NEW was \in {"saved", "over"}, was = "over" => b = main,
         SwitchTo(b, was), UNCHANGED <<main, live, memory>>,
         held' \subseteq Boxes
  PROVE  IInv'
<1> USE CoroutineAssumption DEF IInv, MainStays, SwitchTo, memory
<1>1. cur \in Boxes /\ main \in Boxes /\ ctx[cur] = "running"
  BY DEF TypeOK, SwitchesLand
<1>2. ctx' \in [Boxes -> {"none", "fresh", "running", "saved", "over"}]
  BY DEF TypeOK
<1>3. \A c \in Boxes : ctx'[c] = "none" <=> ctx[c] = "none"
  BY <1>1 DEF TypeOK
<1>4. Allocated' = Allocated
  BY <1>3 DEF Allocated
<1>5. TypeOK'
  BY <1>1, <1>2, <1>4 DEF TypeOK, StackOf, Stacks
<1>6. MainStays'
  BY <1>1, <1>3
<1>7. SwitchesLand'
  <2>1. CASE ctx[b] \in {"fresh", "saved"}
    <3>1. /\ ctx' = [ctx EXCEPT ![cur] = was, ![b] = "running"]
          /\ fate' = "runs"
      BY <2>1
    <3>2. {c \in Boxes : ctx'[c] = "running"} = {b}
      BY <1>1, <3>1 DEF TypeOK, SwitchesLand
    <3>3. b # main => ctx'[main] = "saved"
      BY <1>1, <3>1 DEF TypeOK, SwitchesLand
    <3> QED  BY <3>1, <3>2, <3>3 DEF SwitchesLand
  <2>2. CASE ctx[b] \notin {"fresh", "saved"}
    <3>1. ctx[b] \in {"none", "over"}
      BY <1>1, <2>2 DEF TypeOK, SwitchesLand
    <3> QED  BY <1>1, <2>2, <3>1 DEF TypeOK, SwitchesLand
  <2> QED  BY <2>1, <2>2
<1>8. RunningStackKept' /\ OnOwnStack'
  BY DEF RunningStackKept, OnOwnStack, StackScanned, StackOf
<1> QED  BY <1>5, <1>6, <1>7, <1>8

LEMMA TransferKeeps ==
  ASSUME IInv, NEW h \in held, Transfer(h)
  PROVE  IInv'
<1>1. h \in Boxes /\ main # NoBox /\ cur \in Boxes
  BY DEF IInv, TypeOK, MainStays
<1>2. fate = "runs" /\ held' \subseteq Boxes /\ UNCHANGED <<main, live, memory>>
  BY <1>1 DEF Transfer, IInv, TypeOK
<1>3. CASE h = cur
  BY <1>1, <1>2, <1>3
     DEF Transfer, IInv, TypeOK, MainStays, SwitchesLand, OnOwnStack, StackScanned,
         RunningStackKept, Allocated, memory
<1>4. CASE h # cur
  BY <1>1, <1>2, <1>4, SwitchKeeps DEF Transfer
<1> QED  BY <1>3, <1>4

LEMMA FinishKeeps ==
  ASSUME IInv, Finish
  PROVE  IInv'
<1>1. main # NoBox /\ main \in Boxes /\ main # cur
  BY DEF IInv, TypeOK, MainStays, OnOwnStack, StackScanned, Finish
<1> QED  BY <1>1, SwitchKeeps DEF Finish, IInv, TypeOK

LEMMA FreeKeeps ==
  ASSUME IInv, NEW h \in held, Free(h)
  PROVE  IInv'
<1> USE DEF Free, IInv, memory
<1>1. TypeOK'
  BY DEF TypeOK, Allocated
<1>2. MainStays' /\ SwitchesLand'
  BY <1>1 DEF TypeOK, MainStays, SwitchesLand, Allocated
<1>3. RunningStackKept' /\ OnOwnStack'
  BY DEF RunningStackKept, OnOwnStack, StackScanned
<1> QED  BY <1>1, <1>2, <1>3

(* The program's allocations, and a collection on the stack that runs.         *)
LEMMA HeapStepKeeps ==
  ASSUME IInv, Collect \/ \E o \in Objs : Allocate(o) \/ Forget(o)
  PROVE  IInv'
<1> USE DEF Allocate, Forget, Collect, IInv
<1>1. TypeOK'
  BY DEF TypeOK, Allocated
<1>2. MainStays' /\ SwitchesLand'
  BY CoroutineAssumption DEF MainStays, SwitchesLand, Allocated, TypeOK
<1>3. RunningStackKept' /\ OnOwnStack'
  BY DEF RunningStackKept, OnOwnStack, StackScanned, Stacks, TypeOK
<1> QED  BY <1>1, <1>2, <1>3

LEMMA Invariance == Spec => []IInv
<1>1. IInv /\ [Next]_vars => IInv'
  <2> SUFFICES ASSUME IInv, [Next]_vars PROVE IInv'
    OBVIOUS
  <2>1. CASE UNCHANGED vars
    BY <2>1 DEF IInv, vars, TypeOK, MainStays, SwitchesLand, OnOwnStack, StackScanned,
               RunningStackKept, Allocated
  <2>2. CASE Next
    BY <2>2, CurrentKeeps, NewKeeps, TransferKeeps, FinishKeeps, FreeKeeps,
       HeapStepKeeps DEF Next
  <2> QED  BY <2>1, <2>2
<1> QED  BY InitHolds, <1>1, PTL DEF Spec

-----------------------------------------------------------------------------

(* LIVE always lists exactly what is allocated, so free never drops a box      *)
(* twice (coroutine.rs:398-412).                                               *)
THEOREM CoroutineShape == Spec => []TypeOK
  BY Invariance, PTL DEF IInv

(* Whatever coroutines do to each other, exactly one runs, main waits where a  *)
(* returning body can find it (coroutine.rs:15-17), and a switch goes astray   *)
(* only to a coroutine that has ended or was freed (coroutine.rs:415-427).     *)
THEOREM SwitchesAlwaysLand == Spec => []SwitchesLand
  BY Invariance, PTL DEF IInv

(* A collection scans to the top of the stack it runs on and of no other       *)
(* (gc.rs:622-630), after any transfers, ends and frees of any coroutines, and *)
(* so keeps all that the running frames refer to.                              *)
THEOREM RunningStackIsScanned == Spec => []RunningStackKept
  BY Invariance, PTL DEF IInv
=============================================================================
