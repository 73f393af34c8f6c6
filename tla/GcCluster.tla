------------------------------ MODULE GcCluster ------------------------------
(***************************************************************************)
(* One cluster of the garbage collected heap (newm2-runtime/src/gc.rs):    *)
(* first-fit allocation from the free list with splitting, bump            *)
(* allocation, the block-start bitmap and the resolution of conservative   *)
(* pointers, and a collection cycle: clear the marks, mark, sweep with     *)
(* coalescing.  The program stores pointers in stack words (scanned        *)
(* conservatively), in module variables (precise roots) and in fields.     *)
(*                                                                         *)
(* Addresses count units of 16 bytes (BLOCK_ALIGN) from the cluster's      *)
(* base, so a header is one unit.  A pointer in memory is the address of a *)
(* payload, one unit past its block.  GcSafepoint shows when a cycle may   *)
(* run; here it is one step.  A request this cluster cannot serve goes to  *)
(* another one, which is not modelled.                                     *)
(***************************************************************************)
EXTENDS Naturals, FiniteSets, Sequences, FiniteSetsExt, SequencesExt

CONSTANTS
    Size,        \* units in the cluster
    Types,       \* type descriptors
    Total,       \* Total[ty]: units of a block of that type, header included
    Fields,      \* Fields[ty]: its pointer fields (ptroffs)
    AllFields,   \* their union
    Words,       \* words of the mutators' stacks
    Roots        \* pointer variables of the modules

FreeTag == "free"    \* the tag 0
Nil  == 0         \* no payload starts at unit 0
MinBlock == 2     \* MIN_BLOCK

ASSUME ClusterAssumption ==
    /\ Size \in Nat \ {0}
    /\ FreeTag \notin Types
    /\ Total \in [Types -> MinBlock .. Size]
    /\ Fields \in [Types -> SUBSET AllFields]

Units == 0 .. Size - 1

VARIABLES
    cluster,     \* the Cluster and the memory it owns, see ClusterShape
    words,       \* the address in each stack word, or Nil
    roots,       \* the address in each module variable, or Nil
    gapped       \* history: a reused block has left a remainder too small to
                 \* be a block, which belongs to no block since

clusterVars == <<cluster, words, roots, gapped>>

\* tag, mark and size are what the memory at a unit reads as a header.
\* bump is the first unit never handed out, free the free_list, starts the
\* block_starts bitmap.
ClusterShape ==
    [bump   : 0 .. Size,
     free   : Seq(Units),
     starts : SUBSET Units,
     tag    : [Units -> Types \cup {FreeTag}],
     mark   : [Units -> BOOLEAN],
     size   : [Units -> 0 .. Size],
     field  : [Units -> [AllFields -> 0 .. Size - 1]]]

NoFields == [f \in AllFields |-> Nil]

-----------------------------------------------------------------------------
(* Allocation.                                                               *)

\* The zeroing of a block's payload: headers that used to lie there vanish.
Zeroed(c, block, length) ==
    LET inside == block + 1 .. block + length - 1
    IN  [c EXCEPT !.tag   = [u \in Units |-> IF u \in inside THEN FreeTag ELSE @[u]],
                  !.mark  = [u \in Units |-> u \notin inside /\ @[u]],
                  !.size  = [u \in Units |-> IF u \in inside THEN 0 ELSE @[u]],
                  !.field = [u \in Units |-> IF u \in inside \cup {block}
                                             THEN NoFields ELSE @[u]]]

\* Mutant: the remainder gets no bit in the bitmap.
SplitOffUnmarked(c, i, total) ==
    LET block == c.free[i]
        split == block + total
    IN  [c EXCEPT !.free = <<split>> \o RemoveAt(c.free, i),
                  !.tag[split] = FreeTag,
                  !.mark[split] = FALSE,
                  !.size[split] = c.size[block] - total,
                  !.size[block] = total]

\* The remainder becomes a free block, first on the list.
SplitOff(c, i, total) ==
    LET block == c.free[i]
        split == block + total
    IN  [c EXCEPT !.free = <<split>> \o RemoveAt(c.free, i),
                  !.starts = @ \cup {split},
                  !.tag[split] = FreeTag,
                  !.mark[split] = FALSE,
                  !.size[split] = c.size[block] - total,
                  !.size[block] = total]

\* The remainder is split off when it can hold a block; otherwise the block is
\* taken whole.
FromFreeList(c, i, total) ==
    LET block == c.free[i]
    IN  IF c.size[block] - total >= MinBlock
        THEN Zeroed(SplitOff(c, i, total), block, total)
        ELSE Zeroed([c EXCEPT !.free = RemoveAt(@, i)], block, c.size[block])

Fitting(c, total) == {i \in DOMAIN c.free : c.size[c.free[i]] >= total}

\* Mutant: room for the header is taken for room for the block.
CanAllocHeader(c, total) == Fitting(c, total) # {} \/ c.bump < Size

CanAlloc(c, total) == Fitting(c, total) # {} \/ c.bump + total <= Size

\* The first fit is used.  The block try_alloc returns, and the cluster it leaves.
AllocBlock(c, total) ==
    IF Fitting(c, total) # {} THEN c.free[Min(Fitting(c, total))] ELSE c.bump

AfterAlloc(c, total) ==
    IF Fitting(c, total) # {}
    THEN FromFreeList(c, Min(Fitting(c, total)), total)
    ELSE [c EXCEPT !.bump = @ + total,
                   !.starts = @ \cup {c.bump},
                   !.size[c.bump] = total]

\* nm2_new_rec then writes the header: the tag, and the size asked for.
AfterNewRec(c, ty) ==
    LET block == AllocBlock(c, Total[ty])
    IN  [AfterAlloc(c, Total[ty]) EXCEPT !.tag[block] = ty,
                                         !.mark[block] = FALSE,
                                         !.size[block] = Total[ty]]

\* The block a request takes whole is longer than the size nm2_new_rec writes.
LeavesGap(c, total) ==
    /\ Fitting(c, total) # {}
    /\ c.size[AllocBlock(c, total)] - total \in 1 .. MinBlock - 1

-----------------------------------------------------------------------------
(* Resolution of an address found by the conservative scan.                  *)

BlockStartAtOrBelow(c, addr) == {s \in c.starts : s <= addr}

\* Mutant: the address of a header resolves to its block.
ResolveHeader(c, addr) ==
    IF addr >= c.bump \/ BlockStartAtOrBelow(c, addr) = {}
    THEN {}
    ELSE LET block == Max(BlockStartAtOrBelow(c, addr))
         IN  {b \in {block} : /\ c.size[b] >= MinBlock
                              /\ b + c.size[b] <= c.bump
                              /\ addr < b + c.size[b]
                              /\ c.tag[b] # FreeTag}

\* The blocks an address resolves to: one or none.
Resolve(c, addr) ==
    IF addr >= c.bump \/ BlockStartAtOrBelow(c, addr) = {}
    THEN {}
    ELSE LET block == Max(BlockStartAtOrBelow(c, addr))
         IN  {b \in {block} : /\ c.size[b] >= MinBlock
                              /\ b + c.size[b] <= c.bump
                              /\ addr < b + c.size[b]
                              /\ c.tag[b] # FreeTag
                              /\ addr > b}

-----------------------------------------------------------------------------
(* The collection cycle.                                                     *)

\* The linear walk from unit 0, as the set of blocks it meets.  It stops at
\* the first unit that does not read as a header.
Walk(c) ==
    LET from[u \in 0 .. 2 * Size] ==
            IF u >= c.bump \/ c.size[u] < MinBlock \/ u + c.size[u] > c.bump
            THEN {}
            ELSE {u} \cup from[u + c.size[u]]
    IN  from[0]

WalkEnd(c) == LET last == Max(Walk(c)) IN IF Walk(c) = {} THEN 0 ELSE last + c.size[last]

ClearMarks(c) ==
    LET met == Walk(c) IN [c EXCEPT !.mark = [u \in Units |-> u \notin met /\ @[u]]]

\* The blocks the fields of a block point to.
Children(c, block) ==
    IF c.tag[block] = FreeTag THEN {}
    ELSE {c.field[block][f] - 1 : f \in {g \in Fields[c.tag[block]] : c.field[block][g] # Nil}}

\* Mutant: the module variables are not scanned.
StackBlocks(c) == UNION {Resolve(c, words[w]) : w \in Words}

\* The blocks found from the stack words and the module variables.
RootBlocks(c) ==
    {roots[r] - 1 : r \in {q \in Roots : roots[q] # Nil}}
        \cup UNION {Resolve(c, words[w]) : w \in Words}

\* What a trace from the blocks in start reaches, when it does not go through
\* the blocks in closed.
Traced(c, start, closed) ==
    LET reach[n \in 0 .. Size] ==
            IF n = 0 THEN start
            ELSE LET r == reach[n - 1]
                 IN  r \cup UNION {Children(c, b) : b \in r \ closed}
    IN  reach[Size]

\* mark_object: a block already marked is not traced again.
Marked(c) ==
    LET old   == {u \in Units : c.mark[u]}
        found == Traced(c, RootBlocks(c), old)
    IN  [c EXCEPT !.mark = [u \in Units |-> @[u] \/ (u \in found /\ c.tag[u] # FreeTag)]]

Descending(S) ==
    CHOOSE s \in [1 .. Cardinality(S) -> S] : \A i, j \in DOMAIN s : i < j => s[i] > s[j]

\* Mutant: adjacent free blocks are not merged.
SweptApart(c) ==
    LET met  == Walk(c)
        kept == {b \in met : c.mark[b] /\ c.tag[b] # FreeTag}
        open == met \ kept
    IN  [c EXCEPT !.mark = [u \in Units |-> u \notin kept /\ @[u]],
                  !.tag  = [u \in Units |-> IF u \in open THEN FreeTag ELSE @[u]],
                  !.field = [u \in Units |-> IF u \in open THEN NoFields ELSE @[u]],
                  !.free = Descending(open)]

\* cluster_sweep: unmarked blocks are freed, a run of free blocks becomes one,
\* and the new free list has the last block first.  The payload of a freed
\* block, part of which the free list's links overwrite, is forgotten.
Swept(c) ==
    LET met   == Walk(c)
        kept  == {b \in met : c.mark[b] /\ c.tag[b] # FreeTag}
        open  == met \ kept
        heads == {b \in open : \A p \in open : p + c.size[p] # b}
        After(b) == Min({k \in kept \cup {WalkEnd(c)} : k > b})
    IN  [c EXCEPT !.mark = [u \in Units |-> u \notin kept /\ @[u]],
                  !.tag  = [u \in Units |-> IF u \in heads THEN FreeTag ELSE @[u]],
                  !.size = [u \in Units |-> IF u \in heads THEN After(u) - u ELSE @[u]],
                  !.field = [u \in Units |-> IF u \in open THEN NoFields ELSE @[u]],
                  !.starts = @ \ (open \ heads),
                  !.free = Descending(heads)]

AfterCycle(c) == Swept(Marked(ClearMarks(c)))

-----------------------------------------------------------------------------

ClusterInit ==
    /\ cluster = [bump |-> 0, free |-> <<>>, starts |-> {},
                  tag   |-> [u \in Units |-> FreeTag],
                  mark  |-> [u \in Units |-> FALSE],
                  size  |-> [u \in Units |-> 0],
                  field |-> [u \in Units |-> NoFields]]
    /\ words = [w \in Words |-> Nil]
    /\ roots = [r \in Roots |-> Nil]
    /\ gapped = FALSE

(* SYSTEM.COLLECT, the pressure trigger, or another cluster's exhaustion.     *)
CollectCluster ==
    /\ cluster' = AfterCycle(cluster)
    /\ UNCHANGED <<words, roots, gapped>>

(* NEW(w): nm2_new_rec, served by this cluster without a collection ...       *)
NewRec(ty, w) ==
    /\ CanAlloc(cluster, Total[ty])
    /\ cluster' = AfterNewRec(cluster, ty)
    /\ words' = [words EXCEPT ![w] = AllocBlock(cluster, Total[ty]) + 1]
    /\ gapped' = (gapped \/ LeavesGap(cluster, Total[ty]))
    /\ UNCHANGED roots

(* ... or after the one that a full cluster provokes.                         *)
CollectAndNew(ty, w) ==
    LET c == AfterCycle(cluster) IN
    /\ ~CanAlloc(cluster, Total[ty])
    /\ CanAlloc(c, Total[ty])
    /\ cluster' = AfterNewRec(c, ty)
    /\ words' = [words EXCEPT ![w] = AllocBlock(c, Total[ty]) + 1]
    /\ gapped' = (gapped \/ LeavesGap(c, Total[ty]))
    /\ UNCHANGED roots

(* What compiled code does with pointers.                                     *)
Drop(w) ==
    /\ words' = [words EXCEPT ![w] = Nil]
    /\ UNCHANGED <<cluster, roots, gapped>>

StoreRoot(r, w) ==
    /\ roots' = [roots EXCEPT ![r] = words[w]]
    /\ UNCHANGED <<cluster, words, gapped>>

LoadRoot(w, r) ==
    /\ words' = [words EXCEPT ![w] = roots[r]]
    /\ UNCHANGED <<cluster, roots, gapped>>

StoreField(w, f, v) ==
    /\ words[w] # Nil
    /\ f \in Fields[cluster.tag[words[w] - 1]]
    /\ cluster' = [cluster EXCEPT !.field[words[w] - 1][f] = words[v]]
    /\ UNCHANGED <<words, roots, gapped>>

LoadField(w, f) ==
    /\ words[w] # Nil
    /\ f \in Fields[cluster.tag[words[w] - 1]]
    /\ words' = [words EXCEPT ![w] = cluster.field[words[w] - 1][f]]
    /\ UNCHANGED <<cluster, roots, gapped>>

ClusterNext ==
    \/ CollectCluster
    \/ \E w \in Words :
         \/ \E ty \in Types : NewRec(ty, w) \/ CollectAndNew(ty, w)
         \/ Drop(w)
         \/ \E r \in Roots : StoreRoot(r, w) \/ LoadRoot(w, r)
         \/ \E f \in AllFields : LoadField(w, f) \/ \E v \in Words : StoreField(w, f, v)

ClusterSpec == ClusterInit /\ [][ClusterNext]_clusterVars

-----------------------------------------------------------------------------

TypeOKCluster ==
    /\ cluster \in ClusterShape
    /\ words \in [Words -> 0 .. Size - 1]
    /\ roots \in [Roots -> 0 .. Size - 1]
    /\ gapped \in BOOLEAN

\* What the program can still get at: from its words and variables, by fields.
Held == {words[w] - 1 : w \in {x \in Words : words[x] # Nil}}
            \cup {roots[r] - 1 : r \in {q \in Roots : roots[q] # Nil}}
Reachable == Traced(cluster, Held, {})

\* The blocks of the objects in S keep their tags and their bits in the bitmap,
\* and overlap no other block.
Intact(S) ==
    \A b \in S :
        /\ cluster.tag[b] # FreeTag
        /\ b \in cluster.starts
        /\ \A s \in cluster.starts : s # b => s + cluster.size[s] <= b \/ b + cluster.size[b] <= s

(* A header says the "total size of this block in bytes, including this       *)
(* header.  Required to walk the cluster linearly during sweep"               *)
(* (gc.rs:55-56): an object the program can reach is never reclaimed.         *)
ReachableKept == Intact(Reachable)

(* As long as no reuse has left a gap: an object the program can reach is     *)
(* never reclaimed.                                                           *)
ReachableIntact == gapped \/ Intact(Reachable)

(* As long as no reuse has left a gap: the linear walk of the cluster, on     *)
(* which clearing the marks and sweeping rest, meets every block up to the    *)
(* bump pointer (gc.rs:20-22); the bitmap has exactly the blocks it meets,    *)
(* the free list each free one of them once.                                  *)
WalkTiles ==
    ~gapped =>
        /\ WalkEnd(cluster) = cluster.bump
        /\ cluster.starts = Walk(cluster)
        /\ IsInjective(cluster.free)
        /\ ToSet(cluster.free) = {b \in Walk(cluster) : cluster.tag[b] = FreeTag}

(* As long as no reuse has left a gap: the conservative scan resolves an      *)
(* address exactly when it points into the payload of an allocated block, and *)
(* to that block.                                                             *)
ResolveExact ==
    ~gapped =>
        \A addr \in Units :
            Resolve(cluster, addr) =
                {b \in Walk(cluster) : cluster.tag[b] # FreeTag /\ b < addr /\ addr < b + cluster.size[b]}

(* As long as no reuse has left a gap: a cycle frees all that is unreachable  *)
(* and merges adjacent free blocks.                                           *)
CycleReclaims ==
    [][~gapped /\ cluster' = AfterCycle(cluster) =>
         /\ {b \in Walk(cluster') : cluster'.tag[b] # FreeTag} = Reachable
         /\ \A a, b \in Walk(cluster') :
                a + cluster'.size[a] = b => cluster'.tag[a] # FreeTag \/ cluster'.tag[b] # FreeTag]_cluster
=============================================================================
