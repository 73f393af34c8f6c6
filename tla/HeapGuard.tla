------------------------------ MODULE HeapGuard ------------------------------
(***************************************************************************)
(* The manual heap behind NEW and DISPOSE (newm2-runtime/src/heap.rs):     *)
(* nm2_alloc and nm2_free called by several threads, the block counters    *)
(* they keep, and the heap guard, a counting Bloom filter of the live      *)
(* allocations that is meant to stop a double DISPOSE before it reaches    *)
(* the system heap.                                                        *)
(*                                                                         *)
(* One action is one access to shared memory: an atomic counter, the       *)
(* GUARD_STATE word, one slot of the filter, or one call of the system     *)
(* heap (imp::alloc, imp::free), which is itself serialised.  A compare-   *)
(* and-swap loop is the one step at which it succeeds; record_alloc and    *)
(* record_free, whose several counters nothing reads before the program    *)
(* ends, are one step each.  All blocks have the same size, so the byte    *)
(* counters follow the block counters and are left out.                    *)
(***************************************************************************)
EXTENDS Integers, FiniteSets

CONSTANTS
    Threads,     \* the threads of the Modula-2 program
    Ptrs,        \* addresses the system heap hands out
    NoPtr,       \* stands for "in no call"
    Slots,       \* counters of the filter (BLOOM_LEN)
    K,           \* hashes per pointer (BLOOM_K)
    Hash,        \* Hash[p][i]: the i-th slot of p (bloom_indices)
    Sat,         \* the value at which a counter sticks (255)
    AllocLimit,  \* bound: calls of nm2_alloc in a behaviour
    StaleLimit   \* bound: DISPOSEs of a pointer that is no longer owned

\* The filter's step is odd and its length a power of two (line 153), so the K
\* slots of one pointer are distinct.
ASSUME GuardAssumption ==
    /\ NoPtr \notin Ptrs
    /\ K \in Nat \ {0}
    /\ Sat \in Nat \ {0}
    /\ Hash \in [Ptrs -> [1 .. K -> Slots]]
    /\ \A p \in Ptrs : \A i, j \in 1 .. K : Hash[p][i] = Hash[p][j] => i = j
    /\ IsFiniteSet(Ptrs)
    /\ AllocLimit \in Nat /\ StaleLimit \in Nat

VARIABLES
    entered,     \* main() is past its --protect-heap hook
    guard,       \* GUARD_STATE: "undecided", "on", "off" or "deciding"
    atexits,     \* registrations of the leak report
    count,       \* BLOOM
    live,        \* addresses the system heap has handed out
    stats,       \* HEAP_STATS: blocks allocated, freed, live, and the peak
    caught,      \* DOUBLE_FREE
    owned,       \* pointers the program holds and has not disposed of
    stale,       \* DISPOSEs made so far of a pointer not owned
    missed,      \* history: those that the filter has let through
    pc,          \* where each thread is
    op,          \* its call: "none", "alloc", "free" (of an owned pointer)
                 \* or "stale", a DISPOSE of a pointer it does not own
    ptr,         \* the pointer its call is about
    idx          \* the next of the K slots

callVars == <<op, ptr>>
vars == <<entered, guard, atexits, count, live, stats, caught, owned, stale, missed,
          pc, op, ptr, idx>>

Idle == "idle"
Steps == {Idle, "record", "guard", "decide", "add", "return",
          "check", "remove", "caught", "free", "unrecord"}

\* Slots of p a loop at index i has dealt with, and those it has still to do.
Done(p, i) == {Hash[p][j] : j \in {n \in 1 .. K : n < i}}
SlotsOf(p) == {Hash[p][j] : j \in 1 .. K}

Goto(t, label) == pc' = [pc EXCEPT ![t] = label]
LoopTo(t, label) == Goto(t, label) /\ idx' = [idx EXCEPT ![t] = 1]

Begin(t, what, p, label) ==
    /\ op' = [op EXCEPT ![t] = what]
    /\ ptr' = [ptr EXCEPT ![t] = p]
    /\ Goto(t, label)

Leave(t) == Begin(t, "none", NoPtr, Idle)

\* The slot the thread is at, and its move to the next one or past the loop.
Slot(t) == Hash[ptr[t]][idx[t]]
NextSlot(t, after) ==
    IF idx[t] < K
    THEN idx' = [idx EXCEPT ![t] = @ + 1] /\ UNCHANGED pc
    ELSE LoopTo(t, after)

-----------------------------------------------------------------------------

Init ==
    /\ entered = FALSE
    /\ guard = "undecided"
    /\ atexits = 0
    /\ count = [s \in Slots |-> 0]
    /\ live = {}
    /\ stats = [allocs |-> 0, frees |-> 0, live |-> 0, peak |-> 0]
    /\ caught = 0
    /\ owned = {}
    /\ stale = 0
    /\ missed = 0
    /\ pc = [t \in Threads |-> Idle]
    /\ op = [t \in Threads |-> "none"]
    /\ ptr = [t \in Threads |-> NoPtr]
    /\ idx = [t \in Threads |-> 1]

(* nm2_heap_guard_force_on, which main() calls before it does anything else  *)
(* when the program was built with --protect-heap.                           *)
ForceOn ==
    /\ guard' = "on"
    /\ atexits' = atexits + (IF guard # "on" THEN 1 ELSE 0)

Enter(forced) ==
    /\ ~entered
    /\ entered' = TRUE
    /\ IF forced THEN ForceOn ELSE UNCHANGED <<guard, atexits>>
    /\ UNCHANGED <<count, live, stats, caught, owned, stale, missed, pc, op, ptr, idx>>

(* nm2_alloc: imp::alloc returns an address not in use.  A null return        *)
(* changes nothing and is the step not taken.                                 *)
Alloc(t, p) ==
    /\ entered
    /\ pc[t] = Idle
    /\ stats.allocs + Cardinality({u \in Threads : pc[u] = "record"}) < AllocLimit
    /\ p \notin live
    /\ live' = live \cup {p}
    /\ Begin(t, "alloc", p, "record")
    /\ UNCHANGED <<entered, guard, atexits, count, stats, caught, owned, stale, missed, idx>>

(* record_alloc; the peak is taken from the value the increment returned.    *)
RecordAlloc(t) ==
    /\ pc[t] = "record"
    /\ stats' = [allocs |-> stats.allocs + 1,
                 frees  |-> stats.frees,
                 live   |-> stats.live + 1,
                 peak   |-> IF stats.live + 1 > stats.peak THEN stats.live + 1 ELSE stats.peak]
    /\ Goto(t, "guard")
    /\ UNCHANGED <<entered, guard, atexits, count, live, caught, owned, stale, missed, op, ptr, idx>>

(* guard_on, answered: nm2_alloc adds to the filter or returns, nm2_free      *)
(* checks the filter or goes straight to the system heap.                     *)
Answer(t, on) ==
    LoopTo(t, CASE op[t] = "alloc" /\ on  -> "add"
                [] op[t] = "alloc" /\ ~on -> "return"
                [] op[t] # "alloc" /\ on  -> "check"
                [] op[t] # "alloc" /\ ~on -> "free")

ReadGuard(t) ==
    /\ pc[t] = "guard"
    /\ guard \in {"on", "off"}
    /\ Answer(t, guard = "on")
    /\ UNCHANGED <<entered, guard, atexits, count, live, stats, caught, owned, stale, missed, callVars>>

\* The compare-and-swap 0 -> 3 by which one thread claims the decision; the
\* others spin (they have no step) until it is made.
ClaimGuard(t) ==
    /\ pc[t] = "guard"
    /\ guard = "undecided"
    /\ guard' = "deciding"
    /\ Goto(t, "decide")
    /\ UNCHANGED <<entered, atexits, count, live, stats, caught, owned, stale, missed, op, ptr, idx>>

\* Mutant: the answer "off" is returned and not stored.
DecideGuardUnstored(t, on) ==
    /\ pc[t] = "decide"
    /\ atexits' = atexits + (IF on THEN 1 ELSE 0)
    /\ guard' = IF on THEN "on" ELSE guard
    /\ Answer(t, on)
    /\ UNCHANGED <<entered, count, live, stats, caught, owned, stale, missed, callVars>>

\* NM2_PROTECT_HEAP is read once, here: either answer is possible.
DecideGuard(t, on) ==
    /\ pc[t] = "decide"
    /\ atexits' = atexits + (IF on THEN 1 ELSE 0)
    /\ guard' = IF on THEN "on" ELSE "off"
    /\ Answer(t, on)
    /\ UNCHANGED <<entered, count, live, stats, caught, owned, stale, missed, callVars>>

\* Mutant: a counter that does not saturate.
AddSlotUnsaturated(t) ==
    /\ pc[t] = "add"
    /\ count' = [count EXCEPT ![Slot(t)] = @ + 1]
    /\ NextSlot(t, "return")
    /\ UNCHANGED <<entered, guard, atexits, live, stats, caught, owned, stale, missed, callVars>>

(* bloom_add, one slot.  A saturated counter is left alone.                   *)
AddSlot(t) ==
    /\ pc[t] = "add"
    /\ count' = [count EXCEPT ![Slot(t)] = IF @ = Sat THEN @ ELSE @ + 1]
    /\ NextSlot(t, "return")
    /\ UNCHANGED <<entered, guard, atexits, live, stats, caught, owned, stale, missed, callVars>>

\* nm2_alloc returns: the program now owns the block.
Return(t) ==
    /\ pc[t] = "return"
    /\ owned' = owned \cup {ptr[t]}
    /\ Leave(t)
    /\ UNCHANGED <<entered, guard, atexits, count, live, stats, caught, stale, missed, idx>>

(* nm2_free called for a pointer the program owns.                            *)
CallFree(t, p) ==
    /\ pc[t] = Idle
    /\ p \in owned
    /\ owned' = owned \ {p}
    /\ Begin(t, "free", p, "guard")
    /\ UNCHANGED <<entered, guard, atexits, count, live, stats, caught, stale, missed, idx>>

(* nm2_free called again for a pointer that has been disposed of (or was      *)
(* never obtained): the mistake the guard is for.  Without the guard it is    *)
(* undefined behaviour and is left out.                                       *)
CallStaleFree(t, p) ==
    /\ pc[t] = Idle
    /\ stale < StaleLimit
    /\ guard = "on"
    /\ p \notin owned
    /\ stale' = stale + 1
    /\ Begin(t, "stale", p, "guard")
    /\ UNCHANGED <<entered, guard, atexits, count, live, stats, caught, owned, missed, idx>>

\* bloom_remove, first loop: all its slots were above zero.
Pass(t) == missed' = missed + (IF op[t] = "stale" THEN 1 ELSE 0)

\* Mutant: one slot that is not zero is taken for all of them.
CheckSlotFirst(t) ==
    /\ pc[t] = "check"
    /\ LoopTo(t, IF count[Slot(t)] = 0 THEN "caught" ELSE "remove")
    /\ IF count[Slot(t)] = 0 THEN UNCHANGED missed ELSE Pass(t)
    /\ UNCHANGED <<entered, guard, atexits, count, live, stats, caught, owned, stale, callVars>>

\* Mutant: both loops in one, a slot is taken from as soon as it is checked.
CheckSlotTaking(t) ==
    /\ pc[t] = "check"
    /\ IF count[Slot(t)] = 0
       THEN LoopTo(t, "caught") /\ UNCHANGED missed
       ELSE /\ NextSlot(t, "free")
            /\ IF idx[t] = K THEN Pass(t) ELSE UNCHANGED missed
    /\ count' = [count EXCEPT ![Slot(t)] = IF @ \in {0, Sat} THEN @ ELSE @ - 1]
    /\ UNCHANGED <<entered, guard, atexits, live, stats, caught, owned, stale, callVars>>

(* bloom_remove, first loop: a zero slot means "not live".                    *)
CheckSlot(t) ==
    /\ pc[t] = "check"
    /\ IF count[Slot(t)] = 0
       THEN LoopTo(t, "caught") /\ UNCHANGED missed
       ELSE /\ NextSlot(t, "remove")
            /\ IF idx[t] = K THEN Pass(t) ELSE UNCHANGED missed
    /\ UNCHANGED <<entered, guard, atexits, count, live, stats, caught, owned, stale, callVars>>

\* Mutant: a saturated counter, which has lost count, is decremented.
RemoveSlotSaturated(t) ==
    /\ pc[t] = "remove"
    /\ count' = [count EXCEPT ![Slot(t)] = IF @ = 0 THEN @ ELSE @ - 1]
    /\ NextSlot(t, "free")
    /\ UNCHANGED <<entered, guard, atexits, live, stats, caught, owned, stale, missed, callVars>>

(* bloom_remove, second loop, made without a lock after the first.            *)
RemoveSlot(t) ==
    /\ pc[t] = "remove"
    /\ count' = [count EXCEPT ![Slot(t)] = IF @ \in {0, Sat} THEN @ ELSE @ - 1]
    /\ NextSlot(t, "free")
    /\ UNCHANGED <<entered, guard, atexits, live, stats, caught, owned, stale, missed, callVars>>

\* The free is counted, reported and skipped.
Catch(t) ==
    /\ pc[t] = "caught"
    /\ caught' = caught + 1
    /\ Leave(t)
    /\ UNCHANGED <<entered, guard, atexits, count, live, stats, owned, stale, missed, idx>>

(* imp::free.  The heap of Windows tolerates an address it has not handed     *)
(* out (line 433), which is what is modelled.                                 *)
HeapFree(t) ==
    /\ pc[t] = "free"
    /\ live' = live \ {ptr[t]}
    /\ Goto(t, "unrecord")
    /\ UNCHANGED <<entered, guard, atexits, count, stats, caught, owned, stale, missed, op, ptr, idx>>

(* record_free. *)
RecordFree(t) ==
    /\ pc[t] = "unrecord"
    /\ stats' = [allocs |-> stats.allocs,
                 frees  |-> stats.frees + 1,
                 live   |-> stats.live - 1,
                 peak   |-> stats.peak]
    /\ Leave(t)
    /\ UNCHANGED <<entered, guard, atexits, count, live, caught, owned, stale, missed, idx>>

-----------------------------------------------------------------------------

\* The steps a thread takes inside a call.
Inside(t) ==
    \/ RecordAlloc(t) \/ ReadGuard(t) \/ ClaimGuard(t)
    \/ \E on \in BOOLEAN : DecideGuard(t, on)
    \/ AddSlot(t) \/ Return(t)
    \/ CheckSlot(t) \/ RemoveSlot(t) \/ Catch(t) \/ HeapFree(t) \/ RecordFree(t)

Call(t) == \E p \in Ptrs : Alloc(t, p) \/ CallFree(t, p) \/ CallStaleFree(t, p)

Next ==
    \/ \E forced \in BOOLEAN : Enter(forced)
    \/ \E t \in Threads : Call(t) \/ Inside(t)

Spec == Init /\ [][Next]_vars

(* The operating system keeps scheduling a thread that can run.               *)
FairSpec == Spec /\ \A t \in Threads : WF_vars(Inside(t))

-----------------------------------------------------------------------------

(* The shape of the state.  In particular a counter of the filter never      *)
(* leaves 0 .. Sat; live_blocks, an unsigned counter, falls below 0 (it      *)
(* wraps) only after an invalid free that the guard has missed.              *)
TypeOK ==
    /\ entered \in BOOLEAN
    /\ guard \in {"undecided", "on", "off", "deciding"}
    /\ atexits \in Nat
    /\ count \in [Slots -> 0 .. Sat]
    /\ live \subseteq Ptrs
    /\ stats \in [allocs : Nat, frees : Nat, live : Int, peak : Int]
    /\ caught \in Nat
    /\ owned \subseteq Ptrs
    /\ stale \in Nat /\ missed \in Nat
    /\ pc \in [Threads -> Steps]
    /\ op \in [Threads -> {"none", "alloc", "free", "stale"}]
    /\ ptr \in [Threads -> Ptrs \cup {NoPtr}]
    /\ idx \in [Threads -> 1 .. K]

(* Until a pointer is disposed of that the program does not own, the guard    *)
(* blocks no free (the promise of heap.rs:67-69).  Afterwards it may: an      *)
(* invalid free that is missed takes counts away from live pointers.          *)
CorrectFreeNotCaught ==
    stale = 0 => \A t \in Threads : pc[t] # "caught"

Quiet == \A t \in Threads : pc[t] = Idle

\* Each counter of an enabled guard is the number of live pointers that hash
\* to it (heap.rs:67), or is stuck at saturation.
CountsExact ==
    guard = "on" =>
        \A s \in Slots :
            \/ count[s] = Sat
            \/ /\ count[s] < Sat
               /\ count[s] = Cardinality({p \in live : s \in SlotsOf(p)})

\* The leak report printed at exit (guard_report_atexit) names the number of
\* blocks the program never disposed of.
LeakReportExact ==
    /\ live = owned
    /\ stats.live = Cardinality(live)
    /\ stats.allocs = stats.frees + stats.live
    /\ stats.live <= stats.peak

(* While the program disposes correctly, and when no call is in progress, the *)
(* filter's counters and the leak report's numbers agree with the blocks that *)
(* are live, whatever calls interleaved before, each of which updated them    *)
(* apart from the block and from one another.                                 *)
AccountsExact == Quiet /\ stale = 0 => CountsExact /\ LeakReportExact

(* The leak report is registered exactly once when the guard is on, and not   *)
(* at all when it is off, however threads race to decide (heap.rs:123-143,    *)
(* 278-287).                                                                  *)
ReportRegistered == atexits = IF guard = "on" THEN 1 ELSE 0

(* In a program with one thread, an invalid free reaches the system heap only *)
(* by aliasing: every slot of its pointer is shared with a live pointer or    *)
(* stuck at saturation (heap.rs:69-70).                                       *)
MissOnlyByAliasing ==
    \A t \in Threads :
        (pc[t] = "free" /\ ptr[t] \notin live /\ guard = "on") =>
            \A s \in SlotsOf(ptr[t]) :
                count[s] = Sat \/ \E p \in live : s \in SlotsOf(p)

(* A stale free that the filter misses takes from the counters of live        *)
(* pointers (heap.rs:187-197), and correct frees are refused for it later.    *)
(* The damage is bounded: at most K of them for each that was missed, and     *)
(* none for one that was caught, whatever is allocated and freed meanwhile.   *)
RefusalsBounded ==
    LET refused == caught - (stale - missed)
    IN  Quiet => refused <= K * missed

(* A call of nm2_alloc or nm2_free returns: a thread that waits for another   *)
(* one to decide the guard does not spin for ever.                            *)
CallsReturn == \A t \in Threads : pc[t] # Idle ~> pc[t] = Idle
=============================================================================
