--------------------------- MODULE HeapGuardProofs ---------------------------
(***************************************************************************)
(* Proofs about the heap guard, for any threads, pointers, filter and hash:*)
(* in a program that disposes of each block once, the guard blocks nothing.*)
(***************************************************************************)
EXTENDS HeapGuard, FiniteSetTheorems, TLAPS

\* TypeOK but for the block counters, on which the guard does not depend.
Shape ==
    /\ entered \in BOOLEAN
    /\ guard \in {"undecided", "on", "off", "deciding"}
    /\ count \in [Slots -> 0 .. Sat]
    /\ live \subseteq Ptrs
    /\ owned \subseteq Ptrs
    /\ stale \in Nat
    /\ pc \in [Threads -> Steps]
    /\ op \in [Threads -> {"none", "alloc", "free", "stale"}]
    /\ ptr \in [Threads -> Ptrs \cup {NoPtr}]
    /\ idx \in [Threads -> 1 .. K]
    /\ \A t \in Threads : pc[t] # Idle => ptr[t] \in Ptrs

\* A thread is busy with its pointer until the system heap has it back.
Busy(t) == pc[t] \notin {Idle, "unrecord"}

\* The call a thread is in fits the place it is at.
CallFits ==
    \A t \in Threads :
        /\ pc[t] \in {"record", "add", "return"} => op[t] = "alloc"
        /\ pc[t] \in {"check", "remove", "free"} => op[t] = "free"
        /\ pc[t] \in {"guard", "decide"} => op[t] \in {"alloc", "free"}
        /\ pc[t] # "caught"

\* A pointer is with one thread, or owned by the program, and then it is live.
OneHolder ==
    /\ owned \subseteq live
    /\ \A t \in Threads : Busy(t) => ptr[t] \in live /\ ptr[t] \notin owned
    /\ \A t, u \in Threads : Busy(t) /\ Busy(u) /\ ptr[t] = ptr[u] => t = u

\* Nothing has passed the guard before it is decided, and one thread decides.
Before ==
    /\ ~entered => guard = "undecided" /\ \A t \in Threads : pc[t] = Idle
    /\ guard \in {"undecided", "deciding"} =>
          /\ owned = {}
          /\ \A t \in Threads : pc[t] \in {Idle, "record", "guard", "decide"} /\ op[t] # "free"
    /\ \A t \in Threads : pc[t] = "decide" => guard = "deciding"
    /\ \A t, u \in Threads : pc[t] = "decide" /\ pc[u] = "decide" => t = u
    /\ \A t \in Threads : pc[t] \in {"add", "check", "remove"} => guard = "on"

\* Thread t has its pointer counted in slot s: added there and not removed.
Has(t, s) ==
    \/ pc[t] = "return"
    \/ pc[t] = "add" /\ s \in Done(ptr[t], idx[t])
    \/ pc[t] \in {"guard", "decide", "check"} /\ op[t] = "free"
    \/ pc[t] = "remove" /\ s \notin Done(ptr[t], idx[t])

\* p is counted in slot s.
Counts(p, s) ==
    /\ s \in SlotsOf(p)
    /\ p \in owned \/ \E t \in Threads : ptr[t] = p /\ Has(t, s)

Counted(s) == {p \in Ptrs : Counts(p, s)}

\* A counter that is not stuck is at least the number of pointers that count.
CountCovers ==
    guard = "on" =>
        \A s \in Slots : count[s] = Sat \/ Cardinality(Counted(s)) <= count[s]

IInv == Shape /\ CallFits /\ OneHolder /\ Before /\ CountCovers

-----------------------------------------------------------------------------
(* The bounds of the loop and of a counter.                                   *)
LEMMA Bounds == K \in Nat /\ K >= 1 /\ Sat \in Nat /\ Sat >= 1
  BY GuardAssumption

(* The slots of a pointer.                                                    *)

LEMMA DoneNone == ASSUME NEW p \in Ptrs PROVE Done(p, 1) = {}
  BY GuardAssumption DEF Done

LEMMA DoneStep ==
    ASSUME NEW p \in Ptrs, NEW i \in 1 .. K
    PROVE  /\ Done(p, i + 1) = Done(p, i) \cup {Hash[p][i]}
           /\ Hash[p][i] \notin Done(p, i)
           /\ Hash[p][i] \in SlotsOf(p)
           /\ Hash[p][i] \in Slots
  BY GuardAssumption DEF Done, SlotsOf

LEMMA DoneAll ==
    ASSUME NEW p \in Ptrs
    PROVE  Done(p, K) \cup {Hash[p][K]} = SlotsOf(p)
<1>1. K \in 1 .. K
  BY GuardAssumption
<1>2. Done(p, K + 1) = SlotsOf(p)
  BY GuardAssumption DEF Done, SlotsOf
<1> QED BY <1>1, <1>2, DoneStep

LEMMA CountedFinite ==
    ASSUME NEW s PROVE IsFiniteSet(Counted(s)) /\ Cardinality(Counted(s)) \in Nat
<1>1. IsFiniteSet(Counted(s))
  BY GuardAssumption, FS_Subset DEF Counted
<1> QED BY <1>1, FS_CardinalityType

-----------------------------------------------------------------------------
(* The state keeps its shape.                                                 *)

LEMMA InitShape == ASSUME Init PROVE Shape
<1> USE GuardAssumption DEF Init, Idle, Steps
<1>1. count \in [Slots -> 0 .. Sat]
  OBVIOUS
<1>2. pc \in [Threads -> Steps] /\ idx \in [Threads -> 1 .. K]
  OBVIOUS
<1>3. ptr \in [Threads -> Ptrs \cup {NoPtr}]
  OBVIOUS
<1>4. op \in [Threads -> {"none", "alloc", "free", "stale"}]
  OBVIOUS
<1>5. live \subseteq Ptrs /\ owned \subseteq Ptrs /\ stale \in Nat
  OBVIOUS
<1> QED BY <1>1, <1>2, <1>3, <1>4, <1>5 DEF Shape

\* Moving through a loop over the slots keeps the places and the index in shape.
LEMMA LoopShape ==
    ASSUME Shape, NEW t \in Threads, NEW label \in Steps \ {Idle}, pc[t] # Idle,
           NextSlot(t, label) \/ LoopTo(t, label), ptr' = ptr
    PROVE  /\ pc' \in [Threads -> Steps] /\ idx' \in [Threads -> 1 .. K]
           /\ \A u \in Threads : pc'[u] # Idle => ptr'[u] \in Ptrs
<1> USE Bounds DEF Shape, NextSlot, LoopTo, Goto
<1>1. CASE LoopTo(t, label)
  BY <1>1
<1>2. CASE idx' = [idx EXCEPT ![t] = @ + 1] /\ pc' = pc /\ idx[t] < K
  BY <1>2
<1> QED BY <1>1, <1>2

LEMMA StepKeepsShape ==
    ASSUME Shape, Next PROVE Shape'
<1>1. ASSUME NEW forced \in BOOLEAN, Enter(forced) PROVE Shape'
  BY <1>1 DEF Enter, ForceOn, Shape
<1>2. ASSUME NEW t \in Threads, NEW p \in Ptrs,
             Alloc(t, p) \/ CallFree(t, p) \/ CallStaleFree(t, p)
      PROVE  Shape'
  <2>1. \E what \in {"alloc", "free", "stale"}, label \in {"record", "guard"} :
            Begin(t, what, p, label)
    BY <1>2 DEF Alloc, CallFree, CallStaleFree
  <2>2. /\ pc' \in [Threads -> Steps]
        /\ op' \in [Threads -> {"none", "alloc", "free", "stale"}]
        /\ ptr' \in [Threads -> Ptrs \cup {NoPtr}]
        /\ \A u \in Threads : pc'[u] # Idle => ptr'[u] \in Ptrs
    BY <2>1 DEF Begin, Goto, Shape, Steps
  <2> QED BY <1>2, <2>2 DEF Alloc, CallFree, CallStaleFree, Shape
<1>3. ASSUME NEW t \in Threads, RecordAlloc(t) \/ ClaimGuard(t)
      PROVE  Shape'
  BY <1>3 DEF RecordAlloc, ClaimGuard, Goto, Shape, Steps, Idle
<1>4. ASSUME NEW t \in Threads, NEW on \in BOOLEAN, ReadGuard(t) \/ DecideGuard(t, on)
      PROVE  Shape'
  <2>1. PICK label \in Steps \ {Idle} : LoopTo(t, label)
    BY <1>4 DEF ReadGuard, DecideGuard, Answer, Steps, Shape, Idle
  <2> QED BY <1>4, <2>1, LoopShape DEF ReadGuard, DecideGuard, Shape, callVars, Idle
<1>5. ASSUME NEW t \in Threads, AddSlot(t) PROVE Shape'
  <2>1. /\ pc' \in [Threads -> Steps] /\ idx' \in [Threads -> 1 .. K]
        /\ \A u \in Threads : pc'[u] # Idle => ptr'[u] \in Ptrs
    BY <1>5, LoopShape DEF AddSlot, Steps, callVars, Idle
  <2>2. count' \in [Slots -> 0 .. Sat]
    <3>1. \A s \in Slots : count[s] \in Nat /\ count[s] <= Sat
      BY Bounds DEF Shape
    <3>2. \A s \in Slots : count'[s] \in Nat /\ count'[s] <= Sat
      BY <1>5, <3>1, Bounds DEF AddSlot, Shape
    <3>3. \A s \in Slots : count'[s] \in 0 .. Sat
      BY <3>2, Bounds
    <3>4. count' = [s \in Slots |-> count'[s]]
      BY <1>5 DEF AddSlot, Shape
    <3> QED BY <3>3, <3>4
  <2> QED BY <1>5, <2>1, <2>2 DEF AddSlot, Shape, callVars
<1>6. ASSUME NEW t \in Threads, RemoveSlot(t) PROVE Shape'
  <2>1. /\ pc' \in [Threads -> Steps] /\ idx' \in [Threads -> 1 .. K]
        /\ \A u \in Threads : pc'[u] # Idle => ptr'[u] \in Ptrs
    BY <1>6, LoopShape DEF RemoveSlot, Steps, callVars, Idle
  <2>2. count' \in [Slots -> 0 .. Sat]
    <3>1. \A s \in Slots : count[s] \in Nat /\ count[s] <= Sat
      BY Bounds DEF Shape
    <3>2. \A s \in Slots : count'[s] \in Nat /\ count'[s] <= Sat
      BY <1>6, <3>1, Bounds DEF RemoveSlot, Shape
    <3>3. \A s \in Slots : count'[s] \in 0 .. Sat
      BY <3>2, Bounds
    <3>4. count' = [s \in Slots |-> count'[s]]
      BY <1>6 DEF RemoveSlot, Shape
    <3> QED BY <3>3, <3>4
  <2> QED BY <1>6, <2>1, <2>2 DEF RemoveSlot, Shape, callVars
<1>7. ASSUME NEW t \in Threads, CheckSlot(t) PROVE Shape'
  <2>1. /\ pc' \in [Threads -> Steps] /\ idx' \in [Threads -> 1 .. K]
        /\ \A u \in Threads : pc'[u] # Idle => ptr'[u] \in Ptrs
    BY <1>7, LoopShape DEF CheckSlot, Steps, callVars, Idle
  <2> QED BY <1>7, <2>1 DEF CheckSlot, Shape, callVars
<1>8. ASSUME NEW t \in Threads, Return(t) \/ Catch(t) \/ RecordFree(t) PROVE Shape'
  BY <1>8 DEF Return, Catch, RecordFree, Leave, Begin, Goto, Shape, Steps, Idle
<1>9. ASSUME NEW t \in Threads, HeapFree(t) PROVE Shape'
  BY <1>9 DEF HeapFree, Goto, Shape, Steps, Idle
<1> QED BY <1>1, <1>2, <1>3, <1>4, <1>5, <1>6, <1>7, <1>8, <1>9 DEF Next, Call, Inside
-----------------------------------------------------------------------------
(* A step of one thread, seen from the others and from the program.           *)

LEMMA OthersStay ==
    ASSUME Shape, NEW t \in Threads, Call(t) \/ Inside(t)
    PROVE  \A u \in Threads \ {t} :
              pc'[u] = pc[u] /\ op'[u] = op[u] /\ ptr'[u] = ptr[u] /\ idx'[u] = idx[u]
<1> USE DEF Goto, LoopTo, Begin, Leave, NextSlot, Shape, callVars
<1>1. ASSUME NEW p \in Ptrs, Alloc(t, p) \/ CallFree(t, p) \/ CallStaleFree(t, p)
      PROVE  \A u \in Threads \ {t} :
                pc'[u] = pc[u] /\ op'[u] = op[u] /\ ptr'[u] = ptr[u] /\ idx'[u] = idx[u]
  BY <1>1 DEF Alloc, CallFree, CallStaleFree
<1>2. CASE RecordAlloc(t) \/ ClaimGuard(t) \/ HeapFree(t)
  BY <1>2 DEF RecordAlloc, ClaimGuard, HeapFree
<1>3. CASE ReadGuard(t)
  BY <1>3 DEF ReadGuard, Answer
<1>4. ASSUME NEW on \in BOOLEAN, DecideGuard(t, on)
      PROVE  \A u \in Threads \ {t} :
                pc'[u] = pc[u] /\ op'[u] = op[u] /\ ptr'[u] = ptr[u] /\ idx'[u] = idx[u]
  BY <1>4 DEF DecideGuard, Answer
<1>5. CASE AddSlot(t)
  BY <1>5 DEF AddSlot
<1>6. CASE CheckSlot(t)
  BY <1>6 DEF CheckSlot
<1>7. CASE RemoveSlot(t)
  BY <1>7 DEF RemoveSlot
<1>8. CASE Return(t) \/ Catch(t) \/ RecordFree(t)
  BY <1>8 DEF Return, Catch, RecordFree
<1> QED BY <1>1, <1>2, <1>3, <1>4, <1>5, <1>6, <1>7, <1>8 DEF Call, Inside

\* What a step of t does to t itself: which edges of its control flow exist.
LEMMA OwnStep ==
    ASSUME IInv, stale' = 0, NEW t \in Threads, Call(t) \/ Inside(t)
    PROVE  \/ \E p \in Ptrs : Alloc(t, p)
           \/ \E p \in Ptrs : CallFree(t, p)
           \/ RecordAlloc(t) \/ ReadGuard(t) \/ ClaimGuard(t)
           \/ \E on \in BOOLEAN : DecideGuard(t, on)
           \/ AddSlot(t) \/ Return(t) \/ CheckSlot(t) \/ RemoveSlot(t)
           \/ HeapFree(t) \/ RecordFree(t)
<1>1. \A p \in Ptrs : ~ CallStaleFree(t, p)
  BY DEF IInv, Shape, CallStaleFree
<1>2. ~ Catch(t)
  BY DEF IInv, CallFits, Catch
<1> QED BY <1>1, <1>2 DEF Call, Inside

\* The pointer of a thread that checks the filter is counted, so no slot is zero.
LEMMA CheckPasses ==
    ASSUME IInv, NEW t \in Threads, pc[t] = "check"
    PROVE  count[Slot(t)] # 0
<1>1. ptr[t] \in Ptrs /\ idx[t] \in 1 .. K /\ op[t] = "free" /\ guard = "on"
  BY DEF IInv, Shape, Idle, CallFits, Before
<1>2. Slot(t) \in SlotsOf(ptr[t]) /\ Slot(t) \in Slots
  BY <1>1, DoneStep DEF Slot
<1>3. ptr[t] \in Counted(Slot(t))
  BY <1>1, <1>2 DEF Counted, Counts, Has
<1>4. Cardinality(Counted(Slot(t))) # 0
  BY <1>3, CountedFinite, FS_EmptySet
<1>5. count[Slot(t)] \in 0 .. Sat
  BY <1>2 DEF IInv, Shape
<1> QED BY <1>1, <1>2, <1>4, <1>5, CountedFinite, Bounds DEF IInv, CountCovers

LEMMA StepKeepsFits ==
    ASSUME IInv, Next, stale' = 0 PROVE CallFits'
<1>1. ASSUME NEW forced \in BOOLEAN, Enter(forced) PROVE CallFits'
  BY <1>1 DEF Enter, IInv, CallFits
<1>2. ASSUME NEW t \in Threads, Call(t) \/ Inside(t) PROVE CallFits'
  <2> DEFINE Fits(u) ==
        /\ pc[u] \in {"record", "add", "return"} => op[u] = "alloc"
        /\ pc[u] \in {"check", "remove", "free"} => op[u] = "free"
        /\ pc[u] \in {"guard", "decide"} => op[u] \in {"alloc", "free"}
        /\ pc[u] # "caught"
  <2>1. \A u \in Threads : Fits(u)
    BY DEF IInv, CallFits
  <2>2. \A u \in Threads \ {t} : Fits(u)'
    BY <2>1, <1>2, OthersStay DEF IInv
  <2> HIDE DEF Fits
  <2>3. Fits(t)'
    <3> USE DEF Fits, Goto, LoopTo, Begin, Leave, IInv, Shape, callVars, Idle
    <3>1. CASE \E p \in Ptrs : Alloc(t, p) \/ CallFree(t, p)
      BY <3>1 DEF Alloc, CallFree
    <3>2. CASE RecordAlloc(t) \/ ClaimGuard(t)
      BY <3>2, <2>1 DEF RecordAlloc, ClaimGuard
    <3>3. CASE ReadGuard(t)
      BY <3>3, <2>1 DEF ReadGuard, Answer
    <3>4. CASE \E on \in BOOLEAN : DecideGuard(t, on)
      BY <3>4, <2>1 DEF DecideGuard, Answer
    <3>5. CASE AddSlot(t)
      BY <3>5, <2>1 DEF AddSlot, NextSlot
    <3>6. CASE CheckSlot(t)
      BY <3>6, <2>1, CheckPasses DEF CheckSlot, NextSlot
    <3>7. CASE RemoveSlot(t)
      BY <3>7, <2>1 DEF RemoveSlot, NextSlot
    <3>8. CASE Return(t) \/ HeapFree(t) \/ RecordFree(t)
      BY <3>8, <2>1 DEF Return, HeapFree, RecordFree
    <3> HIDE DEF Fits, Goto, LoopTo, Begin, Leave, IInv, Shape, callVars, Idle
    <3> QED BY <1>2, OwnStep, <3>1, <3>2, <3>3, <3>4, <3>5, <3>6, <3>7, <3>8
  <2>4. \A u \in Threads : Fits(u)'
    BY <2>2, <2>3
  <2> QED BY <2>4 DEF Fits, CallFits
<1> QED BY <1>1, <1>2 DEF Next

LEMMA StepKeepsHolder ==
    ASSUME IInv, Next, stale' = 0 PROVE OneHolder'
<1> USE DEF Busy, Idle
<1>1. ASSUME NEW forced \in BOOLEAN, Enter(forced) PROVE OneHolder'
  BY <1>1 DEF Enter, IInv, OneHolder
<1>2. ASSUME NEW t \in Threads, Call(t) \/ Inside(t) PROVE OneHolder'
  <2>0. \A u \in Threads \ {t} :
            /\ Busy(u)' <=> Busy(u)
            /\ ptr'[u] = ptr[u]
    BY <1>2, OthersStay DEF IInv
  <2>1. ASSUME NEW p \in Ptrs, Alloc(t, p) PROVE OneHolder'
    <3>1. /\ live' = live \cup {p} /\ owned' = owned /\ p \notin live
          /\ ptr'[t] = p
      BY <2>1 DEF Alloc, Begin, IInv, Shape
    <3> QED BY <2>0, <3>1 DEF IInv, OneHolder
  <2>2. ASSUME NEW p \in Ptrs, CallFree(t, p) PROVE OneHolder'
    <3>1. /\ live' = live /\ owned' = owned \ {p} /\ p \in owned
          /\ ptr'[t] = p
      BY <2>2 DEF CallFree, Begin, IInv, Shape
    <3> QED BY <2>0, <3>1 DEF IInv, OneHolder
  <2>3. ASSUME live' = live, owned' = owned, ptr' = ptr, Busy(t) PROVE OneHolder'
    BY <2>0, <2>3 DEF IInv, OneHolder
  <2>4. ASSUME Return(t) PROVE OneHolder'
    <3>1. /\ live' = live /\ owned' = owned \cup {ptr[t]} /\ ~Busy(t)' /\ Busy(t)
      BY <2>4 DEF Return, Leave, Begin, Goto, IInv, Shape
    <3> QED BY <2>0, <3>1 DEF IInv, OneHolder
  <2>5. ASSUME HeapFree(t) PROVE OneHolder'
    <3>1. /\ live' = live \ {ptr[t]} /\ owned' = owned /\ ptr' = ptr
          /\ ~Busy(t)' /\ Busy(t)
      BY <2>5 DEF HeapFree, Goto, IInv, Shape
    <3> QED BY <2>0, <3>1 DEF IInv, OneHolder
  <2>6. ASSUME RecordFree(t) PROVE OneHolder'
    <3>1. /\ live' = live /\ owned' = owned /\ ~Busy(t)'
      BY <2>6 DEF RecordFree, Leave, Begin, Goto, IInv, Shape
    <3> QED BY <2>0, <3>1 DEF IInv, OneHolder
  <2>7. CASE RecordAlloc(t) \/ ReadGuard(t) \/ ClaimGuard(t)
    BY <2>7, <2>3 DEF RecordAlloc, ReadGuard, ClaimGuard, callVars
  <2>8. CASE \E on \in BOOLEAN : DecideGuard(t, on)
    BY <2>8, <2>3 DEF DecideGuard, callVars
  <2>9. CASE AddSlot(t) \/ CheckSlot(t) \/ RemoveSlot(t)
    BY <2>9, <2>3 DEF AddSlot, CheckSlot, RemoveSlot, callVars
  <2> HIDE DEF Busy, Idle
  <2> QED BY <1>2, OwnStep, <2>1, <2>2, <2>4, <2>5, <2>6, <2>7, <2>8, <2>9
<1> QED BY <1>1, <1>2 DEF Next

LEMMA StepKeepsBefore ==
    ASSUME IInv, Next, stale' = 0 PROVE Before'
<1> USE DEF Idle
<1>1. ASSUME NEW forced \in BOOLEAN, Enter(forced) PROVE Before'
  BY <1>1 DEF Enter, ForceOn, IInv, Before
<1>2. ASSUME NEW t \in Threads, Call(t) \/ Inside(t) PROVE Before'
  <2>0. /\ \A u \in Threads \ {t} : pc'[u] = pc[u] /\ op'[u] = op[u]
        /\ entered' = entered
    BY <1>2, OthersStay
    DEF IInv, Call, Inside, Alloc, CallFree, CallStaleFree, RecordAlloc, ReadGuard, ClaimGuard,
        DecideGuard, AddSlot, Return, CheckSlot, RemoveSlot, Catch, HeapFree, RecordFree
  <2> USE DEF IInv, Shape, Before, Goto, LoopTo, Begin, Leave, callVars
  <2>1. ASSUME NEW p \in Ptrs, Alloc(t, p) PROVE Before'
    BY <2>0, <2>1 DEF Alloc
  <2>2. ASSUME NEW p \in Ptrs, CallFree(t, p) PROVE Before'
    BY <2>0, <2>2 DEF CallFree
  <2>3. CASE RecordAlloc(t)
    BY <2>0, <2>3 DEF RecordAlloc
  <2>4. CASE ClaimGuard(t)
    BY <2>0, <2>4 DEF ClaimGuard
  <2>5. CASE ReadGuard(t)
    BY <2>0, <2>5 DEF ReadGuard, Answer
  <2>6. ASSUME NEW on \in BOOLEAN, DecideGuard(t, on) PROVE Before'
    BY <2>0, <2>6 DEF DecideGuard, Answer
  <2>7. CASE AddSlot(t)
    BY <2>0, <2>7 DEF AddSlot, NextSlot
  <2>8. CASE CheckSlot(t)
    BY <2>0, <2>8, CheckPasses DEF CheckSlot, NextSlot
  <2>9. CASE RemoveSlot(t)
    BY <2>0, <2>9 DEF RemoveSlot, NextSlot
  <2>10. CASE Return(t) \/ HeapFree(t) \/ RecordFree(t)
    BY <2>0, <2>10 DEF Return, HeapFree, RecordFree
  <2> HIDE DEF Idle, IInv, Shape, Before, Goto, LoopTo, Begin, Leave, callVars
  <2> QED BY <1>2, OwnStep, <2>1, <2>2, <2>3, <2>4, <2>5, <2>6, <2>7, <2>8, <2>9, <2>10
<1> QED BY <1>1, <1>2 DEF Next

\* Where no counter moves and nothing is newly counted, the counters still cover.
LEMMA StillCovers ==
    ASSUME IInv, guard' = "on" => guard = "on", count' = count,
           \A s \in Slots : Counted(s)' \subseteq Counted(s)
    PROVE  CountCovers'
<1> SUFFICES ASSUME guard' = "on", NEW s \in Slots
             PROVE  count'[s] = Sat \/ Cardinality(Counted(s)') <= count'[s]
  BY DEF CountCovers
<1>1. /\ IsFiniteSet(Counted(s)')
      /\ Cardinality(Counted(s)') <= Cardinality(Counted(s))
  BY CountedFinite, FS_Subset
<1>2. Cardinality(Counted(s)') \in Nat /\ Cardinality(Counted(s)) \in Nat
  BY <1>1, CountedFinite, FS_CardinalityType
<1>3. count[s] = Sat \/ Cardinality(Counted(s)) <= count[s]
  BY DEF IInv, CountCovers
<1>4. count[s] \in Nat
  BY Bounds DEF IInv, Shape
<1> QED BY <1>1, <1>2, <1>3, <1>4

\* A step of t counts no pointer but by what it does to the program's and t's.
LEMMA NewlyCounted ==
    ASSUME IInv, NEW t \in Threads, Call(t) \/ Inside(t), NEW s \in Slots,
           NEW p \in Ptrs, p \in Counted(s)', p \notin Counted(s)
    PROVE  \/ p \in owned' /\ p \notin owned
           \/ ptr'[t] = p /\ Has(t, s)'
<1>1. \A u \in Threads \ {t} : ptr'[u] = ptr[u] /\ (Has(u, s)' <=> Has(u, s))
  BY OthersStay DEF IInv, Has
<1> QED BY <1>1 DEF Counted, Counts

LEMMA AddCovers ==
    ASSUME IInv, NEW t \in Threads, AddSlot(t) PROVE CountCovers'
<1>1. PICK p \in Ptrs : p = ptr[t]
  BY DEF AddSlot, IInv, Shape, Idle
<1>2. PICK q \in Slots : q = Slot(t)
  BY <1>1, DoneStep DEF Slot, IInv, Shape
<1>3. /\ idx[t] \in 1 .. K /\ pc[t] = "add"
      /\ q = Hash[p][idx[t]] /\ q \in SlotsOf(p)
  BY <1>1, <1>2, DoneStep DEF AddSlot, IInv, Shape, Slot
<1>4. ptr' = ptr /\ owned' = owned /\ guard' = guard
  BY DEF AddSlot, callVars
<1>5. \A s \in SlotsOf(p) : Has(t, s)' => Has(t, s) \/ s = q
  <2>1. CASE idx[t] < K
    <3>1. pc'[t] = "add" /\ idx'[t] = idx[t] + 1
      BY <1>3, <2>1 DEF AddSlot, NextSlot, IInv, Shape
    <3> QED BY <1>1, <1>3, <1>4, <3>1, DoneStep DEF Has
  <2>2. CASE idx[t] = K
    BY <1>1, <1>3, <2>2, DoneAll DEF Has
  <2> QED BY <1>3, <2>1, <2>2, Bounds
<1>6. ASSUME NEW s \in Slots, s # q PROVE Counted(s)' \subseteq Counted(s)
  <2>1. ASSUME NEW x \in Counted(s)' PROVE x \in Counted(s)
    <3>1. x \in Ptrs /\ s \in SlotsOf(x)
      BY <2>1 DEF Counted, Counts
    <3> QED BY <1>1, <1>4, <1>5, <1>6, <2>1, <3>1, NewlyCounted DEF Counted, Counts, Inside
  <2> QED BY <2>1
<1>7. Counted(q)' \subseteq Counted(q) \cup {p}
  <2>1. ASSUME NEW x \in Counted(q)' PROVE x \in Counted(q) \cup {p}
    <3>1. x \in Ptrs
      BY <2>1 DEF Counted
    <3> QED BY <1>1, <1>4, <2>1, <3>1, NewlyCounted DEF Inside
  <2> QED BY <2>1
<1> SUFFICES ASSUME guard' = "on", NEW s \in Slots
             PROVE  count'[s] = Sat \/ Cardinality(Counted(s)') <= count'[s]
  BY DEF CountCovers
<1>8. count[s] \in Nat /\ (count[s] = Sat \/ Cardinality(Counted(s)) <= count[s])
  BY <1>4, Bounds DEF IInv, Shape, CountCovers
<1>9. IsFiniteSet(Counted(s)) /\ Cardinality(Counted(s)) \in Nat
  BY CountedFinite
<1>10. CASE s # q
  <2>1. IsFiniteSet(Counted(s)') /\ Cardinality(Counted(s)') <= Cardinality(Counted(s))
    BY <1>6, <1>9, <1>10, FS_Subset
  <2>2. count'[s] = count[s]
    BY <1>2, <1>10 DEF AddSlot, IInv, Shape
  <2> QED BY <1>8, <1>9, <2>1, <2>2, FS_CardinalityType
<1>11. CASE s = q
  <2>1. /\ IsFiniteSet(Counted(q) \cup {p})
        /\ Cardinality(Counted(q) \cup {p}) \in Nat
        /\ Cardinality(Counted(q) \cup {p}) <= Cardinality(Counted(q)) + 1
    <3>1. /\ IsFiniteSet(Counted(q) \cup {p})
          /\ \/ Cardinality(Counted(q) \cup {p}) = Cardinality(Counted(q))
             \/ Cardinality(Counted(q) \cup {p}) = Cardinality(Counted(q)) + 1
      BY <1>9, <1>11, FS_AddElement
    <3> QED BY <1>9, <1>11, <3>1
  <2>2. IsFiniteSet(Counted(q)') /\ Cardinality(Counted(q)') <= Cardinality(Counted(q) \cup {p})
    BY <1>7, <2>1, FS_Subset
  <2>3. Cardinality(Counted(q)') \in Nat
    BY <2>2, FS_CardinalityType
  <2>4. count'[q] = IF count[q] = Sat THEN Sat ELSE count[q] + 1
    BY <1>2 DEF AddSlot, IInv, Shape
  <2> QED BY <1>8, <1>9, <1>11, <2>1, <2>2, <2>3, <2>4
<1> QED BY <1>10, <1>11

LEMMA RemoveCovers ==
    ASSUME IInv, NEW t \in Threads, RemoveSlot(t) PROVE CountCovers'
<1>1. PICK p \in Ptrs : p = ptr[t]
  BY DEF RemoveSlot, IInv, Shape, Idle
<1>2. PICK q \in Slots : q = Slot(t)
  BY <1>1, DoneStep DEF Slot, IInv, Shape
<1>3. /\ idx[t] \in 1 .. K /\ pc[t] = "remove"
      /\ q = Hash[p][idx[t]] /\ q \in SlotsOf(p) /\ q \notin Done(p, idx[t])
  BY <1>1, <1>2, DoneStep DEF RemoveSlot, IInv, Shape, Slot
<1>4. ptr' = ptr /\ owned' = owned /\ guard' = guard
  BY DEF RemoveSlot, callVars
<1>5. \A s \in SlotsOf(p) : Has(t, s)' => Has(t, s) /\ s # q
  <2>1. CASE idx[t] < K
    <3>1. pc'[t] = "remove" /\ idx'[t] = idx[t] + 1
      BY <1>3, <2>1 DEF RemoveSlot, NextSlot, IInv, Shape
    <3> QED BY <1>1, <1>3, <1>4, <3>1, DoneStep DEF Has
  <2>2. CASE idx[t] = K
    <3>1. pc'[t] = "free"
      BY <1>3, <2>2, Bounds DEF RemoveSlot, NextSlot, LoopTo, Goto, IInv, Shape
    <3> QED BY <3>1 DEF Has
  <2> QED BY <1>3, <2>1, <2>2, Bounds
<1>6. \A s \in Slots : Counted(s)' \subseteq Counted(s)
  <2>1. ASSUME NEW s \in Slots, NEW x \in Counted(s)' PROVE x \in Counted(s)
    <3>1. x \in Ptrs /\ s \in SlotsOf(x)
      BY <2>1 DEF Counted, Counts
    <3> QED BY <1>1, <1>4, <1>5, <2>1, <3>1, NewlyCounted DEF Counted, Counts, Inside
  <2> QED BY <2>1
<1>7. p \in Counted(q)
  BY <1>1, <1>3 DEF Counted, Counts, Has
<1>8. p \notin Counted(q)'
  \* No other thread is busy with p, and the program does not own it.
  <2>1. p \notin owned'
    BY <1>1, <1>3, <1>4 DEF IInv, OneHolder, Busy, Idle
  <2>2. ASSUME NEW u \in Threads, u # t, ptr[u] = p, Has(u, q)' PROVE FALSE
    <3>1. Has(u, q)
      BY <2>2, OthersStay DEF IInv, Has, Inside
    <3>2. Busy(u) /\ Busy(t)
      BY <1>3, <3>1 DEF Has, Busy, Idle
    <3> QED BY <1>1, <2>2, <3>2 DEF IInv, OneHolder
  <2>3. ~ Has(t, q)'
    BY <1>3, <1>5
  <2> QED BY <1>4, <2>1, <2>2, <2>3 DEF Counted, Counts
<1> SUFFICES ASSUME guard' = "on", NEW s \in Slots
             PROVE  count'[s] = Sat \/ Cardinality(Counted(s)') <= count'[s]
  BY DEF CountCovers
<1>9. count[s] \in Nat /\ (count[s] = Sat \/ Cardinality(Counted(s)) <= count[s])
  BY <1>4, Bounds DEF IInv, Shape, CountCovers
<1>10. IsFiniteSet(Counted(s)) /\ Cardinality(Counted(s)) \in Nat
  BY CountedFinite
<1>11. CASE s # q
  <2>1. IsFiniteSet(Counted(s)') /\ Cardinality(Counted(s)') <= Cardinality(Counted(s))
    BY <1>6, <1>10, FS_Subset
  <2>2. count'[s] = count[s]
    BY <1>2, <1>11 DEF RemoveSlot, IInv, Shape
  <2> QED BY <1>9, <1>10, <2>1, <2>2, FS_CardinalityType
<1>12. CASE s = q
  <2>1. /\ IsFiniteSet(Counted(q) \ {p})
        /\ Cardinality(Counted(q) \ {p}) = Cardinality(Counted(q)) - 1
    BY <1>7, <1>10, <1>12, FS_RemoveElement
  <2>2. Counted(q)' \subseteq Counted(q) \ {p}
    BY <1>6, <1>8
  <2>3. IsFiniteSet(Counted(q)') /\ Cardinality(Counted(q)') <= Cardinality(Counted(q) \ {p})
    BY <2>1, <2>2, FS_Subset
  <2>4. Cardinality(Counted(q)') \in Nat
    BY <2>3, FS_CardinalityType
  <2>5. count'[q] = IF count[q] \in {0, Sat} THEN count[q] ELSE count[q] - 1
    BY <1>2 DEF RemoveSlot, IInv, Shape
  <2>6. Cardinality(Counted(q)) \in Nat /\ count[q] \in Nat
    BY <1>9, <1>10, <1>12
  <2>7. Cardinality(Counted(q)') <= Cardinality(Counted(q)) - 1
    BY <2>1, <2>3
  <2> QED BY <1>9, <1>12, <2>4, <2>5, <2>6, <2>7
<1> QED BY <1>11, <1>12

LEMMA StepKeepsCovers ==
    ASSUME IInv, Next, stale' = 0 PROVE CountCovers'
<1> USE DEF Idle
\* Until the guard is decided no pointer is counted.
<1>1. ASSUME NEW s \in Slots, guard \in {"undecided", "deciding"} PROVE Counted(s) = {}
  BY <1>1 DEF IInv, Before, CallFits, Counted, Counts, Has
<1>2. ASSUME count' = count, \A s \in Slots : Counted(s)' = {} PROVE CountCovers'
  BY <1>2, FS_EmptySet, Bounds DEF IInv, Shape, CountCovers
<1>3. ASSUME NEW forced \in BOOLEAN, Enter(forced) PROVE CountCovers'
  <2>1. \A s \in Slots : Counted(s)' = Counted(s)
    BY <1>3 DEF Enter, Counted, Counts, Has
  <2> QED BY <1>1, <1>2, <1>3, <2>1 DEF Enter, IInv, Before
<1>4. ASSUME NEW t \in Threads, Call(t) \/ Inside(t) PROVE CountCovers'
  <2> USE DEF IInv, Shape, Goto, LoopTo, Begin, Leave, callVars
  \* It is enough that t's step keeps what the program and t have counted.
  <2>1. ASSUME guard' = "on" => guard = "on", count' = count,
               \A p \in Ptrs : p \in owned' => p \in owned \/ (p = ptr[t] /\ pc[t] = "return"),
               \A s \in Slots :
                  Has(t, s)' => \/ ptr'[t] = ptr[t] /\ Has(t, s)
                                \/ ptr'[t] \in owned
        PROVE  CountCovers'
    <3> HIDE DEF IInv, Shape, Goto, LoopTo, Begin, Leave, callVars
    <3>1. ASSUME NEW s \in Slots, NEW x \in Counted(s)', x \notin Counted(s) PROVE FALSE
      <4>1. x \in Ptrs /\ s \in SlotsOf(x)
        BY <3>1 DEF Counted, Counts
      <4> QED BY <1>4, <2>1, <3>1, <4>1, NewlyCounted DEF Counted, Counts, Has
    <3> QED BY <2>1, <3>1, StillCovers
  <2>2. ASSUME NEW p \in Ptrs, Alloc(t, p) PROVE CountCovers'
    BY <2>1, <2>2 DEF Alloc, Has
  <2>3. ASSUME NEW p \in Ptrs, CallFree(t, p) PROVE CountCovers'
    BY <2>1, <2>3 DEF CallFree, Has
  <2>4. CASE RecordAlloc(t)
    BY <2>1, <2>4 DEF RecordAlloc, CallFits, Has
  <2>5. CASE ReadGuard(t)
    <3>1. Done(ptr[t], 1) = {}
      BY <2>5, DoneNone DEF ReadGuard
    <3> QED BY <2>1, <2>5, <3>1 DEF ReadGuard, Answer, CallFits, CountCovers, Has
  <2>6. CASE ClaimGuard(t)
    BY <2>6 DEF ClaimGuard, CountCovers
  <2>7. ASSUME NEW on \in BOOLEAN, DecideGuard(t, on) PROVE CountCovers'
    <3>1. guard = "deciding"
      BY <2>7 DEF DecideGuard, Before
    <3>2. Done(ptr[t], 1) = {}
      BY <2>7, DoneNone DEF DecideGuard
    <3>3. /\ op[t] = "alloc" /\ op'[t] = "alloc" /\ ptr' = ptr /\ owned' = owned /\ idx'[t] = 1
          /\ guard' = "on" => pc'[t] = "add"
      BY <2>7, <3>1 DEF DecideGuard, Answer, CallFits, Before
    <3>4. guard' = "on" => \A s \in Slots : ~ Has(t, s)'
      BY <3>2, <3>3 DEF Has
    <3> HIDE DEF IInv, Shape, Goto, LoopTo, Begin, Leave, callVars
    <3>5. guard' = "on" => \A s \in Slots : Counted(s)' = {}
      <4> SUFFICES ASSUME guard' = "on", NEW s \in Slots, NEW x \in Counted(s)' PROVE FALSE
        OBVIOUS
      <4>1. x \in Ptrs /\ x \notin Counted(s)
        BY <1>1, <3>1 DEF Counted
      <4> QED BY <1>4, <3>3, <3>4, <4>1, NewlyCounted
    <3>6. count' = count
      BY <2>7 DEF DecideGuard
    <3> QED BY <1>2, <3>5, <3>6 DEF CountCovers
  <2>8. CASE Return(t)
    BY <2>1, <2>8 DEF Return, Has
  <2>9. CASE CheckSlot(t)
    <3>1. Done(ptr[t], 1) = {}
      BY <2>9, DoneNone DEF CheckSlot
    <3> QED BY <2>1, <2>9, <3>1, CheckPasses DEF CheckSlot, NextSlot, CallFits, Has
  <2>10. CASE HeapFree(t) \/ RecordFree(t)
    BY <2>1, <2>10 DEF HeapFree, RecordFree, Has
  <2> HIDE DEF IInv, Shape, Goto, LoopTo, Begin, Leave, callVars
  <2> QED BY <1>4, OwnStep, AddCovers, RemoveCovers,
             <2>2, <2>3, <2>4, <2>5, <2>6, <2>7, <2>8, <2>9, <2>10
<1> QED BY <1>3, <1>4 DEF Next

-----------------------------------------------------------------------------

LEMMA InitIInv == ASSUME Init PROVE IInv
  BY InitShape DEF Init, IInv, CallFits, OneHolder, Before, CountCovers, Busy, Idle

LEMMA StutterKeepsIInv == ASSUME IInv, UNCHANGED vars PROVE IInv'
  BY DEF vars, IInv, Shape, CallFits, OneHolder, Busy, Before, CountCovers, Counted, Counts, Has

\* What holds until the first DISPOSE of a pointer that is not owned.
Inductive == Shape /\ (stale = 0 => IInv)

LEMMA StaleGrows ==
    ASSUME Shape, Next, stale' = 0 PROVE stale = 0
<1>1. ASSUME NEW forced \in BOOLEAN, Enter(forced) PROVE stale = 0
  BY <1>1 DEF Enter
<1>2. ASSUME NEW t \in Threads, Call(t) PROVE stale = 0
  BY <1>2 DEF Shape, Call, Alloc, CallFree, CallStaleFree
<1>3. ASSUME NEW t \in Threads, Inside(t) PROVE stale = 0
  BY <1>3 DEF Inside, RecordAlloc, ReadGuard, ClaimGuard, DecideGuard, AddSlot, Return,
     CheckSlot, RemoveSlot, Catch, HeapFree, RecordFree
<1> QED BY <1>1, <1>2, <1>3 DEF Next

(* Until a pointer is disposed of that the program does not own, the guard    *)
(* blocks no free, whatever the number of threads, the filter, its hash and   *)
(* saturation, and however the calls interleave (heap.rs:67-69, bloom_remove).*)
THEOREM GuardNeverBlocks == Spec => []CorrectFreeNotCaught
<1>1. Init => Inductive
  BY InitIInv DEF Inductive, IInv
<1>2. Inductive /\ [Next]_vars => Inductive'
  <2>1. ASSUME Inductive, Next PROVE Inductive'
    <3>1. Shape'
      BY <2>1, StepKeepsShape DEF Inductive
    <3>2. ASSUME stale' = 0 PROVE IInv'
      <4>1. IInv
        BY <2>1, <3>2, StaleGrows DEF Inductive
      <4> QED BY <2>1, <3>1, <3>2, <4>1, StepKeepsFits, StepKeepsHolder,
                 StepKeepsBefore, StepKeepsCovers DEF IInv
    <3> QED BY <3>1, <3>2 DEF Inductive
  <2>2. ASSUME Inductive, UNCHANGED vars PROVE Inductive'
    <3>1. Shape' /\ stale' = stale
      BY <2>2 DEF vars, Inductive, Shape
    <3> QED BY <2>2, <3>1, StutterKeepsIInv DEF Inductive
  <2> QED BY <2>1, <2>2
<1>3. Inductive => CorrectFreeNotCaught
  BY DEF Inductive, IInv, CallFits, CorrectFreeNotCaught
<1> QED BY <1>1, <1>2, <1>3, PTL DEF Spec

-----------------------------------------------------------------------------
(* The decision of the guard, with or without stale frees.                    *)

\* Nothing runs before main() is entered, and one thread at a time decides.
OneDecider ==
    /\ ~entered => guard = "undecided" /\ owned = {} /\ \A t \in Threads : pc[t] = Idle
    /\ \A t \in Threads : pc[t] = "decide" => guard = "deciding"
    /\ \A t, u \in Threads : pc[t] = "decide" /\ pc[u] = "decide" => t = u
    /\ atexits \in Nat

RInv == Shape /\ OneDecider /\ ReportRegistered

LEMMA StepKeepsReport ==
    ASSUME RInv, Next PROVE OneDecider' /\ ReportRegistered'
<1> USE DEF Idle, OneDecider, ReportRegistered
<1>1. ASSUME NEW forced \in BOOLEAN, Enter(forced) PROVE OneDecider' /\ ReportRegistered'
  BY <1>1 DEF Enter, ForceOn, RInv
<1>2. ASSUME NEW t \in Threads, Call(t) \/ Inside(t)
      PROVE  OneDecider' /\ ReportRegistered'
  <2> USE DEF RInv, Shape, Goto, LoopTo, Begin, Leave, NextSlot, callVars
  <2>1. \A u \in Threads \ {t} : pc'[u] = pc[u]
    BY <1>2, OthersStay
  <2>2. ASSUME guard' = guard, atexits' = atexits, entered' = entered, entered, pc'[t] # "decide"
        PROVE  OneDecider' /\ ReportRegistered'
    BY <2>1, <2>2
  <2>3. ASSUME NEW p \in Ptrs, Alloc(t, p) \/ CallFree(t, p) \/ CallStaleFree(t, p)
        PROVE  OneDecider' /\ ReportRegistered'
    <3>1. entered
      BY <2>3 DEF Alloc, CallFree, CallStaleFree
    <3> QED BY <2>2, <2>3, <3>1 DEF Alloc, CallFree, CallStaleFree
  <2>4. CASE RecordAlloc(t) \/ Return(t) \/ Catch(t) \/ HeapFree(t) \/ RecordFree(t)
    BY <2>2, <2>4 DEF RecordAlloc, Return, Catch, HeapFree, RecordFree
  <2>5. CASE ReadGuard(t)
    BY <2>2, <2>5 DEF ReadGuard, Answer
  <2>6. CASE ClaimGuard(t)
    BY <2>1, <2>6 DEF ClaimGuard
  <2>7. ASSUME NEW on \in BOOLEAN, DecideGuard(t, on)
        PROVE  OneDecider' /\ ReportRegistered'
    BY <2>1, <2>7 DEF DecideGuard, Answer
  <2>8. CASE AddSlot(t) \/ CheckSlot(t) \/ RemoveSlot(t)
    BY <2>2, <2>8 DEF AddSlot, CheckSlot, RemoveSlot
  <2> QED BY <1>2, <2>3, <2>4, <2>5, <2>6, <2>7, <2>8 DEF Call, Inside
<1> QED BY <1>1, <1>2 DEF Next

(* The leak report is registered once when the guard is on and never when it  *)
(* is off, however many threads race to decide and whatever the program frees *)
(* (guard_on, nm2_heap_guard_force_on).                                       *)
THEOREM ReportOnce == Spec => []ReportRegistered
<1>1. Init => RInv
  <2>1. Init => OneDecider /\ ReportRegistered
    BY DEF Init, OneDecider, ReportRegistered, Idle
  <2> QED BY <2>1, InitShape DEF RInv
<1>2. RInv /\ [Next]_vars => RInv'
  <2>1. CASE Next
    BY <2>1, StepKeepsShape, StepKeepsReport DEF RInv
  <2>2. CASE UNCHANGED vars
    BY <2>2 DEF vars, RInv, Shape, OneDecider, ReportRegistered
  <2> QED BY <2>1, <2>2
<1>3. RInv => ReportRegistered
  BY DEF RInv
<1> QED BY <1>1, <1>2, <1>3, PTL DEF Spec

-----------------------------------------------------------------------------
(* The counters of the leak report.                                           *)

Counters ==
    /\ atexits \in Nat
    /\ stats \in [allocs : Nat, frees : Nat, live : Int, peak : Int]
    /\ caught \in Nat /\ missed \in Nat

LEMMA StepKeepsCounters ==
    ASSUME Counters, Next PROVE Counters'
<1> USE DEF Counters
<1>1. ASSUME NEW forced \in BOOLEAN, Enter(forced) PROVE Counters'
  BY <1>1 DEF Enter, ForceOn
<1>2. ASSUME NEW t \in Threads, Call(t) PROVE Counters'
  BY <1>2 DEF Call, Alloc, CallFree, CallStaleFree
<1>3. ASSUME NEW t \in Threads, Inside(t) PROVE Counters'
  <2>1. CASE RecordAlloc(t) \/ RecordFree(t)
    BY <2>1 DEF RecordAlloc, RecordFree
  <2>2. CASE ReadGuard(t) \/ ClaimGuard(t) \/ \E on \in BOOLEAN : DecideGuard(t, on)
    BY <2>2 DEF ReadGuard, ClaimGuard, DecideGuard
  <2>3. CASE AddSlot(t) \/ CheckSlot(t) \/ RemoveSlot(t)
    BY <2>3 DEF AddSlot, CheckSlot, Pass, RemoveSlot
  <2>4. CASE Return(t) \/ Catch(t) \/ HeapFree(t)
    BY <2>4 DEF Return, Catch, HeapFree
  <2> QED BY <1>3, <2>1, <2>2, <2>3, <2>4 DEF Inside
<1> QED BY <1>1, <1>2, <1>3 DEF Next

(* Every variable keeps its type, a counter of the filter the range it must   *)
(* not leave by wrapping: nothing is added to it at saturation, nothing taken *)
(* from it at zero (bloom_add, bloom_remove).                                 *)
THEOREM TypeCorrect == Spec => []TypeOK
<1>1. Init => Shape /\ Counters
  <2>1. Init => Counters
    BY DEF Init, Counters
  <2> QED BY <2>1, InitShape
<1>2. Shape /\ Counters /\ [Next]_vars => Shape' /\ Counters'
  <2>1. ASSUME Shape, Counters, Next PROVE Shape' /\ Counters'
    BY <2>1, StepKeepsShape, StepKeepsCounters
  <2>2. ASSUME Shape, Counters, UNCHANGED vars PROVE Shape' /\ Counters'
    BY <2>2 DEF vars, Shape, Counters
  <2> QED BY <2>1, <2>2
<1>3. Shape /\ Counters => TypeOK
  BY DEF Shape, Counters, TypeOK
<1> QED BY <1>1, <1>2, <1>3, PTL DEF Spec

-----------------------------------------------------------------------------
(* The accounts of a program that disposes of each block once.                *)

\* A counter that is not stuck is no more than the number of pointers that
\* count, and nothing is counted before the guard is on.
CountCovered ==
    /\ guard = "on" =>
          \A s \in Slots : count[s] = Sat \/ count[s] <= Cardinality(Counted(s))
    /\ guard # "on" => \A s \in Slots : count[s] = 0

\* Every live block is owned or with a thread that still has to return or free it.
Held == \A p \in live : p \in owned \/ \E t \in Threads : Busy(t) /\ ptr[t] = p

\* Blocks handed out and not yet recorded, and blocks given back and not yet.
Recording == {t \in Threads : pc[t] = "record"}
Unrecording == {t \in Threads : pc[t] = "unrecord"}

\* The report runs behind by the calls between the system heap and the counters.
Reported ==
    /\ IsFiniteSet(Recording) /\ IsFiniteSet(Unrecording)
    /\ stats.live + Cardinality(Recording) = Cardinality(live) + Cardinality(Unrecording)
    /\ stats.allocs = stats.frees + stats.live
    /\ stats.live <= stats.peak

AInv == IInv /\ Counters /\ CountCovered /\ Held /\ Reported

LEMMA CountedFiniteNext ==
    ASSUME NEW s PROVE IsFiniteSet(Counted(s)') /\ Cardinality(Counted(s)') \in Nat
<1>1. IsFiniteSet(Counted(s)')
  BY GuardAssumption, FS_Subset DEF Counted
<1> QED BY <1>1, FS_CardinalityType

\* A step of t takes no pointer out of a count but by what it does to the
\* program's and t's.
LEMMA NewlyLost ==
    ASSUME IInv, NEW t \in Threads, Call(t) \/ Inside(t), NEW s \in Slots,
           NEW p \in Ptrs, p \in Counted(s), p \notin Counted(s)'
    PROVE  \/ p \in owned /\ p \notin owned'
           \/ ptr[t] = p /\ Has(t, s)
<1>1. \A u \in Threads \ {t} : ptr'[u] = ptr[u] /\ (Has(u, s)' <=> Has(u, s))
  BY OthersStay DEF IInv, Has
<1> QED BY <1>1 DEF Counted, Counts

\* Where no counter moves and nothing is lost from a count, they still agree.
LEMMA StillCovered ==
    ASSUME IInv, CountCovered, guard' = guard, count' = count,
           \A s \in Slots : Counted(s) \subseteq Counted(s)'
    PROVE  CountCovered'
<1>1. ASSUME guard = "on", NEW s \in Slots
      PROVE  count[s] = Sat \/ count[s] <= Cardinality(Counted(s)')
  <2>1. Cardinality(Counted(s)) <= Cardinality(Counted(s)')
    BY CountedFiniteNext, FS_Subset
  <2>2. count[s] \in Nat /\ (count[s] = Sat \/ count[s] <= Cardinality(Counted(s)))
    BY <1>1, Bounds DEF IInv, Shape, CountCovered
  <2> QED BY <2>1, <2>2, CountedFinite, CountedFiniteNext
<1> QED BY <1>1 DEF CountCovered

LEMMA AddCovered ==
    ASSUME IInv, CountCovered, NEW t \in Threads, AddSlot(t) PROVE CountCovered'
<1>1. PICK p \in Ptrs : p = ptr[t]
  BY DEF AddSlot, IInv, Shape, Idle
<1>2. PICK q \in Slots : q = Slot(t)
  BY <1>1, DoneStep DEF Slot, IInv, Shape
<1>3. /\ idx[t] \in 1 .. K /\ pc[t] = "add" /\ guard = "on"
      /\ q = Hash[p][idx[t]] /\ q \in SlotsOf(p) /\ q \notin Done(p, idx[t])
  BY <1>1, <1>2, DoneStep DEF AddSlot, IInv, Shape, Slot, Before
<1>4. ptr' = ptr /\ owned' = owned /\ guard' = guard
  BY DEF AddSlot, callVars
<1>5. \A s \in SlotsOf(p) : Has(t, s) \/ s = q => Has(t, s)'
  <2>1. CASE idx[t] < K
    <3>1. pc'[t] = "add" /\ idx'[t] = idx[t] + 1
      BY <1>3, <2>1 DEF AddSlot, NextSlot, IInv, Shape
    <3> QED BY <1>1, <1>3, <1>4, <3>1, DoneStep DEF Has
  <2>2. CASE idx[t] = K
    <3>1. pc'[t] = "return"
      BY <1>3, <2>2, Bounds DEF AddSlot, NextSlot, LoopTo, Goto, IInv, Shape
    <3> QED BY <3>1 DEF Has
  <2> QED BY <1>3, <2>1, <2>2, Bounds
<1>6. \A s \in Slots : Counted(s) \subseteq Counted(s)'
  <2>1. ASSUME NEW s \in Slots, NEW x \in Counted(s), x \notin Counted(s)' PROVE FALSE
    <3>1. x \in Ptrs /\ s \in SlotsOf(x)
      BY <2>1 DEF Counted, Counts
    <3>2. ptr[t] = x /\ Has(t, s)
      BY <1>4, <2>1, <3>1, NewlyLost DEF Inside
    <3> QED BY <1>1, <1>4, <1>5, <2>1, <3>1, <3>2 DEF Counted, Counts
  <2> QED BY <2>1
<1>7. p \in Counted(q)'
  BY <1>1, <1>3, <1>4, <1>5 DEF Counted, Counts
<1>8. p \notin Counted(q)
  <2>1. p \notin owned
    BY <1>1, <1>3 DEF IInv, OneHolder, Busy, Idle
  <2>2. ASSUME NEW u \in Threads, u # t, ptr[u] = p, Has(u, q) PROVE FALSE
    <3>1. Busy(u) /\ Busy(t)
      BY <1>3, <2>2 DEF Has, Busy, Idle
    <3> QED BY <1>1, <2>2, <3>1 DEF IInv, OneHolder
  <2>3. ~ Has(t, q)
    BY <1>1, <1>3 DEF Has
  <2> QED BY <2>1, <2>2, <2>3 DEF Counted, Counts
<1> SUFFICES ASSUME NEW s \in Slots
             PROVE  count'[s] = Sat \/ count'[s] <= Cardinality(Counted(s)')
  BY <1>3, <1>4 DEF CountCovered
<1>9. /\ count[s] \in Nat /\ (count[s] = Sat \/ count[s] <= Cardinality(Counted(s)))
      /\ Cardinality(Counted(s)) \in Nat /\ Cardinality(Counted(s)') \in Nat
  BY <1>3, Bounds, CountedFinite, CountedFiniteNext DEF IInv, Shape, CountCovered
<1>10. CASE s # q
  <2>1. count'[s] = count[s]
    BY <1>2, <1>10 DEF AddSlot, IInv, Shape
  <2>2. Cardinality(Counted(s)) <= Cardinality(Counted(s)')
    BY <1>6, CountedFiniteNext, FS_Subset
  <2> QED BY <1>9, <2>1, <2>2
<1>11. CASE s = q
  <2>1. /\ IsFiniteSet(Counted(q)') /\ IsFiniteSet(Counted(q)' \ {p})
        /\ Cardinality(Counted(q)' \ {p}) = Cardinality(Counted(q)') - 1
    BY <1>7, CountedFiniteNext, FS_RemoveElement
  <2>2. Cardinality(Counted(q)) <= Cardinality(Counted(q)' \ {p})
    <3>1. Counted(q) \subseteq Counted(q)' \ {p}
      BY <1>6, <1>8
    <3> QED BY <2>1, <3>1, FS_Subset
  <2>3. count'[q] = IF count[q] = Sat THEN Sat ELSE count[q] + 1
    BY <1>2 DEF AddSlot, IInv, Shape
  <2> QED BY <1>9, <1>11, <2>1, <2>2, <2>3
<1> QED BY <1>10, <1>11

LEMMA RemoveCovered ==
    ASSUME IInv, CountCovered, NEW t \in Threads, RemoveSlot(t) PROVE CountCovered'
<1>1. PICK p \in Ptrs : p = ptr[t]
  BY DEF RemoveSlot, IInv, Shape, Idle
<1>2. PICK q \in Slots : q = Slot(t)
  BY <1>1, DoneStep DEF Slot, IInv, Shape
<1>3. /\ idx[t] \in 1 .. K /\ pc[t] = "remove" /\ guard = "on"
      /\ q = Hash[p][idx[t]] /\ q \in SlotsOf(p) /\ q \notin Done(p, idx[t])
  BY <1>1, <1>2, DoneStep DEF RemoveSlot, IInv, Shape, Slot, Before
<1>4. ptr' = ptr /\ owned' = owned /\ guard' = guard
  BY DEF RemoveSlot, callVars
<1>5. \A s \in SlotsOf(p) : Has(t, s) /\ s # q => Has(t, s)'
  <2>1. CASE idx[t] < K
    <3>1. pc'[t] = "remove" /\ idx'[t] = idx[t] + 1
      BY <1>3, <2>1 DEF RemoveSlot, NextSlot, IInv, Shape
    <3> QED BY <1>1, <1>3, <1>4, <3>1, DoneStep DEF Has
  <2>2. CASE idx[t] = K
    <3>1. \A s \in SlotsOf(p) : s # q => s \in Done(p, idx[t])
      BY <1>3, <2>2, DoneAll
    <3> QED BY <1>1, <1>3, <3>1 DEF Has
  <2> QED BY <1>3, <2>1, <2>2, Bounds
<1>6. \A s \in Slots : \A x \in Counted(s) : x \in Counted(s)' \/ (s = q /\ x = p)
  <2>1. ASSUME NEW s \in Slots, NEW x \in Counted(s), x \notin Counted(s)', s # q \/ x # p PROVE FALSE
    <3>1. x \in Ptrs /\ s \in SlotsOf(x)
      BY <2>1 DEF Counted, Counts
    <3>2. ptr[t] = x /\ Has(t, s)
      BY <1>4, <2>1, <3>1, NewlyLost DEF Inside
    <3> QED BY <1>1, <1>4, <1>5, <2>1, <3>1, <3>2 DEF Counted, Counts
  <2> QED BY <2>1
<1> SUFFICES ASSUME NEW s \in Slots
             PROVE  count'[s] = Sat \/ count'[s] <= Cardinality(Counted(s)')
  BY <1>3, <1>4 DEF CountCovered
<1>7. /\ count[s] \in Nat /\ (count[s] = Sat \/ count[s] <= Cardinality(Counted(s)))
      /\ Cardinality(Counted(s)) \in Nat /\ Cardinality(Counted(s)') \in Nat
  BY <1>3, Bounds, CountedFinite, CountedFiniteNext DEF IInv, Shape, CountCovered
<1>8. CASE s # q
  <2>1. count'[s] = count[s]
    BY <1>2, <1>8 DEF RemoveSlot, IInv, Shape
  <2>2. Counted(s) \subseteq Counted(s)'
    BY <1>6, <1>8
  <2>3. Cardinality(Counted(s)) <= Cardinality(Counted(s)')
    BY <2>2, CountedFiniteNext, FS_Subset
  <2> QED BY <1>7, <2>1, <2>3
<1>9. CASE s = q
  <2>1. /\ IsFiniteSet(Counted(q)' \cup {p})
        /\ Cardinality(Counted(q)' \cup {p}) \in {Cardinality(Counted(q)'), Cardinality(Counted(q)') + 1}
    BY CountedFiniteNext, FS_AddElement
  <2>2. Counted(q) \subseteq Counted(q)' \cup {p}
    BY <1>6
  <2>3. Cardinality(Counted(q)) <= Cardinality(Counted(q)' \cup {p})
    BY <2>1, <2>2, FS_Subset
  <2>4. count'[q] = IF count[q] \in {0, Sat} THEN count[q] ELSE count[q] - 1
    BY <1>2 DEF RemoveSlot, IInv, Shape
  <2> QED BY <1>7, <1>9, <2>1, <2>3, <2>4
<1> QED BY <1>8, <1>9

LEMMA StepKeepsCovered ==
    ASSUME IInv, CountCovered, Next, stale' = 0 PROVE CountCovered'
<1> USE DEF Idle
<1>1. ASSUME NEW forced \in BOOLEAN, Enter(forced) PROVE CountCovered'
  <2>1. guard = "undecided" /\ count' = count /\ \A s \in Slots : count[s] = 0
    BY <1>1 DEF Enter, IInv, Before, CountCovered
  <2>2. \A s \in Slots : Cardinality(Counted(s)') \in Nat
    BY CountedFiniteNext
  <2> QED BY <2>1, <2>2 DEF CountCovered
<1>2. ASSUME NEW t \in Threads, Call(t) \/ Inside(t) PROVE CountCovered'
  <2> USE DEF IInv, Shape, Goto, LoopTo, Begin, Leave, callVars
  \* It is enough that what the program or t had counted stays so.
  <2>1. ASSUME guard' = guard, count' = count,
               \A p \in Ptrs : p \in owned =>
                  p \in owned' \/ (ptr'[t] = p /\ \A s \in Slots : s \in SlotsOf(p) => Has(t, s)'),
               \A s \in Slots : s \in SlotsOf(ptr[t]) /\ Has(t, s)
                                   => (ptr'[t] = ptr[t] /\ Has(t, s)') \/ ptr[t] \in owned'
        PROVE  CountCovered'
    <3> HIDE DEF IInv, Shape, Goto, LoopTo, Begin, Leave, callVars
    <3>1. ASSUME NEW s \in Slots, NEW x \in Counted(s), x \notin Counted(s)' PROVE FALSE
      <4>1. x \in Ptrs /\ s \in SlotsOf(x)
        BY <3>1 DEF Counted, Counts
      <4> QED BY <1>2, <2>1, <3>1, <4>1, NewlyLost DEF Counted, Counts
    <3> QED BY <2>1, <3>1, StillCovered
  <2>2. ASSUME NEW p \in Ptrs, Alloc(t, p) PROVE CountCovered'
    BY <2>1, <2>2 DEF Alloc, Has
  <2>3. ASSUME NEW p \in Ptrs, CallFree(t, p) PROVE CountCovered'
    BY <2>1, <2>3 DEF CallFree, Has
  <2>4. CASE RecordAlloc(t)
    BY <2>1, <2>4 DEF RecordAlloc, Has
  <2>5. CASE ReadGuard(t)
    <3>1. CASE guard = "off"
      BY <2>5, <3>1 DEF ReadGuard, CountCovered
    <3>2. CASE guard = "on"
      BY <2>1, <2>5, <3>2 DEF ReadGuard, Answer, CallFits, Has
    <3> QED BY <2>5, <3>1, <3>2 DEF ReadGuard
  <2>6. CASE ClaimGuard(t)
    BY <2>6 DEF ClaimGuard, CountCovered
  <2>7. ASSUME NEW on \in BOOLEAN, DecideGuard(t, on) PROVE CountCovered'
    <3>1. count' = count /\ \A s \in Slots : count[s] = 0
      BY <2>7 DEF DecideGuard, Before, CountCovered
    <3>2. \A s \in Slots : Cardinality(Counted(s)') \in Nat
      BY CountedFiniteNext
    <3> QED BY <3>1, <3>2 DEF CountCovered
  <2>8. CASE Return(t)
    BY <2>1, <2>8 DEF Return, Has
  <2>9. CASE CheckSlot(t)
    <3>1. Done(ptr[t], 1) = {}
      BY <2>9, DoneNone DEF CheckSlot
    <3> QED BY <2>1, <2>9, <3>1, CheckPasses DEF CheckSlot, NextSlot, CallFits, Has
  <2>10. CASE HeapFree(t) \/ RecordFree(t)
    BY <2>1, <2>10 DEF HeapFree, RecordFree, Has
  <2> HIDE DEF IInv, Shape, Goto, LoopTo, Begin, Leave, callVars
  <2> QED BY <1>2, OwnStep, AddCovered, RemoveCovered,
             <2>2, <2>3, <2>4, <2>5, <2>6, <2>7, <2>8, <2>9, <2>10
<1> QED BY <1>1, <1>2 DEF Next

LEMMA StepKeepsHeld ==
    ASSUME IInv, Held, Next, stale' = 0 PROVE Held'
<1> USE DEF Busy, Idle
<1>1. ASSUME NEW forced \in BOOLEAN, Enter(forced) PROVE Held'
  BY <1>1 DEF Enter, Held
<1>2. ASSUME NEW t \in Threads, Call(t) \/ Inside(t) PROVE Held'
  <2>0. \A u \in Threads \ {t} : (Busy(u) => Busy(u)') /\ ptr'[u] = ptr[u]
    BY <1>2, OthersStay DEF IInv
  <2> USE DEF Goto, Begin, Leave, IInv, Shape
  <2>1. ASSUME NEW p \in Ptrs, Alloc(t, p) PROVE Held'
    <3>1. /\ live' = live \cup {p} /\ owned' = owned /\ ~Busy(t) /\ Busy(t)' /\ ptr'[t] = p
      BY <2>1 DEF Alloc
    <3> QED BY <2>0, <3>1 DEF Held
  <2>2. ASSUME NEW p \in Ptrs, CallFree(t, p) PROVE Held'
    <3>1. live' = live /\ owned' = owned \ {p} /\ ~Busy(t) /\ Busy(t)' /\ ptr'[t] = p
      BY <2>2 DEF CallFree
    <3> QED BY <2>0, <3>1 DEF Held
  <2>3. ASSUME live' = live, owned' = owned, ptr' = ptr, Busy(t)' PROVE Held'
    BY <2>0, <2>3 DEF Held
  <2>4. CASE Return(t)
    <3>1. live' = live /\ owned' = owned \cup {ptr[t]}
      BY <2>4 DEF Return
    <3> QED BY <2>0, <3>1 DEF Held
  <2>5. CASE HeapFree(t)
    <3>1. live' = live \ {ptr[t]} /\ owned' = owned
      BY <2>5 DEF HeapFree
    <3> QED BY <2>0, <3>1 DEF Held
  <2>6. CASE RecordFree(t)
    <3>1. live' = live /\ owned' = owned /\ ~Busy(t)
      BY <2>6 DEF RecordFree
    <3> QED BY <2>0, <3>1 DEF Held
  <2>7. CASE RecordAlloc(t) \/ ClaimGuard(t)
    BY <2>7, <2>3 DEF RecordAlloc, ClaimGuard
  <2>8. CASE ReadGuard(t) \/ \E on \in BOOLEAN : DecideGuard(t, on)
    BY <2>8, <2>3 DEF ReadGuard, DecideGuard, Answer, LoopTo, CallFits, callVars
  <2>9. CASE AddSlot(t) \/ CheckSlot(t) \/ RemoveSlot(t)
    BY <2>9, <2>3 DEF AddSlot, CheckSlot, RemoveSlot, NextSlot, LoopTo, callVars
  <2> HIDE DEF Busy, Idle, Goto, Begin, Leave, IInv, Shape
  <2> QED BY <1>2, OwnStep, <2>1, <2>2, <2>4, <2>5, <2>6, <2>7, <2>8, <2>9
<1> QED BY <1>1, <1>2 DEF Next

LEMMA StepKeepsReported ==
    ASSUME IInv, Counters, Reported, Next, stale' = 0 PROVE Reported'
<1> USE DEF Idle
<1>0. /\ IsFiniteSet(live) /\ Cardinality(live) \in Nat
      /\ IsFiniteSet(Recording) /\ Cardinality(Recording) \in Nat
      /\ IsFiniteSet(Unrecording) /\ Cardinality(Unrecording) \in Nat
      /\ stats.live \in Int /\ stats.allocs \in Nat /\ stats.frees \in Nat /\ stats.peak \in Int
  BY GuardAssumption, FS_Subset, FS_CardinalityType DEF IInv, Shape, Counters, Reported
<1>1. ASSUME Recording' = Recording, Unrecording' = Unrecording, live' = live, stats' = stats
      PROVE  Reported'
  BY <1>1 DEF Reported
<1>2. ASSUME NEW forced \in BOOLEAN, Enter(forced) PROVE Reported'
  BY <1>1, <1>2 DEF Enter, Recording, Unrecording
<1>3. ASSUME NEW t \in Threads, Call(t) \/ Inside(t) PROVE Reported'
  <2>0. \A u \in Threads \ {t} : pc'[u] = pc[u]
    BY <1>3, OthersStay DEF IInv
  <2> USE DEF Goto, Begin, Leave, IInv, Shape
  <2>1. ASSUME live' = live, stats' = stats, pc[t] \notin {"record", "unrecord"},
               pc'[t] \notin {"record", "unrecord"}
        PROVE  Reported'
    <3>1. Recording' = Recording /\ Unrecording' = Unrecording
      BY <2>0, <2>1 DEF Recording, Unrecording
    <3> QED BY <1>1, <2>1, <3>1
  <2>2. ASSUME NEW p \in Ptrs, Alloc(t, p) PROVE Reported'
    <3>1. /\ live' = live \cup {p} /\ p \notin live /\ stats' = stats
          /\ pc[t] = "idle" /\ pc'[t] = "record"
      BY <2>2 DEF Alloc
    <3>2. Recording' = Recording \cup {t} /\ t \notin Recording /\ Unrecording' = Unrecording
      BY <2>0, <3>1 DEF Recording, Unrecording
    <3>3. /\ IsFiniteSet(Recording') /\ Cardinality(Recording') = Cardinality(Recording) + 1
          /\ Cardinality(live') = Cardinality(live) + 1
      BY <1>0, <3>1, <3>2, FS_AddElement
    <3> QED BY <1>0, <3>1, <3>2, <3>3 DEF Reported
  <2>3. CASE RecordAlloc(t)
    <3>1. /\ live' = live /\ pc[t] = "record" /\ pc'[t] = "guard"
          /\ stats'.live = stats.live + 1 /\ stats'.allocs = stats.allocs + 1
          /\ stats'.frees = stats.frees /\ stats'.peak \in Int
          /\ stats'.peak >= stats.live + 1
      BY <1>0, <2>3 DEF RecordAlloc
    <3>2. Recording' = Recording \ {t} /\ t \in Recording /\ Unrecording' = Unrecording
      BY <2>0, <3>1 DEF Recording, Unrecording
    <3>3. IsFiniteSet(Recording') /\ Cardinality(Recording') = Cardinality(Recording) - 1
      BY <1>0, <3>2, FS_RemoveElement
    <3> QED BY <1>0, <3>1, <3>2, <3>3 DEF Reported
  <2>4. CASE HeapFree(t)
    <3>1. /\ live' = live \ {ptr[t]} /\ ptr[t] \in live /\ stats' = stats
          /\ pc[t] = "free" /\ pc'[t] = "unrecord"
      BY <2>4 DEF HeapFree, OneHolder, Busy
    <3>2. Recording' = Recording /\ t \notin Unrecording /\ Unrecording' = Unrecording \cup {t}
      BY <2>0, <3>1 DEF Recording, Unrecording
    <3>3. IsFiniteSet(Unrecording') /\ Cardinality(Unrecording') = Cardinality(Unrecording) + 1
      BY <1>0, <3>2, FS_AddElement
    <3>4. Cardinality(live') = Cardinality(live) - 1
      BY <1>0, <3>1, FS_RemoveElement
    <3> QED BY <1>0, <3>1, <3>2, <3>3, <3>4 DEF Reported
  <2>5. CASE RecordFree(t)
    <3>1. /\ live' = live /\ pc[t] = "unrecord" /\ pc'[t] = "idle"
          /\ stats'.live = stats.live - 1 /\ stats'.allocs = stats.allocs
          /\ stats'.frees = stats.frees + 1 /\ stats'.peak = stats.peak
      BY <1>0, <2>5 DEF RecordFree
    <3>2. Recording' = Recording /\ t \in Unrecording /\ Unrecording' = Unrecording \ {t}
      BY <2>0, <3>1 DEF Recording, Unrecording
    <3>3. IsFiniteSet(Unrecording') /\ Cardinality(Unrecording') = Cardinality(Unrecording) - 1
      BY <1>0, <3>2, FS_RemoveElement
    <3> QED BY <1>0, <3>1, <3>2, <3>3 DEF Reported
  <2>6. ASSUME NEW p \in Ptrs, CallFree(t, p) PROVE Reported'
    BY <2>1, <2>6 DEF CallFree
  <2>7. CASE ClaimGuard(t) \/ Return(t)
    BY <2>1, <2>7 DEF ClaimGuard, Return
  <2>8. CASE ReadGuard(t) \/ \E on \in BOOLEAN : DecideGuard(t, on)
    BY <2>1, <2>8 DEF ReadGuard, DecideGuard, Answer, LoopTo, CallFits
  <2>9. CASE AddSlot(t) \/ CheckSlot(t) \/ RemoveSlot(t)
    BY <2>1, <2>9 DEF AddSlot, CheckSlot, RemoveSlot, NextSlot, LoopTo
  <2> HIDE DEF Goto, Begin, Leave, IInv, Shape
  <2> QED BY <1>3, OwnStep, <2>2, <2>3, <2>4, <2>5, <2>6, <2>7, <2>8, <2>9
<1> QED BY <1>2, <1>3 DEF Next

\* What holds until the first DISPOSE of a pointer that is not owned.
Accounted == Shape /\ (stale = 0 => AInv)

LEMMA AccountsWhenQuiet ==
    ASSUME AInv PROVE Quiet => CountsExact /\ LeakReportExact
<1> SUFFICES ASSUME Quiet PROVE CountsExact /\ LeakReportExact
  OBVIOUS
<1>1. live = owned
  BY DEF Quiet, AInv, Held, IInv, OneHolder, Busy
<1>2. LeakReportExact
  <2>1. Recording = {} /\ Unrecording = {}
    BY DEF Quiet, Recording, Unrecording, Idle
  <2>2. Cardinality(live) \in Nat /\ stats.live \in Int /\ Cardinality({}) = 0
    BY GuardAssumption, FS_Subset, FS_CardinalityType, FS_EmptySet
    DEF AInv, IInv, Shape, Counters
  <2>3. stats.live = Cardinality(live)
    BY <2>1, <2>2 DEF AInv, Reported
  <2> QED BY <1>1, <2>3 DEF AInv, Reported, LeakReportExact
<1>3. CountsExact
  <2> SUFFICES ASSUME guard = "on", NEW s \in Slots
               PROVE  \/ count[s] = Sat
                      \/ /\ count[s] < Sat
                         /\ count[s] = Cardinality({p \in live : s \in SlotsOf(p)})
    BY DEF CountsExact
  <2>1. Counted(s) = {p \in live : s \in SlotsOf(p)}
    BY <1>1 DEF Quiet, Counted, Counts, Has, Idle, AInv, IInv, Shape
  <2>2. count[s] \in 0 .. Sat
    BY DEF AInv, IInv, Shape
  <2>3. count[s] = Sat \/ (Cardinality(Counted(s)) <= count[s] /\ count[s] <= Cardinality(Counted(s)))
    BY DEF AInv, IInv, CountCovers, CountCovered
  <2> QED BY <2>1, <2>2, <2>3, CountedFinite, Bounds
<1> QED BY <1>2, <1>3

(* When no call is in progress and nothing was disposed of twice, the filter  *)
(* agrees with the live blocks and the leak report with the program, for any  *)
(* number of threads, blocks and slots (bloom_add and bloom_remove, which     *)
(* change one counter after another without a lock; record_alloc and          *)
(* record_free, which run apart from the system heap).                        *)
THEOREM AccountsAgree == Spec => []AccountsExact
<1>1. Init => Accounted
  <2>1. ASSUME Init PROVE AInv
    <3>0. IInv
      BY <2>1, InitIInv
    <3>1. Counters
      BY <2>1 DEF Init, Counters
    <3>2. CountCovered /\ Held
      BY <2>1 DEF Init, CountCovered, Held
    <3>3. Recording = {} /\ Unrecording = {} /\ live = {}
      BY <2>1 DEF Init, Recording, Unrecording, Idle
    <3>4. Reported
      BY <2>1, <3>3, FS_EmptySet DEF Init, Reported
    <3> QED BY <3>0, <3>1, <3>2, <3>4 DEF AInv
  <2> QED BY <2>1 DEF Accounted, AInv, IInv
<1>2. Accounted /\ [Next]_vars => Accounted'
  <2>1. ASSUME Accounted, Next PROVE Accounted'
    <3>1. Shape'
      BY <2>1, StepKeepsShape DEF Accounted
    <3>2. ASSUME stale' = 0 PROVE AInv'
      <4>1. AInv
        BY <2>1, <3>2, StaleGrows DEF Accounted
      <4>2. IInv'
        BY <2>1, <3>1, <3>2, <4>1, StepKeepsFits, StepKeepsHolder, StepKeepsBefore, StepKeepsCovers
        DEF AInv, IInv
      <4>3. Counters' /\ CountCovered' /\ Held' /\ Reported'
        BY <2>1, <3>2, <4>1, StepKeepsCounters, StepKeepsCovered, StepKeepsHeld, StepKeepsReported
        DEF AInv
      <4> QED BY <4>2, <4>3 DEF AInv
    <3> QED BY <3>1, <3>2 DEF Accounted
  <2>2. ASSUME Accounted, UNCHANGED vars PROVE Accounted'
    <3>1. Shape' /\ stale' = stale
      BY <2>2 DEF vars, Accounted, Shape
    <3>2. ASSUME AInv PROVE AInv'
      <4>1. IInv'
        BY <2>2, <3>2, StutterKeepsIInv DEF AInv
      <4>2. Counters' /\ CountCovered' /\ Held' /\ Reported'
        BY <2>2, <3>2
        DEF vars, AInv, Counters, CountCovered, Counted, Counts, Has, Held, Busy, Reported,
            Recording, Unrecording
      <4> QED BY <4>1, <4>2 DEF AInv
    <3> QED BY <2>2, <3>1, <3>2 DEF Accounted
  <2> QED BY <2>1, <2>2
<1>3. Accounted => AccountsExact
  BY AccountsWhenQuiet DEF Accounted, AccountsExact
<1> QED BY <1>1, <1>2, <1>3, PTL DEF Spec

-----------------------------------------------------------------------------
(* A program with one thread, which may dispose of what it does not own.      *)

Alone == \A t, u \in Threads : t = u

\* The filter does not count t's pointer in slot s, though the block is live:
\* not yet, or no longer.
Uncounted(t, s) ==
    \/ pc[t] \in {"record", "free"}
    \/ pc[t] \in {"guard", "decide"} /\ op[t] = "alloc"
    \/ pc[t] = "add" /\ s \notin Done(ptr[t], idx[t])
    \/ pc[t] = "remove" /\ s \in Done(ptr[t], idx[t])

Covering(s) ==
    {p \in live : s \in SlotsOf(p) /\ \A t \in Threads : ptr[t] = p => ~Uncounted(t, s)}

\* A counter that is not stuck is no more than the live pointers that explain
\* it: a missed free takes counts away and never adds one.
Explained ==
    /\ guard = "on" =>
          \A s \in Slots : count[s] = Sat \/ count[s] <= Cardinality(Covering(s))
    /\ guard # "on" => \A s \in Slots : count[s] = 0

\* Slot s is shared with a live pointer, or stuck.
Aliased(s) == count[s] = Sat \/ \E p \in live : s \in SlotsOf(p)

\* The slots that a free has found not to be zero.
Checked ==
    \A t \in Threads :
        /\ pc[t] = "check" => \A s \in Done(ptr[t], idx[t]) : Aliased(s)
        /\ pc[t] \in {"remove", "free"} /\ guard = "on" => \A s \in SlotsOf(ptr[t]) : Aliased(s)

AloneFits ==
    /\ ~entered => guard = "undecided" /\ owned = {}
    /\ \A t \in Threads :
          /\ ~entered => pc[t] = Idle
          /\ pc[t] \in {"record", "add"} => op[t] = "alloc"
          /\ pc[t] \in {"record", "guard", "decide", "add"} /\ op[t] = "alloc" => ptr[t] \in live
          /\ pc[t] \in {"add", "check", "remove"} => guard = "on"
          /\ pc[t] = "decide" => guard = "deciding"

MInv == Shape /\ AloneFits /\ Explained /\ Checked

LEMMA CoveringFinite ==
    ASSUME Shape, NEW s PROVE IsFiniteSet(Covering(s)) /\ Cardinality(Covering(s)) \in Nat
<1>1. IsFiniteSet(Covering(s))
  BY GuardAssumption, FS_Subset DEF Covering, Shape
<1> QED BY <1>1, FS_CardinalityType

LEMMA CoveringFiniteNext ==
    ASSUME Shape', NEW s PROVE IsFiniteSet(Covering(s)') /\ Cardinality(Covering(s)') \in Nat
<1>1. IsFiniteSet(Covering(s)')
  BY GuardAssumption, FS_Subset DEF Covering, Shape
<1> QED BY <1>1, FS_CardinalityType

LEMMA StillExplained ==
    ASSUME MInv, Shape', guard' = guard, count' = count,
           \A s \in Slots : Covering(s) \subseteq Covering(s)'
    PROVE  Explained'
<1>1. ASSUME guard = "on", NEW s \in Slots
      PROVE  count[s] = Sat \/ count[s] <= Cardinality(Covering(s)')
  <2>1. Cardinality(Covering(s)) <= Cardinality(Covering(s)')
    BY CoveringFiniteNext, FS_Subset
  <2>2. count[s] \in Nat /\ (count[s] = Sat \/ count[s] <= Cardinality(Covering(s)))
    BY <1>1, Bounds DEF MInv, Shape, Explained
  <2> QED BY <2>1, <2>2, CoveringFinite, CoveringFiniteNext DEF MInv
<1> QED BY <1>1 DEF MInv, Explained

LEMMA StepKeepsAloneFits ==
    ASSUME Alone, MInv, Next PROVE AloneFits'
<1> USE DEF Idle
<1>1. ASSUME NEW forced \in BOOLEAN, Enter(forced) PROVE AloneFits'
  BY <1>1 DEF Enter, MInv, AloneFits
<1>2. ASSUME NEW t \in Threads, Call(t) \/ Inside(t) PROVE AloneFits'
  <2>0. \A u \in Threads : u = t
    BY DEF Alone
  <2> USE DEF MInv, Shape, AloneFits, Goto, LoopTo, Begin, Leave, callVars
  <2>1. ASSUME NEW p \in Ptrs, Alloc(t, p) \/ CallFree(t, p) PROVE AloneFits'
    BY <2>0, <2>1 DEF Alloc, CallFree
  <2>2. ASSUME NEW p \in Ptrs, CallStaleFree(t, p) PROVE AloneFits'
    BY <2>0, <2>2 DEF CallStaleFree
  <2>3. CASE RecordAlloc(t) \/ ClaimGuard(t)
    BY <2>0, <2>3 DEF RecordAlloc, ClaimGuard
  <2>4. CASE ReadGuard(t)
    BY <2>0, <2>4 DEF ReadGuard, Answer
  <2>5. ASSUME NEW on \in BOOLEAN, DecideGuard(t, on) PROVE AloneFits'
    BY <2>0, <2>5 DEF DecideGuard, Answer
  <2>6. CASE AddSlot(t)
    BY <2>0, <2>6 DEF AddSlot, NextSlot
  <2>7. CASE CheckSlot(t)
    BY <2>0, <2>7 DEF CheckSlot, NextSlot
  <2>8. CASE RemoveSlot(t)
    BY <2>0, <2>8 DEF RemoveSlot, NextSlot
  <2>9. CASE Return(t) \/ Catch(t) \/ HeapFree(t) \/ RecordFree(t)
    BY <2>0, <2>9 DEF Return, Catch, HeapFree, RecordFree
  <2> HIDE DEF MInv, Shape, AloneFits, Goto, LoopTo, Begin, Leave, callVars
  <2> QED BY <1>2, <2>1, <2>2, <2>3, <2>4, <2>5, <2>6, <2>7, <2>8, <2>9 DEF Call, Inside
<1> QED BY <1>1, <1>2 DEF Next

LEMMA AddExplained ==
    ASSUME Alone, MInv, Shape', NEW t \in Threads, AddSlot(t) PROVE Explained'
<1>1. PICK p \in Ptrs : p = ptr[t]
  BY DEF AddSlot, MInv, Shape, Idle
<1>2. PICK q \in Slots : q = Slot(t)
  BY <1>1, DoneStep DEF Slot, MInv, Shape
<1>3. /\ idx[t] \in 1 .. K /\ pc[t] = "add" /\ guard = "on" /\ p \in live
      /\ q = Hash[p][idx[t]] /\ q \in SlotsOf(p) /\ q \notin Done(p, idx[t])
  BY <1>1, <1>2, DoneStep DEF AddSlot, MInv, Shape, Slot, AloneFits
<1>4. ptr' = ptr /\ live' = live /\ guard' = guard
  BY DEF AddSlot, callVars
<1>5. \A s \in SlotsOf(p) : ~Uncounted(t, s) \/ s = q => ~Uncounted(t, s)'
  <2>1. CASE idx[t] < K
    <3>1. pc'[t] = "add" /\ idx'[t] = idx[t] + 1
      BY <1>3, <2>1 DEF AddSlot, NextSlot, MInv, Shape
    <3> QED BY <1>1, <1>3, <1>4, <3>1, DoneStep DEF Uncounted
  <2>2. CASE idx[t] = K
    <3>1. pc'[t] = "return"
      BY <1>3, <2>2, Bounds DEF AddSlot, NextSlot, LoopTo, Goto, MInv, Shape
    <3> QED BY <3>1 DEF Uncounted
  <2> QED BY <1>3, <2>1, <2>2, Bounds
<1>6. \A s \in Slots : Covering(s) \subseteq Covering(s)'
  BY <1>1, <1>4, <1>5 DEF Alone, Covering
<1>7. p \in Covering(q)' /\ p \notin Covering(q)
  <2>1. Uncounted(t, q)
    BY <1>1, <1>3 DEF Uncounted
  <2> QED BY <1>1, <1>3, <1>4, <1>5, <2>1 DEF Alone, Covering
<1> SUFFICES ASSUME NEW s \in Slots
             PROVE  count'[s] = Sat \/ count'[s] <= Cardinality(Covering(s)')
  BY <1>3, <1>4 DEF Explained
<1>8. /\ count[s] \in Nat /\ (count[s] = Sat \/ count[s] <= Cardinality(Covering(s)))
      /\ Cardinality(Covering(s)) \in Nat /\ Cardinality(Covering(s)') \in Nat
  BY <1>3, Bounds, CoveringFinite, CoveringFiniteNext DEF MInv, Shape, Explained
<1>9. CASE s # q
  <2>1. count'[s] = count[s]
    BY <1>2, <1>9 DEF AddSlot, MInv, Shape
  <2>2. Cardinality(Covering(s)) <= Cardinality(Covering(s)')
    BY <1>6, CoveringFiniteNext, FS_Subset
  <2> QED BY <1>8, <2>1, <2>2
<1>10. CASE s = q
  <2>1. /\ IsFiniteSet(Covering(q)') /\ IsFiniteSet(Covering(q)' \ {p})
        /\ Cardinality(Covering(q)' \ {p}) = Cardinality(Covering(q)') - 1
    BY <1>7, CoveringFiniteNext, FS_RemoveElement
  <2>2. Cardinality(Covering(q)) <= Cardinality(Covering(q)' \ {p})
    <3>1. Covering(q) \subseteq Covering(q)' \ {p}
      BY <1>6, <1>7
    <3> QED BY <2>1, <3>1, FS_Subset
  <2>3. count'[q] = IF count[q] = Sat THEN Sat ELSE count[q] + 1
    BY <1>2 DEF AddSlot, MInv, Shape
  <2> QED BY <1>8, <1>10, <2>1, <2>2, <2>3
<1> QED BY <1>9, <1>10

LEMMA RemoveExplained ==
    ASSUME Alone, MInv, Shape', NEW t \in Threads, RemoveSlot(t) PROVE Explained'
<1>1. PICK p \in Ptrs : p = ptr[t]
  BY DEF RemoveSlot, MInv, Shape, Idle
<1>2. PICK q \in Slots : q = Slot(t)
  BY <1>1, DoneStep DEF Slot, MInv, Shape
<1>3. /\ idx[t] \in 1 .. K /\ pc[t] = "remove" /\ guard = "on"
      /\ q = Hash[p][idx[t]] /\ q \in SlotsOf(p)
  BY <1>1, <1>2, DoneStep DEF RemoveSlot, MInv, Shape, Slot, AloneFits
<1>4. ptr' = ptr /\ live' = live /\ guard' = guard
  BY DEF RemoveSlot, callVars
<1>5. \A s \in SlotsOf(p) : ~Uncounted(t, s) /\ s # q => ~Uncounted(t, s)'
  <2>1. CASE idx[t] < K
    <3>1. pc'[t] = "remove" /\ idx'[t] = idx[t] + 1
      BY <1>3, <2>1 DEF RemoveSlot, NextSlot, MInv, Shape
    <3> QED BY <1>1, <1>3, <1>4, <3>1, DoneStep DEF Uncounted
  <2>2. CASE idx[t] = K
    <3>1. \A s \in SlotsOf(p) : s # q => s \in Done(p, idx[t])
      BY <1>3, <2>2, DoneAll
    <3> QED BY <1>1, <1>3, <3>1 DEF Uncounted
  <2> QED BY <1>3, <2>1, <2>2, Bounds
<1>6. \A s \in Slots : \A x \in Covering(s) : x \in Covering(s)' \/ (s = q /\ x = p)
  BY <1>1, <1>4, <1>5 DEF Alone, Covering
<1> SUFFICES ASSUME NEW s \in Slots
             PROVE  count'[s] = Sat \/ count'[s] <= Cardinality(Covering(s)')
  BY <1>3, <1>4 DEF Explained
<1>7. /\ count[s] \in Nat /\ (count[s] = Sat \/ count[s] <= Cardinality(Covering(s)))
      /\ Cardinality(Covering(s)) \in Nat /\ Cardinality(Covering(s)') \in Nat
  BY <1>3, Bounds, CoveringFinite, CoveringFiniteNext DEF MInv, Shape, Explained
<1>8. CASE s # q
  <2>1. count'[s] = count[s]
    BY <1>2, <1>8 DEF RemoveSlot, MInv, Shape
  <2>2. Covering(s) \subseteq Covering(s)'
    BY <1>6, <1>8
  <2>3. Cardinality(Covering(s)) <= Cardinality(Covering(s)')
    BY <2>2, CoveringFiniteNext, FS_Subset
  <2> QED BY <1>7, <2>1, <2>3
<1>9. CASE s = q
  <2>1. /\ IsFiniteSet(Covering(q)' \cup {p})
        /\ Cardinality(Covering(q)' \cup {p}) \in {Cardinality(Covering(q)'), Cardinality(Covering(q)') + 1}
    BY CoveringFiniteNext, FS_AddElement
  <2>2. Covering(q) \subseteq Covering(q)' \cup {p}
    BY <1>6
  <2>3. Cardinality(Covering(q)) <= Cardinality(Covering(q)' \cup {p})
    BY <2>1, <2>2, FS_Subset
  <2>4. count'[q] = IF count[q] \in {0, Sat} THEN count[q] ELSE count[q] - 1
    BY <1>2 DEF RemoveSlot, MInv, Shape
  <2> QED BY <1>7, <1>9, <2>1, <2>3, <2>4
<1> QED BY <1>8, <1>9

LEMMA StepKeepsExplained ==
    ASSUME Alone, MInv, Shape', Next PROVE Explained'
<1> USE DEF Idle
<1>0. \A s \in Slots : Cardinality(Covering(s)') \in Nat
  BY CoveringFiniteNext
<1>1. ASSUME NEW forced \in BOOLEAN, Enter(forced) PROVE Explained'
  <2>1. count' = count /\ (guard # "on" => \A s \in Slots : count[s] = 0)
    BY <1>1 DEF Enter, MInv, Explained
  <2>2. CASE guard # "on"
    BY <1>0, <2>1, <2>2 DEF Explained
  <2>3. CASE guard = "on"
    <3>1. guard' = guard /\ \A s \in Slots : Covering(s) \subseteq Covering(s)'
      BY <1>1, <2>3 DEF Enter, ForceOn, Covering, Uncounted
    <3> QED BY <2>1, <3>1, StillExplained
  <2> QED BY <2>2, <2>3
<1>2. ASSUME NEW t \in Threads, Call(t) \/ Inside(t) PROVE Explained'
  <2> USE DEF MInv, Shape, Goto, LoopTo, Begin, Leave, callVars
  \* It is enough that no pointer goes uncounted without its block going, too.
  <2>1. ASSUME guard' = guard, count' = count,
               \A p \in live : p \notin live' => p = ptr[t] /\ \A s \in Slots : Uncounted(t, s),
               \A s \in Slots : Uncounted(t, s)' =>
                                   (ptr'[t] = ptr[t] /\ Uncounted(t, s)) \/ ptr'[t] \notin live
        PROVE  Explained'
    <3> HIDE DEF MInv, Shape, Goto, LoopTo, Begin, Leave, callVars
    <3>1. \A s \in Slots : Covering(s) \subseteq Covering(s)'
      BY <2>1 DEF Alone, Covering
    <3> QED BY <2>1, <3>1, StillExplained
  <2>2. ASSUME NEW p \in Ptrs, Alloc(t, p) PROVE Explained'
    BY <2>1, <2>2 DEF Alloc, Uncounted
  <2>3. ASSUME NEW p \in Ptrs, CallFree(t, p) \/ CallStaleFree(t, p) PROVE Explained'
    BY <2>1, <2>3 DEF CallFree, CallStaleFree, Uncounted
  <2>4. CASE RecordAlloc(t)
    BY <2>1, <2>4 DEF RecordAlloc, AloneFits, Uncounted
  <2>5. CASE ReadGuard(t)
    <3>1. CASE guard = "off"
      BY <2>5, <3>1 DEF ReadGuard, Explained
    <3>2. CASE guard = "on"
      BY <2>1, <2>5, <3>2 DEF ReadGuard, Answer, Uncounted
    <3> QED BY <2>5, <3>1, <3>2 DEF ReadGuard
  <2>6. CASE ClaimGuard(t)
    BY <2>6 DEF ClaimGuard, Explained
  <2>7. ASSUME NEW on \in BOOLEAN, DecideGuard(t, on) PROVE Explained'
    <3>1. count' = count /\ \A s \in Slots : count[s] = 0
      BY <2>7 DEF DecideGuard, AloneFits, Explained
    <3> QED BY <1>0, <3>1 DEF Explained
  <2>8. CASE Return(t) \/ Catch(t)
    BY <2>1, <2>8 DEF Return, Catch, Uncounted
  <2>9. CASE CheckSlot(t)
    <3>1. Done(ptr[t], 1) = {}
      BY <2>9, DoneNone DEF CheckSlot
    <3> QED BY <2>1, <2>9, <3>1 DEF CheckSlot, NextSlot, Uncounted
  <2>10. CASE HeapFree(t) \/ RecordFree(t)
    BY <2>1, <2>10 DEF HeapFree, RecordFree, Uncounted
  <2> HIDE DEF MInv, Shape, Goto, LoopTo, Begin, Leave, callVars
  <2> QED BY <1>2, AddExplained, RemoveExplained,
             <2>2, <2>3, <2>4, <2>5, <2>6, <2>7, <2>8, <2>9, <2>10 DEF Call, Inside
<1> QED BY <1>1, <1>2 DEF Next

LEMMA StepKeepsChecked ==
    ASSUME Alone, MInv, Next PROVE Checked'
<1> USE DEF Idle
<1>1. ASSUME NEW forced \in BOOLEAN, Enter(forced) PROVE Checked'
  BY <1>1 DEF Enter, MInv, AloneFits, Checked
<1>2. ASSUME NEW t \in Threads, Call(t) \/ Inside(t) PROVE Checked'
  <2>0. \A u \in Threads : u = t
    BY DEF Alone
  <2> USE DEF MInv, Shape, Goto, LoopTo, Begin, Leave, callVars
  <2>1. ASSUME pc'[t] \notin {"check", "remove", "free"} PROVE Checked'
    BY <2>0, <2>1 DEF Checked
  <2>2. ASSUME pc'[t] = "check", ptr' = ptr, idx'[t] = 1, pc[t] # Idle PROVE Checked'
    <3>1. Done(ptr[t], 1) = {}
      BY <2>2, DoneNone
    <3> QED BY <2>0, <2>2, <3>1 DEF Checked
  <2>3. ASSUME NEW p \in Ptrs, Alloc(t, p) \/ CallFree(t, p) \/ CallStaleFree(t, p) PROVE Checked'
    BY <2>1, <2>3 DEF Alloc, CallFree, CallStaleFree
  <2>4. CASE RecordAlloc(t) \/ ClaimGuard(t)
    BY <2>1, <2>4 DEF RecordAlloc, ClaimGuard
  <2>5. CASE ReadGuard(t)
    <3>1. CASE guard = "on"
      BY <2>1, <2>2, <2>5, <3>1 DEF ReadGuard, Answer
    <3>2. CASE guard = "off"
      BY <2>0, <2>5, <3>2 DEF ReadGuard, Answer, Checked
    <3> QED BY <2>5, <3>1, <3>2 DEF ReadGuard
  <2>6. ASSUME NEW on \in BOOLEAN, DecideGuard(t, on) PROVE Checked'
    <3>1. CASE on
      BY <2>1, <2>2, <2>6, <3>1 DEF DecideGuard, Answer
    <3>2. CASE ~on
      BY <2>0, <2>6, <3>2 DEF DecideGuard, Answer, Checked
    <3> QED BY <3>1, <3>2
  <2>7. CASE AddSlot(t)
    BY <2>1, <2>7 DEF AddSlot, NextSlot
  <2>8. CASE Return(t) \/ Catch(t) \/ HeapFree(t) \/ RecordFree(t)
    BY <2>1, <2>8 DEF Return, Catch, HeapFree, RecordFree
  <2>9. CASE CheckSlot(t)
    <3>1. /\ pc[t] = "check" /\ ptr[t] \in Ptrs /\ idx[t] \in 1 .. K /\ guard = "on"
          /\ ptr' = ptr /\ live' = live /\ count' = count
      BY <2>9 DEF CheckSlot, AloneFits
    <3>2. \A s \in Slots : Aliased(s)' <=> Aliased(s)
      BY <3>1 DEF Aliased
    <3>3. CASE count[Slot(t)] = 0
      BY <2>1, <2>9, <3>3 DEF CheckSlot
    <3>4. CASE count[Slot(t)] # 0
      <4> DEFINE q == Slot(t)
      <4>1. q \in Slots /\ Done(ptr[t], idx[t] + 1) = Done(ptr[t], idx[t]) \cup {q}
        BY <3>1, DoneStep DEF Slot
      <4>2. Aliased(q)
        <5>1. q \in Slots /\ count[q] # 0 /\ count[q] \in Nat
          BY <3>4, <4>1, Bounds
        <5>2. count[q] = Sat \/ count[q] <= Cardinality(Covering(q))
          BY <3>1, <5>1 DEF Explained
        <5>3. Covering(q) = {} => Cardinality(Covering(q)) = 0
          BY FS_EmptySet
        <5>4. count[q] = Sat \/ Covering(q) # {}
          BY <5>1, <5>2, <5>3
        <5> QED BY <5>4 DEF Covering, Aliased
      <4>3. \A s \in Done(ptr[t], idx[t]) : Aliased(s)
        BY <3>1 DEF Checked
      <4>4. Done(ptr[t], idx[t]) \subseteq Slots
        BY <3>1, GuardAssumption DEF Done
      <4>5. CASE idx[t] < K
        <5>1. pc'[t] = "check" /\ idx'[t] = idx[t] + 1
          BY <2>9, <3>1, <3>4, <4>5 DEF CheckSlot, NextSlot
        <5> QED BY <2>0, <3>1, <3>2, <4>1, <4>2, <4>3, <4>4, <5>1 DEF Checked
      <4>6. CASE idx[t] = K
        <5>1. pc'[t] = "remove"
          BY <2>9, <3>1, <3>4, <4>6, Bounds DEF CheckSlot, NextSlot
        <5>2. SlotsOf(ptr[t]) = Done(ptr[t], idx[t]) \cup {q}
          BY <3>1, <4>6, DoneAll DEF Slot
        <5> QED BY <2>0, <3>1, <3>2, <4>1, <4>2, <4>3, <4>4, <5>1, <5>2 DEF Checked
      <4> QED BY <3>1, <4>5, <4>6, Bounds
    <3> QED BY <3>3, <3>4
  <2>10. CASE RemoveSlot(t)
    <3>1. /\ pc[t] = "remove" /\ guard = "on" /\ ptr' = ptr /\ live' = live /\ guard' = guard
          /\ pc'[t] \in {"remove", "free"}
      BY <2>10 DEF RemoveSlot, NextSlot, AloneFits
    <3>2. \A s \in Slots : count[s] = Sat => count'[s] = Sat
      BY <2>10 DEF RemoveSlot
    <3>3. SlotsOf(ptr[t]) \subseteq Slots
      BY <3>1, GuardAssumption DEF SlotsOf
    <3>4. \A s \in SlotsOf(ptr[t]) : Aliased(s)
      BY <3>1 DEF Checked
    <3>5. \A s \in SlotsOf(ptr[t]) : Aliased(s)'
      BY <3>1, <3>2, <3>3, <3>4 DEF Aliased
    <3> QED BY <2>0, <3>1, <3>5 DEF Checked
  <2> HIDE DEF MInv, Shape, Goto, LoopTo, Begin, Leave, callVars
  <2> QED BY <1>2, <2>3, <2>4, <2>5, <2>6, <2>7, <2>8, <2>9, <2>10 DEF Call, Inside
<1> QED BY <1>1, <1>2 DEF Next

(* In a program with one thread, an invalid free reaches the system heap only *)
(* by aliasing, after any number of such frees: a missed one takes counts     *)
(* away from live pointers, which makes the filter more severe and never more *)
(* lenient (bloom_remove, heap.rs:69-70).                                     *)
THEOREM MissesAreAliases == Alone /\ Spec => []MissOnlyByAliasing
<1> SUFFICES ASSUME Alone PROVE Spec => []MissOnlyByAliasing
  OBVIOUS
<1>1. Init => MInv
  <2>1. Init => Shape
    BY InitShape
  <2>2. ASSUME Init PROVE AloneFits /\ Explained /\ Checked
    BY <2>2 DEF Init, AloneFits, Explained, Checked, Idle
  <2> QED BY <2>1, <2>2 DEF MInv
<1>2. MInv /\ [Next]_vars => MInv'
  <2>1. ASSUME MInv, Next PROVE MInv'
    <3>1. Shape'
      BY <2>1, StepKeepsShape DEF MInv
    <3> QED BY <2>1, <3>1, StepKeepsAloneFits, StepKeepsExplained, StepKeepsChecked DEF MInv
  <2>2. ASSUME MInv, UNCHANGED vars PROVE MInv'
    BY <2>2 DEF vars, MInv, Shape, AloneFits, Explained, Covering, Uncounted, Checked, Aliased
  <2> QED BY <2>1, <2>2
<1>3. MInv => MissOnlyByAliasing
  BY DEF MInv, Checked, Aliased, MissOnlyByAliasing
<1> QED BY <1>1, <1>2, <1>3, PTL DEF Spec
=============================================================================
