-------------------------- MODULE GcSafepointProofs --------------------------
(***************************************************************************)
(* Proofs about the stop-the-world protocol, for any set of threads, any   *)
(* of which collect, at the same time or not, and any number of            *)
(* collections.                                                            *)
(***************************************************************************)
EXTENDS GcSafepoint, TLAPS

\* A collecting thread shows PARKED in these places.
Posing == {"request", "await", "heap", "cycle", "finalize", "release", "unpark"}
Asking == {"await", "heap", "cycle", "finalize", "release"}

\* Only a collector is inside collect_stw.
CollectorsCollect == \A t \in Threads : pc[t] \in Collecting => t \in Collectors

\* Of two stops that overlap both are marked.
OverlapsClash ==
    \A c, u \in Threads : c # u /\ InStop(c) /\ InStop(u) => c \in clashed

\* The flag is up while a thread whose stop overlaps no other awaits, works and
\* finalizes.
AskingRequests == \A c \in Threads \ clashed : pc[c] \in Asking => requested

\* A PARKED state is not shown from Modula-2 code or from nm2_new_rec.
ParkedIsHonest ==
    \A t \in Threads : state[t] = "parked" => pc[t] \in Parked \cup {"resume"} \cup Posing

\* No thread leaves its wait during a stop, so one that is past it was before.
LateResume == requested => \A t \in Threads : pc[t] = "resume" => t \in resuming

IInv ==
    /\ TypeOK
    /\ CollectorsCollect
    /\ OverlapsClash
    /\ AskingRequests
    /\ ParkedIsHonest
    /\ LateResume
    /\ WorldStopped

USE DEF Steps, Parked, Working, Collecting, Goto, SetState, Return, Forget, AfterNotify

(* The first state has the shape, and the locks are free.                     *)
LEMMA InitTypeOK == ASSUME Init PROVE TypeOK
<1>1. snap \in [Threads -> SUBSET Threads]
  BY DEF Init
<1>2. cycles \in 0 .. CycleLimit
  BY SafepointAssumption DEF Init
<1>3. pc \in [Threads -> Steps]
  BY DEF Init
<1>4. state \in [Threads -> {"running", "parked"}]
  BY DEF Init
<1>5. after \in [Threads -> {"run", "new", "alloc", "grow"}]
  BY DEF Init
<1>6. LocksHeld
  <2>1. lock = NoThread /\ heapLock = NoThread /\ \A t \in Threads : pc[t] = "out"
    BY DEF Init
  <2> QED BY <2>1, SafepointAssumption DEF LocksHeld
<1> QED BY <1>1, <1>2, <1>3, <1>4, <1>5, <1>6 DEF Init, TypeOK, Shape

(* Every step keeps the shape.                                                *)
LEMMA StepKeepsShape == ASSUME Shape, [Next]_vars PROVE Shape'
<1>1. CASE UNCHANGED vars
  BY <1>1 DEF Shape, vars
<1>2. ASSUME NEW t \in Threads, Mutator(t) PROVE Shape'
  <2>1. CASE Register(t) \/ Unregister(t) \/ Exit(t)
    BY <2>1 DEF Shape, Register, Unregister, Exit
  <2>2. CASE Poll(t) \/ NewRec(t) \/ SpuriousWakeUp(t)
    BY <2>2 DEF Shape, Poll, NewRec, SpuriousWakeUp
  <2>3. CASE StartCollection(t)
    BY <2>3, SafepointAssumption DEF Shape, StartCollection, Collect
  <2> QED BY <1>2, <2>1, <2>2, <2>3 DEF Mutator
<1>3. ASSUME NEW t \in Threads, Runtime(t) PROVE Shape'
  <2>1. CASE Unlist(t) \/ Park(t) \/ Acquire(t) \/ Check(t)
    BY <2>1 DEF Shape, Unlist, Park, Acquire, Check
  <2>2. CASE Resume(t) \/ Log(t)
    BY <2>2 DEF Shape, Resume, Log
  <2>3. CASE SkipPressure(t) \/ Allocate(t) \/ Tag(t) \/ CountType(t)
    BY <2>3 DEF Shape, SkipPressure, Allocate, Tag, CountType
  <2>4. CASE Snapshot(t)
    <3>1. snap' \in [Threads -> SUBSET Threads]
      BY <2>4 DEF Shape, Snapshot
    <3> QED BY <2>4, <3>1 DEF Shape, Snapshot
  <2>9. CASE Pose(t) \/ AllParked(t)
    BY <2>9 DEF Shape, Pose, AllParked
  <2>5. CASE Request(t)
    BY <2>5 DEF Shape, Request
  <2>6. CASE BeginCycle(t) \/ EndCycle(t) \/ RunFinalizers(t)
    BY <2>6 DEF Shape, BeginCycle, EndCycle, RunFinalizers
  <2>7. CASE Unpark(t) \/ Abort(t)
    BY <2>7 DEF Shape, Unpark, Abort
  <2>10. CASE Release(t) \/ Unrequest(t)
    <3>1. snap' \in [Threads -> SUBSET Threads]
      BY <2>10 DEF Shape, Release, Unrequest
    <3>2. resuming' \subseteq Threads /\ requested' \in BOOLEAN
      BY <2>10 DEF Release, Unrequest
    <3> QED BY <2>10, <3>1, <3>2 DEF Shape, Release, Unrequest
  <2>8. CASE Notify(t)
    BY <2>8 DEF Shape, Notify
  <2> QED BY <1>3, <2>1, <2>2, <2>3, <2>4, <2>5, <2>6, <2>7, <2>8, <2>9, <2>10 DEF Runtime
<1> QED BY <1>1, <1>2, <1>3 DEF Next

(* ... and every lock where it is held.                                       *)
LEMMA StepKeepsLocks == ASSUME TypeOK, Shape', [Next]_vars PROVE LocksHeld'
<1> USE SafepointAssumption DEF TypeOK, Shape, LocksHeld
<1>1. CASE UNCHANGED vars
  BY <1>1 DEF vars
<1>2. ASSUME NEW t \in Threads, Mutator(t) PROVE LocksHeld'
  BY <1>2 DEF Mutator, Register, Unregister, Exit, Poll, NewRec, SpuriousWakeUp,
              StartCollection, Collect
<1>3. ASSUME NEW t \in Threads, Runtime(t) PROVE LocksHeld'
  <2>1. CASE Unlist(t) \/ Park(t) \/ Resume(t) \/ Log(t) \/ SkipPressure(t) \/ Allocate(t) \/ Tag(t) \/ CountType(t)
    BY <2>1 DEF Unlist, Park, Resume, Log, SkipPressure, Allocate, Tag, CountType
  <2>2. CASE Acquire(t) \/ Check(t)
    BY <2>2 DEF Acquire, Check
  <2>3. CASE BeginCycle(t) \/ EndCycle(t) \/ RunFinalizers(t)
    BY <2>3 DEF BeginCycle, EndCycle, RunFinalizers
  <2>4. CASE Snapshot(t) \/ Pose(t) \/ Request(t) \/ AllParked(t)
    BY <2>4 DEF Snapshot, Pose, Request, AllParked
  <2>5. CASE Release(t) \/ Unpark(t) \/ Abort(t) \/ Unrequest(t)
    BY <2>5 DEF Release, Unpark, Abort, Unrequest
  <2>6. CASE Notify(t)
    BY <2>6 DEF Notify
  <2> QED BY <1>3, <2>1, <2>2, <2>3, <2>4, <2>5, <2>6 DEF Runtime
<1> QED BY <1>1, <1>2, <1>3 DEF Next

LEMMA StepKeepsType == ASSUME TypeOK, [Next]_vars PROVE TypeOK'
  BY StepKeepsShape, StepKeepsLocks DEF TypeOK

(* The state keeps its shape.                                                 *)
THEOREM TypeCorrect == Spec => []TypeOK
<1>1. Init => TypeOK
  BY InitTypeOK
<1>2. TypeOK /\ [Next]_vars => TypeOK'
  BY StepKeepsType
<1> QED BY <1>1, <1>2, PTL DEF Spec

(* One step at a time: what holds of the flag and of the threads' states in   *)
(* IInv holds after any step of any thread.                                   *)
LEMMA StepKeepsFlags ==
    ASSUME IInv, TypeOK', NEW t \in Threads, Runtime(t) \/ Mutator(t)
    PROVE  /\ CollectorsCollect' /\ OverlapsClash' /\ AskingRequests'
           /\ ParkedIsHonest' /\ LateResume'
<1> USE SafepointAssumption
    DEF TypeOK, Shape, CollectorsCollect, OverlapsClash, AskingRequests, ParkedIsHonest,
        LateResume, Posing, Asking, InStop
<1>1. CASE Register(t) \/ Unregister(t) \/ Exit(t)
  BY <1>1 DEF IInv, Register, Unregister, Exit
<1>2. CASE Poll(t) \/ NewRec(t) \/ SpuriousWakeUp(t)
  BY <1>2 DEF IInv, Poll, NewRec, SpuriousWakeUp
<1>3. CASE StartCollection(t)
  BY <1>3 DEF IInv, StartCollection, Collect
<1>4. CASE Unlist(t) \/ Park(t) \/ Acquire(t) \/ Check(t)
  BY <1>4 DEF IInv, Unlist, Park, Acquire, Check
<1>5. CASE Resume(t) \/ Log(t)
  BY <1>5 DEF IInv, Resume, Log
<1>6. CASE SkipPressure(t) \/ Allocate(t) \/ Tag(t) \/ CountType(t)
  BY <1>6 DEF IInv, SkipPressure, Allocate, Tag, CountType
<1>7. CASE Snapshot(t) \/ AllParked(t)
  BY <1>7 DEF IInv, Snapshot, AllParked
<1>12. CASE Pose(t)
  BY <1>12 DEF IInv, Pose
<1>8. CASE Request(t)
  BY <1>8 DEF IInv, Request
<1>9. CASE BeginCycle(t) \/ EndCycle(t) \/ RunFinalizers(t)
  BY <1>9 DEF IInv, BeginCycle, EndCycle, RunFinalizers
<1>10. CASE Release(t) \/ Unpark(t) \/ Abort(t) \/ Unrequest(t)
  BY <1>10 DEF IInv, Release, Unpark, Abort, Unrequest
<1>11. CASE Notify(t)
  BY <1>11 DEF IInv, Notify
<1> QED BY <1>1, <1>2, <1>3, <1>4, <1>5, <1>6, <1>7, <1>8, <1>9, <1>10, <1>11, <1>12
        DEF Runtime, Mutator

(* And so does the property itself.  The steps that need the rest of IInv are *)
(* the one by which the collector sees every state PARKED, and the ones by    *)
(* which another thread might disturb its stop: a thread that requests or     *)
(* releases a stop of its own would overlap it.                               *)
LEMMA StepKeepsWorldStopped ==
    ASSUME IInv, TypeOK', NEW t \in Threads, Runtime(t) \/ Mutator(t)
    PROVE  WorldStopped'
<1> USE SafepointAssumption DEF IInv, TypeOK, Shape, WorldStopped, Stopping
<1>0. \A c \in Collectors : c \in Threads /\ (Stopping(c) => InStop(c))
  BY DEF InStop
<1>1. CASE AllParked(t)
  <2>1. ASSUME t \in Collectors, t \notin clashed, NEW u \in snap[t] \ {t}
        PROVE  pc'[u] \in Parked \/ u \in resuming'
    <3>1. requested
      BY <1>1, <2>1 DEF AllParked, AskingRequests, Asking
    <3>2. u \in Threads /\ state[u] = "parked"
      BY <1>1, <2>1 DEF AllParked
    <3>3. pc[u] \in Parked \cup {"resume"}
      <4>1. pc[u] \notin Posing
        BY <1>1, <2>1, <3>2 DEF AllParked, OverlapsClash, InStop, Posing
      <4> QED BY <3>2, <4>1 DEF ParkedIsHonest
    <3> QED BY <1>1, <2>1, <3>1, <3>2, <3>3 DEF AllParked, LateResume
  <2> QED BY <1>1, <2>1 DEF AllParked
<1>2. CASE Check(t)
  <2>1. \A c \in Collectors \ clashed : Stopping(c) => requested
    BY DEF AskingRequests, Asking
  <2> QED BY <1>2, <2>1 DEF Check
<1>3. CASE Request(t) \/ Release(t) \/ Unrequest(t)
  <2>1. InStop(t) /\ clashed' \subseteq clashed /\ snap' \in [Threads -> SUBSET Threads]
    BY <1>3 DEF Request, Release, Unrequest, InStop
  <2>2. ASSUME NEW c \in Collectors \ clashed', Stopping(c)' PROVE FALSE
    <3>1. c # t /\ pc[c] = pc'[c] /\ InStop(c)
      BY <1>0, <1>3, <2>2 DEF Request, Release, Unrequest, InStop
    <3>2. c \notin clashed
      BY <1>3, <2>2, <3>1 DEF Request, Release, Unrequest
    <3> QED BY <1>0, <2>1, <2>2, <3>1, <3>2 DEF OverlapsClash
  <2> QED BY <2>2
<1>4. CASE Notify(t)
  BY <1>4 DEF Notify
<1>5. CASE Pose(t)
  BY <1>5 DEF Pose
<1>6. CASE Snapshot(t)
  BY <1>6 DEF Snapshot
<1>7. CASE Register(t) \/ Unregister(t) \/ Exit(t) \/ Poll(t) \/ NewRec(t) \/ SpuriousWakeUp(t)
  BY <1>7 DEF Register, Unregister, Exit, Poll, NewRec, SpuriousWakeUp
<1>8. CASE StartCollection(t)
  BY <1>8 DEF StartCollection, Collect
<1>9. CASE Unlist(t) \/ Park(t) \/ Acquire(t) \/ Resume(t) \/ Log(t)
  BY <1>9 DEF Unlist, Park, Acquire, Resume, Log
<1>10. CASE SkipPressure(t) \/ Allocate(t) \/ Tag(t) \/ CountType(t)
  BY <1>10 DEF SkipPressure, Allocate, Tag, CountType
<1>12. CASE Unpark(t)
  BY <1>12 DEF Unpark
<1>11. CASE BeginCycle(t) \/ EndCycle(t) \/ RunFinalizers(t) \/ Abort(t)
  BY <1>11 DEF BeginCycle, EndCycle, RunFinalizers, Abort
<1> QED BY <1>1, <1>2, <1>3, <1>4, <1>5, <1>6, <1>7, <1>8, <1>9, <1>10, <1>11, <1>12
        DEF Runtime, Mutator

(* Whatever threads collect, and however their collections overlap: in a stop *)
(* that overlaps no other, no mutator of the snapshot runs while the cycle or *)
(* its finalizers run, but for those caught between their wake-up and the     *)
(* store of RUNNING when the stop was requested.                              *)
THEOREM WorldIsStopped == Spec => []WorldStopped
<1>1. Init => IInv
  <2> SUFFICES ASSUME Init PROVE IInv
    OBVIOUS
  <2>1. TypeOK
    BY InitTypeOK
  <2> QED BY <2>1, SafepointAssumption
          DEF IInv, Init, CollectorsCollect, OverlapsClash, AskingRequests, ParkedIsHonest,
              LateResume, WorldStopped, Stopping, Asking, InStop
<1>2. IInv /\ [Next]_vars => IInv'
  <2> SUFFICES ASSUME IInv, [Next]_vars PROVE IInv'
    OBVIOUS
  <2>1. TypeOK'
    BY StepKeepsType DEF IInv
  <2>2. CASE UNCHANGED vars
    BY <2>1, <2>2 DEF IInv, vars, CollectorsCollect, OverlapsClash, AskingRequests,
                ParkedIsHonest, LateResume, WorldStopped, Stopping, InStop
  <2>3. CASE Next
    BY <2>1, <2>3, StepKeepsFlags, StepKeepsWorldStopped DEF Next, IInv
  <2> QED BY <2>2, <2>3
<1>3. IInv => WorldStopped
  BY DEF IInv
<1> QED BY <1>1, <1>2, <1>3, PTL DEF Spec

(* Hence the cycle of such a stop meets no block that is handed out but not   *)
(* yet tagged.                                                                *)
THEOREM UntaggedIsSafe == Spec => []NoUntaggedBlock
<1>1. WorldStopped => NoUntaggedBlock
  BY DEF WorldStopped, NoUntaggedBlock, Stopping
<1> QED BY <1>1, WorldIsStopped, PTL
=============================================================================
