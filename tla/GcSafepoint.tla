----------------------------- MODULE GcSafepoint -----------------------------
(***************************************************************************)
(* The stop-the-world protocol of the garbage collector                    *)
(* (newm2-runtime/src/gc.rs): how mutator threads register, poll, park and *)
(* resume, how nm2_new_rec allocates between two polls, and how            *)
(* collect_stw stops the others, runs a cycle and the finalizers, and lets *)
(* them go, or gives up after two seconds.                                 *)
(*                                                                         *)
(* One action is one access to what threads share: a Mutator's state, the  *)
(* SAFEPOINT_REQUESTED flag, SAFEPOINT_LOCK with its condition variable,   *)
(* the registry, the heap lock.  What the cycle does to the heap is in     *)
(* GcCluster; here it is a stretch of time in which no mutator may touch   *)
(* the heap.                                                               *)
(***************************************************************************)
EXTENDS Naturals

CONSTANTS
    Threads,      \* threads that ever call into the collector
    Collectors,   \* those that ever start a collection
    NoThread,     \* the holder of a free lock
    CycleLimit    \* bound: collections started in a behaviour

ASSUME SafepointAssumption ==
    /\ Collectors \subseteq Threads
    /\ NoThread \notin Threads
    /\ CycleLimit \in Nat

VARIABLES
    registry,     \* MUTATORS
    state,        \* Mutator.state: "running" or "parked"
    requested,    \* SAFEPOINT_REQUESTED
    lock,         \* holder of SAFEPOINT_LOCK
    heapLock,     \* holder of the heap mutex across a cycle
    snap,         \* collect_stw's copy of the registry, per collector
    cycles,       \* collections started
    pc,           \* where each thread is
    after,        \* where it continues when park_self or collect_stw returns
    resuming,     \* history: threads between their wake-up and "running" when
                  \* the last stop was requested
    clashed       \* history: threads whose stop overlaps another's

vars == <<registry, state, requested, lock, heapLock, snap, cycles, pc, after, resuming, clashed>>

\* A thread in Parked waits for the stop to end, or is on its way out.
Parked == {"lock", "check", "waiting", "exiting", "leaving", "gone"}
\* A thread in Working runs Modula-2 code or is inside nm2_new_rec.
Working == {"run", "new", "alloc", "grow", "tag", "count", "park"}
Collecting == {"snapshot", "pose", "request", "await", "heap", "cycle", "finalize",
               "release", "unpark", "notify", "log",
               "unrequest", "notifyAborted"}
Steps == {"out", "resume"} \cup Parked \cup Working \cup Collecting

Goto(t, label) == pc' = [pc EXCEPT ![t] = label]
\* The continuation is forgotten once it is used.
Return(t) == Goto(t, after[t]) /\ after' = [after EXCEPT ![t] = "run"]
SetState(t, s) == state' = [state EXCEPT ![t] = s]

-----------------------------------------------------------------------------

Init ==
    /\ registry = {}
    /\ state = [t \in Threads |-> "running"]
    /\ requested = FALSE
    /\ lock = NoThread
    /\ heapLock = NoThread
    /\ snap = [t \in Threads |-> {}]
    /\ cycles = 0
    /\ pc = [t \in Threads |-> "out"]
    /\ after = [t \in Threads |-> "run"]
    /\ resuming = {}
    /\ clashed = {}

(* register_thread_inner, from nm2_init_gc, nm2_register_thread or the first  *)
(* ensure_mutator of a thread.                                                *)
Register(t) ==
    /\ pc[t] = "out"
    /\ registry' = registry \cup {t}
    /\ SetState(t, "running")
    /\ Goto(t, "run")
    /\ UNCHANGED <<requested, lock, heapLock, snap, cycles, after, resuming, clashed>>

(* nm2_unregister_thread: out of the registry, its state left as it was.  A    *)
(* thread that unregisters does not come back.                                *)
Unregister(t) ==
    /\ pc[t] = "run"
    /\ registry' = registry \ {t}
    /\ Goto(t, "gone")
    /\ UNCHANGED <<state, requested, lock, heapLock, snap, cycles, after, resuming, clashed>>

(* Thread exit (Drop of MutatorTls): parked, unlisted, then a notification.   *)
Exit(t) ==
    /\ pc[t] = "run"
    /\ SetState(t, "parked")
    /\ Goto(t, "exiting")
    /\ UNCHANGED <<registry, requested, lock, heapLock, snap, cycles, after, resuming, clashed>>

Unlist(t) ==
    /\ pc[t] = "exiting"
    /\ registry' = registry \ {t}
    /\ Goto(t, "leaving")
    /\ UNCHANGED <<state, requested, lock, heapLock, snap, cycles, after, resuming, clashed>>

(* nm2_safepoint: the flag is seen set.  Not set, the poll changes nothing.   *)
Poll(t) ==
    /\ pc[t] = "run"
    /\ requested
    /\ after' = [after EXCEPT ![t] = "run"]
    /\ Goto(t, "park")
    /\ UNCHANGED <<registry, state, requested, lock, heapLock, snap, cycles, resuming, clashed>>

(* nm2_new_rec: it polls first, and goes on to allocate after the stop.       *)
NewRec(t) ==
    /\ pc[t] = "run"
    /\ after' = [after EXCEPT ![t] = "new"]
    /\ Goto(t, IF requested THEN "park" ELSE "new")
    /\ UNCHANGED <<registry, state, requested, lock, heapLock, snap, cycles, resuming, clashed>>

(* park_self: publish the stack pointer and the PARKED state ...              *)
Park(t) ==
    /\ pc[t] = "park"
    /\ SetState(t, "parked")
    /\ Goto(t, "lock")
    /\ UNCHANGED <<registry, requested, lock, heapLock, snap, cycles, after, resuming, clashed>>

(* ... take SAFEPOINT_LOCK ...                                                *)
Acquire(t) ==
    /\ pc[t] = "lock"
    /\ lock = NoThread
    /\ lock' = t
    /\ Goto(t, "check")
    /\ UNCHANGED <<registry, state, requested, heapLock, snap, cycles, after, resuming, clashed>>

(* ... and wait while the flag is set.  Either way the lock is given up.      *)
Check(t) ==
    /\ pc[t] = "check"
    /\ lock' = NoThread
    /\ Goto(t, IF requested THEN "waiting" ELSE "resume")
    /\ UNCHANGED <<registry, state, requested, heapLock, snap, cycles, after, resuming, clashed>>

\* Mutant: the wait is under an "if" where the code has a "while".
SpuriousWakeUpOnce(t) ==
    /\ pc[t] = "waiting"
    /\ Goto(t, "resume")
    /\ UNCHANGED <<registry, state, requested, lock, heapLock, snap, cycles, after, resuming, clashed>>

\* A condition variable may wake a waiter for no reason.
SpuriousWakeUp(t) ==
    /\ pc[t] = "waiting"
    /\ Goto(t, "lock")
    /\ UNCHANGED <<registry, state, requested, lock, heapLock, snap, cycles, after, resuming, clashed>>

\* RUNNING is stored after the lock has been dropped (lines 645-646).
Resume(t) ==
    /\ pc[t] = "resume"
    /\ SetState(t, "running")
    /\ Return(t)
    /\ UNCHANGED <<registry, requested, lock, heapLock, snap, cycles, resuming, clashed>>

-----------------------------------------------------------------------------

(* nm2_new_rec past its poll: a collection first when the pressure is high,   *)
(* then an attempt under the heap lock, a collection when that fails, and a   *)
(* second attempt that grows the heap if it must.                             *)
Collect(t, from, to) ==
    /\ pc[t] = from
    /\ t \in Collectors
    /\ cycles < CycleLimit
    /\ cycles' = cycles + 1
    /\ after' = [after EXCEPT ![t] = to]
    /\ Goto(t, "snapshot")
    /\ UNCHANGED <<registry, state, requested, lock, heapLock, snap, resuming, clashed>>

StartCollection(t) ==
    \/ Collect(t, "run", "run")      \* nm2_collect
    \/ Collect(t, "new", "alloc")    \* pressure
    \/ Collect(t, "alloc", "grow")   \* every cluster is full

SkipPressure(t) ==
    /\ pc[t] = "new"
    /\ Goto(t, "alloc")
    /\ UNCHANGED <<registry, state, requested, lock, heapLock, snap, cycles, after, resuming, clashed>>

\* alloc_under_lock hands out a block whose tag is still 0, as a free block's.
Allocate(t) ==
    /\ pc[t] \in {"alloc", "grow"}
    /\ heapLock = NoThread
    /\ Goto(t, "tag")
    /\ UNCHANGED <<registry, state, requested, lock, heapLock, snap, cycles, after, resuming, clashed>>

\* The tag is written without the heap lock ...
Tag(t) ==
    /\ pc[t] = "tag"
    /\ Goto(t, "count")
    /\ UNCHANGED <<registry, state, requested, lock, heapLock, snap, cycles, after, resuming, clashed>>

\* ... which is taken again to count the object for its type (line 722).
CountType(t) ==
    /\ pc[t] = "count"
    /\ heapLock = NoThread
    /\ Goto(t, "run")
    /\ UNCHANGED <<registry, state, requested, lock, heapLock, snap, cycles, after, resuming, clashed>>

-----------------------------------------------------------------------------

(* collect_stw: copy the registry, park oneself, request the stop.            *)
Snapshot(t) ==
    /\ pc[t] = "snapshot"
    /\ snap' = [snap EXCEPT ![t] = registry]
    /\ Goto(t, "pose")
    /\ UNCHANGED <<registry, state, requested, lock, heapLock, cycles, after, resuming, clashed>>

\* From here its stop is on: t shows PARKED, or the flag is up on its behalf.
InStop(t) == pc[t] \in {"request", "await", "heap", "cycle", "finalize", "release",
                        "unpark", "unrequest"}

Pose(t) ==
    /\ pc[t] = "pose"
    /\ SetState(t, "parked")
    /\ Goto(t, "request")
    /\ LET others == {u \in Threads \ {t} : InStop(u)}
       IN  clashed' = IF others = {} THEN clashed ELSE clashed \cup others \cup {t}
    /\ UNCHANGED <<registry, requested, lock, heapLock, snap, cycles, after, resuming>>

Request(t) ==
    /\ pc[t] = "request"
    /\ requested' = TRUE
    /\ resuming' = {u \in Threads : pc[u] = "resume"}
    /\ Goto(t, "await")
    /\ UNCHANGED <<registry, state, lock, heapLock, snap, cycles, after, clashed>>

(* One pass over the snapshot finds every state PARKED.  The states are read  *)
(* one by one; a thread once parked stays so until the stop ends, except      *)
(* those of resuming, so the pass is taken as one step.                       *)
AllParked(t) ==
    /\ pc[t] = "await"
    /\ \A u \in snap[t] \ {t} : state[u] = "parked"
    /\ Goto(t, "heap")
    /\ UNCHANGED <<registry, state, requested, lock, heapLock, snap, cycles, after, resuming, clashed>>

\* The snapshot, a local variable, is not read again, nor is the history.
Forget(t) == snap' = [snap EXCEPT ![t] = {}] /\ resuming' = {}

\* run_collect_cycle, between taking and dropping the heap lock.
BeginCycle(t) ==
    /\ pc[t] = "heap"
    /\ heapLock = NoThread
    /\ heapLock' = t
    /\ Goto(t, "cycle")
    /\ UNCHANGED <<registry, state, requested, lock, snap, cycles, after, resuming, clashed>>

EndCycle(t) ==
    /\ pc[t] = "cycle"
    /\ heapLock' = NoThread
    /\ Goto(t, "finalize")
    /\ UNCHANGED <<registry, state, requested, lock, snap, cycles, after, resuming, clashed>>

RunFinalizers(t) ==
    /\ pc[t] = "finalize"
    /\ Goto(t, "release")
    /\ UNCHANGED <<registry, state, requested, lock, heapLock, snap, cycles, after, resuming, clashed>>

Release(t) ==
    /\ pc[t] = "release"
    /\ requested' = FALSE
    /\ Forget(t)
    /\ Goto(t, "unpark")
    /\ UNCHANGED <<registry, state, lock, heapLock, cycles, after, clashed>>

Unpark(t) ==
    /\ pc[t] = "unpark"
    /\ SetState(t, "running")
    /\ Goto(t, "notify")
    /\ clashed' = clashed \ {t}
    /\ UNCHANGED <<registry, requested, lock, heapLock, snap, cycles, after, resuming>>

\* The collection log takes the heap lock once more.
Log(t) ==
    /\ pc[t] = "log"
    /\ heapLock = NoThread
    /\ Return(t)
    /\ UNCHANGED <<registry, state, requested, lock, heapLock, snap, cycles, resuming, clashed>>

(* The two seconds are over before every mutator was seen parked.             *)
Abort(t) ==
    /\ pc[t] = "await"
    /\ SetState(t, "running")
    /\ Goto(t, "unrequest")
    /\ UNCHANGED <<registry, requested, lock, heapLock, snap, cycles, after, resuming, clashed>>

Unrequest(t) ==
    /\ pc[t] = "unrequest"
    /\ requested' = FALSE
    /\ Forget(t)
    /\ clashed' = clashed \ {t}
    /\ Goto(t, "notifyAborted")
    /\ UNCHANGED <<registry, state, lock, heapLock, cycles, after>>

\* Where a thread goes on after it has notified.
AfterNotify(t) ==
    CASE pc[t] = "notify"        -> "log"
      [] pc[t] = "notifyAborted" -> after[t]
      [] pc[t] = "leaving"       -> "gone"

\* Mutant: notify_one.
NotifyOne(t) ==
    /\ pc[t] \in {"notify", "notifyAborted", "leaving"}
    /\ lock = NoThread
    /\ LET waiters == {u \in Threads : pc[u] = "waiting"}
           woken   == IF waiters = {} THEN {} ELSE {CHOOSE u \in waiters : TRUE}
       IN  pc' = [u \in Threads |-> CASE u = t         -> AfterNotify(t)
                                      [] u \in woken   -> "lock"
                                      [] OTHER         -> pc[u]]
    /\ UNCHANGED <<registry, state, requested, lock, heapLock, snap, cycles, after, resuming, clashed>>

(* notify_all under SAFEPOINT_LOCK: every waiter competes for the lock again. *)
Notify(t) ==
    /\ pc[t] \in {"notify", "notifyAborted", "leaving"}
    /\ lock = NoThread
    /\ pc' = [u \in Threads |-> CASE u = t              -> AfterNotify(t)
                                  [] pc[u] = "waiting"  -> "lock"
                                  [] OTHER              -> pc[u]]
    /\ UNCHANGED <<registry, state, requested, lock, heapLock, snap, cycles, after, resuming, clashed>>

-----------------------------------------------------------------------------

\* What a thread does once it is inside the runtime.
Runtime(t) ==
    \/ Unlist(t) \/ Park(t) \/ Acquire(t) \/ Check(t) \/ Resume(t)
    \/ SkipPressure(t) \/ Allocate(t) \/ Tag(t) \/ CountType(t)
    \/ Snapshot(t) \/ Pose(t) \/ Request(t) \/ AllParked(t)
    \/ BeginCycle(t) \/ EndCycle(t) \/ RunFinalizers(t)
    \/ Release(t) \/ Unpark(t) \/ Log(t)
    \/ Abort(t) \/ Unrequest(t) \/ Notify(t)

\* What it does of its own accord.
Mutator(t) ==
    \/ Register(t) \/ Unregister(t) \/ Exit(t)
    \/ Poll(t) \/ NewRec(t) \/ StartCollection(t) \/ SpuriousWakeUp(t)

Next == \E t \in Threads : Runtime(t) \/ Mutator(t)

Spec == Init /\ [][Next]_vars

(* The operating system runs every thread that can run; a mutator need not    *)
(* ever poll.                                                                 *)
FairSpec == Spec /\ \A t \in Threads : WF_vars(Runtime(t))

-----------------------------------------------------------------------------

Shape ==
    /\ registry \subseteq Threads
    /\ state \in [Threads -> {"running", "parked"}]
    /\ requested \in BOOLEAN
    /\ lock \in Threads \cup {NoThread}
    /\ heapLock \in Threads \cup {NoThread}
    /\ snap \in [Threads -> SUBSET Threads]
    /\ cycles \in 0 .. CycleLimit
    /\ pc \in [Threads -> Steps]
    /\ after \in [Threads -> {"run", "new", "alloc", "grow"}]
    /\ resuming \subseteq Threads
    /\ clashed \subseteq Threads

\* A lock is held exactly in the section it protects.
LocksHeld ==
    \A t \in Threads : /\ lock = t <=> pc[t] = "check"
                       /\ heapLock = t <=> pc[t] = "cycle"

(* The shape of the state.  No thread leaves a section of park_self or of     *)
(* run_collect_cycle with its lock, and none is in one without it.            *)
TypeOK == Shape /\ LocksHeld

\* t is between "every mutator has parked" and the end of its stop.
Stopping(t) == pc[t] \in {"heap", "cycle", "finalize", "release"}

(* While a cycle or its finalizers run in a stop that overlaps no other       *)
(* thread's, every other thread of the snapshot is parked and stays parked,   *)
(* except a thread that had left its wait, but not yet stored RUNNING, when   *)
(* the stop was requested: its stale PARKED state was taken for an answer.    *)
(* An earlier overlap is forgotten: the stops after it are good again.        *)
WorldStopped ==
    \A c \in Collectors \ clashed : Stopping(c) =>
        \A t \in snap[c] \ {c} : pc[t] \in Parked \/ t \in resuming

(* The cycle of such a stop never meets a block that is handed out but not    *)
(* tagged, which the sweep would put on the free list, save for a thread of   *)
(* resuming and one that registered after the snapshot.                       *)
NoUntaggedBlock ==
    \A c \in Collectors \ clashed, t \in Threads :
        pc[c] = "cycle" /\ pc[t] = "tag" => t \in resuming \/ t \notin snap[c]

(* What the comment at gc.rs:593-595 says of the collector: it "waits for     *)
(* every mutator to park, does its work, then clears and notifies".           *)
StopTheWorld ==
    \A c \in Collectors : Stopping(c) => \A t \in snap[c] \ {c} : pc[t] \in Parked

(* Every stop ends: a parked thread runs again (no wake-up is lost between    *)
(* the collector's store and its notification), and collect_stw returns,      *)
(* whether or not the other threads ever poll.                                *)
StopsEnd ==
    \A t \in Threads : pc[t] \in {"waiting", "await"} ~> pc[t] \in Working
=============================================================================
