------------------------------ MODULE Coroutine ------------------------------
(***************************************************************************)
(* The coroutines of one thread (newm2-runtime/src/coroutine.rs, the       *)
(* native implementation): NEWPROCESS, TRANSFER, CURRENT, the end of a     *)
(* body, nm2_coroutine_free, and what a collection sees of their stacks    *)
(* (current_stack_range; effective_stack_top in gc.rs).  All state is      *)
(* thread-local, so the calls of a thread exclude each other; a handle is  *)
(* the address of a Box, and the allocator may hand out an address again.  *)
(* A stack goes by its coroutine's handle, the thread's own, on which main *)
(* runs and everything before it, by the null pointer.                     *)
(***************************************************************************)
CONSTANTS
    Boxes,      \* addresses for the Coroutine boxes
    NoBox,      \* the null pointer
    Objs        \* collected objects, each allocated once

ASSUME CoroutineAssumption == NoBox \notin Boxes

VARIABLES
    main,    \* MAIN
    cur,     \* CURRENT
    live,    \* LIVE: the handles that free accepts
    ctx,     \* what the box at an address is: "none" (not allocated), "fresh",
             \* "running", "saved" or "over", a body that has returned
    held,    \* handles in the program's variables, good or not
    sp,      \* the stack the processor is on
    stack,   \* the objects that the frames on each stack refer to
    heap,    \* objects not yet reclaimed
    used,    \* history: objects allocated so far
    unseen,  \* history: stacks that a collection did not scan
    fate     \* of the process: "runs", "trap", "wild" or "fault"

vars == <<main, cur, live, ctx, held, sp, stack, heap, used, unseen, fate>>
memory == <<stack, heap, used, unseen>>

Stacks == Boxes \cup {NoBox}

Allocated == {b \in Boxes : ctx[b] # "none"}

Init ==
    /\ main = NoBox
    /\ cur = NoBox
    /\ live = {}
    /\ ctx = [b \in Boxes |-> "none"]
    /\ held = {}
    /\ sp = NoBox
    /\ stack = [s \in Stacks |-> {}]
    /\ heap = {}
    /\ used = {}
    /\ unseen = {}
    /\ fate = "runs"

(* nm2_coroutine_current, and with it ensure_main, which new and transfer     *)
(* also begin with: the thread itself becomes a coroutine.                    *)
Current(b) ==
    /\ fate = "runs"
    /\ IF main = NoBox
         THEN /\ ctx[b] = "none"
              /\ main' = b
              /\ cur' = b
              /\ ctx' = [ctx EXCEPT ![b] = "running"]
         ELSE b = cur /\ UNCHANGED <<main, cur, ctx>>
    /\ held' = held \cup {b}
    /\ UNCHANGED <<live, sp, memory, fate>>

(* NEWPROCESS, NEWCOROUTINE: a box and a guarded stack.                       *)
New(b) ==
    /\ fate = "runs"
    /\ main # NoBox
    /\ ctx[b] = "none"
    /\ ctx' = [ctx EXCEPT ![b] = "fresh"]
    /\ live' = live \cup {b}
    /\ held' = held \cup {b}
    /\ stack' = [stack EXCEPT ![b] = {}]
    /\ unseen' = unseen \ {b}
    /\ UNCHANGED <<main, cur, sp, heap, used, fate>>

StackOf(b) == IF b = main THEN NoBox ELSE b

\* nm2_ctx_switch: what is loaded may be no context any more.
SwitchTo(b, was) ==
    /\ cur' = b
    /\ IF ctx[b] \in {"fresh", "saved"}
         THEN /\ ctx' = [ctx EXCEPT ![cur] = was, ![b] = "running"]
              /\ sp' = StackOf(b)
              /\ fate' = "runs"
         ELSE /\ ctx' = [ctx EXCEPT ![cur] = was]
              /\ fate' = IF ctx[b] = "over" THEN "trap" ELSE "wild"
              /\ UNCHANGED sp

\* Mutant: the running coroutine's handle is not looked at.
TransferSelf(h) ==
    /\ fate = "runs"
    /\ h \in held
    /\ held' = held \cup {cur}
    /\ SwitchTo(h, "saved")
    /\ UNCHANGED <<main, live, memory>>

(* TRANSFER(VAR from, to): the variable gets the running coroutine.           *)
Transfer(h) ==
    /\ fate = "runs"
    /\ h \in held
    /\ held' = held \cup {cur}
    /\ IF h = cur THEN UNCHANGED <<ctx, fate, cur, sp>> ELSE SwitchTo(h, "saved")
    /\ UNCHANGED <<main, live, memory>>

\* Mutant: the switch at the end is made without a word to CURRENT.
FinishUntold ==
    /\ fate = "runs"
    /\ sp # NoBox
    /\ ctx' = [ctx EXCEPT ![cur] = "over", ![main] = "running"]
    /\ sp' = NoBox
    /\ UNCHANGED <<main, cur, live, held, memory, fate>>

(* nm2_coroutine_finish: the body has returned, main goes on.                 *)
Finish ==
    /\ fate = "runs"
    /\ sp # NoBox
    /\ SwitchTo(main, "over")
    /\ UNCHANGED <<main, live, held, memory>>

\* Mutant: free looks for main only.
FreeRunning(h) ==
    /\ fate = "runs"
    /\ h \in held
    /\ IF h \in live /\ h # main
         THEN live' = live \ {h} /\ ctx' = [ctx EXCEPT ![h] = "none"]
         ELSE UNCHANGED <<live, ctx>>
    /\ UNCHANGED <<main, cur, held, sp, memory, fate>>

(* nm2_coroutine_free: the box and the stack go, whatever state it is in.     *)
Free(h) ==
    /\ fate = "runs"
    /\ h \in held
    /\ IF h \in live /\ h \notin {main, cur}
         THEN live' = live \ {h} /\ ctx' = [ctx EXCEPT ![h] = "none"]
         ELSE UNCHANGED <<live, ctx>>
    /\ UNCHANGED <<main, cur, held, sp, memory, fate>>

(* The code that runs allocates, and forgets.                                 *)
Allocate(o) ==
    /\ fate = "runs"
    /\ o \in Objs \ used
    /\ used' = used \cup {o}
    /\ heap' = heap \cup {o}
    /\ stack' = [stack EXCEPT ![sp] = @ \cup {o}]
    /\ UNCHANGED <<main, cur, live, ctx, held, sp, unseen, fate>>

Forget(o) ==
    /\ fate = "runs"
    /\ o \in stack[sp]
    /\ stack' = [stack EXCEPT ![sp] = @ \ {o}]
    /\ UNCHANGED <<main, cur, live, ctx, held, sp, heap, used, unseen, fate>>

\* effective_stack_top: up to whose stack's top is scanned, by current_stack_range
\* the running coroutine's, and the thread's when that is None.
StackScanned == IF cur \in {NoBox, main} THEN NoBox ELSE cur

(* A collection scans from the stack pointer up.  If that does not lead to the *)
(* top of the same stack, it leads through memory that may not be there.       *)
Collect ==
    /\ fate = "runs"
    /\ IF StackScanned = sp
         THEN /\ heap' = heap \cap stack[sp]
              /\ unseen' = unseen \cup (Stacks \ {sp})
              /\ UNCHANGED fate
         ELSE /\ fate' = "fault"
              /\ UNCHANGED <<heap, unseen>>
    /\ UNCHANGED <<main, cur, live, ctx, held, sp, stack, used>>

Next ==
    \/ \E b \in Boxes : Current(b) \/ New(b)
    \/ \E h \in held : Transfer(h) \/ Free(h)
    \/ Finish
    \/ \E o \in Objs : Allocate(o) \/ Forget(o)
    \/ Collect

Spec == Init /\ [][Next]_vars

-----------------------------------------------------------------------------

(* The shape of the state; LIVE lists what is allocated, main apart.          *)
TypeOK ==
    /\ main \in Boxes \cup {NoBox}
    /\ cur \in Boxes \cup {NoBox}
    /\ ctx \in [Boxes -> {"none", "fresh", "running", "saved", "over"}]
    /\ held \subseteq Boxes
    /\ sp \in Stacks
    /\ stack \in [Stacks -> SUBSET Objs]
    /\ heap \subseteq used /\ used \subseteq Objs
    /\ unseen \subseteq Stacks
    /\ live = Allocated \ {main}
    /\ fate \in {"runs", "trap", "wild", "fault"}

(* "falling off the end is survivable" (coroutine.rs:15-17): however          *)
(* coroutines transfer to, end and free each other, exactly one runs, on a    *)
(* stack that is there, and while it is not main, main waits where its last   *)
(* TRANSFER left it.  A switch goes astray only to one that has ended or was  *)
(* freed.                                                                     *)
SwitchesLand ==
    /\ fate = "runs" /\ main # NoBox =>
         /\ {b \in Boxes : ctx[b] = "running"} = {cur}
         /\ cur # main => ctx[main] = "saved"
    /\ fate \in {"trap", "wild"} => ctx[cur] \in {"over", "none"}

(* Whichever coroutine runs, whatever others have been made, ended and freed  *)
(* before, a collection never scans from one stack on into another, and finds *)
(* all that the running frames refer to: what gc.rs:622-627 says it is for.   *)
(* Objects are lost only to a stack that was suspended during a collection.   *)
RunningStackKept ==
    /\ fate # "fault"
    /\ \A s \in Stacks \ unseen : stack[s] \subseteq heap
=============================================================================
