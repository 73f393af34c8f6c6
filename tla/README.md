# MacModula2: a verification project

MacModula2 (NewM2) is a Modula-2 compiler in Rust with a runtime library and an
IDE written in Modula-2. Most of the compiler is a chain of pure passes (lexer,
parser, semantic analysis, lowering to an IR, LLVM). What is stateful, concurrent
or hard to test is elsewhere: in the runtime crate a *compiled program* runs on
(`src/newm2-runtime`) and the small state machines the lowering emits around it,
in the services the IDE calls (jobs, the compiler daemon), in the parts of
the compiler that deal with whole programs (the loader, the interface cache, the
scan for heap mistakes), in the reading and writing of modules (preprocessor,
parser, `.types` files), and in the control flow and the whole numbers of the
code it emits. This project models those, checks the models with TLC
and proves theorems about them with TLAPS. Paths below are relative to the
repository.

## 1. The system

| Component | State it keeps | Operations | What is hard | What makes it correct |
|---|---|---|---|---|
| Manual heap, heap guard (`newm2-runtime/src/heap.rs`) | block counters, `GUARD_STATE`, the filter `BLOOM`, `DOUBLE_FREE` | `nm2_alloc`, `nm2_free`, `nm2_heap_guard_force_on`, the at-exit report | lock-free counters of several threads; saturation; reuse of addresses | a correct DISPOSE is never refused; counts and the leak report are exact |
| Garbage collector, stop protocol (`gc.rs`) | registry of mutators, each one's RUNNING/PARKED, `SAFEPOINT_REQUESTED`, a lock and condition variable, the heap lock | register, unregister, thread exit, `nm2_safepoint`, `nm2_new_rec`, `collect_stw` | stops racing wake-ups, exits, registrations, a 2 s timeout, a second collector | nobody touches the heap during a cycle; every stop ends |
| Garbage collector, cluster (`gc.rs`) | bump pointer, free list, block-start bitmap, headers in the memory | allocate, split, resolve, mark, sweep, coalesce | redundant structures that must agree after any sequence | nothing reachable is freed, everything else is |
| Module driver, HALT, termination (`aot.rs`, `termination.rs`, the loops of `newm2-llvm/src/lib.rs` and `boxjit.rs`, `box/src/lib.rs`) | how many modules are initialized, first error, halt code, two flags | run bodies in order, finalizers in reverse, `nm2_halt`, reset | parts that fail or halt in the middle of each other | exactly the initialized modules are finalized, in reverse; the exit status is honest |
| Exceptions (`exceptions.rs`, the wrappers of `newm2-ir/src/lower.rs`) | the thread's CURRENT exception, heap frames of wrappers, the call stack | raise, catch, handle, re-raise, RETRY, RETURN, FINALLY | one CURRENT slot under nested protected regions; many ways out of a wrapper | a handler sees its own exception; frames are freed; HALT cannot be caught |
| Coroutines (`coroutine.rs`) | per thread: MAIN, CURRENT, LIVE; a stack per coroutine | new, transfer, current, end of a body, free | handles used after their coroutine ended or was freed, addresses handed out again; which stack a collection scans | every switch lands where it should; what the running coroutine refers to is kept |
| Processes (`proc.rs`) | job table, a slot per job, directory cache | RunAsync, RunDone, RunCollect; the daemon's client; ListDir/DirEntry | worker threads against polling callers; two locks taken one after the other; timeouts | a result is handed out exactly once and not before the command ended |
| Compiler daemon (`newm2-driver/src/daemon_unix.rs`) | the socket path, the connections waiting | bind, probe, take over, serve, shut down | several daemons, dead and hanging ones, clients with deadlines | a live daemon's socket is left alone; every request ends |
| IDE, Build & Run (`projects/macide/macos_panes_ide.mod`) | tabs, job slots and the tab of each | launch, the reaping timer, open and close tabs | slots hold tab numbers while tabs move | output is shown, in the tab it belongs to |
| Loader (`newm2-loader`) | module graph, worklist | roots, imports, depth-first sort | import circles, roots, intrinsic modules, missing files | exactly the needed modules, each after its imports |
| Interface cache (`newm2-sema/src/symcache.rs`, `iface.rs`) | a directory of interface files, a table of built interfaces | look up, check, write back | several compilers, edits, ends in mid-write, circles | an interface is made of the texts that were read; a type has one identity |
| Heap check (`newm2-sema/src/heapcheck.rs`) | a state per local pointer | scan of statements and branches, leak report | joins of branches, repeated bodies | a warning is true of the executions that reach it |
| Lowering of statements (`newm2-ir/src/lower.rs`, `builder.rs`), completion checks (`newm2-sema/src/analyze.rs`) | the blocks made so far, the active one, the exits of the loops | one method per statement; `seq_completes`, `guard_arm_nonlocal_exit` | ways out of nested statements; what follows a closed block | the blocks do what the statements mean; a function returns |
| Whole numbers (`lower.rs`, `newm2-llvm/src/codegen.rs`, `newm2-sema/src/constant.rs`) | registers of several sizes | FOR, operators, comparisons, folding | ends of types, mixed sizes and signs | every value of a FOR once; computed is folded |
| Preprocessor (`newm2-lexer/src/preprocess.rs`) | a stack of open conditionals, the version names | %IF, %ELSIF, %ELSE, %END, pragmas, conditions | nesting, chains, names defined in a branch | the text of the branches that are chosen, and no other |
| Parser (`newm2-parser/src/parser.rs`) | a position in the tokens | one function per construct | some eighty functions that look ahead and consume by hand | what is written is what is read |
| `.types` files (`newm2-parser/src/types_out.rs`) | sections, pragmas that wait | sort declarations, print them, evaluate conditionals | pragmas travel with declarations to other sections | the file declares what the module declares |
| Lexer, the rest of sema, lowering and code generation, generators, assembler | none across calls | pure passes | not a matter of state | out of scope |
| Libraries (`library/`), the rest of the IDE, demos, box | Modula-2 programs | | run on the runtime above | out of scope, but for the box's reset between programs |

How they interact. Compiled code calls the manual heap for NEW/DISPOSE and for
the exception frame of every protected procedure (`lower.rs:1276-1285`), polls
`nm2_safepoint` and allocates with `nm2_new_rec` in GC mode, and runs protected
statements under `nm2_run_protected`. Exceptions and HALT are Rust panics with
different payloads that unwind through compiled frames up to a wrapper or to the
driver's `run_protected`. The driver calls module bodies in the loader's order.
The collector asks the coroutines which stack to scan. The IDE calls the job table
for builds and the daemon, through a socket and with a child process as its
fallback, for completions; the daemon runs the loader and the semantic analysis,
and so do the compilers that share an interface cache.
Every shared datum is a process-wide static; CURRENT and the mutator handle are
thread-local.

## 2. The modules

### HeapGuard (heap.rs)

Threads call `nm2_alloc` and `nm2_free`; a step is one atomic access or one call
of the system heap. `MCHeapGuard` gives a behaviour one of two scenes: `race`,
two threads that dispose of what they own, and `stale`, one thread that also
disposes of what it does not. `guard` is `GUARD_STATE` (undecided, on, off, deciding),
`count` is `BLOOM`, `live` the system heap's blocks, `owned` the pointers the
program may dispose of. `Alloc, RecordAlloc, AddSlot, Return` are `nm2_alloc`,
`CallFree, CheckSlot, RemoveSlot, Catch, HeapFree, RecordFree` are `nm2_free`,
`ReadGuard, ClaimGuard, DecideGuard` are `guard_on`, `Enter`/`ForceOn` the hook
that `--protect-heap` puts at the start of `main`. `CallStaleFree` is a DISPOSE
of a pointer the program does not own, at most `StaleLimit` of them; `missed` counts
those that got through. All blocks
have one size, so the byte counters follow the block counters. The system heap
ignores an address it has not handed out, as heap.rs:432-435 describes.

### GcSafepoint (gc.rs, the protocol)

Each thread has a program counter through `park_self`, `nm2_new_rec` and
`collect_stw`, one step per access to shared state: its Mutator's `state`, the
flag `requested`, `lock` (SAFEPOINT_LOCK), `heapLock`, `registry`. A wait on the
condition variable is the place `waiting`; `Notify` moves all waiters back to the
lock, `SpuriousWakeUp` one of them at any time. The timeout of two seconds is
`Abort`, possible whenever the collector waits. Nothing keeps a second thread from
starting a stop of its own, and nothing does in the model. `resuming`, `clashed` (the
threads whose stop has overlapped another's, from the snapshot to the notification) and
`snap`'s clearing are history; a thread that unregisters does not come back.
`MCGcSafepoint` has two scenes: three threads of which one collects, and two that both
do. What the cycle does is
GcCluster's subject.

### GcCluster (gc.rs, the memory)

One cluster in units of 16 bytes. `tag`, `mark`, `size` are what the memory at a unit
reads as a header, so a stale or overwritten header is representable; `bump`, `free`,
`starts` are the fields of `Cluster`. Operators translate `try_alloc` (`AllocBlock`,
`AfterAlloc`, `SplitOff`, `Zeroed`), `resolve` (`Resolve`), and a cycle (`ClearMarks`,
`Marked`, `Swept`, joined in `AfterCycle`). The walk stops where the code's stops: at a
size below MIN_BLOCK or beyond the bump pointer. `gapped` is history: a block was reused
whole for a smaller object, and its header was overwritten (`LeavesGap`). The program
loads and stores pointers in stack words, module variables and fields, and allocates.

### ModuleRun (aot.rs, termination.rs)

The driver's loop: `StartBody`, the three outcomes of a body, `BeginTermination`,
`StartFinal`, the outcomes of a finalizer, `Finish`, and `NextRun`, the box's
reset. It says nothing of what a part does, and is the **abstract specification**
of a run of a program.

### Protected (exceptions.rs, lower.rs), which extends ModuleRun

What happens inside a part: a stack of protected regions, each in its body, its
handler or its FINALLY. `Call` allocates a wrapper's frame, `Catch` is
`nm2_run_protected` catching, `EndBody, EndHandler, EndFinally, Reraise,
ReturnEarly, Retry` are the blocks of `lower_protected_wrapper`, `Unwind` is a
payload passing through. `EndPart` gives the outcome to the driver, whose actions are
ModuleRun's own: each step of the composed system is one of them or leaves the
driver's variables alone, so what is proved of the driver carries over.

### JobService, AsyncJobs, IdeRuns (proc.rs, macos_panes_ide.mod)

`JobService` is the **abstract specification** of asynchronous jobs: a job is
started, finishes, and is delivered to one caller. `AsyncJobs` is the code:
`nextId`, `table` and `full` are NEXT_JOB_ID, the job table's keys and the slots
that hold a result; `TakeId, Insert, Spawn` are RunAsync, `RunDone` one look,
`Lookup, Take, Remove` the sections of RunCollect under its two locks, `Store`
the worker. `ImplementsService` is the refinement: filling a slot is finishing,
emptying it is delivery. `IdeRuns` extends AsyncJobs with the IDE's slots: `Launch,
Launching, Park` are BuildRunSelected, `Tick, SkipSlot, AskSlot, Collect, Show`
BuildPoll, `CloseTab` moves the tabs but not the slots' numbers, as CloseTabAt does.

### DaemonSocket (daemon_unix.rs, proc.rs)

Daemons and clients around one socket path; a step is one system call. `Bind` and
`Listen` are the two of UnixListener::bind, between which a connect is refused;
`Probe, RemoveStale` take the path over, `Accept, Reply, EndOfConnection` serve
one connection at a time, `Shutdown, Halt` end, `Die` and `Hang` are the faults.
`Ask, Connect, StartDaemon, GiveUp, Send, Receive, TimeOut, ChildEnds` are
`daemon_request` and its callers' fallback. What a verb computes is an answer or
an error.

### Coroutine (coroutine.rs, gc.rs)

One thread. `ctx` says what the box at an address is, `live` is LIVE, `held` the
handles the program's variables contain, good or not: `Transfer` takes any of them,
as the code does. A switch to what has ended or is not there is the fate `trap` or
`wild`. `sp` says on which stack the processor is, which CURRENT (`cur`) need not agree
with: `StackScanned` is what `effective_stack_top` makes of CURRENT, and a `Collect`
that would scan from one stack on into another has the fate `fault`.

### TopoSort, Loader (loader.rs)

`TopoSort` is the depth-first sort with its recursion made explicit: an entry of
`walk` is a call of `visit`. `Loader` adds the worklist: `AddRoots, LoadImports,
NotFound, Loaded` over files that are sets of imported names. Its result is the
order whose positions ModuleRun counts.

### SymCache (symcache.rs, iface.rs, analyze.rs)

Compiler processes read the texts, take an interface from its file (`Hit`) when
the key fits or build it with what it imports (`Ensure`), and write back in two
steps (`Truncate, Fill`); `Edit` changes a text, `End` ends a process anywhere. An
interface is the set of texts it is made from; `linked` is which generation of
each import a module's types refer to.

### HeapCheck (heapcheck.rs)

The scan (`Start, Warnings, ScanPlain, Touched, ScanBranch, LeakReported`) beside the
executions of the same procedure (`Mistakes, Effect, Behind`). The procedure grows while
both go over it: `AddPlain`, or `BeginCompound`, then `AddToBody, AddArm, AddExit` and
`EndCompound`, which is where scan_stmt makes unknown what an arm has touched. `scan` is
what the pass has for p, `runs` what p is in the executions that come to that place. A
body is executed any number of times: what it does with p is a function
(`frame.through`), what it has done at an EXIT another (`frame.ways`), and `Rounds` is
the least set closed under the first. WITH and FOR are a `case` of one arm and a `while`.
A call that is given p by VAR may make, free or fill it (`Given`). `BeginExcept,
BeginFinally, AddToPart` are the parts behind the body, which the scan does not look at:
`been` is what p has been wherever something may have been raised, `handled` what it is
in the executions that went through EXCEPT.

### Lowering, Semantics (lower.rs, builder.rs, analyze.rs)

`Lowering` is the translation as operators: a builder is a record of blocks, the active
one and the loops' exit blocks, `Push` and `Terminate` are builder.rs's (an instruction
after a terminator is dropped, the first terminator wins), and there is one operator per
statement, `Lower` being `lower_stmts` and `Compile` the whole with `finish`. Its second
half is what analyze.rs asks before: `SeqCompletes`, `NonlocalExit`. `Semantics` runs a
procedure's statements and its blocks side by side. `Unfold` takes the statements apart
by what the language says they mean, and `ShortCircuit, Control, InRange, ReleaseSlot,
Jump` run what the code does by itself; where both have something to show (an operation,
a test, a query, a poll, an end) they go on together (`Operation, Answer, Pick, Query,
Stop`), the outcome of a test being any. Only a poll due on the back-edge of a REPEAT or
FOR is passed over (`PassPoll`), for the code has none there. Operations are names: what
a call or an assignment computes is left out.

### Ordinals, ForLoop, Arithmetic (lower.rs, codegen.rs, constant.rs)

A register is a number of bits' values and a size, `Wide` for 64 bits and `Narrow`
for 8, 16 or 32; `Coerced, SignExtended, AtMost, FlooredQuotient, ...` are what
codegen emits. `ForLoop` runs `lower_for`'s blocks (`Header, Body, StepTest,
Advance`) beside the number that is due. `Arithmetic` has `Folded` and `Related` for
constants, `Computed` and `Compared` for registers.

### Syntax, Parser (parser.rs)

A parser is a record: the tokens, a position, the nodes made so far, and whether it
has failed. There is one operator per function of the code, from such a record to
the next; after a failure nothing changes any more, as `?` returns. `Syntax` has the
helpers (`At, Bump, Expect, Wrap, Group`), `Parser` the functions themselves, from
`ParseExpr` to `ParseModule`; those that call one another in a circle do so through
`Parse`. A token is a
word, or a kind with its text; names and numbers are single values. Trees keep every
field of ast.rs but spans.

### Levels, Branches, Preprocess (preprocess.rs)

A text is a sequence of pieces: directives with the tokens of their condition,
pragmas, comments, and anything else. `Levels` is the pass: `PieceStep` takes one
piece, `HandleDirective` is handle_directive on the stack of levels, `Emit` passes a
piece on and adds the version names of its pragmas. How a condition is read and what a
pragma defines are constants there (`Legible, Satisfied, Introduces`); `Preprocess` has
them (`Condition` down to `CondValue` is the recursive-descent reading of a condition,
`HoldsIn` its value, `Defines` the names), takes `Levels` with them and goes over a
whole text with `Through`. `Branches` is the pass as a process, one piece a step
(`ReadPiece`), beside what the text means: `Depth`, `Encloses` and `Heads` are about the
text so far as a whole, `OnChosenPath` says which of its places the conditions choose.

### TypesOut (types_out.rs)

One `Format...` operator per function, from trees to tokens; `Sorted` is the loop
that puts declarations and the pragmas before them into sections; `TypesOutOf`
rewrites the pragmas to directives and runs the preprocessor over the result.

### ReadBack, MCReading

Not code: the reference that reading and writing are compared with. `Written` writes a
tree by the rules of the language with the fewest parentheses, by levels of
operators; the meaning of a text with conditions is defined from its
structure as a whole, not piece by piece. `MCReading` has the trees, chunks of
modules and pieces of texts for TLC.

### The MC modules

`MCCollector` runs GcCluster and Coroutine as two scenes, `MCIde` three (jobs,
builds, the daemon), `MCCompile` nine (loader, cache, heap check, procedures, FOR
loops, sums, programs, definition modules, texts), with the definitions of
`MCLowering` and `MCReading`; parts in different scenes share
no state in the code either. What does not belong to the scene stays idle.

## 3. The runs

| Run | Expect | Bounds | Question |
|---|---|---|---|
| HeapGuard | pass | 4 pointers sharing slots, 3 slots, 2 hashes, saturation at 2, 4 allocations; 2 threads, or 1 with 3 stale frees | concurrent correct programs; which invalid frees get through, and what they cost |
| GcSafepoint | pass | 2 collections; 3 threads, 1 collector; 2 threads, 2 collectors | stops, exits, registrations, timeouts, stops that overlap |
| GcSafepointLate | violation | 2 threads, 2 collections | is the world really stopped |
| Collector | pass | 8 units, blocks of 2 and 3, up to a gap, 2 words, 1 variable, 1 field; 3 boxes, 2 objects | allocation and collection; handles, switches, the stack a collection scans |
| CollectorGap | violation | 7 units, blocks of 3 and 4 | a remainder of one header |
| Protected | pass | 2 modules, 2 exceptions, HALT 0 and 3, depth 4, 3 raises and HALTs | exceptions, HALT and the driver |
| ProtectedReraise, ProtectedFinally | violation | 1 module, depth 3, 2 raises | two statements of comments and guide |
| Ide | pass | 2 callers and 2 jobs; 3 jobs, 2 slots, 2 editors; 3 daemons, 2 clients, 2 requests, 1 fault | jobs, builds, completions |
| Compile | pass | 4 names, one intrinsic, one root, every import relation; 3 modules as chain and circle, 2 versions, 2 compilers, 3 builds, 1 edit; procedures of 3 statements with bodies of 3, of 2 with a call or an EXCEPT or FINALLY part; procedures of two levels of statements and one after them; registers of 16 and 4 values, all loops and operands; 890 programs; definition modules of 5 parts; texts of 4 pieces | order and completeness of the graph; the cache; the warnings; code and statements; whole numbers; reading and writing |
| CompileCache | violation | the cache with 1 compiler, 2 builds, 1 edit | does the cache only skip work |
| LowerExit | violation | the procedures of Compile | does an EXIT leave its LOOP |

Why the bounds are enough to be interesting. *HeapGuard*: with three slots all pointers
collide, two share every slot, and saturation at 2 is reached by two live pointers; four
allocations let a third pointer reuse an address another thread is just giving back; the
fourth pointer shares each of its slots with one other, so that one missed free costs
two correct ones, the bound of `RefusalsBounded`. *GcSafepoint*: the second collection
is what makes a late resumer possible; the third thread exits or registers while the
other two are in a stop; two collectors overlap in every way, and one's second stop
comes after the overlap is over. (Three threads with two collectors, 1.1 million states,
were explored for `WorldStopped` alone.) *Collector*: eight units hold four small
blocks, enough to split one, coalesce three and have an unreachable chain; a block of
three reused for two is a gap, behind which the scene ends. *Protected*: depth four is a
module body, a procedure, its handler's callee and a callee of that; three raises let a
handler's callee raise while an exception is being handled and a HALT follow. *Ide*: two
callers can both be between RunCollect's two locks; three jobs overflow two slots and
two editors are enough for a tab to move under a job; three daemons are one that
listens, one that probes and one that comes in between, and with a fault the first can
die and leave its file. In the coroutines' scene: main, one it transfers to, and a third
box whose address is reused. *Compile*: four names contain every circle with something
it imports; a third build reads what two racing ones have written, one of them before an
edit; three statements suffice for each of the six exceptions of `WarningsReal`, which
were found by leaving them out; about ten thousand procedures are every kind of
statement in every other, with bodies that fall through, EXIT, RETURN, HALT or do so in
the middle, so that each block is left in each way; sixteen and four values are the
least with two sizes, a sign and a half of either, and all bounds, seven steps and all
pairs of operands of them are tried. The programs read are every construct of the
grammar with every kind of expression, type, statement or declaration in each place it
has for one; five parts are a conditional with an ELSE around declarations of two kinds,
four pieces a nested conditional or a chain of four.

`AllocLimit`, `StaleLimit`, `CycleLimit`, `Depth`, `RaiseLimit`, `JobLimit`,
`EditorLimit`, `RequestLimit`, `FailLimit`, `BuildLimit`, `EditLimit`,
`CheckLimit`, `BodyLimit`, `ValueLimit`, `ChunkLimit`, `PieceLimit` are the only
bounds; each is in the guard of the action it limits. The heap check and the texts have
theirs in MCCompile's actions only (with one compound statement a procedure), so that
what is proved of them is proved without.

Deadlock is not checked where the model may stop: at one of these limits, with
all threads gone, with no heap left, when a coroutine has gone astray, or when a
compilation is over. It is checked in Protected.

**Symmetry** is used on stack words (Collector), exceptions (Protected) and compiler
processes (Compile). Compile and Protected check invariants only. Collector's
`CycleReclaims` is of the form `[][A]_v` and treats the permuted values alike; no run
with symmetry checks a liveness property.

**Fairness.** HeapGuard's is weak fairness of the steps *inside* a call,
GcSafepoint's of the steps inside the runtime (`Runtime`): the operating system
schedules a thread that can run. Nothing obliges a program to call anything, a
thread to poll or exit, or a condition variable to wake for no reason. Weak
fairness also covers `Abort`: the code's deadline does arrive. `StopsEnd`
therefore holds even if other threads never poll. In MCIde the handlers of the run
loop run to their end (weak), the timer comes round however often other events are
taken first (strong, since every handler disables it for a moment), callers finish
their calls and workers store what has ended (weak), daemons and clients are
scheduled and their deadlines arrive (weak). Nothing obliges a user to build or a
daemon to answer: `Hang` and `Die` compete with it.

### What the properties say

* *CorrectFreeNotCaught, AccountsExact, MissOnlyByAliasing, CallsReturn*: the promises
  of heap.rs:63-73 and of the leak report, across interleavings of the two loops of `bloom_remove`.
  *RefusalsBounded*: where the first promise fails, after an invalid free was missed, each
  such free costs at most as many correct ones as a pointer has slots.
* *WorldStopped*: exclusion between a cycle and the mutators of its snapshot in a stop
  that overlaps no other, except the threads in `resuming`, for which the code does not
  have it (finding GcSafepointLate); nor does it in stops that overlap (section 4), but
  the stops after those are good again. *StopsEnd*: no lost wake-up, no endless collection.
* *ReachableIntact, WalkTiles, ResolveExact, CycleReclaims*: the bitmap, the
  headers, the free list and the reachability relation agree, until a reuse leaves a gap.
  *ReachableKept* is the first without that proviso, and violated (CollectorGap).
* *ModulesFinalized* (in reverse order, and all that were initialized), *RunTold* (the
  exit status and the flags of TERMINATION): the driver. *CurrentException* (a handler
  sees its own, and nobody a stale one), *FramesFreed, HaltStopsBodies*: the protected
  regions (frames unwound through are counted as leaked).
* *ResultKept, ImplementsService*: output is neither lost nor handed out twice.
  *MarksFollowTabs*: error marks reach the editor their build came from, unless tabs
  were closed meanwhile (for then they need not). *OutputShown*: a parked job is
  reaped once its command has ended.
* *StealsOnlyRacing*: a live daemon's socket is removed only if it was not listening yet
  when the remover probed: it came to the path between probe and removal, or was bound
  before the probe and listened after it. *RequestsEnd*: no request hangs the IDE.
* *SwitchesLand*: exactly one coroutine runs, main waits where a returning body
  finds it, and only a handle that is out of date leads astray. *RunningStackKept*:
  whatever coroutines do, CURRENT and the stack pointer agree on what a collection scans,
  and objects are lost only to stacks that were suspended during one.
* *ImportsFirst, GraphComplete*: the order of initialization and what is in it.
* *DefsFresh, OneIdentity*: what an interface is made of and refers to.
  *WarningsReal*: no false alarm but the six kinds named in it.
* *CodeFollowsSource*: whatever tests answer, the code does the same operations in the
  same order as the statements and ends the same way, polls on the back-edges of REPEAT
  and FOR apart (section 4). *FunctionsReturn*: what
  analyze.rs accepts never falls off its end. *ReleasedOnce*: references held are
  those of the GUARD arms being run. All three are about procedures whose EXITs are
  directly in a LOOP (see LowerExit); what an EXIT does elsewhere is in section 4.
* *EveryValueOnce*: a FOR runs for exactly the values it means, up to the ends of its
  type, if its bounds are numbers codegen compares as they are meant (`Ordinary`).
  *ArithmeticFolds*: an operator computes what it folds to, if a type of its operands
  has that value (with the exceptions `SameKind` and `/`).
* *ReadsBack*: a program that is written and parsed is the same program.
  *BranchesChosen*: the preprocessor copies exactly the branches that the text as a whole
  selects, and knows the names defined in those. *WrittenAsMeant*: the `.types` file, with its
  conditionals evaluated, declares what the module declares with its conditionals evaluated, for
  the modules whose conditionals each stay in one section (section 4 has the others).

`SceneTypes` (in MCCollector, MCIde and MCCompile, the conjunction of the modules'
type invariants; those of HeapGuard, GcSafepoint and Protected are proved only)
also states what must be unique or exclusive in the state: a lock is held exactly
in its section, an id is given to one RunAsync, no job is in two slots, no
connection in two queues, LIVE lists exactly what is allocated.

## 4. What the violation runs found

1. **GcSafepointLate**: gc.rs:593-595. RUNNING is stored after the lock is
   dropped (gc.rs:645-646); a stale PARKED is taken for an answer.
2. **CollectorGap** (a bug): gc.rs:721 overwrites the size of a block taken whole;
   the walks stop at the gap, marks stay, a reachable object is freed.
3. **ProtectedReraise** (a bug): a FINALLY that handles an exception of its own
   clears CURRENT, and `nm2_reraise` panics (exceptions.rs:149-157).
4. **ProtectedFinally**: m2-guide/memory-and-exceptions.md:152-153. RETURN or a
   raise in a handler skips FINALLY.
5. **CompileCache** (a bug): symcache.rs:10. A key names DEFs only, while an
   interface can take in what another module's MOD says; and a record without a
   name is copied on a hit, so that a program can fail to compile only because of
   the cache.
6. **LowerExit**: m2-guide/statements-and-control-flow.md:166-167 and
   analyze.rs:5998. WHILE, REPEAT and FOR push a loop frame as LOOP does, and an
   EXIT takes the top one (lower.rs:2212-2214).

Noted while modelling, and not runs:

* Collector: gc.rs:22 puts finalizers after the safepoint window, the code runs
  them inside it; two collectors at once see each other parked, and the first to
  finish resumes the mutators during the other's finalizers (gc.rs:1015, 1030).
* Daemon: "never steal a live one out from under it" (daemon_unix.rs:47-48), but one that
  is bound and does not listen yet, or is bound after the probe, answers nobody and is
  robbed; and a daemon whose path was taken removes its successor's when it shuts down.
* Heap guard: heap.rs:67-69 says that it never blocks a correct free, but a stale
  free missed by aliasing takes counts from live pointers, and the correct free
  of one of those is caught later (heap.rs:187); after such a miss `live_blocks`
  can be below the number of live blocks.
* Exceptions: RETURN in a handler keeps CURRENT (lower.rs:2246, against
  exceptions.rs:48-49); lower.rs:1465 frees the exception frame "on every exit
  path", unwinding through a wrapper leaks it (`FramesFreed` counts those as
  leaked); an exception with source 0 is swallowed by `nm2_run_protected`.
* Driver: the status of a HALT in a finalizer is dropped; the box's `reset_run`
  does not clear CURRENT.
* Coroutines: a stack that is suspended is not scanned (gc.rs:622-630 against its
  header, 15-18); a HALT or a raise inside a coroutine's body aborts; a freed handle
  can name a new coroutine at the same address, which `free` then accepts
  (coroutine.rs:479-480).
* IDE: a job's error marks go to the tab that has the number its tab had
  (macos_panes_ide.mod:72, CloseTabAt at 364-378). RunCollect can answer "not
  finished" after the command has ended, when another caller is between its locks.
* Loader: with `--m2-heap` the root Heap may be initialized after the program's
  body (newm2-driver/src/main.rs:1651, newm2-llvm/src/lib.rs:98-99 and 934-937);
  modules on a circle may run before what the circle imports.
* Heap check: `DISPOSE(p); p := q` counts as a use after DISPOSE; the condition of
  UNTIL is scanned with the state before the loop; a second NEW does not ask
  whether the first block has another pointer to it; and an EXIT in the middle of
  a LOOP's body is not a way out of it, so `NEW(p); LOOP DISPOSE(p); IF c THEN EXIT
  END; NEW(p) END` is reported as a leak. A call leaves what the pass knows of p as it is
  (heapcheck.rs:175-176) though it may set p by VAR: `DISPOSE(p); Make(p); DISPOSE(p)` is
  reported as a double DISPOSE. EXCEPT and FINALLY are not scanned (87-94): `NEW(p) FINALLY
  DISPOSE(p)` is reported as a leak.
* EXIT: outside of a LOOP it is never diagnosed (analyze.rs:6538; lower.rs:2216 says
  "already diagnosed by sema", the guide at 189-190 "semantics requires an enclosing
  LOOP"), so a function `BEGIN EXIT END` is accepted and falls off its end.
  `stmt_has_exit` does not look into the EXCEPT and FINALLY parts of a nested block,
  and `is_noreturn_call` takes any procedure named RAISE or HALT for one that does not
  return.
* FOR, outside of `Ordinary`: a range of half the type or more wraps and stops early;
  CARDINAL bounds from 2^63 compare as negative; a narrow signed variable is extended
  with zeros against a constant bound, so that `FOR i := -1 TO 1` over an INTEGER8
  never runs and `FOR i := 3 TO -1 BY -1` never ends; a narrow unsigned variable whose
  end is a variable of its own type in the upper half never runs. A FOR over a
  module-level variable uses a 64-bit slot of its own (lower.rs:2414-2425), which other
  procedures do not see.
* Safe points: REPEAT and FOR emit none (lower.rs:2382-2402, 2404-2523), although
  lower.rs:11 and inst.rs:189 promise them at loop back-edges, so a stop waits for such a
  loop until its deadline. `CodeFollowsSource` takes the source to poll there, as those
  comments say, and names the two as its exception.
* Whole numbers: stores, arguments and RETURN extend with zeros, a narrow signed value
  too (m2-guide/declarations-and-types.md:90); VAL(INTEGER, c) of a narrow CARDINAL
  extends with the sign (standard-environment.md:86); `/` of negative INTEGERs is an
  unsigned quotient at run time and a truncated one when folded; DIV is floored, the
  guide says that it truncates (expressions-and-operators.md:30, 39-42); a range label
  of CASE compares a narrow signed selector extended with zeros, and a CARDINAL one as
  signed.
* Parser: `a = b OR c = d` is read as `(a = (b OR c)) = d`
  (m2-guide/expressions-and-operators.md:20 has it as `(a = b) OR (c = d)`); `a = b = c` is
  read as `(a = b) = c` (parser.rs:1945-1965), a parse error by the guide (11, 96), so what
  ReadBack writes has parentheses there; a sign takes
  the whole first term (`-7 MOD 2`); an ASM body without its END loops for ever
  (parser.rs:1074-1106, `bump` stays at the end of the text); CONST before a CLASS,
  INTERFACE or ASSERT, and VAR before the last two, do not parse where TYPE does
  (844-866 against 810 and 906); of two CASE parts of a record the last is kept.
* `.types` files: a pragma goes with the declaration behind it (types_out.rs:60-214), so
  `<*IF*> CONST ..; <*END*> TYPE ..` loses its END, `<*IF*> CONST x; TYPE t; <*END*>
  CONST y` makes `t` unconditional without a warning, and nested conditionals of one kind
  lose an END; AND, OR and NOT of a pragma are not what the %IF evaluator reads; the END of
  a pragma between fields is dropped; `a*, b` is written as `a, b*`, `(a)^` as `a^`, and
  a character literal without what it was written as.

## 5. What is proved

For every value of the constants that satisfies the modules' named assumptions, and
nothing else unless a theorem says so in its ASSUME. Each theorem about a behaviour
rests on an inductive invariant that TLC checked first.

**HeapGuardProofs.** `TypeCorrect`, and `GuardNeverBlocks`: as long as the program has
freed no pointer it does not own, no free is caught. The property is not
inductive: that a thread checking slot *i* reads non-zero depends on how often
every other thread has incremented and decremented that slot. `IInv` adds that a
pointer is with one thread or owned by the program (`OneHolder`), that nothing
has passed the guard before it was decided (`Before`), and that each counter is
at least the number of pointers that currently count in its slot, or saturated
(`CountCovers`). The lemmas are about how that set changes in each step, with the
cardinality theorems of the library. A stale free voids all of this, so what is
inductive is `Inductive == Shape /\ (stale = 0 => IInv)`. `ReportOnce` has a
smaller invariant.

`AccountsAgree`, that the leak report is exact whenever no call is under way, needs
the other half: a counter that is not stuck is *at most* what counts in its slot
(`CountCovered`), a live block is owned or with a thread (`Held`), and the report
lags the system heap by the calls between the two (`Reported`). `MissesAreAliases`,
that a stale free gets past the guard only where its slots are shared with live
blocks or saturated, is proved of one thread (`Alone`), which is what heap.rs:69-70
claims it for; there a missed free takes counts away and never adds one, so a count
is always explained by live pointers (`Explained`).

**GcSafepointProofs.** `TypeCorrect`, `WorldIsStopped`, and `UntaggedIsSafe` as a
corollary, for any threads, any of which collect. The invariant says that of two stops
which overlap both are known for it (`OverlapsClash`), that a PARKED state is shown only
from a place in `Parked`, on the way out, or by a collector (`ParkedIsHonest`), that the
flag is up while a collector whose stop overlaps no other needs it (`AskingRequests`),
and that no thread gets past its wait while it is up unless it had before (`LateResume`).

**CollectorProofs, the cluster.** `ReachableStaysIntact`, `WalkMeetsAll`,
`ResolutionIsExact`, `CycleReclaimsAll`, for a cluster of any size, types of any sizes and
any program, up to the first reuse that leaves less than a block (`gapped`): then the code
does not have these properties, which is the bug of CollectorGap. Types whose sizes never
leave such a remainder never come to it. What is inductive is `ClusterInv`, that `CInv`
holds until then; `CInv` says that blocks tile the cluster up to the bump pointer
(`Tiled`), that the free list has exactly the free
ones, once (`FreeListed`), that no mark outlives a cycle and fresh memory is zero
(`Clean`), and that every pointer of the program and of an object leads to an object
(`Linked`, `Rooted`). What the recursive functions of the model compute is shown by
induction: the linear walk meets every block, the trace marks exactly what can be
reached, and the sweep, block by block, leaves a tiling in which no two free blocks
touch.

**CollectorProofs, coroutines.** `CoroutineShape`, `SwitchesAlwaysLand`,
`RunningStackIsScanned`.
The type invariant (LIVE is what is allocated, main apart) is inductive by itself;
`MainStays` adds that main cannot be freed or end, without which the return of a
body would have nowhere to go, and `OnOwnStack` that as long as nothing has gone astray
the stack that effective_stack_top names is the one the processor is on.

**ProtectedProofs.** First the driver: `RunInv` ties `status`, which records each
module's fate, to the driver's counters (`StatusInv`), the error and the halt code to
the phase (`OutcomeInv`, `LoopInv`), and the flags (`FlagsInv`). From it:
`FinalizedInReverse` and `EveryModuleFinalized`, which are `ModulesAreFinalized`;
`HonestExit` and `TerminationTold`, which are `RunTellsTheTruth`. A composed system's
step is a step of ModuleRun or leaves its variables alone (the lemma `ProgramIsARun`),
whence `DriverGuarantees`. `CodeInv` strengthens the properties of the stack: each
frame's part fits its exception, a frame with another above it has called a procedure,
frames are counted, CURRENT belongs to the top frame (`TopInv`) or to nobody
(`StaleInv`). From it: `ShapeKept`, `HandlersReadTheirOwn`, `CurrentIsCleared` (together
`CurrentIsOwnOrNone`), `ExceptionFramesFreed`, `HaltGetsThrough`.

**JobProofs, the job table and the IDE.** `ServiceImplemented`: AsyncJobs implements
JobService, for any
callers and any number of jobs; each step maps to a step or a stutter. Its
invariant ties ids in flight to the workers' states, so that no id is given out
twice and a slot is filled once; from it also `JobsShape`, `OutputKept` and
`UnknownTruthful` (who is told "unknown" can rely on the job having been collected).
`IdeIsACaller`: each step of the IDE is, for the table, one of a caller of it, so that
what holds for any callers holds there too (`JobsOfTheIde`). `MarksInTheRightTab`, for
any number of tabs, slots and jobs: `IdeInv` says that a slot's number is the place of
the tab its job came from, unless tabs have moved (`SlotsInv`), through the handlers
that are interrupted half-way (`HandlerInv`). `IdeShape` is its type invariant.

**JobProofs, the daemon's socket.** `StealingIsRacing`, for any number of daemons and
clients, of which any may die or hang. A probe that finds nobody is stale when the path
is removed; what is inductive is that whoever listens on the path then began to after
the probe (`Stale`), bound before it or not, that a live daemon has the path or was
robbed of it (`Held`), and that requests and connections are not mixed up
(`OwnRequests`, `Queues`), without which a daemon could serve one that is not in its
queue. `SocketShape` is the type invariant. That a daemon which shuts down removes the
path whosever it is (daemon_unix.rs removes by name) had to be recorded in `lost` as
well: four daemons make it matter.

**LoaderProofs, the loader.** `ModulesComeAfterImports`: the order is right for *every*
graph.
`Accounted` says what the walk still owes each module it is inside of, `Progress`
that what is visited is placed or on the walk, and `Path` that each entry of the
walk imports the next, which is what makes an import that is passed over part of a
circle. `LoadedInOrder` and `LoadsWhatIsNeeded` are about the loader as a whole: what
is a node is needed and there, what waits in the worklist has no imports yet and
everything else has those of its file (`Grown`, `Waiting`), so that an empty worklist
is a closed graph. `LoaderShape` is the type invariant.

**LoaderProofs, the interface cache.** `DefsAlwaysFresh` and `TypesHaveOneIdentity`, for
any import graph, any number of compilers, and edits and broken writes at any moment.
`CacheInv`: a whole file is about its module and made of the DEFs its key names; what
a process has built is made of the DEFs it has read, from modules it has built and
linked to them (`Builds`), at each stage (`StageFits`). The keys are folded over
everything a module imports, directly or not; that the recursive function of the model
computes that set is the lemma `ReachIs`. `CacheShape` is the type invariant.

**CompileProofs, whole numbers.** `LoopTakesEveryValue`: for registers of any even sizes, the
wide one a multiple of the narrow one, and all four kinds of type. The property says that the
register holds the value due, but only in the body; `IInv` says what it holds at each
block: after the body the value just done, one step behind, and on the way from the
step block that another step fits. The lemmas are about remainders (a sum of bits is
the bits of the sum), about what a comparison of registers finds for numbers that
`ComparesRight`, and that `end - cur` and the step do not wrap when `DistanceFits`.
`LoopShape` is its type invariant. `OperatorsFold`, by cases on the operator: operands
at the size of the operation are their values modulo that size (`OperandsAligned`), an
unsigned operation has operands that are not negative and a signed one operands of the
signed half (`KindsAre`), a sum, difference or product of bits is that of the numbers
(`ModBits`), and the two ways to decide whether a quotient is rounded down, by the
remainder's sign in constant.rs and by the dividend's in codegen.rs, agree
(`FlooredIs`).

**CompileProofs, the preprocessor.** `BranchesAreChosen`, for any text, any conditions
and any way to read them. What a place of a text means is said from the whole text, by
counting %IFs and %ENDs before it; what the code has is a stack. `BranchesInv` says that
they agree as long as there is no error: the stack has a level for each %IF around the
next place, a level has `currentTake` when the place is in the arm its %IF chooses,
`anyTaken` when it or an arm before it is, `parentActive` when the %IF itself is on the
chosen path; the versions are those of what has been passed on. The lemmas say what one
more piece does to the depth of places, to the %IFs around the next one and to the heads
of their arms (`OpensMeans, TurnsMeans, ClosesMeans, EmitsMeans`), and that it changes
nothing about the places before it. `TypeOfBranches` is the type invariant.

**CompileProofs, the heap check.** `WarningsAreReal`, for procedures of any length, with
compound statements of any number of arms and statements in them. `CheckInv`: unless an
EXIT was in the middle of something, p is where its state in the scan says (`May`), and
a copy of it only if it has been copied and has escaped (`SafeAt`). While a statement is
open, the same holds of its beginning and of the arms that have ended, and of what the
body does with p as a function (`Keeps`): it takes what the state before allows to what
the state now allows. That is what makes any number of rounds of a loop stay within what
holds behind it (`RoundsStay`, `UnknownStays`). An EXIT's way out keeps the state before
the loop, or has come after a change and no other follows (`WayOut`), which is where the
exception `LeftInBetween` comes from. Calls that set p are one of the exceptions for all
warnings but that of a leak, which the scan does not give for a pointer that was an
argument. `TypeOfCheck` is the type invariant.

**SetLemmas.** Least and greatest elements of sets of naturals, induction as a fact
about such sets (the library's induction theorems take an operator, which the provers
cannot instantiate), and finite sets in ascending and descending order. With these,
what the recursive *functions* of the model compute (`Reach`, the walk, the trace and
the sweep) is within reach of a proof.

Assumed: only the modules' named ASSUMEs, which TLC evaluates in each run
(`GuardAssumption`, in particular that the slots of one pointer are distinct,
heap.rs:153; `SafepointAssumption`; `ClusterAssumption`; `RunAssumption`;
`ProtectedAssumption`; `JobsAssumption`; `IdeAssumption`; `SocketAssumption`;
`CoroutineAssumption`; `NamesAssumption`; `LoaderAssumption` and `CacheAssumption`,
files and modules are finitely many; `SizesAssumption`, `LoopsAssumption`,
`OperandsAssumption`, a constant fits a 64-bit register; `NamedAssumption`, `Named` has
the names that pragmas introduce).

**Only model-checked.** `RefusalsBounded`, a sum over the slots of a filter; liveness
(`CallsReturn`, `StopsEnd`, `OutputShown`, `RequestsEnd`), which the prover's fragment
does not cover; Lowering, Semantics, Parser, the conditions of Preprocess, and TypesOut
(`CodeFollowsSource`, `FunctionsReturn`, `ReleasedOnce`, `ReadsBack`, `WrittenAsMeant`),
because they are recursive operators over statements and programs, of which nothing can
be proved by induction here. `SceneTypes` is the conjunction that a run checks of type
invariants that are each proved, but for Semantics' `TypeOKSem`.

## 6. What is not modelled, and the plan

Not modelled and not planned: the passes that keep no state and whose result is a
translation of text or of types (the lexer, name resolution, typing, the lowering of
designators, calls, strings, sets, reals and classes, and their emission through LLVM):
a model of those would be a second compiler, its properties a semantics of Modula-2.
Generated definitions, input and output, the Objective-C bridge, the crash handler's
printing, the applications but for Build & Run. Inside the modelled parts: the
collector's growth to more clusters and its type registry, finalizers that call back
into the collector (code generation emits none), threads that register twice
(nm2_register_thread after an allocation leaves a Mutator in the registry that never
parks), concurrent frees of one pointer, RunCapture and the directory cache of proc.rs
(one for the process, read by index, so that two threads that list at once read each
other's entries), the daemon's verbs, the Windows backends (fibers, named pipe), nested
FOR loops, bodies that assign to their FOR variable, weak memory (the guard's counters
are relaxed atomics: only each counter's own order is used by the properties; the rest
are SeqCst or acquire/release pairs under locks).

Order of the work, all but the twelfth done:

1. `HeapGuard` and its proofs.
2. `GcSafepoint` and its proofs.
3. `GcCluster`.
4. `ModuleRun` and its proofs, the abstract specification of a run.
5. `Protected`, composed with ModuleRun, and its proofs.
6. `Coroutine` with the stacks a collection sees, and its proofs.
7. `JobService`, `AsyncJobs` with the refinement and its proofs, `IdeRuns` on top.
8. `DaemonSocket`: daemons and clients around one socket path.
9. `TopoSort` and its proofs, `Loader`, `SymCache`, `HeapCheck`.
10. `Lowering` with `Semantics`, `Ordinals`, `ForLoop` and its proofs, `Arithmetic`.
11. `Syntax`, `Parser`, `Levels` with `Branches`, `Preprocess`, `TypesOut`, with
    `ReadBack` to compare.
12. `GcSafepoint` with Mutator objects apart from threads: double registration,
    registration after the snapshot.
13. Proofs, done: HeapGuard's `AccountsExact` and `MissOnlyByAliasing`, GcCluster,
    IdeRuns, DaemonSocket, Loader, SymCache, Arithmetic, Branches, HeapCheck. Left: what
    of Semantics' small steps can be stated without recursion over statements.
