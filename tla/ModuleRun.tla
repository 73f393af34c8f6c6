------------------------------ MODULE ModuleRun ------------------------------
(***************************************************************************)
(* One run of a program: the driver that initializes its modules and       *)
(* finalizes them (newm2-runtime/src/aot.rs, nm2_aot_run; the JIT and the  *)
(* box have the same loop, newm2-llvm/src/lib.rs run_modules and           *)
(* boxjit.rs).  What the code of a module does is left open: a part (a     *)
(* body or a finalizer) returns, calls HALT, or lets an exception escape.  *)
(* Protected says what happens inside a part.                              *)
(***************************************************************************)
EXTENDS Integers

CONSTANTS
    N,          \* modules, numbered so that imports come before importers
    Codes,      \* the statuses of HALT: its arguments cut to 32 bits
    NoHalt,     \* no HaltMarker
    NoError     \* no error to report

ASSUME RunAssumption ==
    /\ N \in Nat
    /\ Codes \subseteq Int
    /\ NoHalt \notin Codes
    /\ \A p \in {"body", "final"}, i \in 1 .. N : NoError # <<p, i>>

VARIABLES
    phase,        \* "body", "break" (the loop over the bodies was left),
                  \* "final" or "done"
    running,      \* the driver is inside a part
    initialized,  \* bodies that have run or halted
    left,         \* finalizers still to run
    halting,      \* the status in the HaltMarker that unwinds, or NoHalt
    haltCode,     \* halt_code
    error,        \* first_error: the part it came from
    halted,       \* HALTED
    terminating,  \* TERMINATING
    status        \* history, by module: "untouched", "initialized", "failed"
                  \* or "finalized"

runVars == <<phase, running, initialized, left, halting, haltCode, error,
             halted, terminating, status>>

Modules == 1 .. N

\* The module whose part is running.
Part == IF phase = "body" THEN initialized + 1 ELSE left

Set(i, s) == status' = [status EXCEPT ![i] = s]

\* An error is kept when it is the first.
Report == error' = IF error = NoError THEN <<phase, Part>> ELSE error

-----------------------------------------------------------------------------

Init ==
    /\ phase = "body"
    /\ running = FALSE
    /\ initialized = 0
    /\ left = 0
    /\ halting = NoHalt
    /\ haltCode = NoHalt
    /\ error = NoError
    /\ halted = FALSE
    /\ terminating = FALSE
    /\ status = [i \in Modules |-> "untouched"]

StartBody ==
    /\ phase = "body"
    /\ ~running
    /\ initialized < N
    /\ running' = TRUE
    /\ UNCHANGED <<phase, initialized, left, halting, haltCode, error, halted, terminating, status>>

(* nm2_halt: the flags are set and the HaltMarker is on its way.              *)
Halt(code) ==
    /\ running
    /\ halting = NoHalt
    /\ halting' = code
    /\ halted' = TRUE
    /\ terminating' = TRUE
    /\ UNCHANGED <<phase, running, initialized, left, haltCode, error, status>>

\* The three outcomes of a body (run_protected, and the loop's match).
BodyRan ==
    /\ phase = "body" /\ running /\ halting = NoHalt
    /\ running' = FALSE
    /\ initialized' = initialized + 1
    /\ Set(Part, "initialized")
    /\ UNCHANGED <<phase, left, halting, haltCode, error, halted, terminating>>

\* Mutant: a module that halts does not count as initialized.
BodyHaltedUncounted ==
    /\ phase = "body" /\ running /\ halting # NoHalt
    /\ running' = FALSE
    /\ Set(Part, "initialized")
    /\ haltCode' = halting
    /\ halting' = NoHalt
    /\ phase' = "break"
    /\ UNCHANGED <<initialized, left, error, halted, terminating>>

BodyHalted ==
    /\ phase = "body" /\ running /\ halting # NoHalt
    /\ running' = FALSE
    /\ initialized' = initialized + 1
    /\ Set(Part, "initialized")
    /\ haltCode' = halting
    /\ halting' = NoHalt
    /\ phase' = "break"
    /\ UNCHANGED <<left, error, halted, terminating>>

BodyFailed ==
    /\ phase = "body" /\ running /\ halting = NoHalt
    /\ running' = FALSE
    /\ Set(Part, "failed")
    /\ Report
    /\ phase' = "break"
    /\ UNCHANGED <<initialized, left, halting, haltCode, halted, terminating>>

(* begin_termination, after the last body or the one that broke the loop.     *)
BeginTermination ==
    /\ ~running
    /\ phase = "break" \/ (phase = "body" /\ initialized = N)
    /\ phase' = "final"
    /\ left' = initialized
    /\ terminating' = TRUE
    /\ UNCHANGED <<running, initialized, halting, haltCode, error, halted, status>>

\* Mutant: the finalizers run in the order of the bodies.
StartFinalForward ==
    /\ phase = "final"
    /\ ~running
    /\ left > 0
    /\ running' = TRUE
    /\ Set(initialized - left + 1, "finalized")
    /\ UNCHANGED <<phase, initialized, left, halting, haltCode, error, halted, terminating>>

StartFinal ==
    /\ phase = "final"
    /\ ~running
    /\ left > 0
    /\ running' = TRUE
    /\ Set(left, "finalized")
    /\ UNCHANGED <<phase, initialized, left, halting, haltCode, error, halted, terminating>>

(* A finalizer that returns, or calls HALT, whose status is dropped.          *)
FinalRan ==
    /\ phase = "final" /\ running
    /\ running' = FALSE
    /\ left' = left - 1
    /\ halting' = NoHalt
    /\ UNCHANGED <<phase, initialized, haltCode, error, halted, terminating, status>>

FinalFailed ==
    /\ phase = "final" /\ running /\ halting = NoHalt
    /\ running' = FALSE
    /\ left' = left - 1
    /\ Report
    /\ UNCHANGED <<phase, initialized, halting, haltCode, halted, terminating, status>>

Finish ==
    /\ phase = "final" /\ ~running /\ left = 0
    /\ phase' = "done"
    /\ UNCHANGED <<running, initialized, left, halting, haltCode, error, halted, terminating, status>>

\* Mutant: the flags of the last run are kept.
NextRunUnreset ==
    /\ phase = "done"
    /\ phase' = "body"
    /\ initialized' = 0
    /\ haltCode' = NoHalt
    /\ error' = NoError
    /\ status' = [i \in Modules |-> "untouched"]
    /\ UNCHANGED <<running, left, halting, halted, terminating>>

(* The box runs one program after another in one process (reset_run).         *)
NextRun ==
    /\ phase = "done"
    /\ phase' = "body"
    /\ initialized' = 0
    /\ haltCode' = NoHalt
    /\ error' = NoError
    /\ halted' = FALSE
    /\ terminating' = FALSE
    /\ status' = [i \in Modules |-> "untouched"]
    /\ UNCHANGED <<running, left, halting>>

\* Mutant: the error is printed and not exited with.
ExitStatusOfHalt == IF haltCode # NoHalt THEN haltCode ELSE 0

\* What the process exits with.
ExitStatus ==
    CASE error # NoError                        -> 1
      [] error = NoError /\ haltCode # NoHalt   -> haltCode
      [] error = NoError /\ haltCode = NoHalt   -> 0

-----------------------------------------------------------------------------

PartRan == BodyRan \/ (halting = NoHalt /\ FinalRan)
PartHalted == BodyHalted \/ (halting # NoHalt /\ FinalRan)
PartFailed == BodyFailed \/ FinalFailed
Driver == StartBody \/ BeginTermination \/ StartFinal \/ Finish \/ NextRun

Next == Driver \/ PartRan \/ PartHalted \/ PartFailed \/ \E code \in Codes : Halt(code)

RunSpec == Init /\ [][Next]_runVars

-----------------------------------------------------------------------------

Parts == {<<p, i>> : p \in {"body", "final"}, i \in Modules}

(* The shape of the driver's state.  It is only ever in a part that exists.   *)
RunTypeOK ==
    /\ phase \in {"body", "break", "final", "done"}
    /\ running \in BOOLEAN
    /\ initialized \in 0 .. N
    /\ left \in 0 .. initialized
    /\ halting \in Codes \cup {NoHalt}
    /\ haltCode \in Codes \cup {NoHalt}
    /\ error \in Parts \cup {NoError}
    /\ halted \in BOOLEAN /\ terminating \in BOOLEAN
    /\ status \in [Modules -> {"untouched", "initialized", "failed", "finalized"}]
    /\ running => Part \in Modules

(* Finalizers run last-initialized first: when a module's finalizer has       *)
(* started, every module that may import it (aot.rs:13-16) has been finalized *)
(* or never completed its body.                                               *)
FinalizersLIFO ==
    \A i, j \in Modules :
        i < j /\ status[i] = "finalized" => status[j] # "initialized"

(* However the program ends, each module whose body ran or halted has been    *)
(* finalized when it is over, and no other has (aot.rs:100-101, 115-116).     *)
AllFinalized ==
    phase = "done" =>
        \A i \in Modules : /\ status[i] # "initialized"
                           /\ status[i] = "finalized" <=> i <= initialized

(* Exit status 0 is honest: no body let an exception escape, and either all   *)
(* modules were initialized and finalized or a body called HALT(0).  A body's *)
(* failure is the error reported, never one of a finalizer it provoked.       *)
ExitHonest ==
    /\ phase = "done" /\ ExitStatus = 0 =>
          /\ \A i \in Modules : status[i] # "failed"
          /\ haltCode = 0 \/ \A i \in Modules : status[i] = "finalized"
    /\ \A i \in Modules : status[i] = "failed" => error = <<"body", i>>

(* What TERMINATION tells the program: code of a module body finds HasHalted  *)
(* and IsTerminating false, code of a finalizer finds IsTerminating true and, *)
(* if a body ended by HALT, HasHalted true.                                   *)
FlagsTold ==
    running /\ halting = NoHalt =>
        /\ terminating = (phase = "final")
        /\ phase = "body" => ~halted
        /\ haltCode # NoHalt => halted

(* What the end of a program promises its modules: finalizers in reverse      *)
(* order, for exactly the modules that were initialized.                      *)
ModulesFinalized == FinalizersLIFO /\ AllFinalized

(* What a run tells about itself: its exit status to the caller, HasHalted    *)
(* and IsTerminating to the code in it.                                       *)
RunTold == ExitHonest /\ FlagsTold
=============================================================================
