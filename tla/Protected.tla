------------------------------ MODULE Protected ------------------------------
(***************************************************************************)
(* Exceptions: the code of a program's modules calling procedures with an  *)
(* EXCEPT part, a FINALLY part or both, raising, handling, retrying,       *)
(* returning and halting.  It joins the wrapper the compiler emits around  *)
(* a protected region (newm2-ir/src/lower.rs, lower_protected_wrapper) to  *)
(* the runtime it calls (newm2-runtime/src/exceptions.rs), under the       *)
(* driver of ModuleRun.                                                    *)
(*                                                                         *)
(* The call stack holds the protected regions only: code between two of    *)
(* them is transparent to unwinding.  Its first frame is the module's part *)
(* itself, which is protected when the body has an EXCEPT part; a module's *)
(* FINALLY part is its finalizer (lower.rs:120-124).  One thread.          *)
(***************************************************************************)
EXTENDS ModuleRun, Sequences

CONSTANTS
    Exceptions,   \* what a program raises; every source is allocated, so not 0
    NoExc,        \* no exception
    Panic,        \* a Rust panic, which no handler catches
    Depth,        \* bound: frames on the stack
    RaiseLimit    \* bound: raises and HALTs in a behaviour

ASSUME ProtectedAssumption ==
    /\ NoExc \notin Exceptions
    /\ Panic \notin Exceptions \cup {NoExc}
    /\ Depth \in Nat \ {0}
    /\ RaiseLimit \in Nat

VARIABLES
    frames,       \* the protected regions being executed, innermost last
    current,      \* CURRENT, the thread's current exception
    flying,       \* the payload that unwinds the stack, HALT's apart
    held,         \* heap exception frames allocated and not freed
    raises,       \* raises and HALTs so far
    leaked,       \* history: procedure frames removed by unwinding
    strayed       \* history: a handler, or a FINALLY run for an exception, was
                  \* left by RETURN or by unwinding

codeVars == <<frames, current, flying, held, raises, leaked, strayed>>
vars == <<runVars, codeVars>>

\* A frame: its parts, the part it is executing, the exception nm2_run_protected
\* returned (raised), and, as history, whether its handler or FINALLY has called
\* a protected procedure.
Frame(parts) == [parts |-> parts, at |-> "body", raised |-> NoExc, nested |-> FALSE]

Top == frames[Len(frames)]
Below == SubSeq(frames, 1, Len(frames) - 1)
OneIfProc == IF Len(frames) > 1 THEN 1 ELSE 0

Has(f, part) == part \in f.parts
\* f handles an exception, or passes one on after its FINALLY.
Engaged(f) == f.at = "handler" \/ (f.at = "finally" /\ ~Has(f, "except") /\ f.raised # NoExc)

Executing == running /\ frames # <<>> /\ flying = NoExc /\ halting = NoHalt

MoveTo(region) == frames' = [frames EXCEPT ![Len(frames)].at = region]

\* The wrapper returns: it frees its exception frame; a module body has none.
Leave ==
    /\ frames' = Below
    /\ held' = held - OneIfProc

-----------------------------------------------------------------------------

CodeInit ==
    /\ frames = <<>>
    /\ current = NoExc
    /\ flying = NoExc
    /\ held = 0
    /\ raises = 0
    /\ leaked = 0
    /\ strayed = FALSE

(* The driver enters a part.                                                  *)
Enter(parts) ==
    /\ StartBody \/ (parts = {} /\ StartFinal)
    /\ frames' = <<Frame(parts)>>
    /\ UNCHANGED <<current, flying, held, raises, leaked, strayed>>

(* A call of a procedure with a protected body: its frame is allocated.       *)
Call(parts) ==
    /\ Executing
    /\ Len(frames) < Depth
    /\ frames' = Append([frames EXCEPT ![Len(frames)].nested = @ \/ Top.at # "body"],
                        Frame(parts))
    /\ held' = held + 1
    /\ UNCHANGED <<runVars, current, flying, raises, leaked, strayed>>

(* nm2_raise, nm2_raise_m2, nm2_assert_failed, nm2_raise_guard.               *)
Raise(e) ==
    /\ Executing
    /\ raises < RaiseLimit
    /\ raises' = raises + 1
    /\ flying' = e
    /\ UNCHANGED <<runVars, frames, current, held, leaked, strayed>>

HaltCall(code) ==
    /\ Executing
    /\ raises < RaiseLimit
    /\ raises' = raises + 1
    /\ Halt(code)
    /\ UNCHANGED <<frames, current, flying, held, leaked, strayed>>

(* The protected statements end, or RETURN: nm2_run_protected returns 0.      *)
EndBody ==
    /\ Executing
    /\ Top.at = "body"
    /\ IF Has(Top, "finally") THEN MoveTo("finally") /\ UNCHANGED held ELSE Leave
    /\ UNCHANGED <<runVars, current, flying, raises, leaked, strayed>>

\* Mutant: the end of a handler does not clear CURRENT.
EndHandlerUncleared ==
    /\ Executing
    /\ Top.at = "handler"
    /\ IF Has(Top, "finally") THEN MoveTo("finally") /\ UNCHANGED held ELSE Leave
    /\ UNCHANGED <<runVars, current, flying, raises, leaked, strayed>>

(* A handler completes: nm2_exception_handled, then FINALLY or the return.    *)
EndHandler ==
    /\ Executing
    /\ Top.at = "handler"
    /\ current' = NoExc
    /\ IF Has(Top, "finally") THEN MoveTo("finally") /\ UNCHANGED held ELSE Leave
    /\ UNCHANGED <<runVars, flying, raises, leaked, strayed>>

(* FINALLY completes in a wrapper that need not pass an exception on.         *)
EndFinally ==
    /\ Executing
    /\ Top.at = "finally" /\ ~Engaged(Top)
    /\ Leave
    /\ UNCHANGED <<runVars, current, flying, raises, leaked, strayed>>

\* Mutant: the exception is re-raised before the frame is freed.
ReraiseUnfreed ==
    /\ Executing
    /\ Top.at = "finally" /\ Engaged(Top)
    /\ frames' = Below
    /\ flying' = IF current = NoExc THEN Panic ELSE current
    /\ current' = NoExc
    /\ UNCHANGED <<runVars, held, raises, leaked, strayed>>

(* It must pass one on: the frame is freed and nm2_reraise takes CURRENT, or  *)
(* panics when there is none.                                                 *)
Reraise ==
    /\ Executing
    /\ Top.at = "finally" /\ Engaged(Top)
    /\ Leave
    /\ flying' = IF current = NoExc THEN Panic ELSE current
    /\ current' = NoExc
    /\ UNCHANGED <<runVars, raises, leaked, strayed>>

(* RETURN in a handler or in FINALLY: the wrapper returns there and then.     *)
ReturnEarly ==
    /\ Executing
    /\ Top.at # "body"
    /\ Leave
    /\ strayed' = (strayed \/ Engaged(Top))
    /\ UNCHANGED <<runVars, current, flying, raises, leaked>>

(* RETRY, in a handler: back to the call of nm2_run_protected.                *)
Retry ==
    /\ Executing
    /\ Top.at = "handler"
    /\ current' = NoExc
    /\ frames' = Append(Below, Frame(Top.parts))
    /\ UNCHANGED <<runVars, flying, held, raises, leaked, strayed>>

\* Mutant: the wrapper goes on without CURRENT being set.
CatchUninstalled ==
    /\ flying \in Exceptions
    /\ frames # <<>> /\ Top.at = "body" /\ Top.parts # {}
    /\ flying' = NoExc
    /\ frames' = [frames EXCEPT ![Len(frames)] =
                     [@ EXCEPT !.raised = flying,
                               !.at = IF Has(Top, "except") THEN "handler" ELSE "finally"]]
    /\ UNCHANGED <<runVars, current, held, raises, leaked, strayed>>

(* nm2_run_protected catches an exception, and the wrapper dispatches on it.  *)
Catch ==
    /\ flying \in Exceptions
    /\ frames # <<>> /\ Top.at = "body" /\ Top.parts # {}
    /\ current' = flying
    /\ flying' = NoExc
    /\ frames' = [frames EXCEPT ![Len(frames)] =
                     [@ EXCEPT !.raised = flying,
                               !.at = IF Has(Top, "except") THEN "handler" ELSE "finally"]]
    /\ UNCHANGED <<runVars, held, raises, leaked, strayed>>

\* Mutant: HALT is caught like an exception, and the wrapper returns.
UnwindHaltCaught ==
    /\ frames # <<>>
    /\ \/ halting # NoHalt
       \/ flying # NoExc /\ ~(flying \in Exceptions /\ Top.at = "body" /\ Top.parts # {})
    /\ frames' = Below
    /\ leaked' = leaked + OneIfProc
    /\ strayed' = (strayed \/ Engaged(Top))
    /\ halting' = NoHalt
    /\ UNCHANGED <<phase, running, initialized, left, haltCode, error, halted,
                   terminating, status, current, flying, held, raises>>

(* Nothing stops the payload here: a HaltMarker or a panic, or an exception   *)
(* in a handler, in FINALLY or in an unprotected part.  The wrapper is unwound *)
(* without freeing its exception frame.                                       *)
Unwind ==
    /\ frames # <<>>
    /\ \/ halting # NoHalt
       \/ flying # NoExc /\ ~(flying \in Exceptions /\ Top.at = "body" /\ Top.parts # {})
    /\ frames' = Below
    /\ leaked' = leaked + OneIfProc
    /\ strayed' = (strayed \/ Engaged(Top))
    /\ UNCHANGED <<runVars, current, flying, held, raises>>

(* Control is back in the driver.                                             *)
EndPart ==
    /\ running /\ frames = <<>>
    /\ IF flying = NoExc THEN PartRan \/ PartHalted ELSE PartFailed
    /\ flying' = NoExc
    /\ UNCHANGED <<frames, current, held, raises, leaked, strayed>>

Between == (BeginTermination \/ Finish \/ NextRun) /\ UNCHANGED codeVars

-----------------------------------------------------------------------------

ProcParts == (SUBSET {"except", "finally"}) \ {{}}

CodeNext ==
    \/ \E parts \in {{}, {"except"}} : Enter(parts)
    \/ \E parts \in ProcParts : Call(parts)
    \/ \E e \in Exceptions : Raise(e)
    \/ \E code \in Codes : HaltCall(code)
    \/ EndBody \/ EndHandler \/ EndFinally \/ Reraise
    \/ ReturnEarly \/ Retry \/ Catch \/ Unwind
    \/ EndPart \/ Between

SystemInit == Init /\ CodeInit

Spec == SystemInit /\ [][CodeNext]_vars

-----------------------------------------------------------------------------

FrameShape ==
    [parts : SUBSET {"except", "finally"}, at : {"body", "handler", "finally"},
     raised : Exceptions \cup {NoExc}, nested : BOOLEAN]

(* The shape of the state: a handler has an exception to handle, and a frame  *)
(* that is in its body has none.                                              *)
TypeOK ==
    /\ RunTypeOK
    /\ frames \in Seq(FrameShape)
    /\ \A i \in DOMAIN frames :
           /\ frames[i].at = "body" => frames[i].raised = NoExc
           /\ frames[i].at = "handler" => frames[i].raised # NoExc
           /\ frames[i].at # "body" => frames[i].at = "finally" \/ Has(frames[i], "except")
    /\ current \in Exceptions \cup {NoExc}
    /\ flying \in Exceptions \cup {NoExc, Panic}
    /\ held \in Nat /\ leaked \in Nat /\ raises \in 0 .. RaiseLimit
    /\ strayed \in BOOLEAN

(* A handler reads its own exception (CurrentNumber, GetMessage), and a       *)
(* FINALLY that must pass one on will pass on that one, unless it has itself  *)
(* called a protected procedure.                                              *)
OwnException ==
    frames # <<>> /\ flying = NoExc /\ halting = NoHalt =>
        (Engaged(Top) /\ ~Top.nested => current = Top.raised)

(* Outside of handlers and of FINALLY parts run for an exception there is no  *)
(* current exception, unless one of them was left by RETURN or unwound.       *)
NoStaleException ==
    (\A i \in DOMAIN frames : ~Engaged(frames[i])) /\ ~strayed => current = NoExc

(* CURRENT, the one slot of the thread, is a handler's own exception while it *)
(* runs and empty when there is none.                                         *)
CurrentException == OwnException /\ NoStaleException

(* A wrapper returns its heap exception frame on every way out but one: only  *)
(* those unwound through are lost.                                            *)
FramesFreed == held = leaked + (IF frames = <<>> THEN 0 ELSE Len(frames) - 1)

(* HALT cannot be handled: from the call on no code of a body runs any more,  *)
(* and the next code that runs is a finalizer's.                              *)
HaltStopsBodies == halted /\ phase = "body" => ~Executing

(* exceptions.rs:150-152: nm2_reraise is only called with a CURRENT exception,*)
(* "when the protected frame's dispatch logic determined the exception is     *)
(* still in flight".                                                          *)
ReraiseHasCurrent == flying # Panic

(* memory-and-exceptions.md:152-153: FINALLY is "always executed on exit from *)
(* the protected block, normal or exceptional" (HALT apart).                  *)
FinallyAlwaysRuns ==
    [][frames # <<>> /\ Len(frames') < Len(frames) /\ halting = NoHalt =>
           (Has(Top, "finally") => Top.at = "finally")]_vars
=============================================================================
