--------------------------- MODULE ProtectedProofs ---------------------------
(***************************************************************************)
(* Proofs about ModuleRun, and about Protected, which implements it: for   *)
(* any number of modules, any HALT codes and exceptions, and any depth of  *)
(* the stack.                                                              *)
(***************************************************************************)
EXTENDS Protected, SequenceTheorems, TLAPS

(***************************************************************************)
(* The driver, whatever the parts of a program do.                         *)
(***************************************************************************)
\* The last module that is initialized and not finalized; those before it are
\* in the same state.
Open == CASE phase \in {"body", "break"}  -> initialized
          [] phase = "final" /\ running   -> left - 1
          [] phase = "final" /\ ~running  -> left
          [] phase = "done"               -> 0

\* What each module's status says of where the driver is.
StatusInv ==
    \A i \in Modules :
        /\ status[i] = "initialized" <=> i <= Open
        /\ status[i] = "finalized" <=> Open < i /\ i <= initialized
        /\ status[i] = "failed" => phase # "body" /\ error = <<"body", i>>

\* The driver is in a part only in its two loops, and a HaltMarker unwinds only
\* in a part.  The finalizers are over when the run is.
LoopInv ==
    /\ phase \in {"break", "done"} => ~running
    /\ halting # NoHalt => running
    /\ phase = "done" => left = 0

\* A loop over the bodies that was broken off has an error or a halt code.
OutcomeInv ==
    /\ phase = "body" => error = NoError /\ haltCode = NoHalt
    /\ phase # "body" /\ error = NoError /\ haltCode = NoHalt => initialized = N

FlagsInv ==
    /\ phase = "body" => (halted <=> halting # NoHalt) /\ (terminating <=> halting # NoHalt)
    /\ phase \in {"final", "done"} => terminating
    /\ haltCode # NoHalt => halted

RunInv == RunTypeOK /\ StatusInv /\ LoopInv /\ OutcomeInv /\ FlagsInv

-----------------------------------------------------------------------------

LEMMA RunInitially == Init => RunInv
<1> USE RunAssumption
<1> QED
  <2>1. ASSUME Init PROVE RunTypeOK
    <3>1. initialized \in 0 .. N /\ left \in 0 .. initialized
      BY <2>1 DEF Init
    <3>2. status \in [Modules -> {"untouched", "initialized", "failed", "finalized"}]
      BY <2>1 DEF Init
    <3>3. error \in Parts \cup {NoError}
      BY <2>1 DEF Init
    <3> QED
      BY <2>1, <3>1, <3>2, <3>3 DEF Init, RunTypeOK
  <2>2. ASSUME Init PROVE StatusInv /\ LoopInv /\ OutcomeInv /\ FlagsInv
    BY <2>2 DEF Init, StatusInv, LoopInv, OutcomeInv, FlagsInv, Open, Modules
  <2> QED BY <2>1, <2>2 DEF RunInv

LEMMA RunStep == RunInv /\ [Next]_runVars => RunInv'
<1> SUFFICES ASSUME RunInv, [Next]_runVars PROVE RunInv'
  OBVIOUS
<1> USE RunAssumption DEF RunInv, Open
<1>1. CASE StartBody
  <2>1. RunTypeOK'
    BY <1>1 DEF StartBody, RunTypeOK, Part, LoopInv, Modules
  <2>2. StatusInv'
    BY <1>1 DEF StartBody, RunTypeOK, StatusInv, Modules
  <2>3. LoopInv' /\ OutcomeInv' /\ FlagsInv'
    BY <1>1 DEF StartBody, RunTypeOK, LoopInv, OutcomeInv, FlagsInv
  <2> QED BY <2>1, <2>2, <2>3
<1>2. ASSUME NEW code \in Codes, Halt(code) PROVE RunInv'
  <2>1. RunTypeOK'
    BY <1>2 DEF Halt, RunTypeOK, Part, Modules
  <2>2. StatusInv'
    BY <1>2 DEF Halt, RunTypeOK, StatusInv, Modules
  <2>3. LoopInv' /\ OutcomeInv' /\ FlagsInv'
    BY <1>2 DEF Halt, RunTypeOK, LoopInv, OutcomeInv, FlagsInv
  <2> QED BY <2>1, <2>2, <2>3
<1>3. CASE BodyRan
  <2>1. RunTypeOK'
    <3>1. initialized' \in 0 .. N /\ left' \in 0 .. initialized'
      BY <1>3 DEF BodyRan, RunTypeOK, LoopInv, Part, Modules
    <3>2. status' \in [Modules -> {"untouched", "initialized", "failed", "finalized"}]
      BY <1>3 DEF BodyRan, RunTypeOK, Set
    <3>3. error' \in Parts \cup {NoError}
      BY <1>3 DEF BodyRan, RunTypeOK
    <3>4. ~running'
      BY <1>3 DEF BodyRan, LoopInv
    <3> QED
      BY <1>3, <3>1, <3>2, <3>3, <3>4 DEF BodyRan, RunTypeOK
  <2>2. StatusInv'
    BY <1>3 DEF BodyRan, RunTypeOK, StatusInv, Set, Part, Modules
  <2>3. LoopInv' /\ OutcomeInv' /\ FlagsInv'
    BY <1>3 DEF BodyRan, RunTypeOK, LoopInv, OutcomeInv, FlagsInv
  <2> QED BY <2>1, <2>2, <2>3
<1>4. CASE BodyHalted
  <2>1. RunTypeOK'
    <3>1. initialized' \in 0 .. N /\ left' \in 0 .. initialized'
      BY <1>4 DEF BodyHalted, RunTypeOK, LoopInv, Part, Modules
    <3>2. status' \in [Modules -> {"untouched", "initialized", "failed", "finalized"}]
      BY <1>4 DEF BodyHalted, RunTypeOK, Set
    <3>3. error' \in Parts \cup {NoError}
      BY <1>4 DEF BodyHalted, RunTypeOK
    <3>4. ~running'
      BY <1>4 DEF BodyHalted, LoopInv
    <3> QED
      BY <1>4, <3>1, <3>2, <3>3, <3>4 DEF BodyHalted, RunTypeOK
  <2>2. StatusInv'
    BY <1>4 DEF BodyHalted, RunTypeOK, StatusInv, Set, Part, Modules
  <2>3. LoopInv' /\ OutcomeInv' /\ FlagsInv'
    BY <1>4 DEF BodyHalted, RunTypeOK, LoopInv, OutcomeInv, FlagsInv
  <2> QED BY <2>1, <2>2, <2>3
<1>5. CASE BodyFailed
  <2>1. RunTypeOK'
    <3>1. initialized' \in 0 .. N /\ left' \in 0 .. initialized'
      BY <1>5 DEF BodyFailed, RunTypeOK, LoopInv, Part, Modules
    <3>2. status' \in [Modules -> {"untouched", "initialized", "failed", "finalized"}]
      BY <1>5 DEF BodyFailed, RunTypeOK, Set
    <3>3. error' \in Parts \cup {NoError}
      BY <1>5 DEF BodyFailed, RunTypeOK, Report, Parts, Part, Modules
    <3>4. ~running'
      BY <1>5 DEF BodyFailed, LoopInv
    <3> QED
      BY <1>5, <3>1, <3>2, <3>3, <3>4 DEF BodyFailed, RunTypeOK
  <2>2. StatusInv'
    BY <1>5 DEF BodyFailed, RunTypeOK, StatusInv, OutcomeInv, Set, Part, Report, Modules
  <2>3. error' # NoError
    BY <1>5 DEF BodyFailed, RunTypeOK, Part, Report, Modules
  <2>4. LoopInv' /\ OutcomeInv' /\ FlagsInv'
    BY <1>5, <2>3 DEF BodyFailed, RunTypeOK, LoopInv, OutcomeInv, FlagsInv
  <2> QED BY <2>1, <2>2, <2>4
<1>6. CASE BeginTermination
  <2>1. RunTypeOK'
    BY <1>6 DEF BeginTermination, RunTypeOK, Part, Modules
  <2>2. StatusInv'
    BY <1>6 DEF BeginTermination, RunTypeOK, StatusInv, Modules
  <2>3. LoopInv' /\ OutcomeInv' /\ FlagsInv'
    BY <1>6 DEF BeginTermination, RunTypeOK, LoopInv, OutcomeInv, FlagsInv
  <2> QED BY <2>1, <2>2, <2>3
<1>7. CASE StartFinal
  <2>1. RunTypeOK'
    BY <1>7 DEF StartFinal, RunTypeOK, Part, Set, Modules
  <2>2. StatusInv'
    BY <1>7 DEF StartFinal, RunTypeOK, StatusInv, Set, Modules
  <2>3. LoopInv' /\ OutcomeInv' /\ FlagsInv'
    BY <1>7 DEF StartFinal, RunTypeOK, LoopInv, OutcomeInv, FlagsInv
  <2> QED BY <2>1, <2>2, <2>3
<1>8. CASE FinalRan
  <2>1. RunTypeOK'
    <3>1. initialized' \in 0 .. N /\ left' \in 0 .. initialized'
      BY <1>8 DEF FinalRan, RunTypeOK, LoopInv, Part, Modules
    <3>2. status' \in [Modules -> {"untouched", "initialized", "failed", "finalized"}]
      BY <1>8 DEF FinalRan, RunTypeOK, Set
    <3>3. error' \in Parts \cup {NoError}
      BY <1>8 DEF FinalRan, RunTypeOK
    <3>4. ~running'
      BY <1>8 DEF FinalRan, LoopInv
    <3> QED
      BY <1>8, <3>1, <3>2, <3>3, <3>4 DEF FinalRan, RunTypeOK
  <2>2. StatusInv'
    BY <1>8 DEF FinalRan, RunTypeOK, StatusInv, Modules
  <2>3. LoopInv' /\ OutcomeInv' /\ FlagsInv'
    BY <1>8 DEF FinalRan, RunTypeOK, LoopInv, OutcomeInv, FlagsInv
  <2> QED BY <2>1, <2>2, <2>3
<1>9. CASE FinalFailed
  <2>1. RunTypeOK'
    <3>1. initialized' \in 0 .. N /\ left' \in 0 .. initialized'
      BY <1>9 DEF FinalFailed, RunTypeOK, LoopInv, Part, Modules
    <3>2. status' \in [Modules -> {"untouched", "initialized", "failed", "finalized"}]
      BY <1>9 DEF FinalFailed, RunTypeOK, Set
    <3>3. error' \in Parts \cup {NoError}
      BY <1>9 DEF FinalFailed, RunTypeOK, Report, Parts, Part, Modules
    <3>4. ~running'
      BY <1>9 DEF FinalFailed, LoopInv
    <3> QED
      BY <1>9, <3>1, <3>2, <3>3, <3>4 DEF FinalFailed, RunTypeOK
  <2>2. error' # NoError /\ (error # NoError => error' = error)
    BY <1>9 DEF FinalFailed, RunTypeOK, Part, Report, Modules
  <2>3. StatusInv'
    BY <1>9, <2>2 DEF FinalFailed, RunTypeOK, StatusInv, Modules
  <2>4. LoopInv' /\ OutcomeInv' /\ FlagsInv'
    BY <1>9, <2>2 DEF FinalFailed, RunTypeOK, LoopInv, OutcomeInv, FlagsInv
  <2> QED BY <2>1, <2>3, <2>4
<1>10. CASE Finish
  <2>1. RunTypeOK'
    BY <1>10 DEF Finish, RunTypeOK, Part, Modules
  <2>2. StatusInv'
    BY <1>10 DEF Finish, RunTypeOK, StatusInv, Modules
  <2>3. LoopInv' /\ OutcomeInv' /\ FlagsInv'
    BY <1>10 DEF Finish, RunTypeOK, LoopInv, OutcomeInv, FlagsInv
  <2> QED BY <2>1, <2>2, <2>3
<1>11. CASE NextRun
  <2>1. RunTypeOK'
    <3>1. initialized' \in 0 .. N /\ left' \in 0 .. initialized'
      BY <1>11 DEF NextRun, RunTypeOK, LoopInv, Part, Modules
    <3>2. status' \in [Modules -> {"untouched", "initialized", "failed", "finalized"}]
      BY <1>11 DEF NextRun, RunTypeOK, Set
    <3>3. error' \in Parts \cup {NoError}
      BY <1>11 DEF NextRun, RunTypeOK
    <3>4. ~running'
      BY <1>11 DEF NextRun, LoopInv
    <3> QED
      BY <1>11, <3>1, <3>2, <3>3, <3>4 DEF NextRun, RunTypeOK
  <2>2. StatusInv'
    BY <1>11 DEF NextRun, RunTypeOK, StatusInv, Modules
  <2>3. LoopInv' /\ OutcomeInv' /\ FlagsInv'
    BY <1>11 DEF NextRun, RunTypeOK, LoopInv, OutcomeInv, FlagsInv
  <2> QED BY <2>1, <2>2, <2>3
<1>12. CASE UNCHANGED runVars
  BY <1>12 DEF runVars, RunTypeOK, StatusInv, LoopInv, OutcomeInv, FlagsInv, Part, Modules
<1> QED
  BY <1>1, <1>2, <1>3, <1>4, <1>5, <1>6, <1>7, <1>8, <1>9, <1>10, <1>11, <1>12
  DEF Next, Driver, PartRan, PartHalted, PartFailed

(* The invariant of the driver.                                              *)
THEOREM RunInvariant == RunSpec => []RunInv
BY RunInitially, RunStep, PTL DEF RunSpec

-----------------------------------------------------------------------------

(* Finalizers run last-initialized first, for any number of modules.         *)
THEOREM FinalizedInReverse == RunSpec => []FinalizersLIFO
<1>1. RunInv => FinalizersLIFO
  BY RunAssumption DEF RunInv, RunTypeOK, StatusInv, FinalizersLIFO, Open, Modules
<1> QED
  BY RunInvariant, <1>1, PTL

(* Every module that was initialized, and no other, is finalized.            *)
THEOREM EveryModuleFinalized == RunSpec => []AllFinalized
<1>1. RunInv => AllFinalized
  BY RunAssumption DEF RunInv, RunTypeOK, StatusInv, AllFinalized, Open, Modules
<1> QED
  BY RunInvariant, <1>1, PTL

(* Exit status 0 is honest, and the first error is the one reported.         *)
THEOREM HonestExit == RunSpec => []ExitHonest
<1>1. RunInv => \A i \in Modules : status[i] = "failed" => error = <<"body", i>>
  BY DEF RunInv, StatusInv
<1>2. RunInv => ExitHonest
  <2> SUFFICES ASSUME RunInv, phase = "done", ExitStatus = 0
               PROVE /\ \A i \in Modules : status[i] # "failed"
                     /\ haltCode = 0 \/ \A i \in Modules : status[i] = "finalized"
    BY <1>1 DEF ExitHonest
  <2>1. error = NoError
    BY DEF ExitStatus
  <2>2. \A i \in Modules : status[i] # "failed"
    BY <2>1, RunAssumption DEF RunInv, StatusInv, Modules
  <2>3. CASE haltCode = 0
    BY <2>2, <2>3
  <2>4. CASE haltCode # 0
    <3>1. haltCode = NoHalt
      BY <2>1, <2>4 DEF ExitStatus
    <3>2. initialized = N
      BY <2>1, <3>1 DEF RunInv, OutcomeInv
    <3>3. \A i \in Modules : status[i] = "finalized"
      BY <3>2, RunAssumption DEF RunInv, RunTypeOK, StatusInv, Open, Modules
    <3> QED BY <2>2, <3>3
  <2> QED BY <2>3, <2>4
<1> QED
  BY RunInvariant, <1>1, <1>2, PTL

(* The program is told the truth about its termination.                      *)
THEOREM TerminationTold == RunSpec => []FlagsTold
<1>1. RunInv => FlagsTold
  BY DEF RunInv, RunTypeOK, LoopInv, FlagsInv, FlagsTold
<1> QED
  BY RunInvariant, <1>1, PTL

(* Both promises of the driver to the modules.                               *)
THEOREM ModulesAreFinalized == RunSpec => []ModulesFinalized
BY FinalizedInReverse, EveryModuleFinalized, PTL DEF ModulesFinalized

(* A run tells its caller and its code the truth.                            *)
THEOREM RunTellsTheTruth == RunSpec => []RunTold
BY HonestExit, TerminationTold, PTL DEF RunTold

-----------------------------------------------------------------------------

(***************************************************************************)
(* The refinement: inside a part the driver does not move.                 *)
(***************************************************************************)
LEMMA CodeStepIsRunStep == CodeNext => [Next]_runVars
<1> USE DEF Next, Driver
<1>1. ASSUME NEW parts, Enter(parts) PROVE [Next]_runVars
  BY <1>1 DEF Enter
<1>2. ASSUME NEW code \in Codes, HaltCall(code) PROVE [Next]_runVars
  BY <1>2 DEF HaltCall
<1>3. ASSUME EndPart PROVE [Next]_runVars
  BY <1>3 DEF EndPart
<1>4. ASSUME Between PROVE [Next]_runVars
  BY <1>4 DEF Between
<1>5. ASSUME \/ \E parts \in ProcParts : Call(parts)
             \/ \E e \in Exceptions : Raise(e)
             \/ EndBody \/ EndHandler \/ EndFinally \/ Reraise
             \/ ReturnEarly \/ Retry \/ Catch \/ Unwind
      PROVE UNCHANGED runVars
  BY <1>5 DEF Call, Raise, EndBody, EndHandler, EndFinally, Reraise, ReturnEarly,
              Retry, Catch, Unwind
<1> QED
  BY <1>1, <1>2, <1>3, <1>4, <1>5 DEF CodeNext

(* A step of the program is a step of the driver or leaves its variables     *)
(* alone, so what is proved of the driver can be cited of the program.       *)
LEMMA ProgramIsARun == Spec => RunSpec
<1>1. [CodeNext]_vars => [Next]_runVars
  BY CodeStepIsRunStep DEF vars
<1> QED
  BY <1>1, PTL DEF Spec, SystemInit, RunSpec

-----------------------------------------------------------------------------

FrameOK(f) ==
    /\ f.at = "body" => f.raised = NoExc
    /\ f.at = "handler" => f.raised # NoExc
    /\ f.at # "body" => f.at = "finally" \/ Has(f, "except")

\* A frame that has another one above it called a procedure: from its body, or
\* its history says so.
FramesInv ==
    /\ frames \in Seq(FrameShape)
    /\ \A i \in 1 .. Len(frames) : FrameOK(frames[i])
    /\ \A i \in 1 .. Len(frames) - 1 : frames[i].at # "body" => frames[i].nested

ScalarInv ==
    /\ current \in Exceptions \cup {NoExc}
    /\ flying \in Exceptions \cup {NoExc, Panic}
    /\ leaked \in Nat
    /\ raises \in 0 .. RaiseLimit
    /\ strayed \in BOOLEAN
    /\ frames # <<>> => running

TopInv == frames # <<>> /\ Engaged(Top) /\ ~Top.nested => current = Top.raised
StaleInv == (\A i \in 1 .. Len(frames) : ~Engaged(frames[i])) /\ ~strayed => current = NoExc

CodeInv == FramesInv /\ ScalarInv /\ FramesFreed /\ TopInv /\ StaleInv

(* What is left of a sequence without its last element.                      *)
LEMMA FrontOfSeq ==
  ASSUME NEW S, NEW s \in Seq(S), s # <<>>
  PROVE  LET front == SubSeq(s, 1, Len(s) - 1)
         IN  /\ front \in Seq(S)
             /\ Len(front) = Len(s) - 1
             /\ \A i \in 1 .. Len(s) - 1 : front[i] = s[i]
<1> DEFINE n == Len(s) - 1
<1>1. n \in Nat /\ Len(s) = n + 1 /\ \A i \in 1 .. Len(s) : s[i] \in S
  OBVIOUS
<1>2. \A i \in 1 .. n : s[i] \in S
  BY <1>1
<1>3. /\ SubSeq(s, 1, n) \in Seq(S)
      /\ Len(SubSeq(s, 1, n)) = IF 1 <= n THEN n - 1 + 1 ELSE 0
      /\ \A i \in 1 .. n - 1 + 1 : SubSeq(s, 1, n)[i] = s[1 + i - 1]
  <2> HIDE DEF n
  <2> QED BY <1>1, <1>2, SubSeqProperties
<1>4. /\ (IF 1 <= n THEN n - 1 + 1 ELSE 0) = n
      /\ n - 1 + 1 = n
      /\ \A i \in 1 .. n : 1 + i - 1 = i
  <2> HIDE DEF n
  <2> QED BY <1>1
<1> QED
  BY <1>3, <1>4

(* Removing, replacing and adding the innermost frame.                       *)
LEMMA PopFrame ==
  ASSUME frames \in Seq(FrameShape), frames # <<>>
  PROVE  /\ Len(frames) \in Nat \ {0}
         /\ Top \in FrameShape
         /\ Below \in Seq(FrameShape)
         /\ Len(Below) = Len(frames) - 1
         /\ \A i \in 1 .. Len(frames) - 1 : Below[i] = frames[i]
<1>1. Len(frames) \in Nat \ {0} /\ Top \in FrameShape
  BY DEF Top
<1>2. /\ Below \in Seq(FrameShape)
      /\ Len(Below) = Len(frames) - 1
      /\ \A i \in 1 .. Len(frames) - 1 : Below[i] = frames[i]
  BY FrontOfSeq, Zenon DEF Below
<1> QED
  BY <1>1, <1>2

LEMMA ReplaceTop ==
  ASSUME frames \in Seq(FrameShape), frames # <<>>, NEW f \in FrameShape
  PROVE  LET s == [frames EXCEPT ![Len(frames)] = f]
         IN  /\ s \in Seq(FrameShape)
             /\ Len(s) = Len(frames)
             /\ s[Len(frames)] = f
             /\ \A i \in 1 .. Len(frames) - 1 : s[i] = frames[i]
OBVIOUS

LEMMA PushFrame ==
  ASSUME NEW s \in Seq(FrameShape), NEW f \in FrameShape
  PROVE  /\ Append(s, f) \in Seq(FrameShape)
         /\ Len(Append(s, f)) = Len(s) + 1
         /\ Append(s, f)[Len(s) + 1] = f
         /\ \A i \in 1 .. Len(s) : Append(s, f)[i] = s[i]
OBVIOUS

-----------------------------------------------------------------------------

(* The frames after the wrapper of the innermost one is left.                *)
LEMMA PopKeeps ==
  ASSUME FramesInv, frames # <<>>, frames' = Below
  PROVE  /\ FramesInv'
         /\ Len(frames) \in Nat \ {0}
         /\ Len(frames') = Len(frames) - 1
         /\ \A i \in 1 .. Len(frames') : frames'[i] = frames[i]
         /\ frames' # <<>> => (Engaged(Top') => Top'.nested)
<1>1. /\ Len(frames) \in Nat \ {0}
      /\ frames' \in Seq(FrameShape)
      /\ Len(frames') = Len(frames) - 1
      /\ \A i \in 1 .. Len(frames) - 1 : frames'[i] = frames[i]
  BY PopFrame DEF FramesInv
<1>2. FramesInv'
  BY <1>1 DEF FramesInv
<1>3. ASSUME frames' # <<>>, Engaged(Top') PROVE Top'.nested
  <2>1. Len(frames') \in 1 .. Len(frames) - 1
    BY <1>1, <1>3
  <2>2. Top' = frames[Len(frames')]
    BY <1>1, <2>1 DEF Top
  <2>3. frames[Len(frames')].at # "body"
    BY <1>3, <2>2 DEF Engaged
  <2> QED
    BY <2>1, <2>2, <2>3 DEF FramesInv
<1> QED
  BY <1>1, <1>2, <1>3

(* The frames after the innermost one has changed.                           *)
LEMMA MoveKeeps ==
  ASSUME FramesInv, frames # <<>>, NEW f \in FrameShape, FrameOK(f),
         frames' = [frames EXCEPT ![Len(frames)] = f]
  PROVE  /\ FramesInv'
         /\ Len(frames) \in Nat \ {0}
         /\ Len(frames') = Len(frames)
         /\ frames' # <<>>
         /\ Top' = f
         /\ frames'[Len(frames)] = f
         /\ \A i \in 1 .. Len(frames) - 1 : frames'[i] = frames[i]
<1>1. /\ Len(frames) \in Nat \ {0}
      /\ frames' \in Seq(FrameShape)
      /\ Len(frames') = Len(frames)
      /\ frames'[Len(frames)] = f
      /\ \A i \in 1 .. Len(frames) - 1 : frames'[i] = frames[i]
  BY PopFrame, ReplaceTop DEF FramesInv
<1>2. \A i \in 1 .. Len(frames) : FrameOK(frames'[i])
  <2> TAKE i \in 1 .. Len(frames)
  <2>1. CASE i = Len(frames)
    BY <1>1, <2>1
  <2>2. CASE i # Len(frames)
    <3>1. i \in 1 .. Len(frames) - 1
      <4>1. \A n \in Nat : i \in 1 .. n /\ i # n => i \in 1 .. n - 1
        OBVIOUS
      <4> QED
        BY <1>1, <2>2, <4>1
    <3>2. FrameOK(frames[i])
      BY DEF FramesInv
    <3>3. frames'[i] = frames[i]
      BY <1>1, <3>1
    <3> QED
      BY <3>2, <3>3, Zenon
  <2> QED
    BY <2>1, <2>2
<1>3. \A i \in 1 .. Len(frames') - 1 : frames'[i].at # "body" => frames'[i].nested
  BY <1>1 DEF FramesInv
<1>4. FramesInv'
  BY <1>1, <1>2, <1>3 DEF FramesInv, FrameOK, Has
<1> QED
  BY <1>1, <1>4 DEF Top

(* The wrapper returns and frees its frame: the innermost frame goes, and    *)
(* with it what it said about CURRENT.                                       *)
LEMMA LeaveKeeps ==
  ASSUME CodeInv, frames # <<>>, Leave, leaked' = leaked
  PROVE  FramesInv' /\ FramesFreed' /\ TopInv'
<1>1. /\ FramesInv'
      /\ Len(frames) \in Nat \ {0}
      /\ Len(frames') = Len(frames) - 1
      /\ frames' # <<>> => (Engaged(Top') => Top'.nested)
  BY PopKeeps DEF CodeInv, Leave
<1>2. TopInv'
  BY <1>1 DEF TopInv
<1>3. frames' = <<>> <=> Len(frames) = 1
  BY <1>1 DEF FramesInv
<1>4. leaked \in Nat /\ held = leaked + Len(frames) - 1 /\ held' = held - OneIfProc
  BY <1>1 DEF CodeInv, FramesFreed, ScalarInv, Leave
<1>5. FramesFreed'
  <2>1. CASE Len(frames) = 1
    BY <1>1, <1>3, <1>4, <2>1 DEF FramesFreed, OneIfProc
  <2>2. CASE Len(frames) # 1
    <3>1. OneIfProc = 1
      BY <1>1, <2>2 DEF OneIfProc
    <3>2. held' = leaked' + (Len(frames') - 1)
      BY <1>1, <1>4, <3>1
    <3> QED
      BY <1>3, <2>2, <3>2 DEF FramesFreed
  <2> QED
    BY <2>1, <2>2
<1> QED
  BY <1>1, <1>2, <1>5

(* When the innermost frame says nothing of CURRENT, neither does its going. *)
LEMMA StaleAfterPop ==
  ASSUME CodeInv, frames # <<>>, frames' = Below, current' = current,
         strayed' = (strayed \/ Engaged(Top))
  PROVE  StaleInv'
<1> SUFFICES ASSUME \A i \in 1 .. Len(frames') : ~Engaged(frames'[i]), ~strayed'
             PROVE  current = NoExc
  BY DEF StaleInv
<1>1. /\ Len(frames) \in Nat \ {0}
      /\ Len(frames') = Len(frames) - 1
      /\ \A i \in 1 .. Len(frames') : frames'[i] = frames[i]
  BY PopKeeps DEF CodeInv
<1>2. ~strayed /\ ~Engaged(Top)
  OBVIOUS
<1>3. \A i \in 1 .. Len(frames) - 1 : ~Engaged(frames[i])
  <2> TAKE i \in 1 .. Len(frames) - 1
  <2>1. i \in 1 .. Len(frames')
    BY <1>1
  <2>2. frames'[i] = frames[i] /\ ~Engaged(frames'[i])
    BY <1>1, <2>1
  <2> QED
    BY <2>2, Zenon
<1>4. \A i \in 1 .. Len(frames) : ~Engaged(frames[i])
  <2>1. ~Engaged(frames[Len(frames)])
    BY <1>2 DEF Top
  <2>2. \A i \in 1 .. Len(frames) : i = Len(frames) \/ i \in 1 .. Len(frames) - 1
    BY <1>1
  <2> QED
    BY <1>3, <2>1, <2>2, Zenon
<1> QED
  BY <1>2, <1>4 DEF CodeInv, StaleInv

-----------------------------------------------------------------------------

LEMMA CodeInitially == Init /\ CodeInit => CodeInv
<1> SUFFICES ASSUME Init, CodeInit PROVE CodeInv
  OBVIOUS
<1> USE ProtectedAssumption DEF CodeInit
<1>1. FramesInv
  BY DEF FramesInv
<1>2. ScalarInv
  <2>1. strayed \in BOOLEAN
    BY Zenon
  <2>2. raises \in 0 .. RaiseLimit /\ leaked \in Nat
    OBVIOUS
  <2> QED
    BY <2>1, <2>2 DEF ScalarInv
<1>3. FramesFreed /\ TopInv
  BY DEF FramesFreed, TopInv
<1>4. StaleInv
  BY DEF StaleInv
<1> QED
  BY <1>1, <1>2, <1>3, <1>4 DEF CodeInv

(* A frame that has just been entered.                                       *)
LEMMA NewFrame ==
  ASSUME NEW parts \in SUBSET {"except", "finally"}
  PROVE  Frame(parts) \in FrameShape /\ FrameOK(Frame(parts)) /\ ~Engaged(Frame(parts))
BY DEF Frame, FrameShape, FrameOK, Engaged

LEMMA EnterKeeps ==
  ASSUME CodeInv, RunInv, NEW parts \in {{}, {"except"}}, Enter(parts)
  PROVE  CodeInv'
<1>1. ~running /\ running'
  BY DEF Enter, StartBody, StartFinal
<1>2. frames = <<>> /\ frames' = <<Frame(parts)>>
  BY <1>1 DEF CodeInv, ScalarInv, Enter
<1>3. /\ Frame(parts) \in FrameShape
      /\ FrameOK(Frame(parts))
      /\ ~Engaged(Frame(parts))
  BY NewFrame
<1>4. Len(frames') = 1 /\ frames'[1] = Frame(parts) /\ frames' \in Seq(FrameShape)
  BY <1>2, <1>3
<1>5. \A i \in 1 .. Len(frames') : frames'[i] = Frame(parts)
  BY <1>4
<1>6. FramesInv'
  <2>1. \A i \in 1 .. Len(frames') : FrameOK(frames'[i])
    BY <1>3, <1>5, Zenon
  <2> QED
    BY <1>4, <2>1 DEF FramesInv
<1>7. ScalarInv' /\ FramesFreed'
  BY <1>1, <1>2, <1>4 DEF Enter, CodeInv, ScalarInv, FramesFreed
<1>8. TopInv'
  <2>1. Top' = Frame(parts)
    BY <1>4 DEF Top
  <2>2. ~Engaged(Top')
    BY <1>3, <2>1, Zenon
  <2> QED
    BY <2>2 DEF TopInv
<1>9. StaleInv'
  <2>1. \A i \in 1 .. Len(frames) : ~Engaged(frames[i])
    BY <1>2
  <2> QED
    BY <2>1 DEF CodeInv, StaleInv, Enter
<1> QED
  BY <1>6, <1>7, <1>8, <1>9 DEF CodeInv

\* The steps that leave the frames and CURRENT alone.
LEMMA FlatKeeps ==
  ASSUME CodeInv, UNCHANGED <<frames, current, held, leaked, strayed>>, ScalarInv'
  PROVE  CodeInv'
BY DEF CodeInv, FramesInv, FramesFreed, TopInv, StaleInv, Top

LEMMA CallKeeps ==
  ASSUME CodeInv, NEW parts \in ProcParts, Call(parts)
  PROVE  CodeInv'
<1> DEFINE caller == [Top EXCEPT !.nested = @ \/ Top.at # "body"]
           below  == [frames EXCEPT ![Len(frames)] = caller]
<1>1. /\ frames # <<>> /\ frames \in Seq(FrameShape) /\ Len(frames) \in Nat \ {0}
      /\ Top \in FrameShape /\ FrameOK(Top)
  BY PopFrame DEF CodeInv, FramesInv, Call, Executing, Top
<1>2. /\ caller \in FrameShape
      /\ caller.at = Top.at /\ caller.raised = Top.raised /\ caller.parts = Top.parts
      /\ caller.nested = (Top.nested \/ Top.at # "body")
  BY <1>1 DEF FrameShape
<1>3. /\ below \in Seq(FrameShape)
      /\ Len(below) = Len(frames)
      /\ below[Len(frames)] = caller
      /\ \A i \in 1 .. Len(frames) - 1 : below[i] = frames[i]
  BY <1>1, <1>2, ReplaceTop
<1>4. Frame(parts) \in FrameShape /\ FrameOK(Frame(parts)) /\ ~Engaged(Frame(parts))
  BY NewFrame DEF ProcParts
<1>5. frames' = Append(below, Frame(parts))
  <2>1. [frames EXCEPT ![Len(frames)].nested = @ \/ Top.at # "body"] = below
    BY <1>1 DEF Top
  <2> QED
    BY <2>1 DEF Call
<1> HIDE DEF below, caller
<1>6. /\ frames' \in Seq(FrameShape)
      /\ Len(frames') = Len(frames) + 1
      /\ frames'[Len(frames) + 1] = Frame(parts)
      /\ frames'[Len(frames)] = caller
      /\ \A i \in 1 .. Len(frames) - 1 : frames'[i] = frames[i]
  BY <1>1, <1>3, <1>4, <1>5, PushFrame
<1>7. \A i \in 1 .. Len(frames') :
         i = Len(frames) + 1 \/ i = Len(frames) \/ i \in 1 .. Len(frames) - 1
  BY <1>1, <1>6
<1>8. FramesInv'
  <2>1. FrameOK(caller)
    BY <1>1, <1>2 DEF FrameOK, Has
  <2>2. \A i \in 1 .. Len(frames) - 1 : FrameOK(frames[i])
    BY <1>1 DEF CodeInv, FramesInv
  <2>3. \A i \in 1 .. Len(frames') : FrameOK(frames'[i])
    BY <1>4, <1>6, <1>7, <2>1, <2>2, Zenon
  <2>4. ASSUME NEW i \in 1 .. Len(frames') - 1, frames'[i].at # "body" PROVE frames'[i].nested
    <3>1. i = Len(frames) \/ i \in 1 .. Len(frames) - 1
      BY <1>1, <1>6
    <3>2. CASE i = Len(frames)
      BY <1>2, <1>6, <2>4, <3>2
    <3>3. CASE i \in 1 .. Len(frames) - 1
      BY <1>6, <2>4, <3>3 DEF CodeInv, FramesInv
    <3> QED
      BY <3>1, <3>2, <3>3
  <2> QED
    BY <1>6, <2>3, <2>4 DEF FramesInv
<1>9. ScalarInv'
  BY <1>1 DEF CodeInv, ScalarInv, Call, Executing, runVars
<1>10. FramesFreed'
  BY <1>1, <1>6 DEF CodeInv, ScalarInv, FramesFreed, Call
<1>11. TopInv'
  <2>1. Top' = Frame(parts)
    BY <1>6 DEF Top
  <2>2. ~Engaged(Top')
    BY <1>4, <2>1, Zenon
  <2> QED
    BY <2>2 DEF TopInv
<1>12. StaleInv'
  <2> SUFFICES ASSUME \A i \in 1 .. Len(frames') : ~Engaged(frames'[i]), ~strayed
               PROVE  current = NoExc
    BY DEF StaleInv, Call
  <2>1. ~Engaged(caller)
    BY <1>1, <1>6
  <2>2. ~Engaged(Top)
    BY <1>2, <2>1 DEF Engaged, Has
  <2>3. \A i \in 1 .. Len(frames) - 1 : ~Engaged(frames[i])
    <3> TAKE i \in 1 .. Len(frames) - 1
    <3>1. i \in 1 .. Len(frames')
      BY <1>1, <1>6
    <3>2. frames'[i] = frames[i] /\ ~Engaged(frames'[i])
      BY <1>6, <3>1
    <3> QED
      BY <3>2, Zenon
  <2>4. \A i \in 1 .. Len(frames) : i = Len(frames) \/ i \in 1 .. Len(frames) - 1
    BY <1>1
  <2>5. \A i \in 1 .. Len(frames) : ~Engaged(frames[i])
    BY <2>2, <2>3, <2>4, Zenon DEF Top
  <2> QED
    BY <2>5 DEF CodeInv, StaleInv
<1> QED
  BY <1>8, <1>9, <1>10, <1>11, <1>12 DEF CodeInv

\* What every step inside a part knows of the innermost frame.
LEMMA TopFacts ==
  ASSUME CodeInv, frames # <<>>
  PROVE  /\ frames \in Seq(FrameShape)
         /\ Len(frames) \in Nat \ {0}
         /\ Top \in FrameShape
         /\ FrameOK(Top)
BY PopFrame DEF CodeInv, FramesInv, Top

\* Moving on to FINALLY.
LEMMA MoveToFinally ==
  ASSUME CodeInv, frames # <<>>, MoveTo("finally"), held' = held, leaked' = leaked
  PROVE  /\ FramesInv'
         /\ FramesFreed'
         /\ frames' # <<>>
         /\ Len(frames') = Len(frames)
         /\ Top' = [Top EXCEPT !.at = "finally"]
         /\ \A i \in 1 .. Len(frames) - 1 : frames'[i] = frames[i]
<1> DEFINE f == [Top EXCEPT !.at = "finally"]
<1>1. /\ frames \in Seq(FrameShape) /\ Len(frames) \in Nat \ {0}
      /\ Top \in FrameShape /\ FrameOK(Top)
  BY TopFacts
<1>2. f \in FrameShape /\ FrameOK(f)
  BY <1>1 DEF FrameShape, FrameOK
<1>3. frames' = [frames EXCEPT ![Len(frames)] = f]
  BY <1>1 DEF MoveTo, Top
<1> HIDE DEF f
<1>4. /\ FramesInv'
      /\ Len(frames') = Len(frames)
      /\ frames' # <<>>
      /\ Top' = f
      /\ \A i \in 1 .. Len(frames) - 1 : frames'[i] = frames[i]
  BY <1>2, <1>3, MoveKeeps DEF CodeInv
<1>5. FramesFreed'
  BY <1>4 DEF CodeInv, FramesFreed
<1> QED
  BY <1>4, <1>5 DEF f

LEMMA EndBodyKeeps == ASSUME CodeInv, EndBody PROVE CodeInv'
<1>1. frames # <<>> /\ Top.at = "body"
  BY DEF EndBody, Executing
<1>2. Top \in FrameShape /\ FrameOK(Top) /\ Len(frames) \in Nat \ {0}
  BY <1>1, TopFacts
<1>3. ~Engaged(Top) /\ Top.raised = NoExc
  BY <1>1, <1>2 DEF Engaged, FrameOK
<1>4. /\ current' = current /\ leaked' = leaked /\ strayed' = strayed
      /\ ScalarInv'
  BY <1>1 DEF EndBody, Executing, CodeInv, ScalarInv, runVars
<1>5. CASE Has(Top, "finally")
  <2>1. MoveTo("finally") /\ held' = held
    BY <1>5 DEF EndBody
  <2>2. /\ FramesInv' /\ FramesFreed'
        /\ Len(frames') = Len(frames)
        /\ Top' = [Top EXCEPT !.at = "finally"]
        /\ \A i \in 1 .. Len(frames) - 1 : frames'[i] = frames[i]
    BY <1>1, <1>4, <2>1, MoveToFinally
  <2>3. ~Engaged(Top')
    BY <1>2, <1>3, <2>2 DEF Engaged, FrameShape
  <2>4. TopInv'
    BY <2>3 DEF TopInv
  <2>5. StaleInv'
    <3> SUFFICES ASSUME \A i \in 1 .. Len(frames') : ~Engaged(frames'[i]), ~strayed
                 PROVE  current = NoExc
      BY <1>4 DEF StaleInv
    <3>1. \A i \in 1 .. Len(frames) - 1 : ~Engaged(frames[i])
      <4> TAKE i \in 1 .. Len(frames) - 1
      <4>1. i \in 1 .. Len(frames')
        BY <1>2, <2>2
      <4>2. frames'[i] = frames[i] /\ ~Engaged(frames'[i])
        BY <2>2, <4>1
      <4> QED
        BY <4>2, Zenon
    <3>2. \A i \in 1 .. Len(frames) : i = Len(frames) \/ i \in 1 .. Len(frames) - 1
      BY <1>2
    <3>3. \A i \in 1 .. Len(frames) : ~Engaged(frames[i])
      BY <1>3, <3>1, <3>2, Zenon DEF Top
    <3> QED
      BY <3>3 DEF CodeInv, StaleInv
  <2> QED
    BY <1>4, <2>2, <2>4, <2>5 DEF CodeInv
<1>6. CASE ~Has(Top, "finally")
  <2>1. Leave
    BY <1>6 DEF EndBody
  <2>2. FramesInv' /\ FramesFreed' /\ TopInv'
    BY <1>1, <1>4, <2>1, LeaveKeeps
  <2>3. strayed' = (strayed \/ Engaged(Top))
    BY <1>3, <1>4 DEF CodeInv, ScalarInv
  <2>4. StaleInv'
    BY <1>1, <1>4, <2>1, <2>3, StaleAfterPop DEF Leave
  <2> QED
    BY <1>4, <2>2, <2>4 DEF CodeInv
<1> QED
  BY <1>5, <1>6

LEMMA EndHandlerKeeps == ASSUME CodeInv, EndHandler PROVE CodeInv'
<1>1. frames # <<>> /\ Top.at = "handler"
  BY DEF EndHandler, Executing
<1>2. Top \in FrameShape /\ FrameOK(Top)
  BY <1>1, TopFacts
<1>3. leaked' = leaked /\ ScalarInv' /\ StaleInv'
  BY <1>1 DEF EndHandler, Executing, CodeInv, ScalarInv, StaleInv, runVars
<1>4. CASE Has(Top, "finally")
  <2>1. MoveTo("finally") /\ held' = held
    BY <1>4 DEF EndHandler
  <2>2. FramesInv' /\ FramesFreed' /\ Top' = [Top EXCEPT !.at = "finally"]
    BY <1>1, <1>3, <2>1, MoveToFinally
  <2>3. Has(Top, "except")
    BY <1>1, <1>2 DEF FrameOK
  <2>4. ~Engaged(Top')
    BY <1>2, <2>2, <2>3 DEF Engaged, FrameShape, Has
  <2>5. TopInv'
    BY <2>4 DEF TopInv
  <2> QED
    BY <1>3, <2>2, <2>5 DEF CodeInv
<1>5. CASE ~Has(Top, "finally")
  <2>1. Leave
    BY <1>5 DEF EndHandler
  <2>2. FramesInv' /\ FramesFreed' /\ TopInv'
    BY <1>1, <1>3, <2>1, LeaveKeeps
  <2> QED
    BY <1>3, <2>2 DEF CodeInv
<1> QED
  BY <1>4, <1>5

LEMMA EndFinallyKeeps == ASSUME CodeInv, EndFinally PROVE CodeInv'
<1>1. frames # <<>> /\ ~Engaged(Top) /\ Leave
  BY DEF EndFinally, Executing
<1>2. /\ current' = current /\ leaked' = leaked /\ strayed' = strayed
      /\ ScalarInv'
  BY <1>1 DEF EndFinally, Executing, CodeInv, ScalarInv, runVars
<1>3. FramesInv' /\ FramesFreed' /\ TopInv'
  BY <1>1, <1>2, LeaveKeeps
<1>4. strayed' = (strayed \/ Engaged(Top))
  BY <1>1, <1>2 DEF CodeInv, ScalarInv
<1>5. StaleInv'
  BY <1>1, <1>2, <1>4, StaleAfterPop DEF Leave
<1> QED
  BY <1>2, <1>3, <1>5 DEF CodeInv

LEMMA ReraiseKeeps == ASSUME CodeInv, Reraise PROVE CodeInv'
<1>1. frames # <<>> /\ Leave /\ leaked' = leaked
  BY DEF Reraise, Executing
<1>2. ScalarInv' /\ StaleInv'
  BY <1>1 DEF Reraise, Executing, CodeInv, ScalarInv, StaleInv, runVars
<1>3. FramesInv' /\ FramesFreed' /\ TopInv'
  BY <1>1, LeaveKeeps
<1> QED
  BY <1>2, <1>3 DEF CodeInv

LEMMA ReturnEarlyKeeps == ASSUME CodeInv, ReturnEarly PROVE CodeInv'
<1>1. /\ frames # <<>> /\ Leave /\ leaked' = leaked /\ current' = current
      /\ strayed' = (strayed \/ Engaged(Top))
  BY DEF ReturnEarly, Executing
<1>2. strayed' \in BOOLEAN
  BY <1>1, Zenon
<1>3. ScalarInv'
  BY <1>1, <1>2 DEF ReturnEarly, Executing, CodeInv, ScalarInv, runVars
<1>4. FramesInv' /\ FramesFreed' /\ TopInv'
  BY <1>1, LeaveKeeps
<1>5. StaleInv'
  BY <1>1, StaleAfterPop DEF Leave
<1> QED
  BY <1>3, <1>4, <1>5 DEF CodeInv

LEMMA RetryKeeps == ASSUME CodeInv, Retry PROVE CodeInv'
<1>1. frames # <<>> /\ frames' = Append(Below, Frame(Top.parts))
  BY DEF Retry, Executing
<1>2. Top \in FrameShape /\ Len(frames) \in Nat \ {0}
  BY <1>1, TopFacts
<1>3. /\ Frame(Top.parts) \in FrameShape
      /\ FrameOK(Frame(Top.parts))
      /\ ~Engaged(Frame(Top.parts))
  BY <1>2, NewFrame DEF FrameShape
<1>4. /\ Below \in Seq(FrameShape)
      /\ Len(Below) = Len(frames) - 1
      /\ \A i \in 1 .. Len(frames) - 1 : Below[i] = frames[i]
  BY <1>1, PopFrame DEF CodeInv, FramesInv
<1>5. /\ frames' \in Seq(FrameShape)
      /\ Len(frames') = Len(frames)
      /\ frames'[Len(frames)] = Frame(Top.parts)
      /\ \A i \in 1 .. Len(frames) - 1 : frames'[i] = frames[i]
  <2>1. /\ Append(Below, Frame(Top.parts)) \in Seq(FrameShape)
        /\ Len(Append(Below, Frame(Top.parts))) = Len(Below) + 1
        /\ Append(Below, Frame(Top.parts))[Len(Below) + 1] = Frame(Top.parts)
        /\ \A i \in 1 .. Len(Below) : Append(Below, Frame(Top.parts))[i] = Below[i]
    BY <1>3, <1>4, PushFrame
  <2>2. Len(Below) + 1 = Len(frames)
    BY <1>2, <1>4
  <2> QED
    BY <1>1, <1>4, <2>1, <2>2
<1>6. \A i \in 1 .. Len(frames) : i = Len(frames) \/ i \in 1 .. Len(frames) - 1
  BY <1>2
<1>7. FramesInv'
  <2>1. \A i \in 1 .. Len(frames) - 1 : FrameOK(frames[i])
    BY <1>2 DEF CodeInv, FramesInv
  <2>2. \A i \in 1 .. Len(frames) : FrameOK(frames'[i])
    BY <1>3, <1>5, <1>6, <2>1, Zenon
  <2>3. \A i \in 1 .. Len(frames) - 1 : frames'[i].at # "body" => frames'[i].nested
    BY <1>5 DEF CodeInv, FramesInv
  <2> QED
    BY <1>5, <2>2, <2>3 DEF FramesInv
<1>8. ScalarInv' /\ StaleInv'
  BY <1>1 DEF Retry, Executing, CodeInv, ScalarInv, StaleInv, runVars
<1>9. frames' # <<>>
  BY <1>2, <1>5
<1>10. FramesFreed'
  BY <1>1, <1>5, <1>9 DEF Retry, CodeInv, FramesFreed
<1>11. TopInv'
  <2>1. Top' = Frame(Top.parts)
    BY <1>5 DEF Top
  <2>2. ~Engaged(Top')
    BY <1>3, <2>1, Zenon
  <2> QED
    BY <2>2 DEF TopInv
<1> QED
  BY <1>7, <1>8, <1>10, <1>11 DEF CodeInv

LEMMA CatchKeeps == ASSUME CodeInv, Catch PROVE CodeInv'
<1> DEFINE f == [Top EXCEPT !.raised = flying,
                            !.at = IF Has(Top, "except") THEN "handler" ELSE "finally"]
<1>1. frames # <<>> /\ flying \in Exceptions /\ Top.at = "body"
  BY DEF Catch
<1>2. /\ frames \in Seq(FrameShape) /\ Len(frames) \in Nat \ {0}
      /\ Top \in FrameShape /\ FrameOK(Top)
  BY <1>1, TopFacts
<1>3. flying # NoExc
  BY <1>1, ProtectedAssumption
<1>4. /\ f \in FrameShape /\ FrameOK(f) /\ Engaged(f) /\ f.raised = flying
  BY <1>1, <1>2, <1>3 DEF FrameShape, FrameOK, Engaged, Has
<1>5. frames' = [frames EXCEPT ![Len(frames)] = f]
  BY <1>2 DEF Catch, Top
<1> HIDE DEF f
<1>6. /\ FramesInv'
      /\ Len(frames) \in Nat \ {0}
      /\ Len(frames') = Len(frames)
      /\ frames' # <<>>
      /\ Top' = f
      /\ frames'[Len(frames)] = f
  BY <1>1, <1>4, <1>5, MoveKeeps DEF CodeInv
<1>7. ScalarInv'
  BY <1>1 DEF Catch, CodeInv, ScalarInv, runVars
<1>8. FramesFreed'
  BY <1>1, <1>6 DEF Catch, CodeInv, FramesFreed
<1>9. TopInv'
  BY <1>4, <1>6 DEF TopInv, Catch
<1>10. StaleInv'
  <2>1. Len(frames) \in 1 .. Len(frames')
    BY <1>6
  <2>2. Engaged(frames'[Len(frames)])
    BY <1>4, <1>6, Zenon
  <2> QED
    BY <2>1, <2>2 DEF StaleInv
<1> QED
  BY <1>6, <1>7, <1>8, <1>9, <1>10 DEF CodeInv

LEMMA UnwindKeeps == ASSUME CodeInv, Unwind PROVE CodeInv'
<1>1. /\ frames # <<>> /\ frames' = Below /\ current' = current /\ held' = held
      /\ leaked' = leaked + OneIfProc
      /\ strayed' = (strayed \/ Engaged(Top))
  BY DEF Unwind
<1>2. /\ FramesInv'
      /\ Len(frames) \in Nat \ {0}
      /\ Len(frames') = Len(frames) - 1
      /\ frames' # <<>> => (Engaged(Top') => Top'.nested)
  BY <1>1, PopKeeps DEF CodeInv
<1>3. strayed' \in BOOLEAN
  BY <1>1, Zenon
<1>4. ScalarInv'
  BY <1>1, <1>3 DEF Unwind, CodeInv, ScalarInv, runVars, OneIfProc
<1>5. TopInv'
  BY <1>2 DEF TopInv
<1>6. StaleInv'
  BY <1>1, StaleAfterPop
<1>7. frames' = <<>> <=> Len(frames) = 1
  BY <1>2 DEF FramesInv
<1>8. leaked \in Nat /\ held = leaked + Len(frames) - 1
  BY <1>1, <1>2 DEF CodeInv, FramesFreed, ScalarInv
<1>9. FramesFreed'
  <2>1. CASE Len(frames) = 1
    BY <1>1, <1>7, <1>8, <2>1 DEF FramesFreed, OneIfProc
  <2>2. CASE Len(frames) # 1
    <3>1. OneIfProc = 1
      BY <1>2, <2>2 DEF OneIfProc
    <3>2. held' = leaked' + (Len(frames') - 1)
      BY <1>1, <1>2, <1>8, <3>1
    <3> QED
      BY <1>7, <2>2, <3>2 DEF FramesFreed
  <2> QED
    BY <2>1, <2>2
<1> QED
  BY <1>2, <1>4, <1>5, <1>6, <1>9 DEF CodeInv

-----------------------------------------------------------------------------

LEMMA RaiseKeeps == ASSUME CodeInv, NEW e \in Exceptions, Raise(e) PROVE CodeInv'
<1>1. ScalarInv'
  BY ProtectedAssumption DEF Raise, Executing, CodeInv, ScalarInv, runVars
<1> QED
  BY <1>1, FlatKeeps DEF Raise

LEMMA HaltCallKeeps == ASSUME CodeInv, NEW code \in Codes, HaltCall(code) PROVE CodeInv'
<1>1. ScalarInv'
  BY ProtectedAssumption DEF HaltCall, Halt, Executing, CodeInv, ScalarInv
<1> QED
  BY <1>1, FlatKeeps DEF HaltCall

\* Control leaves a part, or moves in the driver, only when the stack is empty.
LEMMA DriverKeeps == ASSUME CodeInv, RunInv, EndPart \/ Between PROVE CodeInv'
<1>1. frames = <<>> /\ UNCHANGED <<frames, current, held, leaked, strayed, raises>>
  <2>1. CASE EndPart
    BY <2>1 DEF EndPart
  <2>2. CASE Between
    <3>1. ~running
      BY <2>2 DEF Between, BeginTermination, Finish, NextRun, RunInv, LoopInv
    <3> QED
      BY <2>2, <3>1 DEF Between, codeVars, CodeInv, ScalarInv
  <2> QED
    BY <2>1, <2>2
<1>2. flying' \in Exceptions \cup {NoExc, Panic}
  BY DEF EndPart, Between, codeVars, CodeInv, ScalarInv
<1>3. ScalarInv'
  BY <1>1, <1>2 DEF CodeInv, ScalarInv
<1> QED
  BY <1>1, <1>3, FlatKeeps

LEMMA CodeStep == CodeInv /\ RunInv /\ [CodeNext]_vars => CodeInv'
<1> SUFFICES ASSUME CodeInv, RunInv, [CodeNext]_vars PROVE CodeInv'
  OBVIOUS
<1>1. ASSUME NEW parts \in {{}, {"except"}}, Enter(parts) PROVE CodeInv'
  BY <1>1, EnterKeeps
<1>2. ASSUME NEW parts \in ProcParts, Call(parts) PROVE CodeInv'
  BY <1>2, CallKeeps
<1>3. ASSUME NEW e \in Exceptions, Raise(e) PROVE CodeInv'
  BY <1>3, RaiseKeeps
<1>4. ASSUME NEW code \in Codes, HaltCall(code) PROVE CodeInv'
  BY <1>4, HaltCallKeeps
<1>5. CASE EndBody \/ EndHandler \/ EndFinally \/ Reraise
  BY <1>5, EndBodyKeeps, EndHandlerKeeps, EndFinallyKeeps, ReraiseKeeps
<1>6. CASE ReturnEarly \/ Retry \/ Catch \/ Unwind
  BY <1>6, ReturnEarlyKeeps, RetryKeeps, CatchKeeps, UnwindKeeps
<1>7. CASE EndPart \/ Between
  BY <1>7, DriverKeeps
<1>8. CASE UNCHANGED vars
  <2>1. ScalarInv'
    BY <1>8 DEF vars, runVars, codeVars, CodeInv, ScalarInv
  <2> QED
    BY <1>8, <2>1, FlatKeeps DEF vars, codeVars
<1> QED
  BY <1>1, <1>2, <1>3, <1>4, <1>5, <1>6, <1>7, <1>8, Zenon DEF CodeNext

-----------------------------------------------------------------------------

(* The two inductive invariants together: that of the driver, which the       *)
(* program keeps, and that of the code under it.                              *)
THEOREM CodeInvariant == Spec => [](RunInv /\ CodeInv)
<1>1. Spec => []RunInv
  BY ProgramIsARun, RunInvariant, PTL
<1>2. Init /\ CodeInit => CodeInv
  BY CodeInitially
<1>3. CodeInv /\ RunInv /\ [CodeNext]_vars => CodeInv'
  BY CodeStep
<1> QED
  BY <1>1, <1>2, <1>3, PTL DEF Spec, SystemInit

(* The state keeps its shape: a handler has an exception to handle, and a    *)
(* frame in its body has none.                                               *)
THEOREM ShapeKept == Spec => []TypeOK
<1>1. RunInv /\ CodeInv => TypeOK
  <2> SUFFICES ASSUME RunInv, CodeInv PROVE TypeOK
    OBVIOUS
  <2>1. RunTypeOK
    BY DEF RunInv
  <2>2. frames \in Seq(FrameShape) /\ DOMAIN frames = 1 .. Len(frames) /\ Len(frames) \in Nat
    BY DEF CodeInv, FramesInv
  <2>3. \A i \in DOMAIN frames : FrameOK(frames[i])
    BY <2>2 DEF CodeInv, FramesInv
  <2>4. held \in Nat
    <3>1. CASE frames = <<>>
      BY <3>1 DEF CodeInv, FramesFreed, ScalarInv
    <3>2. CASE frames # <<>>
      <4>1. Len(frames) - 1 \in Nat
        BY <2>2, <3>2, PopFrame
      <4> QED
        BY <3>2, <4>1 DEF CodeInv, FramesFreed, ScalarInv
    <3> QED
      BY <3>1, <3>2
  <2> QED
    BY <2>1, <2>2, <2>3, <2>4, Zenon DEF TypeOK, CodeInv, ScalarInv, FrameOK
<1> QED
  BY <1>1, CodeInvariant, PTL

(* A handler reads its own exception, and a FINALLY passes its own one on,   *)
(* unless it has called a protected procedure.                               *)
THEOREM HandlersReadTheirOwn == Spec => []OwnException
<1>1. CodeInv => OwnException
  BY DEF CodeInv, TopInv, OwnException
<1> QED
  BY <1>1, CodeInvariant, PTL

(* Unless a handler was left by RETURN or unwound, CURRENT is empty whenever *)
(* no handler is being executed.                                             *)
THEOREM CurrentIsCleared == Spec => []NoStaleException
<1>1. CodeInv => NoStaleException
  <2> SUFFICES ASSUME CodeInv PROVE NoStaleException
    OBVIOUS
  <2>1. DOMAIN frames = 1 .. Len(frames)
    BY DEF CodeInv, FramesInv
  <2> QED
    BY <2>1 DEF CodeInv, StaleInv, NoStaleException
<1> QED
  BY <1>1, CodeInvariant, PTL

(* CURRENT is the handler's own exception, and empty when there is none.     *)
THEOREM CurrentIsOwnOrNone == Spec => []CurrentException
BY HandlersReadTheirOwn, CurrentIsCleared, PTL DEF CurrentException

(* Heap exception frames are freed on every way out of a wrapper but         *)
(* unwinding.                                                                *)
THEOREM ExceptionFramesFreed == Spec => []FramesFreed
<1>1. CodeInv => FramesFreed
  BY DEF CodeInv
<1> QED
  BY <1>1, CodeInvariant, PTL

(* After HALT no code of a module body runs: no handler can stop it.         *)
THEOREM HaltGetsThrough == Spec => []HaltStopsBodies
<1>1. RunInv => HaltStopsBodies
  BY DEF RunInv, FlagsInv, HaltStopsBodies, Executing
<1> QED
  BY <1>1, CodeInvariant, PTL

(* What was proved of the driver holds of the whole program, whatever its    *)
(* code does: finalizers run in reverse, once, for exactly the modules that  *)
(* were initialized, and the exit status and TERMINATION's flags are honest. *)
THEOREM DriverGuarantees ==
  Spec => [](ModulesFinalized /\ RunTold)
BY ProgramIsARun, ModulesAreFinalized, RunTellsTheTruth, PTL
=============================================================================
