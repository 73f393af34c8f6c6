----------------------------- MODULE HeapCheck ------------------------------
(***************************************************************************)
(* The warnings of `analyze` about NEW and DISPOSE                         *)
(* (newm2-sema/src/heapcheck.rs), beside what executions of the procedure  *)
(* really do.  The pass keeps a state per variable, so one local pointer p *)
(* is enough; it reads forward only, so the procedure is written while it  *)
(* is read.                                                                *)
(*                                                                         *)
(* Plain statements are named for what they do with p: NEW(p), DISPOSE(p), *)
(* a use of p^, q := p, p := q, a call that is given p by VAR and makes,   *)
(* frees or fills it, and in a LOOP an EXIT under some condition.  A com-  *)
(* pound statement has a body of plain ones, or arms of them, and may use  *)
(* p^ in its condition.  An "if" may take none of its arms, a "case" takes *)
(* one: an IF with ELSE, CASE, GUARD and, with one arm, WITH.  Behind its  *)
(* statements the procedure may have an EXCEPT and a FINALLY part.         *)
(***************************************************************************)
EXTENDS Naturals, Sequences

VARIABLES
    code,       \* the procedure's statements so far
    open,       \* is the last one a compound statement without its END yet
    part,       \* which part of the procedure it is: "body", "except" or "finally"
    scan,       \* what the pass knows of p: its state, and whether it has escaped
    runs,       \* what p is in the executions that come here (the first time)
    been,       \* what it has been in them, where something may have been raised
    handled,    \* what it is in those that went through the EXCEPT part
    alarms,     \* the warnings that some of those gave no reason for
    frame       \* what the open statement's END has to know

checkVars == <<code, open, part, scan, runs, been, handled, alarms, frame>>

Changes == {"new", "dispose", "set"}
Plain == {"new", "dispose", "deref", "copy", "set"}
Given == {"make", "free", "fill"}
Simple == Plain \cup Given
Compound == {"if", "case", "while", "repeat", "loop"}

-----------------------------------------------------------------------------
(* The scan of a statement.                                                *)

Start == [st |-> "none", escaped |-> FALSE]

\* What scan_stmt, scan_expr and scan_designator report of a plain statement;
\* the target of an assignment and what a call is given are scanned as uses.
Warnings(v, op) ==
    {w \in {"lost", "double", "use", "target"} :
        \/ w = "lost" /\ op = "new" /\ v.st = "alloc"
        \/ w = "double" /\ op = "dispose" /\ v.st = "disposed"
        \/ w = "use" /\ op \in {"deref", "copy"} \cup Given /\ v.st = "disposed"
        \/ w = "target" /\ op = "set" /\ v.st = "disposed"}

\* By an assignment to it p escapes, too, and as an argument; what a call does
\* with p makes no difference.
ScanPlain(v, op) ==
    [st |-> CASE op = "new" -> "alloc"
              [] op = "dispose" -> "disposed"
              [] op = "set" -> "unknown"
              [] OTHER -> v.st,
     escaped |-> v.escaped \/ op \in {"copy", "set"} \cup Given]

\* Mutant: only what is new in a branch counts as touched.
TouchedWhenNew(before, end) == before.st = "none" /\ end.st # "none"

\* scan_branch scans on a copy, whose state is dropped at its end.
Touched(before, end) == end.st # before.st

ScanBranch(before, end) == [before EXCEPT !.escaped = @ \/ end.escaped]

\* report_leaks at the end of the procedure.
LeakReported == scan.st = "alloc" /\ ~ scan.escaped

-----------------------------------------------------------------------------
(* Executions.  What p can be: "none" yet, "own" (the only pointer to its     *)
(* block), "shared" (another has a copy), "gone" (disposed), "other".         *)

Concrete == {"none", "own", "shared", "gone", "other"}

\* The mistakes that an execution makes by a plain statement.
Mistakes(c, op) ==
    {w \in {"lost", "double", "use"} :
        \/ w = "lost" /\ op = "new" /\ c = "own"
        \/ w = "double" /\ op = "dispose" /\ c = "gone"
        \/ w = "use" /\ op \in {"deref", "copy", "free"} /\ c = "gone"}

Effect(c, op) ==
    CASE op \in {"new", "make"} -> "own"
      [] op \in {"dispose", "free"} -> "gone"
      [] op \in {"set", "fill"} -> "other"
      [] op = "copy" /\ c = "own" -> "shared"
      [] OTHER -> c

Via(f, C) == {f[c] : c \in C}

Identity == [c \in Concrete |-> c]

\* What p can be whenever a body that is repeated, and does f, begins.
Rounds(C, f) ==
    {c \in Concrete : \A R \in SUBSET Concrete : C \subseteq R /\ Via(f, R) \subseteq R => c \in R}

\* What p can be behind a compound statement.
Behind(kind) ==
    LET again == Rounds(frame.runs, frame.through)
    IN  CASE kind = "if"     -> frame.runs \cup frame.past \cup runs
          [] kind = "case"   -> frame.past \cup runs
          [] kind = "while"  -> again
          [] kind = "repeat" -> Via(frame.through, again)
          [] kind = "loop"   -> UNION {Via(f, again) : f \in frame.ways}

-----------------------------------------------------------------------------
(* Both together.                                                             *)

False(v, op) == {w \in Warnings(v, op) : \E c \in runs : w \notin Mistakes(c, op)}

\* The statement begins: touched and past are about the arms that have ended,
\* through is what this one does with p, ways what it has done at its EXITs.
Began ==
    [scan |-> scan, runs |-> runs, touched |-> FALSE, past |-> {},
     through |-> Identity, ways |-> {}]

CheckInit ==
    /\ code = <<>> /\ open = FALSE /\ part = "body"
    /\ scan = Start /\ runs = {"none"} /\ alarms = {}
    /\ been = runs /\ handled = {}
    /\ frame = Began

CheckPlain(op) ==
    /\ scan' = ScanPlain(scan, op)
    /\ runs' = {Effect(c, op) : c \in runs}
    /\ been' = been \cup runs'
    /\ alarms' = alarms \cup False(scan, op)

AddPlain(op) ==
    /\ part = "body" /\ ~open
    /\ code' = Append(code, [kind |-> op, test |-> FALSE, body |-> <<>>])
    /\ CheckPlain(op)
    /\ UNCHANGED <<open, frame, part, handled>>

\* The condition is scanned before the body, UNTIL's is not.
BeginCompound(kind, test) ==
    /\ part = "body" /\ ~open /\ open' = TRUE
    /\ code' = Append(code, [kind |-> kind, test |-> test, body |-> <<>>])
    /\ frame' = Began
    /\ alarms' = IF test /\ kind # "repeat" THEN alarms \cup False(scan, "deref") ELSE alarms
    /\ UNCHANGED <<scan, runs, been, part, handled>>

LastStatement == code[Len(code)]

Extended(op) == [code EXCEPT ![Len(code)].body = Append(@, op)]

AddToBody(op) ==
    /\ open
    /\ code' = Extended(op)
    /\ CheckPlain(op)
    /\ frame' = [frame EXCEPT !.through = [c \in Concrete |-> Effect(@[c], op)]]
    /\ UNCHANGED <<open, part, handled>>

ArmTouches == frame.touched \/ Touched(frame.scan, scan)

\* Each arm begins with the state before the statement.
AddArm ==
    /\ open /\ LastStatement.kind \in {"if", "case"}
    /\ code' = Extended("|")
    /\ scan' = ScanBranch(frame.scan, scan)
    /\ runs' = frame.runs
    /\ frame' = [frame EXCEPT !.touched = ArmTouches, !.past = @ \cup runs, !.through = Identity]
    /\ UNCHANGED <<open, alarms, been, part, handled>>

\* The pass makes nothing of an EXIT.
AddExit ==
    /\ open /\ LastStatement.kind = "loop"
    /\ code' = Extended("exit")
    /\ frame' = [frame EXCEPT !.ways = @ \cup {frame.through}]
    /\ UNCHANGED <<open, scan, runs, alarms, been, part, handled>>

\* What an arm has touched is unknown.  UNTIL's condition is scanned after the
\* body with the state before it, and executed after it.
EndCompound ==
    /\ open /\ open' = FALSE
    /\ scan' = [ScanBranch(frame.scan, scan) EXCEPT !.st = IF ArmTouches THEN "unknown" ELSE @]
    /\ runs' = Behind(LastStatement.kind)
    /\ been' = been \cup runs'
    /\ alarms' = IF LastStatement.test /\ LastStatement.kind = "repeat"
                 THEN alarms \cup False(frame.scan, "deref") ELSE alarms
    /\ UNCHANGED <<code, frame, part, handled>>

\* The pass ends with the body; the EXCEPT part begins with what p was where
\* something was raised, the FINALLY part with what it is behind both.
BeginExcept ==
    /\ part = "body" /\ ~open
    /\ part' = "except" /\ handled' = been
    /\ UNCHANGED <<code, open, scan, runs, been, alarms, frame>>

BeginFinally ==
    /\ part \in {"body", "except"} /\ ~open
    /\ part' = "finally"
    /\ UNCHANGED <<code, open, scan, runs, been, handled, alarms, frame>>

AddToPart(op) ==
    /\ part # "body"
    /\ handled' = {Effect(c, op) : c \in handled}
    /\ runs' = IF part = "finally" THEN {Effect(c, op) : c \in runs} ELSE runs
    /\ UNCHANGED <<code, open, part, scan, been, alarms, frame>>

CheckNext ==
    \/ \E op \in Simple : AddPlain(op)
    \/ \E kind \in Compound, test \in BOOLEAN :
            (kind = "loop" => ~test) /\ BeginCompound(kind, test)
    \/ \E op \in Simple : AddToBody(op)
    \/ AddArm
    \/ AddExit
    \/ EndCompound
    \/ BeginExcept
    \/ BeginFinally
    \/ \E op \in Simple : AddToPart(op)

CheckSpec == CheckInit /\ [][CheckNext]_checkVars

-----------------------------------------------------------------------------

Statement == [kind : Simple \cup Compound, test : BOOLEAN, body : Seq(Simple \cup {"|", "exit"})]

Scans == [st : {"none", "alloc", "disposed", "unknown"}, escaped : BOOLEAN]

TypeOKCheck ==
    /\ code \in Seq(Statement)
    /\ open \in BOOLEAN
    /\ open => code # <<>> /\ LastStatement.kind \in Compound /\ part = "body"
    /\ part \in {"body", "except", "finally"}
    /\ scan \in Scans /\ runs \subseteq Concrete
    /\ been \subseteq Concrete /\ handled \subseteq Concrete /\ (part = "body" => handled = {})
    /\ alarms \subseteq {"lost", "double", "use", "target"}
    /\ frame \in [scan : Scans, runs : SUBSET Concrete, touched : BOOLEAN, past : SUBSET Concrete,
                  through : [Concrete -> Concrete], ways : SUBSET [Concrete -> Concrete]]

\* At an END the leaks are reported, too, that there were if it were the last.
FalseAlarms ==
    alarms \cup {w \in {"leak"} :
                    ~open /\ LeakReported /\ \E c \in runs \cup handled : c # "own"}

Has(op) ==
    \E i \in DOMAIN code :
        code[i].kind = op \/ \E j \in DOMAIN code[i].body : code[i].body[j] = op

\* An EXIT between a change of p and the change that undoes it.
LeftInBetween ==
    \E i \in DOMAIN code : LET b == code[i].body IN
        \E j, k, l \in DOMAIN b :
            j < k /\ k < l /\ b[j] \in Changes /\ b[k] = "exit" /\ b[l] \in Changes

GivenByVar == \E op \in Given : Has(op)

(* A warning is one for every execution that comes to its place: joins forget *)
(* what one branch has done (heapcheck.rs:10-13).  There are six exceptions:  *)
(* an assignment to p counts as a use of it, UNTIL's condition is scanned     *)
(* with the state before the loop, a second NEW does not ask for copies, an   *)
(* EXIT is not taken for a way out of a loop's body, what a call that is      *)
(* given p by VAR makes of it is not known, though p is then never reported   *)
(* as a leak, and neither is what an EXCEPT or FINALLY part makes of it.      *)
WarningsReal ==
    \A w \in FalseAlarms :
        \/ w = "target"
        \/ LeftInBetween
        \/ w # "leak" /\ GivenByVar
        \/ w = "leak" /\ part # "body"
        \/ w = "use" /\ \E i \in DOMAIN code : code[i].kind = "repeat" /\ code[i].test
        \/ w = "lost" /\ Has("copy")
=============================================================================
