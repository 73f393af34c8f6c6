------------------------------ MODULE AsyncJobs ------------------------------
(***************************************************************************)
(* Proc.RunAsync, RunDone and RunCollect (newm2-runtime/src/proc.rs): a    *)
(* table of jobs under one mutex, a slot per job that its worker thread    *)
(* fills when the command has ended, and callers on any thread.  A step is *)
(* one section under a lock; RunCollect takes two locks one after the      *)
(* other and gives up each before it takes the next.                       *)
(***************************************************************************)
EXTENDS Integers

CONSTANTS
    Callers,   \* threads that call the library module Proc
    NoOne,     \* nobody has collected the job
    JobLimit   \* bound on the jobs started

ASSUME JobsAssumption ==
    /\ JobLimit \in Nat
    /\ NoOne \notin Callers

VARIABLES
    nextId,   \* NEXT_JOB_ID
    table,    \* the ids in job_table
    full,     \* jobs whose slot holds Some(result)
    worker,   \* each job's thread: "none", "running", "ended"
    pc,       \* where each caller is: "idle" or inside a call
    id,       \* the job its call is about
    answer,   \* what its last call returned
    owner     \* history: who took a job's result out of its slot

tableVars == <<nextId, table, full, worker>>
callVars == <<pc, id, answer>>
jobVars == <<nextId, table, full, worker, pc, id, answer, owner>>

Jobs == 1 .. JobLimit

Answers == {"id", "code", "1", "0", "-1", "-2"}

\* The ids that a RunAsync has returned: the ones a program can ask about.
Issued == {j \in Jobs : j < nextId /\ worker[j] # "none"}

Init ==
    /\ nextId = 1
    /\ table = {}
    /\ full = {}
    /\ worker = [j \in Jobs |-> "none"]
    /\ pc = [c \in Callers |-> "idle"]
    /\ id = [c \in Callers |-> 0]
    /\ answer = [c \in Callers |-> [job |-> 0, ret |-> "id"]]
    /\ owner = [j \in Jobs |-> NoOne]

Enter(c, at, j) == pc' = [pc EXCEPT ![c] = at] /\ id' = [id EXCEPT ![c] = j]

GoOn(c, at) == pc' = [pc EXCEPT ![c] = at]

\* The call about j returns r.
Answer(c, j, r) ==
    answer' = [answer EXCEPT ![c] = [job |-> j, ret |-> r]]

-----------------------------------------------------------------------------

\* Mutant: the id is read from the counter, which stays.
TakeIdLoad(c) ==
    /\ pc[c] = "idle"
    /\ nextId \in Jobs
    /\ Enter(c, "insert", nextId)
    /\ UNCHANGED <<tableVars, answer, owner>>

(* nm2_proc_run_async: an id, then the table, then the detached worker.      *)
TakeId(c) ==
    /\ pc[c] = "idle"
    /\ nextId \in Jobs
    /\ nextId' = nextId + 1
    /\ Enter(c, "insert", nextId)
    /\ UNCHANGED <<table, full, worker, answer, owner>>

Insert(c) ==
    /\ pc[c] = "insert"
    /\ table' = table \cup {id[c]}
    /\ GoOn(c, "spawn")
    /\ UNCHANGED <<nextId, full, worker, id, answer, owner>>

Spawn(c) ==
    /\ pc[c] = "spawn"
    /\ worker' = [worker EXCEPT ![id[c]] = "running"]
    /\ GoOn(c, "idle")
    /\ Answer(c, id[c], "id")
    /\ UNCHANGED <<nextId, table, full, id, owner>>

(* The worker: the command ends and its result goes into the slot.           *)
Store(j) ==
    /\ worker[j] = "running"
    /\ worker' = [worker EXCEPT ![j] = "ended"]
    /\ full' = full \cup {j}
    /\ UNCHANGED <<nextId, table, callVars, owner>>

(* nm2_proc_run_done: the slot is read with the table locked.                *)
RunDone(c, j) ==
    /\ pc[c] = "idle"
    /\ Answer(c, j, IF j \notin table THEN "-1" ELSE IF j \in full THEN "1" ELSE "0")
    /\ id' = [id EXCEPT ![c] = j]
    /\ UNCHANGED <<tableVars, pc, owner>>

\* Mutant: the job leaves the table before it is known to be ready.
LookupRemoving(c, j) ==
    /\ pc[c] = "idle"
    /\ table' = table \ {j}
    /\ IF j \in table
         THEN Enter(c, "take", j) /\ UNCHANGED answer
         ELSE Answer(c, j, "-1") /\ Enter(c, "idle", j)
    /\ UNCHANGED <<nextId, full, worker, owner>>

(* nm2_proc_run_collect, the first lock: a clone of the slot, or unknown.    *)
Lookup(c, j) ==
    /\ pc[c] = "idle"
    /\ IF j \in table
         THEN Enter(c, "take", j) /\ UNCHANGED answer
         ELSE Answer(c, j, "-1") /\ Enter(c, "idle", j)
    /\ UNCHANGED <<tableVars, owner>>

\* Mutant: the result is copied out of the slot and stays in it.
TakeCopy(c) ==
    /\ pc[c] = "take"
    /\ IF id[c] \in full
         THEN /\ owner' = [owner EXCEPT ![id[c]] = c]
              /\ GoOn(c, "remove")
              /\ UNCHANGED answer
         ELSE Answer(c, id[c], "-2") /\ GoOn(c, "idle") /\ UNCHANGED owner
    /\ UNCHANGED <<tableVars, id>>

(* The second: the slot's result, which only one caller can take.            *)
Take(c) ==
    /\ pc[c] = "take"
    /\ IF id[c] \in full
         THEN /\ full' = full \ {id[c]}
              /\ owner' = [owner EXCEPT ![id[c]] = c]
              /\ GoOn(c, "remove")
              /\ UNCHANGED answer
         ELSE Answer(c, id[c], "-2") /\ GoOn(c, "idle") /\ UNCHANGED <<full, owner>>
    /\ UNCHANGED <<nextId, table, worker, id>>

(* The third: the job leaves the table, and the code is returned.            *)
Remove(c) ==
    /\ pc[c] = "remove"
    /\ table' = table \ {id[c]}
    /\ Answer(c, id[c], "code")
    /\ GoOn(c, "idle")
    /\ UNCHANGED <<nextId, full, worker, id, owner>>

Within(c) == Insert(c) \/ Spawn(c) \/ Take(c) \/ Remove(c)

Next ==
    \/ \E c \in Callers :
          \/ TakeId(c)
          \/ Within(c)
          \/ \E j \in Issued : RunDone(c, j) \/ Lookup(c, j)
    \/ \E j \in Jobs : Store(j)

Spec == Init /\ [][Next]_jobVars

\* The steps inside a call are the operating system's to schedule, and so is
\* a worker: the runs assume that commands end, not that callers call.
FairSpec ==
    /\ Spec
    /\ \A c \in Callers : WF_jobVars(Within(c))
    /\ \A j \in Jobs : WF_jobVars(Store(j))

-----------------------------------------------------------------------------

(* The abstract service: when a slot is filled the job is finished, when it  *)
(* is emptied the job is collected.                                          *)
JobStatus(j) ==
    IF worker[j] = "none" THEN "unknown"
    ELSE IF worker[j] = "running" THEN "running"
    ELSE IF owner[j] # NoOne THEN "collected" ELSE "finished"

Service == INSTANCE JobService WITH job <- [j \in Jobs |-> JobStatus(j)]

(* However the callers race, each result goes to one of them, once.          *)
ImplementsService == Service!Spec

(* The shape of the state; an id is handed to one RunAsync only.             *)
TypeOK ==
    /\ nextId \in 1 .. JobLimit + 1
    /\ table \subseteq Jobs
    /\ full \subseteq Jobs
    /\ worker \in [Jobs -> {"none", "running", "ended"}]
    /\ pc \in [Callers -> {"idle", "insert", "spawn", "take", "remove"}]
    /\ id \in [Callers -> 0 .. JobLimit]
    /\ answer \in [Callers -> [job : 0 .. JobLimit, ret : Answers]]
    /\ owner \in [Jobs -> Callers \cup {NoOne}]
    /\ \A c, d \in Callers :
          pc[c] \in {"insert", "spawn"} /\ pc[d] \in {"insert", "spawn"} /\ id[c] = id[d]
             => c = d

(* No output is lost: what a command has printed stays in its slot, and the  *)
(* job in the table, until a caller has taken it (proc.rs:150-151, "so a     *)
(* premature poll doesn't lose the output").                                 *)
ResultKept ==
    \A j \in Jobs : worker[j] = "ended" /\ owner[j] = NoOne => j \in table /\ j \in full

(* "-1 if id is unknown (already collected or never existed)", proc.rs:124:  *)
(* a caller told so of a job that was started can rely on its being          *)
(* collected, by itself or by somebody else.                                 *)
UnknownIsCollected ==
    \A c \in Callers : answer[c].ret = "-1" => owner[answer[c].job] # NoOne

=============================================================================
