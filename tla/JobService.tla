----------------------------- MODULE JobService -----------------------------
(***************************************************************************)
(* What the asynchronous run of newm2-runtime/src/proc.rs promises its     *)
(* callers, in terms of jobs alone: a started command ends at most once,   *)
(* and what it printed is handed to exactly one caller, never before the   *)
(* command has ended and never again.  AsyncJobs implements it.            *)
(***************************************************************************)
CONSTANTS
    Jobs,     \* job ids
    Callers,  \* threads that call the library module Proc
    NoOne     \* nobody has collected the job

VARIABLES
    job,    \* what has become of each job
    owner   \* who collected it

Init ==
    /\ job = [j \in Jobs |-> "unknown"]
    /\ owner = [j \in Jobs |-> NoOne]

Start(j) ==
    /\ job[j] = "unknown"
    /\ job' = [job EXCEPT ![j] = "running"]
    /\ UNCHANGED owner

Finish(j) ==
    /\ job[j] = "running"
    /\ job' = [job EXCEPT ![j] = "finished"]
    /\ UNCHANGED owner

Deliver(j, c) ==
    /\ job[j] = "finished"
    /\ job' = [job EXCEPT ![j] = "collected"]
    /\ owner' = [owner EXCEPT ![j] = c]

Next ==
    \E j \in Jobs : Start(j) \/ Finish(j) \/ \E c \in Callers : Deliver(j, c)

Spec == Init /\ [][Next]_<<job, owner>>
=============================================================================
