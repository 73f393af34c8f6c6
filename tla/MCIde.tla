------------------------------- MODULE MCIde -------------------------------
(***************************************************************************)
(* Instances of the services an IDE calls, for TLC.  A behaviour shows one *)
(* of three scenes: two threads and the job table of AsyncJobs ("jobs"),   *)
(* the IDE's builds on top of it ("builds"), or completions through the    *)
(* compiler daemon ("assist").  They share no state in the code; what does *)
(* not belong to the scene stays as it is.                                 *)
(***************************************************************************)
EXTENDS IdeRuns, DaemonSocket

CONSTANT Other

VARIABLE scene

mcVars == <<ideVars, socketVars, scene>>

MainAndOther == {Main, Other}

MCInit ==
    /\ InitIde
    /\ DaemonInit
    /\ scene \in {"jobs", "builds", "assist"}
    /\ scene # "assist" => path = NoFile

\* One job fewer than in the builds: two callers make up for it.
TwoCallers ==
    /\ scene = "jobs"
    /\ Next
    /\ nextId' <= JobLimit
    /\ UNCHANGED <<uiVars, socketVars, scene>>

Builds == scene = "builds" /\ NextIde /\ UNCHANGED <<socketVars, scene>>
Assist == scene = "assist" /\ DaemonNext /\ UNCHANGED <<ideVars, scene>>

MCNext == TwoCallers \/ Builds \/ Assist

MCSpec == MCInit /\ [][MCNext]_mcVars

MCFairSpec ==
    /\ MCSpec
    /\ DaemonFairness
    /\ WF_ideVars(scene = "builds" /\ Handler)
    /\ SF_ideVars(scene = "builds" /\ Tick)
    /\ \A c \in Callers : WF_jobVars(scene = "jobs" /\ Within(c))
    /\ \A j \in Jobs : WF_jobVars(scene = "jobs" /\ Store(j))

-----------------------------------------------------------------------------

(* The shapes of the job table's, the IDE's and the daemons' state: no job in two slots, no    *)
(* connection in two queues.                                                  *)
SceneTypes == TypeOK /\ TypeOKIde /\ TypeOKDaemon

=============================================================================
