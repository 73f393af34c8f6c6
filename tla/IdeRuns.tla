------------------------------- MODULE IdeRuns -------------------------------
(***************************************************************************)
(* Build & Run of the IDE (projects/macide/macos_panes_ide.mod) on top of  *)
(* AsyncJobs: the main thread starts jobs from editor tabs, parks each in  *)
(* a slot with the tab it came from, and reaps them from a timer of the    *)
(* run loop.  Handlers of the run loop exclude each other, the workers run *)
(* beside them.                                                            *)
(***************************************************************************)
EXTENDS AsyncJobs, Sequences

CONSTANTS
    Main,        \* the main thread, the IDE's only caller
    MaxJobs,     \* slots for tracked jobs
    EditorLimit, \* bound on the tabs opened
    NoEditor

ASSUME IdeAssumption ==
    /\ Main \in Callers
    /\ MaxJobs \in Nat
    /\ EditorLimit \in Nat
    /\ NoEditor \notin 1 .. EditorLimit

VARIABLES
    tabs,      \* gEditors: the editor of each tab, in tab order
    opened,    \* editors made so far, numbered from 1
    gJobs,     \* the job parked in each slot, or 0
    gJobTab,   \* the tab it came from
    at,        \* "ready", or the handler that runs: "launch", "poll", "collect"
    slotAt,    \* BuildPoll's loop variable
    sel,       \* BuildRunSelected's tab
    origin,    \* history: the editor a job was started from
    shown,     \* history: the editor that got a job's error marks
    moved      \* history: jobs whose tab was closed or moved while parked

uiVars == <<tabs, opened, gJobs, gJobTab, at, slotAt, sel, origin, shown, moved>>
ideVars == <<jobVars, uiVars>>

Slots == 1 .. MaxJobs
Editors == 1 .. EditorLimit
Parked == {i \in Slots : gJobs[i] # 0}

InitIde ==
    /\ Init
    /\ tabs = <<>>
    /\ opened = 0
    /\ gJobs = [i \in Slots |-> 0]
    /\ gJobTab = [i \in Slots |-> 0]
    /\ at = "ready"
    /\ slotAt = 1
    /\ sel = 0
    /\ origin = [j \in Jobs |-> NoEditor]
    /\ shown = [j \in Jobs |-> NoEditor]
    /\ moved = {}

(* OnNew, OpenPath: a new editor behind the last tab.                        *)
OpenTab ==
    /\ at = "ready"
    /\ opened < EditorLimit
    /\ opened' = opened + 1
    /\ tabs' = Append(tabs, opened + 1)
    /\ UNCHANGED <<jobVars, gJobs, gJobTab, at, slotAt, sel, origin, shown, moved>>

(* CloseTabAt: the tabs behind idx move down, the slots keep their numbers.  *)
CloseTab(idx) ==
    /\ at = "ready"
    /\ idx \in 1 .. Len(tabs)
    /\ tabs' = SubSeq(tabs, 1, idx - 1) \o SubSeq(tabs, idx + 1, Len(tabs))
    /\ moved' = moved \cup {gJobs[i] : i \in {k \in Parked : gJobTab[k] >= idx}}
    /\ UNCHANGED <<jobVars, opened, gJobs, gJobTab, at, slotAt, sel, origin, shown>>

(* BuildRunSelected: RunAsync, from the selected tab ...                     *)
Launch(tab) ==
    /\ at = "ready"
    /\ tab \in 1 .. Len(tabs)
    /\ TakeId(Main)
    /\ at' = "launch"
    /\ sel' = tab
    /\ origin' = [origin EXCEPT ![nextId] = tabs[tab]]
    /\ UNCHANGED <<tabs, opened, gJobs, gJobTab, slotAt, shown, moved>>

Launching == at = "launch" /\ Insert(Main) /\ UNCHANGED uiVars

\* Mutant: the first slot is taken whether it is free or not.
ParkFirst ==
    /\ at = "launch"
    /\ Spawn(Main)
    /\ IF Slots = {} THEN UNCHANGED <<gJobs, gJobTab>>
         ELSE /\ gJobs' = [gJobs EXCEPT ![1] = id[Main]]
              /\ gJobTab' = [gJobTab EXCEPT ![1] = sel]
    /\ at' = "ready"
    /\ UNCHANGED <<tabs, opened, slotAt, sel, origin, shown, moved>>

\* Mutant: every free slot is taken.
ParkEvery ==
    /\ at = "launch"
    /\ Spawn(Main)
    /\ gJobs' = [i \in Slots |-> IF gJobs[i] = 0 THEN id[Main] ELSE gJobs[i]]
    /\ gJobTab' = [i \in Slots |-> IF gJobs[i] = 0 THEN sel ELSE gJobTab[i]]
    /\ at' = "ready"
    /\ UNCHANGED <<tabs, opened, slotAt, sel, origin, shown, moved>>

(* ... and the first free slot; without one the job runs untracked.          *)
Park ==
    /\ at = "launch"
    /\ Spawn(Main)
    /\ IF Slots = Parked
         THEN UNCHANGED <<gJobs, gJobTab>>
         ELSE LET slot == CHOOSE i \in Slots \ Parked : \A k \in Slots \ Parked : i <= k
              IN  /\ gJobs' = [gJobs EXCEPT ![slot] = id[Main]]
                  /\ gJobTab' = [gJobTab EXCEPT ![slot] = sel]
    /\ at' = "ready"
    /\ UNCHANGED <<tabs, opened, slotAt, sel, origin, shown, moved>>

\* BuildPoll's loop goes on to the next slot, or the handler is over.
NextSlot ==
    /\ slotAt' = IF slotAt = MaxJobs THEN 1 ELSE slotAt + 1
    /\ at' = IF slotAt = MaxJobs THEN "ready" ELSE "poll"

(* The timer fires: BuildPoll.                                               *)
Tick ==
    /\ at = "ready"
    /\ Parked # {}
    /\ at' = "poll"
    /\ UNCHANGED <<jobVars, tabs, opened, gJobs, gJobTab, slotAt, sel, origin, shown, moved>>

SkipSlot ==
    /\ at = "poll"
    /\ gJobs[slotAt] = 0
    /\ NextSlot
    /\ UNCHANGED <<jobVars, tabs, opened, gJobs, gJobTab, sel, origin, shown, moved>>

(* IF Proc.RunDone(gJobs[i]) = 1 THEN Proc.RunCollect(gJobs[i], ...)         *)
AskSlot ==
    /\ at = "poll"
    /\ gJobs[slotAt] # 0
    /\ RunDone(Main, gJobs[slotAt])
    /\ IF answer'[Main].ret = "1"
         THEN at' = "collect" /\ UNCHANGED slotAt
         ELSE NextSlot
    /\ UNCHANGED <<tabs, opened, gJobs, gJobTab, sel, origin, shown, moved>>

Collect ==
    /\ at = "collect"
    /\ answer[Main].ret = "1"
    /\ Lookup(Main, gJobs[slotAt]) \/ Take(Main) \/ Remove(Main)
    /\ UNCHANGED uiVars

\* Mutant: the marks go to the tab of the last build.
ShowInLast ==
    /\ at = "collect"
    /\ pc[Main] = "idle"
    /\ answer[Main].ret # "1"
    /\ gJobs' = [gJobs EXCEPT ![slotAt] = 0]
    /\ shown' = IF sel <= Len(tabs)
                  THEN [shown EXCEPT ![gJobs[slotAt]] = tabs[sel]]
                  ELSE shown
    /\ NextSlot
    /\ UNCHANGED <<jobVars, tabs, opened, gJobTab, sel, origin, moved>>

(* The output is shown and the tab's editor gets the error marks; "not ready"*)
(* leaves the slot for the next tick.                                        *)
Show ==
    /\ at = "collect"
    /\ pc[Main] = "idle"
    /\ answer[Main].ret # "1"
    /\ IF answer[Main].ret = "-2"
         THEN UNCHANGED <<gJobs, shown>>
         ELSE /\ gJobs' = [gJobs EXCEPT ![slotAt] = 0]
              /\ shown' = IF gJobTab[slotAt] <= Len(tabs)
                            THEN [shown EXCEPT ![gJobs[slotAt]] = tabs[gJobTab[slotAt]]]
                            ELSE shown
    /\ NextSlot
    /\ UNCHANGED <<jobVars, tabs, opened, gJobTab, sel, origin, moved>>

CommandEnds == \E j \in Jobs : Store(j) /\ UNCHANGED uiVars

Handler == Launching \/ Park \/ SkipSlot \/ AskSlot \/ Collect \/ Show

NextIde ==
    \/ OpenTab
    \/ \E i \in 1 .. EditorLimit : CloseTab(i) \/ Launch(i)
    \/ Tick
    \/ Handler
    \/ CommandEnds

SpecIde == InitIde /\ [][NextIde]_ideVars

\* The main thread runs its handlers to their end, and the run loop comes
\* round to the timer; commands need not end.
FairSpecIde ==
    /\ SpecIde
    /\ WF_ideVars(Handler)
    /\ SF_ideVars(Tick)

-----------------------------------------------------------------------------

(* The shape of the state; slots hold different jobs.                        *)
TypeOKIde ==
    /\ tabs \in Seq(Editors) /\ Len(tabs) <= opened
    /\ opened \in 0 .. EditorLimit
    /\ gJobs \in [Slots -> 0 .. JobLimit]
    /\ gJobTab \in [Slots -> 0 .. EditorLimit]
    /\ at \in {"ready", "launch", "poll", "collect"}
    /\ slotAt \in 1 .. MaxJobs + 1
    /\ moved \subseteq Jobs
    /\ \A i, k \in Parked : gJobs[i] = gJobs[k] => i = k

(* Error marks go to a wrong tab only when tabs were closed in the meantime. *)
MarksFollowTabs ==
    \A j \in Jobs : shown[j] \in {NoEditor, origin[j]} \/ j \in moved

(* The output of a tracked job is shown once its command has ended, and its  *)
(* slot is free again, however many ticks fall into the time before.         *)
OutputShown ==
    \A j \in Jobs, i \in Slots :
        gJobs[i] = j /\ worker[j] = "ended" ~> gJobs[i] # j /\ owner[j] = Main

=============================================================================
