------------------------------ MODULE JobProofs ------------------------------
(***************************************************************************)
(* Proofs about AsyncJobs: its state is well-formed, no output is lost,    *)
(* an unknown job is a collected one, and it implements JobService, for    *)
(* any callers and any number of jobs; and about IdeRuns: the IDE is one   *)
(* of those callers, and its error marks follow the tabs, for any number   *)
(* of slots, tabs and jobs.  Then about DaemonSocket: a live daemon's      *)
(* socket is removed only in a race.                                       *)
(***************************************************************************)
EXTENDS IdeRuns, DaemonSocket, SequenceTheorems, SetLemmas

\* A slot is full from the end of the command to the collection.
SlotInv ==
    \A j \in Jobs :
        /\ j \in full <=> worker[j] = "ended" /\ owner[j] = NoOne
        /\ owner[j] # NoOne => worker[j] = "ended"
        /\ worker[j] # "none" /\ owner[j] = NoOne => j \in table

\* Ids not given out have no worker yet; nor have those on their way to one.
StartInv ==
    /\ \A j \in Jobs : j >= nextId => worker[j] = "none"
    /\ \A c \in Callers :
          /\ pc[c] # "idle" => id[c] \in Jobs
          /\ pc[c] \in {"insert", "spawn"} => worker[id[c]] = "none" /\ id[c] < nextId
          /\ pc[c] = "spawn" => id[c] \in table
          /\ pc[c] = "remove" => owner[id[c]] = c

JobsInv == TypeOK /\ SlotInv /\ StartInv

\* What callers have been told.
ToldInv == JobsInv /\ UnknownIsCollected

LEMMA InitJobs == Init => ToldInv
  BY JobsAssumption
  DEF Init, ToldInv, JobsInv, TypeOK, SlotInv, StartInv, UnknownIsCollected, Jobs, Answers

LEMMA JobsStep == JobsInv /\ [Next]_jobVars => JobsInv'
<1> SUFFICES ASSUME JobsInv, [Next]_jobVars PROVE JobsInv'
  OBVIOUS
<1> USE JobsAssumption DEF JobsInv, Jobs
<1>1. CASE UNCHANGED jobVars
  BY <1>1 DEF jobVars, TypeOK, SlotInv, StartInv
<1>2. ASSUME NEW c \in Callers, TakeId(c) PROVE JobsInv'
  <2>1. TypeOK'
    BY <1>2 DEF TakeId, Enter, TypeOK, StartInv, Answers
  <2>2. SlotInv'
    BY <1>2 DEF TakeId, Enter, TypeOK, SlotInv, StartInv
  <2>3. StartInv'
    BY <1>2 DEF TakeId, Enter, TypeOK, SlotInv, StartInv
  <2> QED BY <2>1, <2>2, <2>3
<1>3. ASSUME NEW c \in Callers, Insert(c) PROVE JobsInv'
  <2>1. TypeOK'
    <3>1. /\ pc' \in [Callers -> {"idle", "insert", "spawn", "take", "remove"}]
          /\ id' \in [Callers -> 0 .. JobLimit]
          /\ answer' \in [Callers -> [job : 0 .. JobLimit, ret : Answers]]
      BY <1>3 DEF Insert, GoOn, TypeOK, Answers
    <3>2. owner' \in [Jobs -> Callers \cup {NoOne}] /\ full' \subseteq Jobs /\ table' \subseteq Jobs
      BY <1>3 DEF Insert, GoOn, TypeOK, StartInv
    <3>3. \A x, y \in Callers :
             pc'[x] \in {"insert", "spawn"} /\ pc'[y] \in {"insert", "spawn"} /\ id'[x] = id'[y]
               => x = y
      BY <1>3 DEF Insert, GoOn, TypeOK
    <3>4. nextId' = nextId /\ worker' = worker
      BY <1>3 DEF Insert, GoOn
    <3> QED BY <3>1, <3>2, <3>3, <3>4 DEF TypeOK
  <2>2. SlotInv'
    BY <1>3 DEF Insert, GoOn, TypeOK, SlotInv, StartInv
  <2>3. StartInv'
    BY <1>3 DEF Insert, GoOn, TypeOK, SlotInv, StartInv
  <2> QED BY <2>1, <2>2, <2>3
<1>4. ASSUME NEW c \in Callers, Spawn(c) PROVE JobsInv'
  <2>1. TypeOK'
    BY <1>4 DEF Spawn, GoOn, Answer, TypeOK, StartInv, Answers
  <2>2. SlotInv'
    BY <1>4 DEF Spawn, GoOn, Answer, TypeOK, SlotInv, StartInv
  <2>3. StartInv'
    BY <1>4 DEF Spawn, GoOn, Answer, TypeOK, SlotInv, StartInv
  <2> QED BY <2>1, <2>2, <2>3
<1>5. ASSUME NEW c \in Callers, Take(c) PROVE JobsInv'
  <2>1. TypeOK'
    <3>1. id[c] \in Jobs /\ id' = id /\ nextId' = nextId /\ table' = table /\ worker' = worker
      BY <1>5 DEF Take, StartInv
    <3>2. pc' = [pc EXCEPT ![c] = IF id[c] \in full THEN "remove" ELSE "idle"]
      BY <1>5 DEF Take, GoOn
    <3>3. /\ answer' \in [Callers -> [job : 0 .. JobLimit, ret : Answers]]
          /\ owner' \in [Jobs -> Callers \cup {NoOne}] /\ full' \subseteq Jobs
      <4>1. CASE id[c] \in full
        BY <1>5, <3>1, <4>1 DEF Take, TypeOK
      <4>2. CASE id[c] \notin full
        <5>1. answer' = [answer EXCEPT ![c] =
                 [job |-> id[c], ret |-> "-2"]]
          BY <1>5, <4>2 DEF Take, Answer
        <5>2. [job |-> id[c], ret |-> "-2"]
                \in [job : 0 .. JobLimit, ret : Answers]
          BY <3>1 DEF Answers
        <5>3. owner' = owner /\ full' = full
          BY <1>5, <4>2 DEF Take
        <5> QED BY <5>1, <5>2, <5>3 DEF TypeOK
      <4> QED BY <4>1, <4>2
    <3>4. ASSUME NEW x \in Callers, pc'[x] \in {"insert", "spawn"} PROVE pc'[x] = pc[x]
      BY <3>2, <3>4 DEF TypeOK
    <3> QED BY <3>1, <3>2, <3>3, <3>4 DEF TypeOK
  <2>2. SlotInv'
    <3>1. CASE id[c] \in full
      <4>1. /\ id[c] \in Jobs
            /\ full' = full \ {id[c]}
            /\ owner' = [owner EXCEPT ![id[c]] = c]
            /\ table' = table /\ worker' = worker
        BY <1>5, <3>1 DEF Take, TypeOK, StartInv
      <4>2. owner'[id[c]] = c /\ c # NoOne /\ worker[id[c]] = "ended"
        BY <4>1, <3>1 DEF TypeOK, SlotInv
      <4>3. \A j \in Jobs : j # id[c] => owner'[j] = owner[j]
        BY <4>1 DEF TypeOK
      <4> QED BY <4>1, <4>2, <4>3 DEF SlotInv
    <3>2. CASE id[c] \notin full
      BY <1>5, <3>2 DEF Take, SlotInv
    <3> QED BY <3>1, <3>2
  <2>3. StartInv'
    BY <1>5 DEF Take, GoOn, Answer, TypeOK, SlotInv, StartInv
  <2> QED BY <2>1, <2>2, <2>3
<1>6. ASSUME NEW c \in Callers, Remove(c) PROVE JobsInv'
  <2>1. TypeOK'
    BY <1>6 DEF Remove, GoOn, Answer, TypeOK, StartInv, Answers
  <2>2. SlotInv'
    <3>1. /\ full' = full /\ worker' = worker /\ owner' = owner
          /\ table' = table \ {id[c]}
          /\ owner[id[c]] = c /\ c # NoOne
      BY <1>6 DEF Remove, StartInv
    <3> QED BY <3>1 DEF SlotInv
  <2>3. StartInv'
    <3>1. /\ nextId' = nextId /\ worker' = worker /\ id' = id /\ owner' = owner
          /\ table' = table \ {id[c]}
          /\ pc' = [pc EXCEPT ![c] = "idle"]
          /\ worker[id[c]] = "ended"
      BY <1>6 DEF Remove, GoOn, TypeOK, SlotInv, StartInv
    <3>2. ASSUME NEW d \in Callers
          PROVE  pc'[d] # "idle" => pc'[d] = pc[d] /\ (pc[d] = "spawn" => id[d] # id[c])
      BY <3>1 DEF TypeOK, StartInv
    <3> QED BY <3>1, <3>2 DEF StartInv, TypeOK
  <2> QED BY <2>1, <2>2, <2>3
<1>7. ASSUME NEW c \in Callers, NEW j \in Issued, RunDone(c, j) PROVE JobsInv'
  <2>1. TypeOK'
    BY <1>7 DEF RunDone, Answer, Issued, tableVars, TypeOK, StartInv, Answers
  <2>2. SlotInv'
    BY <1>7 DEF RunDone, Answer, Issued, tableVars, TypeOK, SlotInv, StartInv
  <2>3. StartInv'
    BY <1>7 DEF RunDone, Answer, Issued, tableVars, TypeOK, SlotInv, StartInv
  <2> QED BY <2>1, <2>2, <2>3
<1>8. ASSUME NEW c \in Callers, NEW j \in Issued, Lookup(c, j) PROVE JobsInv'
  <2>1. TypeOK'
    <3>1. /\ id' = [id EXCEPT ![c] = j] /\ j \in Jobs
          /\ pc' = [pc EXCEPT ![c] = IF j \in table THEN "take" ELSE "idle"]
          /\ UNCHANGED <<tableVars, owner>>
      BY <1>8 DEF Lookup, Enter, Issued
    <3>2. pc[c] = "idle"
      BY <1>8 DEF Lookup
    <3>3. answer' \in [Callers -> [job : 0 .. JobLimit, ret : Answers]]
      <4>1. CASE j \in table
        BY <1>8, <4>1 DEF Lookup, TypeOK
      <4>2. CASE j \notin table
        <5>1. answer' = [answer EXCEPT ![c] =
                 [job |-> j, ret |-> "-1"]]
          BY <1>8, <4>2 DEF Lookup, Answer
        <5>2. [job |-> j, ret |-> "-1"]
                \in [job : 0 .. JobLimit, ret : Answers]
          BY <3>1 DEF Answers
        <5> QED BY <5>1, <5>2 DEF TypeOK
      <4> QED BY <4>1, <4>2
    <3>4. ASSUME NEW x \in Callers, pc'[x] \in {"insert", "spawn"}
          PROVE  pc'[x] = pc[x] /\ id'[x] = id[x]
      BY <3>1, <3>4 DEF TypeOK
    <3>5. /\ pc' \in [Callers -> {"idle", "insert", "spawn", "take", "remove"}]
          /\ id' \in [Callers -> 0 .. JobLimit]
      BY <3>1 DEF TypeOK
    <3>6. UNCHANGED <<nextId, table, full, worker, owner>>
      BY <3>1 DEF tableVars
    <3>7. \A x, y \in Callers :
             pc'[x] \in {"insert", "spawn"} /\ pc'[y] \in {"insert", "spawn"} /\ id'[x] = id'[y]
               => x = y
      BY <3>4 DEF TypeOK
    <3> QED BY <3>3, <3>5, <3>6, <3>7 DEF TypeOK
  <2>2. SlotInv'
    BY <1>8 DEF Lookup, Enter, Answer, Issued, tableVars, TypeOK, SlotInv, StartInv
  <2>3. StartInv'
    BY <1>8 DEF Lookup, Enter, Answer, Issued, tableVars, TypeOK, SlotInv, StartInv
  <2> QED BY <2>1, <2>2, <2>3
<1>9. ASSUME NEW j \in Jobs, Store(j) PROVE JobsInv'
  <2>1. TypeOK'
    BY <1>9 DEF Store, callVars, TypeOK, StartInv, Answers
  <2>2. SlotInv'
    BY <1>9 DEF Store, callVars, TypeOK, SlotInv, StartInv
  <2>3. StartInv'
    BY <1>9 DEF Store, callVars, TypeOK, SlotInv, StartInv
  <2> QED BY <2>1, <2>2, <2>3
<1> QED
  BY <1>1, <1>2, <1>3, <1>4, <1>5, <1>6, <1>7, <1>8, <1>9 DEF Next, Within

LEMMA ToldStep == ToldInv /\ [Next]_jobVars => ToldInv'
<1> SUFFICES ASSUME ToldInv, [Next]_jobVars PROVE UnknownIsCollected'
  BY JobsStep DEF ToldInv
<1> USE JobsAssumption DEF ToldInv, JobsInv, UnknownIsCollected, Jobs
<1>1. CASE UNCHANGED jobVars
  BY <1>1 DEF jobVars
<1>2. ASSUME NEW c \in Callers, TakeId(c) PROVE UnknownIsCollected'
  BY <1>2 DEF TakeId
<1>3. ASSUME NEW c \in Callers, Insert(c) PROVE UnknownIsCollected'
  BY <1>3 DEF Insert
<1>4. ASSUME NEW c \in Callers, Spawn(c) PROVE UnknownIsCollected'
  BY <1>4 DEF Spawn, Answer, TypeOK
<1>5. ASSUME NEW c \in Callers, Take(c) PROVE UnknownIsCollected'
  <2>1. CASE id[c] \in full
    <3>1. /\ answer' = answer /\ owner' = [owner EXCEPT ![id[c]] = c]
          /\ c # NoOne /\ owner \in [Jobs -> Callers \cup {NoOne}]
      BY <1>5, <2>1 DEF Take, TypeOK
    <3> QED BY <3>1
  <2>2. CASE id[c] \notin full
    <3>1. owner' = owner /\ \A d \in Callers : answer'[d] = answer[d] \/ answer'[d].ret = "-2"
      BY <1>5, <2>2 DEF Take, Answer, TypeOK
    <3> QED BY <3>1
  <2> QED BY <2>1, <2>2
<1>6. ASSUME NEW c \in Callers, Remove(c) PROVE UnknownIsCollected'
  BY <1>6 DEF Remove, Answer, TypeOK
<1>7. ASSUME NEW c \in Callers, NEW j \in Issued, RunDone(c, j) PROVE UnknownIsCollected'
  <2>1. j \in Jobs /\ (j \notin table => owner[j] # NoOne)
    BY DEF Issued, SlotInv
  <2> QED BY <1>7, <2>1 DEF RunDone, Answer, TypeOK
<1>8. ASSUME NEW c \in Callers, NEW j \in Issued, Lookup(c, j) PROVE UnknownIsCollected'
  <2>1. j \in Jobs /\ (j \notin table => owner[j] # NoOne)
    BY DEF Issued, SlotInv
  <2>2. CASE j \in table
    BY <1>8, <2>2 DEF Lookup
  <2>3. CASE j \notin table
    <3>1. /\ owner' = owner
          /\ \A d \in Callers : answer'[d] = answer[d] \/ answer'[d].job = j
      BY <1>8, <2>3 DEF Lookup, Answer, TypeOK
    <3> QED BY <2>1, <2>3, <3>1
  <2> QED BY <2>2, <2>3
<1>9. ASSUME NEW j \in Jobs, Store(j) PROVE UnknownIsCollected'
  BY <1>9 DEF Store, callVars
<1> QED
  BY <1>1, <1>2, <1>3, <1>4, <1>5, <1>6, <1>7, <1>8, <1>9 DEF Next, Within

LEMMA ToldAlways == Spec => []ToldInv
  BY InitJobs, ToldStep, PTL DEF Spec

(* The state keeps its shape, and no two RunAsync get the same id.           *)
THEOREM JobsShape == Spec => []TypeOK
<1>1. ToldInv => TypeOK
  BY DEF ToldInv, JobsInv
<1> QED BY <1>1, ToldAlways, PTL

(* What a command printed stays available until a caller has taken it.       *)
THEOREM OutputKept == Spec => []ResultKept
<1>1. ToldInv => ResultKept
  BY DEF ToldInv, JobsInv, SlotInv, ResultKept
<1> QED BY <1>1, ToldAlways, PTL

(* A caller is told "unknown" of a started job only once it is collected.    *)
THEOREM UnknownTruthful == Spec => []UnknownIsCollected
<1>1. ToldInv => UnknownIsCollected
  BY DEF ToldInv
<1> QED BY <1>1, ToldAlways, PTL

-----------------------------------------------------------------------------

LEMMA InitService == Init => Service!Init
  BY DEF Init, Service!Init, JobStatus

\* When no worker or owner changes, no job's status does.
LEMMA SameStatus ==
  worker' = worker /\ owner' = owner
    => UNCHANGED <<[j \in Jobs |-> JobStatus(j)], owner>>
  BY DEF JobStatus

LEMMA StepService ==
  JobsInv /\ [Next]_jobVars
    => [Service!Next]_<<[j \in Jobs |-> JobStatus(j)], owner>>
<1> SUFFICES ASSUME JobsInv, [Next]_jobVars
             PROVE  [Service!Next]_<<[j \in Jobs |-> JobStatus(j)], owner>>
  OBVIOUS
<1> DEFINE status == [j \in Jobs |-> JobStatus(j)]
<1> USE JobsAssumption DEF JobsInv
<1>1. CASE worker' = worker /\ owner' = owner
  BY <1>1, SameStatus
<1>2. ASSUME NEW c \in Callers, Spawn(c) PROVE Service!Start(id[c])
  <2>1. /\ id[c] \in Jobs /\ worker[id[c]] = "none" /\ owner' = owner
        /\ worker' = [worker EXCEPT ![id[c]] = "running"]
    BY <1>2 DEF Spawn, StartInv
  <2>2. status[id[c]] = "unknown"
    BY <2>1 DEF JobStatus
  <2>3. status' = [status EXCEPT ![id[c]] = "running"]
    BY <2>1 DEF JobStatus, TypeOK
  <2> QED BY <2>1, <2>2, <2>3 DEF Service!Start
<1>3. ASSUME NEW j \in Jobs, Store(j) PROVE Service!Finish(j)
  <2>1. worker[j] = "running" /\ owner' = owner /\ owner[j] = NoOne
    BY <1>3 DEF Store, SlotInv
  <2>2. status[j] = "running"
    BY <2>1 DEF JobStatus
  <2>3. status' = [status EXCEPT ![j] = "finished"]
    BY <1>3, <2>1 DEF Store, JobStatus, TypeOK
  <2> QED BY <2>1, <2>2, <2>3 DEF Service!Finish
<1>4. ASSUME NEW c \in Callers, Take(c), id[c] \in full PROVE Service!Deliver(id[c], c)
  <2>1. /\ id[c] \in Jobs /\ worker' = worker
        /\ owner' = [owner EXCEPT ![id[c]] = c]
        /\ worker[id[c]] = "ended" /\ owner[id[c]] = NoOne /\ c # NoOne
    BY <1>4 DEF Take, StartInv, SlotInv
  <2>2. status[id[c]] = "finished"
    BY <2>1 DEF JobStatus
  <2>3. status' = [status EXCEPT ![id[c]] = "collected"]
    BY <2>1 DEF JobStatus, TypeOK
  <2> QED BY <2>1, <2>2, <2>3 DEF Service!Deliver
<1>5. ASSUME NEW c \in Callers, Spawn(c) \/ Take(c) PROVE id[c] \in Jobs
  BY <1>5 DEF StartInv, Spawn, Take
<1> QED
  BY <1>1, <1>2, <1>3, <1>4, <1>5
  DEF Next, Within, jobVars, TakeId, Insert, RunDone, Lookup, Take, Remove,
      tableVars, callVars, Service!Next

(* RunAsync, RunDone and RunCollect implement the job service: each result   *)
(* goes to exactly one caller, after the command has ended.                  *)
THEOREM ServiceImplemented == Spec => ImplementsService
<1>1. ToldInv => JobsInv
  BY DEF ToldInv
<1> QED
  BY <1>1, InitService, StepService, ToldAlways, PTL DEF Spec, ImplementsService, Service!Spec

-----------------------------------------------------------------------------

\* A job in a slot has a worker, and unless tabs were closed since, the number
\* beside it is that of the tab it was started from.
SlotsInv ==
    \A i \in Parked :
        /\ gJobs[i] \in Issued
        /\ gJobTab[i] >= 1
        /\ gJobs[i] \notin moved
              => gJobTab[i] <= Len(tabs) /\ tabs[gJobTab[i]] = origin[gJobs[i]]

\* A handler between two of its steps.
HandlerInv ==
    /\ at = "launch" =>
          /\ pc[Main] \in {"insert", "spawn"}
          /\ sel \in 1 .. Len(tabs)
          /\ tabs[sel] = origin[id[Main]]
    /\ Slots # {} => slotAt \in Slots
    /\ at \in {"poll", "collect"} => slotAt \in Slots
    /\ at = "collect" => gJobs[slotAt] # 0

\* The history variables, which know nothing of a job yet to be started.
HistoryInv ==
    /\ sel \in 0 .. EditorLimit
    /\ origin \in [Jobs -> Editors \cup {NoEditor}]
    /\ shown \in [Jobs -> Editors \cup {NoEditor}]
    /\ \A j \in Jobs : j >= nextId => shown[j] = NoEditor

IdeInv ==
    /\ ToldInv
    /\ TypeOKIde
    /\ SlotsInv
    /\ HandlerInv
    /\ HistoryInv
    /\ MarksFollowTabs

LEMMA InitIdeInv == InitIde => IdeInv
<1> SUFFICES ASSUME InitIde PROVE IdeInv
  OBVIOUS
<1> USE JobsAssumption, IdeAssumption DEF InitIde
<1>1. ToldInv
  BY InitJobs
<1>2. Parked = {} /\ nextId = 1
  BY DEF Parked, Init
<1>3. TypeOKIde
  <2>1. tabs \in Seq(Editors) /\ Len(tabs) = 0
    OBVIOUS
  <2> QED BY <1>2, <2>1 DEF TypeOKIde
<1>4. SlotsInv /\ HandlerInv
  BY <1>2 DEF SlotsInv, HandlerInv, Slots
<1>5. HistoryInv /\ MarksFollowTabs
  BY <1>2 DEF HistoryInv, MarksFollowTabs
<1> QED BY <1>1, <1>3, <1>4, <1>5 DEF IdeInv

\* Every step of the IDE is one that some caller of the library may take.
LEMMA IdeCalls == IdeInv /\ [NextIde]_ideVars => [Next]_jobVars
<1> SUFFICES ASSUME IdeInv, NextIde PROVE [Next]_jobVars
  BY DEF ideVars, jobVars
<1> USE JobsAssumption, IdeAssumption
<1>1. ASSUME gJobs[slotAt] # 0, at \in {"poll", "collect"} PROVE gJobs[slotAt] \in Issued
  BY <1>1 DEF IdeInv, SlotsInv, HandlerInv, Parked
<1>2. CASE OpenTab \/ Tick \/ SkipSlot \/ Show
  BY <1>2 DEF OpenTab, Tick, SkipSlot, Show
<1>3. ASSUME NEW i \in 1 .. EditorLimit, CloseTab(i) \/ Launch(i) PROVE [Next]_jobVars
  BY <1>3 DEF CloseTab, Launch, Next
<1>4. CASE Launching \/ Park
  BY <1>4 DEF Launching, Park, Next, Within
<1>5. CASE AskSlot
  BY <1>1, <1>5 DEF AskSlot, Next
<1>6. CASE Collect
  <2>1. gJobs[slotAt] \in Issued
    BY <1>1, <1>6 DEF Collect, IdeInv, HandlerInv
  <2> QED BY <1>6, <2>1 DEF Collect, Next, Within
<1>7. CASE CommandEnds
  BY <1>7 DEF CommandEnds, Next
<1> QED
  BY <1>2, <1>3, <1>4, <1>5, <1>6, <1>7 DEF NextIde, Handler

\* Steps of the job table alone: what is issued stays issued.
LEMMA StaysIssued ==
  JobsInv /\ [Next]_jobVars
    => /\ nextId <= nextId'
       /\ \A j \in Jobs : worker[j] # "none" => worker'[j] # "none"
       /\ \A j \in Issued : j \in Issued'
<1> SUFFICES ASSUME JobsInv, [Next]_jobVars
             PROVE  /\ nextId <= nextId'
                    /\ \A j \in Jobs : worker[j] # "none" => worker'[j] # "none"
  <2>1. ASSUME JobsInv PROVE nextId \in Int
    BY <2>1, JobsAssumption DEF JobsInv, TypeOK
  <2>2. ASSUME JobsInv' PROVE nextId' \in Int
    BY <2>2, JobsAssumption DEF JobsInv, TypeOK
  <2>3. ASSUME NEW j \in Jobs, j < nextId, nextId <= nextId', nextId \in Int, nextId' \in Int
        PROVE  j < nextId'
    BY <2>3, JobsAssumption DEF Jobs
  <2> QED BY <2>1, <2>2, <2>3, JobsStep DEF Issued
<1> USE JobsAssumption DEF JobsInv, TypeOK, Jobs
<1>1. CASE UNCHANGED jobVars
  BY <1>1 DEF jobVars
<1>2. ASSUME NEW c \in Callers, TakeId(c) \/ Insert(c) \/ Take(c) \/ Remove(c)
      PROVE  nextId <= nextId' /\ worker' = worker
  BY <1>2 DEF TakeId, Insert, Take, Remove
<1>3. ASSUME NEW c \in Callers, Spawn(c)
      PROVE  nextId <= nextId' /\ \A j \in Jobs : worker[j] # "none" => worker'[j] # "none"
  BY <1>3 DEF Spawn
<1>4. ASSUME NEW c \in Callers, NEW j \in Issued, RunDone(c, j) \/ Lookup(c, j)
      PROVE  nextId <= nextId' /\ worker' = worker
  BY <1>4 DEF RunDone, Lookup, tableVars
<1>5. ASSUME NEW j \in Jobs, Store(j)
      PROVE  nextId <= nextId' /\ \A k \in Jobs : worker[k] # "none" => worker'[k] # "none"
  BY <1>5 DEF Store
<1> QED
  BY <1>1, <1>2, <1>3, <1>4, <1>5 DEF Next, Within

LEMMA NextIdGrows ==
  IdeInv /\ [Next]_jobVars => nextId <= nextId' /\ nextId \in Int /\ nextId' \in Int
<1>1. JobsInv => nextId \in Int
  BY JobsAssumption DEF JobsInv, TypeOK
<1>2. JobsInv' => nextId' \in Int
  BY JobsAssumption DEF JobsInv, TypeOK
<1> QED BY <1>1, <1>2, StaysIssued, JobsStep DEF IdeInv, ToldInv

\* A step that leaves the IDE's own variables alone and Main's launch as it is.
LEMMA JobsMoveOn ==
  ASSUME IdeInv, [Next]_jobVars, UNCHANGED uiVars,
         at = "launch" => id'[Main] = id[Main] /\ pc'[Main] \in {"insert", "spawn"}
  PROVE  TypeOKIde' /\ SlotsInv' /\ HandlerInv' /\ HistoryInv' /\ MarksFollowTabs'
<1> USE DEF uiVars
<1>1. TypeOKIde' /\ MarksFollowTabs'
  BY DEF IdeInv, TypeOKIde, MarksFollowTabs, Parked
<1>2. \A j \in Issued : j \in Issued'
  BY StaysIssued DEF IdeInv, ToldInv
<1>3. SlotsInv'
  BY <1>2 DEF IdeInv, SlotsInv, Parked
<1>4. HandlerInv'
  BY DEF IdeInv, HandlerInv
<1>5. HistoryInv'
  BY NextIdGrows, JobsAssumption DEF IdeInv, HistoryInv, Jobs
<1> QED BY <1>1, <1>3, <1>4, <1>5

\* Closing the tab at idx: the tabs before it stay where they are.
LEMMA TabsBefore ==
  ASSUME NEW S, NEW s \in Seq(S), NEW idx \in 1 .. Len(s)
  PROVE  LET t == SubSeq(s, 1, idx - 1) \o SubSeq(s, idx + 1, Len(s))
         IN  /\ t \in Seq(S)
             /\ Len(t) = Len(s) - 1
             /\ \A k \in 1 .. idx - 1 : t[k] = s[k]
<1> DEFINE u == SubSeq(s, 1, idx - 1)
           v == SubSeq(s, idx + 1, Len(s))
<1>1. Len(s) \in Nat /\ \A k \in 1 .. Len(s) : s[k] \in S
  BY ElementOfSeq, LenProperties
<1>2. u \in Seq(S) /\ Len(u) = idx - 1 /\ \A k \in 1 .. idx - 1 : u[k] = s[k]
  BY <1>1, SubSeqProperties
<1>3. v \in Seq(S) /\ Len(v) = Len(s) - idx
  BY <1>1, SubSeqProperties
<1> HIDE DEF u, v
<1>4. /\ u \o v \in Seq(S) /\ Len(u \o v) = Len(u) + Len(v)
      /\ \A k \in 1 .. Len(u) + Len(v) :
            (u \o v)[k] = IF k <= Len(u) THEN u[k] ELSE v[k - Len(u)]
  BY <1>2, <1>3, ConcatProperties
<1>5. Len(u \o v) = Len(s) - 1 /\ \A k \in 1 .. idx - 1 : (u \o v)[k] = s[k]
  BY <1>1, <1>2, <1>3, <1>4
<1> QED BY <1>4, <1>5 DEF u, v

LEMMA OpenKeeps ==
  IdeInv /\ OpenTab => TypeOKIde' /\ SlotsInv' /\ HandlerInv' /\ HistoryInv' /\ MarksFollowTabs'
<1> SUFFICES ASSUME IdeInv, OpenTab
             PROVE  TypeOKIde' /\ SlotsInv' /\ HandlerInv' /\ HistoryInv' /\ MarksFollowTabs'
  OBVIOUS
<1> USE IdeAssumption
<1>1. /\ tabs \in Seq(Editors) /\ opened \in 0 .. EditorLimit /\ Len(tabs) <= opened
      /\ opened < EditorLimit /\ tabs' = Append(tabs, opened + 1) /\ opened' = opened + 1
  BY DEF IdeInv, TypeOKIde, OpenTab
<1>2. UNCHANGED <<jobVars, gJobs, gJobTab, at, slotAt, sel, origin, shown, moved>> /\ at = "ready"
  BY DEF OpenTab
<1>3. /\ opened + 1 \in Editors
      /\ tabs' \in Seq(Editors) /\ Len(tabs') = Len(tabs) + 1
      /\ \A k \in 1 .. Len(tabs) : tabs'[k] = tabs[k]
  BY <1>1, AppendProperties, LenProperties DEF Editors
<1>4. TypeOKIde'
  BY <1>1, <1>2, <1>3, LenProperties DEF IdeInv, TypeOKIde, Parked
<1>5. SlotsInv'
  <2>1. \A i \in Slots : gJobTab[i] \in Nat /\ Len(tabs) \in Nat
    BY <1>1, LenProperties DEF IdeInv, TypeOKIde
  <2> QED BY <1>2, <1>3, <2>1 DEF IdeInv, SlotsInv, Parked, jobVars, Issued
<1>6. HandlerInv' /\ HistoryInv' /\ MarksFollowTabs'
  BY <1>2 DEF IdeInv, HandlerInv, HistoryInv, MarksFollowTabs, jobVars
<1> QED BY <1>4, <1>5, <1>6

LEMMA CloseKeeps ==
  ASSUME IdeInv, NEW idx \in 1 .. EditorLimit, CloseTab(idx)
  PROVE  TypeOKIde' /\ SlotsInv' /\ HandlerInv' /\ HistoryInv' /\ MarksFollowTabs'
<1> USE IdeAssumption
<1>1. tabs \in Seq(Editors) /\ opened \in 0 .. EditorLimit /\ Len(tabs) <= opened /\ Len(tabs) \in Nat
  BY LenProperties DEF IdeInv, TypeOKIde
<1>2. /\ at = "ready" /\ idx \in 1 .. Len(tabs)
      /\ tabs' = SubSeq(tabs, 1, idx - 1) \o SubSeq(tabs, idx + 1, Len(tabs))
      /\ moved' = moved \cup {gJobs[i] : i \in {k \in Parked : gJobTab[k] >= idx}}
      /\ UNCHANGED <<jobVars, opened, gJobs, gJobTab, at, slotAt, sel, origin, shown>>
  BY DEF CloseTab
<1>3. /\ tabs' \in Seq(Editors) /\ Len(tabs') = Len(tabs) - 1
      /\ \A k \in 1 .. idx - 1 : tabs'[k] = tabs[k]
  BY <1>1, <1>2, TabsBefore
<1>4. TypeOKIde'
  <2>1. moved \subseteq Jobs /\ \A i \in Parked : gJobs[i] \in Jobs
    BY DEF IdeInv, TypeOKIde, SlotsInv, Issued, Parked
  <2>2. moved' \subseteq Jobs
    BY <1>2, <2>1
  <2>3. Len(tabs') <= opened'
    <3>1. opened' = opened
      BY <1>2
    <3> QED BY <1>1, <1>3, <3>1
  <2> QED BY <1>2, <1>3, <2>2, <2>3 DEF IdeInv, TypeOKIde, Parked
<1>5. SlotsInv'
  <2> SUFFICES ASSUME NEW i \in Parked
               PROVE  /\ gJobs[i] \in Issued
                      /\ gJobTab[i] >= 1
                      /\ gJobs[i] \notin moved'
                            => /\ gJobTab[i] <= Len(tabs')
                               /\ tabs'[gJobTab[i]] = origin[gJobs[i]]
    BY <1>2 DEF SlotsInv, Parked, jobVars, Issued
  <2>1. gJobTab[i] \in Nat /\ gJobs[i] \in Issued /\ gJobTab[i] >= 1
    BY DEF IdeInv, TypeOKIde, SlotsInv, Parked
  <2>2. ASSUME gJobs[i] \notin moved'
        PROVE  gJobTab[i] <= Len(tabs') /\ tabs'[gJobTab[i]] = origin[gJobs[i]]
    <3>1. gJobTab[i] < idx
      BY <1>2, <2>1, <2>2
    <3>2. gJobs[i] \notin moved /\ tabs[gJobTab[i]] = origin[gJobs[i]]
      BY <1>2, <2>2 DEF IdeInv, SlotsInv
    <3>3. gJobTab[i] \in 1 .. idx - 1 /\ gJobTab[i] <= Len(tabs) - 1
      BY <1>1, <1>2, <2>1, <3>1
    <3> QED BY <1>3, <3>2, <3>3
  <2> QED BY <2>1, <2>2
<1>6. HandlerInv' /\ HistoryInv' /\ MarksFollowTabs'
  BY <1>2 DEF IdeInv, HandlerInv, HistoryInv, MarksFollowTabs, jobVars
<1> QED BY <1>4, <1>5, <1>6

LEMMA LaunchKeeps ==
  ASSUME IdeInv, NEW tab \in 1 .. EditorLimit, Launch(tab)
  PROVE  TypeOKIde' /\ SlotsInv' /\ HandlerInv' /\ HistoryInv' /\ MarksFollowTabs'
<1> USE IdeAssumption, JobsAssumption
<1>1. /\ at = "ready" /\ at' = "launch" /\ tab \in 1 .. Len(tabs) /\ sel' = tab
      /\ pc' = [pc EXCEPT ![Main] = "insert"] /\ id' = [id EXCEPT ![Main] = nextId]
      /\ nextId \in Jobs /\ nextId' = nextId + 1 /\ worker' = worker
      /\ origin' = [origin EXCEPT ![nextId] = tabs[tab]]
      /\ UNCHANGED <<tabs, opened, gJobs, gJobTab, slotAt, shown, moved>>
  BY DEF Launch, TakeId, Enter
<1>2. Main \in Callers /\ pc \in [Callers -> {"idle", "insert", "spawn", "take", "remove"}]
      /\ id \in [Callers -> 0 .. JobLimit] /\ origin \in [Jobs -> Editors \cup {NoEditor}]
      /\ tabs \in Seq(Editors)
  BY DEF IdeInv, ToldInv, JobsInv, TypeOK, HistoryInv, TypeOKIde
<1>3. TypeOKIde'
  BY <1>1 DEF IdeInv, TypeOKIde, Parked
<1>4. \A i \in Parked : gJobs[i] \in Issued' /\ gJobs[i] # nextId /\ gJobs[i] \in Jobs
  BY <1>1 DEF IdeInv, SlotsInv, Issued, Jobs
<1>5. SlotsInv'
  BY <1>1, <1>2, <1>4 DEF IdeInv, SlotsInv, Parked
<1>6. HandlerInv'
  BY <1>1, <1>2 DEF IdeInv, HandlerInv
<1>7. HistoryInv'
  <2>1. tabs[tab] \in Editors
    BY <1>1, <1>2, ElementOfSeq
  <2> QED BY <1>1, <1>2, <2>1 DEF IdeInv, HistoryInv, Jobs
<1>8. MarksFollowTabs'
  <2>1. shown[nextId] = NoEditor
    BY <1>1 DEF IdeInv, HistoryInv, Jobs
  <2> QED BY <1>1, <1>2, <2>1 DEF IdeInv, MarksFollowTabs
<1> QED BY <1>3, <1>5, <1>6, <1>7, <1>8

\* Park's slot is free.
LEMMA FreeSlot ==
  ASSUME Slots # Parked
  PROVE  LET slot == CHOOSE i \in Slots \ Parked : \A k \in Slots \ Parked : i <= k
         IN  slot \in Slots \ Parked
<1>1. Slots \ Parked \subseteq Nat /\ Slots \ Parked # {}
  BY IdeAssumption DEF Slots, Parked
<1>2. \E i \in Slots \ Parked : \A k \in Slots \ Parked : i <= k
  BY <1>1, Least
<1> QED BY <1>2

LEMMA ParkKeeps ==
  IdeInv /\ Park => TypeOKIde' /\ SlotsInv' /\ HandlerInv' /\ HistoryInv' /\ MarksFollowTabs'
<1> SUFFICES ASSUME IdeInv, Park
             PROVE  TypeOKIde' /\ SlotsInv' /\ HandlerInv' /\ HistoryInv' /\ MarksFollowTabs'
  OBVIOUS
<1> USE IdeAssumption, JobsAssumption
<1> DEFINE new == id[Main]
<1>1. /\ at = "launch" /\ at' = "ready" /\ pc[Main] = "spawn" /\ nextId' = nextId
      /\ worker' = [worker EXCEPT ![new] = "running"]
      /\ UNCHANGED <<tabs, opened, slotAt, sel, origin, shown, moved>>
  BY DEF Park, Spawn
<1>2. /\ new \in Jobs /\ new < nextId /\ worker[new] = "none"
      /\ worker \in [Jobs -> {"none", "running", "ended"}]
  BY <1>1 DEF IdeInv, ToldInv, JobsInv, StartInv, TypeOK
<1>3. /\ sel \in 1 .. Len(tabs) /\ tabs[sel] = origin[new]
      /\ Len(tabs) \in Nat /\ Len(tabs) <= opened /\ opened \in 0 .. EditorLimit
  BY <1>1, LenProperties DEF IdeInv, HandlerInv, TypeOKIde
<1>4. \A i \in Parked : gJobs[i] # new
  BY <1>2 DEF IdeInv, SlotsInv, Issued
<1>5. \A j \in Issued : j \in Issued'
  BY <1>1, <1>2 DEF Issued
<1>6. new \in Issued'
  BY <1>1, <1>2 DEF Issued
<1>7. HandlerInv' /\ HistoryInv' /\ MarksFollowTabs'
  BY <1>1 DEF IdeInv, HandlerInv, HistoryInv, MarksFollowTabs
<1>8. CASE Slots = Parked
  <2>1. gJobs' = gJobs /\ gJobTab' = gJobTab
    BY <1>8 DEF Park
  <2>2. TypeOKIde'
    BY <1>1, <2>1 DEF IdeInv, TypeOKIde, Parked
  <2>3. SlotsInv'
    BY <1>1, <1>5, <2>1 DEF IdeInv, SlotsInv, Parked
  <2> QED BY <1>7, <2>2, <2>3
<1>9. CASE Slots # Parked
  <2>1. PICK slot \in Slots \ Parked :
           /\ gJobs' = [gJobs EXCEPT ![slot] = new]
           /\ gJobTab' = [gJobTab EXCEPT ![slot] = sel]
    BY <1>9, FreeSlot DEF Park
  <2>2. /\ gJobs \in [Slots -> 0 .. JobLimit] /\ gJobTab \in [Slots -> 0 .. EditorLimit]
        /\ \A i, k \in Parked : gJobs[i] = gJobs[k] => i = k
    BY DEF IdeInv, TypeOKIde
  <2>3. /\ gJobs'[slot] = new /\ gJobTab'[slot] = sel /\ new # 0
        /\ \A i \in Slots : i # slot => gJobs'[i] = gJobs[i] /\ gJobTab'[i] = gJobTab[i]
    BY <1>2, <2>1, <2>2 DEF Jobs
  <2>4. Parked' = Parked \cup {slot}
    BY <2>1, <2>3 DEF Parked
  <2>5. TypeOKIde'
    <3>1. /\ gJobs' \in [Slots -> 0 .. JobLimit] /\ gJobTab' \in [Slots -> 0 .. EditorLimit]
      <4>1. new \in 0 .. JobLimit /\ sel \in 0 .. EditorLimit
        BY <1>2, <1>3 DEF Jobs
      <4> QED BY <2>1, <2>2, <4>1
    <3>2. \A i, k \in Parked' : gJobs'[i] = gJobs'[k] => i = k
      BY <1>4, <2>2, <2>3, <2>4 DEF Parked
    <3> QED BY <1>1, <3>1, <3>2 DEF IdeInv, TypeOKIde
  <2>6. SlotsInv'
    <3>1. ASSUME NEW i \in Parked
          PROVE  /\ gJobs'[i] \in Issued'
                 /\ gJobTab'[i] >= 1
                 /\ gJobs'[i] \notin moved
                       => gJobTab'[i] <= Len(tabs) /\ tabs[gJobTab'[i]] = origin[gJobs'[i]]
      <4>1. gJobs'[i] = gJobs[i] /\ gJobTab'[i] = gJobTab[i]
        BY <2>1, <2>3 DEF Parked
      <4> QED BY <1>5, <4>1 DEF IdeInv, SlotsInv
    <3>2. sel >= 1 /\ sel <= Len(tabs)
      BY <1>3
    <3> QED BY <1>1, <1>3, <1>6, <2>3, <2>4, <3>1, <3>2 DEF SlotsInv
  <2> QED BY <1>7, <2>5, <2>6
<1> QED BY <1>8, <1>9

\* BuildPoll goes on: of the IDE only the loop variable and the handler change.
LEMMA LoopKeeps ==
  ASSUME IdeInv, [Next]_jobVars, at = "poll" \/ at = "collect",
         NextSlot \/ (at' = "collect" /\ slotAt' = slotAt /\ gJobs[slotAt] # 0),
         UNCHANGED <<tabs, opened, gJobs, gJobTab, sel, origin, shown, moved>>
  PROVE  TypeOKIde' /\ SlotsInv' /\ HandlerInv' /\ HistoryInv' /\ MarksFollowTabs'
<1> USE IdeAssumption
<1>1. slotAt \in Slots
  BY DEF IdeInv, HandlerInv
<1>2. /\ slotAt' \in Slots
      /\ at' \in {"ready", "poll", "collect"}
      /\ at' = "collect" => gJobs[slotAt'] # 0
  BY <1>1 DEF NextSlot, Slots, IdeInv, HandlerInv
<1>3. TypeOKIde'
  BY <1>2 DEF IdeInv, TypeOKIde, Parked, Slots
<1>4. SlotsInv' /\ HandlerInv' /\ MarksFollowTabs'
  <2>1. \A j \in Issued : j \in Issued'
    BY StaysIssued DEF IdeInv, ToldInv
  <2> QED BY <1>2, <2>1 DEF IdeInv, SlotsInv, HandlerInv, MarksFollowTabs, Parked
<1>5. HistoryInv'
  BY NextIdGrows, JobsAssumption DEF IdeInv, HistoryInv, Jobs
<1> QED BY <1>3, <1>4, <1>5

LEMMA PollKeeps ==
  IdeInv /\ (Tick \/ SkipSlot \/ AskSlot)
    => TypeOKIde' /\ SlotsInv' /\ HandlerInv' /\ HistoryInv' /\ MarksFollowTabs'
<1> SUFFICES ASSUME IdeInv, Tick \/ SkipSlot \/ AskSlot
             PROVE  TypeOKIde' /\ SlotsInv' /\ HandlerInv' /\ HistoryInv' /\ MarksFollowTabs'
  OBVIOUS
<1>1. [Next]_jobVars
  BY IdeCalls DEF NextIde, Handler
<1>2. CASE SkipSlot
  <2>1. at = "poll" /\ NextSlot /\ UNCHANGED <<tabs, opened, gJobs, gJobTab, sel, origin, shown, moved>>
    BY <1>2 DEF SkipSlot
  <2> QED BY <1>1, <2>1, LoopKeeps
<1>3. CASE AskSlot
  <2>1. /\ at = "poll" /\ UNCHANGED <<tabs, opened, gJobs, gJobTab, sel, origin, shown, moved>>
        /\ NextSlot \/ (at' = "collect" /\ slotAt' = slotAt /\ gJobs[slotAt] # 0)
    BY <1>3 DEF AskSlot
  <2> QED BY <1>1, <2>1, LoopKeeps
<1>4. CASE Tick
  <2>1. /\ at' = "poll" /\ Parked # {} /\ UNCHANGED <<jobVars, slotAt>>
        /\ UNCHANGED <<tabs, opened, gJobs, gJobTab, sel, origin, shown, moved>>
    BY <1>4 DEF Tick
  <2>2. slotAt \in Slots
    BY <2>1 DEF IdeInv, HandlerInv, Parked
  <2> QED
    BY <2>1, <2>2
    DEF IdeInv, TypeOKIde, SlotsInv, HandlerInv, HistoryInv, MarksFollowTabs, Parked, jobVars, Issued
<1> QED BY <1>2, <1>3, <1>4

LEMMA ShowKeeps ==
  IdeInv /\ Show => TypeOKIde' /\ SlotsInv' /\ HandlerInv' /\ HistoryInv' /\ MarksFollowTabs'
<1> SUFFICES ASSUME IdeInv, Show
             PROVE  TypeOKIde' /\ SlotsInv' /\ HandlerInv' /\ HistoryInv' /\ MarksFollowTabs'
  OBVIOUS
<1> USE IdeAssumption, JobsAssumption
<1> DEFINE job == gJobs[slotAt]
<1>1. [Next]_jobVars /\ at = "collect" /\ NextSlot
      /\ UNCHANGED <<jobVars, tabs, opened, gJobTab, sel, origin, moved>>
  BY DEF Show
<1>2. CASE gJobs' = gJobs /\ shown' = shown
  BY <1>1, <1>2, LoopKeeps
<1>3. CASE /\ gJobs' = [gJobs EXCEPT ![slotAt] = 0]
           /\ shown' = IF gJobTab[slotAt] <= Len(tabs)
                         THEN [shown EXCEPT ![job] = tabs[gJobTab[slotAt]]]
                         ELSE shown
  <2>1. slotAt \in Parked /\ slotAt \in Slots /\ gJobs \in [Slots -> 0 .. JobLimit]
    BY <1>1 DEF IdeInv, HandlerInv, Parked, TypeOKIde
  <2>2. /\ job \in Issued /\ job \in Jobs /\ gJobTab[slotAt] >= 1
        /\ job \notin moved
             => gJobTab[slotAt] <= Len(tabs) /\ tabs[gJobTab[slotAt]] = origin[job]
    BY <2>1 DEF IdeInv, SlotsInv, Issued
  <2>3. /\ gJobs' \in [Slots -> 0 .. JobLimit]
        /\ \A i \in Parked' : i \in Parked /\ gJobs'[i] = gJobs[i]
    BY <1>3, <2>1 DEF Parked
  <2>4. /\ slotAt' \in Slots /\ at' \in {"ready", "poll"}
    BY <1>1, <2>1 DEF NextSlot, Slots
  <2>5. TypeOKIde'
    <3>1. \A i, k \in Parked' : gJobs'[i] = gJobs'[k] => i = k
      BY <2>3 DEF IdeInv, TypeOKIde
    <3>2. slotAt' \in 1 .. MaxJobs + 1
      BY <2>4 DEF Slots
    <3> QED BY <1>1, <2>3, <2>4, <3>1, <3>2 DEF IdeInv, TypeOKIde
  <2>6. SlotsInv'
    BY <1>1, <2>3 DEF IdeInv, SlotsInv, Issued, jobVars
  <2>7. HandlerInv'
    BY <2>4 DEF HandlerInv
  <2>8. HistoryInv' /\ MarksFollowTabs'
    <3>1. CASE gJobTab[slotAt] > Len(tabs)
      <4>1. shown' = shown
        BY <1>3, <2>1, <3>1, LenProperties DEF IdeInv, TypeOKIde
      <4> QED BY <1>1, <2>4, <4>1 DEF IdeInv, HistoryInv, MarksFollowTabs, jobVars
    <3>2. CASE gJobTab[slotAt] <= Len(tabs)
      <4>1. /\ shown' = [shown EXCEPT ![job] = tabs[gJobTab[slotAt]]]
            /\ shown \in [Jobs -> Editors \cup {NoEditor}]
        BY <1>3, <3>2 DEF IdeInv, HistoryInv
      <4>2. gJobTab[slotAt] \in 1 .. Len(tabs) /\ tabs \in Seq(Editors)
        BY <2>1, <2>2, <3>2, LenProperties DEF IdeInv, TypeOKIde
      <4>3. tabs[gJobTab[slotAt]] \in Editors
        BY <4>2, ElementOfSeq
      <4>4. HistoryInv'
        <5>1. /\ sel' = sel /\ origin' = origin /\ nextId' = nextId /\ job < nextId
              /\ shown' \in [Jobs -> Editors \cup {NoEditor}]
          BY <1>1, <2>2, <4>1, <4>3 DEF jobVars, Issued
        <5>2. ASSUME NEW j \in Jobs, j >= nextId PROVE shown'[j] = shown[j]
          <6>1. j # job
            BY <5>1, <5>2, JobsAssumption DEF Jobs, IdeInv, ToldInv, JobsInv, TypeOK
          <6> QED BY <2>2, <4>1, <6>1
        <5> QED BY <5>1, <5>2 DEF IdeInv, HistoryInv
      <4>5. MarksFollowTabs'
        BY <1>1, <2>2, <4>1 DEF IdeInv, MarksFollowTabs
      <4> QED BY <4>4, <4>5
    <3>3. gJobTab[slotAt] \in Int /\ Len(tabs) \in Int
      BY <2>1, LenProperties DEF IdeInv, TypeOKIde
    <3> QED BY <3>1, <3>2, <3>3
  <2> QED BY <2>5, <2>6, <2>7, <2>8
<1> QED BY <1>2, <1>3 DEF Show

LEMMA IdeStep == IdeInv /\ [NextIde]_ideVars => IdeInv'
<1> SUFFICES ASSUME IdeInv, [NextIde]_ideVars PROVE IdeInv'
  OBVIOUS
<1> DEFINE Rest == TypeOKIde' /\ SlotsInv' /\ HandlerInv' /\ HistoryInv' /\ MarksFollowTabs'
<1>1. [Next]_jobVars /\ ToldInv'
  BY IdeCalls, ToldStep DEF IdeInv
<1>2. SUFFICES Rest
  BY <1>1 DEF IdeInv
<1>3. CASE UNCHANGED ideVars
  <2>1. UNCHANGED uiVars /\ id' = id /\ pc' = pc
    BY <1>3 DEF ideVars, jobVars
  <2>2. at = "launch" => pc[Main] \in {"insert", "spawn"}
    BY DEF IdeInv, HandlerInv
  <2> QED BY <1>1, <2>1, <2>2, JobsMoveOn
<1>4. CASE OpenTab
  BY <1>4, OpenKeeps
<1>5. ASSUME NEW i \in 1 .. EditorLimit, CloseTab(i) PROVE Rest
  BY <1>5, CloseKeeps
<1>6. ASSUME NEW i \in 1 .. EditorLimit, Launch(i) PROVE Rest
  BY <1>6, LaunchKeeps
<1>7. CASE Tick \/ SkipSlot \/ AskSlot
  BY <1>7, PollKeeps
<1>8. CASE Launching
  <2>1. id'[Main] = id[Main] /\ pc'[Main] = "spawn"
    BY <1>8, IdeAssumption DEF Launching, Insert, GoOn, IdeInv, ToldInv, JobsInv, TypeOK
  <2> QED BY <1>1, <1>8, <2>1, JobsMoveOn DEF Launching
<1>9. CASE Park
  BY <1>9, ParkKeeps
<1>10. CASE Collect
  BY <1>1, <1>10, JobsMoveOn DEF Collect
<1>11. CASE Show
  BY <1>11, ShowKeeps
<1>12. CASE CommandEnds
  <2>1. id' = id /\ pc' = pc
    BY <1>12 DEF CommandEnds, Store, callVars
  <2>2. at = "launch" => pc[Main] \in {"insert", "spawn"}
    BY DEF IdeInv, HandlerInv
  <2> QED BY <1>1, <1>12, <2>1, <2>2, JobsMoveOn DEF CommandEnds
<1> QED
  BY <1>3, <1>4, <1>5, <1>6, <1>7, <1>8, <1>9, <1>10, <1>11, <1>12 DEF NextIde, Handler

(* The IDE's inductive invariant, for any number of slots, tabs and jobs.    *)
THEOREM IdeInvariant == SpecIde => []IdeInv
  BY InitIdeInv, IdeStep, PTL DEF SpecIde

(* Slots and tabs keep their shape: no job sits in two slots.                *)
THEOREM IdeShape == SpecIde => []TypeOKIde
<1>1. IdeInv => TypeOKIde
  BY DEF IdeInv
<1> QED BY <1>1, IdeInvariant, PTL

(* A job's error marks appear in the editor it was started from, unless tabs *)
(* were closed while it ran: BuildRunSelected and BuildPoll, whatever else   *)
(* is built, opened and switched in between.                                 *)
THEOREM MarksInTheRightTab == SpecIde => []MarksFollowTabs
<1>1. IdeInv => MarksFollowTabs
  BY DEF IdeInv
<1> QED BY <1>1, IdeInvariant, PTL

(* The IDE calls RunAsync, RunDone and RunCollect the way AsyncJobs assumes  *)
(* of a caller: it only asks about jobs that it started.                     *)
THEOREM IdeIsACaller == SpecIde => Spec
<1>1. InitIde => Init
  BY DEF InitIde
<1> QED BY <1>1, IdeCalls, IdeInvariant, PTL DEF SpecIde, Spec

(* With IdeIsACaller the guarantees of the job table hold in the IDE: each   *)
(* result goes to one caller, and none is lost before.                       *)
THEOREM JobsOfTheIde == SpecIde => []ResultKept /\ ImplementsService
  BY IdeIsACaller, OutputKept, ServiceImplemented, PTL

-----------------------------------------------------------------------------
(***************************************************************************)
(* The compiler daemons around their socket path (DaemonSocket), for any   *)
(* number of daemons, clients, requests, deaths and hangs.                 *)
(***************************************************************************)

DaemonStates == {"off", "bind", "probe", "remove", "rebind", "bound",
                 "listen", "serve", "hung", "halt", "gone"}

SocketTypes ==
    /\ path \in Daemons \cup {NoFile}
    /\ dstate \in [Daemons -> DaemonStates]
    /\ queue \in [Daemons -> Seq(Requests)]
    /\ after \in [Daemons -> SUBSET Daemons]
    /\ cstate \in [Clients -> {"idle", "first", "second", "write", "read", "child"}]
    /\ req \in [Clients -> 0 .. RequestLimit]
    /\ made \in 0 .. RequestLimit
    /\ conn \in [Requests -> {"none", "open", "sent", "replied", "closed", "reset"}]

\* The states in which a daemon's socket answers a connect, and those in which it
\* has a socket.
Listening == {"listen", "serve", "hung", "halt"}
Named == Listening \cup {"bound"}

\* What a daemon about to remove the path will remove: no listening socket but one
\* that began to listen after it looked.
Stale == \A d \in Daemons : dstate[d] = "remove" => ~Alive(path) \/ path \in after[d]

\* A daemon that has bound the path still has it, or another has taken it.
Held == \A d \in Daemons : dstate[d] \in Named => path = d \/ d \in lost

\* A client's request is its own, and not in a queue before it has connected.
OwnRequests ==
    /\ \A c \in Clients : req[c] <= made /\ (cstate[c] # "idle" => req[c] # 0)
    /\ \A c, e \in Clients : c # e /\ req[c] = req[e] => req[c] = 0
    /\ \A c \in Clients, d \in Daemons :
          cstate[c] \in {"first", "second"} => \A i \in DOMAIN queue[d] : queue[d][i] # req[c]

\* The queues hold different connections of requests that were made.
Queues ==
    /\ \A d \in Daemons : \A i \in DOMAIN queue[d] : queue[d][i] <= made
    /\ \A d, e \in Daemons : \A i \in DOMAIN queue[d], j \in DOMAIN queue[e] :
          queue[d][i] = queue[e][j] => d = e /\ i = j
    /\ \A d \in Daemons : dstate[d] = "serve" => queue[d] # <<>>

\* The inductive invariant.
SocketInv == SocketTypes /\ Stale /\ Held /\ OwnRequests /\ Queues

LEMMA SocketTypesKeep ==
  ASSUME SocketTypes, Queues, OwnRequests, DaemonNext
  PROVE  SocketTypes'
<1> USE DEF SocketTypes, DaemonStates
<1>1. ASSUME NEW d \in Daemons, Hangup(d)
      PROVE  /\ queue' \in [Daemons -> Seq(Requests)]
             /\ conn' \in [Requests -> {"none", "open", "sent", "replied", "closed", "reset"}]
  <2>1. <<>> \in Seq(Requests)
    OBVIOUS
  <2> QED  BY <1>1, <2>1 DEF Hangup
<1>2. ASSUME NEW d \in Daemons, Bind(d) \/ Listen(d) \/ Probe(d) \/ RemoveStale(d) PROVE SocketTypes'
  <2>1. path' \in Daemons \cup {NoFile} /\ after' \in [Daemons -> SUBSET Daemons]
    <3>1. CASE Bind(d)
      BY <3>1 DEF Bind
    <3>2. CASE Probe(d)
      BY <3>2 DEF Probe
    <3>3. CASE RemoveStale(d)
      BY <3>3 DEF RemoveStale
    <3>4. CASE Listen(d)
      <4>1. \A e \in Daemons : (IF dstate[e] = "remove" THEN after[e] \cup {d} ELSE {}) \in SUBSET Daemons
        OBVIOUS
      <4> QED  BY <3>4, <4>1 DEF Listen
    <3> QED  BY <1>2, <3>1, <3>2, <3>3, <3>4
  <2>2. dstate' \in [Daemons -> DaemonStates]
    <3>1. PICK to \in DaemonStates : Goto(d, to)
      BY <1>2 DEF Bind, Listen, Probe, RemoveStale
    <3> QED  BY <3>1 DEF Goto
  <2> QED  BY <1>2, <2>1, <2>2 DEF Bind, Listen, Probe, RemoveStale, clientVars
<1>3. ASSUME NEW d \in Daemons, Accept(d) \/ Hang(d) \/ Reply(d) \/ Shutdown(d) PROVE SocketTypes'
  <2>1. dstate' \in [Daemons -> DaemonStates]
    BY <1>3 DEF Accept, Hang, Reply, Shutdown, Goto, daemonVars
  <2>2. conn' \in [Requests -> {"none", "open", "sent", "replied", "closed", "reset"}]
    BY <1>3 DEF Accept, Hang, Reply, Shutdown, Conn
  <2> QED  BY <1>3, <2>1, <2>2 DEF Accept, Hang, Reply, Shutdown, daemonVars, clientVars
<1>4. ASSUME NEW d \in Daemons, EndOfConnection(d) PROVE SocketTypes'
  <2>1. queue[d] \in Seq(Requests) /\ queue[d] # <<>>
    BY <1>4 DEF EndOfConnection, Queues
  <2>2. Tail(queue[d]) \in Seq(Requests)
    BY <2>1
  <2>3. queue' \in [Daemons -> Seq(Requests)]
    BY <1>4, <2>2 DEF EndOfConnection
  <2>4. dstate' \in [Daemons -> DaemonStates]
    BY <1>4 DEF EndOfConnection, Goto
  <2> QED  BY <1>4, <2>3, <2>4 DEF EndOfConnection, clientVars
<1>5. ASSUME NEW d \in Daemons, Halt(d) \/ Die(d) PROVE SocketTypes'
  <2>1. Hangup(d)
    BY <1>5 DEF Halt, Die
  <2>2. /\ queue' \in [Daemons -> Seq(Requests)]
        /\ conn' \in [Requests -> {"none", "open", "sent", "replied", "closed", "reset"}]
    BY <1>1, <2>1
  <2>3. dstate' \in [Daemons -> DaemonStates]
    <3>1. Goto(d, "gone")
      BY <1>5 DEF Halt, Die
    <3> QED  BY <3>1 DEF Goto
  <2>4. path' \in Daemons \cup {NoFile}
    BY <1>5 DEF Halt, Die
  <2> QED  BY <1>5, <2>2, <2>3, <2>4 DEF Halt, Die, clientVars
<1>6. ASSUME NEW c \in Clients, Ask(c) PROVE SocketTypes'
  <2>1. made' \in 0 .. RequestLimit
    BY <1>6, SocketAssumption DEF Ask
  <2>2. req' \in [Clients -> 0 .. RequestLimit]
    BY <1>6, <2>1 DEF Ask
  <2> QED  BY <1>6, <2>1, <2>2 DEF Ask, Go, daemonVars
<1>7. ASSUME NEW c \in Clients, Connect(c) PROVE SocketTypes'
  <2>1. path \in Daemons /\ queue[path] \in Seq(Requests)
    BY <1>7 DEF Connect, Alive
  <2>2. req[c] \in Requests
    BY <1>7, SocketAssumption DEF Connect, OwnRequests, Requests
  <2>3. Append(queue[path], req[c]) \in Seq(Requests)
    BY <2>1, <2>2
  <2>4. queue' \in [Daemons -> Seq(Requests)]
    BY <1>7, <2>1, <2>3 DEF Connect
  <2>5. conn' \in [Requests -> {"none", "open", "sent", "replied", "closed", "reset"}]
    BY <1>7 DEF Connect, Conn
  <2> QED  BY <1>7, <2>4, <2>5 DEF Connect, Go
<1>8. ASSUME NEW c \in Clients, StartDaemon(c) \/ GiveUp(c) \/ ChildEnds(c) PROVE SocketTypes'
  <2>1. dstate' \in [Daemons -> DaemonStates]
    BY <1>8 DEF StartDaemon, GiveUp, ChildEnds, Goto, daemonVars
  <2> QED  BY <1>8, <2>1 DEF StartDaemon, GiveUp, ChildEnds, Go, daemonVars
<1>9. ASSUME NEW c \in Clients, Send(c) \/ Receive(c) \/ TimeOut(c) PROVE SocketTypes'
  <2>1. conn' \in [Requests -> {"none", "open", "sent", "replied", "closed", "reset"}]
    <3>1. conn' = conn \/ \E s \in {"sent", "closed"} : Conn(req[c], s)
      BY <1>9 DEF Send, Receive, TimeOut
    <3> QED  BY <3>1 DEF Conn
  <2>2. cstate' \in [Clients -> {"idle", "first", "second", "write", "read", "child"}]
    <3>1. \E to \in {"idle", "first", "second", "write", "read", "child"} : Go(c, to)
      BY <1>9 DEF Send, Receive, TimeOut
    <3> QED  BY <3>1 DEF Go
  <2> QED  BY <1>9, <2>1, <2>2 DEF Send, Receive, TimeOut, daemonVars
<1> QED
  BY <1>2, <1>3, <1>4, <1>5, <1>6, <1>7, <1>8, <1>9 DEF DaemonNext, Serving, InRequest

LEMMA GotoIs ==
  ASSUME SocketTypes, NEW d \in Daemons, NEW to \in DaemonStates, Goto(d, to)
  PROVE  dstate'[d] = to /\ \A e \in Daemons \ {d} : dstate'[e] = dstate[e]
BY DEF SocketTypes, Goto

\* A step that leaves the path alone, and in which nobody starts to listen or to
\* remove, and no socket is made.
LEMMA PathStays ==
  ASSUME SocketTypes, Stale, Held, path' = path, after' = after, lost' = lost,
         \A e \in Daemons : \/ dstate'[e] = dstate[e]
                            \/ /\ dstate'[e] # "remove"
                               /\ dstate'[e] \in Listening => dstate[e] \in Listening
                               /\ dstate'[e] \in Named => dstate[e] \in Named
  PROVE  Stale' /\ Held'
<1>1. \A e \in Daemons : /\ dstate'[e] = "remove" => dstate[e] = "remove"
                         /\ dstate'[e] \in Listening => dstate[e] \in Listening
                         /\ dstate'[e] \in Named => dstate[e] \in Named
  OBVIOUS
<1>2. Alive(path)' => Alive(path)
  BY <1>1, SocketAssumption DEF Alive, Listening, SocketTypes
<1> QED  BY <1>1, <1>2 DEF Stale, Held

LEMMA PathKeeps ==
  ASSUME SocketTypes, Stale, Held, DaemonNext
  PROVE  Stale' /\ Held'
<1>1. ASSUME NEW d \in Daemons, path' = path, after' = after, lost' = lost, dstate[d] \in DaemonStates,
             NEW to \in DaemonStates, Goto(d, to), to # "remove",
             to \in Listening => dstate[d] \in Listening, to \in Named => dstate[d] \in Named
      PROVE  Stale' /\ Held'
  BY <1>1, GotoIs, PathStays
<1>2. ASSUME path' = path, after' = after, lost' = lost, dstate' = dstate PROVE Stale' /\ Held'
  BY <1>2, PathStays
<1>3. \A d \in Daemons : dstate[d] \in DaemonStates
  BY DEF SocketTypes
<1>4. ASSUME NEW d \in Daemons, Bind(d) PROVE Stale' /\ Held'
  <2>1. CASE path # NoFile
    <3>1. PICK to \in {"probe", "gone"} : Goto(d, to)
      BY <1>4, <2>1 DEF Bind
    <3>2. path' = path /\ after' = after /\ lost' = lost
      BY <1>4, <2>1 DEF Bind
    <3> QED  BY <1>1, <1>3, <3>1, <3>2 DEF DaemonStates, Listening, Named
  <2>2. CASE path = NoFile
    <3>1. path' = d /\ lost' = lost
      BY <1>4, <2>2 DEF Bind
    <3>2. dstate'[d] = "bound" /\ \A e \in Daemons \ {d} : dstate'[e] = dstate[e]
      BY <1>4, <2>2, GotoIs DEF Bind, DaemonStates
    <3>3. ~Alive(path)'
      BY <3>1, <3>2 DEF Alive
    <3>4. \A e \in Daemons \ {d} : dstate'[e] \in Named => e \in lost'
      BY <2>2, <3>1, <3>2, SocketAssumption DEF Held
    <3> QED  BY <3>1, <3>3, <3>4 DEF Stale, Held
  <2> QED  BY <2>1, <2>2
<1>12. ASSUME NEW d \in Daemons, Listen(d) PROVE Stale' /\ Held'
  <2>1. /\ path' = path /\ lost' = lost /\ dstate[d] = "bound"
        /\ \A e \in Daemons : after'[e] = IF dstate[e] = "remove" THEN after[e] \cup {d} ELSE {}
    BY <1>12 DEF Listen
  <2>2. dstate'[d] = "listen" /\ \A e \in Daemons \ {d} : dstate'[e] = dstate[e]
    BY <1>12, GotoIs DEF Listen, DaemonStates
  <2>3. ASSUME NEW e \in Daemons, dstate'[e] = "remove" PROVE ~Alive(path)' \/ path \in after'[e]
    <3>1. dstate[e] = "remove" /\ after'[e] = after[e] \cup {d}
      BY <2>1, <2>2, <2>3
    <3>2. CASE path = d
      BY <3>1, <3>2
    <3>3. CASE path # d
      <4>1. Alive(path)' => Alive(path)
        BY <2>1, <2>2, <3>3, SocketAssumption DEF Alive, SocketTypes
      <4> QED  BY <3>1, <4>1 DEF Stale
    <3> QED  BY <3>2, <3>3
  <2>4. Held'
    BY <2>1, <2>2 DEF Held, Named, Listening
  <2> QED  BY <2>1, <2>3, <2>4 DEF Stale
<1>5. ASSUME NEW d \in Daemons, Probe(d) PROVE Stale' /\ Held'
  <2>1. path' = path /\ after' = after /\ lost' = lost /\ dstate[d] = "probe"
    BY <1>5 DEF Probe
  <2>2. CASE Alive(path)
    <3>1. Goto(d, "gone")
      BY <1>5, <2>2 DEF Probe
    <3> QED  BY <1>1, <1>3, <2>1, <3>1 DEF DaemonStates, Listening, Named
  <2>3. CASE ~Alive(path)
    <3>1. dstate'[d] = "remove" /\ \A e \in Daemons \ {d} : dstate'[e] = dstate[e]
      BY <1>5, <2>3, GotoIs DEF Probe, DaemonStates
    <3>2. ~Alive(path)'
      BY <2>1, <2>3, <3>1, SocketAssumption DEF SocketTypes, Alive
    <3>3. "remove" \notin Named
      BY DEF Named, Listening
    <3> QED  BY <2>1, <3>1, <3>2, <3>3 DEF Stale, Held
  <2> QED  BY <2>2, <2>3
<1>6. ASSUME NEW d \in Daemons, RemoveStale(d) PROVE Stale' /\ Held'
  <2>1. path' = NoFile /\ lost' = lost \cup {path}
    BY <1>6 DEF RemoveStale
  <2>2. dstate'[d] = "rebind" /\ \A e \in Daemons \ {d} : dstate'[e] = dstate[e]
    BY <1>6, GotoIs DEF RemoveStale, DaemonStates
  <2>3. \A e \in Daemons : dstate'[e] \in Named => dstate[e] \in Named
    BY <2>2 DEF Named, Listening
  <2> QED  BY <2>1, <2>3 DEF Stale, Held, Alive
<1>7. ASSUME NEW d \in Daemons, Halt(d) PROVE Stale' /\ Held'
  <2>1. path' = NoFile /\ lost' = lost \cup ({path} \ {d})
    BY <1>7 DEF Halt
  <2>2. dstate'[d] = "gone" /\ \A e \in Daemons \ {d} : dstate'[e] = dstate[e]
    BY <1>7, GotoIs DEF Halt, DaemonStates
  <2>3. \A e \in Daemons : dstate'[e] \in Named => dstate[e] \in Named /\ e # d
    BY <2>2 DEF Named, Listening
  <2> QED  BY <2>1, <2>3 DEF Stale, Held, Alive
<1>8. ASSUME NEW d \in Daemons, Accept(d) \/ EndOfConnection(d) \/ Shutdown(d) \/ Die(d) \/ Hang(d)
      PROVE  Stale' /\ Held'
  <2>1. path' = path /\ after' = after /\ lost' = lost
    BY <1>8 DEF Accept, EndOfConnection, Shutdown, Die, Hang
  <2>2. PICK to \in DaemonStates : Goto(d, to) /\ to # "remove" /\ (to \in Listening => dstate[d] \in Listening)
                                   /\ (to \in Named => dstate[d] \in Named)
    BY <1>8 DEF Accept, EndOfConnection, Shutdown, Die, Hang, DaemonStates, Listening, Named
  <2> QED  BY <1>1, <1>3, <2>1, <2>2
<1>9. ASSUME NEW d \in Daemons, Reply(d) PROVE Stale' /\ Held'
  BY <1>2, <1>9 DEF Reply, daemonVars
<1>10. ASSUME NEW c \in Clients, StartDaemon(c) PROVE Stale' /\ Held'
  <2>1. path' = path /\ after' = after /\ lost' = lost
    BY <1>10 DEF StartDaemon
  <2>2. dstate' = dstate \/ \E d \in Daemons : Goto(d, "bind")
    BY <1>10 DEF StartDaemon, Unused
  <2>3. "bind" \in DaemonStates /\ "bind" # "remove" /\ "bind" \notin Listening /\ "bind" \notin Named
    BY DEF DaemonStates, Listening, Named
  <2> QED  BY <1>1, <1>2, <1>3, <2>1, <2>2, <2>3
<1>11. ASSUME NEW c \in Clients, Ask(c) \/ Connect(c) \/ GiveUp(c) \/ Send(c) \/ Receive(c) \/ TimeOut(c) \/ ChildEnds(c)
       PROVE  Stale' /\ Held'
  <2>1. path' = path /\ after' = after /\ lost' = lost /\ dstate' = dstate
    BY <1>11 DEF Ask, Connect, GiveUp, Send, Receive, TimeOut, ChildEnds, daemonVars
  <2> QED  BY <1>2, <2>1
<1> QED
  BY <1>4, <1>5, <1>6, <1>7, <1>8, <1>9, <1>10, <1>11, <1>12 DEF DaemonNext, Serving, InRequest

\* A step in which queues are only shortened from the front, by k, and no client
\* asks or connects.
LEMMA QueuesShrink ==
  ASSUME SocketTypes, SocketTypes', OwnRequests, Queues, req' = req, made' = made, NEW k \in [Daemons -> Nat],
         \A d \in Daemons : \A i \in DOMAIN queue'[d] :
            i + k[d] \in DOMAIN queue[d] /\ queue'[d][i] = queue[d][i + k[d]],
         \A d \in Daemons : dstate'[d] = "serve" => queue'[d] # <<>>,
         \A c \in Clients : /\ cstate'[c] # "idle" => cstate[c] # "idle"
                            /\ cstate'[c] \in {"first", "second"} => cstate[c] \in {"first", "second"}
  PROVE  OwnRequests' /\ Queues'
<1>1. \A d \in Daemons : DOMAIN queue'[d] \subseteq Int
  <2>1. \A d \in Daemons : queue'[d] \in Seq(Requests)
    BY DEF SocketTypes
  <2> QED  BY <2>1
<1>2. \A d, e \in Daemons : \A i \in DOMAIN queue'[d], j \in DOMAIN queue'[e] :
          queue'[d][i] = queue'[e][j] => d = e /\ i = j
  <2>1. ASSUME NEW d \in Daemons, NEW e \in Daemons, NEW i \in DOMAIN queue'[d], NEW j \in DOMAIN queue'[e],
               queue'[d][i] = queue'[e][j]
        PROVE  d = e /\ i = j
    <3>1. /\ i + k[d] \in DOMAIN queue[d] /\ j + k[e] \in DOMAIN queue[e]
          /\ queue[d][i + k[d]] = queue[e][j + k[e]]
      BY <2>1
    <3>2. d = e /\ i + k[d] = j + k[e]
      BY <3>1 DEF Queues
    <3>3. i \in Int /\ j \in Int /\ k[d] \in Nat
      BY <1>1
    <3> QED  BY <3>2, <3>3
  <2> QED  BY <2>1
<1>3. Queues'
  BY <1>2 DEF Queues
<1>4. OwnRequests'
  BY DEF OwnRequests
<1> QED  BY <1>3, <1>4

LEMMA QueuesStay ==
  ASSUME SocketTypes, SocketTypes', OwnRequests, Queues, req' = req, made' = made, queue' = queue,
         \A d \in Daemons : dstate'[d] = "serve" => queue[d] # <<>>,
         \A c \in Clients : /\ cstate'[c] # "idle" => cstate[c] # "idle"
                            /\ cstate'[c] \in {"first", "second"} => cstate[c] \in {"first", "second"}
  PROVE  OwnRequests' /\ Queues'
<1> DEFINE k == [d \in Daemons |-> 0]
<1>1. k \in [Daemons -> Nat] /\ \A d \in Daemons : k[d] = 0
  OBVIOUS
<1> HIDE DEF k
<1>2. \A d \in Daemons : \A i \in DOMAIN queue'[d] :
         i + k[d] \in DOMAIN queue[d] /\ queue'[d][i] = queue[d][i + k[d]]
  <2>1. \A d \in Daemons : queue[d] \in Seq(Requests)
    BY DEF SocketTypes
  <2>2. \A d \in Daemons : \A i \in DOMAIN queue[d] : i + k[d] = i
    BY <1>1, <2>1
  <2> QED  BY <2>2
<1> QED  BY <1>1, <1>2, QueuesShrink

LEMMA QueuesKeep ==
  ASSUME SocketTypes, SocketTypes', OwnRequests, Queues, DaemonNext
  PROVE  OwnRequests' /\ Queues'
<1>0. \A d \in Daemons : queue[d] \in Seq(Requests)
  BY DEF SocketTypes
<1>1. ASSUME NEW d \in Daemons,
             Bind(d) \/ Listen(d) \/ Probe(d) \/ RemoveStale(d) \/ Accept(d) \/ Reply(d) \/ Shutdown(d) \/ Hang(d)
      PROVE  OwnRequests' /\ Queues'
  <2>1. queue' = queue /\ req' = req /\ made' = made /\ cstate' = cstate
    BY <1>1 DEF Bind, Listen, Probe, RemoveStale, Accept, Reply, Shutdown, Hang, clientVars, daemonVars
  <2>2. dstate' = dstate \/ \E to \in DaemonStates : Goto(d, to) /\ (to = "serve" => queue[d] # <<>>)
    <3>1. CASE Bind(d)
      BY <3>1 DEF Bind, DaemonStates
    <3>2. CASE Probe(d)
      BY <3>2 DEF Probe, DaemonStates
    <3> QED  BY <1>1, <3>1, <3>2 DEF Listen, RemoveStale, Accept, Reply, Shutdown, Hang, daemonVars, DaemonStates
  <2>3. \A e \in Daemons : dstate'[e] = "serve" => queue[e] # <<>>
    <3>1. CASE dstate' = dstate
      BY <3>1 DEF Queues
    <3>2. CASE dstate' # dstate
      <4>1. PICK to \in DaemonStates : Goto(d, to) /\ (to = "serve" => queue[d] # <<>>)
        BY <2>2, <3>2
      <4> QED  BY <4>1, GotoIs DEF Queues
    <3> QED  BY <3>1, <3>2
  <2> QED  BY <2>1, <2>3, QueuesStay
<1>2. ASSUME NEW d \in Daemons, Halt(d) \/ Die(d)
      PROVE  OwnRequests' /\ Queues'
  <2> DEFINE k == [e \in Daemons |-> 0]
  <2>1. k \in [Daemons -> Nat] /\ \A e \in Daemons : k[e] = 0
    OBVIOUS
  <2> HIDE DEF k
  <2>2. Goto(d, "gone") /\ Hangup(d) /\ req' = req /\ made' = made /\ cstate' = cstate
    BY <1>2 DEF Halt, Die, clientVars
  <2>3. queue'[d] = <<>> /\ \A e \in Daemons \ {d} : queue'[e] = queue[e]
    BY <2>2 DEF Hangup, SocketTypes
  <2>4. \A e \in Daemons : \A i \in DOMAIN queue'[e] :
           i + k[e] \in DOMAIN queue[e] /\ queue'[e][i] = queue[e][i + k[e]]
    <3>1. \A e \in Daemons : \A i \in DOMAIN queue[e] : i + k[e] = i
      BY <1>0, <2>1
    <3>2. \A e \in Daemons \ {d} : \A i \in DOMAIN queue'[e] :
             i + k[e] \in DOMAIN queue[e] /\ queue'[e][i] = queue[e][i + k[e]]
      BY <2>3, <3>1
    <3>3. DOMAIN queue'[d] = {}
      BY <2>3
    <3> QED  BY <3>2, <3>3
  <2>5. \A e \in Daemons : dstate'[e] = "serve" => queue'[e] # <<>>
    <3>1. dstate'[d] = "gone" /\ \A e \in Daemons \ {d} : dstate'[e] = dstate[e]
      BY <2>2, GotoIs DEF DaemonStates
    <3> QED  BY <2>3, <3>1 DEF Queues
  <2> QED  BY <2>1, <2>2, <2>4, <2>5, QueuesShrink
<1>3. ASSUME NEW d \in Daemons, EndOfConnection(d)
      PROVE  OwnRequests' /\ Queues'
  <2> DEFINE k == [e \in Daemons |-> IF e = d THEN 1 ELSE 0]
  <2>1. k \in [Daemons -> Nat] /\ k[d] = 1 /\ \A e \in Daemons \ {d} : k[e] = 0
    OBVIOUS
  <2> HIDE DEF k
  <2>2. Goto(d, "listen") /\ req' = req /\ made' = made /\ cstate' = cstate /\ dstate[d] = "serve"
    BY <1>3 DEF EndOfConnection, clientVars
  <2>3. queue'[d] = Tail(queue[d]) /\ \A e \in Daemons \ {d} : queue'[e] = queue[e]
    BY <1>3 DEF EndOfConnection, SocketTypes
  <2>4. \A e \in Daemons : \A i \in DOMAIN queue'[e] :
           i + k[e] \in DOMAIN queue[e] /\ queue'[e][i] = queue[e][i + k[e]]
    <3>1. \A e \in Daemons \ {d} : \A i \in DOMAIN queue[e] : i + k[e] = i
      BY <1>0, <2>1
    <3>2. \A e \in Daemons \ {d} : \A i \in DOMAIN queue'[e] :
             i + k[e] \in DOMAIN queue[e] /\ queue'[e][i] = queue[e][i + k[e]]
      BY <2>3, <3>1
    <3>3. \A i \in DOMAIN queue'[d] : i + 1 \in DOMAIN queue[d] /\ queue'[d][i] = queue[d][i + 1]
      <4>1. queue[d] # <<>>
        BY <2>2 DEF Queues
      <4>2. /\ Tail(queue[d]) \in Seq(Requests) /\ Len(Tail(queue[d])) = Len(queue[d]) - 1
            /\ \A i \in 1 .. Len(Tail(queue[d])) : Tail(queue[d])[i] = queue[d][i + 1]
        BY <1>0, <4>1, HeadTailProperties
      <4>3. /\ DOMAIN Tail(queue[d]) = 1 .. Len(Tail(queue[d])) /\ DOMAIN queue[d] = 1 .. Len(queue[d])
            /\ Len(queue[d]) \in Nat
        BY <1>0, <4>2
      <4> QED  BY <2>3, <4>2, <4>3
    <3> QED  BY <2>1, <3>2, <3>3
  <2>5. \A e \in Daemons : dstate'[e] = "serve" => queue'[e] # <<>>
    <3>1. dstate'[d] = "listen" /\ \A e \in Daemons \ {d} : dstate'[e] = dstate[e]
      BY <2>2, GotoIs DEF DaemonStates
    <3> QED  BY <2>3, <3>1 DEF Queues
  <2> QED  BY <2>1, <2>2, <2>4, <2>5, QueuesShrink
<1>4. ASSUME NEW c \in Clients, StartDaemon(c) \/ GiveUp(c) \/ Send(c) \/ Receive(c) \/ TimeOut(c) \/ ChildEnds(c)
      PROVE  OwnRequests' /\ Queues'
  <2>1. queue' = queue /\ req' = req /\ made' = made
    BY <1>4 DEF StartDaemon, GiveUp, Send, Receive, TimeOut, ChildEnds, daemonVars
  <2>2. dstate' = dstate \/ \E d \in Daemons : Goto(d, "bind")
    BY <1>4 DEF StartDaemon, GiveUp, Send, Receive, TimeOut, ChildEnds, daemonVars, Unused
  <2>3. \A e \in Daemons : dstate'[e] = "serve" => queue[e] # <<>>
    BY <2>2, GotoIs DEF Queues, DaemonStates
  <2>4. \E to \in {"second", "read", "child", "idle"} :
           /\ Go(c, to) /\ cstate[c] # "idle"
           /\ to = "second" => cstate[c] = "first"
    BY <1>4 DEF StartDaemon, GiveUp, Send, Receive, TimeOut, ChildEnds
  <2>5. \A e \in Clients : /\ cstate'[e] # "idle" => cstate[e] # "idle"
                           /\ cstate'[e] \in {"first", "second"} => cstate[e] \in {"first", "second"}
    BY <2>4 DEF Go, SocketTypes
  <2> QED  BY <2>1, <2>3, <2>5, QueuesStay
<1>5. ASSUME NEW c \in Clients, Ask(c)
      PROVE  OwnRequests' /\ Queues'
  <2>1. /\ queue' = queue /\ dstate' = dstate /\ made' = made + 1 /\ made \in Nat
        /\ req'[c] = made + 1 /\ \A e \in Clients \ {c} : req'[e] = req[e] /\ cstate'[e] = cstate[e]
    BY <1>5 DEF Ask, Go, daemonVars, SocketTypes
  <2>2. \A d \in Daemons : \A i \in DOMAIN queue[d] : queue[d][i] \in Int /\ queue[d][i] <= made
    <3>1. \A d \in Daemons : \A i \in DOMAIN queue[d] : queue[d][i] \in Requests
      BY <1>0
    <3> QED  BY <3>1 DEF Queues, Requests
  <2>3. \A e \in Clients : req[e] \in Int /\ req[e] <= made
    BY DEF OwnRequests, SocketTypes
  <2>4. Queues'
    <3>1. \A d \in Daemons : \A i \in DOMAIN queue[d] : queue[d][i] <= made + 1
      BY <2>1, <2>2
    <3> QED  BY <2>1, <3>1 DEF Queues
  <2>5. \A e \in Clients : req'[e] <= made'
    BY <2>1, <2>3
  <2>6. \A e \in Clients : cstate'[e] # "idle" => req'[e] # 0
    BY <2>1 DEF OwnRequests
  <2>7. \A b, e \in Clients : b # e /\ req'[b] = req'[e] => req'[b] = 0
    BY <2>1, <2>3 DEF OwnRequests
  <2>8. \A e \in Clients, d \in Daemons :
           cstate'[e] \in {"first", "second"} => \A i \in DOMAIN queue[d] : queue[d][i] # req'[e]
    BY <2>1, <2>2 DEF OwnRequests
  <2> QED  BY <2>1, <2>4, <2>5, <2>6, <2>7, <2>8 DEF OwnRequests
<1>6. ASSUME NEW c \in Clients, Connect(c)
      PROVE  OwnRequests' /\ Queues'
  <2>1. /\ path \in Daemons /\ dstate' = dstate /\ req' = req /\ made' = made
        /\ cstate[c] \in {"first", "second"} /\ cstate'[c] = "write"
        /\ \A e \in Clients \ {c} : cstate'[e] = cstate[e]
        /\ queue'[path] = Append(queue[path], req[c]) /\ \A e \in Daemons \ {path} : queue'[e] = queue[e]
    BY <1>6 DEF Connect, Go, Alive, SocketTypes
  <2> DEFINE n == Len(queue[path]) + 1
  <2>2. /\ DOMAIN queue'[path] = 1 .. n /\ DOMAIN queue[path] = 1 .. n - 1 /\ n \in Nat /\ n >= 1
        /\ queue'[path][n] = req[c] /\ \A i \in 1 .. n - 1 : queue'[path][i] = queue[path][i]
    <3>1. req[c] \in Requests
      BY <2>1, SocketAssumption DEF OwnRequests, Requests, SocketTypes
    <3>2. queue[path] \in Seq(Requests)
      BY <1>0, <2>1
    <3>3. /\ Append(queue[path], req[c]) \in Seq(Requests) /\ Len(Append(queue[path], req[c])) = Len(queue[path]) + 1
          /\ \A i \in 1 .. Len(queue[path]) : Append(queue[path], req[c])[i] = queue[path][i]
          /\ Append(queue[path], req[c])[Len(queue[path]) + 1] = req[c]
      BY <3>1, <3>2, AppendProperties
    <3>4. Len(queue[path]) \in Nat /\ DOMAIN queue[path] = 1 .. Len(queue[path])
      BY <3>2
    <3>5. DOMAIN Append(queue[path], req[c]) = 1 .. Len(queue[path]) + 1
      BY <3>3
    <3> QED  BY <2>1, <3>3, <3>4, <3>5
  <2> HIDE DEF n
  <2>3. \A d \in Daemons : \A i \in DOMAIN queue[d] : queue[d][i] # req[c] /\ queue[d][i] <= made
    BY <2>1 DEF OwnRequests, Queues
  <2>4. \A d \in Daemons : \A i \in DOMAIN queue'[d] :
           \/ d = path /\ i = n /\ queue'[d][i] = req[c]
           \/ (d # path \/ i # n) /\ i \in DOMAIN queue[d] /\ queue'[d][i] = queue[d][i]
    <3>1. ASSUME NEW i \in DOMAIN queue'[path]
          PROVE  \/ i = n /\ queue'[path][i] = req[c]
                 \/ i # n /\ i \in DOMAIN queue[path] /\ queue'[path][i] = queue[path][i]
      BY <2>2
    <3> QED  BY <2>1, <3>1
  <2>5. \A d \in Daemons : \A i \in DOMAIN queue'[d] : queue'[d][i] <= made
    BY <2>3, <2>4 DEF OwnRequests
  <2>6. ASSUME NEW d \in Daemons, NEW e \in Daemons, NEW i \in DOMAIN queue'[d], NEW j \in DOMAIN queue'[e],
               queue'[d][i] = queue'[e][j]
        PROVE  d = e /\ i = j
    BY <2>3, <2>4, <2>6 DEF Queues
  <2>7. \A d \in Daemons : dstate'[d] = "serve" => queue'[d] # <<>>
    <3>1. queue'[path] # <<>>
      <4>1. n \in DOMAIN queue'[path]
        BY <2>2
      <4>2. DOMAIN <<>> = {}
        OBVIOUS
      <4> QED  BY <4>1, <4>2
    <3> QED  BY <2>1, <3>1 DEF Queues
  <2>8. Queues'
    BY <2>1, <2>5, <2>6, <2>7 DEF Queues
  <2>9. \A e \in Clients : cstate'[e] # "idle" => req[e] # 0
    BY <2>1 DEF OwnRequests
  <2>10. ASSUME NEW e \in Clients, NEW d \in Daemons, cstate'[e] \in {"first", "second"}, NEW i \in DOMAIN queue'[d]
         PROVE  queue'[d][i] # req[e]
    <3>1. e # c /\ cstate[e] \in {"first", "second"}
      BY <2>1, <2>10
    <3>2. req[e] # req[c]
      BY <2>1, <3>1 DEF OwnRequests
    <3> QED  BY <2>4, <3>1, <3>2 DEF OwnRequests
  <2>11. OwnRequests'
    BY <2>1, <2>9, <2>10 DEF OwnRequests
  <2> QED  BY <2>8, <2>11
<1> QED
  BY <1>1, <1>2, <1>3, <1>4, <1>5, <1>6 DEF DaemonNext, Serving, InRequest

LEMMA SocketStarts == DaemonInit => SocketInv
<1> SUFFICES ASSUME DaemonInit PROVE SocketInv
  OBVIOUS
<1>1. path \in Daemons \cup {NoFile}
  BY SocketAssumption DEF DaemonInit
<1>2. SocketTypes
  <2>1. \A d \in Daemons : <<>> \in Seq(Requests)
    OBVIOUS
  <2> QED  BY <1>1, <2>1, SocketAssumption DEF DaemonInit, SocketTypes, DaemonStates
<1>3. \A d \in Daemons : dstate[d] \in {"off", "gone"} /\ DOMAIN queue[d] = {}
  BY DEF DaemonInit
<1>4. Stale /\ Held
  BY <1>3 DEF Stale, Held, Named, Listening
<1>5. OwnRequests /\ Queues
  <2>1. made = 0 /\ \A c \in Clients : req[c] = 0 /\ cstate[c] = "idle"
    BY DEF DaemonInit
  <2> QED  BY <1>3, <2>1 DEF OwnRequests, Queues
<1> QED  BY <1>2, <1>4, <1>5 DEF SocketInv

(* The inductive invariant of the socket path: a daemon about to remove it    *)
(* removes nothing that listened when it looked, one that has bound the path   *)
(* still has it or was robbed of it, and each request is one client's and in   *)
(* at most one queue.                                                          *)
THEOREM SocketInvariant == DaemonSpec => []SocketInv
<1>1. SocketInv /\ DaemonNext => SocketInv'
  <2> SUFFICES ASSUME SocketInv, DaemonNext PROVE SocketInv'
    OBVIOUS
  <2>1. SocketTypes /\ Stale /\ Held /\ OwnRequests /\ Queues
    BY DEF SocketInv
  <2>2. SocketTypes'
    BY <2>1, SocketTypesKeep
  <2>3. Stale' /\ Held'
    BY <2>1, PathKeeps
  <2>4. OwnRequests' /\ Queues'
    BY <2>1, <2>2, QueuesKeep
  <2> QED  BY <2>2, <2>3, <2>4 DEF SocketInv
<1>2. SocketInv /\ UNCHANGED socketVars => SocketInv'
  BY DEF SocketInv, SocketTypes, Stale, Held, OwnRequests, Queues, Alive, socketVars
<1> QED  BY SocketStarts, <1>1, <1>2, PTL DEF DaemonSpec

(* Each connection is in at most one queue, once, whatever daemons die, hang, *)
(* or rob each other of the path.                                              *)
THEOREM SocketShape == DaemonSpec => []TypeOKDaemon
<1>1. SocketInv => TypeOKDaemon
  <2> SUFFICES ASSUME SocketInv PROVE TypeOKDaemon
    OBVIOUS
  <2>1. SocketTypes /\ Queues
    BY DEF SocketInv
  <2>2. \A d \in Daemons : IsInjective(queue[d])
    BY <2>1 DEF Queues, IsInjective
  <2>3. \A d \in Daemons : Range(queue[d]) \subseteq Requests
    <3>1. \A d \in Daemons : queue[d] \in Seq(Requests)
      BY <2>1 DEF SocketTypes
    <3>2. \A d \in Daemons : \A i \in DOMAIN queue[d] : queue[d][i] \in Requests
      BY <3>1
    <3> QED  BY <3>2 DEF Range
  <2>4. \A d, e \in Daemons : d # e => Range(queue[d]) \cap Range(queue[e]) = {}
    BY <2>1 DEF Queues, Range
  <2> QED  BY <2>1, <2>2, <2>3, <2>4 DEF TypeOKDaemon, SocketTypes, DaemonStates
<1> QED  BY SocketInvariant, <1>1, PTL

(* For any number of daemons, of which any may die or hang: a listening       *)
(* daemon's socket is removed by a starting one only if it was not listening   *)
(* yet at that one's probe, and by one that shuts down only if that one had    *)
(* lost its own (serve in daemon_unix.rs).                                     *)
THEOREM StealingIsRacing == DaemonSpec => StealsOnlyRacing
<1> DEFINE Robs == \A d \in Daemons :
          /\ RemoveStale(d) /\ Alive(path) => path \in after[d]
          /\ Halt(d) /\ path # d /\ Alive(path) => d \in lost
<1>1. SocketInv => Robs
  <2> SUFFICES ASSUME SocketInv, NEW d \in Daemons
               PROVE  /\ RemoveStale(d) /\ Alive(path) => path \in after[d]
                      /\ Halt(d) /\ path # d /\ Alive(path) => d \in lost
    OBVIOUS
  <2>1. RemoveStale(d) => dstate[d] = "remove"
    BY DEF RemoveStale
  <2>2. Halt(d) => dstate[d] \in Named
    BY DEF Halt, Named, Listening
  <2> QED  BY <2>1, <2>2 DEF SocketInv, Stale, Held
<1> QED  BY SocketInvariant, <1>1, PTL DEF StealsOnlyRacing

=============================================================================
