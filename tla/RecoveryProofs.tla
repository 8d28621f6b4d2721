----------------------------- MODULE RecoveryProofs -----------------------------
(***************************************************************************)
(* Theorems about how a device comes back: RuntimeSupervisor, for any       *)
(* callers, tasks, jobs and faults, and AuthRecovery, for any devices and   *)
(* any budget.                                                             *)
(***************************************************************************)
EXTENDS RuntimeSupervisor, AuthRecovery, FiniteSetTheorems,
        SequenceTheorems, WellFoundedInduction, TLAPS

---------------------------------------------------------------------------
(* The supervisor.                                                         *)

\* The supervisor holds the only loop there is.
OwnerInv == \A t \in Tasks : Alive(t) => t = task

\* One rebuild job at most is under way; the supervisor knows it, and no loop runs
\* meanwhile, so that it never has to await one.
JobInv == \A j \in Jobs : pc[j] # "idle" => j = job /\ pc[j] # "task" /\ ~is_running

\* Who awaits a job in stop() awaits the one under way, and that one is in its own stop().
AwaitInv ==
    \A a \in Actors : pc[a] = "rebuild" =>
        /\ awaits[a] \in Jobs
        /\ JobPending => awaits[a] = job /\ pc[job] = "rebuild"

\* Who awaits a loop is a caller; nothing rebuilds meanwhile, and a loop that is still
\* there is the one awaited, on its way out.
ReapInv ==
    \A a \in Actors : pc[a] = "task" =>
        /\ a \in Callers /\ awaits[a] \in Tasks /\ ~JobPending
        /\ is_running => loop[task] = "leaving" /\ awaits[a] = task

LeavingInv ==
    \A t \in Tasks : loop[t] = "leaving" =>
        \E c \in Callers : pc[c] = "task" /\ awaits[c] = t

\* After a command to stop, a caller still has in hand what runs or will run.
OffInv ==
    wish = "off" =>
        /\ is_running => \E c \in Callers : pc[c] = "rebuild" \/ pc[c] = "task"
        /\ JobPending => pc[job] = "rebuild" /\ \E c \in Callers : pc[c] = "rebuild"

\* After a command to start no stop() is left, and the loop runs or is about to, unless
\* the supervisor gave up.
OnInv ==
    wish = "on" =>
        /\ \A c \in Callers : pc[c] = "idle"
        /\ gaveUp = "no" => is_running \/ JobPending
        /\ stopping => \/ JobPending /\ pc[job] = "rebuild"
                       \/ ~JobPending /\ ~is_running /\ gaveUp # "no"

CommandInv == OwnerInv /\ JobInv /\ AwaitInv /\ ReapInv /\ LeavingInv /\ OffInv /\ OnInv

IInv == TypeOK /\ (crossed \/ CommandInv)

-----------------------------------------------------------------------------
(* Types.                                                                   *)

\* What the methods of the supervisor work on; the rest of TypeOK is history.
MethodsOK ==
    /\ task \in Tasks \cup {None} /\ job \in Jobs \cup {None}
    /\ stopping \in BOOLEAN
    /\ rebuilds \in 0..MAX_REBUILDS
    /\ loop \in [Tasks -> {"none", "running", "leaving"}]
    /\ pc \in [Actors -> {"idle", "delay", "new", "rebuild", "task"}]
    /\ \A c \in Callers : pc[c] \notin {"delay", "new"}
    /\ awaits \in [Actors -> Jobs \cup Tasks \cup {None}]
    /\ gaveUp \in {"no", "budget", "resources"}

LEMMA Apart ==
    /\ None \notin Tasks /\ None \notin Jobs /\ None \notin Callers
    /\ \A c \in Callers : c \notin Jobs /\ c \in Actors
    /\ \A j \in Jobs : j \notin Callers /\ j \in Actors
    /\ \A t \in Tasks : t \notin Actors
    /\ MAX_REBUILDS \in Nat
BY SupervisorAssumption DEF Callers, Actors

LEMMA SpawnType ==
    ASSUME TypeOK, Spawn
    PROVE  /\ task' \in Tasks /\ gaveUp' = "no"
           /\ loop' \in [Tasks -> {"none", "running", "leaving"}]
BY DEF TypeOK, Spawn

LEMMA FinishedType ==
    ASSUME TypeOK, NEW a \in Actors, Finished(a)
    PROVE  /\ pc' \in [Actors -> {"idle", "delay", "new", "rebuild", "task"}]
           /\ \A c \in Callers : pc'[c] \notin {"delay", "new"}
           /\ awaits' \in [Actors -> Jobs \cup Tasks \cup {None}]
BY Apart DEF TypeOK, Finished

LEMMA StopReturnsType ==
    ASSUME TypeOK, NEW a \in Actors, NEW flag \in BOOLEAN, StopReturns(a, flag),
           job' \in Jobs \cup {None}
    PROVE  MethodsOK'
<1>1. Finished(a)
  BY DEF StopReturns, Stopped, Rebuilt, RebuildFails
<1>2. CASE Rebuilt(a)
  <2>1. rebuilds' = 0 /\ stopping' = FALSE /\ Spawn
    BY <1>2 DEF Rebuilt
  <2>2. rebuilds' \in 0..MAX_REBUILDS
    BY <2>1, Apart
  <2> QED
    BY <1>1, <2>1, <2>2, FinishedType, SpawnType DEF MethodsOK
<1>3. CASE Stopped(a, flag) \/ RebuildFails(a, flag)
  BY <1>1, <1>3, FinishedType DEF Stopped, RebuildFails, MethodsOK, TypeOK
<1> QED
  BY <1>2, <1>3 DEF StopReturns

LEMMA ReapType ==
    ASSUME TypeOK, NEW a \in Actors, NEW flag \in BOOLEAN, Reap(a, flag),
           job' \in Jobs \cup {None}
    PROVE  MethodsOK'
<1>1. CASE ~is_running
  BY <1>1, StopReturnsType DEF Reap
<1>2. CASE is_running
  <2>1. task \in Tasks
    BY <1>2 DEF is_running, TypeOK
  <2> QED
    BY <1>2, <2>1, Apart DEF Reap, TypeOK, MethodsOK
<1> QED
  BY <1>1, <1>2

LEMMA StopType ==
    ASSUME TypeOK, NEW a \in Actors, Stop(a)
    PROVE  MethodsOK'
<1>1. CASE ~JobPending
  BY <1>1, ReapType DEF Stop, TypeOK
<1>2. CASE JobPending
  <2>1. job \in Jobs /\ job \in Actors
    BY <1>2, Apart DEF JobPending, TypeOK
  <2>2. /\ pc' = [pc EXCEPT ![job] = IF @ \in {"delay", "new"} THEN "idle" ELSE @,
                           ![a] = "rebuild"]
        /\ awaits' = [awaits EXCEPT ![a] = job] /\ stopping' = TRUE
        /\ UNCHANGED <<task, rebuilds, job, loop, gaveUp>>
    BY <1>2 DEF Stop
  <2>3. \A c \in Callers : pc'[c] \in {pc[c], "rebuild"}
    BY <2>1, <2>2, Apart DEF TypeOK
  <2> QED
    BY <2>1, <2>2, <2>3 DEF TypeOK, MethodsOK
<1> QED
  BY <1>1, <1>2

LEMMA ScheduleType ==
    ASSUME TypeOK, ScheduleRebuild
    PROVE  /\ rebuilds' \in 0..MAX_REBUILDS /\ job' \in Jobs \cup {None}
           /\ pc' \in [Actors -> {"idle", "delay", "new", "rebuild", "task"}]
           /\ \A c \in Callers : pc'[c] \notin {"delay", "new"}
           /\ gaveUp' \in {"no", "budget", "resources"}
<1>1. CASE rebuilds >= MAX_REBUILDS
  BY <1>1 DEF ScheduleRebuild, TypeOK
<1>2. CASE ~(rebuilds >= MAX_REBUILDS)
  <2>1. rebuilds' = rebuilds + 1 /\ gaveUp' = gaveUp
    BY <1>2 DEF ScheduleRebuild
  <2>2. PICK j \in Jobs : job' = j /\ pc' = [pc EXCEPT ![j] = "delay"]
    BY <1>2 DEF ScheduleRebuild
  <2>3. rebuilds' \in 0..MAX_REBUILDS
    BY <1>2, <2>1, Apart DEF TypeOK
  <2> QED
    BY <2>1, <2>2, <2>3, Apart DEF TypeOK
<1> QED
  BY <1>1, <1>2

LEMMA TypeStep == TypeOK /\ [Next]_vars => TypeOK'
<1> SUFFICES ASSUME TypeOK, [Next]_vars PROVE TypeOK'
  OBVIOUS
<1>a. ASSUME MethodsOK', wish' \in {"on", "off"}, crossed' \in BOOLEAN PROVE TypeOK'
  BY <1>a DEF MethodsOK, TypeOK
<1>b. MethodsOK /\ wish \in {"on", "off"} /\ crossed \in BOOLEAN /\ stopping \in BOOLEAN
  BY DEF MethodsOK, TypeOK
<1>1. CASE EnableByHttp \/ EnableByMqtt
  <2>1. wish' = "on" /\ crossed' \in BOOLEAN
    BY <1>1, <1>b DEF EnableByHttp, EnableByMqtt, Crossing, Quiet
  <2>2. Start \/ UNCHANGED <<task, stopping, rebuilds, job, loop, pc, awaits, gaveUp>>
    BY <1>1 DEF EnableByHttp, EnableByMqtt
  <2>3. MethodsOK'
    BY <1>b, <2>2, SpawnType DEF Start, MethodsOK
  <2> QED
    BY <1>a, <2>1, <2>3
<1>2. ASSUME NEW c \in Callers, DisableByHttp(c) \/ DisableByMqtt(c) PROVE TypeOK'
  <2>1. Stop(c) /\ c \in Actors /\ wish' = "off" /\ crossed' = crossed
    BY <1>2, Apart DEF DisableByHttp, DisableByMqtt
  <2> QED
    BY <1>a, <1>b, <2>1, StopType
<1>3. ASSUME NEW t \in Tasks, Exit(t) PROVE TypeOK'
  <2>1. /\ loop' = [loop EXCEPT ![t] = "none"] /\ OnError
        /\ crossed' = (crossed \/ (loop[t] = "leaving" /\ ~stopping))
        /\ UNCHANGED <<task, stopping, awaits, wish>>
    BY <1>3 DEF Exit
  <2>2. MethodsOK'
    BY <1>b, <2>1, ScheduleType DEF OnError, MethodsOK
  <2> QED
    BY <1>a, <1>b, <2>1, <2>2
<1>4. ASSUME NEW t \in Tasks, Stuck(t) PROVE TypeOK'
  <2>1. /\ loop' = [loop EXCEPT ![t] = "none"]
        /\ UNCHANGED <<task, stopping, rebuilds, awaits, wish, gaveUp, crossed>>
    BY <1>4 DEF Stuck
  <2>2. \/ UNCHANGED <<job, pc>>
        \/ \E j \in Jobs : job' = j /\ pc' = [pc EXCEPT ![j] = "new"]
    BY <1>4 DEF Stuck
  <2>3. /\ job' \in Jobs \cup {None}
        /\ pc' \in [Actors -> {"idle", "delay", "new", "rebuild", "task"}]
        /\ \A c \in Callers : pc'[c] \notin {"delay", "new"}
    BY <2>2, Apart DEF TypeOK
  <2>4. MethodsOK'
    BY <1>b, <2>1, <2>3 DEF MethodsOK
  <2> QED
    BY <1>a, <1>b, <2>1, <2>4
<1>5. ASSUME NEW t \in Tasks, Leave(t) PROVE TypeOK'
  BY <1>5 DEF Leave, TypeOK
<1>6. ASSUME NEW a \in Actors, AfterJob(a) PROVE TypeOK'
  <2>1. job' = None /\ Reap(a, stopping) /\ UNCHANGED <<wish, crossed>>
    BY <1>6 DEF AfterJob
  <2> QED
    BY <1>a, <1>b, <2>1, ReapType
<1>7. ASSUME NEW a \in Actors, AfterTask(a) PROVE TypeOK'
  <2>1. StopReturns(a, stopping) /\ UNCHANGED <<job, wish, crossed>>
    BY <1>7 DEF AfterTask
  <2> QED
    BY <1>a, <1>b, <2>1, StopReturnsType DEF MethodsOK
<1>8. ASSUME NEW j \in Jobs, DoRebuild(j) PROVE TypeOK'
  <2>1. Stop(j) /\ j \in Actors /\ UNCHANGED <<wish, crossed>>
    BY <1>8, Apart DEF DoRebuild
  <2> QED
    BY <1>a, <1>b, <2>1, StopType
<1>9. ASSUME NEW j \in Jobs, RebuildAfter(j) PROVE TypeOK'
  <2>0. j \in Actors /\ UNCHANGED <<stopping, wish, crossed>>
    BY <1>9, Apart DEF RebuildAfter
  <2>1. CASE Finished(j) /\ UNCHANGED <<rebuilds, job>> /\ (Spawn \/ UNCHANGED <<task, loop, gaveUp>>)
    BY <1>a, <1>b, <2>0, <2>1, FinishedType, SpawnType DEF MethodsOK
  <2>2. CASE HooksFail(j) /\ UNCHANGED <<task, loop>>
    <3>1. CASE Finished(j) /\ gaveUp' = "budget" /\ UNCHANGED <<rebuilds, job>>
      BY <1>a, <1>b, <2>0, <2>2, <3>1, FinishedType DEF MethodsOK
    <3>2. CASE /\ rebuilds < MAX_REBUILDS /\ rebuilds' = rebuilds + 1
               /\ \E k \in Jobs : job' = k /\ pc' = [pc EXCEPT ![j] = "idle", ![k] = "delay"]
               /\ UNCHANGED <<gaveUp, awaits>>
      <4>1. rebuilds' \in 0..MAX_REBUILDS
        BY <3>2, Apart DEF TypeOK
      <4>2. /\ job' \in Jobs
            /\ pc' \in [Actors -> {"idle", "delay", "new", "rebuild", "task"}]
            /\ \A c \in Callers : pc'[c] \notin {"delay", "new"}
        BY <3>2, Apart DEF TypeOK
      <4> QED
        BY <1>a, <1>b, <2>0, <2>2, <3>2, <4>1, <4>2 DEF MethodsOK
    <3> QED
      BY <2>2, <3>1, <3>2 DEF HooksFail
  <2> QED
    BY <1>9, <2>1, <2>2 DEF RebuildAfter
<1>10. CASE UNCHANGED vars
  BY <1>10 DEF vars, TypeOK
<1> QED
  BY <1>1, <1>2, <1>3, <1>4, <1>5, <1>6, <1>7, <1>8, <1>9, <1>10
     DEF Next, Command, Failure, Progress, JobStep

-----------------------------------------------------------------------------
(* What the invariant excludes.                                             *)

LEMMA Pending ==
    ASSUME TypeOK, JobInv
    PROVE  /\ JobPending => job \in Jobs /\ job \in Actors /\ ~is_running
           /\ \A j \in Jobs : pc[j] # "idle" => j = job /\ JobPending
BY Apart DEF TypeOK, JobInv, JobPending

\* Nothing fails but a loop that nobody stops.
LEMMA Undisturbed ==
    ASSUME TypeOK, CommandInv, Polled, NEW t \in Tasks, loop[t] = "running"
    PROVE  Quiet /\ t = task /\ wish = "on" /\ ~stopping /\ ~JobPending
<1>1. t = task /\ is_running
  BY Apart DEF CommandInv, OwnerInv, Alive, is_running
<1>2. ~JobPending /\ \A j \in Jobs : pc[j] = "idle"
  BY <1>1, Pending DEF CommandInv
<1>3. ASSUME NEW a \in Actors, pc[a] = "rebuild" PROVE FALSE
  BY <1>2, <1>3 DEF CommandInv, AwaitInv, Polled, Ready, JobGone
<1>4. ASSUME NEW a \in Actors, pc[a] = "task" PROVE FALSE
  BY <1>1, <1>4 DEF CommandInv, ReapInv
<1>5. Quiet
  BY <1>2, <1>3, <1>4 DEF Quiet, TypeOK, Actors
<1>6. wish = "on"
  BY <1>1, <1>5, Apart DEF CommandInv, OffInv, Quiet, TypeOK
<1> QED
  BY <1>1, <1>2, <1>5, <1>6 DEF CommandInv, OnInv

-----------------------------------------------------------------------------
(* The steps.                                                               *)

LEMMA Spawned ==
    ASSUME TypeOK, Spawn, \A t \in Tasks : ~Alive(t)
    PROVE  /\ is_running' /\ OwnerInv' /\ \A t \in Tasks : loop'[t] # "leaving"
           /\ \A a \in Actors : awaits[a] # task'
<1>1. PICK t \in Tasks :
        NewTask(t) /\ task' = t /\ loop' = [loop EXCEPT ![t] = "running"]
  BY DEF Spawn
<1>2. \A u \in Tasks : loop'[u] = IF u = t THEN "running" ELSE "none"
  BY <1>1 DEF TypeOK, Alive
<1> QED
  BY <1>1, <1>2, Apart DEF NewTask, is_running, Alive, OwnerInv

LEMMA NobodyRuns ==
    ASSUME TypeOK, OwnerInv
    PROVE  ~is_running => \A t \in Tasks : ~Alive(t)
BY Apart DEF OwnerInv, is_running

LEMMA EnableStep ==
    ASSUME TypeOK, CommandInv, EnableByHttp \/ EnableByMqtt, ~crossed'
    PROVE  CommandInv'
<1>1. Quiet /\ wish' = "on"
  BY DEF EnableByHttp, EnableByMqtt, Crossing
<1>2. UNCHANGED <<rebuilds, job, pc, awaits>>
  BY DEF EnableByHttp, EnableByMqtt, Start
<1>3. \A a \in Actors : pc[a] = "idle" /\ pc'[a] = "idle"
  BY <1>1, <1>2 DEF Quiet
<1>4. ~JobPending /\ ~JobPending'
  BY <1>2, <1>3, Apart DEF JobPending, TypeOK
<1>5. JobInv' /\ AwaitInv' /\ ReapInv' /\ OffInv'
  BY <1>1, <1>3, Apart DEF JobInv, AwaitInv, ReapInv, OffInv
<1>6. OwnerInv' /\ LeavingInv' /\ is_running' /\ ~stopping'
  <2>1. CASE is_running
    <3>1. UNCHANGED <<task, loop>>
      BY <2>1 DEF EnableByHttp, EnableByMqtt, Start
    <3>2. ~stopping
      BY <1>3, <1>4, <2>1, Apart DEF CommandInv, OnInv, OffInv, TypeOK
    <3>3. ~stopping'
      BY <2>1, <3>2 DEF EnableByHttp, EnableByMqtt, Start
    <3>4. is_running'
      BY <2>1, <3>1 DEF is_running, Alive
    <3> QED
      BY <1>2, <3>1, <3>3, <3>4 DEF CommandInv, OwnerInv, LeavingInv, Alive
  <2>2. CASE ~is_running
    <3>1. Spawn /\ ~stopping'
      BY <2>2 DEF EnableByHttp, EnableByMqtt, Start
    <3> QED
      BY <2>2, <3>1, Spawned, NobodyRuns DEF CommandInv, LeavingInv
  <2> QED
    BY <2>1, <2>2
<1>7. OnInv'
  BY <1>3, <1>6, Apart DEF OnInv
<1> QED
  BY <1>5, <1>6, <1>7 DEF CommandInv

\* stop() returns to a caller that found nothing to await, or awaited it.
LEMMA CallerStopped ==
    ASSUME TypeOK, CommandInv, NEW c \in Callers, NEW flag, Stopped(c, flag), ~is_running,
           \A j \in Jobs : pc[j] = "idle", job' \in {job, None}, wish' = "off"
    PROVE  CommandInv'
<1>1. /\ task' = None /\ loop' = loop
      /\ pc' = [pc EXCEPT ![c] = "idle"] /\ awaits' = [awaits EXCEPT ![c] = None]
  BY DEF Stopped, Finished
<1>2. \A t \in Tasks : ~Alive(t) /\ ~Alive(t)' /\ loop'[t] # "leaving"
  BY <1>1, NobodyRuns DEF CommandInv, Alive
<1>3. ~is_running'
  BY <1>1 DEF is_running
<1>4. \A j \in Jobs : pc'[j] = "idle"
  BY <1>1, Apart DEF TypeOK
<1>5. ~JobPending'
  BY <1>4 DEF JobPending, TypeOK
<1>6. AwaitInv' /\ ReapInv'
  BY <1>1, <1>3, <1>5, Apart DEF CommandInv, AwaitInv, ReapInv, TypeOK
<1> QED
  BY <1>2, <1>3, <1>4, <1>5, <1>6 DEF CommandInv, OwnerInv, JobInv, LeavingInv, OffInv, OnInv

\* stop() of a caller, from where no rebuild job is left.
LEMMA CallerReaps ==
    ASSUME TypeOK, CommandInv, NEW c \in Callers, NEW flag, Reap(c, flag),
           pc[c] # "task", \A j \in Jobs : pc[j] = "idle", job' \in {job, None}, wish' = "off"
    PROVE  CommandInv'
<1>1. CASE ~is_running
  BY <1>1, CallerStopped DEF Reap, StopReturns
<1>2. CASE is_running
  <2>1. /\ task' = task /\ task \in Tasks /\ loop' = [loop EXCEPT ![task] = "leaving"]
        /\ pc' = [pc EXCEPT ![c] = "task"] /\ awaits' = [awaits EXCEPT ![c] = task]
    BY <1>2 DEF Reap, is_running, TypeOK
  <2>2. \A t \in Tasks : Alive(t)' => t = task
    BY <2>1 DEF CommandInv, OwnerInv, Alive, TypeOK
  <2>3. loop'[task] = "leaving" /\ pc'[c] = "task" /\ awaits'[c] = task
    BY <2>1, Apart DEF TypeOK
  <2>4. \A j \in Jobs : pc'[j] = "idle"
    BY <2>1, Apart DEF TypeOK
  <2>5. ~JobPending'
    BY <2>4 DEF JobPending, TypeOK
  <2>6. AwaitInv'
    BY <2>1, <2>5, Apart DEF CommandInv, AwaitInv, TypeOK
  <2>7. ReapInv'
    BY <1>2, <2>1, <2>3, <2>5, Apart DEF CommandInv, ReapInv, TypeOK
  <2>8. LeavingInv'
    BY <2>1, <2>2, <2>3 DEF LeavingInv, Alive
  <2> QED
    BY <2>1, <2>2, <2>3, <2>4, <2>5, <2>6, <2>7, <2>8
       DEF CommandInv, OwnerInv, JobInv, OffInv, OnInv
<1> QED
  BY <1>1, <1>2

LEMMA DisableStep ==
    ASSUME TypeOK, CommandInv, NEW c \in Callers, pc[c] = "idle", Stop(c), wish' = "off"
    PROVE  CommandInv'
<1>1. CASE ~JobPending
  BY <1>1, CallerReaps, Pending DEF Stop, CommandInv
<1>2. CASE JobPending
  <2>1. /\ pc' = [pc EXCEPT ![job] = IF @ \in {"delay", "new"} THEN "idle" ELSE @,
                           ![c] = "rebuild"]
        /\ awaits' = [awaits EXCEPT ![c] = job]
        /\ UNCHANGED <<task, job, loop>>
    BY <1>2 DEF Stop
  <2>2. job \in Jobs /\ job \in Actors /\ job # c /\ ~is_running
    BY <1>2, Pending, Apart DEF CommandInv
  <2>3. /\ pc'[c] = "rebuild" /\ awaits'[c] = job
        /\ \A a \in Actors : a # c => awaits'[a] = awaits[a]
        /\ pc'[job] = IF pc[job] \in {"delay", "new"} THEN "idle" ELSE pc[job]
        /\ \A a \in Actors : a # c /\ a # job => pc'[a] = pc[a]
    BY <2>1, <2>2, Apart DEF TypeOK
  <2>4. ~is_running' /\ OwnerInv' /\ (JobPending' => pc[job] = "rebuild" /\ pc'[job] = "rebuild")
    BY <1>2, <2>1, <2>2, <2>3 DEF is_running, Alive, CommandInv, OwnerInv, JobPending, TypeOK, JobInv
  <2>5. JobInv'
    BY <2>1, <2>2, <2>3, <2>4, Apart DEF CommandInv, JobInv
  <2>6. \A a \in Actors : pc[a] # "task"
    BY <1>2 DEF CommandInv, ReapInv
  <2>7. \A a \in Actors : pc'[a] # "task"
    BY <2>3, <2>6
  <2>8. AwaitInv'
    BY <1>2, <2>1, <2>2, <2>3, <2>4 DEF CommandInv, AwaitInv
  <2>9. LeavingInv'
    BY <2>1, <2>2, NobodyRuns DEF CommandInv, LeavingInv, Alive
  <2> QED
    BY <2>1, <2>3, <2>4, <2>5, <2>7, <2>8, <2>9 DEF CommandInv, ReapInv, OffInv, OnInv
<1> QED
  BY <1>1, <1>2

LEMMA AfterTaskStep ==
    ASSUME TypeOK, CommandInv, NEW a \in Actors, AfterTask(a)
    PROVE  CommandInv'
<1>1. a \in Callers /\ ~is_running /\ ~JobPending
  BY DEF AfterTask, CommandInv, ReapInv, is_running, Alive
<1>2. wish' = "off"
  BY <1>1 DEF AfterTask, CommandInv, OnInv, TypeOK
<1>3. Stopped(a, stopping) /\ job' = job
  BY <1>1 DEF AfterTask, StopReturns
<1> QED
  BY <1>1, <1>2, <1>3, Pending, CallerStopped DEF CommandInv

\* A rebuild job that starts the loop, or gives up.
LEMMA JobEnds ==
    ASSUME TypeOK, CommandInv, NEW j \in Jobs, pc[j] # "idle", Finished(j), wish' = wish,
           job' \in {None, job},
           \/ Spawn /\ ~stopping'
           \/ task' \in {None, task} /\ loop' = loop /\ gaveUp' # "no",
           wish = "off" => \E c \in Callers : pc[c] = "rebuild"
    PROVE  CommandInv'
<1>1. j = job /\ JobPending /\ ~is_running
  BY Pending DEF CommandInv
<1>2. pc' = [pc EXCEPT ![j] = "idle"] /\ awaits' = [awaits EXCEPT ![j] = None]
  BY DEF Finished
<1>3. /\ \A k \in Jobs : pc'[k] = "idle"
      /\ \A c \in Callers : pc'[c] = pc[c] /\ awaits'[c] = awaits[c]
  BY <1>1, <1>2, Pending, Apart DEF CommandInv, TypeOK
<1>4. ~JobPending'
  BY <1>1, <1>3 DEF JobPending, TypeOK
<1>5. \A a \in Actors : pc'[a] # "task"
  BY <1>1, <1>2 DEF CommandInv, ReapInv, TypeOK
<1>6. AwaitInv' /\ ReapInv' /\ JobInv'
  BY <1>1, <1>2, <1>3, <1>4, <1>5 DEF CommandInv, AwaitInv, ReapInv, JobInv, Actors
<1>7. \A t \in Tasks : ~Alive(t)
  BY <1>1, NobodyRuns DEF CommandInv
<1>8. OwnerInv' /\ LeavingInv' /\ (is_running' => ~stopping') /\ (is_running' \/ gaveUp' # "no")
  <2>1. CASE Spawn /\ ~stopping'
    BY <1>7, <2>1, Spawned DEF LeavingInv
  <2>2. CASE task' \in {None, task} /\ loop' = loop /\ gaveUp' # "no"
    BY <1>7, <2>2 DEF LeavingInv, OwnerInv, is_running, Alive, TypeOK
  <2> QED
    BY <2>1, <2>2
<1>9. OffInv'
  BY <1>3, <1>4 DEF OffInv
<1>10. OnInv'
  <2>1. CASE Spawn /\ ~stopping'
    BY <1>3, <1>7, <2>1, Spawned DEF CommandInv, OnInv
  <2>2. CASE task' \in {None, task} /\ loop' = loop /\ gaveUp' # "no"
    <3>1. ~is_running'
      BY <1>7, <2>2 DEF is_running, Alive, TypeOK
    <3> QED
      BY <1>3, <1>4, <2>2, <3>1 DEF CommandInv, OnInv
  <2> QED
    BY <2>1, <2>2
<1> QED
  BY <1>6, <1>8, <1>9, <1>10 DEF CommandInv

LEMMA AfterJobStep ==
    ASSUME TypeOK, CommandInv, NEW a \in Actors, AfterJob(a)
    PROVE  CommandInv'
<1>1. pc[a] = "rebuild" /\ job' = None /\ Reap(a, stopping) /\ UNCHANGED <<wish, crossed>>
  BY DEF AfterJob
<1>2. CASE a \in Callers
  <2>1. wish' = "off"
    BY <1>1, <1>2 DEF CommandInv, OnInv, TypeOK
  <2>2. ASSUME NEW j \in Jobs, pc[j] # "idle" PROVE FALSE
    <3>1. j = job /\ JobPending
      BY <2>2, Pending DEF CommandInv
    <3>2. awaits[a] = j
      BY <1>1, <3>1 DEF CommandInv, AwaitInv
    <3> QED
      BY <1>2, <2>2, <3>2, Apart DEF AfterJob, JobGone
  <2> QED
    BY <1>1, <1>2, <2>1, <2>2, CallerReaps
<1>3. CASE a \in Jobs
  <2>1. a = job /\ JobPending /\ ~is_running /\ a \notin Callers
    BY <1>1, <1>3, Pending, Apart DEF CommandInv
  <2>2. Rebuilt(a) \/ RebuildFails(a, stopping)
    BY <1>1, <2>1 DEF Reap, StopReturns
  <2>3. wish = "off" => \E c \in Callers : pc[c] = "rebuild"
    BY <2>1 DEF CommandInv, OffInv
  <2>4. /\ Finished(a)
        /\ \/ Spawn /\ ~stopping'
           \/ task' \in {None, task} /\ loop' = loop /\ gaveUp' # "no"
    BY <2>2 DEF Rebuilt, RebuildFails
  <2> QED
    BY <1>1, <1>3, <2>3, <2>4, JobEnds
<1> QED
  BY <1>2, <1>3 DEF Actors

LEMMA DoRebuildStep ==
    ASSUME TypeOK, CommandInv, NEW j \in Jobs, DoRebuild(j)
    PROVE  CommandInv'
<1>1. pc[j] = "new" /\ Stop(j) /\ UNCHANGED <<wish, crossed>>
  BY DEF DoRebuild
<1>2. j = job /\ JobPending /\ ~is_running /\ j \in Actors /\ j # None
  BY <1>1, Pending, Apart DEF CommandInv
<1>3. /\ pc' = [pc EXCEPT ![j] = "rebuild"] /\ awaits' = [awaits EXCEPT ![j] = j]
      /\ UNCHANGED <<task, job, loop, gaveUp>>
  BY <1>1, <1>2 DEF Stop, TypeOK
<1>4. pc'[j] = "rebuild" /\ awaits'[j] = j /\ JobPending' /\ ~is_running'
  BY <1>2, <1>3 DEF TypeOK, JobPending, is_running, Alive
<1>5. \A a \in Actors : pc[a] \notin {"rebuild", "task"}
  BY <1>1, <1>2 DEF CommandInv, AwaitInv, ReapInv
<1>6. wish = "on"
  BY <1>1, <1>2 DEF CommandInv, OffInv, TypeOK
<1>7. \A a \in Actors : a # j => pc'[a] = pc[a] /\ awaits'[a] = awaits[a]
  BY <1>3 DEF TypeOK
<1>8. OwnerInv' /\ LeavingInv'
  BY <1>2, <1>3, NobodyRuns DEF CommandInv, OwnerInv, LeavingInv, Alive
<1>9. JobInv' /\ AwaitInv' /\ ReapInv'
  BY <1>2, <1>3, <1>4, <1>5, <1>7, Apart DEF CommandInv, JobInv, AwaitInv, ReapInv
<1>10. OffInv' /\ OnInv'
  BY <1>1, <1>2, <1>3, <1>4, <1>6, <1>7, Apart DEF CommandInv, OnInv, OffInv
<1> QED
  BY <1>8, <1>9, <1>10 DEF CommandInv

\* A new job, where nothing else is going on.
LEMMA JobMade ==
    ASSUME TypeOK, \A t \in Tasks : loop'[t] = "none", task' = task, NEW j \in Jobs, job' = j,
           NEW p \in {"delay", "new"},
           \A a \in Actors : pc'[a] = IF a = j THEN p ELSE "idle",
           wish' = "on", ~stopping'
    PROVE  CommandInv'
<1>1. ~is_running' /\ JobPending' /\ pc'[j] = p
  BY Apart DEF is_running, Alive, JobPending, TypeOK
<1>2. OwnerInv' /\ LeavingInv'
  BY DEF OwnerInv, LeavingInv, Alive
<1>3. JobInv' /\ AwaitInv' /\ ReapInv'
  BY <1>1, Apart DEF JobInv, AwaitInv, ReapInv
<1>4. OffInv' /\ OnInv'
  BY <1>1, Apart DEF OffInv, OnInv
<1> QED
  BY <1>2, <1>3, <1>4 DEF CommandInv

LEMMA RebuildAfterStep ==
    ASSUME TypeOK, CommandInv, NEW j \in Jobs, RebuildAfter(j)
    PROVE  CommandInv'
<1>1. pc[j] = "delay" /\ j = job /\ JobPending /\ ~is_running
  BY Pending DEF CommandInv, RebuildAfter
<1>2. wish = "on" /\ ~stopping /\ UNCHANGED <<stopping, wish>>
  BY <1>1 DEF RebuildAfter, CommandInv, OffInv, OnInv, TypeOK
<1>3. CASE Spawn /\ Finished(j) /\ job' = job
  BY <1>1, <1>2, <1>3, JobEnds
<1>4. CASE HooksFail(j) /\ UNCHANGED <<task, loop>>
  <2>1. CASE gaveUp' = "budget" /\ Finished(j) /\ job' = job
    BY <1>1, <1>2, <1>4, <2>1, JobEnds
  <2>2. CASE \E k \in Jobs : /\ NewJob(k) /\ job' = k
                            /\ pc' = [pc EXCEPT ![j] = "idle", ![k] = "delay"]
    <3>1. PICK k \in Jobs : /\ NewJob(k) /\ job' = k
                            /\ pc' = [pc EXCEPT ![j] = "idle", ![k] = "delay"]
      BY <2>2
    <3>2. \A a \in Actors : pc[a] \notin {"rebuild", "task"}
      BY <1>1 DEF CommandInv, AwaitInv, ReapInv
    <3>3. \A a \in Actors : a # j => pc[a] = "idle"
      BY <1>1, <3>2, Pending DEF CommandInv, TypeOK, Actors
    <3>4. \A a \in Actors : pc'[a] = IF a = k THEN "delay" ELSE "idle"
      BY <3>1, <3>3, Apart DEF TypeOK
    <3>5. \A t \in Tasks : loop'[t] = "none"
      BY <1>1, <1>4, NobodyRuns DEF CommandInv, Alive
    <3> QED
      BY <1>2, <1>4, <3>1, <3>4, <3>5, JobMade
  <2> QED
    BY <1>4, <2>1, <2>2 DEF HooksFail
<1> QED
  BY <1>2, <1>3, <1>4 DEF RebuildAfter

\* A cancelled loop ends.
LEMMA LoopLeaves ==
    ASSUME TypeOK, CommandInv, NEW t \in Tasks, loop[t] = "leaving",
           loop' = [loop EXCEPT ![t] = "none"],
           UNCHANGED <<task, job, pc, awaits, wish>>
    PROVE  CommandInv'
<1>1. PICK c \in Callers : pc[c] = "task" /\ awaits[c] = t
  BY DEF CommandInv, LeavingInv
<1>2. ~JobPending /\ wish = "off"
  BY <1>1, Apart DEF CommandInv, ReapInv, OnInv, TypeOK
<1>3. \A u \in Tasks : loop'[u] = "none"
  BY DEF CommandInv, OwnerInv, Alive, TypeOK
<1>4. ~is_running' /\ ~JobPending'
  BY <1>2, <1>3 DEF is_running, Alive, JobPending, TypeOK
<1>5. OwnerInv' /\ LeavingInv'
  BY <1>3 DEF OwnerInv, LeavingInv, Alive
<1>6. JobInv' /\ AwaitInv' /\ ReapInv'
  BY <1>2, <1>4, Pending DEF CommandInv, JobInv, AwaitInv, ReapInv
<1>7. OffInv' /\ OnInv'
  BY <1>2, <1>4 DEF OffInv, OnInv
<1> QED
  BY <1>5, <1>6, <1>7 DEF CommandInv

LEMMA ExitStep ==
    ASSUME TypeOK, CommandInv, NEW t \in Tasks, Exit(t), ~crossed'
    PROVE  CommandInv'
<1>1. /\ Polled /\ loop[t] \in {"running", "leaving"}
      /\ loop' = [loop EXCEPT ![t] = "none"] /\ OnError
      /\ (loop[t] = "leaving" => stopping)
      /\ UNCHANGED <<task, stopping, awaits, wish>>
  BY DEF Exit, TypeOK
<1>2. CASE loop[t] = "leaving"
  BY <1>1, <1>2, LoopLeaves DEF OnError
<1>3. CASE loop[t] = "running"
  <2>1. Quiet /\ t = task /\ wish = "on" /\ ~stopping /\ ~JobPending
    BY <1>1, <1>3, Undisturbed
  <2>2. \A u \in Tasks : loop'[u] = "none"
    BY <1>1, <2>1 DEF CommandInv, OwnerInv, Alive, TypeOK
  <2>3. CASE gaveUp' = "budget" /\ UNCHANGED <<job, pc>>
    <3>1. ~is_running' /\ ~JobPending'
      BY <1>1, <2>1, <2>2, <2>3 DEF is_running, Alive, JobPending, TypeOK
    <3>2. \A a \in Actors : pc'[a] = "idle"
      BY <2>1, <2>3 DEF Quiet
    <3>3. OwnerInv' /\ LeavingInv'
      BY <2>2 DEF OwnerInv, LeavingInv, Alive
    <3>4. JobInv' /\ AwaitInv' /\ ReapInv'
      BY <3>2, Apart DEF JobInv, AwaitInv, ReapInv
    <3>5. OffInv' /\ OnInv'
      BY <1>1, <2>1, <2>3, <3>1, <3>2, Apart DEF OffInv, OnInv
    <3> QED
      BY <3>3, <3>4, <3>5 DEF CommandInv
  <2>4. CASE \E j \in Jobs : job' = j /\ pc' = [pc EXCEPT ![j] = "delay"]
    <3>1. PICK j \in Jobs : job' = j /\ pc' = [pc EXCEPT ![j] = "delay"]
      BY <2>4
    <3>2. \A a \in Actors : pc'[a] = IF a = j THEN "delay" ELSE "idle"
      BY <2>1, <3>1 DEF Quiet, TypeOK
    <3> QED
      BY <1>1, <2>1, <2>2, <3>1, <3>2, JobMade
  <2> QED
    BY <1>1, <2>1, <2>3, <2>4 DEF OnError, ScheduleRebuild
<1> QED
  BY <1>1, <1>2, <1>3

LEMMA StuckStep ==
    ASSUME TypeOK, CommandInv, NEW t \in Tasks, Stuck(t)
    PROVE  CommandInv'
<1>1. Polled /\ loop[t] = "running" /\ loop' = [loop EXCEPT ![t] = "none"]
  BY DEF Stuck
<1>2. Quiet /\ t = task /\ wish = "on" /\ ~stopping /\ ~JobPending
  BY <1>1, Undisturbed
<1>3. \A u \in Tasks : loop'[u] = "none"
  BY <1>1, <1>2 DEF CommandInv, OwnerInv, Alive, TypeOK
<1>4. PICK j \in Jobs : job' = j /\ pc' = [pc EXCEPT ![j] = "new"]
  BY <1>2 DEF Stuck
<1>5. \A a \in Actors : pc'[a] = IF a = j THEN "new" ELSE "idle"
  BY <1>2, <1>4 DEF Quiet, TypeOK
<1> QED
  BY <1>2, <1>3, <1>4, <1>5, JobMade DEF Stuck

LEMMA CommandStep ==
    ASSUME TypeOK, CommandInv, [Next]_vars, ~crossed'
    PROVE  CommandInv'
<1>1. ASSUME NEW c \in Callers, DisableByHttp(c) \/ DisableByMqtt(c) PROVE CommandInv'
  <2>1. pc[c] = "idle" /\ Stop(c) /\ wish' = "off"
    BY <1>1 DEF DisableByHttp, DisableByMqtt, LockFree
  <2> QED
    BY <2>1, DisableStep
<1>2. ASSUME NEW t \in Tasks, Leave(t) PROVE CommandInv'
  BY <1>2, LoopLeaves DEF Leave
<1>3. ASSUME NEW a \in Actors, Progress(a) PROVE CommandInv'
  BY <1>3, AfterJobStep, AfterTaskStep DEF Progress
<1>4. ASSUME NEW j \in Jobs, JobStep(j) PROVE CommandInv'
  BY <1>4, DoRebuildStep, RebuildAfterStep DEF JobStep
<1>5. ASSUME NEW t \in Tasks, Exit(t) \/ Stuck(t) PROVE CommandInv'
  BY <1>5, ExitStep, StuckStep
<1>6. CASE UNCHANGED vars
  BY <1>6 DEF vars, CommandInv, OwnerInv, JobInv, AwaitInv, ReapInv, LeavingInv, OffInv, OnInv,
     is_running, Alive, JobPending
<1> QED
  BY <1>1, <1>2, <1>3, <1>4, <1>5, <1>6, EnableStep DEF Next, Command, Failure

LEMMA CommandInitially == Init => IInv
<1> SUFFICES ASSUME Init PROVE IInv
  OBVIOUS
<1>1. PICK t \in Tasks : task = t /\ loop = [u \in Tasks |-> IF u = t THEN "running" ELSE "none"]
  BY DEF Init
<1>2. TypeOK
  <2>1. /\ task \in Tasks /\ loop \in [Tasks -> {"none", "running", "leaving"}]
        /\ \A c \in Callers : c \in Actors
    BY <1>1, Apart
  <2>2. rebuilds \in 0..MAX_REBUILDS
    BY Apart DEF Init
  <2> QED
    BY <2>1, <2>2 DEF Init, TypeOK
<1>3. is_running /\ ~JobPending
  BY <1>1, Apart DEF Init, is_running, Alive, JobPending
<1>4. OwnerInv /\ LeavingInv
  BY <1>1 DEF OwnerInv, LeavingInv, Alive
<1>5. JobInv /\ AwaitInv /\ ReapInv /\ OffInv /\ OnInv
  BY <1>3, Apart DEF Init, JobInv, AwaitInv, ReapInv, OffInv, OnInv
<1> QED
  BY <1>2, <1>4, <1>5 DEF IInv, CommandInv

LEMMA Inductive == Spec => []IInv
<1>1. IInv /\ [Next]_vars => IInv'
  <2> SUFFICES ASSUME IInv, [Next]_vars PROVE IInv'
    OBVIOUS
  <2>1. TypeOK /\ TypeOK'
    BY TypeStep DEF IInv
  <2>2. crossed => crossed'
    BY DEF Next, vars, Command, Failure, EnableByHttp, EnableByMqtt, Crossing, DisableByHttp,
       DisableByMqtt, Exit, Stuck, Leave, Progress, AfterJob, AfterTask, JobStep, DoRebuild,
       RebuildAfter
  <2> QED
    BY <2>1, <2>2, CommandStep DEF IInv
<1> QED
  BY CommandInitially, <1>1, PTL DEF Spec

-----------------------------------------------------------------------------
(* The theorems.                                                            *)

\* RuntimeSupervisor: whatever exits, rebuilds and commands come in whatever order, no
\* loop runs that the supervisor does not hold, until a start crosses a stop().
THEOREM OneLoopTheorem == Spec => []OneLoop
<1>1. IInv => OneLoop
  BY DEF IInv, OneLoop, SoleOwner, CommandInv, OwnerInv
<1> QED
  BY Inductive, <1>1, PTL

\* handle_enable and the commands of MQTT and Bemfa: once every stop() and rebuild has
\* come to its end the last command has been followed, or the supervisor gave up.
THEOREM LastCommandTheorem == Spec => []LastCommandWins
<1>1. IInv => LastCommandWins
  <2> SUFFICES ASSUME TypeOK, CommandInv, Quiet PROVE
        /\ wish = "off" => \A t \in Tasks : ~Alive(t)
        /\ wish = "on" /\ gaveUp = "no" => is_running
    BY DEF IInv, LastCommandWins, DisabledIsDown, EnabledIsUp
  <2>1. ~JobPending /\ \A c \in Callers : pc[c] = "idle"
    BY Pending, Apart DEF Quiet, CommandInv, JobPending
  <2> QED
    BY <2>1, NobodyRuns DEF CommandInv, OffInv, OnInv
<1> QED
  BY Inductive, <1>1, PTL

---------------------------------------------------------------------------
(* The budget of the L3 recoveries.                                          *)

\* The least element: what replaces induction, whose library theorem takes the
\* statement as a parameter.
LEMMA LeastNumber ==
    ASSUME NEW T, T \subseteq Nat, T # {}
    PROVE  \E x \in T : \A y \in T : x <= y
<1>1. PICK x \in T : \A y \in T : <<y, x>> \notin OpToRel(<,Nat)
  BY NatLessThanWellFounded, WFMin
<1>2. \A y \in T : y < x => <<y, x>> \in OpToRel(<,Nat)
  BY DEF OpToRel
<1>3. \A y \in T : ~(y < x) /\ x \in Nat /\ y \in Nat
  BY <1>1, <1>2
<1>4. QED
  BY <1>3

\* The stamps kept of the first n ones.
Keep(ages, kept, n) ==
    IF n = 0 THEN <<>>
    ELSE IF ages[n] + 1 < AUTH_L3_WINDOW THEN Append(kept[n - 1], ages[n] + 1)
    ELSE kept[n - 1]

\* The function by which _recent_auth_restarts is defined exists.
LEMMA KeptExists ==
    ASSUME NEW ages \in Seq(Ages), NEW N \in Nat, N <= Len(ages)
    PROVE  \E kept : kept = [n \in 0..N |-> Keep(ages, kept, n)]
<1> DEFINE Good(m) == \E kept : kept = [n \in 0..m |-> Keep(ages, kept, n)]
           Bad == {m \in 0..Len(ages) : ~Good(m)}
<1>1. SUFFICES ASSUME Bad # {} PROVE FALSE
  OBVIOUS
<1>2. PICK m \in Bad : \A k \in Bad : m <= k
  <2>1. Bad \subseteq Nat
    OBVIOUS
  <2>2. QED
    BY <1>1, <2>1, LeastNumber, Zenon
<1>3. m # 0
  <2>1. [n \in 0..0 |-> <<>>] = [n \in 0..0 |-> Keep(ages, [i \in 0..0 |-> <<>>], n)]
    BY DEF Keep
  <2>2. Good(0)
    BY <2>1
  <2>3. QED
    BY <1>2, <2>2
<1>4. Good(m - 1)
  BY <1>2, <1>3
<1>5. PICK old : old = [n \in 0..(m - 1) |-> Keep(ages, old, n)]
  BY <1>4
<1> DEFINE new == [n \in 0..m |-> IF n = m THEN Keep(ages, old, m) ELSE old[n]]
<1>6. ASSUME NEW n \in 0..m PROVE new[n] = Keep(ages, new, n)
  <2>1. CASE n = m
    BY <1>2, <1>3, <2>1 DEF Keep
  <2>2. CASE n # m
    <3>1. n \in 0..(m - 1) /\ new[n] = old[n] /\ old[n] = Keep(ages, old, n)
      BY <1>2, <1>5, <2>2
    <3>2. n # 0 => new[n - 1] = old[n - 1]
      BY <1>2, <3>1
    <3>3. QED
      BY <3>1, <3>2 DEF Keep
  <2>3. QED
    BY <2>1, <2>2
<1>7. new = [n \in 0..m |-> Keep(ages, new, n)]
  BY <1>6
<1>8. Good(m)
  BY <1>7
<1>9. QED
  BY <1>2, <1>8

\* What is left of the first n stamps, for every n, is a list of stamps within the
\* window that is no longer than before.
LEMMA KeptIsWithin ==
    ASSUME RecoveryAssumption, NEW ages \in Seq(Ages)
    PROVE  \E kept : /\ \A n \in 0..Len(ages) : /\ kept[n] = Keep(ages, kept, n)
                                                /\ kept[n] \in Seq(Ages) /\ Len(kept[n]) <= n
                     /\ WithinWindow(ages) = kept[Len(ages)]
<1> DEFINE kept == CHOOSE f : f = [n \in 0..Len(ages) |-> Keep(ages, f, n)]
           Good(n) == kept[n] \in Seq(Ages) /\ Len(kept[n]) <= n
           Bad == {n \in 0..Len(ages) : ~Good(n)}
<1>1. WithinWindow(ages) = kept[Len(ages)]
  BY DEF WithinWindow, Keep
<1>2. kept = [n \in 0..Len(ages) |-> Keep(ages, kept, n)]
  <2>1. \E f : f = [n \in 0..Len(ages) |-> Keep(ages, f, n)]
    BY KeptExists
  <2>2. QED
    BY <2>1, Zenon
<1> HIDE DEF kept
<1>3. SUFFICES ASSUME Bad # {} PROVE FALSE
  <2>1. ASSUME Bad = {}, NEW n \in 0..Len(ages)
        PROVE  kept[n] = Keep(ages, kept, n) /\ Good(n)
    BY <1>2, <2>1
  <2>2. QED
    BY <1>1, <2>1
<1>4. PICK m \in Bad : \A k \in Bad : m <= k
  <2>1. Bad \subseteq Nat
    OBVIOUS
  <2>2. QED
    BY <1>3, <2>1, LeastNumber, Zenon
<1>5. kept[m] = Keep(ages, kept, m)
  BY <1>2, <1>4
<1>6. m # 0
  <2>1. m = 0 => kept[m] = <<>>
    BY <1>5 DEF Keep
  <2>2. <<>> \in Seq(Ages) /\ Len(<<>>) = 0
    OBVIOUS
  <2>3. ASSUME m = 0 PROVE Good(m)
    <3>1. kept[m] = <<>>
      BY <2>1, <2>3
    <3>2. Len(kept[m]) <= m
      BY <2>2, <2>3, <3>1
    <3>3. kept[m] \in Seq(Ages)
      BY <2>2, <3>1
    <3>4. QED
      BY <3>2, <3>3
  <2>4. QED
    BY <1>4, <2>3
<1>7. Good(m - 1)
  BY <1>4, <1>6
<1>8. ages[m] \in Ages
  BY <1>4, <1>6
<1>9. CASE ages[m] + 1 < AUTH_L3_WINDOW
  <2>1. kept[m] = Append(kept[m - 1], ages[m] + 1)
    BY <1>5, <1>6, <1>9 DEF Keep
  <2>2. ages[m] + 1 \in Ages
    BY <1>8, <1>9 DEF Ages, RecoveryAssumption
  <2>3. Good(m)
    BY <1>4, <1>6, <1>7, <2>1, <2>2
  <2>4. QED
    BY <1>4, <2>3
<1>10. CASE ~(ages[m] + 1 < AUTH_L3_WINDOW)
  BY <1>4, <1>5, <1>6, <1>7, <1>10 DEF Keep
<1>11. QED
  BY <1>9, <1>10

LEMMA AppendOfConcat ==
    \A s, t \in Seq(Ages), e \in Ages :
        /\ Append(s, e) = s \o <<e>>
        /\ Append(s \o t, e) = s \o Append(t, e)
<1> SUFFICES ASSUME NEW s \in Seq(Ages), NEW t \in Seq(Ages), NEW e \in Ages
             PROVE  Append(s, e) = s \o <<e>> /\ Append(s \o t, e) = s \o Append(t, e)
  OBVIOUS
<1>1. /\ s \o t \in Seq(Ages) /\ <<e>> \in Seq(Ages)
      /\ Append(s, e) = s \o <<e>>
      /\ Append(s \o t, e) = (s \o t) \o <<e>> /\ Append(t, e) = t \o <<e>>
  BY AppendIsConcat
<1>2. QED
  BY <1>1, ConcatAssociative

\* Ageing a list is ageing its parts.
LEMMA WindowOfParts ==
    ASSUME RecoveryAssumption, NEW a \in Seq(Ages), NEW g \in Seq(Ages)
    PROVE  /\ WithinWindow(a) \in Seq(Ages) /\ Len(WithinWindow(a)) <= Len(a)
           /\ WithinWindow(a \o g) = WithinWindow(a) \o WithinWindow(g)
<1> DEFINE all == a \o g
<1>0. /\ all \in Seq(Ages) /\ Len(all) = Len(a) + Len(g)
      /\ Len(a) \in Nat /\ Len(g) \in Nat
  OBVIOUS
<1>1. PICK ka : /\ \A n \in 0..Len(a) : /\ ka[n] = Keep(a, ka, n)
                                        /\ ka[n] \in Seq(Ages) /\ Len(ka[n]) <= n
                /\ WithinWindow(a) = ka[Len(a)]
  BY KeptIsWithin
<1>2. PICK kg : /\ \A n \in 0..Len(g) : /\ kg[n] = Keep(g, kg, n)
                                        /\ kg[n] \in Seq(Ages) /\ Len(kg[n]) <= n
                /\ WithinWindow(g) = kg[Len(g)]
  BY KeptIsWithin
<1>3. PICK k : /\ \A n \in 0..Len(all) : /\ k[n] = Keep(all, k, n)
                                         /\ k[n] \in Seq(Ages) /\ Len(k[n]) <= n
               /\ WithinWindow(all) = k[Len(all)]
  BY <1>0, KeptIsWithin
<1> HIDE DEF all
<1>4. \A n \in 0..Len(a) : k[n] = ka[n]
  <2> DEFINE Bad == {n \in 0..Len(a) : k[n] # ka[n]}
  <2>1. SUFFICES ASSUME Bad # {} PROVE FALSE
    OBVIOUS
  <2>2. PICK m \in Bad : \A i \in Bad : m <= i
    <3>1. Bad \subseteq 0..Len(a)
      OBVIOUS
    <3>2. Bad \subseteq Nat
      BY <1>0, <3>1
    <3>3. QED
      BY <2>1, <3>2, LeastNumber, Zenon
  <2>3. k[m] = Keep(all, k, m) /\ ka[m] = Keep(a, ka, m)
    BY <1>0, <1>1, <1>3, <2>2
  <2>4. m # 0
    BY <2>2, <2>3 DEF Keep
  <2>5. k[m - 1] = ka[m - 1] /\ all[m] = a[m]
    BY <2>2, <2>4 DEF all
  <2>6. QED
    BY <2>2, <2>3, <2>4, <2>5 DEF Keep
<1>5. \A n \in 0..Len(g) : k[Len(a) + n] = ka[Len(a)] \o kg[n]
  <2> DEFINE Good(n) == k[Len(a) + n] = ka[Len(a)] \o kg[n]
             Bad == {n \in 0..Len(g) : ~Good(n)}
  <2>1. SUFFICES ASSUME Bad # {} PROVE FALSE
    OBVIOUS
  <2> HIDE DEF Good
  <2>2. PICK m \in Bad : \A i \in Bad : m <= i
    <3>1. Bad \subseteq 0..Len(g)
      OBVIOUS
    <3>2. Bad \subseteq Nat
      BY <1>0, <3>1
    <3>3. QED
      BY <2>1, <3>2, LeastNumber, Zenon
  <2>0. m \in 0..Len(g) /\ m \in Nat /\ ~Good(m)
    BY <1>0, <2>2
  <2> HIDE DEF Bad
  <2>3. k[Len(a) + m] = Keep(all, k, Len(a) + m) /\ kg[m] = Keep(g, kg, m)
    BY <1>0, <1>2, <1>3, <2>0
  <2>4. ka[Len(a)] \in Seq(Ages)
    BY <1>1
  <2>5. m # 0
    <3>1. ka[Len(a)] \o <<>> = ka[Len(a)]
      BY <2>4
    <3>2. kg[0] = <<>> /\ k[Len(a)] = ka[Len(a)]
      BY <1>2, <1>4 DEF Keep
    <3>3. k[Len(a) + 0] = ka[Len(a)] \o kg[0]
      BY <3>1, <3>2
    <3>4. QED
      BY <2>0, <3>3 DEF Good
  <2>6. k[Len(a) + (m - 1)] = ka[Len(a)] \o kg[m - 1]
    <3>1. m - 1 \in 0..Len(g) /\ ~(m <= m - 1)
      BY <1>0, <2>0, <2>5
    <3>2. m - 1 \notin Bad
      BY <2>2, <3>1 DEF Bad
    <3>3. QED
      BY <3>1, <3>2 DEF Good, Bad
  <2>7. all[Len(a) + m] = g[m] /\ g[m] \in Ages
    BY <2>0, <2>5 DEF all
  <2>8. kg[m - 1] \in Seq(Ages)
    BY <1>2, <2>0, <2>5
  <2>9. CASE g[m] + 1 < AUTH_L3_WINDOW
    <3>1. kg[m] = Append(kg[m - 1], g[m] + 1)
      BY <2>3, <2>5, <2>9 DEF Keep
    <3>2. k[Len(a) + m] = Append(k[Len(a) + (m - 1)], g[m] + 1)
      <4> DEFINE n == Len(a) + m
      <4>1. n # 0 /\ n - 1 = Len(a) + (m - 1)
        BY <1>0, <2>0, <2>5
      <4>2. k[n] = Keep(all, k, n) /\ all[n] = g[m]
        BY <2>3, <2>7
      <4> HIDE DEF n
      <4>3. k[n] = Append(k[n - 1], g[m] + 1)
        BY <2>9, <4>1, <4>2 DEF Keep
      <4>4. k[Len(a) + m] = Append(k[Len(a) + (m - 1)], g[m] + 1)
        BY <4>1, <4>3 DEF n
      <4>5. QED
        BY <4>4
    <3>3. g[m] + 1 \in Ages
      BY <2>7, <2>9 DEF Ages, RecoveryAssumption
    <3>4. Append(ka[Len(a)] \o kg[m - 1], g[m] + 1) = ka[Len(a)] \o Append(kg[m - 1], g[m] + 1)
      <4> DEFINE s == ka[Len(a)]
                 t == kg[m - 1]
                 e == g[m] + 1
      <4>1. s \in Seq(Ages) /\ t \in Seq(Ages) /\ e \in Ages
        BY <2>4, <2>8, <3>3
      <4> HIDE DEF s, t, e
      <4>2. Append(s \o t, e) = s \o Append(t, e)
        BY <4>1, AppendOfConcat
      <4>3. QED
        BY <4>2 DEF s, t, e
    <3>5. QED
      BY <2>0, <2>6, <3>1, <3>2, <3>4 DEF Good
  <2>10. CASE ~(g[m] + 1 < AUTH_L3_WINDOW)
    <3>1. kg[m] = kg[m - 1]
      BY <2>3, <2>5, <2>10 DEF Keep
    <3>2. k[Len(a) + m] = ka[Len(a)] \o kg[m - 1]
      <4> DEFINE n == Len(a) + m
      <4>1. n # 0 /\ n - 1 = Len(a) + (m - 1)
        BY <1>0, <2>0, <2>5
      <4>2. k[n] = Keep(all, k, n) /\ all[n] = g[m]
        BY <2>3, <2>7
      <4> HIDE DEF n
      <4>3. k[n] = k[n - 1]
        BY <2>10, <4>1, <4>2 DEF Keep
      <4>4. k[Len(a) + m] = k[Len(a) + (m - 1)]
        BY <4>1, <4>3 DEF n
      <4>5. QED
        BY <2>6, <4>4
    <3>3. QED
      BY <2>0, <3>1, <3>2 DEF Good
  <2>11. QED
    BY <2>9, <2>10
<1>6. Len(a) \in 0..Len(a) /\ Len(g) \in 0..Len(g)
  OBVIOUS
<1>7. WithinWindow(all) = WithinWindow(a) \o WithinWindow(g)
  BY <1>0, <1>1, <1>2, <1>3, <1>5, <1>6
<1>8. QED
  BY <1>1, <1>6, <1>7 DEF all

\* The recoveries of the window are those a lost ledger has forgotten, no more than a
\* budget for each loss, and those the file still holds, as its last stamps.
Split(p, q, a) ==
    /\ p \in Seq(Ages) /\ q \in Seq(Ages) /\ a \in Seq(Ages)
    /\ granted = p \o q /\ Len(p) <= AUTH_L3_MAX_PER_HOUR * losses
    /\ ledger = a \o q /\ Len(q) <= AUTH_L3_MAX_PER_HOUR

LedgerInv == RecoveryTypeOK /\ \E p, q, a : Split(p, q, a)

\* No device stays among the stuck ones: the rebuild hook does not suspend.
RecoveryInv == LedgerInv /\ stuck = {}

LEMMA SplitHolds == LedgerInv => BudgetHolds
<1> SUFFICES ASSUME LedgerInv PROVE BudgetHolds
  OBVIOUS
<1>1. PICK p, q, a : Split(p, q, a)
  BY DEF LedgerInv
<1>2. Len(granted) = Len(p) + Len(q) /\ Len(p) \in Nat /\ Len(q) \in Nat
  BY <1>1 DEF Split
<1>3. AUTH_L3_MAX_PER_HOUR \in Nat /\ losses \in Nat
  BY RecoveryAssumption DEF LedgerInv, RecoveryTypeOK
<1>4. AUTH_L3_MAX_PER_HOUR * (1 + losses) = AUTH_L3_MAX_PER_HOUR * losses + AUTH_L3_MAX_PER_HOUR
  BY <1>3
<1>5. AUTH_L3_MAX_PER_HOUR * losses \in Nat
  BY <1>3
<1>6. QED
  BY <1>1, <1>2, <1>3, <1>4, <1>5 DEF Split, BudgetHolds

LEMMA TickKeepsLedger == RecoveryInv /\ Tick /\ UNCHANGED registered => RecoveryInv'
<1> SUFFICES ASSUME RecoveryInv, Tick, UNCHANGED registered PROVE RecoveryInv'
  OBVIOUS
<1>1. PICK p, q, a : Split(p, q, a)
  BY DEF RecoveryInv, LedgerInv
<1> DEFINE W(s) == WithinWindow(s)
<1>2. /\ ledger' = W(a) \o W(q) /\ granted' = W(p) \o W(q) /\ losses' = losses
      /\ W(p) \in Seq(Ages) /\ W(q) \in Seq(Ages) /\ W(a) \in Seq(Ages)
      /\ Len(W(p)) <= Len(p) /\ Len(W(q)) <= Len(q)
  BY <1>1, WindowOfParts, RecoveryAssumption DEF Split, Tick
<1>3. AUTH_L3_MAX_PER_HOUR * losses \in Nat /\ AUTH_L3_MAX_PER_HOUR \in Nat
  BY RecoveryAssumption DEF RecoveryInv, LedgerInv, RecoveryTypeOK
<1> HIDE DEF W
<1>4. Len(p) \in Nat /\ Len(q) \in Nat /\ Len(W(p)) \in Nat /\ Len(W(q)) \in Nat
  BY <1>1, <1>2 DEF Split
<1>5. Split(W(p), W(q), W(a))'
  BY <1>1, <1>2, <1>3, <1>4, RecoveryAssumption DEF Split, Ages
<1>6. ledger' \in Seq(Ages) /\ granted' \in Seq(Ages)
  BY <1>2
<1>7. QED
  BY <1>2, <1>5, <1>6 DEF RecoveryInv, LedgerInv, RecoveryTypeOK, Tick

\* One more recovery: written down behind the others, or a loss covers for it.
LEMMA EnterL3KeepsLedger ==
    ASSUME RecoveryInv, NEW d \in registered, EnterL3(d), UNCHANGED registered
    PROVE  RecoveryInv'
<1>1. PICK p, q, a : Split(p, q, a)
  BY DEF RecoveryInv, LedgerInv
<1>2. PICK look \in Reads, file \in Files :
        /\ AllowAuthRestart(look)
        /\ Lose(Cardinality({look} \ {ledger}) + Cardinality({file} \ {Append(ledger, 0)}))
        /\ ledger' = file
  BY DEF EnterL3
<1> DEFINE M == AUTH_L3_MAX_PER_HOUR
           x == Cardinality({look} \ {ledger})
           y == Cardinality({file} \ {Append(ledger, 0)})
<1>3. M \in Nat \ {0} /\ losses \in Nat /\ 0 \in Ages
  BY RecoveryAssumption DEF RecoveryInv, LedgerInv, RecoveryTypeOK, Ages
<1>4. x \in {0, 1} /\ (x = 0 => look = ledger)
  <2>1. look = ledger => {look} \ {ledger} = {}
    OBVIOUS
  <2>2. look # ledger => {look} \ {ledger} = {look}
    OBVIOUS
  <2>3. QED
    BY <2>1, <2>2, FS_EmptySet, FS_Singleton
<1>5. y \in {0, 1} /\ (y = 0 <=> file = Append(ledger, 0))
  <2>1. file = Append(ledger, 0) => {file} \ {Append(ledger, 0)} = {}
    OBVIOUS
  <2>2. file # Append(ledger, 0) => {file} \ {Append(ledger, 0)} = {file}
    OBVIOUS
  <2>3. QED
    BY <2>1, <2>2, FS_EmptySet, FS_Singleton
<1>6. losses' = losses + (x + y) /\ losses' <= LedgerFaults
  BY <1>2 DEF Lose
<1> HIDE DEF x, y
<1>7. ledger \in Seq(Ages) /\ granted \in Seq(Ages) /\ file \in Seq(Ages)
  <2>1. ledger \in Seq(Ages) /\ granted \in Seq(Ages) /\ <<>> \in Seq(Ages)
    BY DEF RecoveryInv, LedgerInv, RecoveryTypeOK
  <2>2. ASSUME NEW note \in Reads PROVE Append(note, 0) \in Seq(Ages)
    <3>1. note \in Seq(Ages)
      BY <2>1 DEF Reads
    <3>2. QED
      BY <1>3, <3>1, AppendProperties
  <2>3. QED
    BY <1>2, <2>1, <2>2 DEF Files
<1>8. granted' = Append(granted, 0) /\ ledger' = file
  BY <1>2 DEF EnterL3
<1>9. Len(q) <= M /\ Len(p) <= M * losses /\ Len(p) \in Nat /\ Len(q) \in Nat
  BY <1>1 DEF Split
<1>10. x = 0 => Len(q) < M
  <2>1. Len(ledger) = Len(a) + Len(q) /\ Len(a) \in Nat /\ Len(q) \in Nat
    BY <1>1 DEF Split
  <2>2. x = 0 => Len(ledger) < M
    BY <1>2, <1>4 DEF AllowAuthRestart
  <2>3. QED
    BY <1>3, <2>1, <2>2
<1>11. /\ M * losses \in Nat /\ M * (losses + 1) = M * losses + M
       /\ M * (losses + 2) = M * losses + M + M
  BY <1>3
<1>12. \E r, t, b : Split(r, t, b)'
  <2>1. CASE x = 0 /\ y = 0
    <3>1. losses' = losses
      BY <1>3, <1>6, <2>1
    <3>2. granted' = p \o Append(q, 0) /\ ledger' = a \o Append(q, 0)
      BY <1>1, <1>3, <1>5, <1>8, <2>1, AppendOfConcat DEF Split
    <3>3. Append(q, 0) \in Seq(Ages) /\ Len(Append(q, 0)) <= M
      BY <1>1, <1>3, <1>9, <1>10, <2>1 DEF Split
    <3>4. Split(p, Append(q, 0), a)'
      BY <1>1, <1>9, <3>1, <3>2, <3>3 DEF Split, Ages
    <3>5. QED
      BY <3>4
  <2>2. CASE x = 1 /\ y = 0
    <3>1. losses' = losses + 1
      BY <1>3, <1>6, <2>2
    <3>2. granted' = granted \o <<0>> /\ ledger' = ledger \o <<0>>
      BY <1>3, <1>5, <1>7, <1>8, <2>2, AppendOfConcat
    <3>3. <<0>> \in Seq(Ages) /\ Len(<<0>>) = 1 /\ Len(granted) = Len(p) + Len(q)
      BY <1>1, <1>3 DEF Split
    <3>4. Len(granted) <= M * losses'
      BY <1>3, <1>9, <1>11, <3>1, <3>3
    <3>5. \E r, t, b : Split(r, t, b)'
      <4> DEFINE t == <<0>>
      <4>1. t \in Seq(Ages) /\ Len(t) <= M
        BY <1>3, <3>3
      <4>2. granted' = granted \o t /\ ledger' = ledger \o t
        BY <3>2
      <4> HIDE DEF t
      <4> DEFINE r == granted
                 b == ledger
      <4>3. r \in Seq(Ages) /\ b \in Seq(Ages) /\ granted' = r \o t /\ ledger' = b \o t
            /\ Len(r) <= M * losses'
        BY <1>7, <3>4, <4>2
      <4>4. Ages' = Ages /\ M' = M
        BY DEF Ages
      <4> HIDE DEF r, b
      <4>5. QED
        BY <4>1, <4>3, <4>4 DEF Split
    <3>6. QED
      BY <3>5
  <2>3. CASE y = 1
    <3>1. (losses' = losses + 1 /\ x = 0) \/ losses' = losses + 2
      BY <1>3, <1>4, <1>6, <2>3
    <3>2. Append(granted, 0) \in Seq(Ages) /\ Len(Append(granted, 0)) = Len(p) + Len(q) + 1
      BY <1>1, <1>3, <1>7 DEF Split
    <3>3. Len(Append(granted, 0)) <= M * losses'
      BY <1>3, <1>9, <1>10, <1>11, <3>1, <3>2
    <3> DEFINE r == Append(granted, 0)
    <3>4. r \in Seq(Ages) /\ granted' = r \o <<>> /\ Len(r) <= M * losses'
      BY <1>8, <3>2, <3>3
    <3>5. file \in Seq(Ages) /\ ledger' = file \o <<>>
      BY <1>7, <1>8
    <3>6. <<>> \in Seq(Ages) /\ Len(<<>>) <= M
      BY <1>3
    <3> HIDE DEF r
    <3>7. QED
      BY <3>4, <3>5, <3>6 DEF Split, Ages
  <2>4. QED
    BY <1>4, <1>5, <2>1, <2>2, <2>3
<1>13. Append(granted, 0) \in Seq(Ages)
  BY <1>3, <1>7
<1>14. losses' \in 0..LedgerFaults
  BY <1>3, <1>4, <1>5, <1>6, RecoveryAssumption
<1>15. QED
  BY <1>7, <1>8, <1>12, <1>13, <1>14 DEF RecoveryInv, LedgerInv, RecoveryTypeOK, EnterL3, Goto, Phases

\* A process killed over its half-written ledger: one loss, of a budget at most.
LEMMA CrashKeepsLedger ==
    ASSUME RecoveryInv, NEW d \in registered, CrashWhileNoting(d), UNCHANGED registered
    PROVE  RecoveryInv'
<1>1. PICK p, q, a : Split(p, q, a)
  BY DEF RecoveryInv, LedgerInv
<1> DEFINE M == AUTH_L3_MAX_PER_HOUR
<1>2. M \in Nat \ {0} /\ losses \in Nat /\ LedgerFaults \in Nat
  BY RecoveryAssumption DEF RecoveryInv, LedgerInv, RecoveryTypeOK
<1>3. losses' = losses + 1 /\ losses' <= LedgerFaults /\ ledger' = <<>> /\ granted' = granted
  BY DEF CrashWhileNoting, Lose
<1>4. M * losses \in Nat /\ M * (losses + 1) = M * losses + M
  BY <1>2
<1>5. granted \in Seq(Ages) /\ <<>> \in Seq(Ages) /\ Len(granted) = Len(p) + Len(q)
  BY <1>1 DEF Split, RecoveryInv, LedgerInv, RecoveryTypeOK
<1>6. Len(granted) <= M * losses'
  BY <1>1, <1>2, <1>3, <1>4, <1>5 DEF Split
<1>7. granted' = granted \o <<>> /\ ledger' = <<>> \o <<>>
  BY <1>3, <1>5
<1>8. \E r, t, b : Split(r, t, b)'
  <2>1. Split(granted, <<>>, <<>>)'
    BY <1>2, <1>3, <1>5, <1>6, <1>7 DEF Split, Ages
  <2>2. QED
    BY <2>1
<1>9. phase' \in [Devices -> Phases] /\ fails' \in [Devices -> 0..MAX_AUTH_FAILURES]
      /\ breaker' \in [Devices -> 0..CIRCUIT_BREAKER_MAX_FAIL] /\ stuck' = {}
  BY RecoveryAssumption DEF CrashWhileNoting, ForgetEverything, Phases
<1>10. losses' \in 0..LedgerFaults /\ ledger' \in Seq(Ages) /\ granted' \in Seq(Ages)
  BY <1>2, <1>3, <1>5
<1>11. RecoveryTypeOK'
  BY <1>9, <1>10 DEF RecoveryTypeOK, RecoveryInv, LedgerInv, Ages
<1>12. QED
  BY <1>8, <1>9, <1>11 DEF RecoveryInv, LedgerInv

\* Every other step leaves the ledger and its history alone.
LEMMA RestKeepsLedger ==
    ASSUME RecoveryInv, UNCHANGED ledgerVars, RecoveryTypeOK', stuck' = {} PROVE RecoveryInv'
<1>1. PICK p, q, a : Split(p, q, a)
  BY DEF RecoveryInv, LedgerInv
<1>2. Split(p, q, a)'
  BY <1>1 DEF Split, ledgerVars, Ages
<1>3. QED
  BY <1>2 DEF RecoveryInv, LedgerInv

LEMMA RecoveryInductive == RecoveryInv /\ [RecoveryNext]_recoveryVars => RecoveryInv'
<1> SUFFICES ASSUME RecoveryInv, [RecoveryNext]_recoveryVars PROVE RecoveryInv'
  OBVIOUS
<1>0. RecoveryTypeOK /\ stuck = {}
  BY DEF RecoveryInv, LedgerInv
<1> USE RecoveryAssumption DEF RecoveryTypeOK, Phases, Goto, ledgerVars
<1>1. CASE Tick /\ UNCHANGED registered
  BY <1>1, TickKeepsLedger
<1>2. CASE RestartProcess /\ UNCHANGED registered
  <2>1. RecoveryTypeOK' /\ stuck' = {}
    BY <1>0, <1>2 DEF RestartProcess, ForgetEverything
  <2>2. QED
    BY <1>2, <2>1, RestKeepsLedger DEF RestartProcess
<1>3. ASSUME NEW d \in registered, Attempt(d), UNCHANGED registered PROVE RecoveryInv'
  <2>1. CASE Authenticate(d)
    <3>1. RecoveryTypeOK' /\ stuck' = {}
      BY <1>0, <1>3, <2>1 DEF Authenticate
    <3>2. QED
      BY <2>1, <3>1, RestKeepsLedger DEF Authenticate
  <2>2. ASSUME RecordFailure(d) PROVE breaker' \in [Devices -> 0..CIRCUIT_BREAKER_MAX_FAIL]
    BY <1>0, <2>2 DEF RecordFailure, UpTo
  <2>3. CASE LinkFails(d)
    <3>1. RecoveryTypeOK' /\ stuck' = {}
      BY <1>0, <1>3, <2>2, <2>3 DEF LinkFails
    <3>2. QED
      BY <2>3, <3>1, RestKeepsLedger DEF LinkFails
  <2>4. CASE AuthFails(d)
    <3>1. fails' \in [Devices -> 0..MAX_AUTH_FAILURES]
      BY <1>0, <2>4 DEF AuthFails, UpTo
    <3>2. RecoveryTypeOK' /\ stuck' = {}
      BY <1>0, <1>3, <2>2, <2>4, <3>1 DEF AuthFails
    <3>3. QED
      BY <2>4, <3>2, RestKeepsLedger DEF AuthFails
  <2>5. QED
    BY <1>3, <2>1, <2>3, <2>4 DEF Attempt
<1>4. ASSUME NEW d \in registered, EnterL3(d), UNCHANGED registered PROVE RecoveryInv'
  BY <1>4, EnterL3KeepsLedger
<1>5. ASSUME NEW d \in registered, CrashWhileNoting(d), UNCHANGED registered PROVE RecoveryInv'
  BY <1>5, CrashKeepsLedger
<1>6. ASSUME NEW d \in registered, UNCHANGED registered,
             BackOff(d) \/ Retry(d) \/ CoolOff(d) \/ CooldownOver(d) \/ RebuildEnds(d)
      PROVE  RecoveryInv'
  <2>1. CASE BackOff(d) \/ Retry(d) \/ CoolOff(d)
    <3>1. RecoveryTypeOK' /\ stuck' = {}
      BY <1>0, <1>6, <2>1 DEF BackOff, Retry, CoolOff
    <3>2. QED
      BY <2>1, <3>1, RestKeepsLedger DEF BackOff, Retry, CoolOff
  <2>2. CASE CooldownOver(d)
    <3>1. RecoveryTypeOK' /\ stuck' = {}
      BY <1>0, <1>6, <2>2 DEF CooldownOver
    <3>2. QED
      BY <2>2, <3>1, RestKeepsLedger DEF CooldownOver
  <2>3. CASE RebuildEnds(d)
    <3>1. RecoveryTypeOK' /\ stuck' = {}
      BY <1>0, <1>6, <2>3 DEF RebuildEnds
    <3>2. QED
      BY <2>3, <3>1, RestKeepsLedger DEF RebuildEnds
  <2>4. QED
    BY <1>6, <2>1, <2>2, <2>3
<1>7. ASSUME NEW d \in registered, RestartDevice(d), UNCHANGED registered PROVE RecoveryInv'
  <2>1. CASE MustEscalate(d)
    BY <1>2, <1>7, <2>1 DEF RestartDevice
  <2>2. CASE ~MustEscalate(d)
    <3>1. RecoveryTypeOK' /\ stuck' = {}
      BY <1>0, <1>7, <2>2 DEF RestartDevice
    <3>2. QED
      BY <1>7, <2>2, <3>1, RestKeepsLedger DEF RestartDevice
  <2>3. QED
    BY <2>1, <2>2
<1>8. CASE UNCHANGED recoveryVars
  <2>1. RecoveryTypeOK' /\ stuck' = {}
    BY <1>0, <1>8 DEF recoveryVars
  <2>2. QED
    BY <1>8, <2>1, RestKeepsLedger DEF recoveryVars
<1>9. QED
  BY <1>1, <1>2, <1>3, <1>4, <1>5, <1>6, <1>7, <1>8 DEF RecoveryNext, Crash, Loop

LEMMA RecoveryInvariant == RecoverySpec => []RecoveryInv
<1>1. RecoveryInit => RecoveryInv
  <2> SUFFICES ASSUME RecoveryInit PROVE RecoveryInv
    OBVIOUS
  <2>1. <<>> \in Seq(Ages) /\ Len(<<>>) = 0 /\ <<>> = <<>> \o <<>>
    OBVIOUS
  <2>2. Split(<<>>, <<>>, <<>>)
    BY <2>1, RecoveryAssumption DEF RecoveryInit, Split
  <2>3. QED
    BY <2>1, <2>2, RecoveryAssumption DEF RecoveryInit, RecoveryInv, LedgerInv, RecoveryTypeOK,
       Phases
<1>2. QED
  BY <1>1, RecoveryInductive, PTL DEF RecoverySpec

\* However many devices fail, whatever they do between, and wherever the process is
\* restarted or killed, a window holds at most one budget of L3 recoveries, and one
\* more for every read or write of the ledger that went wrong.
THEOREM LedgerTheorem == RecoverySpec => []LedgerHolds
<1>1. RecoveryInv => LedgerHolds
  BY SplitHolds DEF RecoveryInv, LedgerInv, LedgerHolds
<1>2. QED
  BY <1>1, RecoveryInvariant, PTL

\* With two devices or more, the L3 of one rebuilds that one only.
LEMMA SparesOthersStep ==
    ASSUME RecoveryInv, NEW d \in registered, NEW e \in registered,
           RestartDevice(d), phase[e] = "up"
    PROVE  phase'[e] = "up"
<1>1. d # e
  BY DEF RestartDevice
<1>2. IsFiniteSet(registered)
  BY FS_Subset, RecoveryAssumption DEF RecoveryInv, LedgerInv, RecoveryTypeOK
<1>3. Cardinality({d, e}) = 2 /\ Cardinality({d, e}) <= Cardinality(registered)
  <2>1. {d, e} \subseteq registered
    OBVIOUS
  <2>2. Cardinality({d}) = 1 /\ IsFiniteSet({d})
    BY FS_Singleton
  <2>3. Cardinality({d} \cup {e}) = 2
    <3>1. e \notin {d}
      BY <1>1
    <3>2. Cardinality({d} \cup {e}) = Cardinality({d}) + 1
      BY <2>2, <3>1, FS_AddElement
    <3>3. QED
      BY <2>2, <3>2
  <2>4. {d} \cup {e} = {d, e}
    OBVIOUS
  <2>5. QED
    BY <1>2, <2>1, <2>3, <2>4, FS_Subset
<1>4. Cardinality(registered) \in Nat
  BY <1>2, FS_CardinalityType
<1>5. stuck \cup {d} = {d} /\ Cardinality({d}) = 1
  BY FS_Singleton DEF RecoveryInv
<1>6. ~MustEscalate(d)
  BY <1>3, <1>4, <1>5 DEF MustEscalate, device_count
<1>7. phase' = [phase EXCEPT ![d] = "rebuild"]
  BY <1>6 DEF RestartDevice, Goto
<1>8. QED
  BY <1>1, <1>7 DEF RecoveryInv, LedgerInv, RecoveryTypeOK

THEOREM SparesOthersTheorem == RecoverySpec => L3SparesOthers
<1>1. RecoveryInv /\ [RecoveryNext]_recoveryVars
        => [\A d, e \in registered :
              RestartDevice(d) /\ phase[e] = "up" => phase'[e] = "up"]_recoveryVars
  BY SparesOthersStep
<1>2. QED
  BY <1>1, RecoveryInvariant, PTL DEF RecoverySpec, L3SparesOthers
=============================================================================
