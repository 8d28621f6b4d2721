------------------------- MODULE RuntimeSupervisor -------------------------
(***************************************************************************)
(* RuntimeSupervisor (ble_server/ha_server.py) of one device: the object   *)
(* that owns the asyncio task of the BLE loop, starts and stops it on      *)
(* command and rebuilds it after an unexpected exit (back-off) or after an *)
(* authentication dead end (L3).                                           *)
(*                                                                         *)
(* The actors are the coroutines that run the supervisor's methods: one    *)
(* HTTP request at a time (handle_enable holds _start_lock), the MQTT and  *)
(* Bemfa disable coroutines, which take no lock, and the rebuild jobs.  An *)
(* action is what an actor does between two awaits; pc[a] is its await:    *)
(*                                                                         *)
(*   idle      not running (a job: finished, cancelled or never created)   *)
(*   delay     a job of _schedule_rebuild sleeping its back-off            *)
(*   new       a job of schedule_rebuild before its first step             *)
(*   rebuild   stop(), awaiting the rebuild job it has cancelled           *)
(*   task      stop(), awaiting the BLE task it has cancelled              *)
(*                                                                         *)
(* An identifier of Tasks or Jobs is used again once nobody refers to it.  *)
(***************************************************************************)
EXTENDS Integers, FiniteSets

CONSTANTS
    HttpCallers,   \* requests of handle_enable that disable the device
    MqttCallers,   \* MQTT or Bemfa coroutines that disable the device
    StartFrom,     \* who may enable the device, a subset of {"http", "mqtt"}
    Faults,        \* what may go wrong, see Fault
    Tasks,         \* identifiers of BLE tasks
    Jobs,          \* identifiers of rebuild jobs
    MAX_REBUILDS,
    None

Callers == HttpCallers \cup MqttCallers
Actors  == Callers \cup Jobs

\* exit: the loop raises; cleanup: it raises while it is being cancelled;
\* stuck: authentication dead end; hooks, resources: the rebuild itself raises.
Fault == {"exit", "cleanup", "stuck", "hooks", "resources"}

ASSUME SupervisorAssumption ==
    /\ IsFiniteSet(Tasks) /\ Tasks # {}
    /\ HttpCallers \cap MqttCallers = {} /\ Callers \cap Jobs = {}
    /\ (Callers \cup Jobs) \cap Tasks = {}
    /\ None \notin Tasks \cup HttpCallers \cup MqttCallers \cup Jobs
    /\ StartFrom \subseteq {"http", "mqtt"} /\ Faults \subseteq Fault
    /\ MAX_REBUILDS \in Nat

VARIABLES
    task,      \* _task
    stopping,  \* _stopping
    rebuilds,  \* _rebuilds
    job,       \* _rebuild_task
    loop,      \* loop[t]: none, running, or leaving (cancelled, in its cleanup)
    pc,        \* pc[a]: the await of actor a
    awaits,    \* awaits[a]: the task or job it waits for
    wish,      \* history: the last command, on or off
    gaveUp,    \* history: why the supervisor gave the device up
    crossed    \* history: a start or a rebuild met a stop() on its way, see Crossing

vars == <<task, stopping, rebuilds, job, loop, pc, awaits, wish, gaveUp, crossed>>

Alive(t)   == loop[t] # "none"
is_running == task # None /\ Alive(task)
JobPending == job # None /\ pc[job] # "idle"

NewTask(t) == ~Alive(t) /\ t # task /\ \A a \in Actors : awaits[a] # t
NewJob(j)  == pc[j] = "idle" /\ \A a \in Actors : awaits[a] # j

Finished(a) ==
    /\ pc' = [pc EXCEPT ![a] = "idle"]
    /\ awaits' = [awaits EXCEPT ![a] = None]

---------------------------------------------------------------------------
(* start()                                                                 *)

\* on_startup has started the device.
Init ==
    /\ \E t \in Tasks :
         /\ task = t
         /\ loop = [u \in Tasks |-> IF u = t THEN "running" ELSE "none"]
    /\ stopping = FALSE /\ rebuilds = 0 /\ job = None
    /\ pc = [a \in Actors |-> "idle"]
    /\ awaits = [a \in Actors |-> None]
    /\ wish = "on" /\ gaveUp = "no" /\ crossed = FALSE

Spawn == \E t \in Tasks :
    /\ NewTask(t)
    /\ task' = t /\ loop' = [loop EXCEPT ![t] = "running"]
    /\ gaveUp' = "no"

Start ==
    /\ stopping' = FALSE
    /\ IF is_running THEN UNCHANGED <<task, loop, gaveUp>> ELSE Spawn
    /\ UNCHANGED <<rebuilds, job, pc, awaits>>

\* _start_lock is free: no HTTP request is inside stop().
LockFree == \A c \in HttpCallers : pc[c] = "idle"

Quiet == \A a \in Actors : pc[a] = "idle"

\* A command that starts the device inside a stop() or a rebuild leaves the stop
\* awaiting one task and the supervisor holding another.
Crossing == crossed' = (crossed \/ ~Quiet)

\* handle_enable asks is_running before it calls start().
EnableByHttp ==
    /\ "http" \in StartFrom /\ LockFree
    /\ wish' = "on" /\ Crossing
    /\ IF is_running
       THEN UNCHANGED <<task, stopping, rebuilds, job, loop, pc, awaits, gaveUp>>
       ELSE Start

\* MQTT and Bemfa: call_soon_threadsafe(rt.supervisor.start).
EnableByMqtt == "mqtt" \in StartFrom /\ wish' = "on" /\ Crossing /\ Start

---------------------------------------------------------------------------
(* stop() and, for a job of schedule_rebuild, the rest of _do_rebuild().   *)

Stopped(a, flag) ==
    /\ task' = None /\ stopping' = flag
    /\ Finished(a)
    /\ UNCHANGED <<loop, rebuilds, gaveUp>>

\* _do_rebuild after its stop(): new manager, hooks, start().
Rebuilt(j) ==
    /\ rebuilds' = 0 /\ stopping' = FALSE
    /\ Spawn /\ Finished(j)

\* The new manager or one of its hooks raises: the error is logged, that is all.
RebuildFails(j, flag) ==
    /\ "resources" \in Faults
    /\ task' = None /\ stopping' = flag /\ gaveUp' = "resources"
    /\ Finished(j)
    /\ UNCHANGED <<loop, rebuilds>>

StopReturns(a, flag) ==
    IF a \in Callers THEN Stopped(a, flag)
    ELSE Rebuilt(a) \/ RebuildFails(a, flag)

\* Mutated form: stop() does not cancel the task, it only reaps a dead one.
ReapNoCancel(a, flag) == StopReturns(a, flag)

\* request_stop(), cancel the task, await it.
Reap(a, flag) ==
    IF is_running
    THEN /\ loop' = [loop EXCEPT ![task] = "leaving"]
         /\ pc' = [pc EXCEPT ![a] = "task"]
         /\ awaits' = [awaits EXCEPT ![a] = task]
         /\ stopping' = flag
         /\ UNCHANGED <<task, rebuilds, gaveUp>>
    ELSE StopReturns(a, flag)

\* Mutated form: stop() leaves a pending rebuild job alone.
StopKeepsJob(a) == Reap(a, TRUE) /\ UNCHANGED job

\* A job in its back-off or before its first step dies of the cancellation;
\* one that is inside stop() swallows it (contextlib.suppress) and goes on,
\* also when the job cancels and awaits itself.
Stop(a) ==
    IF JobPending
    THEN /\ stopping' = TRUE
         /\ pc' = [pc EXCEPT
                    ![job] = IF @ \in {"delay", "new"} THEN "idle" ELSE @,
                    ![a] = "rebuild"]
         /\ awaits' = [awaits EXCEPT ![a] = job]
         /\ UNCHANGED <<task, rebuilds, job, loop, gaveUp>>
    ELSE Reap(a, TRUE) /\ UNCHANGED job

DisableByHttp(c) ==
    /\ c \in HttpCallers /\ LockFree
    /\ wish' = "off" /\ UNCHANGED crossed
    /\ Stop(c)

DisableByMqtt(c) ==
    /\ c \in MqttCallers /\ pc[c] = "idle"
    /\ wish' = "off" /\ UNCHANGED crossed
    /\ Stop(c)

\* The awaited job is over; a job that awaits itself is resumed at once.
JobGone(a) == awaits[a] = a \/ pc[awaits[a]] = "idle"

AfterJob(a) ==
    /\ pc[a] = "rebuild" /\ JobGone(a)
    /\ job' = None
    /\ Reap(a, stopping)
    /\ UNCHANGED <<wish, crossed>>

\* Mutated form: stop() awaits whatever self._task is by then.
AfterTaskReread(a) ==
    /\ pc[a] = "task" /\ ~is_running
    /\ StopReturns(a, stopping)
    /\ UNCHANGED <<job, wish, crossed>>

AfterTask(a) ==
    /\ pc[a] = "task" /\ ~Alive(awaits[a])
    /\ StopReturns(a, stopping)
    /\ UNCHANGED <<job, wish, crossed>>

---------------------------------------------------------------------------
(* The BLE task ends: _on_done(), _schedule_rebuild(), _rebuild_after().   *)

\* Mutated form: the budget allows one rebuild too many.
ScheduleRebuildOffByOne ==
    IF rebuilds > MAX_REBUILDS
    THEN gaveUp' = "budget" /\ UNCHANGED <<rebuilds, job, pc>>
    ELSE /\ rebuilds' = rebuilds + 1 /\ UNCHANGED gaveUp
         /\ \E j \in Jobs : /\ NewJob(j)
                            /\ job' = j /\ pc' = [pc EXCEPT ![j] = "delay"]

ScheduleRebuild ==
    IF rebuilds >= MAX_REBUILDS
    THEN gaveUp' = "budget" /\ UNCHANGED <<rebuilds, job, pc>>
    ELSE /\ rebuilds' = rebuilds + 1 /\ UNCHANGED gaveUp
         /\ \E j \in Jobs : /\ NewJob(j)
                            /\ job' = j /\ pc' = [pc EXCEPT ![j] = "delay"]

\* Mutated form: _on_done schedules no rebuild.
OnErrorIgnored == UNCHANGED <<rebuilds, job, pc, gaveUp>>

OnError ==
    IF stopping THEN UNCHANGED <<rebuilds, job, pc, gaveUp>> ELSE ScheduleRebuild

\* A coroutine is ready to run.  A failure of the loop is the outcome of an
\* I/O wait, and asyncio runs what is ready before it polls for I/O again.
Ready(a) ==
    \/ pc[a] = "new"
    \/ pc[a] = "rebuild" /\ JobGone(a)
    \/ pc[a] = "task" /\ ~Alive(awaits[a])

Polled == \A a \in Actors : ~Ready(a)

Exit(t) ==
    /\ Polled
    /\ \/ loop[t] = "running" /\ "exit" \in Faults
       \/ loop[t] = "leaving" /\ "cleanup" \in Faults
    /\ loop' = [loop EXCEPT ![t] = "none"]
    /\ OnError
    \* A rebuild has cleared the flag of the stop() that cancelled the task.
    /\ crossed' = (crossed \/ (loop[t] = "leaving" /\ ~stopping))
    /\ UNCHANGED <<task, stopping, awaits, wish>>

\* A cancelled task ends its cleanup: cancelled or returned, never rebuilt.
Leave(t) ==
    /\ loop[t] = "leaving"
    /\ loop' = [loop EXCEPT ![t] = "none"]
    /\ UNCHANGED <<task, stopping, rebuilds, job, pc, awaits, wish, gaveUp, crossed>>

\* L3 from the task itself: schedule_rebuild() unless a job is pending; the
\* loop returns in the same step, because no await on the way suspends.
Stuck(t) ==
    /\ Polled /\ loop[t] = "running" /\ "stuck" \in Faults
    /\ loop' = [loop EXCEPT ![t] = "none"]
    /\ IF JobPending
       THEN UNCHANGED <<job, pc>>
       ELSE \E j \in Jobs : /\ NewJob(j)
                            /\ job' = j /\ pc' = [pc EXCEPT ![j] = "new"]
    /\ UNCHANGED <<task, stopping, rebuilds, awaits, wish, gaveUp, crossed>>

\* The first step of _do_rebuild.
DoRebuild(j) ==
    /\ pc[j] = "new"
    /\ Stop(j)
    /\ UNCHANGED <<wish, crossed>>

\* Mutated form: the retry does not count against the budget.
HooksFailUncounted(j) ==
    /\ UNCHANGED <<rebuilds, gaveUp>>
    /\ \E k \in Jobs :
         /\ NewJob(k) /\ job' = k
         /\ pc' = [pc EXCEPT ![j] = "idle", ![k] = "delay"]
    /\ UNCHANGED awaits

\* A rebuild hook raises: _schedule_rebuild() again.
HooksFail(j) ==
    \/ /\ rebuilds >= MAX_REBUILDS
       /\ gaveUp' = "budget" /\ Finished(j)
       /\ UNCHANGED <<rebuilds, job>>
    \/ /\ rebuilds < MAX_REBUILDS
       /\ rebuilds' = rebuilds + 1
       /\ \E k \in Jobs :
            /\ NewJob(k) /\ job' = k
            /\ pc' = [pc EXCEPT ![j] = "idle", ![k] = "delay"]
       /\ UNCHANGED <<gaveUp, awaits>>

\* The back-off is over.
RebuildAfter(j) ==
    /\ pc[j] = "delay"
    /\ \/ /\ stopping /\ Finished(j)
          /\ UNCHANGED <<task, loop, rebuilds, job, gaveUp>>
       \/ /\ ~stopping /\ Spawn /\ Finished(j)
          /\ UNCHANGED <<rebuilds, job>>
       \/ /\ ~stopping /\ "hooks" \in Faults
          /\ HooksFail(j)
          /\ UNCHANGED <<task, loop>>
    /\ UNCHANGED <<stopping, wish, crossed>>

---------------------------------------------------------------------------
\* Bound: after a first crossing no further loop is started and nothing more fails.
Command == ((~crossed \/ is_running) /\ (EnableByHttp \/ EnableByMqtt))
           \/ \E c \in Callers : DisableByHttp(c) \/ DisableByMqtt(c)

Failure == ~crossed /\ \E t \in Tasks : Exit(t) \/ Stuck(t)

Progress(a) == AfterJob(a) \/ AfterTask(a)
JobStep(j)  == DoRebuild(j) \/ RebuildAfter(j)

Next ==
    \/ Command \/ Failure
    \/ \E t \in Tasks : Leave(t)
    \/ \E a \in Actors : Progress(a)
    \/ \E j \in Jobs : JobStep(j)

\* The event loop runs every ready coroutine; sleeps and the cleanup of a
\* cancelled task are bounded by timeouts.
Fairness ==
    /\ \A t \in Tasks : WF_vars(Leave(t))
    /\ \A a \in Actors : WF_vars(Progress(a))
    /\ \A j \in Jobs : WF_vars(JobStep(j))

Spec == Init /\ [][Next]_vars
FairSpec == Spec /\ Fairness
---------------------------------------------------------------------------
(* Properties.                                                             *)

TypeOK ==
    /\ task \in Tasks \cup {None} /\ job \in Jobs \cup {None}
    /\ stopping \in BOOLEAN
    /\ rebuilds \in 0..MAX_REBUILDS
    /\ loop \in [Tasks -> {"none", "running", "leaving"}]
    /\ pc \in [Actors -> {"idle", "delay", "new", "rebuild", "task"}]
    /\ \A c \in Callers : pc[c] \notin {"delay", "new"}
    /\ awaits \in [Actors -> Jobs \cup Tasks \cup {None}]
    /\ wish \in {"on", "off"}
    /\ gaveUp \in {"no", "budget", "resources"} /\ crossed \in BOOLEAN

\* The class docstring: the supervisor is the only holder of the task, so the
\* device never has two loops nor one that nobody can stop, unless a start has
\* crossed a stop().
SoleOwner == crossed \/ \A t \in Tasks : Alive(t) => t = task

\* Once every stop() and rebuild is over, a device whose last command was off
\* runs no loop: a rebuild must not undo a stop() that came after it.  No start
\* has crossed a stop() here and below.
DisabledIsDown == Quiet /\ ~crossed /\ wish = "off" => \A t \in Tasks : ~Alive(t)

\* Once every stop() and rebuild is over, a device whose last command was on
\* runs, unless the supervisor gave it up: neither a failure of the loop nor a
\* rebuild that ran into a stop() loses the start() that came after.
EnabledIsUp == Quiet /\ ~crossed /\ wish = "on" /\ gaveUp = "no" => is_running

\* The supervisor's own notes are right while it works.
OneLoop == TypeOK /\ SoleOwner

\* The last command wins over whatever was under way.
LastCommandWins == DisabledIsDown /\ EnabledIsUp

\* Every stop() returns, also the one a rebuild job runs inside itself.
EveryStopReturns == \A a \in Actors : pc[a] # "idle" ~> pc[a] = "idle"

\* A device that should run and does not is started again, or the supervisor
\* has logged that it gives the device up: no loop dies unnoticed.
NoSilentDeath ==
    wish = "on" /\ ~is_running ~> is_running \/ wish = "off" \/ gaveUp # "no" \/ crossed

\* stop, start and the jobs of a rebuild leave neither a caller nor a device waiting.
NothingHangs == EveryStopReturns /\ NoSilentDeath
===========================================================================
