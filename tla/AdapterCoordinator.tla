------------------------ MODULE AdapterCoordinator ------------------------
(***************************************************************************)
(* The shared Bluetooth adapter of the server process: AdapterCoordinator  *)
(* (ble_server/adapter_coordinator.py) together with the connect / run /   *)
(* recover phases of the BLEManager task of every device, which are the    *)
(* only callers of the coordinator.                                        *)
(*                                                                         *)
(* One event loop runs all the tasks, so an action is what a task does     *)
(* between two awaits.  pc[d] is the await the task of device d is in:     *)
(*                                                                         *)
(*   stopped   no task (disabled, or between two managers of a rebuild)    *)
(*   gate      before recovery_gate.wait()                                 *)
(*   slot      past the gate, waiting for connect_sem                      *)
(*   connect   holds a slot: scan, GATT connect, settle                    *)
(*   auth      holds a slot: authenticate()                                *)
(*   initial   holds a slot: authenticated and registered, first reads     *)
(*   run       the main loop, the slot is free again                       *)
(*   cleanup   in _disconnect(), in the finally of the reconnect loop      *)
(*   l1        recover_device: bluetoothctl disconnect of its own MAC      *)
(*   l1done    recover_device: the one-second sleep after it               *)
(*   remove    recover_device: bluetoothctl remove                         *)
(*   lock      recover_adapter: waiting for adapter_lock                   *)
(*   quiesce   holds adapter_lock, gate closed: L1 of the live links, then *)
(*             bluetoothctl power off                                      *)
(*   off       the power cycle: three seconds, then bluetoothctl power on  *)
(*   on        the power cycle: probing                                    *)
(*   delay     waiting before the next attempt                             *)
(*                                                                         *)
(* A bluetoothctl process outlives the coroutine that awaits it: neither   *)
(* the five-second timeout nor a cancellation takes its command back.      *)
(***************************************************************************)
EXTENDS Integers, FiniteSets

CONSTANTS
    Devices,         \* the chargers that may be registered
    ConnectLimit,    \* permits of connect_sem
    L1BeforeRemove,  \* L1_FAILURES_BEFORE_REMOVE
    L15BeforeAdapter,\* L15_FAILURES_BEFORE_ADAPTER
    BackoffAlert,    \* L15_BACKOFF_ALERT, the counter of a backoff saturates there
    CancelAt,        \* the phases in which the supervisor may cancel a task
    NoOne            \* nobody holds adapter_lock

Slotted   == {"connect", "auth", "initial"}
Critical  == {"quiesce", "off", "on"}
Phases    == {"stopped", "gate", "slot", "run", "cleanup", "l1", "l1done",
              "remove", "lock", "delay"} \cup Slotted \cup Critical
Reasons   == {"none", "stop", "missing", "error", "auth"}

ASSUME ConstantsAssumption ==
    /\ IsFiniteSet(Devices) /\ Devices # {} /\ NoOne \notin Devices
    /\ ConnectLimit \in Nat \ {0}
    /\ L1BeforeRemove \in Nat /\ L15BeforeAdapter \in Nat
    /\ BackoffAlert \in Nat \ {0}
    /\ CancelAt \subseteq Phases \ {"stopped"}

VARIABLES
    registered,\* the devices of the registry, fixed when the server starts
    pc,        \* pc[d]: the await the task of d is in
    why,       \* why[d]: the exception that ended the last attempt
    gate,      \* recovery_gate.is_set()
    lock,      \* holder of adapter_lock
    permits,   \* free permits of connect_sem
    live,      \* live_connections
    ctrl,      \* the registered links whose manager has a controller (self.ctrl),
               \* without which it does not unregister them
    l1f,       \* _l1_failures, saturating
    l15f,      \* _l15_failures, saturating
    backoff,   \* the count field of _l15_backoff, 0 when there is no entry
    powered,   \* the adapter has power
    late,      \* power commands that still run although nobody awaits them
    victims,   \* live links the running L2 still has to disconnect
    quiesced,  \* history: links the running L2 has disconnected
    orphans,   \* history: entries of live_connections whose clean-up was cut off
    cut,       \* history: a power cycle was cut off, or a command of it failed
               \* or is late, and no later cycle has made good for it
    tries      \* history: recoveries of d since its last successful connection

taskVars   == <<pc, why>>
powerVars  == <<powered, late, cut>>
gateVars   == <<gate, lock, victims, quiesced, powerVars>>
linkVars   == <<live, ctrl, orphans>>
ladderVars == <<l1f, l15f, backoff, tries>>
vars == <<registered, taskVars, gateVars, permits, linkVars, ladderVars>>

device_count == Cardinality(registered)
Saturate(n, cap) == IF n > cap THEN cap ELSE n

Goto(d, phase) == pc' = [pc EXCEPT ![d] = phase]
Because(d, reason) == why' = [why EXCEPT ![d] = reason]

---------------------------------------------------------------------------
(* The connect window: gate, slot, scan and connect, authenticate.         *)

Init ==
    /\ registered \in SUBSET Devices \ {{}}
    /\ pc = [d \in Devices |-> "stopped"]
    /\ why = [d \in Devices |-> "none"]
    /\ gate = TRUE /\ lock = NoOne /\ permits = ConnectLimit
    /\ live = {} /\ ctrl = {} /\ orphans = {}
    /\ powered = TRUE /\ late = {} /\ cut = FALSE
    /\ l1f = [d \in Devices |-> 0]
    /\ l15f = [d \in Devices |-> 0]
    /\ backoff = [d \in Devices |-> 0]
    /\ tries = [d \in Devices |-> 0]
    /\ victims = {} /\ quiesced = {}

\* RuntimeSupervisor.start() spawns the task, manager.start() enters its loop;
\* after a rebuild it is that of a new manager, which has no controller.
Start(d) ==
    /\ pc[d] = "stopped"
    /\ Goto(d, "gate") /\ Because(d, "none")
    /\ ctrl' \in {ctrl, ctrl \ {d}}
    /\ UNCHANGED <<gateVars, permits, live, orphans, ladderVars>>

\* Mutated form: the reconnect loop does not stop at the gate.
WaitRecoveryGateNoGate(d) ==
    /\ pc[d] = "gate"
    /\ Goto(d, "slot")
    /\ UNCHANGED <<why, gateVars, permits, linkVars, ladderVars>>

WaitRecoveryGate(d) ==
    /\ pc[d] = "gate" /\ gate
    /\ Goto(d, "slot")
    /\ UNCHANGED <<why, gateVars, permits, linkVars, ladderVars>>

\* Mutated form: the semaphore does not count its waiters out.
AcquireSlotUnlimited(d) ==
    /\ pc[d] = "slot"
    /\ permits' = permits - 1
    /\ Goto(d, "connect")
    /\ UNCHANGED <<why, gateVars, linkVars, ladderVars>>

\* Mutated form: nobody connects while another link is registered.
AcquireSlotAlone(d) ==
    /\ pc[d] = "slot" /\ permits > 0 /\ live = {}
    /\ permits' = permits - 1
    /\ Goto(d, "connect")
    /\ UNCHANGED <<why, gateVars, linkVars, ladderVars>>

AcquireSlot(d) ==
    /\ pc[d] = "slot" /\ permits > 0
    /\ permits' = permits - 1
    /\ Goto(d, "connect")
    /\ UNCHANGED <<why, gateVars, linkVars, ladderVars>>

\* _connect_locked() makes a new controller once the scan has found the device.
HasController(d) == ctrl' = ctrl \cup ({d} \cap live)

\* Scan, GATT connect and settle succeed: needs a powered adapter.
Connect(d) ==
    /\ pc[d] = "connect" /\ powered
    /\ HasController(d)
    /\ Goto(d, "auth")
    /\ UNCHANGED <<why, gateVars, permits, live, orphans, ladderVars>>

\* Mutated form: a connection does not clear the backoff entry.
ForgetFailuresKeepBackoff(d) ==
    /\ l1f' = [l1f EXCEPT ![d] = 0] /\ l15f' = [l15f EXCEPT ![d] = 0]
    /\ UNCHANGED backoff

\* Mutated form: a connection does not clear the failure counters.
ForgetFailuresKeepCounters(d) ==
    /\ backoff' = [backoff EXCEPT ![d] = 0]
    /\ UNCHANGED <<l1f, l15f>>

\* Pop both failure counters and clear_backoff(mac).
ForgetFailures(d) ==
    /\ l1f' = [l1f EXCEPT ![d] = 0] /\ l15f' = [l15f EXCEPT ![d] = 0]
    /\ backoff' = [backoff EXCEPT ![d] = 0]

\* authenticate() succeeded: note_connected registers the link.
NoteConnected(d) ==
    /\ pc[d] = "auth" /\ powered
    /\ live' = live \cup {d} /\ ctrl' = ctrl \cup {d} /\ orphans' = orphans \ {d}
    /\ ForgetFailures(d) /\ tries' = [tries EXCEPT ![d] = 0]
    /\ Goto(d, "initial")
    /\ UNCHANGED <<why, gateVars, permits>>

\* _connect() returns, connect_slot() gives the permit back.
EnterRun(d) ==
    /\ pc[d] = "initial"
    /\ permits' = permits + 1
    /\ Goto(d, "run")
    /\ UNCHANGED <<why, gateVars, linkVars, ladderVars>>

\* Mutated form: the permit is lost when the connect window raises.
ReleaseSlotLeak(d) == UNCHANGED permits

\* Leaving "async with connect_sem", by return or by exception.
ReleaseSlot(d) ==
    permits' = IF pc[d] \in Slotted THEN permits + 1 ELSE permits

\* An exception ends the attempt and the loop enters its finally.  The scan
\* finds nothing (find_device makes that of every failure of a scan, the one
\* of an adapter without power too), the device rejects the authentication,
\* or the link fails in any later phase.
AttemptFails(d) ==
    /\ \/ pc[d] = "connect" /\ Because(d, "missing") /\ UNCHANGED ctrl
       \/ pc[d] = "connect" /\ Because(d, "error") /\ HasController(d)
       \/ pc[d] = "auth" /\ UNCHANGED ctrl /\ \E r \in {"auth", "error"} : Because(d, r)
       \/ pc[d] \in {"initial", "run"} /\ UNCHANGED ctrl /\ Because(d, "error")
    /\ ReleaseSlot(d)
    /\ Goto(d, "cleanup")
    /\ UNCHANGED <<gateVars, live, orphans, ladderVars>>

\* unregister_connection(): nobody waits for the entry of d any more.
Unregister(d) ==
    live' = live \ {d} /\ ctrl' = ctrl \ {d} /\ orphans' = orphans \ {d}

\* Mutated form: _disconnect() does not unregister the link.
UnregisterOnDisconnectNever(d) == ctrl' = ctrl \ {d} /\ UNCHANGED <<live, orphans>>

\* The first half of _disconnect(), up to the last await: only a manager with
\* a controller unregisters the link.
UnregisterOnDisconnect(d) ==
    IF d \in ctrl THEN Unregister(d) ELSE UNCHANGED linkVars

\* What the loop does after the finally, by the exception that got it there.
AfterCleanup(reason) ==
    IF reason = "stop" THEN "stopped"
    ELSE IF reason = "missing" THEN "delay" ELSE "l1"

\* _disconnect() runs to its end.
Disconnect(d) ==
    /\ pc[d] = "cleanup"
    /\ UnregisterOnDisconnect(d)
    /\ Goto(d, AfterCleanup(why[d]))
    /\ UNCHANGED <<why, gateVars, permits, ladderVars>>

---------------------------------------------------------------------------
(* recover_device: the ladder L1, L1.5, L2.                                *)

L1Disconnect(d) ==
    /\ pc[d] = "l1"
    /\ Unregister(d)
    /\ tries' = [tries EXCEPT ![d] = Saturate(@ + 1, L1BeforeRemove + 1)]
    /\ Goto(d, "l1done")
    /\ UNCHANGED <<why, gateVars, permits, l1f, l15f, backoff>>

\* After the sleep: one device goes straight to L2, several climb the ladder.
LadderAfterL1(d) ==
    /\ pc[d] = "l1done"
    /\ IF device_count <= 1
       THEN Goto(d, "lock") /\ UNCHANGED l1f
       ELSE /\ l1f' = [l1f EXCEPT ![d] = Saturate(@ + 1, L1BeforeRemove + 1)]
            /\ Goto(d, IF l1f'[d] <= L1BeforeRemove THEN "delay" ELSE "remove")
    /\ UNCHANGED <<why, gateVars, permits, linkVars, l15f, backoff, tries>>

CanResetAdapter == device_count <= 1 \/ live = {}

DeclareBackoff(d) ==
    backoff' = [backoff EXCEPT ![d] = Saturate(@ + 1, BackoffAlert)]

\* The BlueZ cache entry is gone: stay in L1.5 backoff or go on to L2.
LadderAfterRemove(d) ==
    /\ pc[d] = "remove"
    /\ l15f' = [l15f EXCEPT ![d] = Saturate(@ + 1, L15BeforeAdapter + 1)]
    /\ IF \/ device_count > 1 /\ live # {} /\ l15f'[d] <= L15BeforeAdapter
          \/ ~CanResetAdapter
       THEN DeclareBackoff(d) /\ Goto(d, "delay")
       ELSE UNCHANGED backoff /\ Goto(d, "lock")
    /\ UNCHANGED <<why, gateVars, permits, linkVars, l1f, tries>>

---------------------------------------------------------------------------
(* recover_adapter: L2, under adapter_lock and behind the closed gate.     *)

CloseGate == gate' = FALSE

AcquireAdapter(d) ==
    /\ pc[d] = "lock" /\ lock = NoOne
    /\ lock' = d /\ CloseGate
    /\ victims' = live /\ quiesced' = {}
    /\ Goto(d, "quiesce")
    /\ UNCHANGED <<why, powerVars, permits, linkVars, ladderVars>>

\* An entry that a cut clean-up has left behind is no link: nothing is there
\* to stay out.
QuiesceLink(d) ==
    /\ pc[d] = "quiesce"
    /\ \E v \in victims :
         /\ victims' = victims \ {v}
         /\ quiesced' = quiesced \cup ({v} \ orphans)
         /\ Unregister(v)
    /\ UNCHANGED <<taskVars, gate, lock, powerVars, permits, ladderVars>>

\* What _bluetoothctl() may leave of a power command when its await is over: it
\* has taken effect, it has failed, or its process goes on without anybody.
\* At most one command is late at a time (the bound of the model).
CommandOutcome(on) ==
    \/ powered' = on /\ UNCHANGED late
    \/ UNCHANGED <<powered, late>>
    \/ late = {} /\ late' = {on} /\ UNCHANGED powered

\* The code cannot tell which: all three return b"" and the cycle goes on.  With
\* a command that has turned the adapter on, whatever an earlier cycle has left
\* is made good, unless a late command may still take effect.
Command(on) ==
    /\ CommandOutcome(on)
    /\ cut' = IF powered' # on \/ late' # {} THEN TRUE ELSE cut /\ ~on

\* Mutated form: L2 waits for the live links instead of disconnecting those it
\* has found.
PowerOffWhenQuiet(d) ==
    /\ pc[d] = "quiesce" /\ victims = {} /\ live = {}
    /\ Command(FALSE)
    /\ Goto(d, "off")
    /\ UNCHANGED <<why, gate, lock, victims, quiesced, permits, linkVars, ladderVars>>

\* All links are down: bluetoothctl power off.
PowerOff(d) ==
    /\ pc[d] = "quiesce" /\ victims = {}
    /\ Command(FALSE)
    /\ Goto(d, "off")
    /\ UNCHANGED <<why, gate, lock, victims, quiesced, permits, linkVars, ladderVars>>

\* Mutated form: the cycle goes on to the probes with the adapter still off.
PowerOnSkipped(d) ==
    /\ pc[d] = "off"
    /\ Goto(d, "on")
    /\ UNCHANGED <<why, gateVars, permits, linkVars, ladderVars>>

\* The sleep is over: bluetoothctl power on.
PowerOn(d) ==
    /\ pc[d] = "off"
    /\ Command(TRUE)
    /\ Goto(d, "on")
    /\ UNCHANGED <<why, gate, lock, victims, quiesced, permits, linkVars, ladderVars>>

\* A bluetoothctl that nobody awaits takes effect, or ends without one.
LateCommand ==
    /\ \E on \in late : late' = late \ {on} /\ powered' \in {on, powered}
    /\ UNCHANGED <<taskVars, gate, lock, victims, quiesced, cut, permits, linkVars,
                   ladderVars>>

\* The finally of recover_adapter and the exit of "async with adapter_lock".
LeaveAdapter(d) ==
    /\ IF pc[d] \in Critical
       THEN gate' = TRUE /\ lock' = NoOne /\ victims' = {} /\ quiesced' = {}
       ELSE UNCHANGED <<gate, lock, victims, quiesced>>

\* The probes end (ready, or 15 rounds without an answer): L2 is complete.
AdapterReady(d) ==
    /\ pc[d] = "on"
    /\ LeaveAdapter(d)
    /\ IF device_count <= 1 THEN UNCHANGED <<l1f, l15f, backoff>>
                            ELSE ForgetFailures(d)
    /\ Goto(d, "delay")
    /\ UNCHANGED <<why, powerVars, permits, linkVars, tries>>

Retry(d) ==
    /\ pc[d] = "delay"
    /\ Goto(d, "gate") /\ Because(d, "none")
    /\ UNCHANGED <<gateVars, permits, linkVars, ladderVars>>

\* L3 of a device stuck in authentication: restart_device() schedules the
\* rebuild of this manager and forgets its failures (module AuthRecovery says
\* when); the manager leaves its loop.
RestartDevice(d) ==
    /\ pc[d] = "delay" /\ why[d] = "auth" /\ device_count > 1
    /\ ForgetFailures(d)
    /\ Goto(d, "stopped")
    /\ UNCHANGED <<why, gateVars, permits, linkVars, tries>>

---------------------------------------------------------------------------
(* RuntimeSupervisor.stop() cancels the task in whatever await it is in.   *)

\* Mutated form: a cancelled recover_adapter forgets to open the gate.
LeaveAdapterOnCancelNoFinally(d) ==
    /\ lock' = IF pc[d] \in Critical THEN NoOne ELSE lock
    /\ UNCHANGED <<gate, victims, quiesced>>

LeaveAdapterOnCancel(d) == LeaveAdapter(d)

\* What a cancelled await leaves of the links: a scan has found the device or
\* not; _disconnect() had come to its last await or not, and then nobody
\* unregisters the link any more.
LinksOnCancel(d) ==
    CASE pc[d] = "connect" ->
           (HasController(d) \/ UNCHANGED ctrl) /\ UNCHANGED <<live, orphans>>
      [] pc[d] = "cleanup" ->
           \/ UnregisterOnDisconnect(d)
           \/ orphans' = orphans \cup ({d} \cap live) /\ UNCHANGED <<live, ctrl>>
      [] OTHER -> UNCHANGED linkVars

\* ... and of the power: a command that was awaited has taken effect, has
\* failed (or had not been started) or goes on.
PowerOnCancel(d) ==
    /\ CASE pc[d] = "quiesce" /\ victims = {} -> CommandOutcome(FALSE)
         [] pc[d] = "off" -> CommandOutcome(TRUE)
         [] OTHER -> UNCHANGED <<powered, late>>
    /\ cut' = (cut \/ pc[d] = "off" \/ (pc[d] = "quiesce" /\ victims = {}))

\* Inside the try of the loop (gate to run) the cancellation is caught and
\* _disconnect() runs; in _disconnect() itself or outside the try it ends the
\* task on the spot, without the statements that were still to come.
Cancel(d) ==
    /\ pc[d] \in CancelAt
    /\ IF pc[d] \in {"gate", "slot", "run"} \cup Slotted
       THEN Goto(d, "cleanup") /\ Because(d, "stop")
       ELSE Goto(d, "stopped") /\ Because(d, "none")
    /\ ReleaseSlot(d)
    /\ LeaveAdapterOnCancel(d)
    /\ LinksOnCancel(d) /\ PowerOnCancel(d)
    /\ UNCHANGED ladderVars

---------------------------------------------------------------------------
\* What the task of d does by itself, in bounded time: every await in it has
\* a timeout, except the three waits and the main loop.
Progress(d) ==
    \/ Connect(d) \/ NoteConnected(d) \/ EnterRun(d)
    \/ pc[d] # "run" /\ AttemptFails(d)
    \/ Disconnect(d)
    \/ L1Disconnect(d) \/ LadderAfterL1(d) \/ LadderAfterRemove(d)
    \/ QuiesceLink(d) \/ PowerOff(d) \/ PowerOn(d) \/ AdapterReady(d)
    \/ Retry(d)

Waits(d) == WaitRecoveryGate(d) \/ AcquireSlot(d) \/ AcquireAdapter(d)

LinkLost(d) == pc[d] = "run" /\ AttemptFails(d)

Step(d) ==
    Start(d) \/ Progress(d) \/ Waits(d) \/ LinkLost(d) \/ RestartDevice(d)
             \/ Cancel(d)

Next == UNCHANGED registered /\ (LateCommand \/ \E d \in registered : Step(d))

\* asyncio runs every ready task: WF for the bounded awaits.  Semaphore and
\* Lock serve their waiters in FIFO order and Event.set() wakes all waiters:
\* SF for the three waits, of which a task is in one at a time.
Fairness == \A d \in Devices :
    /\ WF_vars(UNCHANGED registered /\ Progress(d))
    /\ SF_vars(UNCHANGED registered /\ Waits(d))

Spec == Init /\ [][Next]_vars
FairSpec == Spec /\ Fairness
---------------------------------------------------------------------------
(* Properties.                                                             *)

TypeOK ==
    /\ registered \subseteq Devices
    /\ pc \in [Devices -> Phases] /\ why \in [Devices -> Reasons]
    /\ gate \in BOOLEAN /\ powered \in BOOLEAN /\ late \subseteq BOOLEAN /\ cut \in BOOLEAN
    /\ lock \in Devices \cup {NoOne}
    /\ permits \in Nat
    /\ live \subseteq Devices /\ ctrl \subseteq live /\ orphans \subseteq live
    /\ victims \subseteq Devices /\ quiesced \subseteq Devices
    /\ l1f \in [Devices -> 0..L1BeforeRemove + 1]
    /\ l15f \in [Devices -> 0..L15BeforeAdapter + 1]
    /\ backoff \in [Devices -> 0..BackoffAlert]
    /\ tries \in [Devices -> 0..L1BeforeRemove + 1]

\* A closed gate always has the one L2 behind it that will open it again, and
\* a running L2 always has the gate closed, wherever tasks are cancelled: a
\* gate nobody opens stops every device ("finally" of recover_adapter).
GateGuardsRecovery ==
    /\ gate <=> lock = NoOne
    /\ \A d \in Devices : lock = d <=> pc[d] \in Critical

\* No permit of connect_sem leaks, through any exception or cancellation in
\* the connect window, and none is given back twice (connect_slot).
SlotHolders == {d \in Devices : pc[d] \in Slotted}
SlotsConserved == permits + Cardinality(SlotHolders) = ConnectLimit

\* connect_sem and every other variable are what they should be.
SlotsHold == TypeOK /\ SlotsConserved

\* A registered link belongs to a task that will unregister it, unless the task
\* was cancelled inside the clean-up of that link; an entry nobody takes back
\* forbids every L2 of the other devices (live_connections against the phases
\* of BLEManager, _disconnect).
RegisteredIsServed ==
    \A d \in live \ orphans : pc[d] \in {"initial", "run", "cleanup"} /\ d \in ctrl

\* A connected device is never reported as stuck in L1.5 backoff
\* (note_connected against _declare_backoff, read by /api/devices).
BackoffOnlyOffline == \A d \in Devices : backoff[d] > 0 => d \notin live

\* Several devices: nobody removes its BlueZ cache entry or power-cycles the
\* adapter unless more than L1_FAILURES_BEFORE_REMOVE recoveries failed since
\* its last successful connection (the ladder must not skip a rung).
EscalationIsEarned ==
    \A d \in Devices :
        device_count > 1 /\ pc[d] \in {"remove", "lock"} \cup Critical
            => tries[d] > L1BeforeRemove

\* The ladder is climbed rung by rung, only offline, and blocked by nothing but
\* links that are there or whose clean-up was cut off.
LadderInOrder == RegisteredIsServed /\ BackoffOnlyOffline /\ EscalationIsEarned

\* A link that the running L2 has disconnected does not come back before the
\* gate opens (the gate against the connect window of every other task).
QuiescedStayOut == live \cap quiesced = {}

\* The managers are let in again with the adapter off only if a power cycle was
\* cancelled between power off and power on, or a command of it failed, ran
\* into its timeout or came late; the next cycle that runs to its end makes
\* good for it (steps 3 and 4 of recover_adapter, and its finally).
OffOnlyAfterCut == gate => powered \/ cut

\* Every attempt gets past the gate and gets its slot, however often L2 runs.
EveryAttemptServed ==
    \A d \in Devices : pc[d] \in {"gate", "slot"} ~> pc[d] \notin {"gate", "slot"}

\* Every L2 ends: the gate never stays closed.
GateReopens == []<>gate

\* Nobody waits for ever: at the gate, for a slot, or for the end of an L2.
EveryoneGoesOn == EveryAttemptServed /\ GateReopens
===========================================================================
