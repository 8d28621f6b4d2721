# Verification of cuktech-ble-ha

TLA+ models of the BLE server (`src/ble_server`), of the MiOT protocol it speaks and of
the charge limits of its Home Assistant integration (`src/ha_integration`), checked
with TLC on small instances.  Every safety property that a run checks is also proved with
TLAPS, for every value of the constants: of the adapter coordinator, the merged scan, the
supervisor, the recovery ledger, the charge sessions and their detector, the login and the
command channel, the port commands, the port policy, the event queues and the status cache,
the limits of Home Assistant, the saving of the configuration, the voice entities and the
connection to the Bemfa cloud.  Liveness is model-checked.

`PROJECT.json` is the index: components, runs, mutated forms, the source lines
every definition stands for, hazards and theorems.

- [1. The system](#1-the-system)
- [2. Modules and plan](#2-modules-and-plan)
- [3. How the modules correspond to the code](#3-how-the-modules-correspond-to-the-code)
- [4. Runs](#4-runs)
- [5. Proofs](#5-proofs)
- [6. Where the code and its documentation disagree](#6-where-the-code-and-its-documentation-disagree)
- [7. What is not modelled](#7-what-is-not-modelled)

## 1. The system

A server process connects CUKTECH chargers over Bluetooth LE and offers them to
a web page, Home Assistant (MQTT and REST) and the Bemfa cloud.  One asyncio event loop
runs everything that matters; SQL goes to a thread pool, and the MQTT and Bemfa
clients call back from threads of their own.  Home Assistant runs an integration
that meters and limits by itself when its gateway is an ESP32, and delegates the
limits to the server when it is the Python server.

| Component | State it keeps | Operations | Hard behaviour |
|---|---|---|---|
| `AdapterCoordinator` (`adapter_coordinator.py`) | `recovery_gate`, `adapter_lock`, `scan_lock`, `connect_sem`, `live_connections`, `_pending`, `_l1_failures`, `_l15_failures`, `_l15_backoff`, `_stuck_devices` | `find_device`, `connect_slot`, `note_connected`, `recover_device`, `recover_adapter`, `restart_device` | one adapter for all devices: a recovery of one must not cut off the others, and cancellation arrives at any await |
| `BLEManager` (`ble_manager.py`), one per device: the loop | connection, `_auth_fail_count`, breaker | `start`, `_connect_and_run` | delays, breaker, budget and recovery interlock |
| its commands | `cmd_queue`, `state.settings`, `_last_port_ctl` | `send_command`, `_handle_port`, `_handle_set_command`, `_fetch_settings` | time-outs on both sides, read-modify-write over the air, a queue that outlives the link |
| its sessions | `_energy_states`, `_active_sessions` | `_start_session`, `_end_session`, callbacks | results of executor jobs arrive late |
| its policy | `_charge_limits`, `full_off`, `permanent_ports`, `_full_off_pending` | `_enforce_charge_limit`, `_enforce_full_off`, HTTP handlers | an automatic off is retried while requests and charges revoke it |
| `RuntimeSupervisor` (`ha_server.py`), one per device | `_task`, `_stopping`, `_rebuilds`, `_rebuild_task` | `start`, `stop`, `schedule_rebuild`, the done callback | HTTP, MQTT and Bemfa commands and rebuild jobs interleave at every await |
| restart ledger (`.auth_restarts.json`) | time stamps of L3 recoveries | `_allow_auth_restart`, `_note_auth_restart` | shared by all devices, outlives the process |
| `energy.py` | integrator, start gate, detector | `add`, `update`, `should_end` | gaps, sample rates, thresholds relative to the charge itself |
| `PortHistory` (`history.py`) | sqlite tables, two point buffers | sessions, points, settings, statistics | jobs of a thread pool in any order, failing statements, a killed process |
| `Server` (`ha_server.py`) | registry, SSE clients, status cache | HTTP handlers, MQTT and Bemfa subscriptions, `SSEEmitter` | read, await, write; clients that lag; an answer cached after its change |
| `controller.py` | login state, nonce counters, notification queues | `authenticate`, `send_miot_command`, `decrypt` | notifications come late, twice, interleaved or never |
| `ha_integration/` | tracker, limits, Store, mirror of the server | setup, samples, orders, polls, takeover | two owners of one limit, asynchronous writes, retained messages |
| `config.py` and the configuration page (`ha_server.py`) | config.yaml, the configuration the process was started with | `load_config`, `handle_config_save`, `_restart` | what is checked, what is on disk and what runs are three things; the save waits, is cut off, and restarts everything |
| Bemfa registration (`ha_server.py`, `bemfa_client.py`) | `bemfa.modified`, `bemfa_registered`, the topics at the cloud | `setup_bemfa`, `_register_topics`, `delete_topics` | names are fixed at the cloud; every call may fail, and the start may end between any two |
| `bemfa_client.py`: the connection | client, ping cycle, `_state_cache` | `_reconnect`, ping, pong, `publish_state`, `_on_message` | event loop, thread pool and paho's thread; half-open sockets |
| `web/` | device store | render, subscribe | revisions of events and polls |
| `esp32_ble/` | queues, BLE state machine | three FreeRTOS tasks | queues that block both ways |

How they interact:

- the reconnect loop of every device passes the coordinator's gate, takes a
  connect slot, looks for its charger with `find_device`, registers its link with
  `note_connected`, and after a failure climbs the ladder of `recover_device`
  (L1 disconnect, L1.5 remove from the BlueZ cache, L2 power cycle of the
  adapter), or, stuck in authentication, calls `restart_device` (L3);
- L2 closes the gate, disconnects all registered links, cycles the power and
  opens the gate; L3 rebuilds one device through its supervisor, or restarts the
  process when there is one device only;
- the supervisor owns the task of the loop: commands and rebuild jobs cancel it,
  in whatever await it is, and its done callback starts rebuilds;
- inside a connection the loop logs in, replays the pushes of the login, reads the
  settings, and then takes pushes, commands and refreshes in turn;
- pushes feed the energy detector, which opens and closes sessions; a session
  submits SQL jobs to the thread pool, and the row id of a new one comes back as a
  callback; the same samples drive limits and full-off, which put commands on
  `cmd_queue` like any caller;
- every change of the state invalidates the status cache and is emitted to the
  browsers and over MQTT; Home Assistant takes it from there, and Bemfa gets the
  switches;
- a saved configuration is written, the namespaces it leaves are cleared at the broker,
  and the process restarts, which stops the supervisors and registers the voice
  entities again.

What makes each modelled part correct:

- *coordinator*: every L2 opens its gate again; no slot, lock or registered link
  is lost through a cancellation; nobody skips a rung of the ladder; a link taken
  down for an L2 stays down until the gate opens; only a power cycle that was cut off or
  failed leaves the adapter off behind an open gate; every attempt is served in the end;
- *scan*: an awaited Future always has a leader at work; every call returns;
- *supervisor*: one loop at most; the last command wins; no loop dies unnoticed;
  every `stop()` returns;
- *recovery*: at most the budget of L3 recoveries per hour, over all devices and
  restarts, and one budget more for each time the ledger is lost; the L3 of one device spares the others; no loop stops trying;
- *protocol*: a login is refused only for a reason and always ends; the counters of
  both sides agree; a command reported done was done; readings are shown in order;
- *commands*: an order changes the ports it names only; ok is true; every call comes
  back; app and charger agree again after whatever went wrong;
- *policy*: a limit that is reached cuts the port in the end; a pending off is
  confirmed, revoked or given up, and never contradicts the settings; an outage
  spends no limit;
- *detector*: a charge ends only after it was quiet long enough, a quiet one does
  end, the residue of an ended one starts nothing, energy is counted once;
- *sessions*: the row in use is open; a delete takes the points along; a row is
  written once, by one session; an open row has somebody who will end it;
- *push*: a browser that keeps up or lags ends up with the true state of all it is sent;
- *Home Assistant*: the limit is the one that users and finished charges left,
  wherever it lives; a port is cut whatever commands are lost;
- *configuration*: what is on disk always starts; a token nobody typed over stays; every
  namespace that is left is cleared; what was saved comes to run;
- *Bemfa*: the cloud has the planned entities by their names and no others, and none is
  forgotten; one ping chain, which finds a dead connection; a state that was sent into a
  dead connection reaches the cloud with the next one.

The full list of hazards, with the line where each bites, is in `PROJECT.json`.

## 2. Modules and plan

| | Module | Models | State |
|---|---|---|---|
| 1 | `AdapterCoordinator` | coordinator with the connect, run and clean-up phases of its callers | checked |
| | `AdapterCoordinatorProofs` | theorems about 1 and 4: gate, ladder, slots; an awaited Future has a leader, one scan serves all | proved |
| 2 | `RuntimeSupervisor` | supervisor of one device with its callers and jobs | checked |
| 3 | `AuthRecovery` | breaker, authentication failures, ledger, L3 over all devices | checked |
| | `RecoveryProofs` | theorems about 2 and 3: one loop, the last command, the ledger | proved |
| 4 | `ScanMerge` | `find_device` | checked |
| 5 | `SessionLog` | abstract: what the session table promises | refined by 6 |
| 6 | `ChargeSession` | sessions of one port with thread pool and database | checked |
| | `ChargeSessionProofs` | theorems about 6 and 12: the row in use is open, an open row has somebody to end it, refinement of 5; energy, beginning and end of a charge | proved |
| 7 | `MiotAuth` | login handshake | part of 9 |
| 8 | `MiotLink` | encrypted command channel of one link | part of 9 |
| 9 | `MiotSession` | composition: login, channel, and again | checked |
| | `MiotSessionProofs` | why a login is refused; counters, commands and order of the readings of the channel | proved |
| 10 | `PortControl` | `cmd_queue`, callers, PIID 16 and 21, settings refresh, rebuild | checked |
| | `PortControlProofs` | orders are faithful; what the front ends know after a refresh | proved |
| 11 | `PortPolicy` | limits, full-off, port modes and the requests that change them | checked |
| | `PortPolicyProofs` | coherence, and what spends a limit | proved |
| 12 | `ChargeDetector` | start gate, session detector, integrator | checked |
| 13 | `EventPush` | SSE queues, status cache | checked |
| 14 | `HaLimits` | charge limits in Home Assistant | checked |
| | `FrontEndProofs` | theorems about 13 and 14: queues and cache, the limit is the wanted one | proved |
| 15 | `ConfigSave` | save, validation, purge, restart and start | part of 18 |
| 16 | `BemfaCloud` | entities at the cloud, flag and snapshot | part of 18 |
| 17 | `BemfaLink` | connection to the cloud, pings, states and orders | part of 18 |
| 18 | `ServerLife` | composition of 15, 16 and 17: one process after the other | checked |
| | `ServerLifeProofs` | the safety of the three parts in the whole | proved |
| 19 | ESP32 gateway, web device store | the other programs | not begun |

The modules whose `.cfg` needs a function, a set of records or a choice of initial states
have an `MC…` module with these definitions; the others are instantiated directly.  The order is that of
importance: what can stop every device comes first, then what can stop one, then
what can switch a port wrongly or lose data, then what only misleads.

Interfaces between the modules.  `RestartDevice` of `AdapterCoordinator` is the
step that `AuthRecovery` details; `Cancel` there is what `RuntimeSupervisor.stop`
does to the task; `Connect` there contains the `find_device` call that
`ScanMerge` details and the login that `MiotAuth` details.  `MiotSession` composes
the two halves of the protocol, which share no variable: the handshake runs only
while the channel is closed and opens it.  An exchange of `MiotLink` is one request
and its answer in `PortControl`, and a command of `PortControl` is one step,
confirmed or not, in `PortPolicy`.  The verdicts of `ChargeDetector` are free choices
in `PortPolicy` and `ChargeSession`.  What `HaLimits` knows of the server is the limit
that `PortPolicy` enforces.  `StopDevice` of `ConfigSave` is a `stop()` of `RuntimeSupervisor`.  They are kept apart
because each has a small state of its own and is a safe over-approximation of what the
others ask of it.

`ServerLife` composes three parts that do disturb each other.  They meet in config.yaml,
which holds the devices and the voice section: a save replaces it, and a start whose
section is flagged rewrites it in place, so that all it says of the devices is gone for a
moment.  And they meet in the end of the process, which cuts off a purge, a start and a
connection wherever they are.

What is left of the plan: the two programs of row 19, and what §7 lists.

## 3. How the modules correspond to the code

An action is what one task, request, callback or job does between two awaits;
`pc`, `phase`, `stage`, `step` and the like name the await it is in.  Variables that only
properties read are called *history* in the comments.

**`AdapterCoordinator`.**  `pc[d]` is the await of the task of device `d`, `why[d]` the
exception that the loop is handling.  `registered` is the set of devices of the
registry, chosen once: with one device L2 follows L1 directly, with several the
ladder applies, and the same run covers both.  `l1f`, `l15f` and `backoff` are the
tables of the code, saturating at the first value that no comparison tells from
larger ones.  `CancelAt` names the awaits in which the supervisor may cancel a
task, all of them in the run; a cancellation inside the loop's `try` goes through `_disconnect()`,
one in the recovery runs the `finally` of `recover_adapter` and ends the task, and one inside
`_disconnect()` may leave the registered link behind (`orphans`, a history variable).  `ctrl` says
whose manager has a controller, without which `_disconnect()` unregisters nothing.
A power command takes effect, fails silently, or runs on in the `bluetoothctl` that nobody awaits
any more (`late`, one at a time), after its time-out as well as after a cancellation; `cut`
is the history of a power cycle that was cut off or had such a command, until a whole one has made
good for it.  `victims`, `quiesced` and `tries` record what L2 still has to
disconnect, what it has disconnected and how many recoveries a device has been
through.  `l15f` is kept although `L15_FAILURES_BEFORE_ADAPTER` decides nothing: with
several devices and a live link the second test (`_can_reset_adapter`) stops the
same cases.  When `restart_device` escalates (a single device) the whole process
starts anew; that is in `AuthRecovery`.

**`RuntimeSupervisor`.**  Callers of `handle_enable` are serialised by `_start_lock`, the MQTT
and Bemfa coroutines are not.  `stop()` is three steps: cancel and await the
rebuild job, cancel and await the task, return.  A rebuild job awaiting itself
inside `stop()` is modelled as it happens: the cancellation is swallowed by
`contextlib.suppress`.  A failure of the loop is the result of an I/O wait, so it
comes only when no coroutine is ready (`Polled`).  `wish` is the last command, `gaveUp`
says that the supervisor has logged that it stops.  `crossed` is a history variable:
a start or a rebuild has met a `stop()` that was not over, after which the code
can be left with two loops or none (§6).  The properties are about everything up
to the first such crossing, and the model explores only the ends of the `stop()`s
after it.

**`AuthRecovery`.**  The loop of every device, with the ledger as the ages of its stamps in
ticks; `Crash` and `RestartProcess` keep nothing but the ledger.  A read of the ledger may fail and count
as an empty file (`Reads`), a write may be refused or fail once `open` has emptied the file
(`Files`), and the process may die between the two (`CrashWhileNoting`); `losses` counts what
went wrong, up to `LedgerFaults`, and each costs the property one budget at most.
`granted` is the history of L3 recoveries, kept apart from the file; `WithinWindow` drops from
either the stamps that have left the window.

**`ScanMerge`.**  Futures are identifiers that are used again once nobody refers to them.  A
follower awaits the Future itself, so cancelling the follower cancels it.

**`ChargeSession`.**  One port.  When a session begins and ends is a nondeterministic
choice; the energy is below or above the 0.05 Wh that decide between keeping and
deleting.  `jobs` is what the thread pool has not finished, in no order; `calls` are
finished `start_session` jobs whose callback has not run.  A row id is reserved when
the job is submitted (ids are never used again).  `Restart` is a kill or a restart
followed by `close_stale_sessions`.  `abandoned` is a history variable: rows that the
code leaves to the next restart on purpose or after a failed statement.

**`SessionLog`.**  A row is opened once, then written by one session, deleted, or settled by
a restart; no session is written twice.

**`MiotAuth`.**  `step` is the wait of `_try_authenticate`, `inq` and `ctl` are the two notification
queues, `out` what was written and not yet handled.  Frames are their kinds.  The
charger is external: it answers what the code waits for, may have lost the thread,
may owe frames of an earlier login, and may have another token.  `Slips` bounds the
answers that come too late or never between two logins; `excused` records that the attempt
met one.

**`MiotLink`.**  `pc` is where the one coroutine of the link stands.  The charger's counter
runs in `0..W*HIGHS-1`; frames carry its low half, the app keeps the high half
(`hi`, `last`) as `decrypt` does.  A port's readings are versions in order, `shown` what
the app shows.  A payload is decrypted with the counter that its first bytes show;
one collected without its first frame shows any (`garbled`).  `saved` are the pushes
of the login, replayed before the main loop.  An answer carries, as history, the SET it
answers: the code compares no sequence number, so `okd` counts a SET as reported done
only on an answer of its own.  `ShownGoesForward` excuses `garbled`: in a command's window a late
multi-frame answer begins, two pushes are collected in the place of its parts, and what they
left is collected by the next header, after a newer reading was shown.  It takes two frames
in flight on either side and 23 states; the run, which allows one push at a time, does not get there.
`Poll` may come at any time in the main loop, but need come only while the reading shown is in
`Reread` (`MustRead`): C3 and A are read every few seconds, whatever they show; C1 and C2 only with a
history and after 15 s without a sample, which an idle port never is (`_should_sample_port`) and a
charging one only if its integration stops.  So the run demands the poll for one reading
only, and `ShownCatchesUp` excuses a reading that nobody has to read anew.

**`MiotSession`.**  `LoggedIn` is `authenticate` returning True; `Close` is `_disconnect`.

**`PortControl`.**  The registers are sets: of ports that are on (PIID 16), of switches that
are on (PIID 21).  `queue` is `cmd_queue`, `putting` are callers waiting inside
`cmd_queue.put`, `jobs` and `air` the two directions of the radio.  A request is lost or
answered late at the cost of a fault; a late answer can meet the next wait for the
same register.  `met` says that what the command orders was true of the charger at
some moment since it was taken, `misled` that an older answer or a contrary report
came in between.  `touched` and `flipped` record which ports changed unseen, and which
the front ends were told of by a command; the masks on their way are the charger's
but for the first kind.  `Trust` and `OrderOnItsWay` say when that is so.

**`PortPolicy`.**  `m` is the manager's memory of one port, `db` its settings in the database,
`jobs` the write-backs in the pool, `req` the requests between two awaits.  A sample is
early or late: late means that the window it is asked about (debounce, confirmation
or retry) has run out.  `Release`, `ArmFullOff`, `Close`, `Revoke` and the enforcement operators are
functions on `m`, composed as the code calls them.  An automatic off in the queue is
a value of its own, so that a user's order is told from the policy's.

**`ChargeDetector`.**  Time and power are small integers.  `samples` is the detector's window,
each with its age; every elapsed time is an age, so that the model is finite
without a clock.  The window is in the order of the ages, so what is younger than some age is its
end (`Within`), and a median (`MedianSince`) is counted rather than sorted.  `Recovery` is the longest
of the runs of high samples, which the loop of `recovery_sec` adds up.  The assumptions on the windows
hold of the code's 20 s (`FAST`), 45 s (`RECOVER`), 90 s (`RECENT`), 180 s (`SLOW`) and 300 s (`ASSESS`); those on the
intervals say that no silence inside a session is longer than the whole window, and none so long that a
run of the gate (30 s) loses samples it counts: `_port_timer` samples a silent port every few seconds.  `Sample` is one push through gate, detector and integrator in the
order of `_manage_session`; `LinkLost` keeps what the code keeps.  History: how a
session ended, how long its device last drew more than the recovery threshold, the
energy since the gate's run began.

**`EventPush`.**  The state of a device is the version of its connection and of its
readings.  `queue` and `pending` are those of a client in `SSEEmitter`; `hand` is the message
in `resp.write`.  `poller` is a status request that has read the state and
serialises it in a thread.  `FullState`, the first message, has the readings of the primary
and only `connected` of the others; `owed` is the history of whose readings the stream has begun to
tell a browser, the primary's from the start and another's from its next change.  `view`, `heard`, `dropped` and `raced` are history.

**`HaLimits`.**  One port.  `phase` is how far `async_setup` has come; `saved`, `saving`, `storing`,
`setting` and `disk` are the steps between a changed limit and the file; `mirror`, `poll`
and `post` what is known of the server's limit and under way to it.  `Order` leaves the
mode out as the entities do.  `want` is the history of the limit as users and
finished charges left it, `lost` says that one of the two known ways of losing one
has happened.

**`ConfigSave`.**  A configuration is the base prefix, the primary's token and, for each further
device, a prefix (perhaps none: derived) and a token; `disk` is the file, `run` what the process
was started with.  A form is what a page sends: any combination, since pages are
loaded at any time, with `"****"` for a token it got masked.  `Save` is `handle_config_save` from
`request.json()` to `os.replace`, which has no await in between; it checks the fields that
devices share (`Accepts`), as both the probe in `_apply_devices_payload` and `load_config` do.
The other checks (MAC, hex, ports) concern one field and refuse a form without
effect.  Each namespace is then cleared by a step (`Purge`), or the middleware cuts the
handler off in its second one (`TimeOut`).  `StopDevice` is a turn of the loop in `_restart` with
the retained message of `_disconnect`.  The primary's `ble` section comes by the general
merge, as the page sends it.  `retained` is kept by namespace.  History: `typed`, `excused` (why a
prefix that is not in use may have messages), `cut`.

**`BemfaCloud`.**  A plan gives each entity id a name or none; `cloud` is the name it has there.
`section` is the part of config.yaml, `booted` what the process was started with.  `boot` is how far
`setup_bemfa` has come.  `todo` are the HTTP calls left, in no order but that of the two calls
for one topic, since calls for different topics do not touch each other; a failed call may
have had its effect.  `Truncate` and `Rewrite` are the two halves of `write_text`.  `missed` is the history of
what the exceptions of its properties name: a call, the snapshot or the file that failed.

**`BemfaLink`.**  One switch.  `session` is what the two ends know of the connection: a `"half"` one
is open here and dead there.  `job` is what runs in the thread pool, `chains` the
publish jobs that sleep: the 30 s of a ping outlast the 20 s in which its
answer is awaited, so they never overlap.  `OnConnect`, `Pong` and `Take` are paho's thread.
`LinkEnd` is `stop()` and the end of the process together; `setup_bemfa` runs once in a process, so
its own call of `stop()` finds no client.  The cloud is taken to show an order at once, and an
outage that the connection outlives is only a delay.  A state is published when the port changes, when a
command is confirmed and, as "off", at every login; `unsent` says that the port's is to be published.
`Send` keeps it for the next connect (`_state_cache`) only if there is a connection.  `slipped` is the
history of the cloud being left without the port's state by something the code does not make
good: a state that was dropped, an order that was ignored or not confirmed, the "off" of a login.

**`ServerLife`.**  An action is a step of one part, or of several where the code has them in
one: `LifeEnds` (`execv` or a death of the process) ends all three; `LifeBoot` reads one file for the
devices and for the voice section; `Connects` is the end of `BemfaClient.start`, which connects once the
topics are registered; `FileStep` takes the devices out of the file and puts back what
the start has read.  A save (`SaveDevices`, `SaveVoice`) comes only when the start is over, since the web
server listens after it; managers publish and run commands from then on.  The two kinds of
save are the same handler; each changes its own part and keeps the other's.

The initial states of `MCServerLife` are three lives: saves of the devices with the voice
off (`DevicesLife`), saves of the voice section with one set of devices (`VoiceLife`), the connection
with one plan (`LinkLife`).  Restarts, crashes and time-outs are in each; only the budgets differ.

## 4. Runs

| Run | Bounds | What it shows |
|---|---|---|
| `Adapter` | 1 or 2 of 2 devices, 1 slot, both ladder limits 1, cancellation at every await, 1 late power command | gate, slots, ladder and quiesce hold, power is lost only by a cut or failed cycle; everyone goes on |
| `SupFaults` | 1 HTTP and 2 MQTT callers that enable and disable, 3 tasks, 3 jobs, 2 rebuilds, crashes, failing hooks and clean-ups, L3 | one loop, the last command wins up to the first crossing; nothing hangs |
| `Auth` | 1 or 2 of 2 devices, 2 failures to L3, 2 recoveries in a window of 3 ticks, breaker at 3, crashes, 2 faults of the ledger | types and budget, L3 spares the others, every loop keeps trying |
| `Scan` | 2 tasks of one device and 1 of another, cancelled anywhere | no orphaned Future, one scan serves all, every call returns |
| `SessionAll` | 2 sessions, 2 rows, switching, forced ends, restarts, failing statements | row in use open, delete takes points, rows implement `SessionLog`, no row forgotten |
| `Link` | 1 slip between two logins, 1 fault, counter modulo 8, 2 high halves, 1 new reading, of 2 one that is read anew for certain, 2 commands, 2 queued frames | logins, counters, truth of ok, order and arrival of readings |
| `Ports` | 2 ports, 1 switch, 1 caller with and 1 order without an answer, a queue of 1, 1 change by the charger, 1 fault | orders faithful, calls return, front ends know |
| `Policy` | 1 request at a time, 1 post, 1 attempt, a queue of 1, 2 events (users' commands, unconfirmed commands, lost links, rebuilds) | coherence; limits and pending offs settle; outages spend nothing |
| `Detector` | draws of 0, 0.5 W and 10 W, intervals of 1 and 2, hold of 5 | sessions begin and end with a charge; energy is counted once |
| `Push` | 2 devices, 1 browser, 1 poller, a queue of 3, 4 changes | buffers and cache; no change is lost for good |
| `HaLimits` | a limit of 2 samples, 4 orders, failures and restarts together | limit kept, cuts and mirror settle |
| `Life` | 1 device next to the primary, 2 prefixes, 2 tokens, 2 requests at a time; 2 entities, 2 names; 2 lost pings; per life 2 saves of devices and 1 fault, 2 saves of the voice section and 1 fault, or 3 events on the line: network, port, order, login (or 1 and a crash) | the file always starts and keeps tokens, ghosts are explained, entities follow the plan, one ping chain; saves take effect, the line comes right |

Where several claims answer one question they are one property, a conjunction of
named parts (`LadderInOrder`, `SlotsHold`, `OrdersFaithful`, `FrontEndsKnow`, `NothingHangs`,
`SessionsAreCharges`, `EventsArrive`, …); a mutated form breaks one of them.

*Why the bounds are enough to be interesting.*  Two devices and one slot make the
tasks compete for gate, slot and lock; a limit of one makes both sides of every
comparison of the ladder happen within two failures.  Three callers, three
tasks and three jobs let a `stop()` meet another `stop()` and a rebuild.  A window of
three ticks with two recoveries lets stamps expire one at a time; two faults are a loss and another
one before the stamps of the first budget have expired.  Two tasks
of one MAC and one of another cover: joining, answering at the lock,
answering by another's scan, and cancelling each of them.  Two sessions are a
session and its replacement; the safety of `ChargeSession` is proved for any number.
`W = 8` and two high halves let the counter wrap in both halves, with a quarter of
its range in flight.  A queue of one is full as soon as a command waits.
One fault in `Ports` or `Link` is a lost request, a lost answer or a late one at any point, and
what it leaves behind is followed to the end; a second one would add only their
sequence.  The detector's windows keep the order and roles of the code's constants;
every sequence of samples is explored, without end.  Four changes overflow a queue
of three.  Two events in `Policy` are a lost command and a lost link in either order; concurrent
requests, which are too many states there, are in its theorem.  In `Life`, two saves are one before
and one during or after the restart of the other; two prefixes let a device move to the
one that another leaves; a fault is a silent broker, a time-out or a crash, at any
point of a purge, a restart, a start or the rewriting of the file.  Two entities and two
names rename, swap, drop and add back.  Three events on the line are a network that fails,
comes back and fails in the reconnect, or a change and an order around a failure.  Its
safety is proved without any of these bounds, and without the division into three lives.

*Deadlock.*  Checked except for `SessionAll` and `HaLimits`, whose sessions and budgets are
bounded and which may then idle.

*Fairness.*  Weak fairness for what the event loop runs by itself: every other await
has a timeout, and the loop runs every ready coroutine.

- `Adapter`, `Scan`: strong fairness for the waits on `recovery_gate`, `connect_sem`, `adapter_lock` and
  `scan_lock`: asyncio serves the waiters of locks and semaphores in FIFO order and `Event.set()`
  wakes all of them, so a waiter is not overtaken for ever.  Weak, device by device, for the other
  steps of a task.  A late power command may never come.
- `Ports`: strong fairness for taking a command, for a caller that waits for a place and
  for a refresh that was asked for: the main loop looks at the queue and at
  the refresh before each two-second wait for a push.  Weak for time-outs, the charger
  and reconnecting.
- `Link`: weak for every wait of the app and for the charger's answers; strong for
  the periodic poll while the reading is one that is read anew for certain, since the main loop
  comes back to it.
- `Policy`: weak for samples that come late enough, for a command that is confirmed,
  and for reconnecting: readings go on while the link is up.
- `Detector`: weak for samples.  `Push`: weak for a browser's handler, which a read or
  the time-out of `wait_for` wakes.
- `HaLimits`: weak for readings while the link is up, for the retry after 15 s, tasks,
  writes and polls; no promise that a request succeeds or that a lost link returns.  The ESP32
  gateway reports regularly; the Python server publishes a port's reading only when it changes, so
  after a takeover from it the fairness of readings takes for granted that the voltage, current
  or power of a charging port goes on changing in some digit.
- `Life`, saves: weak for clearing a namespace (two seconds a topic at most), for the sleep and the
  stops of a restart, and for starting again, which systemd or the desktop launcher does;
  nothing about managers publishing.
- `Life`, start: weak for the calls to the cloud, which have time-outs, and for the steps after
  them.
- `Life`, connection: weak for paho's reconnect while the network is there, for pings, answers on a
  live session, threads, and, while the manager runs, for its queue and for publishing a change
  (its charger is connected in the end).  Not for publishing again what has not changed, nor for the
  network, nor for a half-open socket to report itself.
- Weak for thread pool jobs and callbacks.

Nothing is assumed about commands, cancellations, failures, crashes, the main
loop of a connection, or sessions beginning and ending.

*Mutated forms.*  Every property of a passing run has an operator that changes one
definition of its module the way a plausible bug would; with it, TLC finds that
property violated.

## 5. Proofs

`AdapterCoordinatorProofs` proves, from `ConstantsAssumption` alone (a finite nonempty set of
devices, at least one slot, limits in Nat):

| Theorem | Statement | Argument |
|---|---|---|
| `TypeCorrect` | `Spec => []TypeOK` | inductive as it stands; the saturating counters need `SaturateType` |
| `LadderCorrect` | `Spec => [](GateGuardsRecovery /\ BackoffOnlyOffline /\ EscalationIsEarned)` | `LadderInv`: besides the gate and the holder of the lock, a device with a back-off entry or past its L1 has no link (`OfflineInv`), and the L1 counter never exceeds the recoveries since the last connection, with a lag of one between disconnect and count (`EarnedInv`) |
| `SlotsTheorem` | `Spec => []SlotsHold` | types as above; `SlotStep`: a step that moves one task changes the number of holders by the opposite of what it does to the permits; cardinalities from `FiniteSetTheorems` |
| `QuiesceCorrect` | `Spec => [](RegisteredIsServed /\ QuiescedStayOut)` | `QuiesceInv`: whoever L2 has disconnected or is about to is outside the window between gate and registration (`OutsideWindowInv`), or an orphan, which is not there to come back |
| `LadderInOrderTheorem` | `Spec => []LadderInOrder` | the two theorems above |
| `PowerCorrect` | `Spec => []OffOnlyAfterCut` | `PowerInv`: without power and without a command cut, failed or late, somebody is inside the power cycle, so by `LadderCorrect` the gate is closed; a late command implies `cut`, and a cycle clears `cut` only if its command took effect with none late |

The strengthenings are needed because none of the three pairs is inductive by
itself: a back-off entry could meet a link, a counter could run ahead, and a
device between gate and registration could register behind a closed gate.  The
theorems hold for any number of registered devices, slots and limits, and for every set of
cancellation points; what cancellation does break (§6) is in the properties by name, as
`orphans` and `cut`.

It proves of `ScanMerge`, from `ScanAssumption` (tasks, their devices and a pool of
Futures; no bound on their number):

| Theorem | Statement | Argument |
|---|---|---|
| `OpenFuturesAreLed` | `Spec => [](TypeOK /\ OpenIsLed)` | `ScanInv` adds `HoldInv`: a task holds a Future exactly while it is in a call. Without it a task at an await could hold none, and a leader that returns could leave one behind |
| `OneScanServesAll` | `Spec => ScanAnswersAll` | a scan resolves what it finds in `_pending`, so `OpenIsPending` is needed: a Future that somebody awaits and that is not resolved is the entry of its device. Only its own leader removes an entry, and that one is resolved by then |

`RecoveryProofs` proves, from `SupervisorAssumption` (callers, tasks and jobs are three kinds of things;
any finite number of tasks, any rebuilds and faults) and `RecoveryAssumption` (finitely many devices; failures
before an L3, budget, window and breaker of at least one):

| Theorem | Statement | Argument |
|---|---|---|
| `OneLoopTheorem` | `Spec => []OneLoop` | `CommandInv`: there is one rebuild job at most, and no loop while it is under way (`JobInv`); who awaits a job awaits that one, inside its own `stop()` (`AwaitInv`); who awaits a loop is a caller, and the loop is the last there was (`ReapInv`, `LeavingInv`) |
| `LastCommandTheorem` | `Spec => []LastCommandWins` | the same invariant: after a stop some caller still has in hand what runs or will run (`OffInv`), after a start no `stop()` is left and the loop runs or is about to (`OnInv`) |
| `LedgerTheorem` | `RecoverySpec => []LedgerHolds` | `LedgerInv`: the history of recoveries is an older part, no longer than one budget for every loss, and a newer one that the file ends with (`Split`); a loss moves everything to the older part, a stamp is added to both ends, and ageing takes from either part what ageing takes from the whole (`WindowOfParts`, `KeptIsWithin`) |
| `SparesOthersTheorem` | `RecoverySpec => L3SparesOthers` | no device stays among the stuck ones, since the rebuild hook does not suspend; so whoever is connected has company in the registry, and the L3 of another is a rebuild |

Neither `OneLoop` nor `LastCommandWins` is inductive, and neither is provable without the other's
invariant: that no second loop is started follows from what a pending job and
a pending `stop()` say of the flags `_stopping` and `_task`.  The invariant holds until a start crosses
a `stop()` (§6), which is the exception the properties make.

`WithinWindow` is a recursive function over the stamps.  The induction theorems of the library
take the statement as an operator, which the provers cannot instantiate; but "the least
number for which it fails" is a set, and `NatLessThanWellFounded` with `WFMin` says there is
one (`LeastNumber`).  That the function exists and what it returns are proved that way.

`ChargeSessionProofs` proves, from `SessionAssumption` (a finite set of row ids, apart from the
session numbers; no bound on their number):

| Theorem | Statement | Argument |
|---|---|---|
| `ActiveRowTheorem` | `Spec => [](TypeOK /\ ActiveRowIsOpen)` | `RowInv`: one thing at a time is under way for a row - its start job, the callback, or its last job - and none while a session has it (`OneTokenInv`); a row that nobody asked for does not exist (`FreshInv`); it is absent before its start job and open until its last one (`TokenRowInv`) |
| `SessionsKeepLog` | `Spec => KeepsLog` | `TotalInv` on top: a session whose totals are submitted or written is over, and only one job or row has them. Then every step is `Open`, `Write`, `Delete` or `Restart` of `SessionLog`, or leaves `row` and `total` alone (`LogStep`) |
| `OwnedTheorem` | `Spec => []OpenRowsAreOwned` | needs `RowInv`: a job that runs ends its own row, since one thing at a time is under way for a row, so it is nobody else's last hope (`OwnedStays`) |
| `PointsGoWithTheirRow` | `Spec => DeleteTakesPoints` | from the types: of all steps only a delete job and a restart delete a row, and each empties the buffer |

`ActiveRowIsOpen` alone is not inductive: nothing in it keeps a pending delete job
from naming the row in use.  Neither is the guard of `Write`, that no row
tells the session yet: two jobs with the same totals have to be excluded.

It proves of `ChargeDetector`, from `DetectorAssumption` (any finite set of draws and of intervals; windows in
the order of the code's, a recovery longer than the fast window and at most half of the whole one, no
silence longer than the whole window):

| Theorem | Statement | Argument |
|---|---|---|
| `MeterTheorem` | `DetectorSpec => []MeterHolds` | `MeterInv`: the window is a list of ages that fall to 0 and ends with the last sample (`SamplesInv`), a run that the gate counts is not long enough yet and still in it (`RunInv`), and what was drawn since is the energy that a backfill would find (`EnergyInv`). `RunGains`: one more sample adds its trapezoid to the backfill, though the window drops its oldest |
| `ResidueTheorem` | `DetectorSpec => ResidueStartsNothing` | `ResidueInv` on top: no sample in the window of an idle port is above the highest one since the session ended, and the gate's threshold is at least twice its tail. `MedianBetween`: a median is never above every sample, so the fast median reaches the threshold only if a sample did |
| `EarnedTheorem` | `DetectorSpec => EndIsEarned` | `EarnedInv`: while the device draws more than the recovery floor, the samples of that time are in the window (`HighInv`), so `should_end` finds the recovery (`RecoveryHolds`) unless its threshold has risen, and then the fast median is unsettled (`FloorRules`); the hold is never older than the last recovery (`LoudInv`) |

`EndIsEarned` compares two clocks that run apart: the hold, which a fluctuation may survive, and the
device's own draw, of which the detector sees medians and a window that forgets.  They meet because
a recovery fits the window; that is where the assumptions on the windows are needed.  Sums over the window are
recursive functions on its indices; that they exist and what they return is proved by the least
number for which it fails, as in `RecoveryProofs`.

`PortControlProofs` proves, from the assumptions of `PortControl` (any ports, switches, callers, length of the queue, orders,
changes by the charger and faults):

| Theorem | Statement | Argument |
|---|---|---|
| `OrdersTheorem` | `Spec => OrdersFaithful` | `PortInv`: of all that is on its way, only the last may be for the wait the manager is in, and it is what that wait asked for or its answer (`OrderInv`); every mask on its way, in the cache or read back agrees with the charger's on the ports that did not change unseen (`MaskInv`); a command that is true of the charger was noted so (`MetInv`) |
| `ToldTheorem` | `Spec => ToldAfterRefresh` | `ToldInv`: what the front ends were told is the mask of the last refresh, but for the ports of commands since |

`OrdersFaithful` speaks of the moment at which a SET is executed or an answer is taken; what makes it true was put
on the air before, perhaps on a request that has been given up.  So the invariant is about
both directions of the radio and tells late messages (`old`) from those that are awaited.

`PortPolicyProofs` proves, from `PolicyAssumption` (stored settings in which a permanent port has
neither limit nor full-off; any requests, queue, attempts and bounds):

| Theorem | Statement | Argument |
|---|---|---|
| `PolicyTheorem` | `Spec => []PolicyCoherent` | inductive once regrouped (`InvariantParts`): `Coherent(r, p)` says the coherence of a record, so that every operator on the manager's memory has a lemma of its own, and the actions only compose them |
| `SpentTheorem` | `Spec => SpentOnACharge` | `Spares(r, s)`: the limit stays, or it was for once and its session has ended; proved for ending and managing a session, after which the actions follow with the link up |

`SpentTheorem` needs the coherence as an invariant: what an operator does is only
known of a record of the right type.

`MiotSessionProofs` proves, from `AuthAssumption` (at least one wait for the key, at least two for RCV_RDY)
and `LinkAssumption` (an even counter range above 2, at least two high halves, limits of at least one; any
readings, commands, queue length and faults):

| Theorem | Statement | Argument |
|---|---|---|
| `HandshakeTheorem` | `Spec => []HandshakeHolds` | `HandInv`: as long as the attempt has met nothing unusual, `OnTrack` lists for every wait what may be under way between the two sides, and that what comes next is what the wait takes; so no wait runs into its refusal |
| `ChannelTheorem` | `Spec => []ChannelHolds` | `ChanInv`: `InStep` - what is still to be decrypted (`Line`, the parts in hand and then the queue) is in the order of its counters, at most half a round ahead of the last one read, with the halves that nobody collects in front; `DoneInv` - an acknowledgement of the command under way, received or still in the queue, means that the charger has executed it and no older one is left; `Shape` ties both to where the coroutine stands |
| `ForwardTheorem` | `Spec => ShownGoesForward` | `ReadingInv` on top: no reading is ahead of the charger's (`TrueInv`), and while the link is open and nothing was garbled, what is still to be decrypted is not older than what is shown, newer the later its counter, and not older than the pushes saved in the login (`InTurn`) |

`CounterInStep` speaks of the last frame only, and the next one may come from anywhere in the
queue, so it takes the order of the whole queue.  `HighFollows` is the arithmetic of
`decrypt`: if the new counter is less than half a round ahead of the old one, the low half falls
by more than half of `W` exactly when it wrapped.  It is where an even `W` and two high halves
are needed.  The theorem rests on `Room`, a guard of the external charger: it does
not get half a round (32768 frames) ahead of what was read.  The pushes saved in the login are
decrypted after younger answers, so for the time before the main loop `InBoot` keeps the
plain order of the counters, which do not wrap that early.

At least two waits for RCV_RDY are needed: with one, a residue of the key exchange in front of
it ends the login with nothing lost (the code has six).

`FrontEndProofs` proves, from `LimitsAssumption` (a threshold of at least one sample, any budget) and
`PushAssumption` (a registry without duplicates, room for one event; any browsers, requests and
number of changes):

| Theorem | Statement | Argument |
|---|---|---|
| `LimitTheorem` | `Spec => []LimitHolds` | `KeptInv`: what the file will hold when everything under way is written (`Settled`) is the limit in memory, the change detector agrees with it unless an order is being written, and an order is written by its owner only (`OrderInv`) |
| `BuffersTheorem` | `PushSpec => []BuffersHold` | `PushInv`: besides the cache, every queue that is not empty ends with the newest reading of a device, whether it has overflowed or not (`NewestInQueue`). `PutKeepsLast`: dropping from the front keeps what was put last; `NewestStays`: and taking the head too, unless the queue is empty then |

`LimitKept` alone says nothing of the file, so it would not survive a restart; and
without the clause about the change detector a reading could skip the save that
the file still needs.

`ServerLifeProofs` proves of the whole, from the assumptions of the parts (`SaveAssumption` and `InstalledAssumption`: the
process is installed with a file it accepts, any devices, prefixes and tokens, any number of saves at a
time; `CloudAssumption`: the name "none" is not a name; `LinkAssumption`: at
least one ping may be lost; `DefaultAssumption`: the default prefix is one), with a lemma for each step of
`ConfigSave` and `BemfaCloud`:

| Theorem | Statement | Argument |
|---|---|---|
| `LifeFileTheorem` | `LifeSpec => []FileHolds` | the check of a save is that of the start; a token that was not typed comes from the file, not from the running configuration or the page, and a device that is new must have one (`FileSafe`). `StartInv`: until a start has rewritten the file, it still has in memory what it read, with the tokens that were typed. An empty file starts too, with the primary alone |
| `LifeGhostsTheorem` | `LifeSpec => []GhostsExplained` | `GhostInv`: at every moment, a namespace with retained messages is in use by the running and by the saved configuration, or a save has still to clear it, or it is accounted for. The emptied file breaks it unless what it left behind is accounted for |
| `EntitiesKeptTheorem` | `LifeSpec => []EntitiesKept` | `CloudInv`: what is wrong for an entity is put right by a call still to be made (`TodoInv`); what the next start needs to know is in the snapshot, the file or the flag (`KnownInv`); `FileInv` ties the file to the start under way, and a process that is down has no start (`EntitiesInv`) |
| `LinkHoldsTheorem` | `LifeSpec => []LinkHolds` | `LinkInv`: there is a chain exactly while no thread is closing or opening, an answer is awaited only then, and where the thread is about to connect nothing is connected |

`GhostsExplained` speaks of the quiet moments after a restart only; `GhostInv` is what holds in
between.  Its half about the running configuration is what a second save relies on,
which compares with what runs and never looks at what the first one wrote.

`EntitiesKept` is not inductive because a start is in between most of the time: names are right
only for those entities whose calls are made, and which calls will be made is known
only from the flag that an earlier life has left.

Only model-checked: liveness, which needs fairness and ENABLED and so is out of this prover's
reach.  That is `EveryoneGoesOn`, `NothingHangs`, `KeepsTrying`, `EveryCallReturns`, `EveryAttemptEnds`, `OffsSettle`, `EventsArrive`,
`LimitsSettle`, `SavesTakeEffect` and `LinkSettles`, and the liveness halves of four properties whose safety
is proved: `OpenRowsEnd` of `NoRowForgotten`, `ShownCatchesUp` of `ShownFollows`, `CallsReturn` and `CacheCatchesUp` of `FrontEndsKnow`,
`QuietEnds` of `SessionsAreCharges`.

## 6. Where the code and its documentation disagree

Met while modelling.  None has a run of its own; the passing runs exclude each by the
constant, history variable or exception named.

*Saves and starts* (`excused`, `cut`, `missed`).
- The namespace a device leaves is cleared before the restart, but the restart then stops the
  managers, and one that had a connection publishes its retained `connected: false`
  there.  The design promises the clearing so that no ghost is left
  (`docs/multi-device-design.md` 373-376).
- With a broker that does not confirm, clearing a namespace takes up to 18 s; during the
  second one the middleware cancels the handler.  The file is written, the old
  configuration runs on.
- An emptied token of the primary is written as empty when it has no other devices; for
  these, and for a primary sent in the list, the code keeps the old one and says why
  (`TokensKept` is about the extra devices).
- `bemfa.modified` is cleared "after successful topic registration", that is after any
  registration: the calls' failures are logged only, and the old name stays.
- `_set_bemfa_yaml_bool` truncates config.yaml before it writes; a process that ends there leaves
  nothing of it.  The next one starts with the primary alone and the voice off.
- A reconnect to Bemfa that finds the network down leaves no client, and the ping cycle
  does not create one (`HalfOpenHeals` is about half-open sessions).  `stop()` does not know of a
  reconnect that is in its thread; it does no harm where the process ends with it.
- A pong in paho's thread that falls into the wait of `_reconnect` for its cancelled publish job cancels the
  task that reconnects; the `except` there swallows it, so nothing is lost.  But `_on_message` tests
  `_ping_receive_task` and cancels it in two steps of a thread of its own: between them the loop may have gone
  on to the next await, whose cancellation would end the reconnect for good.  The model has the two
  steps as one.

*Voice switches* (`slipped`).
- `publish_state` returns before it keeps the state if there is no connection, and the connect publishes what
  was kept: a port that changes during an outage is shown wrong until it changes again.  The comment there
  speaks of publishing at up to 1 Hz; the callers publish changes only.
- An order within ten seconds of a connect or one second of another order is taken for an echo and not
  answered: the cloud goes on showing it.  So it does with a command the charger does not confirm,
  which is already in the cache and which the next connect publishes again.
- Every login publishes every port as off (`_read_initial_settings`); one that delivers the same as before the
  login is shown off until its reading changes.

*Adapter and recovery.*
- A task cancelled while `_power_cycle` has the adapter off (`bluetoothctl power off`, the three
  seconds, `power on`) leaves through the `finally` of `recover_adapter`, which opens the gate; nobody powers the
  adapter on (`cut`).  The managers then look for their chargers in vain: `find_device` logs the exception of a
  scan and returns nothing, "Charger not found" does not climb the ladder, and so no L2 of theirs
  repairs it, though the docstring of `_scan_for_device` says that a scan's exceptions become
  `ConnectionError`.  The same follows a `power on` that fails or times out.
- A cancellation inside the last await of `_disconnect()` skips `unregister_connection` (`orphans`); until
  that device has connected again or got to L1, the entry keeps every other one from an L2.
- L2 is admitted before `adapter_lock` is awaited, so it can cut a device that connected
  meanwhile, against the docstring of `recover_device`; and `_power_cycle` ends with a
  `scan_cleanup()` outside `scan_lock`, against the docstring there.
- `restart_device` discards the device from `_stuck_devices` as soon as its hook has scheduled the
  rebuild, so the documented escalation for two stuck devices never happens.
- A cancelled follower of `find_device` cancels the Future it shares with the leader, whose
  `fut.result()` then raises `CancelledError` in a task nobody cancelled (`OpenIsLed` counts it resolved).
- The breaker's failures are not cleared by a connection that is lost later.
- The ledger of L3 recoveries is not safe from crashes: `open(path, "w")` empties it before the stamps are
  written, a failed write is logged only, and an unreadable file counts as empty.  Each time up to one
  budget of recoveries is forgotten (`losses`); the limit against storms is then that much higher.

*Supervisor* (`crossed`).
- `start()` during a `stop()` that awaits the task is answered with "already running" and the
  device stays down; `_do_rebuild` undoes a `stop()` that came during its own; a clean-up that
  raises after a rebuild has cleared `_stopping` starts a device that was switched off.
- `_rebuild_after` spawns without looking at `is_running`: an enable during its back-off has
  started a loop already, and the supervisor forgets it.
- `_rebuilds` counts over the life of the process, not consecutive failures; a rebuild
  that raises in `_do_rebuild` is logged and not tried again (`gaveUp` counts it as reported).

*Sessions* (`abandoned`).
- `_on_session_start` only looks whether some session is charging without a row: the callback
  of a session that was replaced gives its row to the replacement, and the row made
  for that one is deleted.
- A session that ends before its row id arrives is not written down; a point job that
  runs after the delete brings points of a deleted session back; switching the recording
  off, a link loss or a stop with less than 0.05 Wh leave the row open until the next
  restart.

*Protocol* (`excused`, `garbled`).
- In the re-synchronisation of `_try_authenticate` three waits without the key data end the attempt,
  but twelve seconds of silence in the first or second wait leave the loop and go on without it.
- Pushes of the login are replayed after the settings were read, so a reading older
  than one already shown is shown again before the main loop starts (`ShownGoesForward` is about the
  main phase).
- `_try_decode_inline` decrypts a multi-frame payload that is not complete.
- The sequence number inside a payload is compared by nobody: the late answer of a SET that was
  given up is taken for the answer of the next one, which may itself be lost
  (`DoneMeansExecuted` is about answers of the command's own).
- `_fetch_settings` counts exceptions only: PIIDs that are not answered become `0x0F`, and a
  missing answer empties `pdo_caps`.  "Authenticated" is announced before the settings are read.
- The settings refresh, the keep-alive and the watchdog run only when a wait for a
  push times out: frequent pushes starve them.
- A push that is lost is not always made good (`Reread`).  An idle port C1 or C2 is not read again, and
  neither without a history.  While a session charges, the timer's own integration renews `last_time` every few
  seconds, so the 15 s of `IDLE_VERIFY` never pass on C1 and C2: a lost unplug push is not found out,
  against the comment at `ble_manager.py` 2056-2059 and the docstring of `_handle_verify_port`.

*Commands* (`met`, `misled`, `flipped`).
- The comment at `handle_protocol` promises that read, change and send are atomic; the send is
  outside the lock, so of two concurrent toggles one is lost.
- A command whose caller has timed out stays queued and is executed later; `cmd_queue` outlives a
  reconnect.  A switch order that finds the mask already as ordered is answered ok
  without the cache being brought up to date.
- `put_nowait` from Bemfa and MQTT raises in the loop's callback when the queue is full; the
  caller has been told that it worked.

*Policy* (the exceptions of its properties, `Requests`).
- The comment in `set_permanent_ports` promises that a port just declared permanent is not cut by
  an off in flight; the pending off is revoked, the command that is already in
  `cmd_queue` is executed.
- `handle_charge_limits` checks `is_permanent_name`, awaits its database write and then applies: a port that
  became permanent meanwhile keeps a limit, which enforcement ignores.
- A request reads the limits, writes them to the database and then applies them: a limit
  for once that a charge used up meanwhile comes back (`req' # req` in `SpentOnACharge`).
- The counts of full-off give up after `FULL_OFF_MAX_ATTEMPTS` whether or not the charger ever
  reported the port off (`OffsSettle` counts giving up as settled).
- The start gate's `_above_since` survives a loss of the link, so its run of samples can span one.

*Push* (`raced`, `dropped`).
- A status request that is overtaken by a change caches its answer after the
  invalidation; every poll gets it until the next change.
- The first message of `/api/events` has the readings of one device; a page that shows another one has its
  readings from their next change, or from a request of its own (`owed`).
- A status event does not wake the handler of a browser, which tells it with the next
  event or after 15 s; a full queue drops the oldest event and nobody resends the state.
- Some pushes (PIID 17 and 18) and the state of the MQTT connection change what a status answer says without
  invalidating the cached one.

*Home Assistant* (`lost`).
- The integration subscribes before it loads its limits.  A retained reading that arrives
  in between is compared with "nothing stored", and the limits of a tracker that was
  never loaded are saved over the file.  `_limits_loaded` is set and read nowhere.
- A charge that ends while a user's order is being written can change the limit back to
  the one believed stored: no save is started and the order is what the file keeps
  (the test at `test_charge_limits.py:459` covers the other order).
- After a takeover the integration never returns to the server until it is reloaded,
  and the server goes on enforcing its own limit: the comment "Sole enforcement gate" in
  `_async_enforce_limits` does not hold for the pair.
- `async_set_protocol` computes the new switches from the last settings received: of two
  orders in a row the first is lost.  `total_wh` is saved only when a limit changes.

## 7. What is not modelled

- *ESP32 gateway*: a second program, in C, with three FreeRTOS tasks.  `HaLimits` contains what
  Home Assistant does with it; its queues are in the plan.
- *Web front end*: views over what `EventPush` delivers.
- *HTTP and MQTT shell*: routing, parsing, payloads, logs and static files; the
  Xiaomi cloud import and the command line, which keep no state.
- *Configuration*: sections that concern no device or entity, environment variables, and a prefix
  that equals a topic inside another one (`Apart` compares prefixes only).
- *Cryptography and frame formats*: a frame decrypts under the right counter, and a login
  succeeds under the right token; the decoding of readings and protocol bits is
  pure data.
- *History*: periodic samples, statistics, retention and downsampling.
- *Home Assistant*: entities, the BLE switch and its confirmation, name sync, notices, the health
  check, the config flow.
- *`bluetoothctl` that is not installed*: the fallback of the power cycle.  *The wall clock* of the
  ledger's stamps, which may jump.
- *Durations*, except the order they force and, in `ChargeDetector` and `AuthRecovery`, scaled ones; the
  ladder's sleeps and the back-off formulas are single steps.
- *Compositions*: the protocol and the life of the server are composed; the other modules are
  checked one by one (§2 says what each takes for granted of the others).
