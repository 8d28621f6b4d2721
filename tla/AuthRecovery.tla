--------------------------- MODULE AuthRecovery ---------------------------
(***************************************************************************)
(* How the reconnect loops of the devices (BLEManager.start) answer to     *)
(* failures: the circuit breaker, the count of authentication failures,    *)
(* the persisted budget of L3 recoveries that all devices of the server    *)
(* share, and restart_device of the AdapterCoordinator, which chooses      *)
(* between a rebuild of one device and a restart of the whole process.     *)
(*                                                                         *)
(* phase[d] of the loop of device d:                                       *)
(*   attempt   in _connect_and_run, not authenticated yet                  *)
(*   up        authenticated                                               *)
(*   recover   after an authentication failure: _disconnect(), then        *)
(*             _force_disconnect_bluetooth()                               *)
(*   notify    the AUTH_STUCK_NOTIFY_SEC before restart_device()           *)
(*   rebuild   the loop has been left, the L3 rebuild job is scheduled     *)
(*   wait      the delay before the next attempt                           *)
(*   cool      waiting for the circuit breaker                             *)
(*                                                                         *)
(* Time passes in ticks; only the age of the ledger's stamps depends on it. *)
(***************************************************************************)
EXTENDS Integers, Sequences, FiniteSets

CONSTANTS
    Devices,                   \* the chargers that may be registered
    MAX_AUTH_FAILURES,
    AUTH_L3_MAX_PER_HOUR,
    AUTH_L3_WINDOW,            \* AUTH_L3_WINDOW_SEC, in ticks
    CIRCUIT_BREAKER_MAX_FAIL,
    Crashes,                   \* the process may be killed and started again
    LedgerFaults               \* bound: reads and writes of the ledger that fail

ASSUME RecoveryAssumption ==
    /\ IsFiniteSet(Devices) /\ Devices # {}
    /\ MAX_AUTH_FAILURES \in Nat \ {0}
    /\ AUTH_L3_MAX_PER_HOUR \in Nat \ {0}
    /\ AUTH_L3_WINDOW \in Nat \ {0}
    /\ CIRCUIT_BREAKER_MAX_FAIL \in Nat \ {0}
    /\ Crashes \in BOOLEAN
    /\ LedgerFaults \in Nat

Phases == {"attempt", "up", "recover", "notify", "rebuild", "wait", "cool"}

VARIABLES
    registered, \* the devices of the registry, fixed when the server starts
    phase,
    fails,    \* fails[d]: _auth_fail_count, saturating at MAX_AUTH_FAILURES
    breaker,  \* breaker[d]: _circuit_breaker_failures; tripped at the maximum
    stuck,    \* _stuck_devices
    ledger,   \* ages of the stamps of .auth_restarts.json within the window
    granted,  \* history: ages of the L3 recoveries within the window
    losses    \* history: the reads and writes of the ledger that went wrong

ledgerVars == <<ledger, granted, losses>>
recoveryVars == <<registered, phase, fails, breaker, stuck, ledgerVars>>

device_count == Cardinality(registered)
UpTo(n, cap) == IF n < cap THEN n ELSE cap
Goto(d, p)   == phase' = [phase EXCEPT ![d] = p]

RecoveryInit ==
    /\ registered \in SUBSET Devices \ {{}}
    /\ phase = [d \in Devices |-> "attempt"]
    /\ fails = [d \in Devices |-> 0]
    /\ breaker = [d \in Devices |-> 0]
    /\ stuck = {} /\ ledger = <<>> /\ granted = <<>> /\ losses = 0

---------------------------------------------------------------------------
(* The attempts.                                                           *)

\* authenticate() succeeds; note_connected() takes the device out of the stuck
\* ones.  The breaker is left alone.
Authenticate(d) ==
    /\ phase[d] = "attempt"
    /\ Goto(d, "up")
    /\ fails' = [fails EXCEPT ![d] = 0]
    /\ stuck' = stuck \ {d}
    /\ UNCHANGED <<breaker, ledgerVars>>

RecordFailure(d) ==
    breaker' = [breaker EXCEPT ![d] = UpTo(@ + 1, CIRCUIT_BREAKER_MAX_FAIL)]

\* Any exception but AuthConnectionError: charger not found, link lost.
LinkFails(d) ==
    /\ phase[d] \in {"attempt", "up"}
    /\ RecordFailure(d)
    /\ Goto(d, "wait")
    /\ UNCHANGED <<fails, stuck, ledgerVars>>

AuthFails(d) ==
    /\ phase[d] = "attempt"
    /\ RecordFailure(d)
    /\ fails' = [fails EXCEPT ![d] = UpTo(@ + 1, MAX_AUTH_FAILURES)]
    /\ Goto(d, "recover")
    /\ UNCHANGED <<stuck, ledgerVars>>

\* What a look at the file may give: an unreadable file counts as an empty one.
Reads == {ledger, <<>>}

\* Mutated form: the budget admits one L3 more than AUTH_L3_MAX_PER_HOUR.
AllowAuthRestartOffByOne(stamps) == Len(stamps) <= AUTH_L3_MAX_PER_HOUR

AllowAuthRestart(stamps) == Len(stamps) < AUTH_L3_MAX_PER_HOUR

ShouldRestart(d) == fails[d] >= MAX_AUTH_FAILURES

\* _note_auth_restart() reads the file again and writes it anew.  The write may be
\* refused (the file stays) or fail once open() has emptied the file; the failure
\* is swallowed.
Files == {Append(note, 0) : note \in Reads} \cup {ledger, <<>>}

Lose(n) == losses + n <= LedgerFaults /\ losses' = losses + n

\* _recover_from_auth_stuck(), up to its sleep; no await between the look at
\* the ledger and the new stamp.
EnterL3(d) ==
    /\ phase[d] = "recover" /\ ShouldRestart(d)
    /\ \E look \in Reads, file \in Files :
          /\ AllowAuthRestart(look)
          /\ Lose(Cardinality({look} \ {ledger}) + Cardinality({file} \ {Append(ledger, 0)}))
          /\ ledger' = file
    /\ granted' = Append(granted, 0)
    /\ Goto(d, "notify")
    /\ UNCHANGED <<fails, breaker, stuck>>

\* The quick retries, or the slow ones once the budget is spent.
BackOff(d) ==
    /\ phase[d] = "recover" /\ ~(ShouldRestart(d) /\ AllowAuthRestart(ledger))
    /\ Goto(d, "wait")
    /\ UNCHANGED <<fails, breaker, stuck, ledgerVars>>

\* _check_circuit_breaker() at the top of the loop; the cooldown of a tripped
\* breaker may also have run out during the delay.
Retry(d) ==
    /\ phase[d] = "wait" /\ breaker[d] < CIRCUIT_BREAKER_MAX_FAIL
    /\ Goto(d, "attempt")
    /\ UNCHANGED <<fails, breaker, stuck, ledgerVars>>

CoolOff(d) ==
    /\ phase[d] = "wait" /\ breaker[d] = CIRCUIT_BREAKER_MAX_FAIL
    /\ Goto(d, "cool")
    /\ UNCHANGED <<fails, breaker, stuck, ledgerVars>>

\* Mutated form: the end of the cooldown leaves the failures counted and the
\* loop finds the breaker open again.
CooldownOverKeepsCount(d) ==
    /\ phase[d] \in {"wait", "cool"} /\ breaker[d] = CIRCUIT_BREAKER_MAX_FAIL
    /\ Goto(d, "wait")
    /\ UNCHANGED <<fails, breaker, stuck, ledgerVars>>

CooldownOver(d) ==
    /\ phase[d] \in {"wait", "cool"} /\ breaker[d] = CIRCUIT_BREAKER_MAX_FAIL
    /\ breaker' = [breaker EXCEPT ![d] = 0]
    /\ Goto(d, "attempt")
    /\ UNCHANGED <<fails, stuck, ledgerVars>>

---------------------------------------------------------------------------
(* restart_device(): one device or the whole process.                      *)

ForgetEverything ==
    /\ phase' = [d \in Devices |-> "attempt"]
    /\ fails' = [d \in Devices |-> 0]
    /\ breaker' = [d \in Devices |-> 0]
    /\ stuck' = {}

\* Mutated form: the ledger does not outlive the process.
RestartProcessForgets == ForgetEverything /\ ledger' = <<>> /\ UNCHANGED <<granted, losses>>

\* _restart() re-executes the server: everything starts anew, except the file.
RestartProcess == ForgetEverything /\ UNCHANGED ledgerVars

\* Mutated form: one stuck device is enough for a process restart.
MustEscalateAlways(d) == TRUE

MustEscalate(d) == device_count <= 1 \/ Cardinality(stuck \cup {d}) >= 2

\* The rebuild hook only schedules a job and never suspends: the device enters
\* _stuck_devices and leaves it within the same step.
RestartDevice(d) ==
    /\ phase[d] = "notify"
    /\ IF MustEscalate(d)
       THEN RestartProcess
       ELSE /\ stuck' = stuck \ {d}
            /\ Goto(d, "rebuild")
            /\ UNCHANGED <<fails, breaker, ledgerVars>>

\* The rebuild job: a new manager starts its loop.
RebuildEnds(d) ==
    /\ phase[d] = "rebuild"
    /\ Goto(d, "attempt")
    /\ fails' = [fails EXCEPT ![d] = 0]
    /\ breaker' = [breaker EXCEPT ![d] = 0]
    /\ UNCHANGED <<stuck, ledgerVars>>

\* Between two steps the file is whole ...
Crash == Crashes /\ RestartProcess

\* ... but open(path, "w") has emptied it before the stamps are written.
CrashWhileNoting(d) ==
    /\ Crashes /\ phase[d] = "recover" /\ ShouldRestart(d) /\ AllowAuthRestart(ledger)
    /\ ForgetEverything
    /\ ledger' = <<>> /\ Lose(1)
    /\ UNCHANGED granted

\* The ages a tick later of the stamps that are then still within the window.
WithinWindow(ages) ==
    LET kept[n \in 0..Len(ages)] ==
            IF n = 0 THEN <<>>
            ELSE IF ages[n] + 1 < AUTH_L3_WINDOW THEN Append(kept[n - 1], ages[n] + 1)
            ELSE kept[n - 1]
    IN  kept[Len(ages)]

Tick ==
    /\ ledger' = WithinWindow(ledger) /\ granted' = WithinWindow(granted)
    /\ UNCHANGED <<phase, fails, breaker, stuck, losses>>

---------------------------------------------------------------------------
Attempt(d) == Authenticate(d) \/ LinkFails(d) \/ AuthFails(d)

Loop(d) ==
    \/ EnterL3(d) \/ BackOff(d) \/ Retry(d) \/ CoolOff(d) \/ CooldownOver(d)
    \/ RestartDevice(d) \/ RebuildEnds(d)

RecoveryNext ==
    /\ UNCHANGED registered
    /\ \/ Tick \/ Crash
       \/ \E d \in registered : Attempt(d) \/ Loop(d) \/ CrashWhileNoting(d)

\* Every delay of the loop is bounded; an attempt ends by its timeouts, a
\* connection may last.
RecoveryFairness == \A d \in Devices : WF_recoveryVars(UNCHANGED registered /\ Loop(d))

RecoverySpec == RecoveryInit /\ [][RecoveryNext]_recoveryVars
FairRecoverySpec == RecoverySpec /\ RecoveryFairness
---------------------------------------------------------------------------
(* Properties.                                                             *)

Ages == 0..AUTH_L3_WINDOW - 1

RecoveryTypeOK ==
    /\ registered \subseteq Devices
    /\ phase \in [Devices -> Phases]
    /\ fails \in [Devices -> 0..MAX_AUTH_FAILURES]
    /\ breaker \in [Devices -> 0..CIRCUIT_BREAKER_MAX_FAIL]
    /\ stuck \subseteq Devices
    /\ ledger \in Seq(Ages) /\ granted \in Seq(Ages) /\ losses \in 0..LedgerFaults

\* No storm of restarts: over all the devices, and over restarts and crashes of the
\* process wherever they fall, an hour sees no more L3 recoveries than the budget, and
\* every read or write of the ledger that goes wrong (swallowed as it is) costs at
\* most one budget more.
BudgetHolds == Len(granted) <= AUTH_L3_MAX_PER_HOUR * (1 + losses)

\* The ledger is well-formed and its budget holds.
LedgerHolds == RecoveryTypeOK /\ BudgetHolds

\* The docstring of restart_device: the L3 of one device never takes down a
\* device that works.
L3SparesOthers ==
    [][\A d, e \in registered :
         RestartDevice(d) /\ phase[e] = "up" => phase'[e] = "up"]_recoveryVars

\* Every loop keeps trying: neither the breaker nor the delays wedge it.
KeepsTrying == \A d \in Devices : []<>(phase[d] \in {"attempt", "up"})
===========================================================================
