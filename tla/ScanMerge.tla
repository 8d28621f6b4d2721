----------------------------- MODULE ScanMerge -----------------------------
(***************************************************************************)
(* AdapterCoordinator.find_device (ble_server/adapter_coordinator.py): the *)
(* calls that look for the same MAC share one Future, all calls share one  *)
(* scan at a time, and a scan answers every call that is waiting.          *)
(*                                                                         *)
(* A call leads (it made the Future and scans for it) or follows (it       *)
(* awaits the Future of a leader).  Calls of one MAC overlap when the loop *)
(* of a device is rebuilt before the old one has left.  phase[c]:          *)
(*   idle     no call                                                      *)
(*   follow   awaiting the Future of a leader                              *)
(*   lock     leader, waiting for scan_lock                                *)
(*   scan     leader, holds scan_lock: scan_cleanup() and _discover()      *)
(***************************************************************************)
EXTENDS Integers, FiniteSets

CONSTANTS
    Callers,   \* the tasks that call find_device, one call at a time each
    Macs,
    MacOf,     \* MacOf[c]: the device task c looks for
    Futures,   \* identifiers, used again when nobody refers to them
    CallsCancelAt,  \* the phases in which a task may be cancelled
    None

ASSUME ScanAssumption ==
    /\ MacOf \in [Callers -> Macs]
    /\ None \notin Futures
    /\ CallsCancelAt \subseteq {"follow", "lock", "scan"}

VARIABLES
    phase,
    pending,  \* pending[m]: the entry of _pending, None when there is none
    fut,      \* fut[f]: open, found, missing or cancelled
    hold,     \* hold[c]: the Future the call of c made or awaits
    result    \* result[c]: how the last call of c ended

scanVars == <<phase, pending, fut, hold, result>>

Done(f)    == fut[f] # "open"
Leads(c)   == phase[c] \in {"lock", "scan"}
LockFree   == \A c \in Callers : phase[c] # "scan"
NewFuture(f) == /\ \A m \in Macs : pending[m] # f
                /\ \A c \in Callers : hold[c] # f

\* The call of c is over with result r.
Return(c, r) ==
    /\ phase' = [phase EXCEPT ![c] = "idle"]
    /\ hold' = [hold EXCEPT ![c] = None]
    /\ result' = [result EXCEPT ![c] = r]

ScanInit ==
    /\ phase = [c \in Callers |-> "idle"]
    /\ pending = [m \in Macs |-> None]
    /\ fut = [f \in Futures |-> "missing"]
    /\ hold = [c \in Callers |-> None]
    /\ result = [c \in Callers |-> "none"]

Follow(c) ==
    LET f == pending[MacOf[c]] IN
    /\ phase[c] = "idle" /\ f # None /\ ~Done(f)
    /\ phase' = [phase EXCEPT ![c] = "follow"]
    /\ hold' = [hold EXCEPT ![c] = f]
    /\ result' = [result EXCEPT ![c] = "none"]
    /\ UNCHANGED <<pending, fut>>

Lead(c) ==
    /\ phase[c] = "idle"
    /\ pending[MacOf[c]] # None => Done(pending[MacOf[c]])
    /\ \E f \in Futures :
         /\ NewFuture(f)
         /\ fut' = [fut EXCEPT ![f] = "open"]
         /\ pending' = [pending EXCEPT ![MacOf[c]] = f]
         /\ hold' = [hold EXCEPT ![c] = f]
    /\ phase' = [phase EXCEPT ![c] = "lock"]
    /\ result' = [result EXCEPT ![c] = "none"]

\* The finally: only an entry that is still its own.
Forget(c) ==
    pending' = [pending EXCEPT ![MacOf[c]] = IF @ = hold[c] THEN None ELSE @]

\* fut.result() of a Future that a cancelled follower has cancelled raises
\* CancelledError in the leader: nobody has cancelled it, but its task ends.
Outcome(f) == IF fut[f] = "cancelled" THEN "killed" ELSE fut[f]

\* Mutated form: a leader that was told "not found" is left at the lock.
AnsweredAtLockFound(c) ==
    /\ phase[c] = "lock" /\ LockFree /\ fut[hold[c]] \in {"found", "cancelled"}
    /\ Forget(c)
    /\ Return(c, Outcome(hold[c]))
    /\ UNCHANGED fut

\* Somebody else's scan has answered while this leader waited for the lock.
AnsweredAtLock(c) ==
    /\ phase[c] = "lock" /\ LockFree /\ Done(hold[c])
    /\ Forget(c)
    /\ Return(c, Outcome(hold[c]))
    /\ UNCHANGED fut

StartScan(c) ==
    /\ phase[c] = "lock" /\ LockFree /\ ~Done(hold[c])
    /\ phase' = [phase EXCEPT ![c] = "scan"]
    /\ UNCHANGED <<pending, fut, hold, result>>

\* Mutated form: a scan answers the call that made it and no other.
AnswerOwn(c, seen) ==
    fut' = [f \in Futures |->
              IF Done(f) \/ f # hold[c] THEN fut[f]
              ELSE IF MacOf[c] \in seen THEN "found" ELSE "missing"]

\* Every open Future of _pending gets its answer, and the leader's own.
Answer(c, seen) ==
    fut' = [f \in Futures |->
              IF Done(f) THEN fut[f]
              ELSE IF \E m \in seen : pending[m] = f THEN "found"
              ELSE IF f = hold[c] \/ \E m \in Macs : pending[m] = f THEN "missing"
              ELSE "open"]

\* A scan that raises has seen nothing.
ScanDone(c) ==
    /\ phase[c] = "scan"
    /\ \E seen \in SUBSET Macs : Answer(c, seen)
    /\ Forget(c)
    /\ Return(c, IF fut'[hold[c]] = "cancelled" THEN "killed" ELSE fut'[hold[c]])

FollowerReturns(c) ==
    /\ phase[c] = "follow" /\ Done(hold[c])
    /\ Return(c, Outcome(hold[c]))
    /\ UNCHANGED <<pending, fut>>

\* Mutated form: the finally does not answer the followers of a cancelled leader.
SettleNever(c) == UNCHANGED fut

Settle(c) == fut' = [fut EXCEPT ![hold[c]] = IF @ = "open" THEN "missing" ELSE @]

\* A cancelled leader runs its finally; cancelling a follower cancels the
\* Future it awaits.
CancelCall(c) ==
    /\ phase[c] \in CallsCancelAt
    /\ \/ Leads(c) /\ Forget(c) /\ Settle(c)
       \/ /\ phase[c] = "follow"
          /\ fut' = [fut EXCEPT ![hold[c]] = IF @ = "open" THEN "cancelled" ELSE @]
          /\ UNCHANGED pending
    /\ Return(c, "stopped")

---------------------------------------------------------------------------
Work(c) == ScanDone(c) \/ FollowerReturns(c)
TakeLock(c) == AnsweredAtLock(c) \/ StartScan(c)

ScanNext == \E c \in Callers :
    Follow(c) \/ Lead(c) \/ TakeLock(c) \/ Work(c) \/ CancelCall(c)

\* A scan has a timeout, a done Future wakes its followers; scan_lock serves
\* its waiters in FIFO order.
ScanFairness == \A c \in Callers : WF_scanVars(Work(c)) /\ SF_scanVars(TakeLock(c))

ScanSpec == ScanInit /\ [][ScanNext]_scanVars
FairScanSpec == ScanSpec /\ ScanFairness
---------------------------------------------------------------------------
(* Properties.                                                             *)

ScanTypeOK ==
    /\ phase \in [Callers -> {"idle", "follow", "lock", "scan"}]
    /\ pending \in [Macs -> Futures \cup {None}]
    /\ fut \in [Futures -> {"open", "found", "missing", "cancelled"}]
    /\ hold \in [Callers -> Futures \cup {None}]
    /\ result \in [Callers ->
                     {"none", "found", "missing", "stopped", "killed"}]

\* An open Future that a follower awaits, or that the next caller of the MAC
\* would find, has a leader at work: otherwise the device never connects again
\* (the comment in the finally of find_device).
OpenIsLed ==
    \A f \in Futures :
        /\ ~Done(f)
        /\ \/ \E c \in Callers : phase[c] = "follow" /\ hold[c] = f
           \/ \E m \in Macs : pending[m] = f
        => \E c \in Callers : Leads(c) /\ hold[c] = f

\* One scan serves everybody who waits: after it no call has an open Future.
ScanAnswersAll ==
    [][\A c \in Callers :
         phase[c] = "scan" /\ phase'[c] = "idle" /\ result'[c] # "stopped"
            => \A e \in Callers : phase'[e] # "idle" => fut'[hold'[e]] # "open"]_scanVars

\* Every call returns, whoever is cancelled meanwhile.
EveryCallReturns == \A c \in Callers : phase[c] # "idle" ~> phase[c] = "idle"
===========================================================================
