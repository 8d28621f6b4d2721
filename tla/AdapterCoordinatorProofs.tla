--------------------- MODULE AdapterCoordinatorProofs ---------------------
(***************************************************************************)
(* Theorems about AdapterCoordinator, for every set of devices and every   *)
(* value of the limits; and about ScanMerge, the scan it merges, for any     *)
(* tasks, devices and Futures.                                               *)
(***************************************************************************)
EXTENDS AdapterCoordinator, ScanMerge, FiniteSetTheorems, TLAPS

(***************************************************************************)
(* Type correctness.                                                       *)
(***************************************************************************)

\* The saturating increment of a failure counter stays in its range.
LEMMA SaturateType ==
    ASSUME NEW cap \in Nat, NEW n \in 0..cap
    PROVE  Saturate(n + 1, cap) \in 0..cap
BY DEF Saturate

\* ForgetFailures keeps the counters of the ladder in their ranges.
LEMMA ForgetFailuresType ==
    ASSUME TypeOK, NEW d \in Devices, ForgetFailures(d)
    PROVE  /\ l1f' \in [Devices -> 0..L1BeforeRemove + 1]
           /\ l15f' \in [Devices -> 0..L15BeforeAdapter + 1]
           /\ backoff' \in [Devices -> 0..BackoffAlert]
BY ConstantsAssumption DEF TypeOK, ForgetFailures

\* What a cancellation does to the links: it registers none, and unregisters
\* none but its own.
LEMMA CancelLinks ==
    ASSUME TypeOK, NEW d \in Devices, LinksOnCancel(d)
    PROVE  /\ live' \subseteq live /\ ctrl' \subseteq live' /\ orphans' \subseteq live'
           /\ pc[d] # "cleanup" => live' = live /\ orphans' = orphans /\ ctrl \subseteq ctrl'
           /\ \A e \in Devices \ {d} : /\ e \in live' <=> e \in live
                                       /\ e \in orphans' <=> e \in orphans
                                       /\ e \in ctrl' <=> e \in ctrl
           /\ pc[d] = "cleanup" /\ (d \in live \ orphans => d \in ctrl) => d \notin live' \ orphans'
<1> USE DEF TypeOK, linkVars
<1>1. CASE pc[d] = "connect"
  BY <1>1 DEF LinksOnCancel, HasController
<1>2. CASE pc[d] = "cleanup"
  BY <1>2 DEF LinksOnCancel, UnregisterOnDisconnect, Unregister
<1>3. CASE pc[d] \notin {"connect", "cleanup"}
  BY <1>3 DEF LinksOnCancel
<1>4. QED
  BY <1>1, <1>2, <1>3

\* Every variable stays in its range (the type invariant of every run).
THEOREM TypeCorrect == Spec => []TypeOK
<1>1. Init => TypeOK
  <2> SUFFICES ASSUME Init PROVE TypeOK
    OBVIOUS
  <2>1. /\ pc \in [Devices -> Phases] /\ why \in [Devices -> Reasons]
        /\ l1f \in [Devices -> 0..L1BeforeRemove + 1]
        /\ l15f \in [Devices -> 0..L15BeforeAdapter + 1]
        /\ backoff \in [Devices -> 0..BackoffAlert]
        /\ tries \in [Devices -> 0..L1BeforeRemove + 1]
    BY ConstantsAssumption DEF Init, Phases, Reasons
  <2>2. /\ registered \subseteq Devices /\ permits \in Nat
        /\ gate \in BOOLEAN /\ powered \in BOOLEAN /\ cut \in BOOLEAN
        /\ late = {} /\ live = {} /\ ctrl = {} /\ orphans = {}
        /\ victims = {} /\ quiesced = {} /\ lock = NoOne
    BY ConstantsAssumption DEF Init
  <2>3. QED
    BY <2>1, <2>2 DEF TypeOK
<1>2. TypeOK /\ [Next]_vars => TypeOK'
  <2> SUFFICES ASSUME TypeOK, [Next]_vars
               PROVE  TypeOK'
    OBVIOUS
  <2> USE ConstantsAssumption DEF TypeOK
  <2> USE DEF taskVars, powerVars, gateVars, linkVars, ladderVars, Goto, Because, Phases, Slotted,
              Critical, Reasons
  <2>0. registered' = registered /\ registered \subseteq Devices
    BY DEF TypeOK, Next, vars
  <2> USE <2>0
  <2>1. ASSUME NEW d \in Devices, Start(d) PROVE TypeOK'
    BY <2>1 DEF Start
  <2>2. ASSUME NEW d \in Devices, WaitRecoveryGate(d) PROVE TypeOK'
    BY <2>2 DEF WaitRecoveryGate
  <2>3. ASSUME NEW d \in Devices, AcquireSlot(d) PROVE TypeOK'
    BY <2>3 DEF AcquireSlot
  <2>4. ASSUME NEW d \in Devices, Connect(d) PROVE TypeOK'
    BY <2>4 DEF Connect, HasController
  <2>5. ASSUME NEW d \in Devices, NoteConnected(d) PROVE TypeOK'
    BY <2>5, ForgetFailuresType DEF NoteConnected
  <2>6. ASSUME NEW d \in Devices, EnterRun(d) PROVE TypeOK'
    BY <2>6 DEF EnterRun
  <2>7. ASSUME NEW d \in Devices, AttemptFails(d) PROVE TypeOK'
    BY <2>7 DEF AttemptFails, ReleaseSlot, HasController
  <2>8. ASSUME NEW d \in Devices, Disconnect(d) PROVE TypeOK'
    BY <2>8 DEF Disconnect, UnregisterOnDisconnect, Unregister, AfterCleanup
  <2>9. ASSUME NEW d \in Devices, L1Disconnect(d) PROVE TypeOK'
    BY <2>9, SaturateType DEF L1Disconnect, Unregister
  <2>10. ASSUME NEW d \in Devices, LadderAfterL1(d) PROVE TypeOK'
    BY <2>10, SaturateType DEF LadderAfterL1
  <2>11. ASSUME NEW d \in Devices, LadderAfterRemove(d) PROVE TypeOK'
    BY <2>11, SaturateType DEF LadderAfterRemove, DeclareBackoff
  <2>12. ASSUME NEW d \in Devices, AcquireAdapter(d) PROVE TypeOK'
    BY <2>12 DEF AcquireAdapter, CloseGate
  <2>13. ASSUME NEW d \in Devices, QuiesceLink(d) PROVE TypeOK'
    BY <2>13 DEF QuiesceLink, Unregister
  <2>14. ASSUME NEW d \in Devices, PowerOff(d) PROVE TypeOK'
    BY <2>14 DEF PowerOff, Command, CommandOutcome
  <2>15. ASSUME NEW d \in Devices, PowerOn(d) PROVE TypeOK'
    BY <2>15 DEF PowerOn, Command, CommandOutcome
  <2>16. ASSUME NEW d \in Devices, AdapterReady(d) PROVE TypeOK'
    BY <2>16, ForgetFailuresType DEF AdapterReady, LeaveAdapter
  <2>17. ASSUME NEW d \in Devices, Retry(d) PROVE TypeOK'
    BY <2>17 DEF Retry
  <2>18. ASSUME NEW d \in Devices, RestartDevice(d) PROVE TypeOK'
    BY <2>18, ForgetFailuresType DEF RestartDevice
  <2>19. ASSUME NEW d \in Devices, Cancel(d) PROVE TypeOK'
    <3>1. pc' \in [Devices -> Phases] /\ why' \in [Devices -> Reasons]
      BY <2>19 DEF Cancel
    <3>2. permits' \in Nat
      BY <2>19 DEF Cancel, ReleaseSlot
    <3>3. /\ gate' \in BOOLEAN /\ lock' \in Devices \cup {NoOne}
          /\ victims' \subseteq Devices /\ quiesced' \subseteq Devices
      BY <2>19 DEF Cancel, LeaveAdapterOnCancel, LeaveAdapter
    <3>4. UNCHANGED ladderVars
      BY <2>19 DEF Cancel
    <3>5. live' \subseteq Devices /\ ctrl' \subseteq live' /\ orphans' \subseteq live'
      BY <2>19, CancelLinks DEF Cancel
    <3>6. powered' \in BOOLEAN /\ late' \subseteq BOOLEAN /\ cut' \in BOOLEAN
      <4>1. PowerOnCancel(d)
        BY <2>19 DEF Cancel
      <4>2. cut' \in BOOLEAN
        BY <4>1 DEF PowerOnCancel
      <4>3. ASSUME NEW on \in BOOLEAN, CommandOutcome(on)
            PROVE  powered' \in BOOLEAN /\ late' \subseteq BOOLEAN
        BY <4>3 DEF CommandOutcome
      <4>4. CommandOutcome(TRUE) \/ CommandOutcome(FALSE) \/ UNCHANGED <<powered, late>>
        BY <4>1 DEF PowerOnCancel
      <4>5. QED
        BY <4>2, <4>3, <4>4
    <3>7. QED
      BY <3>1, <3>2, <3>3, <3>4, <3>5, <3>6
  <2>30. ASSUME LateCommand PROVE TypeOK'
    BY <2>30 DEF LateCommand
  <2>20. CASE UNCHANGED vars
    BY <2>20 DEF vars, taskVars, gateVars, powerVars, linkVars, ladderVars
  <2>21. QED
    BY <2>1, <2>2, <2>3, <2>4, <2>5, <2>6, <2>7, <2>8, <2>9, <2>10, <2>11,
       <2>12, <2>13, <2>14, <2>15, <2>16, <2>17, <2>18, <2>19, <2>20, <2>30, <2>0
       DEF Next, Step, Progress, Waits, LinkLost
<1>3. QED
  BY <1>1, <1>2, PTL DEF Spec

\* The number of registered devices is a natural number.
LEMMA DeviceCountNat ==
    ASSUME registered \subseteq Devices
    PROVE  device_count \in Nat
BY ConstantsAssumption, FS_Subset, FS_CardinalityType DEF device_count

(***************************************************************************)
(* The gate, the backoff table and the ladder.                             *)
(***************************************************************************)

\* A device in the ladder, or with an entry in the backoff table, has no
\* registered link: only note_connected registers, and it clears both.
OfflineInv ==
    \A d \in Devices :
        backoff[d] > 0 \/ pc[d] \in {"l1done", "remove"} => d \notin live

\* The L1 counter never runs ahead of the recoveries since the last
\* connection, and lags by one between the disconnect and the count.
EarnedInv ==
    \A d \in Devices :
        /\ l1f[d] <= tries[d]
        /\ pc[d] = "l1done" => tries[d] > l1f[d] \/ tries[d] = L1BeforeRemove + 1
        /\ device_count > 1 /\ pc[d] \in {"remove", "lock"} \cup Critical
               => tries[d] > L1BeforeRemove

LadderInv == TypeOK /\ GateGuardsRecovery /\ OfflineInv /\ EarnedInv

\* The gate is closed exactly while one L2 runs, no device with an entry in
\* the backoff table is connected, and no rung of the ladder is skipped, from
\* every await a task can be cancelled in.
THEOREM LadderCorrect ==
    Spec => [](GateGuardsRecovery /\ BackoffOnlyOffline /\ EscalationIsEarned)
<1>1. Init => GateGuardsRecovery /\ OfflineInv /\ EarnedInv
  BY ConstantsAssumption DEF Init, GateGuardsRecovery, OfflineInv, EarnedInv,
     Critical
<1>2. LadderInv /\ [Next]_vars => (GateGuardsRecovery /\ OfflineInv /\ EarnedInv)'
  <2> SUFFICES ASSUME LadderInv, [Next]_vars
               PROVE  (GateGuardsRecovery /\ OfflineInv /\ EarnedInv)'
    OBVIOUS
  <2> USE ConstantsAssumption
      DEF LadderInv, TypeOK, GateGuardsRecovery, OfflineInv, EarnedInv
  <2> USE DEF taskVars, powerVars, gateVars, linkVars, ladderVars, Goto, Because, Phases, Slotted,
              Critical
  <2>0. registered' = registered /\ registered \subseteq Devices
    BY DEF TypeOK, Next, vars
  <2>22. device_count \in Nat /\ device_count' = device_count
    BY <2>0, DeviceCountNat DEF device_count
  <2> USE <2>22
  <2>1. ASSUME NEW d \in Devices, Start(d) PROVE (GateGuardsRecovery /\ OfflineInv /\ EarnedInv)'
    BY <2>1 DEF Start
  <2>2. ASSUME NEW d \in Devices, WaitRecoveryGate(d) PROVE (GateGuardsRecovery /\ OfflineInv /\ EarnedInv)'
    BY <2>2 DEF WaitRecoveryGate
  <2>3. ASSUME NEW d \in Devices, AcquireSlot(d) PROVE (GateGuardsRecovery /\ OfflineInv /\ EarnedInv)'
    BY <2>3 DEF AcquireSlot
  <2>4. ASSUME NEW d \in Devices, Connect(d) PROVE (GateGuardsRecovery /\ OfflineInv /\ EarnedInv)'
    BY <2>4 DEF Connect, HasController
  <2>5. ASSUME NEW d \in Devices, NoteConnected(d) PROVE (GateGuardsRecovery /\ OfflineInv /\ EarnedInv)'
    BY <2>5 DEF NoteConnected, ForgetFailures
  <2>6. ASSUME NEW d \in Devices, EnterRun(d) PROVE (GateGuardsRecovery /\ OfflineInv /\ EarnedInv)'
    BY <2>6 DEF EnterRun
  <2>7. ASSUME NEW d \in Devices, AttemptFails(d) PROVE (GateGuardsRecovery /\ OfflineInv /\ EarnedInv)'
    BY <2>7 DEF AttemptFails, ReleaseSlot, HasController
  <2>8. ASSUME NEW d \in Devices, Disconnect(d) PROVE (GateGuardsRecovery /\ OfflineInv /\ EarnedInv)'
    BY <2>8 DEF Disconnect, UnregisterOnDisconnect, Unregister, AfterCleanup
  <2>9. ASSUME NEW d \in Devices, L1Disconnect(d) PROVE (GateGuardsRecovery /\ OfflineInv /\ EarnedInv)'
    BY <2>9 DEF L1Disconnect, Unregister, Saturate
  <2>10. ASSUME NEW d \in Devices, LadderAfterL1(d) PROVE (GateGuardsRecovery /\ OfflineInv /\ EarnedInv)'
    BY <2>10 DEF LadderAfterL1, Saturate
  <2>11. ASSUME NEW d \in Devices, LadderAfterRemove(d) PROVE (GateGuardsRecovery /\ OfflineInv /\ EarnedInv)'
    BY <2>11 DEF LadderAfterRemove, DeclareBackoff, Saturate
  <2>12. ASSUME NEW d \in Devices, AcquireAdapter(d) PROVE (GateGuardsRecovery /\ OfflineInv /\ EarnedInv)'
    BY <2>12 DEF AcquireAdapter, CloseGate
  <2>13. ASSUME NEW d \in Devices, QuiesceLink(d) PROVE (GateGuardsRecovery /\ OfflineInv /\ EarnedInv)'
    BY <2>13 DEF QuiesceLink, Unregister
  <2>14. ASSUME NEW d \in Devices, PowerOff(d) PROVE (GateGuardsRecovery /\ OfflineInv /\ EarnedInv)'
    BY <2>14 DEF PowerOff, Command, CommandOutcome
  <2>15. ASSUME NEW d \in Devices, PowerOn(d) PROVE (GateGuardsRecovery /\ OfflineInv /\ EarnedInv)'
    BY <2>15 DEF PowerOn, Command, CommandOutcome
  <2>16. ASSUME NEW d \in Devices, AdapterReady(d) PROVE (GateGuardsRecovery /\ OfflineInv /\ EarnedInv)'
    BY <2>16 DEF AdapterReady, LeaveAdapter, ForgetFailures
  <2>17. ASSUME NEW d \in Devices, Retry(d) PROVE (GateGuardsRecovery /\ OfflineInv /\ EarnedInv)'
    BY <2>17 DEF Retry
  <2>18. ASSUME NEW d \in Devices, RestartDevice(d) PROVE (GateGuardsRecovery /\ OfflineInv /\ EarnedInv)'
    BY <2>18 DEF RestartDevice, ForgetFailures
  <2>19. ASSUME NEW d \in Devices, Cancel(d) PROVE (GateGuardsRecovery /\ OfflineInv /\ EarnedInv)'
    BY <2>19, CancelLinks DEF Cancel, ReleaseSlot, LeaveAdapterOnCancel, LeaveAdapter
  <2>30. ASSUME LateCommand PROVE (GateGuardsRecovery /\ OfflineInv /\ EarnedInv)'
    BY <2>30 DEF LateCommand
  <2>20. CASE UNCHANGED vars
    BY <2>20 DEF vars, taskVars, gateVars, powerVars, linkVars, ladderVars
  <2>21. QED
    BY <2>1, <2>2, <2>3, <2>4, <2>5, <2>6, <2>7, <2>8, <2>9, <2>10, <2>11,
       <2>12, <2>13, <2>14, <2>15, <2>16, <2>17, <2>18, <2>19, <2>20, <2>30, <2>0
       DEF Next, Step, Progress, Waits, LinkLost
<1>3. LadderInv => GateGuardsRecovery /\ BackoffOnlyOffline /\ EscalationIsEarned
  BY DEF LadderInv, OfflineInv, EarnedInv, BackoffOnlyOffline, EscalationIsEarned
<1>4. QED
  BY <1>1, <1>2, <1>3, TypeCorrect, PTL DEF Spec, LadderInv

(***************************************************************************)
(* The connect slots.                                                      *)
(***************************************************************************)

\* What a step of one task does to the set of slot holders.
LEMMA SlotHoldersStep ==
    ASSUME TypeOK, NEW d \in Devices, NEW p \in Phases, pc' = [pc EXCEPT ![d] = p]
    PROVE  SlotHolders' = IF p \in Slotted THEN SlotHolders \cup {d}
                                           ELSE SlotHolders \ {d}
BY DEF TypeOK, SlotHolders

\* ... and to their number.
LEMMA SlotCountStep ==
    ASSUME TypeOK, NEW d \in Devices, NEW p \in Phases, pc' = [pc EXCEPT ![d] = p]
    PROVE  /\ Cardinality(SlotHolders) \in Nat
           /\ (pc[d] \in Slotted <=> p \in Slotted)
                 => Cardinality(SlotHolders') = Cardinality(SlotHolders)
           /\ pc[d] \notin Slotted /\ p \in Slotted
                 => Cardinality(SlotHolders') = Cardinality(SlotHolders) + 1
           /\ pc[d] \in Slotted /\ p \notin Slotted
                 => Cardinality(SlotHolders') = Cardinality(SlotHolders) - 1
<1>1. IsFiniteSet(SlotHolders)
  BY ConstantsAssumption, FS_Subset DEF SlotHolders
<1>2. Cardinality(SlotHolders) \in Nat
  BY <1>1, FS_CardinalityType
<1>3. Cardinality(SlotHolders \cup {d})
        = IF d \in SlotHolders THEN Cardinality(SlotHolders)
                               ELSE Cardinality(SlotHolders) + 1
  BY <1>1, FS_AddElement
<1>4. Cardinality(SlotHolders \ {d})
        = IF d \in SlotHolders THEN Cardinality(SlotHolders) - 1
                               ELSE Cardinality(SlotHolders)
  BY <1>1, FS_RemoveElement
<1>5. d \in SlotHolders <=> pc[d] \in Slotted
  BY DEF SlotHolders
<1>6. QED
  BY <1>2, <1>3, <1>4, <1>5, SlotHoldersStep

\* A step that moves one task and keeps the balance of the semaphore.
LEMMA SlotStep ==
    ASSUME TypeOK, SlotsConserved, NEW d \in Devices, NEW p \in Phases,
           pc' = [pc EXCEPT ![d] = p],
           permits' = permits + (IF pc[d] \in Slotted THEN 1 ELSE 0)
                              - (IF p \in Slotted THEN 1 ELSE 0)
    PROVE  SlotsConserved'
<1>1. permits \in Nat /\ ConnectLimit \in Nat
  BY ConstantsAssumption DEF TypeOK
<1>2. permits + Cardinality(SlotHolders) = ConnectLimit
  BY DEF SlotsConserved
<1> DEFINE before == Cardinality(SlotHolders)
           after  == Cardinality(SlotHolders')
<1>3. /\ before \in Nat
      /\ (pc[d] \in Slotted <=> p \in Slotted) => after = before
      /\ pc[d] \notin Slotted /\ p \in Slotted => after = before + 1
      /\ pc[d] \in Slotted /\ p \notin Slotted => after = before - 1
  BY SlotCountStep
<1>4. permits' + after = ConnectLimit
  <2> HIDE DEF before, after
  <2>1. CASE pc[d] \in Slotted /\ p \in Slotted
    BY <1>1, <1>2, <1>3, <2>1 DEF before
  <2>2. CASE pc[d] \in Slotted /\ p \notin Slotted
    BY <1>1, <1>2, <1>3, <2>2 DEF before
  <2>3. CASE pc[d] \notin Slotted /\ p \in Slotted
    BY <1>1, <1>2, <1>3, <2>3 DEF before
  <2>4. CASE pc[d] \notin Slotted /\ p \notin Slotted
    BY <1>1, <1>2, <1>3, <2>4 DEF before
  <2>5. QED
    BY <2>1, <2>2, <2>3, <2>4
<1>5. QED
  BY <1>4 DEF SlotsConserved

\* No permit of connect_sem is lost or given back twice.
LEMMA SlotsStay == Spec => []SlotsConserved
<1>1. Init => SlotsConserved
  <2> SUFFICES ASSUME Init PROVE SlotsConserved
    OBVIOUS
  <2>1. SlotHolders = {}
    BY DEF Init, SlotHolders, Slotted
  <2>2. QED
    BY <2>1, FS_EmptySet, ConstantsAssumption DEF Init, SlotsConserved
<1>2. TypeOK /\ SlotsConserved /\ [Next]_vars => SlotsConserved'
  <2> SUFFICES ASSUME TypeOK, SlotsConserved, [Next]_vars
               PROVE  SlotsConserved'
    OBVIOUS
  <2>0. registered' = registered /\ registered \subseteq Devices
    BY DEF TypeOK, Next, vars
  <2>1. ASSUME NEW d \in Devices, Start(d) PROVE SlotsConserved'
    <3>1. "gate" \in Phases /\ pc' = [pc EXCEPT ![d] = "gate"]
      BY <2>1 DEF Start, Goto, Phases, Slotted, Critical
    <3>2. permits' = permits + (IF pc[d] \in Slotted THEN 1 ELSE 0)
                  - (IF "gate" \in Slotted THEN 1 ELSE 0)
      BY <2>1 DEF Start, TypeOK, Phases, Slotted, Critical
    <3>3. QED
      BY <3>1, <3>2, SlotStep
  <2>2. ASSUME NEW d \in Devices, WaitRecoveryGate(d) PROVE SlotsConserved'
    <3>1. "slot" \in Phases /\ pc' = [pc EXCEPT ![d] = "slot"]
      BY <2>2 DEF WaitRecoveryGate, Goto, Phases, Slotted, Critical
    <3>2. permits' = permits + (IF pc[d] \in Slotted THEN 1 ELSE 0)
                  - (IF "slot" \in Slotted THEN 1 ELSE 0)
      BY <2>2 DEF WaitRecoveryGate, TypeOK, Phases, Slotted, Critical
    <3>3. QED
      BY <3>1, <3>2, SlotStep
  <2>3. ASSUME NEW d \in Devices, AcquireSlot(d) PROVE SlotsConserved'
    <3>1. "connect" \in Phases /\ pc' = [pc EXCEPT ![d] = "connect"]
      BY <2>3 DEF AcquireSlot, Goto, Phases, Slotted, Critical
    <3>2. permits' = permits + (IF pc[d] \in Slotted THEN 1 ELSE 0)
                  - (IF "connect" \in Slotted THEN 1 ELSE 0)
      BY <2>3 DEF AcquireSlot, TypeOK, Phases, Slotted, Critical
    <3>3. QED
      BY <3>1, <3>2, SlotStep
  <2>4. ASSUME NEW d \in Devices, Connect(d) PROVE SlotsConserved'
    <3>1. "auth" \in Phases /\ pc' = [pc EXCEPT ![d] = "auth"]
      BY <2>4 DEF Connect, Goto, Phases, Slotted, Critical
    <3>2. permits' = permits + (IF pc[d] \in Slotted THEN 1 ELSE 0)
                  - (IF "auth" \in Slotted THEN 1 ELSE 0)
      BY <2>4 DEF Connect, TypeOK, Phases, Slotted, Critical
    <3>3. QED
      BY <3>1, <3>2, SlotStep
  <2>5. ASSUME NEW d \in Devices, NoteConnected(d) PROVE SlotsConserved'
    <3>1. "initial" \in Phases /\ pc' = [pc EXCEPT ![d] = "initial"]
      BY <2>5 DEF NoteConnected, Goto, Phases, Slotted, Critical
    <3>2. permits' = permits + (IF pc[d] \in Slotted THEN 1 ELSE 0)
                  - (IF "initial" \in Slotted THEN 1 ELSE 0)
      BY <2>5 DEF NoteConnected, TypeOK, Phases, Slotted, Critical
    <3>3. QED
      BY <3>1, <3>2, SlotStep
  <2>6. ASSUME NEW d \in Devices, EnterRun(d) PROVE SlotsConserved'
    <3>1. "run" \in Phases /\ pc' = [pc EXCEPT ![d] = "run"]
      BY <2>6 DEF EnterRun, Goto, Phases, Slotted, Critical
    <3>2. permits' = permits + (IF pc[d] \in Slotted THEN 1 ELSE 0)
                  - (IF "run" \in Slotted THEN 1 ELSE 0)
      BY <2>6 DEF EnterRun, TypeOK, Phases, Slotted, Critical
    <3>3. QED
      BY <3>1, <3>2, SlotStep
  <2>7. ASSUME NEW d \in Devices, AttemptFails(d) PROVE SlotsConserved'
    <3>1. "cleanup" \in Phases /\ pc' = [pc EXCEPT ![d] = "cleanup"]
      BY <2>7 DEF AttemptFails, Goto, Phases, Slotted, Critical
    <3>2. permits' = permits + (IF pc[d] \in Slotted THEN 1 ELSE 0)
                  - (IF "cleanup" \in Slotted THEN 1 ELSE 0)
      BY <2>7 DEF AttemptFails, ReleaseSlot, TypeOK, Phases, Slotted, Critical
    <3>3. QED
      BY <3>1, <3>2, SlotStep
  <2>8. ASSUME NEW d \in Devices, Disconnect(d) PROVE SlotsConserved'
    <3>1. AfterCleanup(why[d]) \in Phases /\ pc' = [pc EXCEPT ![d] = AfterCleanup(why[d])]
      BY <2>8 DEF Disconnect, Goto, AfterCleanup, Phases, Slotted, Critical
    <3>2. permits' = permits + (IF pc[d] \in Slotted THEN 1 ELSE 0)
                  - (IF AfterCleanup(why[d]) \in Slotted THEN 1 ELSE 0)
      BY <2>8 DEF Disconnect, AfterCleanup, TypeOK, Phases, Slotted, Critical
    <3>3. QED
      BY <3>1, <3>2, SlotStep
  <2>9. ASSUME NEW d \in Devices, L1Disconnect(d) PROVE SlotsConserved'
    <3>1. "l1done" \in Phases /\ pc' = [pc EXCEPT ![d] = "l1done"]
      BY <2>9 DEF L1Disconnect, Unregister, Goto, Phases, Slotted, Critical
    <3>2. permits' = permits + (IF pc[d] \in Slotted THEN 1 ELSE 0)
                  - (IF "l1done" \in Slotted THEN 1 ELSE 0)
      BY <2>9 DEF L1Disconnect, TypeOK, Phases, Slotted, Critical
    <3>3. QED
      BY <3>1, <3>2, SlotStep
  <2>10. ASSUME NEW d \in Devices, LadderAfterL1(d) PROVE SlotsConserved'
    <3>1. PICK p \in {"lock", "delay", "remove"} : pc' = [pc EXCEPT ![d] = p]
      BY <2>10 DEF LadderAfterL1, Goto
    <3>2. permits' = permits + (IF pc[d] \in Slotted THEN 1 ELSE 0)
                  - (IF p \in Slotted THEN 1 ELSE 0)
      BY <2>10, <3>1 DEF LadderAfterL1, TypeOK, Phases, Slotted, Critical
    <3>3. QED
      BY <3>1, <3>2, SlotStep DEF Phases, Slotted, Critical
  <2>11. ASSUME NEW d \in Devices, LadderAfterRemove(d) PROVE SlotsConserved'
    <3>1. PICK p \in {"delay", "lock"} : pc' = [pc EXCEPT ![d] = p]
      BY <2>11 DEF LadderAfterRemove, Goto
    <3>2. permits' = permits + (IF pc[d] \in Slotted THEN 1 ELSE 0)
                  - (IF p \in Slotted THEN 1 ELSE 0)
      BY <2>11, <3>1 DEF LadderAfterRemove, TypeOK, Phases, Slotted, Critical
    <3>3. QED
      BY <3>1, <3>2, SlotStep DEF Phases, Slotted, Critical
  <2>12. ASSUME NEW d \in Devices, AcquireAdapter(d) PROVE SlotsConserved'
    <3>1. "quiesce" \in Phases /\ pc' = [pc EXCEPT ![d] = "quiesce"]
      BY <2>12 DEF AcquireAdapter, Goto, Phases, Slotted, Critical
    <3>2. permits' = permits + (IF pc[d] \in Slotted THEN 1 ELSE 0)
                  - (IF "quiesce" \in Slotted THEN 1 ELSE 0)
      BY <2>12 DEF AcquireAdapter, TypeOK, Phases, Slotted, Critical
    <3>3. QED
      BY <3>1, <3>2, SlotStep
  <2>13. ASSUME NEW d \in Devices, QuiesceLink(d) PROVE SlotsConserved'
    BY <2>13 DEF QuiesceLink, taskVars, SlotsConserved, SlotHolders
  <2>14. ASSUME NEW d \in Devices, PowerOff(d) PROVE SlotsConserved'
    <3>1. "off" \in Phases /\ pc' = [pc EXCEPT ![d] = "off"]
      BY <2>14 DEF PowerOff, Goto, Phases, Slotted, Critical
    <3>2. permits' = permits + (IF pc[d] \in Slotted THEN 1 ELSE 0)
                  - (IF "off" \in Slotted THEN 1 ELSE 0)
      BY <2>14 DEF PowerOff, TypeOK, Phases, Slotted, Critical
    <3>3. QED
      BY <3>1, <3>2, SlotStep
  <2>15. ASSUME NEW d \in Devices, PowerOn(d) PROVE SlotsConserved'
    <3>1. "on" \in Phases /\ pc' = [pc EXCEPT ![d] = "on"]
      BY <2>15 DEF PowerOn, Goto, Phases, Slotted, Critical
    <3>2. permits' = permits + (IF pc[d] \in Slotted THEN 1 ELSE 0)
                  - (IF "on" \in Slotted THEN 1 ELSE 0)
      BY <2>15 DEF PowerOn, TypeOK, Phases, Slotted, Critical
    <3>3. QED
      BY <3>1, <3>2, SlotStep
  <2>16. ASSUME NEW d \in Devices, AdapterReady(d) PROVE SlotsConserved'
    <3>1. "delay" \in Phases /\ pc' = [pc EXCEPT ![d] = "delay"]
      BY <2>16 DEF AdapterReady, Goto, Phases, Slotted, Critical
    <3>2. permits' = permits + (IF pc[d] \in Slotted THEN 1 ELSE 0)
                  - (IF "delay" \in Slotted THEN 1 ELSE 0)
      BY <2>16 DEF AdapterReady, TypeOK, Phases, Slotted, Critical
    <3>3. QED
      BY <3>1, <3>2, SlotStep
  <2>17. ASSUME NEW d \in Devices, Retry(d) PROVE SlotsConserved'
    <3>1. "gate" \in Phases /\ pc' = [pc EXCEPT ![d] = "gate"]
      BY <2>17 DEF Retry, Goto, Phases, Slotted, Critical
    <3>2. permits' = permits + (IF pc[d] \in Slotted THEN 1 ELSE 0)
                  - (IF "gate" \in Slotted THEN 1 ELSE 0)
      BY <2>17 DEF Retry, TypeOK, Phases, Slotted, Critical
    <3>3. QED
      BY <3>1, <3>2, SlotStep
  <2>18. ASSUME NEW d \in Devices, RestartDevice(d) PROVE SlotsConserved'
    <3>1. "stopped" \in Phases /\ pc' = [pc EXCEPT ![d] = "stopped"]
      BY <2>18 DEF RestartDevice, Goto, Phases, Slotted, Critical
    <3>2. permits' = permits + (IF pc[d] \in Slotted THEN 1 ELSE 0)
                  - (IF "stopped" \in Slotted THEN 1 ELSE 0)
      BY <2>18 DEF RestartDevice, TypeOK, Phases, Slotted, Critical
    <3>3. QED
      BY <3>1, <3>2, SlotStep
  <2>19. ASSUME NEW d \in Devices, Cancel(d) PROVE SlotsConserved'
    <3>1. PICK p \in {"cleanup", "stopped"} : pc' = [pc EXCEPT ![d] = p]
      BY <2>19 DEF Cancel, Goto
    <3>2. permits' = permits + (IF pc[d] \in Slotted THEN 1 ELSE 0)
                  - (IF p \in Slotted THEN 1 ELSE 0)
      BY <2>19, <3>1 DEF Cancel, ReleaseSlot, TypeOK, Phases, Slotted, Critical
    <3>3. QED
      BY <3>1, <3>2, SlotStep DEF Phases, Slotted, Critical
  <2>30. ASSUME LateCommand PROVE SlotsConserved'
    BY <2>30 DEF LateCommand, taskVars, SlotsConserved, SlotHolders
  <2>20. CASE UNCHANGED vars
    BY <2>20 DEF vars, taskVars, SlotsConserved, SlotHolders
  <2>21. QED
    BY <2>1, <2>2, <2>3, <2>4, <2>5, <2>6, <2>7, <2>8, <2>9, <2>10, <2>11,
       <2>12, <2>13, <2>14, <2>15, <2>16, <2>17, <2>18, <2>19, <2>20, <2>30, <2>0
       DEF Next, Step, Progress, Waits, LinkLost
<1>3. QED
  BY <1>1, <1>2, TypeCorrect, PTL DEF Spec

\* connect_slot gives its permit back exactly once, and every variable keeps its type.
THEOREM SlotsTheorem == Spec => []SlotsHold
BY TypeCorrect, SlotsStay, PTL DEF SlotsHold

(***************************************************************************)
(* The quiesce of L2.                                                      *)
(***************************************************************************)

\* Whoever the running L2 has disconnected, or is about to, is not in the
\* connect window, unless only a left-over entry of it was found: it has to
\* come through the gate again.
OutsideWindowInv ==
    /\ victims \cup quiesced # {} => ~gate
    /\ \A v \in quiesced \cup (victims \ orphans) :
           pc[v] \notin {"slot", "connect", "auth"}

QuiesceInv == TypeOK /\ GateGuardsRecovery /\ RegisteredIsServed
                    /\ OutsideWindowInv /\ QuiescedStayOut

\* Wherever tasks are cancelled, every registered link whose clean-up was not
\* cut off has a task that will unregister it, and no link that L2 took down
\* is registered again before the gate opens.
THEOREM QuiesceCorrect == Spec => [](RegisteredIsServed /\ QuiescedStayOut)
<1> DEFINE Part == /\ GateGuardsRecovery /\ RegisteredIsServed
                   /\ OutsideWindowInv /\ QuiescedStayOut
<1>1. Init => Part
  BY ConstantsAssumption DEF Init, GateGuardsRecovery, RegisteredIsServed,
     OutsideWindowInv, QuiescedStayOut, Critical
<1>2. QuiesceInv /\ [Next]_vars => Part'
  <2> SUFFICES ASSUME QuiesceInv, [Next]_vars
               PROVE  Part'
    OBVIOUS
  <2> USE ConstantsAssumption
      DEF QuiesceInv, TypeOK, GateGuardsRecovery, RegisteredIsServed,
          OutsideWindowInv, QuiescedStayOut
  <2> USE DEF taskVars, powerVars, gateVars, linkVars, ladderVars, Goto, Because, Phases, Slotted,
              Critical
  <2>0. registered' = registered /\ registered \subseteq Devices
    BY DEF TypeOK, Next, vars
  <2>1. ASSUME NEW d \in Devices, Start(d) PROVE Part'
    BY <2>1 DEF Start
  <2>2. ASSUME NEW d \in Devices, WaitRecoveryGate(d) PROVE Part'
    BY <2>2 DEF WaitRecoveryGate
  <2>3. ASSUME NEW d \in Devices, AcquireSlot(d) PROVE Part'
    BY <2>3 DEF AcquireSlot
  <2>4. ASSUME NEW d \in Devices, Connect(d) PROVE Part'
    BY <2>4 DEF Connect, HasController
  <2>5. ASSUME NEW d \in Devices, NoteConnected(d) PROVE Part'
    BY <2>5 DEF NoteConnected, ForgetFailures
  <2>6. ASSUME NEW d \in Devices, EnterRun(d) PROVE Part'
    BY <2>6 DEF EnterRun
  <2>7. ASSUME NEW d \in Devices, AttemptFails(d) PROVE Part'
    BY <2>7 DEF AttemptFails, ReleaseSlot, HasController
  <2>8. ASSUME NEW d \in Devices, Disconnect(d) PROVE Part'
    BY <2>8 DEF Disconnect, UnregisterOnDisconnect, Unregister, AfterCleanup
  <2>9. ASSUME NEW d \in Devices, L1Disconnect(d) PROVE Part'
    BY <2>9 DEF L1Disconnect, Unregister, Saturate
  <2>10. ASSUME NEW d \in Devices, LadderAfterL1(d) PROVE Part'
    BY <2>10 DEF LadderAfterL1, Saturate
  <2>11. ASSUME NEW d \in Devices, LadderAfterRemove(d) PROVE Part'
    BY <2>11 DEF LadderAfterRemove, DeclareBackoff, Saturate
  <2>12. ASSUME NEW d \in Devices, AcquireAdapter(d) PROVE Part'
    BY <2>12 DEF AcquireAdapter, CloseGate
  <2>13. ASSUME NEW d \in Devices, QuiesceLink(d) PROVE Part'
    BY <2>13 DEF QuiesceLink, Unregister
  <2>14. ASSUME NEW d \in Devices, PowerOff(d) PROVE Part'
    BY <2>14 DEF PowerOff, Command, CommandOutcome
  <2>15. ASSUME NEW d \in Devices, PowerOn(d) PROVE Part'
    BY <2>15 DEF PowerOn, Command, CommandOutcome
  <2>16. ASSUME NEW d \in Devices, AdapterReady(d) PROVE Part'
    BY <2>16 DEF AdapterReady, LeaveAdapter, ForgetFailures
  <2>17. ASSUME NEW d \in Devices, Retry(d) PROVE Part'
    BY <2>17 DEF Retry
  <2>18. ASSUME NEW d \in Devices, RestartDevice(d) PROVE Part'
    BY <2>18 DEF RestartDevice, ForgetFailures
  <2>19. ASSUME NEW d \in Devices, Cancel(d) PROVE Part'
    BY <2>19, CancelLinks DEF Cancel, ReleaseSlot, LeaveAdapterOnCancel, LeaveAdapter
  <2>30. ASSUME LateCommand PROVE Part'
    BY <2>30 DEF LateCommand
  <2>20. CASE UNCHANGED vars
    BY <2>20 DEF vars, taskVars, gateVars, powerVars, linkVars, ladderVars
  <2>21. QED
    BY <2>1, <2>2, <2>3, <2>4, <2>5, <2>6, <2>7, <2>8, <2>9, <2>10, <2>11,
       <2>12, <2>13, <2>14, <2>15, <2>16, <2>17, <2>18, <2>19, <2>20, <2>30, <2>0
       DEF Next, Step, Progress, Waits, LinkLost
<1>3. QED
  BY <1>1, <1>2, TypeCorrect, PTL DEF Spec, QuiesceInv

(***************************************************************************)
(* The power cycle.                                                        *)
(***************************************************************************)

\* Without power somebody is inside the power cycle or an earlier one was cut,
\* and a command that comes late is the work of a cut one.
PowerInv ==
    /\ late # {} => cut
    /\ powered \/ cut \/ \E d \in Devices : pc[d] = "off"

\* Wherever tasks are cancelled and whatever becomes of a power command, the
\* managers may connect with the adapter off only after a power cycle that was
\* cut off or had a command that failed or was late (recover_adapter,
\* _power_cycle, _bluetoothctl).
THEOREM PowerCorrect == Spec => []OffOnlyAfterCut
<1>1. Init => PowerInv
  BY DEF Init, PowerInv
<1>2. TypeOK /\ GateGuardsRecovery /\ PowerInv /\ [Next]_vars => PowerInv'
  <2> SUFFICES ASSUME TypeOK, GateGuardsRecovery, PowerInv, [Next]_vars
               PROVE  PowerInv'
    OBVIOUS
  <2> USE DEF TypeOK, GateGuardsRecovery, PowerInv
  <2> USE DEF taskVars, powerVars, gateVars, linkVars, ladderVars, Goto, Because, Phases, Slotted,
              Critical
  <2>0. registered' = registered /\ registered \subseteq Devices
    BY DEF TypeOK, Next, vars
  <2>1. ASSUME NEW d \in Devices, Start(d) PROVE PowerInv'
    BY <2>1 DEF Start
  <2>2. ASSUME NEW d \in Devices, WaitRecoveryGate(d) PROVE PowerInv'
    BY <2>2 DEF WaitRecoveryGate
  <2>3. ASSUME NEW d \in Devices, AcquireSlot(d) PROVE PowerInv'
    BY <2>3 DEF AcquireSlot
  <2>4. ASSUME NEW d \in Devices, Connect(d) PROVE PowerInv'
    BY <2>4 DEF Connect, HasController
  <2>5. ASSUME NEW d \in Devices, NoteConnected(d) PROVE PowerInv'
    BY <2>5 DEF NoteConnected, ForgetFailures
  <2>6. ASSUME NEW d \in Devices, EnterRun(d) PROVE PowerInv'
    BY <2>6 DEF EnterRun
  <2>7. ASSUME NEW d \in Devices, AttemptFails(d) PROVE PowerInv'
    BY <2>7 DEF AttemptFails, ReleaseSlot, HasController
  <2>8. ASSUME NEW d \in Devices, Disconnect(d) PROVE PowerInv'
    BY <2>8 DEF Disconnect, UnregisterOnDisconnect, Unregister, AfterCleanup
  <2>9. ASSUME NEW d \in Devices, L1Disconnect(d) PROVE PowerInv'
    BY <2>9 DEF L1Disconnect, Unregister, Saturate
  <2>10. ASSUME NEW d \in Devices, LadderAfterL1(d) PROVE PowerInv'
    BY <2>10 DEF LadderAfterL1, Saturate
  <2>11. ASSUME NEW d \in Devices, LadderAfterRemove(d) PROVE PowerInv'
    BY <2>11 DEF LadderAfterRemove, DeclareBackoff, Saturate
  <2>12. ASSUME NEW d \in Devices, AcquireAdapter(d) PROVE PowerInv'
    BY <2>12 DEF AcquireAdapter, CloseGate
  <2>13. ASSUME NEW d \in Devices, QuiesceLink(d) PROVE PowerInv'
    BY <2>13 DEF QuiesceLink, Unregister
  <2>14. ASSUME NEW d \in Devices, PowerOff(d) PROVE PowerInv'
    BY <2>14 DEF PowerOff, Command, CommandOutcome
  <2>15. ASSUME NEW d \in Devices, PowerOn(d) PROVE PowerInv'
    BY <2>15 DEF PowerOn, Command, CommandOutcome
  <2>16. ASSUME NEW d \in Devices, AdapterReady(d) PROVE PowerInv'
    BY <2>16 DEF AdapterReady, LeaveAdapter, ForgetFailures
  <2>17. ASSUME NEW d \in Devices, Retry(d) PROVE PowerInv'
    BY <2>17 DEF Retry
  <2>18. ASSUME NEW d \in Devices, RestartDevice(d) PROVE PowerInv'
    BY <2>18 DEF RestartDevice, ForgetFailures
  <2>19. ASSUME NEW d \in Devices, Cancel(d) PROVE PowerInv'
    BY <2>19 DEF Cancel, PowerOnCancel, CommandOutcome
  <2>30. ASSUME LateCommand PROVE PowerInv'
    BY <2>30 DEF LateCommand
  <2>20. CASE UNCHANGED vars
    BY <2>20 DEF vars, taskVars, gateVars, powerVars, linkVars, ladderVars
  <2>21. QED
    BY <2>1, <2>2, <2>3, <2>4, <2>5, <2>6, <2>7, <2>8, <2>9, <2>10, <2>11,
       <2>12, <2>13, <2>14, <2>15, <2>16, <2>17, <2>18, <2>19, <2>20, <2>30, <2>0
       DEF Next, Step, Progress, Waits, LinkLost
<1>3. GateGuardsRecovery /\ PowerInv => OffOnlyAfterCut
  BY ConstantsAssumption
     DEF GateGuardsRecovery, PowerInv, OffOnlyAfterCut, Critical
<1>4. Spec => []GateGuardsRecovery
  BY LadderCorrect, PTL
<1>5. QED
  BY <1>1, <1>2, <1>3, <1>4, TypeCorrect, PTL DEF Spec

\* The ladder in order, as the run checks it: LadderCorrect and QuiesceCorrect together.
THEOREM LadderInOrderTheorem == Spec => []LadderInOrder
<1>1. Spec => [](BackoffOnlyOffline /\ EscalationIsEarned)
  BY LadderCorrect, PTL
<1>2. Spec => [](RegisteredIsServed /\ QuiescedStayOut)
  BY QuiesceCorrect
<1>3. BackoffOnlyOffline /\ EscalationIsEarned /\ RegisteredIsServed => LadderInOrder
  BY DEF LadderInOrder
<1>4. QED
  BY <1>1, <1>2, <1>3, PTL

-----------------------------------------------------------------------------
(* The merged scan.                                                          *)

\* A task has a Future exactly while it is in a call.
HoldInv == \A c \in Callers : phase[c] = "idle" <=> hold[c] = None

ScanInv == ScanTypeOK /\ HoldInv /\ OpenIsLed

\* Whatever Future ends a call, done as it is, the result is one of find_device.
LEMMA OutcomeType ==
    ASSUME ScanTypeOK, NEW f \in Futures, Done(f)
    PROVE  Outcome(f) \in {"found", "missing", "killed"}
BY DEF ScanTypeOK, Done, Outcome

\* After a scan the Future of the leader is done, those that were done keep
\* their answer, and what is still open is not to be found any more.
LEMMA AnswerFacts ==
    ASSUME ScanTypeOK, NEW c \in Callers, hold[c] \in Futures,
           NEW seen \in SUBSET Macs, Answer(c, seen)
    PROVE  /\ fut' \in [Futures -> {"open", "found", "missing", "cancelled"}]
           /\ fut'[hold[c]] # "open"
           /\ \A f \in Futures : fut'[f] = "open"
                 => fut[f] = "open" /\ \A m \in Macs : pending[m] # f
<1>1. fut' \in [Futures -> {"open", "found", "missing", "cancelled"}]
  BY DEF ScanTypeOK, Answer, Done
<1>2. ASSUME NEW f \in Futures, fut'[f] = "open"
      PROVE  fut[f] = "open" /\ f # hold[c] /\ \A m \in Macs : pending[m] # f
  BY <1>2 DEF ScanTypeOK, Answer, Done
<1>3. QED
  BY <1>1, <1>2

\* The finally of a leader leaves every other entry of _pending alone.
LEMMA ForgetFacts ==
    ASSUME ScanTypeOK, NEW c \in Callers, Forget(c)
    PROVE  /\ pending' \in [Macs -> Futures \cup {None}]
           /\ \A m \in Macs : pending'[m] \in {pending[m], None}
BY ScanAssumption DEF ScanTypeOK, Forget

\* The invariant behind the theorem is inductive, action by action.
LEMMA ScanInvInductive == ScanInv /\ [ScanNext]_scanVars => ScanInv'
<1> SUFFICES ASSUME ScanInv, [ScanNext]_scanVars PROVE ScanInv'
  OBVIOUS
<1> USE ScanAssumption DEF ScanInv, HoldInv
<1>1. ASSUME NEW c \in Callers, Follow(c) PROVE ScanInv'
  <2> DEFINE f == pending[MacOf[c]]
  <2>1. f \in Futures /\ fut[f] = "open"
    BY <1>1 DEF Follow, Done, ScanTypeOK
  <2>2. ScanTypeOK' /\ HoldInv'
    BY <1>1, <2>1 DEF Follow, ScanTypeOK
  <2>3. \A g \in Futures :
          (\E e \in Callers : Leads(e) /\ hold[e] = g)
             => \E e \in Callers : (Leads(e) /\ hold[e] = g)'
    BY <1>1 DEF Follow, Leads, ScanTypeOK
  <2>4. OpenIsLed'
    BY <1>1, <2>1, <2>3 DEF Follow, OpenIsLed, Done, ScanTypeOK
  <2>5. QED
    BY <2>2, <2>4
<1>2. ASSUME NEW c \in Callers, Lead(c) PROVE ScanInv'
  <2>1. PICK f \in Futures : /\ NewFuture(f)
                             /\ fut' = [fut EXCEPT ![f] = "open"]
                             /\ pending' = [pending EXCEPT ![MacOf[c]] = f]
                             /\ hold' = [hold EXCEPT ![c] = f]
    BY <1>2 DEF Lead
  <2>2. ScanTypeOK' /\ HoldInv'
    BY <1>2, <2>1 DEF Lead, ScanTypeOK
  <2>3. \A g \in Futures :
          (\E e \in Callers : Leads(e) /\ hold[e] = g)
             => \E e \in Callers : (Leads(e) /\ hold[e] = g)'
    BY <1>2, <2>1 DEF Lead, Leads, ScanTypeOK
  <2>4. (Leads(c) /\ hold[c] = f)'
    BY <1>2, <2>1 DEF Lead, Leads, ScanTypeOK
  <2>5. OpenIsLed'
    BY <1>2, <2>1, <2>3, <2>4 DEF Lead, NewFuture, OpenIsLed, Done, ScanTypeOK
  <2>6. QED
    BY <2>2, <2>5
<1>3. ASSUME NEW c \in Callers, AnsweredAtLock(c) PROVE ScanInv'
  <2>1. hold[c] \in Futures /\ Done(hold[c])
    BY <1>3 DEF AnsweredAtLock, ScanTypeOK
  <2>2. ScanTypeOK' /\ HoldInv'
    BY <1>3, <2>1, OutcomeType, ForgetFacts DEF AnsweredAtLock, Return, ScanTypeOK
  <2>3. \A g \in Futures : ~Done(g) /\ (\E e \in Callers : Leads(e) /\ hold[e] = g)
             => \E e \in Callers : (Leads(e) /\ hold[e] = g)'
    BY <1>3, <2>1 DEF AnsweredAtLock, Return, Leads, ScanTypeOK
  <2>4. OpenIsLed'
    BY <1>3, <2>3, ForgetFacts DEF AnsweredAtLock, Return, OpenIsLed, Done, ScanTypeOK
  <2>5. QED
    BY <2>2, <2>4
<1>4. ASSUME NEW c \in Callers, StartScan(c) PROVE ScanInv'
  <2>1. ScanTypeOK' /\ HoldInv'
    BY <1>4 DEF StartScan, ScanTypeOK
  <2>2. OpenIsLed'
    BY <1>4 DEF StartScan, OpenIsLed, Leads, Done, ScanTypeOK
  <2>3. QED
    BY <2>1, <2>2
<1>5. ASSUME NEW c \in Callers, ScanDone(c) PROVE ScanInv'
  <2>1. hold[c] \in Futures
    BY <1>5 DEF ScanDone, ScanTypeOK
  <2>2. PICK seen \in SUBSET Macs : Answer(c, seen)
    BY <1>5 DEF ScanDone
  <2>3. /\ fut' \in [Futures -> {"open", "found", "missing", "cancelled"}]
        /\ fut'[hold[c]] # "open"
        /\ \A f \in Futures : fut'[f] = "open"
              => fut[f] = "open" /\ \A m \in Macs : pending[m] # f
    BY <2>1, <2>2, AnswerFacts
  <2>4. ScanTypeOK' /\ HoldInv'
    BY <1>5, <2>1, <2>3, ForgetFacts DEF ScanDone, Return, ScanTypeOK
  <2>5. OpenIsLed'
    BY <1>5, <2>1, <2>3, ForgetFacts DEF ScanDone, Return, OpenIsLed, Leads, Done, ScanTypeOK
  <2>6. QED
    BY <2>4, <2>5
<1>6. ASSUME NEW c \in Callers, FollowerReturns(c) PROVE ScanInv'
  <2>1. hold[c] \in Futures /\ Done(hold[c])
    BY <1>6 DEF FollowerReturns, ScanTypeOK
  <2>2. ScanTypeOK' /\ HoldInv'
    BY <1>6, <2>1, OutcomeType DEF FollowerReturns, Return, ScanTypeOK
  <2>3. OpenIsLed'
    BY <1>6, <2>1 DEF FollowerReturns, Return, OpenIsLed, Leads, Done, ScanTypeOK
  <2>4. QED
    BY <2>2, <2>3
<1>7. ASSUME NEW c \in Callers, CancelCall(c) PROVE ScanInv'
  <2>1. hold[c] \in Futures
    BY <1>7 DEF CancelCall, ScanTypeOK
  <2>2. /\ fut' \in [Futures -> {"open", "found", "missing", "cancelled"}]
        /\ fut'[hold[c]] # "open"
        /\ \A f \in Futures : fut'[f] = "open" => fut[f] = "open"
        /\ pending' \in [Macs -> Futures \cup {None}]
        /\ \A m \in Macs : pending'[m] \in {pending[m], None}
    <3>1. CASE Leads(c) /\ Forget(c) /\ Settle(c)
      BY <2>1, <3>1, ForgetFacts DEF Settle, ScanTypeOK
    <3>2. CASE /\ fut' = [fut EXCEPT ![hold[c]] = IF @ = "open" THEN "cancelled" ELSE @]
               /\ UNCHANGED pending
      BY <2>1, <3>2 DEF ScanTypeOK
    <3>3. QED
      BY <1>7, <3>1, <3>2 DEF CancelCall
  <2>3. ScanTypeOK' /\ HoldInv'
    BY <1>7, <2>1, <2>2 DEF CancelCall, Return, ScanTypeOK
  <2>4. OpenIsLed'
    BY <1>7, <2>1, <2>2 DEF CancelCall, Return, OpenIsLed, Leads, Done, ScanTypeOK
  <2>5. QED
    BY <2>3, <2>4
<1>8. CASE UNCHANGED scanVars
  BY <1>8 DEF scanVars, ScanTypeOK, OpenIsLed, Leads, Done
<1>9. QED
  BY <1>1, <1>2, <1>3, <1>4, <1>5, <1>6, <1>7, <1>8 DEF ScanNext, TakeLock, Work

\* Wherever the tasks are cancelled, no Future that somebody awaits or would
\* find in _pending is left without a leader that answers it.
THEOREM OpenFuturesAreLed == ScanSpec => [](ScanTypeOK /\ OpenIsLed)
<1>1. ScanInit => ScanInv
  BY ScanAssumption DEF ScanInit, ScanInv, ScanTypeOK, HoldInv, OpenIsLed, Done
<1>2. ScanInv => ScanTypeOK /\ OpenIsLed
  BY DEF ScanInv
<1>3. QED
  BY <1>1, <1>2, ScanInvInductive, PTL DEF ScanSpec

\* A Future that a call still waits for is the entry of its device: what nobody
\* would find in _pending has been answered.
OpenIsPending ==
    \A c \in Callers : phase[c] # "idle" /\ ~Done(hold[c])
                          => \E m \in Macs : pending[m] = hold[c]

\* What a scan that ends of itself has not answered was never looked for.
LEMMA ScanServes ==
    ASSUME ScanInv, OpenIsPending, NEW c \in Callers, ScanDone(c)
    PROVE  \A e \in Callers : phase'[e] # "idle" => fut'[hold'[e]] # "open"
<1> USE ScanAssumption DEF ScanInv, HoldInv
<1>1. hold[c] \in Futures
  BY DEF ScanDone, ScanTypeOK
<1>2. PICK seen \in SUBSET Macs : Answer(c, seen)
  BY DEF ScanDone
<1>3. \A f \in Futures : fut'[f] = "open"
         => fut[f] = "open" /\ \A m \in Macs : pending[m] # f
  BY <1>1, <1>2, AnswerFacts
<1>4. ASSUME NEW e \in Callers, phase'[e] # "idle"
      PROVE  fut'[hold'[e]] # "open"
  <2>1. hold'[e] = hold[e] /\ phase[e] # "idle" /\ hold[e] \in Futures
    BY <1>4 DEF ScanDone, Return, ScanTypeOK
  <2>2. QED
    BY <1>3, <2>1 DEF OpenIsPending, Done
<1>5. QED
  BY <1>4

\* The steps that answer no call but the acting one: an entry is replaced or
\* forgotten only when its Future is done.
LEMMA OpenIsPendingStep == ScanInv /\ OpenIsPending /\ [ScanNext]_scanVars => OpenIsPending'
<1> SUFFICES ASSUME ScanInv, OpenIsPending, [ScanNext]_scanVars PROVE OpenIsPending'
  OBVIOUS
<1> USE ScanAssumption DEF ScanInv, HoldInv
<1>1. ASSUME NEW c \in Callers, Follow(c) PROVE OpenIsPending'
  BY <1>1 DEF Follow, OpenIsPending, Done, ScanTypeOK
<1>2. ASSUME NEW c \in Callers, Lead(c) PROVE OpenIsPending'
  <2>1. PICK f \in Futures : /\ NewFuture(f)
                             /\ fut' = [fut EXCEPT ![f] = "open"]
                             /\ pending' = [pending EXCEPT ![MacOf[c]] = f]
                             /\ hold' = [hold EXCEPT ![c] = f]
    BY <1>2 DEF Lead
  <2>2. pending'[MacOf[c]] = f
    BY <2>1 DEF ScanTypeOK
  <2>3. ASSUME NEW e \in Callers, e # c, (phase[e] # "idle" /\ ~Done(hold[e]))'
        PROVE  \E m \in Macs : pending'[m] = hold'[e]
    <3>1. hold'[e] = hold[e] /\ phase[e] # "idle" /\ hold[e] # f /\ ~Done(hold[e])
      BY <1>2, <2>1, <2>3 DEF Lead, NewFuture, Done, ScanTypeOK
    <3>2. PICK m \in Macs : pending[m] = hold[e]
      BY <3>1 DEF OpenIsPending
    <3>3. hold[e] # None
      BY <3>1
    <3>4. m # MacOf[c]
      BY <1>2, <3>1, <3>2, <3>3 DEF Lead
    <3>5. QED
      BY <2>1, <3>1, <3>2, <3>4 DEF ScanTypeOK
  <2>4. QED
    BY <2>1, <2>2, <2>3 DEF OpenIsPending, ScanTypeOK
<1>3. ASSUME NEW c \in Callers, AnsweredAtLock(c) PROVE OpenIsPending'
  BY <1>3 DEF AnsweredAtLock, Forget, Return, OpenIsPending, Done, ScanTypeOK
<1>4. ASSUME NEW c \in Callers, StartScan(c) PROVE OpenIsPending'
  BY <1>4 DEF StartScan, OpenIsPending, Done, ScanTypeOK
<1>5. ASSUME NEW c \in Callers, ScanDone(c) PROVE OpenIsPending'
  <2>1. \A e \in Callers : phase'[e] # "idle" => fut'[hold'[e]] # "open"
    BY <1>5, ScanServes
  <2>2. QED
    BY <2>1 DEF OpenIsPending, Done
<1>6. ASSUME NEW c \in Callers, FollowerReturns(c) PROVE OpenIsPending'
  BY <1>6 DEF FollowerReturns, Return, OpenIsPending, Done, ScanTypeOK
<1>7. ASSUME NEW c \in Callers, CancelCall(c) PROVE OpenIsPending'
  <2>1. hold[c] \in Futures
    BY <1>7 DEF CancelCall, ScanTypeOK
  <2>2. CASE Leads(c) /\ Forget(c) /\ Settle(c)
    BY <1>7, <2>1, <2>2 DEF CancelCall, Forget, Settle, Return, OpenIsPending, Done, ScanTypeOK
  <2>3. CASE /\ fut' = [fut EXCEPT ![hold[c]] = IF @ = "open" THEN "cancelled" ELSE @]
             /\ UNCHANGED pending
    BY <1>7, <2>1, <2>3 DEF CancelCall, Return, OpenIsPending, Done, ScanTypeOK
  <2>4. QED
    BY <1>7, <2>2, <2>3 DEF CancelCall
<1>8. CASE UNCHANGED scanVars
  BY <1>8 DEF scanVars, OpenIsPending, Done
<1>9. QED
  BY <1>1, <1>2, <1>3, <1>4, <1>5, <1>6, <1>7, <1>8 DEF ScanNext, TakeLock, Work

\* However many devices are looked for and whoever was cancelled before, a scan
\* that ends of itself leaves nobody waiting for an answer.
THEOREM OneScanServesAll == ScanSpec => ScanAnswersAll
<1>1. ScanInit => ScanInv /\ OpenIsPending
  BY ScanAssumption DEF ScanInit, ScanInv, ScanTypeOK, HoldInv, OpenIsLed, OpenIsPending, Done
<1>2. ScanInv /\ OpenIsPending /\ [ScanNext]_scanVars => (ScanInv /\ OpenIsPending)'
  BY ScanInvInductive, OpenIsPendingStep
<1>3. ScanInv /\ OpenIsPending /\ [ScanNext]_scanVars
        => [\A c \in Callers :
              phase[c] = "scan" /\ phase'[c] = "idle" /\ result'[c] # "stopped"
                 => \A e \in Callers : phase'[e] # "idle" => fut'[hold'[e]] # "open"]_scanVars
  <2> SUFFICES ASSUME ScanInv, OpenIsPending, ScanNext, NEW c \in Callers,
                      phase[c] = "scan", phase'[c] = "idle", result'[c] # "stopped"
               PROVE  \A e \in Callers : phase'[e] # "idle" => fut'[hold'[e]] # "open"
    OBVIOUS
  <2>1. PICK d \in Callers : Follow(d) \/ Lead(d) \/ TakeLock(d) \/ Work(d) \/ CancelCall(d)
    BY DEF ScanNext
  <2>2. d = c
    BY <2>1 DEF Follow, Lead, TakeLock, AnsweredAtLock, StartScan, Work, ScanDone,
                FollowerReturns, CancelCall, Return, ScanInv, ScanTypeOK
  <2>3. ScanDone(c)
    BY <2>1, <2>2 DEF Follow, Lead, TakeLock, AnsweredAtLock, StartScan, Work,
                      FollowerReturns, CancelCall, Return, ScanInv, ScanTypeOK
  <2>4. QED
    BY <2>3, ScanServes
<1>4. QED
  BY <1>1, <1>2, <1>3, PTL DEF ScanSpec, ScanAnswersAll
===========================================================================
