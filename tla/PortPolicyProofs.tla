-------------------------- MODULE PortPolicyProofs --------------------------
(***************************************************************************)
(* Theorems about PortPolicy, for any number of requests at a time, any      *)
(* queue length, any number of attempts and any bounds.                      *)
(***************************************************************************)
EXTENDS PortPolicy, TLAPS

\* The manager's memory r of a port, permanent or not, is coherent: FullOffCoherent
\* as a property of a record, so that the operators can be proved one by one.
Coherent(r, permanent) ==
    /\ r \in Memory
    /\ r.pend => r.foff # "" /\ ~r.chg
    /\ r.ffired => r.foff # "" /\ ~r.chg
    /\ r.foff # "" => ~permanent

LEMMA AttemptsNat == 0 \in 0..MaxAttempts /\ MaxAttempts \in Nat
<1>1. MaxAttempts \in Nat
  BY PolicyAssumption
<1>2. QED
  BY <1>1

LEMMA EmptyQueue == <<>> \in Seq({"auto", "off", "on"}) /\ Len(<<>>) <= QMAX
<1>1. QMAX \in Nat
  BY PolicyAssumption
<1>2. QED
  BY <1>1

LEMMA ReleaseCoherent ==
    ASSUME NEW r, NEW p, Coherent(r, p), NEW reason
    PROVE  Coherent(Release(r, reason), p)
BY DEF Coherent, Memory, Modes, Release

LEMMA ArmCoherent ==
    ASSUME NEW r, NEW p, Coherent(r, p), r.foff # "", ~r.chg
    PROVE  Coherent(ArmFullOff(r), p)
BY AttemptsNat DEF Coherent, Memory, ArmFullOff

\* An end of a session arms full-off only where it is on.
LEMMA CloseCoherent ==
    ASSUME NEW r, NEW p, Coherent(r, p), NEW reason
    PROVE  Coherent(Close(r, reason), p)
<1> DEFINE freed == Release(r, reason)
           ended == [freed EXCEPT !.chg = FALSE, !.full = FALSE]
           armed == IF reason = "low_power" /\ r.foff # "" /\ r.full THEN ArmFullOff(ended) ELSE ended
<1>0. Coherent(freed, p) /\ freed.foff = r.foff
  BY ReleaseCoherent DEF Coherent, Memory, Release
<1>1. Coherent(ended, p) /\ ~ended.chg /\ ended.foff = r.foff
  <2> HIDE DEF freed
  <2> QED BY <1>0 DEF Coherent, Memory
<1>2. Coherent(armed, p)
  BY <1>1, ArmCoherent
<1>3. Coherent([armed EXCEPT !.quiet = FALSE, !.armed = FALSE], p)
  <2> HIDE DEF armed
  <2> QED BY <1>2 DEF Coherent, Memory
<1>4. QED
  BY <1>2, <1>3 DEF Close

LEMMA CloseActiveCoherent ==
    ASSUME NEW r, NEW p, Coherent(r, p)
    PROVE  Coherent(CloseActive(r), p)
<1> DEFINE freed == Release(r, "outage")
<1>1. Coherent(freed, p)
  BY ReleaseCoherent
<1>2. Coherent([freed EXCEPT !.chg = FALSE, !.full = FALSE], p)
  <2> HIDE DEF freed
  <2> QED BY <1>1 DEF Coherent, Memory
<1>3. QED
  BY <1>2 DEF CloseActive

LEMMA StartCoherent ==
    ASSUME NEW r, NEW p, Coherent(r, p)
    PROVE  Coherent(StartSession(r), p)
BY AttemptsNat DEF Coherent, Memory, StartSession

LEMMA ConfirmCoherent ==
    ASSUME NEW r, NEW p, Coherent(r, p), ~r.chg, NEW v, NEW late
    PROVE  Coherent(Confirm(r, v, late), p)
<1>1. Coherent([r EXCEPT !.quiet = FALSE, !.armed = FALSE], p) /\ Coherent([r EXCEPT !.quiet = TRUE], p)
  BY DEF Coherent, Memory
<1>2. Coherent([r EXCEPT !.armed = TRUE], p)
      /\ [r EXCEPT !.armed = TRUE].foff = r.foff /\ ~[r EXCEPT !.armed = TRUE].chg
  BY DEF Coherent, Memory
<1>3. r.foff # "" => Coherent(ArmFullOff([r EXCEPT !.armed = TRUE]), p)
  BY <1>2, ArmCoherent
<1>4. QED
  BY <1>1, <1>3 DEF Confirm

\* A sample leaves the memory coherent, whatever its verdict.
LEMMA ManageCoherent ==
    ASSUME NEW r, NEW p, Coherent(r, p), NEW v, NEW late, NEW verdict
    PROVE  Coherent(Manage(r, v, late, verdict), p)
<1>1. CASE r.chg
  <2>1. Coherent([r EXCEPT !.quiet = TRUE], p) /\ Coherent([r EXCEPT !.quiet = FALSE, !.armed = FALSE], p)
    BY DEF Coherent, Memory
  <2>2. Coherent(ManageCharging(r, v, late, verdict), p)
    BY <2>1, CloseCoherent DEF ManageCharging
  <2>3. QED
    BY <1>1, <2>2 DEF Manage
<1>2. CASE ~r.chg
  BY <1>2, ConfirmCoherent, StartCoherent DEF Manage
<1>3. QED
  BY <1>1, <1>2

LEMMA GainCoherent ==
    ASSUME NEW r, NEW p, Coherent(r, p), NEW v, NEW verdict
    PROVE  Coherent(Gain(r, v, verdict), p)
BY DEF Coherent, Memory, Gain

LEMMA LimitCoherent ==
    ASSUME TypeOK, NEW r, NEW p, Coherent(r, p), NEW late
    PROVE  Coherent(EnforceLimit(r, late), p)
<1>1. Room \in BOOLEAN
  BY DEF Room
<1>2. QED
  BY <1>1 DEF Coherent, Memory, EnforceLimit

\* A confirmation, a retry and giving up each leave it so.
LEMMA FullOffOffCoherent ==
    ASSUME NEW r, NEW p, Coherent(r, p), NEW v, NEW late
    PROVE  Coherent(EnforceFullOff(r, v, late), p)
<1>1. MaxAttempts \in Nat
  BY AttemptsNat
<1>2. CASE r.pend /\ v = "none"
  BY <1>2 DEF Coherent, Memory, Modes, EnforceFullOff
<1>3. CASE r.pend /\ v # "none" /\ Retries(r, v, late)
  <2>1. r.att \in 0..MaxAttempts /\ r.att < MaxAttempts
    BY <1>3 DEF Retries, Coherent, Memory
  <2>2. r.att + 1 \in 0..MaxAttempts
    BY <1>1, <2>1
  <2>3. QED
    BY <1>3, <2>2 DEF Coherent, Memory, EnforceFullOff
<1>4. CASE r.pend /\ v # "none" /\ ~Retries(r, v, late)
  BY <1>4 DEF Coherent, Memory, EnforceFullOff
<1>5. CASE ~r.pend
  BY <1>5 DEF EnforceFullOff
<1>6. QED
  BY <1>2, <1>3, <1>4, <1>5

LEMMA LimitsSetCoherent ==
    ASSUME NEW r, NEW p, Coherent(r, p), NEW s \in Settings
    PROVE  Coherent(SetChargeLimits(r, s), p)
BY DEF Coherent, Memory, Settings, SetChargeLimits

\* Setting the modes revokes whatever the new ones do not allow.
LEMMA ModesCoherent ==
    ASSUME NEW r, NEW p, Coherent(r, p), NEW s \in Settings
    PROVE  Coherent(SetModes(r, s), s.perm)
<1> DEFINE t == SetPermanent(r, s.perm)
<1>1. t \in Memory /\ (t.pend => ~t.chg) /\ (t.ffired => ~t.chg)
  BY AttemptsNat DEF Coherent, Memory, Modes, SetPermanent
<1>2. s.perm \in BOOLEAN /\ s.foff \in Modes
  BY DEF Settings
<1>3. Coherent(SetFullOff(t, s.perm, s.foff), s.perm)
  <2> HIDE DEF t
  <2> QED BY <1>1, <1>2, AttemptsNat DEF Coherent, Memory, Modes, SetFullOff
<1>4. QED
  BY <1>3 DEF SetModes

LEMMA MountCoherent ==
    ASSUME NEW s \in Settings
    PROVE  Coherent(Mount(s), s.perm)
<1>1. Coherent(Fresh, FALSE)
  BY AttemptsNat DEF Coherent, Fresh, Memory, Modes
<1>2. QED
  BY <1>1, LimitsSetCoherent, ModesCoherent DEF Mount

-----------------------------------------------------------------------------
(* The actions.                                                              *)

Request == [Requests -> [at : Stages, new : Settings, other : BOOLEAN]]

\* What a step must keep besides the manager's memory.
RestOK ==
    /\ perm \in BOOLEAN /\ ps \in Readings /\ on \in BOOLEAN /\ link \in BOOLEAN
    /\ queue \in Seq({"auto", "off", "on"}) /\ Len(queue) <= QMAX
    /\ req \in Request
    /\ jobs \subseteq {"limit", "full"} /\ db \in Settings
    /\ left \in [posts : 0..Posts, events : 0..Events]

LEMMA InvariantParts == PolicyCoherent <=> RestOK /\ Coherent(m, perm)
BY DEF PolicyCoherent, TypeOK, FullOffCoherent, RestOK, Request, Coherent

LEMMA WriteBackType ==
    ASSUME jobs \subseteq {"limit", "full"}, NEW new, WriteBack(new)
    PROVE  jobs' \subseteq {"limit", "full"}
BY DEF WriteBack

\* cmd_queue never holds more than its places.
LEMMA EnqueueType ==
    ASSUME RestOK, NEW c \in {"auto", "off", "on"}, Room
    PROVE  Append(queue, c) \in Seq({"auto", "off", "on"}) /\ Len(Append(queue, c)) <= QMAX
<1>1. QMAX \in Nat
  BY PolicyAssumption
<1>2. Len(queue) \in Nat /\ Len(Append(queue, c)) = Len(queue) + 1
  BY DEF RestOK
<1>3. QED
  BY <1>1, <1>2 DEF RestOK, Room

LEMMA DequeueType ==
    ASSUME RestOK, queue # <<>>
    PROVE  Tail(queue) \in Seq({"auto", "off", "on"}) /\ Len(Tail(queue)) <= QMAX
<1>1. QMAX \in Nat
  BY PolicyAssumption
<1>2. Len(queue) \in Nat /\ Len(Tail(queue)) = Len(queue) - 1
  BY DEF RestOK
<1>3. QED
  BY <1>1, <1>2 DEF RestOK

LEMMA AtType ==
    ASSUME RestOK, NEW r \in Requests, NEW stage \in Stages, NEW new \in Settings,
           NEW other \in BOOLEAN, At(r, stage, new, other)
    PROVE  req' \in Request
BY DEF RestOK, Request, At

LEMMA RequestType ==
    ASSUME RestOK, NEW r \in Requests
    PROVE  req[r].at \in Stages /\ req[r].new \in Settings /\ req[r].other \in BOOLEAN
BY DEF RestOK, Request

LEMMA IdleType ==
    ASSUME RestOK, NEW r \in Requests, Idle(r)
    PROVE  req' \in Request
<1>1. NoRequest \in [at : Stages, new : Settings, other : BOOLEAN]
  BY DEF NoRequest, Stages, Settings, Modes
<1>2. QED
  BY <1>1 DEF RestOK, Request, Idle

LEMMA BudgetType ==
    ASSUME RestOK, Event \/ (\E r \in Requests : Post(r))
    PROVE  left' \in [posts : 0..Posts, events : 0..Events]
<1>1. Posts \in Nat /\ Events \in Nat
  BY PolicyAssumption
<1>2. CASE Event
  BY <1>1, <1>2 DEF RestOK, Event
<1>3. CASE \E r \in Requests : Post(r)
  BY <1>1, <1>3 DEF RestOK, Post
<1>4. QED
  BY <1>2, <1>3

LEMMA KnownType ==
    ASSUME RestOK, Coherent(m, perm)
    PROVE  Known \in Settings /\ Known.lim = m.lim /\ Known.perm = perm /\ Known.foff = m.foff
BY DEF RestOK, Coherent, Memory, Known, Settings

\* A sample: the order of the policy's steps differs between a push and a tick.
LEMMA PushKeeps ==
    ASSUME PolicyCoherent, NEW v, NEW late, NEW verdict, Push(v, late, verdict)
    PROVE  PolicyCoherent'
<1> DEFINE gained == Gain(m, v, verdict)
           managed == Manage(gained, v, late, verdict)
           limited == EnforceLimit(managed, late)
           new == EnforceFullOff(limited, v, late /\ m.pend)
<1>1. RestOK /\ Coherent(m, perm)
  BY InvariantParts
<1>2. Coherent(gained, perm)
  BY <1>1, GainCoherent
<1>3. Coherent(managed, perm)
  BY <1>2, ManageCoherent
<1>4. Coherent(limited, perm)
  BY <1>3, LimitCoherent DEF PolicyCoherent
<1>5. Coherent(new, perm)
  BY <1>4, FullOffOffCoherent
<1>6. /\ m' = new /\ perm' = perm /\ ps' \in Readings /\ WriteBack(new)
      /\ UNCHANGED <<on, link, req, db, left>>
      /\ queue' = queue \/ (Room /\ queue' = Append(queue, "auto"))
  BY DEF Push, Shown, Readings, EnqueueOff
<1>7. Coherent(m', perm')
  BY <1>5, <1>6
<1>8. RestOK'
  <2> HIDE DEF new
  <2> QED BY <1>1, <1>6, WriteBackType, EnqueueType DEF RestOK
<1>9. QED
  BY <1>7, <1>8, InvariantParts DEF PolicyCoherent, TypeOK, FullOffCoherent, RestOK, Request, Coherent

LEMMA TimerKeeps ==
    ASSUME PolicyCoherent, NEW late, NEW verdict, Timer(late, verdict)
    PROVE  PolicyCoherent'
<1> DEFINE enforced == EnforceFullOff(m, ps, late)
           managed == IF ps # "none" \/ m.chg THEN Manage(enforced, ps, late, verdict) ELSE enforced
           charged == Gain(managed, ps, verdict)
           integrates == charged.chg /\ ~NoCurrent(ps)
           new == IF integrates THEN EnforceLimit(charged, late) ELSE charged
<1>1. RestOK /\ Coherent(m, perm)
  BY InvariantParts
<1>2. Coherent(enforced, perm)
  BY <1>1, FullOffOffCoherent
<1>3. Coherent(managed, perm)
  BY <1>2, ManageCoherent
<1>4. Coherent(charged, perm)
  BY <1>3, GainCoherent
<1>5. Coherent(new, perm)
  BY <1>4, LimitCoherent DEF PolicyCoherent
<1>6. /\ m' = new /\ WriteBack(new) /\ UNCHANGED <<perm, ps, on, link, req, db, left>>
      /\ queue' = queue \/ (Room /\ queue' = Append(queue, "auto"))
  BY DEF Timer, EnqueueOff
<1>7. Coherent(m', perm')
  BY <1>5, <1>6
<1>8. RestOK'
  <2> HIDE DEF new
  <2> QED BY <1>1, <1>6, WriteBackType, EnqueueType DEF RestOK
<1>9. QED
  BY <1>7, <1>8, InvariantParts DEF PolicyCoherent, TypeOK, FullOffCoherent, RestOK, Request, Coherent

LEMMA PartsKeep ==
    ASSUME RestOK', Coherent(m, perm)'
    PROVE  PolicyCoherent'
BY DEF PolicyCoherent, TypeOK, FullOffCoherent, RestOK, Request, Coherent

\* The command loop and the link.
LEMMA LoopKeeps ==
    ASSUME PolicyCoherent,
           Verify \/ UserOrder \/ Confirmed \/ NotConfirmed \/ Disconnect \/ Reconnect \/ Rebuild
    PROVE  PolicyCoherent'
<1>1. RestOK /\ Coherent(m, perm)
  BY InvariantParts
<1>2. CASE Verify
  <2>1. m' = Close(m, "unplug") \/ m' = m
    BY <1>2 DEF Verify
  <2>2. Coherent(m', perm')
    BY <1>1, <1>2, <2>1, CloseCoherent DEF Verify
  <2>3. ps' \in Readings
    BY <1>2 DEF Verify, Shown, Readings
  <2>4. RestOK'
    BY <1>1, <1>2, <2>3, WriteBackType DEF Verify, RestOK
  <2>5. QED
    BY <2>2, <2>4, PartsKeep
<1>3. CASE UserOrder
  <2>1. \E c \in {"auto", "off", "on"} : Room /\ queue' = Append(queue, c)
    BY <1>3 DEF UserOrder
  <2>2. RestOK'
    BY <1>1, <1>3, <2>1, EnqueueType, BudgetType DEF UserOrder, RestOK
  <2>3. QED
    BY <1>1, <1>3, <2>2, PartsKeep DEF UserOrder
<1>4. CASE Confirmed
  <2>1. m' = Close(m, "port_off") \/ m' = m
    BY <1>4 DEF Confirmed
  <2>2. Coherent(m', perm')
    BY <1>1, <1>4, <2>1, CloseCoherent DEF Confirmed
  <2>3. on' \in BOOLEAN /\ ps' \in Readings
    BY <1>1, <1>4 DEF Confirmed, RestOK, Readings
  <2>4. RestOK'
    BY <1>1, <1>4, <2>3, WriteBackType, DequeueType DEF Confirmed, RestOK
  <2>5. QED
    BY <2>2, <2>4, PartsKeep
<1>5. CASE NotConfirmed
  <2>1. RestOK'
    BY <1>1, <1>5, DequeueType, BudgetType DEF NotConfirmed, RestOK
  <2>2. QED
    BY <1>1, <1>5, <2>1, PartsKeep DEF NotConfirmed
<1>6. CASE Disconnect
  <2>1. RestOK'
    BY <1>1, <1>6, BudgetType DEF Disconnect, RestOK
  <2>2. QED
    BY <1>1, <1>6, <2>1, CloseActiveCoherent, PartsKeep DEF Disconnect
<1>7. CASE Reconnect
  <2>1. RestOK'
    BY <1>1, <1>7 DEF Reconnect, RestOK
  <2>2. QED
    BY <1>1, <1>7, <2>1, PartsKeep DEF Reconnect
<1>8. CASE Rebuild
  <2>1. db \in Settings /\ db.perm \in BOOLEAN
    BY <1>1 DEF RestOK, Settings
  <2>2. <<>> \in Seq({"auto", "off", "on"}) /\ Len(<<>>) <= QMAX
    BY EmptyQueue
  <2>3. RestOK'
    <3>1. Event /\ perm' = db.perm /\ link' = FALSE /\ queue' = <<>> /\ UNCHANGED <<ps, on, req, jobs, db>>
      BY <1>8 DEF Rebuild
    <3>2. left' \in [posts : 0..Posts, events : 0..Events]
      BY <1>1, <3>1, BudgetType
    <3>3. QED
      BY <1>1, <2>1, <2>2, <3>1, <3>2 DEF RestOK
  <2>4. Coherent(m', perm')
    BY <1>8, <2>1, MountCoherent DEF Rebuild
  <2>5. QED
    BY <2>3, <2>4, PartsKeep
<1>9. QED
  BY <1>2, <1>3, <1>4, <1>5, <1>6, <1>7, <1>8

\* The requests, and the jobs that write consumed settings back.
LEMMA ServeKeeps ==
    ASSUME PolicyCoherent, NEW r \in Requests, Serve(r)
    PROVE  PolicyCoherent'
<1> DEFINE q == req[r]
<1>1. RestOK /\ Coherent(m, perm)
  BY InvariantParts
<1>2. q.at \in Stages /\ q.new \in Settings /\ q.other \in BOOLEAN
  BY <1>1, RequestType
<1>3. Known \in Settings
  BY <1>1, KnownType
<1>4. \A new \in Settings : new.perm \in BOOLEAN
  BY DEF Settings
<1>5. CASE HandleChargeLimits(r) \/ HandlePortModes(r)
  <2>1. \A l \in Modes : [Known EXCEPT !.lim = l] \in Settings
    BY <1>3 DEF Settings
  <2>2. \A f \in Modes, b \in BOOLEAN :
           [Known EXCEPT !.perm = b, !.foff = f] \in Settings /\ [Known EXCEPT !.perm = b] \in Settings
           /\ [Known EXCEPT !.foff = f] \in Settings
    BY <1>3 DEF Settings
  <2>3. \E stage \in Stages, new \in Settings, other \in BOOLEAN : At(r, stage, new, other)
    <3>1. {"limits", "perm"} \subseteq Stages /\ "" \in Modes
      BY DEF Stages, Modes
    <3>2. CASE HandleChargeLimits(r)
      BY <1>3, <2>1, <3>1, <3>2 DEF HandleChargeLimits
    <3>3. CASE HandlePortModes(r)
      BY <1>3, <2>2, <3>1, <3>3 DEF HandlePortModes
    <3>4. QED
      BY <1>5, <3>2, <3>3
  <2>4. RestOK'
    <3>1. req' \in Request
      BY <1>1, <2>3, AtType
    <3>2. Post(r) /\ UNCHANGED <<perm, db>> /\ Loop
      BY <1>5 DEF HandleChargeLimits, HandlePortModes
    <3>3. left' \in [posts : 0..Posts, events : 0..Events]
      BY <1>1, <3>2, BudgetType
    <3>4. QED
      BY <1>1, <3>1, <3>2, <3>3 DEF Loop, RestOK
  <2>5. QED
    BY <1>1, <1>5, <2>4, PartsKeep DEF HandleChargeLimits, HandlePortModes
<1>6. CASE ApplyLimits(r)
  <2>1. RestOK'
    BY <1>1, <1>6, IdleType DEF ApplyLimits, Loop, RestOK
  <2>2. QED
    BY <1>1, <1>2, <1>6, <2>1, LimitsSetCoherent, PartsKeep DEF ApplyLimits
<1>7. CASE CheckStale(r)
  <2>1. CASE At(r, "stale", [q.new EXCEPT !.lim = ""], q.other) /\ UNCHANGED <<m, perm>>
    <3>1. [q.new EXCEPT !.lim = ""] \in Settings /\ "stale" \in Stages
      BY <1>2 DEF Settings, Modes, Stages
    <3>2. req' \in Request
      BY <1>1, <1>2, <2>1, <3>1, AtType
    <3>3. RestOK'
      BY <1>1, <1>7, <2>1, <3>2 DEF CheckStale, Loop, RestOK
    <3>4. QED
      BY <1>1, <2>1, <3>3, PartsKeep
  <2>2. CASE m' = SetModes(m, q.new) /\ perm' = q.new.perm /\ Idle(r)
    <3>1. RestOK'
      BY <1>1, <1>2, <1>4, <1>7, <2>2, IdleType DEF CheckStale, Loop, RestOK
    <3>2. QED
      BY <1>1, <1>2, <2>2, <3>1, ModesCoherent, PartsKeep
  <2>3. QED
    BY <1>7, <2>1, <2>2 DEF CheckStale
<1>8. CASE ApplyModes(r)
  <2>1. RestOK'
    BY <1>1, <1>2, <1>4, <1>8, IdleType DEF ApplyModes, Loop, RestOK
  <2>2. Coherent(SetChargeLimits(m, q.new), perm)
    BY <1>1, <1>2, LimitsSetCoherent
  <2>3. QED
    BY <1>2, <1>8, <2>1, <2>2, ModesCoherent, PartsKeep DEF ApplyModes
<1>9. CASE Write(r)
  <2>1. \E stage \in Stages : At(r, stage, q.new, q.other)
    BY <1>9 DEF Write, Stages
  <2>2. \A l \in Modes, b \in BOOLEAN :
           [db EXCEPT !.lim = l] \in Settings /\ [db EXCEPT !.perm = b] \in Settings
           /\ [db EXCEPT !.foff = l] \in Settings
    BY <1>1 DEF RestOK, Settings
  <2>3. q.new.lim \in Modes /\ q.new.perm \in BOOLEAN /\ q.new.foff \in Modes
    BY <1>2 DEF Settings
  <2>4. db' \in Settings
    BY <1>9, <2>2, <2>3 DEF Write
  <2>5. req' \in Request
    BY <1>1, <1>2, <2>1, AtType
  <2>6. RestOK'
    BY <1>1, <1>9, <2>4, <2>5 DEF Write, Loop, RestOK
  <2>7. QED
    BY <1>1, <1>9, <2>6, PartsKeep DEF Write
<1>10. QED
  BY <1>5, <1>6, <1>7, <1>8, <1>9 DEF Serve

LEMMA JobKeeps ==
    ASSUME PolicyCoherent, RunJob
    PROVE  PolicyCoherent'
<1>1. RestOK /\ Coherent(m, perm)
  BY InvariantParts
<1>2. db' \in Settings
  BY <1>1 DEF RunJob, RestOK, Settings, Modes
<1>3. RestOK'
  BY <1>1, <1>2 DEF RunJob, RestOK
<1>4. QED
  BY <1>1, <1>3, PartsKeep DEF RunJob

\* Settings are never half revoked, whatever requests, samples, commands, restarts
\* and write-backs interleave: FullOffCoherent is inductive with the types.
THEOREM PolicyTheorem == Spec => []PolicyCoherent
<1>1. Init => PolicyCoherent
  <2> SUFFICES ASSUME Init PROVE PolicyCoherent
    OBVIOUS
  <2>1. db \in Settings /\ db.perm \in BOOLEAN
    BY PolicyAssumption DEF Init, Settings
  <2>2. Coherent(m, perm)
    BY <2>1, MountCoherent DEF Init
  <2>3. NoRequest \in [at : Stages, new : Settings, other : BOOLEAN]
    BY DEF NoRequest, Stages, Settings, Modes
  <2>4. [posts |-> Posts, events |-> Events] \in [posts : 0..Posts, events : 0..Events]
    <3>1. Posts \in Nat /\ Events \in Nat
      BY PolicyAssumption
    <3>2. QED
      BY <3>1
  <2>5. req \in Request /\ left \in [posts : 0..Posts, events : 0..Events] /\ perm = db.perm
    BY <2>3, <2>4 DEF Init, Request
  <2>6. RestOK
    BY <2>1, <2>5, EmptyQueue DEF Init, RestOK, Readings
  <2>7. QED
    BY <2>2, <2>6, InvariantParts
<1>2. PolicyCoherent /\ [Next]_vars => PolicyCoherent'
  <2> SUFFICES ASSUME PolicyCoherent, [Next]_vars PROVE PolicyCoherent'
    OBVIOUS
  <2>1. CASE Sample
    BY <2>1, PushKeeps, TimerKeeps DEF Sample, Sampled
  <2>2. CASE UNCHANGED vars
    BY <2>2 DEF vars, PolicyCoherent, TypeOK, FullOffCoherent
  <2>3. QED
    BY <2>1, <2>2, LoopKeeps, ServeKeeps, JobKeeps DEF Next
<1>3. QED
  BY <1>1, <1>2, PTL DEF Spec

-----------------------------------------------------------------------------
(* What spends a limit.                                                      *)

\* From r to s no limit goes, unless a session ends that was limited once.
Spares(r, s) ==
    /\ s.lim = r.lim \/ (r.lim = "once" /\ r.chg /\ ~s.chg)

LEMMA CloseSpares ==
    ASSUME NEW r \in Memory, NEW reason
    PROVE  /\ Spares(r, Close(r, reason))
           /\ reason = "outage" => Release(r, reason).lim = r.lim
<1> DEFINE freed == Release(r, reason)
           ended == [freed EXCEPT !.chg = FALSE, !.full = FALSE]
           armed == IF reason = "low_power" /\ r.foff # "" /\ r.full THEN ArmFullOff(ended) ELSE ended
           rested == [armed EXCEPT !.quiet = FALSE, !.armed = FALSE]
<1>1. freed \in Memory /\ (freed.lim = r.lim \/ r.lim = "once") /\ (reason = "outage" => freed.lim = r.lim)
  BY DEF Release, Memory, Modes
<1>2. ended \in Memory /\ ended.lim = freed.lim /\ ~ended.chg
  <2> HIDE DEF freed
  <2> QED BY <1>1 DEF Memory
<1>3. armed \in Memory /\ armed.lim = ended.lim /\ ~armed.chg
  <2> HIDE DEF ended
  <2> QED BY <1>2, AttemptsNat DEF Memory, ArmFullOff
<1>4. rested.lim = armed.lim /\ ~rested.chg
  <2> HIDE DEF armed
  <2> QED BY <1>3 DEF Memory
<1>5. Close(r, reason) \in {r, armed, rested} /\ (~r.chg => Close(r, reason) = r)
  BY DEF Close
<1>6. QED
  <2> HIDE DEF freed, ended, armed, rested
  <2>1. CASE Close(r, reason) = r
    BY <1>1, <2>1 DEF Spares, freed
  <2>2. CASE Close(r, reason) # r
    BY <1>1, <1>2, <1>3, <1>4, <1>5, <2>2 DEF Spares, freed, Memory
  <2>3. QED
    BY <2>1, <2>2

LEMMA ManageSpares ==
    ASSUME NEW r \in Memory, NEW v, NEW late, NEW verdict
    PROVE  Spares(r, Manage(r, v, late, verdict))
<1>1. CASE r.chg
  <2>1. Spares(r, r) /\ Spares(r, [r EXCEPT !.quiet = TRUE])
        /\ Spares(r, [r EXCEPT !.quiet = FALSE, !.armed = FALSE])
    BY DEF Spares, Memory
  <2>2. Spares(r, ManageCharging(r, v, late, verdict))
    BY <2>1, CloseSpares DEF ManageCharging
  <2>3. QED
    BY <1>1, <2>2 DEF Manage
<1>2. CASE ~r.chg
  <2>1. Confirm(r, v, late) \in Memory /\ Confirm(r, v, late).lim = r.lim
    BY AttemptsNat DEF Confirm, ArmFullOff, Memory
  <2>2. \A c \in Memory : StartSession(c).lim = c.lim
    BY DEF StartSession, Memory
  <2>3. QED
    BY <1>2, <2>1, <2>2 DEF Manage, Spares
<1>3. QED
  BY <1>1, <1>2

\* The other steps of the policy leave limit and session alone.
LEMMA OthersSpare ==
    ASSUME NEW r \in Memory, NEW v, NEW late, NEW verdict
    PROVE  /\ Gain(r, v, verdict).lim = r.lim /\ Gain(r, v, verdict).chg = r.chg
           /\ EnforceLimit(r, late).lim = r.lim /\ EnforceLimit(r, late).chg = r.chg
           /\ EnforceFullOff(r, v, late).lim = r.lim /\ EnforceFullOff(r, v, late).chg = r.chg
<1>1. Gain(r, v, verdict).lim = r.lim /\ Gain(r, v, verdict).chg = r.chg
  BY DEF Gain, Memory
<1>2. EnforceLimit(r, late).lim = r.lim /\ EnforceLimit(r, late).chg = r.chg
  BY DEF EnforceLimit, Memory
<1>3. EnforceFullOff(r, v, late).lim = r.lim /\ EnforceFullOff(r, v, late).chg = r.chg
  BY DEF EnforceFullOff, Memory
<1>4. QED
  BY <1>1, <1>2, <1>3

LEMMA CoherentMemory == ASSUME NEW r, NEW p, Coherent(r, p) PROVE r \in Memory
BY DEF Coherent

LEMMA SampleSpares ==
    ASSUME PolicyCoherent, NEW v, NEW late, NEW verdict,
           Push(v, late, verdict) \/ Timer(late, verdict)
    PROVE  Spares(m, m') /\ link /\ link'
<1>1. RestOK /\ Coherent(m, perm) /\ m \in Memory
  BY InvariantParts DEF Coherent
<1>2. CASE Push(v, late, verdict)
  <2> DEFINE gained == Gain(m, v, verdict)
             managed == Manage(gained, v, late, verdict)
             limited == EnforceLimit(managed, late)
  <2>1. Coherent(gained, perm) /\ gained.lim = m.lim /\ gained.chg = m.chg
    BY <1>1, GainCoherent, OthersSpare
  <2>2. Coherent(managed, perm) /\ Spares(gained, managed)
    <3> HIDE DEF gained
    <3> QED BY <2>1, ManageCoherent, ManageSpares, CoherentMemory
  <2>3. Coherent(limited, perm) /\ limited.lim = managed.lim /\ limited.chg = managed.chg
    <3> HIDE DEF managed
    <3> QED BY <2>2, LimitCoherent, OthersSpare, CoherentMemory DEF PolicyCoherent
  <2>4. m'.lim = limited.lim /\ m'.chg = limited.chg
    <3>1. m' = EnforceFullOff(limited, v, late /\ m.pend)
      BY <1>2 DEF Push
    <3> HIDE DEF limited
    <3> QED BY <2>3, <3>1, OthersSpare, CoherentMemory
  <2>5. link /\ link' = link
    BY <1>2 DEF Push
  <2>6. QED
    <3> HIDE DEF gained, managed, limited
    <3> QED BY <2>1, <2>2, <2>3, <2>4, <2>5 DEF Spares
<1>3. CASE Timer(late, verdict)
  <2> DEFINE enforced == EnforceFullOff(m, ps, late)
             managed == IF ps # "none" \/ m.chg THEN Manage(enforced, ps, late, verdict) ELSE enforced
             charged == Gain(managed, ps, verdict)
  <2>1. Coherent(enforced, perm) /\ enforced.lim = m.lim /\ enforced.chg = m.chg
    BY <1>1, FullOffOffCoherent, OthersSpare
  <2>2. Coherent(managed, perm) /\ Spares(enforced, managed)
    <3>1. Spares(enforced, enforced)
      BY DEF Spares
    <3> HIDE DEF enforced
    <3> QED BY <2>1, <3>1, ManageCoherent, ManageSpares, CoherentMemory
  <2>3. Coherent(charged, perm) /\ charged.lim = managed.lim /\ charged.chg = managed.chg
    <3> HIDE DEF managed
    <3> QED BY <2>2, GainCoherent, OthersSpare, CoherentMemory
  <2>4. m'.lim = charged.lim /\ m'.chg = charged.chg
    <3>1. m' = EnforceLimit(charged, late) \/ m' = charged
      BY <1>3 DEF Timer
    <3> HIDE DEF charged
    <3> QED BY <2>3, <3>1, OthersSpare, CoherentMemory
  <2>5. link /\ link' = link
    BY <1>3 DEF Timer
  <2>6. QED
    <3> HIDE DEF enforced, managed, charged
    <3> QED BY <2>1, <2>2, <2>3, <2>4, <2>5 DEF Spares
<1>4. QED
  BY <1>2, <1>3

\* A limit is spent by a charge that ends with the link up, by a request or by the
\* settings a new manager takes over: by no outage.
THEOREM SpentTheorem == Spec => SpentOnACharge
<1> DEFINE Spent == m.lim # "" /\ m'.lim = "" =>
                       \/ m.lim = "once" /\ m.chg /\ ~m'.chg /\ link /\ link'
                       \/ req' # req
                       \/ m' = Mount(db)
<1>1. ASSUME PolicyCoherent, Next PROVE Spent
  <2>1. RestOK /\ Coherent(m, perm) /\ m \in Memory
    BY <1>1, InvariantParts DEF Coherent
  <2>2. CASE Sample
    <3>1. Spares(m, m') /\ link /\ link'
      BY <1>1, <2>2, SampleSpares DEF Sample, Sampled
    <3>2. QED
      BY <3>1 DEF Spares
  <2>3. CASE Verify \/ Confirmed
    <3>1. link /\ link' = link /\ (m' = m \/ \E reason \in {"unplug", "port_off"} : m' = Close(m, reason))
      BY <2>3 DEF Verify, Confirmed
    <3>2. m' = m \/ Spares(m, m')
      BY <2>1, <3>1, CloseSpares
    <3>3. QED
      BY <3>1, <3>2 DEF Spares
  <2>4. CASE Disconnect
    <3> DEFINE freed == Release(m, "outage")
    <3>1. freed \in Memory /\ freed.lim = m.lim
      BY <2>1 DEF Release, Memory, Modes
    <3>2. [freed EXCEPT !.chg = FALSE, !.full = FALSE].lim = m.lim
      <4> HIDE DEF freed
      <4> QED BY <3>1 DEF Memory
    <3>3. m'.lim = m.lim
      BY <2>4, <3>2 DEF Disconnect, CloseActive
    <3>4. QED
      BY <3>3
  <2>5. CASE Rebuild
    BY <2>5 DEF Rebuild
  <2>6. CASE UserOrder \/ NotConfirmed \/ Reconnect \/ RunJob
    BY <2>6 DEF UserOrder, NotConfirmed, Reconnect, RunJob
  <2>7. ASSUME NEW r \in Requests, Serve(r) PROVE Spent
    <3>1. CASE UNCHANGED m
      BY <3>1
    <3>2. CASE m' # m
      <4>1. \/ Idle(r) /\ req[r].at \in {"limits done", "full done", "stale done"}
            \/ At(r, "stale", [req[r].new EXCEPT !.lim = ""], req[r].other)
        BY <2>7, <3>2 DEF Serve, HandleChargeLimits, ApplyLimits, HandlePortModes, CheckStale,
           ApplyModes, Write
      <4>2. Idle(r) /\ req[r].at \in {"limits done", "full done", "stale done"}
        BY <2>7, <3>2, <4>1 DEF Serve, HandleChargeLimits, ApplyLimits, HandlePortModes, CheckStale,
           ApplyModes, Write
      <4>3. req'[r].at = "free"
        BY <2>1, <4>2 DEF Idle, NoRequest, RestOK, Request
      <4>4. QED
        BY <4>2, <4>3
    <3>3. QED
      BY <3>1, <3>2
  <2>8. QED
    BY <1>1, <2>2, <2>3, <2>4, <2>5, <2>6, <2>7 DEF Next
<1>2. PolicyCoherent /\ [Next]_vars => [Spent]_vars
  BY <1>1
<1>3. QED
  BY <1>2, PolicyTheorem, PTL DEF Spec, SpentOnACharge
=============================================================================
