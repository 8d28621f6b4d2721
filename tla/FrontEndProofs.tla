----------------------------- MODULE FrontEndProofs -----------------------------
(***************************************************************************)
(* Theorems about what the front ends are told: the charge limits of the   *)
(* Home Assistant integration, and the events and answers of the server,   *)
(* for any devices, browsers, requests and queue sizes.                    *)
(***************************************************************************)
EXTENDS HaLimits, EventPush, SequenceTheorems, WellFoundedInduction, TLAPS

---------------------------------------------------------------------------
(* The charge limits of Home Assistant.                                    *)

Entered == phase \in {"loaded", "up"}

\* An order is written by its owner, and posted to the other; both only at work.
OrderInv ==
    /\ setting => phase = "up" /\ backend = "local"
    /\ post # None => phase = "up" /\ backend = "server"
    /\ ~Entered => backend = "local"

\* What the file will hold when everything that is under way has been written.
Settled == IF saving THEN limit ELSE IF storing # None THEN storing ELSE disk

\* While it is not lost the limit is the wanted one: in the file until it is loaded,
\* in memory and on its way to the file from then on.  The change detector is right
\* whenever no order is being written.
WantedInv ==
    /\ Entered /\ ~setting => saved = limit
    /\ Entered /\ lost = "no" => limit = want /\ Settled = limit
    /\ ~Entered /\ lost = "no" => ~saving /\ storing = None /\ saved = None /\ disk = want

KeptInv == TypeOK /\ OrderInv /\ WantedInv

\* TypeOK, one variable at a time.
Typed ==
    /\ phase \in {"down", "subscribed", "loaded", "up"} /\ python \in BOOLEAN
    /\ server \in Limit /\ limit \in Limit /\ disk \in Limit /\ want \in Limit
    /\ backend \in {"local", "server"} /\ (backend = "server" => python /\ mirror # None)
    /\ mirror \in Limit \cup {None} /\ poll \in Limit \cup {None}
    /\ saved \in Limit \cup {None} /\ storing \in Limit \cup {None}
    /\ post \in Order \cup {None}
    /\ charging \in BOOLEAN /\ saving \in BOOLEAN /\ setting \in BOOLEAN
    /\ ble \in BOOLEAN /\ offs \in BOOLEAN
    /\ wh \in 0..FULL /\ fired \in {"no", "sent", "late"}
    /\ port \in {"draw", "trickle", "off"} /\ left \in 0..Budget
    /\ lost \in {"no", "early", "overtaken"}
    /\ (fired # "no" => charging) /\ (phase \in {"loaded", "up"} => saved # None)
    /\ (setting => post = None)

LEMMA TypeFacts == (TypeOK <=> Typed) /\ (TypeOK' <=> Typed')
BY DEF TypeOK, Typed

LEMMA Constants ==
    /\ FULL \in Nat /\ 0 < FULL /\ Budget \in Nat
    /\ None \notin Limit /\ None \notin Order /\ Disabled \in Limit
BY LimitsAssumption DEF Disabled, Limit

LEMMA SpendType ==
    ASSUME left \in 0..Budget, Spend
    PROVE  left' \in 0..Budget
BY Constants DEF Spend

LEMMA MergeType ==
    ASSUME NEW l \in Limit, NEW o \in Order
    PROVE  Merge(l, o) \in Limit
BY DEF Limit, Order, Merge

\* Every sample makes a session of a session, and a cut belongs to one that goes on.
LEMMA SampleType ==
    ASSUME TypeOK, NEW s \in Ingested
    PROVE  s \in Sessions /\ (s.fired # "no" => s.charging)
<1>1. /\ limit \in Limit /\ charging \in BOOLEAN /\ wh \in 0..FULL
      /\ fired \in {"no", "sent", "late"} /\ (fired # "no" => charging)
      /\ port \in {"draw", "trickle", "off"}
  BY TypeFacts DEF Typed
<1>2. Session \in Sessions /\ Session.fired = fired /\ Session.charging = charging
  BY <1>1 DEF Session, Sessions
<1>3. (IF wh < FULL THEN wh + 1 ELSE FULL) \in 0..FULL /\ 0 \in 0..FULL
  BY <1>1, Constants
<1>4. /\ Charged \in Sessions /\ Charged.fired = fired /\ Charged.charging = charging
      /\ Started \in Sessions /\ Started.fired = "no"
  BY <1>2, <1>3 DEF Charged, Started, Sessions
<1>5. \A reason : Ended(reason) \in Sessions /\ Ended(reason).fired = "no"
  BY <1>1 DEF Ended, Sessions, Limit
<1>6. s \in {Session, Charged, Started, Ended("low_power"), Ended("port_off")}
  BY <1>1 DEF Ingested
<1>7. QED
  BY <1>1, <1>2, <1>4, <1>5, <1>6

\* The change detector: whatever limit l a sample leaves, memory and file agree.
LEMMA PersistKeeps ==
    ASSUME KeptInv, NEW l \in Limit, Persist(l), phase # "down", limit' = l,
           want' = IF l # limit THEN l ELSE want,
           UNCHANGED <<phase, storing, setting, disk>>
    PROVE  /\ WantedInv'
           /\ saved' \in Limit /\ saving' \in BOOLEAN /\ lost' \in {"no", "early", "overtaken"}
<1>1. /\ saving \in BOOLEAN /\ lost \in {"no", "early", "overtaken"}
      /\ limit \in Limit /\ WantedInv /\ phase \in {"down", "subscribed", "loaded", "up"}
      /\ (phase \in {"loaded", "up"} => saved # None)
  BY TypeFacts DEF KeptInv, Typed
<1>2. saved' = l /\ saving' \in BOOLEAN /\ (saving' = saving \/ saving')
  BY <1>1 DEF Persist
<1>3. lost' = "no" => lost = "no" /\ saved # None /\ ~(setting /\ l # limit /\ l = saved)
  BY DEF Persist
<1>4. lost' \in {"no", "early", "overtaken"}
  BY <1>1 DEF Persist
<1>5. Entered' <=> Entered
  BY DEF Entered
<1>6. ASSUME Entered, lost' = "no" PROVE limit' = want' /\ Settled' = limit'
  <2>1. limit = want /\ Settled = limit
    BY <1>1, <1>3, <1>6 DEF WantedInv
  <2>2. CASE l = limit
    BY <1>2, <2>1, <2>2 DEF Settled
  <2>3. CASE l # limit
    <3>1. l # saved
      BY <1>1, <1>3, <1>6, <2>3 DEF WantedInv
    <3>2. saving'
      BY <3>1 DEF Persist
    <3>3. QED
      BY <2>3, <3>2 DEF Settled
  <2>4. QED
    BY <2>2, <2>3
<1>7. ~Entered => lost' # "no"
  BY <1>1, <1>3 DEF WantedInv
<1>8. QED
  BY <1>2, <1>4, <1>5, <1>6, <1>7 DEF WantedInv

-----------------------------------------------------------------------------
(* The actions.                                                              *)

\* Messages of the gateway.
LEMMA MessageKeeps ==
    ASSUME KeptInv, PortMessage \/ LinkLost
    PROVE  KeptInv'
<1>1. Typed /\ OrderInv /\ WantedInv
  BY TypeFacts DEF KeptInv
<1>2. CASE PortMessage
  <2>1. PICK s \in Sessions :
           /\ s \in Ingested
           /\ limit' = s.limit /\ charging' = s.charging /\ wh' = s.wh
           /\ \/ fired' = s.fired /\ offs' = (offs \/ FALSE)
              \/ s.charging /\ fired' = "sent" /\ offs' = (offs \/ TRUE)
           /\ Persist(s.limit) /\ Remember(s.limit)
    <3>1. PICK s \in Sessions :
             /\ s \in Ingested
             /\ limit' = s.limit /\ charging' = s.charging /\ wh' = s.wh
             /\ LET cut == backend = "local" /\ Due(s)
                IN  fired' = (IF cut THEN "sent" ELSE s.fired) /\ offs' = (offs \/ cut)
             /\ Persist(s.limit) /\ Remember(s.limit)
      BY <1>2 DEF PortMessage
    <3>2. CASE backend = "local" /\ Due(s)
      BY <3>1, <3>2 DEF Due
    <3>3. CASE ~(backend = "local" /\ Due(s))
      BY <3>1, <3>3
    <3>4. QED
      BY <3>2, <3>3
  <2>2. /\ s.limit \in Limit /\ s.charging \in BOOLEAN /\ s.wh \in 0..FULL
        /\ s.fired \in {"no", "sent", "late"} /\ (s.fired # "no" => s.charging)
    BY <2>1, SampleType DEF Sessions, KeptInv
  <2>3. phase # "down" /\ UNCHANGED <<phase, delegation, storing, setting, disk, ble, port, left>>
    BY <1>2 DEF PortMessage, Listening
  <2>4. want' = IF s.limit # limit THEN s.limit ELSE want
    BY <2>1 DEF Remember
  <2>5. WantedInv' /\ saved' \in Limit /\ saving' \in BOOLEAN /\ lost' \in {"no", "early", "overtaken"}
    BY <2>1, <2>2, <2>3, <2>4, PersistKeeps
  <2>6. want' \in Limit /\ limit' \in Limit /\ offs' \in BOOLEAN /\ saved' # None
    BY <1>1, <2>1, <2>2, <2>4, <2>5, Constants DEF Typed
  <2>7. Typed'
    BY <1>1, <2>1, <2>2, <2>3, <2>5, <2>6 DEF Typed, delegation
  <2>8. OrderInv'
    BY <1>1, <2>3 DEF OrderInv, Entered, delegation
  <2>9. QED
    BY <2>5, <2>7, <2>8, TypeFacts DEF KeptInv
<1>3. CASE LinkLost
  <2>1. Ended("link_loss") = [limit |-> limit, charging |-> FALSE, wh |-> wh, fired |-> "no"]
    BY DEF Ended, Preserving
  <2>2. /\ limit' = limit /\ charging' = FALSE /\ fired' = "no" /\ wh' = wh /\ Persist(limit)
        /\ phase # "down" /\ ble' = FALSE /\ Spend
        /\ UNCHANGED <<phase, delegation, storing, setting, disk, port, offs, want>>
    BY <1>3, <2>1 DEF LinkLost, Listening
  <2>3. limit \in Limit
    BY <1>1 DEF Typed
  <2>4. WantedInv' /\ saved' \in Limit /\ saving' \in BOOLEAN /\ lost' \in {"no", "early", "overtaken"}
    BY <2>2, <2>3, PersistKeeps
  <2>5. left' \in 0..Budget /\ saved' # None
    BY <1>1, <2>2, <2>4, Constants DEF Typed, Spend
  <2>6. Typed'
    BY <1>1, <2>2, <2>4, <2>5, ZenonT(60) DEF Typed, delegation
  <2>7. OrderInv'
    BY <1>1, <2>2 DEF OrderInv, Entered, delegation
  <2>8. QED
    BY <2>4, <2>6, <2>7, TypeFacts DEF KeptInv
<1>4. QED
  BY <1>2, <1>3

\* What touches neither the limit nor the Store.
LEMMA ChargerKeeps ==
    ASSUME KeptInv, RetryDue \/ OffArrives \/ OffLost \/ LinkBack \/ UsePort
    PROVE  KeptInv'
<1>1. Typed /\ OrderInv /\ WantedInv
  BY TypeFacts DEF KeptInv
<1>2. UNCHANGED <<phase, delegation, limit, charging, wh, store, want, lost>>
  BY DEF RetryDue, OffArrives, OffLost, LinkBack, UsePort, tracker
<1>3. /\ fired' \in {"no", "sent", "late"} /\ (fired' # "no" => charging)
      /\ ble' \in BOOLEAN /\ offs' \in BOOLEAN /\ port' \in {"draw", "trickle", "off"}
      /\ left' \in 0..Budget
  <2>1. CASE RetryDue
    BY <1>1, <2>1 DEF Typed, RetryDue, charger
  <2>2. CASE OffArrives
    BY <1>1, <2>2 DEF Typed, OffArrives, tracker
  <2>3. CASE OffLost
    BY <1>1, <2>3, SpendType DEF Typed, OffLost, tracker
  <2>4. CASE LinkBack
    BY <1>1, <2>4 DEF Typed, LinkBack, tracker
  <2>5. CASE UsePort
    BY <1>1, <2>5, SpendType DEF Typed, UsePort, tracker
  <2>6. QED
    BY <2>1, <2>2, <2>3, <2>4, <2>5
<1>4. Typed'
  BY <1>1, <1>2, <1>3 DEF Typed, delegation, store
<1>5. OrderInv' /\ WantedInv'
  BY <1>1, <1>2 DEF OrderInv, WantedInv, Entered, Settled, delegation, store
<1>6. QED
  BY <1>4, <1>5, TypeFacts DEF KeptInv

\* Setup and restart: the limit leaves the file and comes back from it.
LEMMA SetupKeeps ==
    ASSUME KeptInv, Subscribe \/ Load \/ Probe \/ Restart
    PROVE  KeptInv'
<1>1. Typed /\ OrderInv /\ WantedInv
  BY TypeFacts DEF KeptInv
<1>2. CASE Subscribe
  <2>1. Typed'
    BY <1>1, <1>2 DEF Subscribe, Typed, delegation, tracker, store, charger
  <2>2. OrderInv' /\ WantedInv'
    BY <1>1, <1>2 DEF Subscribe, OrderInv, WantedInv, Entered, Settled, delegation, tracker, store
  <2>3. QED
    BY <2>1, <2>2, TypeFacts DEF KeptInv
<1>3. CASE Load
  <2>1. /\ phase = "subscribed" /\ phase' = "loaded" /\ saved' = limit'
        /\ limit' = (IF storing # None THEN storing ELSE disk)
        /\ UNCHANGED <<delegation, charging, wh, fired, saving, storing, setting, disk, charger, left,
                       want, lost>>
    BY <1>3 DEF Load
  <2>2. limit' \in Limit /\ saved' # None
    BY <1>1, <2>1, Constants DEF Typed
  <2>3. Typed'
    BY <1>1, <2>1, <2>2 DEF Typed, delegation, charger
  <2>4. OrderInv' /\ WantedInv'
    BY <1>1, <2>1 DEF OrderInv, WantedInv, Entered, Settled, delegation
  <2>5. QED
    BY <2>3, <2>4, TypeFacts DEF KeptInv
<1>4. CASE Probe
  <2>1. /\ phase = "loaded" /\ phase' = "up" /\ UNCHANGED <<python, server, poll, post, tracker, store, charger, want, lost>>
        /\ \/ python /\ backend' = "server" /\ mirror' = server /\ UNCHANGED left
           \/ Spend /\ UNCHANGED <<backend, mirror>>
           \/ UNCHANGED <<backend, mirror, left>>
    BY <1>4 DEF Probe
  <2>2. left' \in 0..Budget /\ mirror' \in Limit \cup {None} /\ backend' \in {"local", "server"}
        /\ (backend' = "server" => python /\ mirror' # None)
    BY <1>1, <2>1, Constants DEF Typed, Spend
  <2>3. Typed'
    BY <1>1, <2>1, <2>2 DEF Typed, tracker, store, charger
  <2>4. ~setting /\ post = None
    BY <1>1, <2>1 DEF OrderInv
  <2>5. OrderInv' /\ WantedInv'
    BY <1>1, <2>1, <2>4 DEF OrderInv, WantedInv, Entered, Settled, tracker, store
  <2>6. QED
    BY <2>3, <2>5, TypeFacts DEF KeptInv
<1>5. CASE Restart
  <2>1. left' \in 0..Budget
    BY <1>1, <1>5, Constants DEF Typed, Restart, Spend
  <2>2. Typed'
    <3>1. 0 \in 0..FULL
      BY Constants
    <3>2. Disabled \in Limit /\ limit' = Disabled
      BY <1>5, Constants DEF Restart
    <3>3. QED
      BY <1>1, <1>5, <2>1, <3>1, <3>2 DEF Typed, Restart
  <2>3. OrderInv' /\ WantedInv'
    BY <1>1, <1>5 DEF Restart, OrderInv, WantedInv, Entered, Settled
  <2>4. QED
    BY <2>2, <2>3, TypeFacts DEF KeptInv
<1>6. QED
  BY <1>2, <1>3, <1>4, <1>5

\* Saves and writes bring the file nearer to memory and change nothing else.
LEMMA StoreKeeps ==
    ASSUME KeptInv, RunSave \/ StoreWrite \/ SetDone
    PROVE  KeptInv'
<1>1. Typed /\ OrderInv /\ WantedInv
  BY TypeFacts DEF KeptInv
<1>2. CASE RunSave
  <2>1. saving /\ saving' = FALSE /\ storing' = limit /\ limit \in Limit
    <3>1. limit \in Limit
      BY <1>1 DEF Typed
    <3>2. QED
      BY <3>1, <1>2 DEF RunSave
  <2>2. UNCHANGED <<phase, delegation, tracker, saved, setting, disk, charger, left, want, lost>>
    BY <1>2 DEF RunSave
  <2>3. Typed'
    <3>1. saving' \in BOOLEAN /\ storing' \in Limit \cup {None}
      BY <2>1
    <3>2. QED
      BY <1>1, <2>2, <3>1 DEF Typed, delegation, tracker, charger
  <2>4. OrderInv' /\ WantedInv'
    BY <1>1, <2>1, <2>2, Constants DEF OrderInv, WantedInv, Entered, Settled, delegation, tracker
  <2>5. QED
    BY <2>3, <2>4, TypeFacts DEF KeptInv
<1>3. CASE StoreWrite
  <2>1. Typed'
    BY <1>1, <1>3 DEF StoreWrite, Typed, delegation, tracker, charger
  <2>2. OrderInv' /\ WantedInv'
    BY <1>1, <1>3 DEF StoreWrite, OrderInv, WantedInv, Entered, Settled, delegation, tracker
  <2>3. QED
    BY <2>1, <2>2, TypeFacts DEF KeptInv
<1>4. CASE SetDone
  <2>1. limit \in Limit /\ saved' = limit /\ saved' # None
    <3>1. limit \in Limit
      BY <1>1 DEF Typed
    <3>2. saved' = limit
      BY <1>4 DEF SetDone
    <3>3. QED
      BY <3>1, <3>2, Constants
  <2>2. Typed'
    <3>1. /\ setting' = FALSE
          /\ UNCHANGED <<phase, delegation, tracker, saving, storing, disk, charger, left, want, lost>>
      BY <1>4 DEF SetDone
    <3>2. setting' \in BOOLEAN /\ saved' \in Limit \cup {None} /\ saved' # None
          /\ (setting' => post' = None)
      BY <2>1, <3>1
    <3>3. QED
      BY <1>1, <3>1, <3>2 DEF Typed, delegation, tracker, charger
  <2>3. OrderInv' /\ WantedInv'
    BY <1>1, <1>4 DEF SetDone, OrderInv, WantedInv, Entered, Settled, delegation, tracker
  <2>4. QED
    BY <2>2, <2>3, TypeFacts DEF KeptInv
<1>5. QED
  BY <1>2, <1>3, <1>4

\* An order of a user, taken here or taken over from the server when it fails.
LEMMA OrderKeeps ==
    ASSUME KeptInv, SetLimit \/ PostFailed
    PROVE  KeptInv'
<1>1. Typed /\ OrderInv /\ WantedInv
  BY TypeFacts DEF KeptInv
<1>2. PICK base \in Limit, o \in Order :
         /\ Apply(base, o) /\ want' = Merge(base, o) /\ lost' = "no"
         /\ phase = "up" /\ backend' = "local" /\ post' = None
         /\ UNCHANGED <<phase, python, mirror, poll, charger>> /\ left' \in 0..Budget /\ server' \in Limit
  <2>1. CASE SetLimit
    <3>1. PICK o \in Order : Apply(limit, o) /\ want' = Merge(limit, o)
      BY <2>1 DEF SetLimit
    <3>2. /\ lost' = "no" /\ phase = "up" /\ backend' = "local" /\ post' = None
          /\ UNCHANGED <<phase, python, mirror, poll, charger>> /\ server' = server
      BY <1>1, <2>1 DEF SetLimit, OrderInv, delegation
    <3>3. limit \in Limit /\ server \in Limit /\ left' \in 0..Budget
      BY <1>1, <2>1, SpendType DEF SetLimit, Typed
    <3>4. QED
      BY <3>1, <3>2, <3>3
  <2>2. CASE PostFailed
    <3>1. post \in Order /\ mirror \in Limit
      BY <1>1, <2>2 DEF PostFailed, Typed, OrderInv
    <3>2. Merge(server, post) \in Limit
      BY <1>1, <3>1, MergeType DEF Typed
    <3>3. Apply(mirror, post) /\ want' = Merge(mirror, post) /\ lost' = "no" /\ phase = "up"
          /\ backend' = "local" /\ post' = None
          /\ UNCHANGED <<phase, python, mirror, poll, charger>>
      BY <1>1, <2>2 DEF PostFailed, Adopted, OrderInv
    <3>4. left' \in 0..Budget /\ server' \in Limit
      BY <1>1, <2>2, <3>2, SpendType DEF PostFailed, Typed
    <3>5. QED
      BY <3>1, <3>3, <3>4
  <2>3. QED
    BY <2>1, <2>2
<1>3. /\ limit' = want' /\ limit' \in Limit /\ fired' = "no" /\ storing' = limit' /\ setting'
      /\ UNCHANGED <<charging, wh, saved, saving, disk>>
  BY <1>2, MergeType DEF Apply
<1>4. Typed'
  BY <1>1, <1>2, <1>3 DEF Typed, Apply, charger
<1>5. OrderInv' /\ WantedInv'
  BY <1>2, <1>3, Constants DEF OrderInv, WantedInv, Entered, Settled
<1>6. QED
  BY <1>4, <1>5, TypeFacts DEF KeptInv

\* The server and what is asked of it.
LEMMA ServerKeeps ==
    ASSUME KeptInv, PostLimit \/ PostAnswered \/ ServerChanges \/ Poll \/ PollAnswer
    PROVE  KeptInv'
<1>1. Typed /\ OrderInv /\ WantedInv
  BY TypeFacts DEF KeptInv
<1>2. UNCHANGED <<phase, python, backend, tracker, store, charger, want, lost>>
  BY DEF PostLimit, PostAnswered, ServerChanges, Poll, PollAnswer
<1>3. /\ server' \in Limit /\ mirror' \in Limit \cup {None} /\ (backend = "server" => mirror' # None)
      /\ poll' \in Limit \cup {None} /\ post' \in Order \cup {None} /\ left' \in 0..Budget
      /\ (post' # None => phase = "up" /\ backend = "server")
  <2>1. CASE PostLimit
    BY <1>1, <2>1, SpendType DEF PostLimit, Typed, OrderInv
  <2>2. CASE PostAnswered
    BY <1>1, <2>2, MergeType, Constants DEF PostAnswered, Typed, OrderInv
  <2>3. CASE ServerChanges
    BY <1>1, <2>3, SpendType DEF ServerChanges, Typed, OrderInv
  <2>4. CASE Poll
    BY <1>1, <2>4 DEF Poll, Typed, OrderInv
  <2>5. CASE PollAnswer
    BY <1>1, <2>5 DEF PollAnswer, Typed, OrderInv
  <2>6. QED
    BY <2>1, <2>2, <2>3, <2>4, <2>5
<1>4. Typed'
  BY <1>1, <1>2, <1>3 DEF Typed, OrderInv, tracker, store, charger
<1>5. OrderInv' /\ WantedInv'
  BY <1>1, <1>2, <1>3 DEF OrderInv, WantedInv, Entered, Settled, tracker, store
<1>6. QED
  BY <1>4, <1>5, TypeFacts DEF KeptInv

\* Where Home Assistant owns the limit it is the one users and finished charges left,
\* over restarts, lost links, takeovers and writes in any order, unless a reading came
\* before the load or a charge ended while an order was written.
THEOREM LimitTheorem == Spec => []LimitHolds
<1>1. Init => KeptInv
  <2> SUFFICES ASSUME Init PROVE KeptInv
    OBVIOUS
  <2>1. 0 \in 0..FULL /\ Budget \in 0..Budget
    BY Constants
  <2>2. Typed
    BY <2>1, Constants DEF Init, Typed
  <2>3. OrderInv /\ WantedInv
    BY DEF Init, OrderInv, WantedInv, Entered, Settled
  <2>4. QED
    BY <2>2, <2>3, TypeFacts DEF KeptInv
<1>2. KeptInv /\ [Next]_vars => KeptInv'
  <2> SUFFICES ASSUME KeptInv, [Next]_vars PROVE KeptInv'
    OBVIOUS
  <2>1. CASE UNCHANGED vars
    BY <2>1 DEF vars, delegation, tracker, store, charger, KeptInv, TypeOK, OrderInv, WantedInv,
       Entered, Settled
  <2>2. CASE Next
    BY <2>2, MessageKeeps, ChargerKeeps, SetupKeeps, StoreKeeps, OrderKeeps, ServerKeeps DEF Next
  <2>3. QED
    BY <2>1, <2>2
<1>3. KeptInv => LimitHolds
  BY DEF KeptInv, WantedInv, Entered, LimitHolds, LimitKept
<1>4. QED
  BY <1>1, <1>2, <1>3, PTL DEF Spec

---------------------------------------------------------------------------
(* The events of the server and its status cache.                          *)

\* The least element: what replaces induction, whose library theorem takes the
\* statement as a parameter.
LEMMA LeastNumber ==
    ASSUME NEW T, T \subseteq Nat, T # {}
    PROVE  \E x \in T : \A y \in T : x <= y
<1>1. PICK x \in T : \A y \in T : <<y, x>> \notin OpToRel(<,Nat)
  BY NatLessThanWellFounded, WFMin
<1>2. \A y \in T : y < x => <<y, x>> \in OpToRel(<,Nat)
  BY DEF OpToRel
<1>3. \A y \in T : ~(y < x) /\ x \in Nat /\ y \in Nat
  BY <1>1, <1>2
<1>4. QED
  BY <1>3

LEMMA MinIs ==
    ASSUME NEW T, T \subseteq Nat, T # {}
    PROVE  Min(T) \in T
<1>1. \E x \in T : \A y \in T : x <= y
  BY LeastNumber
<1>2. QED
  BY <1>1 DEF Min

\* The greater of two numbers is one.
LEMMA MaxOfTwo ==
    ASSUME NEW i \in Nat, NEW j \in Nat
    PROVE  Max({i, j}) \in Nat
<1>1. \E x \in {i, j} : \A y \in {i, j} : x >= y
  <2>1. CASE i >= j
    BY <2>1
  <2>2. CASE j >= i
    BY <2>2
  <2>3. QED
    BY <2>1, <2>2
<1>2. Max({i, j}) \in {i, j}
  BY <1>1, Zenon DEF Max
<1>3. QED
  BY <1>2

LEMMA UpdateIs ==
    ASSUME state \in [Devices -> Version], NEW d \in Devices
    PROVE  /\ Update(d, "conn") => /\ state' \in [Devices -> Version]
                                   /\ state'[d].conn \in Nat /\ state'[d].port = state[d].port
                                   /\ \A e \in Devices \ {d} : state'[e] = state[e]
           /\ Update(d, "port") => /\ state' \in [Devices -> Version]
                                   /\ state'[d].port \in Nat /\ state'[d].conn = state[d].conn
                                   /\ \A e \in Devices \ {d} : state'[e] = state[e]
BY DEF Update, Version

\* The last n elements of a longer sequence, the way the full queue is rebuilt.
LEMMA LastOnes ==
    ASSUME NEW S, NEW s \in Seq(S), NEW n \in Nat \ {0}, Len(s) > n
    PROVE  LET kept == SubSeq(s, Len(s) - n + 1, Len(s)) IN
           kept \in Seq(S) /\ Len(kept) = n /\ kept[n] = s[Len(s)]
<1> DEFINE first == Len(s) - n + 1
           last == Len(s)
<1>1. first \in Int /\ last \in Int /\ first >= 1 /\ first <= last
  OBVIOUS
<1>2. n \in 1 .. last - first + 1 /\ last - first + 1 = n /\ first + n - 1 = last
  OBVIOUS
<1>3. \A i \in first .. last : s[i] \in S
  OBVIOUS
<1> HIDE DEF first, last
<1>4. /\ SubSeq(s, first, last) \in Seq(S)
      /\ Len(SubSeq(s, first, last)) = (IF first <= last THEN last - first + 1 ELSE 0)
      /\ \A i \in 1 .. last - first + 1 : SubSeq(s, first, last)[i] = s[first + i - 1]
  BY <1>1, <1>3, SubSeqProperties
<1>5. SubSeq(s, first, last)[n] = s[last]
  <2>1. SubSeq(s, first, last)[n] = s[first + n - 1]
    BY <1>2, <1>4
  <2>2. QED BY <1>2, <2>1
<1>6. Len(SubSeq(s, first, last)) = n
  BY <1>1, <1>2, <1>4
<1>7. QED
  BY <1>4, <1>5, <1>6 DEF first, last

LEMMA PutKeepsLast ==
    ASSUME PushAssumption, NEW q \in Seq(Event), Len(q) <= MAX_QUEUE_SIZE,
           NEW more \in Seq(Event), more # <<>>
    PROVE  /\ PutOrDrop(q, more) \in Seq(Event)
           /\ Len(PutOrDrop(q, more)) <= MAX_QUEUE_SIZE
           /\ PutOrDrop(q, more) # <<>>
           /\ Last(PutOrDrop(q, more)) = Last(more)
<1> DEFINE all == q \o more
<1>1. MAX_QUEUE_SIZE \in Nat \ {0}
  BY DEF PushAssumption
<1>2. Len(more) > 0
  OBVIOUS
<1>3. all \in Seq(Event) /\ Len(all) = Len(q) + Len(more) /\ all[Len(all)] = more[Len(more)]
  BY <1>2
<1>4. CASE Len(all) <= MAX_QUEUE_SIZE
  BY <1>2, <1>3, <1>4 DEF PutOrDrop, Last
<1>5. CASE Len(all) > MAX_QUEUE_SIZE
  <2> DEFINE kept == SubSeq(all, Len(all) - MAX_QUEUE_SIZE + 1, Len(all))
  <2>1. PutOrDrop(q, more) = kept
    BY <1>1, <1>3, <1>5, SMTT(60) DEF PutOrDrop
  <2> HIDE DEF all
  <2>2. kept \in Seq(Event) /\ Len(kept) = MAX_QUEUE_SIZE /\ kept[MAX_QUEUE_SIZE] = all[Len(all)]
    BY <1>1, <1>3, <1>5, LastOnes
  <2> HIDE DEF kept
  <2>5. kept # <<>>
    BY <1>1, <2>2
  <2>6. Last(kept) = Last(more)
    BY <1>3, <2>2 DEF Last
  <2>7. QED
    BY <1>1, <2>1, <2>2, <2>5, <2>6
<1>6. QED
  BY <1>1, <1>3, <1>4, <1>5

\* The reading queued last is the newest of its device, full queue or not.
NewestInQueue ==
    \A b \in Browsers : queue[b] # <<>> =>
       \E d \in Devices : Last(queue[b]) = [kind |-> "port", dev |-> d, v |-> state[d].port]

PushInv == PushTypeOK /\ NewestInQueue /\ OnlyRacesAreStale

\* What the port event of d adds to a queue: it comes last.
LEMMA BatchIs ==
    ASSUME NEW d \in Devices, NEW v \in Nat, NEW s \in Nat
    PROVE  LET event == [kind |-> "port", dev |-> d, v |-> v]
               batch == (IF s = 0 THEN <<>> ELSE << [kind |-> "status", dev |-> d, v |-> s] >>)
                        \o << event >>
           IN  batch \in Seq(Event) /\ batch # <<>> /\ Last(batch) = event
<1> DEFINE event == [kind |-> "port", dev |-> d, v |-> v]
           status == [kind |-> "status", dev |-> d, v |-> s]
<1>1. event \in Event /\ status \in Event
  BY DEF Event
<1> HIDE DEF event, status
<1>2. /\ <<>> \o <<event>> \in Seq(Event) /\ Len(<<>> \o <<event>>) = 1
      /\ (<<>> \o <<event>>)[1] = event
  BY <1>1
<1>3. /\ <<status>> \o <<event>> \in Seq(Event) /\ Len(<<status>> \o <<event>>) = 2
      /\ (<<status>> \o <<event>>)[2] = event
  BY <1>1
<1>4. QED
  BY <1>2, <1>3 DEF Last, event, status

\* While no port changes, a queue that only loses its head keeps its last event.
LEMMA NewestStays ==
    ASSUME NewestInQueue,
           \A d \in Devices : state'[d].port = state[d].port,
           \A b \in Browsers : queue'[b] # <<>> =>
              queue[b] # <<>> /\ Last(queue'[b]) = Last(queue[b])
    PROVE  NewestInQueue'
<1> SUFFICES ASSUME NEW b \in Browsers, queue'[b] # <<>>
             PROVE  \E d \in Devices : Last(queue'[b]) = [kind |-> "port", dev |-> d, v |-> state'[d].port]
  BY Zenon DEF NewestInQueue
<1>1. PICK d \in Devices : Last(queue[b]) = [kind |-> "port", dev |-> d, v |-> state[d].port]
  BY DEF NewestInQueue
<1>2. state'[d].port = state[d].port /\ Last(queue'[b]) = Last(queue[b])
  OBVIOUS
<1>3. QED
  BY <1>1, <1>2

LEMMA TailKeepsLast ==
    ASSUME NEW S, NEW q \in Seq(S), q # <<>>, Tail(q) # <<>>
    PROVE  Last(Tail(q)) = Last(q)
<1>1. Tail(q) \in Seq(S) /\ Len(Tail(q)) = Len(q) - 1 /\ Len(Tail(q)) > 0
  OBVIOUS
<1>2. Tail(q)[Len(q) - 1] = q[Len(q)]
  BY <1>1
<1>3. QED
  BY <1>1, <1>2 DEF Last

LEMMA ShownType ==
    ASSUME view \in [Browsers -> [Devices -> Version]],
           NEW b \in Browsers, NEW d \in Devices, NEW v \in Nat
    PROVE  /\ [view EXCEPT ![b][d].conn = v] \in [Browsers -> [Devices -> Version]]
           /\ [view EXCEPT ![b][d].port = v] \in [Browsers -> [Devices -> Version]]
<1>1. view[b] \in [Devices -> Version]
  OBVIOUS
<1>2. view[b][d] \in Version
  BY <1>1
<1>3. [view[b][d] EXCEPT !.conn = v] \in Version /\ [view[b][d] EXCEPT !.port = v] \in Version
  BY <1>2 DEF Version
<1>4. [view[b] EXCEPT ![d].conn = v] \in [Devices -> Version]
  BY <1>1, <1>3
<1>5. [view[b] EXCEPT ![d].port = v] \in [Devices -> Version]
  BY <1>1, <1>3
<1>6. QED
  BY <1>4, <1>5

LEMMA StateSteps ==
    ASSUME PushInv, NEW d \in Devices, ConnChange(d) \/ PortChange(d)
    PROVE  PushInv'
<1> USE DEF PushInv, PushTypeOK
<1>1. /\ state' \in [Devices -> Version]
      /\ \A e \in Devices \ {d} : state'[e] = state[e]
      /\ state'[d].conn \in Nat /\ state'[d].port \in Nat
  BY UpdateIs DEF ConnChange, PortChange, Version
<1>2. OnlyRacesAreStale' /\ body' \in [Devices -> Version \cup {Nothing}]
      /\ raced' \in [Devices -> BOOLEAN]
  BY <1>1 DEF ConnChange, PortChange, Invalidate, OnlyRacesAreStale
<1>3. CASE ConnChange(d)
  <2>1. state'[d].port = state[d].port
    BY <1>3, UpdateIs DEF ConnChange
  <2>2. pending' \in [Browsers -> [Devices -> Nat]]
    BY <1>1, <1>3 DEF ConnChange, EmitStatus
  <2>3. \A b \in Browsers : stage'[b] = "gone" => pending'[b] = [e \in Devices |-> 0]
    BY <1>3 DEF ConnChange, EmitStatus, Clients
  <2>4. NewestInQueue'
    <3>1. \A e \in Devices : state'[e].port = state[e].port
      BY <1>1, <2>1
    <3>2. QED
      BY <1>3, <3>1, NewestStays DEF ConnChange, EmitStatus
  <2>5. QED
    BY <1>1, <1>2, <1>3, <2>2, <2>3, <2>4 DEF ConnChange, EmitStatus
<1>4. CASE PortChange(d)
  <2> DEFINE event == [kind |-> "port", dev |-> d, v |-> state'[d].port]
             batch(b) == (IF pending[b][d] = 0 THEN <<>>
                          ELSE << [kind |-> "status", dev |-> d, v |-> pending[b][d]] >>)
                         \o << event >>
  <2>1. ASSUME NEW b \in Browsers
        PROVE  batch(b) \in Seq(Event) /\ batch(b) # <<>> /\ Last(batch(b)) = event
    BY <1>1, BatchIs
  <2>2. EmitPort(d, state'[d].port)
    BY <1>4 DEF PortChange
  <2>3. /\ DOMAIN queue' = Browsers
        /\ \A b \in Browsers : queue'[b] = IF b \in Clients THEN PutOrDrop(queue[b], batch(b))
                                           ELSE queue[b]
    BY <2>2 DEF EmitPort
  <2> HIDE DEF batch
  <2>4. ASSUME NEW b \in Browsers
        PROVE  /\ queue'[b] \in Seq(Event) /\ Len(queue'[b]) <= MAX_QUEUE_SIZE
               /\ b \in Clients => queue'[b] # <<>> /\ Last(queue'[b]) = event
    BY <2>1, <2>3, PutKeepsLast, PushAssumption
  <2>5. NewestInQueue'
    <3>1. \A b \in Browsers : b \notin Clients => queue'[b] = <<>>
      BY <2>3 DEF Clients
    <3>2. QED
      BY <2>4, <3>1 DEF NewestInQueue
  <2>6. queue' \in [Browsers -> Seq(Event)]
    BY <2>2, <2>4 DEF EmitPort
  <2>7. /\ pending' \in [Browsers -> [Devices -> Nat]]
        /\ \A b \in Browsers : stage'[b] = "gone" =>
              pending'[b] = [e \in Devices |-> 0] /\ queue'[b] = <<>>
    BY <1>4, <2>2, <2>3 DEF PortChange, EmitPort, Clients
  <2>8. dropped' \in [Browsers -> BOOLEAN]
    <3>1. DOMAIN dropped' = Browsers
      BY <2>2 DEF EmitPort
    <3>2. QED
      BY <2>2, Zenon DEF EmitPort
  <2>9. QED
    BY <1>1, <1>2, <1>4, <2>4, <2>5, <2>6, <2>7, <2>8 DEF PortChange
<1>5. QED
  BY <1>3, <1>4

LEMMA HandlerSteps ==
    ASSUME PushInv, NEW b \in Browsers, Open(b) \/ Handler(b) \/ Leave(b)
    PROVE  PushInv'
<1> USE PushAssumption DEF PushInv, PushTypeOK
<1>1. /\ OnlyRacesAreStale'
      /\ state' = state /\ body' = body /\ poller' = poller /\ raced' = raced
  BY DEF Open, Handler, Leave, ReadState, WriteInit, Flush, Get, Keepalive, Written,
         OnlyRacesAreStale, serving
<1>2. ASSUME \A c \in Browsers : queue'[c] # <<>> => queue[c] # <<>> /\ Last(queue'[c]) = Last(queue[c])
      PROVE  NewestInQueue'
  BY <1>1, <1>2, NewestStays
<1>3. CASE Open(b)
  BY <1>1, <1>2, <1>3 DEF Open, shown
<1>4. CASE ReadState(b)
  <2>1. FullState \in [Devices -> Version]
    <3>1. ASSUME NEW d \in Devices
          PROVE  [state[d] EXCEPT !.port = IF d = Primary THEN state[d].port ELSE 0] \in Version
      <4>1. state[d] \in Version
        OBVIOUS
      <4> HIDE DEF PushInv, PushTypeOK
      <4>2. QED
        BY <4>1, SMT DEF Version
    <3>2. QED
      BY <3>1 DEF FullState
  <2>2. Primary \in Devices
    BY PushAssumption DEF Primary
  <2>3. NewestInQueue'
    BY <1>1, <1>2, <1>4 DEF ReadState
  <2>4. hand' = [hand EXCEPT ![b] = FullState] /\ owed' = [owed EXCEPT ![b] = @ \cup {Primary}]
        /\ stage' = [stage EXCEPT ![b] = "init"] /\ view' = view /\ heard' = heard
        /\ dropped' = dropped /\ next' = next /\ queue' = queue /\ pending' = pending
    BY <1>4 DEF ReadState
  <2> HIDE DEF FullState, Primary
  <2>5. owed' \in [Browsers -> SUBSET Devices]
    BY <2>2, <2>4
  <2>6. QED
    BY <1>1, <2>1, <2>3, <2>4, <2>5
<1>5. CASE WriteInit(b)
  <2>1. hand[b] \in [Devices -> Version]
    BY <1>5 DEF WriteInit
  <2>2. view' \in [Browsers -> [Devices -> Version]]
    BY <1>5, <2>1 DEF WriteInit
  <2>3. heard' \in [Browsers -> [Devices -> Nat]]
    <3>1. ASSUME NEW d \in Devices PROVE Max({heard[b][d], hand[b][d].conn}) \in Nat
      <4>1. heard[b][d] \in Nat /\ hand[b][d].conn \in Nat
        BY <2>1 DEF Version
      <4>2. QED
        BY <4>1, MaxOfTwo
    <3>2. QED
      BY <1>5, <3>1 DEF WriteInit
  <2>4. 1 \in 1..(Len(Registry) + 1)
    BY DEF PushAssumption
  <2>5. QED
    BY <1>1, <1>2, <1>5, <2>2, <2>3, <2>4 DEF WriteInit
<1>6. CASE Flush(b)
  <2> DEFINE due == {i \in next[b]..Len(Registry) : pending[b][Registry[i]] # 0}
  <2>1. CASE due = {}
    BY <1>1, <1>2, <1>6, <2>1, ZenonT(60) DEF Flush, shown
  <2>2. CASE due # {}
    <3>1. Min(due) \in due
      <4>1. due \subseteq Nat
        OBVIOUS
      <4>2. QED
        BY <2>2, <4>1, MinIs, Zenon
    <3>2. Min(due) \in 1..Len(Registry)
      BY <3>1
    <3> DEFINE d == Registry[Min(due)]
               e == [kind |-> "status", dev |-> d, v |-> pending[b][d]]
    <3>3. d \in Devices
      BY <3>2 DEF PushAssumption
    <3>4. e \in Event
      BY <3>3 DEF Event
    <3>5. /\ hand' = [hand EXCEPT ![b] = e] /\ pending' = [pending EXCEPT ![b][d] = 0]
          /\ next' = [next EXCEPT ![b] = Min(due) + 1]
          /\ stage' = [stage EXCEPT ![b] = "write"]
          /\ stage[b] = "flush" /\ UNCHANGED <<serving, queue, shown>>
      BY <1>6, <2>2 DEF Flush
    <3> HIDE DEF due, d, e
    <3>6. Min(due) + 1 \in 1..(Len(Registry) + 1)
      BY <3>2 DEF PushAssumption
    <3>7. QED
      BY <1>1, <1>2, <3>3, <3>4, <3>5, <3>6 DEF shown
  <2>3. QED
    BY <2>1, <2>2
<1>7. CASE Get(b)
  <2>1. Head(queue[b]) \in Event /\ Tail(queue[b]) \in Seq(Event)
        /\ Len(Tail(queue[b])) <= MAX_QUEUE_SIZE
    BY <1>7 DEF Get
  <2>2. Tail(queue[b]) # <<>> => Last(Tail(queue[b])) = Last(queue[b])
    <3>1. queue[b] \in Seq(Event) /\ queue[b] # <<>>
      BY <1>7 DEF Get
    <3>2. QED
      BY <3>1, TailKeepsLast
  <2>3. 1 \in 1..(Len(Registry) + 1)
    BY DEF PushAssumption
  <2>4. NewestInQueue'
    BY <1>2, <1>7, <2>2 DEF Get
  <2>5. QED
    BY <1>1, <1>7, <2>1, <2>3, <2>4 DEF Get, shown
<1>8. CASE Keepalive(b)
  <2>1. 1 \in 1..(Len(Registry) + 1)
    BY DEF PushAssumption
  <2>2. QED
    BY <1>1, <1>2, <1>8, <2>1 DEF Keepalive, shown
<1>9. CASE Written(b)
  <2> DEFINE e == hand[b]
  <2>1. e \in Event
    BY <1>9 DEF Written
  <2>2. e.dev \in Devices /\ e.v \in Nat
    BY <2>1 DEF Event
  <2>3. Max({heard[b][e.dev], e.v}) \in Nat
    <3>1. heard[b][e.dev] \in Nat
      BY <2>2
    <3>2. QED
      BY <2>2, <3>1, MaxOfTwo
  <2>4. CASE e.kind = "status"
    <3>1. /\ view' = [view EXCEPT ![b][e.dev].conn = e.v]
          /\ heard' = [heard EXCEPT ![b][e.dev] = Max({heard[b][e.dev], e.v})]
      BY <1>9, <2>4 DEF Written
    <3> HIDE DEF e
    <3>2. view' \in [Browsers -> [Devices -> Version]]
      BY <2>2, <3>1, ShownType
    <3>3. heard' \in [Browsers -> [Devices -> Nat]]
      BY <2>2, <2>3, <3>1
    <3>4. QED
      BY <1>1, <1>2, <1>9, <3>2, <3>3 DEF Written
  <2>5. CASE e.kind # "status"
    <3>1. view' = [view EXCEPT ![b][e.dev].port = e.v] /\ heard' = heard
      BY <1>9, <2>5 DEF Written
    <3> HIDE DEF e
    <3>2. view' \in [Browsers -> [Devices -> Version]]
      BY <2>2, <3>1, ShownType
    <3>3. QED
      BY <1>1, <1>2, <1>9, <3>1, <3>2 DEF Written
  <2>6. QED
    BY <2>4, <2>5
<1>10. CASE Leave(b)
  <2>1. 1 \in 1..(Len(Registry) + 1)
    BY DEF PushAssumption
  <2>2. Blank \in [Devices -> Version]
    BY DEF Blank, Version
  <2>3. QED
    BY <1>1, <1>2, <1>10, <2>1, <2>2 DEF Leave
<1>11. QED
  BY <1>3, <1>4, <1>5, <1>6, <1>7, <1>8, <1>9, <1>10 DEF Handler

LEMMA PollerSteps ==
    ASSUME PushInv, NEW p \in Pollers,
           StoreStatus(p) \/ \E d \in Devices : ReadStatus(p, d)
    PROVE  PushInv'
<1> USE PushAssumption DEF PushInv, PushTypeOK
<1>1. UNCHANGED handlers /\ UNCHANGED shown /\ state' = state
  BY DEF StoreStatus, ReadStatus
<1>2. NewestInQueue'
  BY <1>1, NewestStays DEF handlers
<1>3. ASSUME NEW d \in Devices, ReadStatus(p, d) PROVE PushInv'
  BY <1>1, <1>2, <1>3 DEF ReadStatus, OnlyRacesAreStale, handlers, shown
<1>4. CASE StoreStatus(p)
  <2>1. poller[p].dev \in Devices /\ poller[p].read \in Version
    BY <1>4 DEF StoreStatus
  <2>2. OnlyRacesAreStale'
    BY <1>4, <2>1 DEF StoreStatus, OnlyRacesAreStale
  <2>3. QED
    BY <1>1, <1>2, <1>4, <2>1, <2>2 DEF StoreStatus, handlers, shown
<1>5. QED
  BY <1>3, <1>4

\* However many devices, browsers and requests there are and however long the
\* queues: a queue that overflowed still ends with the newest reading, nothing is
\* kept for who has left, and a cached answer is out of date only after a race.
THEOREM BuffersTheorem == PushSpec => []BuffersHold
<1>1. PushInit => PushInv
  <2> SUFFICES ASSUME PushInit PROVE PushInv
    OBVIOUS
  <2>1. Blank \in [Devices -> Version]
    BY DEF Blank, Version
  <2>2. 1 \in 1..(Len(Registry) + 1) /\ 0 <= MAX_QUEUE_SIZE
    BY PushAssumption DEF PushAssumption
  <2>3. <<>> \in Seq(Event) /\ Len(<<>>) = 0
    OBVIOUS
  <2>4. QED
    BY <2>1, <2>2, <2>3 DEF PushInit, PushInv, PushTypeOK, NewestInQueue, OnlyRacesAreStale
<1>2. PushInv /\ [PushNext]_pushVars => PushInv'
  <2>1. CASE UNCHANGED pushVars
    BY <2>1 DEF pushVars, serving, handlers, shown, PushInv, PushTypeOK, NewestInQueue,
                OnlyRacesAreStale
  <2>2. QED
    BY <2>1, StateSteps, HandlerSteps, PollerSteps DEF PushNext
<1>3. PushInv => BuffersHold
  BY DEF PushInv, BuffersHold, NewestInQueue, NewestKept
<1>4. QED
  BY <1>1, <1>2, <1>3, PTL DEF PushSpec
=============================================================================
