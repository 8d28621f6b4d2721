------------------------------- MODULE HaLimits -------------------------------
(***************************************************************************)
(* The charge limit of one port in the Home Assistant integration            *)
(* (custom_components/cuktech_charger: the coordinator in __init__.py and     *)
(* ChargeLimitTracker in energy_engine.py).                                   *)
(*                                                                          *)
(* With an ESP32 gateway the integration meters, decides and cuts by itself;  *)
(* with the Python server it delegates to its REST interface and only meters, *)
(* until a write to the server fails: then it takes over.  Limits live in     *)
(* memory, in the Store of Home Assistant and, delegated, at the server.      *)
(* Everything runs in one event loop: a step ends where the code awaits.      *)
(***************************************************************************)
EXTENDS Naturals, Sequences

CONSTANTS
    FULL,        \* samples of charging that make up the limit
    Budget,      \* bound: orders, plugging, failures and restarts together
    None

Limit == [armed : BOOLEAN, mode : {"once", "always"}]
\* What a user asks: a threshold or none, with a mode or keeping the present one.
Order == [armed : BOOLEAN, mode : {"once", "always", None}]

ASSUME LimitsAssumption ==
    /\ FULL \in Nat \ {0} /\ Budget \in Nat
    /\ None \notin Limit \cup Order \cup {"once", "always"}

VARIABLES
    phase,    \* of the entry: "down", "subscribed", "loaded", "up"
    python,   \* whether the gateway is the Python server
    server,   \* the limit the server holds and enforces
    backend,  \* _limit_backend
    mirror,   \* _server_limits
    poll,     \* the answer to a GET that has not been applied yet
    post,     \* the order a POST in flight carries
    limit,    \* the tracker's limit
    charging, wh, fired,  \* and its session; fired: "no", "sent", "late" (retry due)
    saved,    \* _saved_limits: what is believed to be stored
    saving,   \* a save task has been created and has not run
    storing,  \* what Store.async_save was given and has not written
    setting,  \* a user's order awaits that write
    disk,     \* the file
    ble,      \* _ble_connected
    port,     \* what the port delivers: "draw", "trickle" or "off"
    offs,     \* a port-off command is on its way
    left,     \* of the budget
    want,     \* history: the limit as users and finished charges left it
    lost      \* history: how the stored limit came to differ from that, if it did

delegation == <<python, server, backend, mirror, poll, post>>
tracker == <<limit, charging, wh, fired>>
store == <<saved, saving, storing, setting, disk>>
charger == <<ble, port, offs>>
vars == <<phase, delegation, tracker, store, charger, left, want, lost>>

Disabled == [armed |-> FALSE, mode |-> "once"]
Merge(l, o) == [armed |-> o.armed, mode |-> IF o.mode = None THEN l.mode ELSE o.mode]

TypeOK ==
    /\ phase \in {"down", "subscribed", "loaded", "up"} /\ python \in BOOLEAN
    /\ {server, limit, disk, want} \subseteq Limit
    /\ backend \in {"local", "server"} /\ (backend = "server" => python /\ mirror # None)
    /\ {mirror, poll, saved, storing} \subseteq Limit \cup {None} /\ post \in Order \cup {None}
    /\ {charging, saving, setting, ble, offs} \subseteq BOOLEAN
    /\ wh \in 0..FULL /\ fired \in {"no", "sent", "late"}
    /\ port \in {"draw", "trickle", "off"} /\ left \in 0..Budget
    /\ lost \in {"no", "early", "overtaken"}
    \* A cut belongs to a session, and what is stored is known once it was loaded.
    /\ (fired # "no" => charging) /\ (phase \in {"loaded", "up"} => saved # None)
    /\ (setting => post = None)

Init ==
    /\ phase = "down" /\ python \in BOOLEAN
    /\ server = Disabled /\ backend = "local" /\ mirror = None /\ poll = None /\ post = None
    /\ limit = Disabled /\ charging = FALSE /\ wh = 0 /\ fired = "no"
    /\ saved = None /\ saving = FALSE /\ storing = None /\ setting = FALSE /\ disk = Disabled
    /\ ble = FALSE /\ port = "draw" /\ offs = FALSE
    /\ left = Budget /\ want = Disabled /\ lost = "no"

Spend == left > 0 /\ left' = left - 1

-----------------------------------------------------------------------------
(* ChargeLimitTracker: what a sample makes of the session.                   *)

Session == [limit |-> limit, charging |-> charging, wh |-> wh, fired |-> fired]
Sessions == [limit : Limit, charging : BOOLEAN, wh : 0..FULL, fired : {"no", "sent", "late"}]

Preserving == {"link_loss", "shutdown"}

\* Mutant: the cut of the session stays noted.
EndedFired(reason) ==
    [limit |-> IF limit.mode = "once" /\ reason \notin Preserving
               THEN [limit EXCEPT !.armed = FALSE] ELSE limit,
     charging |-> FALSE, wh |-> wh, fired |-> fired]

\* end_session: the end of a charge uses up a once limit.
Ended(reason) ==
    [limit |-> IF limit.mode = "once" /\ reason \notin Preserving
               THEN [limit EXCEPT !.armed = FALSE] ELSE limit,
     charging |-> FALSE, wh |-> wh, fired |-> "no"]

Charged == [Session EXCEPT !.wh = IF wh < FULL THEN wh + 1 ELSE FULL]
Started == [Session EXCEPT !.charging = TRUE, !.wh = 0, !.fired = "no"]

\* ingest: a session that draws little goes on until it is found full.
Ingested ==
    CASE port = "draw" -> {IF charging THEN Charged ELSE Started}
      [] port = "trickle" -> {Session} \cup (IF charging THEN {Ended("low_power")} ELSE {})
      [] port = "off" -> {IF charging THEN Ended("port_off") ELSE Session}

\* Mutant: a command that was lost is not sent again.
DueOnce(s) == s.charging /\ s.limit.armed /\ s.wh >= FULL /\ s.fired = "no"

\* due_cutoffs: past the limit, and no command sent in the last 15 s.
Due(s) == s.charging /\ s.limit.armed /\ s.wh >= FULL /\ s.fired # "sent"

\* Mutant: the change is noted and no save started.
PersistNoted(l) ==
    /\ saved' = l /\ UNCHANGED <<saving, lost>>

\* _persist_limits_if_changed: a limit that changed by itself is saved by a task.
\* The comparison misses a change back to what was believed stored while a user's
\* order is being written; before the load it compares with nothing and saves zeros.
Persist(l) ==
    /\ IF l = saved THEN UNCHANGED <<saved, saving>> ELSE saved' = l /\ saving' = TRUE
    /\ lost' = CASE saved = None -> "early"
                 [] setting /\ l # limit /\ l = saved -> "overtaken"
                 [] OTHER -> lost

\* What a charge that ended did to the limit.
Remember(l) == want' = IF l # limit THEN l ELSE want

-----------------------------------------------------------------------------
(* Messages of the gateway; the broker retains the last of each topic.       *)

Listening == phase # "down"

\* _on_port_message: meter under both backends, enforce only as the owner.  A reading
\* is taken as it comes, a retained one and one that outlives its link included.
PortMessage ==
    /\ Listening
    /\ \E s \in Sessions :
         /\ s \in Ingested
         /\ limit' = s.limit /\ charging' = s.charging /\ wh' = s.wh
         /\ LET cut == backend = "local" /\ Due(s)
            IN  fired' = (IF cut THEN "sent" ELSE s.fired) /\ offs' = (offs \/ cut)
         /\ Persist(s.limit) /\ Remember(s.limit)
    /\ UNCHANGED <<phase, delegation, storing, setting, disk, ble, port, left>>

\* LIMIT_RETRY_SEC later.
RetryDue ==
    /\ fired = "sent" /\ fired' = "late"
    /\ UNCHANGED <<phase, delegation, limit, charging, wh, store, charger, left, want, lost>>

\* The command reaches the charger, or is lost.
OffArrives ==
    /\ offs /\ offs' = FALSE /\ port' = "off"
    /\ UNCHANGED <<phase, delegation, tracker, store, ble, left, want, lost>>
OffLost ==
    /\ offs /\ offs' = FALSE /\ Spend
    /\ UNCHANGED <<phase, delegation, tracker, store, ble, port, want, lost>>

\* _sync_ble_state: the loss of the link ends the session and keeps the limit.
LinkBack ==
    /\ Listening /\ ~ble /\ ble' = TRUE
    /\ UNCHANGED <<phase, delegation, tracker, store, port, offs, left, want, lost>>
LinkLost ==
    /\ Listening /\ ble /\ ble' = FALSE /\ Spend
    /\ LET s == Ended("link_loss")
       IN  limit' = s.limit /\ charging' = FALSE /\ fired' = "no" /\ wh' = wh /\ Persist(s.limit)
    /\ UNCHANGED <<phase, delegation, storing, setting, disk, port, offs, want>>

\* A device is plugged in, fills up, or is unplugged; the port is switched.
UsePort ==
    /\ \E p \in {"draw", "trickle", "off"} \ {port} : port' = p
    /\ Spend
    /\ UNCHANGED <<phase, delegation, tracker, store, ble, offs, want, lost>>

-----------------------------------------------------------------------------
(* Setup and restart.                                                        *)

Subscribe ==
    /\ phase = "down" /\ phase' = "subscribed"
    /\ UNCHANGED <<delegation, tracker, store, charger, left, want, lost>>

\* _async_load_limits: the Store answers with what it is still to write, if anything.
Load ==
    /\ phase = "subscribed" /\ phase' = "loaded"
    /\ limit' = (IF storing # None THEN storing ELSE disk) /\ saved' = limit'
    /\ UNCHANGED <<delegation, charging, wh, fired, saving, storing, setting, disk, charger, left,
                   want, lost>>

\* _async_probe_limit_backend: only an answer makes the server the owner.
Probe ==
    /\ phase = "loaded" /\ phase' = "up"
    /\ \/ python /\ backend' = "server" /\ mirror' = server /\ UNCHANGED left
       \/ python /\ Spend /\ UNCHANGED <<backend, mirror>>
       \/ ~python /\ UNCHANGED <<backend, mirror, left>>
    /\ UNCHANGED <<python, server, poll, post, tracker, store, charger, want, lost>>

\* async_unload, and a new coordinator.  Home Assistant waits for the tasks it runs.
Restart ==
    /\ phase = "up" /\ Spend /\ ~saving /\ storing = None /\ ~setting /\ post = None
    /\ phase' = "down" /\ backend' = "local" /\ mirror' = None /\ poll' = None
    /\ limit' = Disabled /\ charging' = FALSE /\ wh' = 0 /\ fired' = "no" /\ saved' = None
    /\ ble' = FALSE
    /\ UNCHANGED <<python, server, post, saving, storing, setting, disk, port, offs, want, lost>>

\* _async_save_limits: the task takes the limits when it runs; the Store then writes
\* what it was given last.
RunSave ==
    /\ saving /\ saving' = FALSE /\ storing' = limit
    /\ UNCHANGED <<phase, delegation, tracker, saved, setting, disk, charger, left, want, lost>>
StoreWrite ==
    /\ storing # None /\ disk' = storing /\ storing' = None
    /\ UNCHANGED <<phase, delegation, tracker, saved, saving, setting, charger, left, want, lost>>

-----------------------------------------------------------------------------
(* async_set_charge_limit.                                                   *)

\* The limit is set in the tracker (set_limit re-arms) and its write is awaited.
Apply(base, o) ==
    /\ limit' = Merge(base, o) /\ fired' = "no" /\ storing' = limit' /\ setting' = TRUE
    /\ UNCHANGED <<charging, wh, saved, saving, disk>>

SetLimit ==
    /\ phase = "up" /\ backend = "local" /\ ~setting /\ Spend
    /\ \E o \in Order : Apply(limit, o) /\ want' = Merge(limit, o)
    /\ lost' = "no"
    /\ UNCHANGED <<phase, delegation, charger>>

\* The change detector is brought in step after the write.
SetDone ==
    /\ setting /\ storing = None /\ setting' = FALSE /\ saved' = limit
    /\ UNCHANGED <<phase, delegation, tracker, saving, storing, disk, charger, left, want, lost>>

PostLimit ==
    /\ phase = "up" /\ backend = "server" /\ post = None /\ Spend
    /\ \E o \in Order : post' = o
    /\ UNCHANGED <<phase, python, server, backend, mirror, poll, tracker, store, charger, want, lost>>

PostAnswered ==
    /\ post # None /\ post' = None
    /\ server' = Merge(server, post) /\ mirror' = server'
    /\ UNCHANGED <<phase, python, backend, poll, tracker, store, charger, left, want, lost>>

\* _adopt_server_limits_locally: the last answer of the server is taken over.
Adopted == mirror

\* The POST fails, though the server may have done it: the coordinator takes over.
PostFailed ==
    /\ post # None /\ post' = None /\ Spend
    /\ server' \in {server, Merge(server, post)}
    /\ backend' = "local" /\ Apply(Adopted, post) /\ want' = Merge(mirror, post) /\ lost' = "no"
    /\ UNCHANGED <<phase, python, mirror, poll, charger>>

\* The server spends a limit, or its own users change it.
ServerChanges ==
    /\ python /\ Spend /\ server' \in Limit \ {server}
    /\ UNCHANGED <<phase, python, backend, mirror, poll, post, tracker, store, charger, want, lost>>

\* Mutant: once there is a snapshot, progress is all that is taken from an answer.
PollAnswerKept ==
    /\ poll # None /\ poll' = None /\ mirror' = (IF mirror = None THEN poll ELSE mirror)
    /\ UNCHANGED <<phase, python, server, backend, post, tracker, store, charger, left, want, lost>>

\* _async_poll_server_limits: an answer is applied even when a later POST was faster.
Poll ==
    /\ phase = "up" /\ backend = "server" /\ poll = None /\ poll' = server
    /\ UNCHANGED <<phase, python, server, backend, mirror, post, tracker, store, charger, left, want, lost>>
PollAnswer ==
    /\ poll # None /\ poll' = None /\ mirror' = poll
    /\ UNCHANGED <<phase, python, server, backend, post, tracker, store, charger, left, want, lost>>

-----------------------------------------------------------------------------
Next ==
    \/ PortMessage \/ RetryDue \/ OffArrives \/ OffLost \/ LinkBack \/ LinkLost \/ UsePort
    \/ Subscribe \/ Load \/ Probe \/ Restart \/ RunSave \/ StoreWrite
    \/ SetLimit \/ SetDone \/ PostLimit \/ PostAnswered \/ PostFailed \/ ServerChanges
    \/ Poll \/ PollAnswer

\* Readings come every second while the link is up, polls by a timer, tasks and writes end; no promise
\* that a request is answered rather than fails, or that the link comes back.
Fairness ==
    /\ WF_vars(ble /\ PortMessage) /\ WF_vars(RetryDue) /\ WF_vars(OffArrives)
    /\ WF_vars(Subscribe) /\ WF_vars(Load) /\ WF_vars(Probe)
    /\ WF_vars(RunSave) /\ WF_vars(StoreWrite) /\ WF_vars(SetDone)
    /\ WF_vars(PostAnswered) /\ WF_vars(Poll) /\ WF_vars(PollAnswer)

Spec == Init /\ [][Next]_vars
FairSpec == Spec /\ Fairness

-----------------------------------------------------------------------------
(* Properties.                                                               *)

\* Where Home Assistant owns the limit, it is the one that users' orders and finished
\* charges left, across restarts, lost links and a takeover of the server's limit,
\* unless a reading came before the load or a charge ended while an order was written.
LimitKept == phase = "up" /\ backend = "local" /\ lost = "no" => limit = want

\* The entry is well-formed and holds the limit it should.
LimitHolds == TypeOK /\ LimitKept

\* A port does not charge past its limit for ever, whatever commands are lost.
LimitCuts ==
    ~<>[](phase = "up" /\ backend = "local" /\ ble /\ limit.armed /\ port = "draw")

\* While it delegates, Home Assistant shows what the server holds sooner or later.
MirrorCatchesUp == []<>(phase = "up" /\ backend = "server" => mirror = server)

\* What must happen in the end does: the cut, and the news from the server.
LimitsSettle == LimitCuts /\ MirrorCatchesUp
=============================================================================
