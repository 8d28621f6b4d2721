----------------------------- MODULE PortPolicy -----------------------------
(***************************************************************************)
(* What switches a port off by itself (ble_server/ble_manager.py): the        *)
(* charge limit and "full, then off", with the port modes that exclude them,  *)
(* for one port; and the requests that change these settings                 *)
(* (ble_server/ha_server.py), each of which reads memory, awaits its          *)
(* database writes and only then changes memory.                             *)
(*                                                                           *)
(* Time is abstract: a sample is late when the one window it looks at         *)
(* (debounce, confirmation or retry) has run out, and the verdicts of         *)
(* energy.py (ChargeDetector) are free choices where they are asked for.      *)
(* Energy has two levels: enough for a verdict, for FULL_OFF_MIN_WH and for   *)
(* the limit ("full"), or not.  A command is carried out or fails in one step          *)
(* (PortControl follows the exchange with the charger).                       *)
(***************************************************************************)
EXTENDS Naturals, Sequences

CONSTANTS
    Stored,       \* settings the database may hold at the start
    MaxAttempts,  \* FULL_OFF_MAX_ATTEMPTS, 4
    QMAX,         \* places of cmd_queue
    Requests,     \* concurrent HTTP requests
    Posts,        \* bound of the requests made
    Events        \* bound of the commands of users, the commands the charger does not
                  \* confirm, the links lost and the restarts of the manager

\* No voltage; voltage only; current.  A current of no more than NO_LOAD_BUSY_W is
\* "busy" to a session that is open and "idle" when none is.
Readings == {"none", "idle", "busy"}
Modes == {"", "once", "always"}  \* "": no limit, or full-off is not on

Settings == [lim : Modes, perm : BOOLEAN, foff : Modes]

ASSUME PolicyAssumption ==
    /\ Stored \subseteq {s \in Settings : s.perm => s.lim = "" /\ s.foff = ""}
    /\ MaxAttempts \in Nat /\ QMAX \in Nat \ {0}
    /\ {Posts, Events} \subseteq Nat

VARIABLES
    m,      \* the manager's memory of the port
    perm,   \* the port is in permanent_ports
    ps,     \* state.ports: the last reading
    on,     \* the port switch
    link,   \* the link is up: pushes, the port timer, commands
    queue,  \* cmd_queue: "auto" for an off of the policy, "off" or "on" of a user
    req,    \* the requests under way
    jobs,   \* write-backs submitted to the thread pool
    db,     \* the settings in the database
    left    \* what the bounds leave

vars == <<m, perm, ps, on, link, queue, req, jobs, db, left>>

Memory == [chg : BOOLEAN, full : BOOLEAN, lim : Modes, fired : BOOLEAN,
           foff : Modes, pend : BOOLEAN, att : 0..MaxAttempts, ffired : BOOLEAN,
           quiet : BOOLEAN, armed : BOOLEAN]
Stages == {"free", "limits", "limits done", "perm", "full", "full done", "stale", "stale done"}

TypeOK ==
    /\ m \in Memory /\ perm \in BOOLEAN /\ ps \in Readings
    /\ on \in BOOLEAN /\ link \in BOOLEAN
    /\ queue \in Seq({"auto", "off", "on"}) /\ Len(queue) <= QMAX
    /\ req \in [Requests -> [at : Stages, new : Settings, other : BOOLEAN]]
    /\ jobs \subseteq {"limit", "full"} /\ db \in Settings
    /\ left \in [posts : 0..Posts, events : 0..Events]

\* A manager with the settings s, as mount_device_hooks injects them: the limits,
\* then the permanent ports, then full-off.
Fresh == [chg |-> FALSE, full |-> FALSE, lim |-> "", fired |-> FALSE, foff |-> "",
          pend |-> FALSE, att |-> 0, ffired |-> FALSE, quiet |-> FALSE, armed |-> FALSE]

SetChargeLimits(r, s) == [r EXCEPT !.lim = s.lim]
SetPermanent(r, permanent) ==
    IF permanent
    THEN [r EXCEPT !.foff = "", !.pend = FALSE, !.att = 0, !.ffired = FALSE, !.lim = "", !.fired = FALSE]
    ELSE r

\* Mutant: a pending off is not revoked.
SetFullOffPending(r, permanent, mode) ==
    IF permanent \/ mode = "" THEN [r EXCEPT !.foff = "", !.ffired = FALSE] ELSE [r EXCEPT !.foff = mode]

SetFullOff(r, permanent, mode) ==
    IF permanent \/ mode = ""
    THEN [r EXCEPT !.foff = "", !.ffired = FALSE, !.pend = FALSE, !.att = 0]
    ELSE [r EXCEPT !.foff = mode]

SetModes(r, s) == SetFullOff(SetPermanent(r, s.perm), s.perm, s.foff)
Mount(s) == SetModes(SetChargeLimits(Fresh, s), s)

NoRequest == [at |-> "free", other |-> FALSE,
              new |-> [lim |-> "", perm |-> FALSE, foff |-> ""]]

Init ==
    /\ db \in Stored
    /\ m = Mount(db) /\ perm = db.perm
    /\ ps = "none" /\ on = TRUE /\ link = TRUE /\ queue = <<>> /\ jobs = {}
    /\ req = [r \in Requests |-> NoRequest]
    /\ left = [posts |-> Posts, events |-> Events]

-----------------------------------------------------------------------------
(* The policy.  Operators on the port's memory; an off that finds the queue   *)
(* full is dropped.                                                           *)

Room == Len(queue) < QMAX

\* Mutant: every end consumes a once limit.
ReleaseAlways(r, reason) ==
    [r EXCEPT !.fired = FALSE, !.lim = IF @ = "once" THEN "" ELSE @]

\* reason "outage" is link_loss or shutdown (END_REASONS_PRESERVING_LIMIT).
Release(r, reason) ==
    [r EXCEPT !.fired = FALSE, !.lim = IF @ = "once" /\ reason # "outage" THEN "" ELSE @]

ArmFullOff(r) == [r EXCEPT !.pend = TRUE, !.att = 0]

\* _close_session
Close(r, reason) ==
    IF ~r.chg THEN r
    ELSE LET ended == [Release(r, reason) EXCEPT !.chg = FALSE, !.full = FALSE]
             armed == IF reason = "low_power" /\ r.foff # "" /\ r.full THEN ArmFullOff(ended) ELSE ended
         IN  IF reason = "no_load" THEN armed ELSE [armed EXCEPT !.quiet = FALSE, !.armed = FALSE]

\* _close_active_sessions: only the session and the limit are touched.
CloseActive(r) == IF r.chg THEN [Release(r, "outage") EXCEPT !.chg = FALSE, !.full = FALSE] ELSE r

StartSession(r) ==
    [r EXCEPT !.chg = TRUE, !.quiet = FALSE, !.armed = FALSE, !.fired = FALSE,
              !.pend = FALSE, !.att = 0, !.ffired = FALSE]

NoCurrent(v) == v \in {"none", "idle"}

\* _manage_session while charging; verdict "turn" is should_end's.
ManageCharging(r, v, late, verdict) ==
    IF ~on THEN Close(r, "port_off")
    ELSE IF NoCurrent(v)
         THEN IF ~r.quiet THEN [r EXCEPT !.quiet = TRUE]
              ELSE IF ~late THEN r
              ELSE Close(r, IF v = "none" THEN "unplug" ELSE "no_load")
    ELSE IF verdict = "turn" /\ r.full THEN Close(r, "low_power")
    ELSE [r EXCEPT !.quiet = FALSE, !.armed = FALSE]

\* ... and while not: full-off is armed when the port stays quiet long enough.
Confirm(r, v, late) ==
    IF v = "busy" THEN [r EXCEPT !.quiet = FALSE, !.armed = FALSE]
    ELSE IF r.foff = "" \/ r.pend \/ r.armed \/ v = "none" THEN r
    ELSE IF r.quiet /\ late THEN ArmFullOff([r EXCEPT !.armed = TRUE])
    ELSE [r EXCEPT !.quiet = TRUE]

Manage(r, v, late, verdict) ==
    IF r.chg THEN ManageCharging(r, v, late, verdict)
    ELSE IF on /\ v = "busy" /\ verdict = "turn" THEN StartSession(Confirm(r, v, late))
    ELSE Confirm(r, v, late)

\* Mutant: no retry while _limit_fired is set.
LimitDueOnce(r, late) == ~perm /\ r.lim # "" /\ r.chg /\ r.full /\ ~r.fired

\* _enforce_charge_limit orders an off; its flag stays down when the queue is full.
LimitDue(r, late) == ~perm /\ r.lim # "" /\ r.chg /\ r.full /\ (r.fired => late)

EnforceLimit(r, late) == IF LimitDue(r, late) THEN [r EXCEPT !.fired = Room] ELSE r

\* _enforce_full_off, v the reading it sees: confirmed, waiting, given up or retried.
\* Mutant: one attempt too many.
RetriesOnceMore(r, v, late) == r.pend /\ v # "none" /\ late /\ r.att <= MaxAttempts
Retries(r, v, late) == r.pend /\ v # "none" /\ late /\ r.att < MaxAttempts

\* Mutant: giving up leaves the off pending.
EnforceFullOffForever(r, v, late) ==
    IF ~r.pend THEN r
    ELSE IF v = "none"
         THEN [r EXCEPT !.pend = FALSE, !.ffired = (r.foff # "once"),
                        !.foff = IF r.foff = "once" THEN "" ELSE @]
    ELSE IF Retries(r, v, late) THEN [r EXCEPT !.ffired = FALSE, !.att = @ + 1]
    ELSE [r EXCEPT !.ffired = FALSE]

EnforceFullOff(r, v, late) ==
    IF ~r.pend THEN r
    ELSE IF v = "none"
         THEN [r EXCEPT !.pend = FALSE, !.ffired = (r.foff # "once"),
                        !.foff = IF r.foff = "once" THEN "" ELSE @]
    ELSE IF Retries(r, v, late) THEN [r EXCEPT !.ffired = FALSE, !.att = @ + 1]
    ELSE IF late THEN [r EXCEPT !.ffired = FALSE, !.pend = FALSE]
    ELSE [r EXCEPT !.ffired = FALSE]

\* A once setting that is consumed is written back, by the thread pool.
WriteBack(new) ==
    jobs' = jobs \cup {j \in {"limit"} : m.lim # "" /\ new.lim = ""}
                 \cup {j \in {"full"} : m.foff # "" /\ new.foff = ""}
EnqueueOff(wanted) == queue' = IF wanted /\ Room THEN Append(queue, "auto") ELSE queue

-----------------------------------------------------------------------------
(* Samples: a push of the charger, or a tick of the port timer.               *)

Shown == IF on THEN Readings ELSE {"none"}
Gain(r, v, verdict) == IF r.chg /\ ~NoCurrent(v) /\ verdict = "gain" THEN [r EXCEPT !.full = TRUE] ELSE r

Push(v, late, verdict) ==
    LET managed == Manage(Gain(m, v, verdict), v, late, verdict)
        limited == EnforceLimit(managed, late)
        new == EnforceFullOff(limited, v, late /\ m.pend)
    IN  /\ link /\ v \in Shown /\ ps' = v /\ m' = new /\ WriteBack(new)
        /\ EnqueueOff((~m.pend /\ managed.pend) \/ LimitDue(managed, late)
                      \/ (m.pend /\ Retries(limited, v, late)))
        /\ UNCHANGED <<perm, on, link, req, db, left>>

Timer(late, verdict) ==
    LET enforced == EnforceFullOff(m, ps, late)
        managed == IF ps # "none" \/ m.chg THEN Manage(enforced, ps, late, verdict) ELSE enforced
        charged == Gain(managed, ps, verdict)
        integrates == charged.chg /\ ~NoCurrent(ps)
        new == IF integrates THEN EnforceLimit(charged, late) ELSE charged
    IN  /\ link /\ m' = new /\ WriteBack(new)
        /\ EnqueueOff(Retries(m, ps, late) \/ (~enforced.pend /\ managed.pend)
                      \/ (integrates /\ LimitDue(charged, late)))
        /\ UNCHANGED <<perm, ps, on, link, req, db, left>>

\* A session gains energy, turns (starts or ends), or neither; late is of
\* consequence to a window that runs.
Verdicts == {"none", "gain", "turn"}
WindowRuns == m.quiet \/ m.fired \/ m.pend
Sensible(late, verdict) ==
    /\ verdict = "gain" => m.chg /\ ~m.full
    /\ verdict = "turn" => ~m.chg \/ m.full
    /\ late => WindowRuns
Sampled(late) ==
    \E verdict \in Verdicts :
       /\ Sensible(late, verdict)
       /\ Timer(late, verdict) \/ \E v \in Readings : Push(v, late, verdict)
Sample == \E late \in BOOLEAN : Sampled(late)
\* A sample that comes after the window it looks at has run out.
RipeSample == \E late \in BOOLEAN : late = WindowRuns /\ Timer(late, "none")

\* _handle_verify_port: a port that reads inactive ends its session at once.
Verify ==
    /\ link /\ ps' \in Shown
    /\ m' = (IF ps' = "none" THEN Close(m, "unplug") ELSE m) /\ WriteBack(m')
    /\ UNCHANGED <<perm, on, link, queue, req, db, left>>

-----------------------------------------------------------------------------
(* The command loop and the link.                                             *)

Event == left.events > 0 /\ left' = [left EXCEPT !.events = @ - 1]

UserOrder ==
    /\ Event /\ Room
    /\ \E c \in {"on", "off"} : queue' = Append(queue, c)
    /\ UNCHANGED <<m, perm, ps, on, link, req, jobs, db>>

Confirmed ==
    /\ link /\ queue # <<>> /\ queue' = Tail(queue)
    /\ IF Head(queue) \in {"auto", "off"} /\ on
       THEN on' = FALSE /\ ps' = "none" /\ m' = Close(m, "port_off")
       ELSE on' = (on \/ Head(queue) = "on") /\ UNCHANGED <<ps, m>>
    /\ WriteBack(m') /\ UNCHANGED <<perm, link, req, db, left>>

NotConfirmed ==
    /\ link /\ queue # <<>> /\ queue' = Tail(queue)
    /\ Event
    /\ UNCHANGED <<m, perm, ps, on, link, req, jobs, db>>

Disconnect ==
    /\ link /\ link' = FALSE /\ Event
    /\ m' = CloseActive(m) /\ UNCHANGED <<perm, ps, on, queue, req, jobs, db>>

Reconnect == ~link /\ link' = TRUE /\ UNCHANGED <<m, perm, ps, on, queue, req, jobs, db, left>>

\* A new manager (restart, L3 rebuild) takes its settings from the database.
Rebuild ==
    /\ Event
    /\ m' = Mount(db) /\ perm' = db.perm /\ link' = FALSE /\ queue' = <<>>
    /\ UNCHANGED <<ps, on, req, jobs, db>>

-----------------------------------------------------------------------------
(* Requests: about this port, or about another one, whose request carries     *)
(* this port's settings as it read them.                                      *)

Known == [lim |-> m.lim, perm |-> perm, foff |-> m.foff]
At(r, stage, new, other) == req' = [req EXCEPT ![r] = [at |-> stage, new |-> new, other |-> other]]
Post(r) == req[r].at = "free" /\ left.posts > 0 /\ left' = [left EXCEPT !.posts = @ - 1]
Loop == UNCHANGED <<ps, on, link, queue, jobs>>
Idle(r) == req' = [req EXCEPT ![r] = NoRequest]

HandleChargeLimits(r) ==
    /\ Post(r)
    /\ \/ At(r, "limits", Known, TRUE)
       \/ \E lim \in Modes :
             /\ lim # "" => ~perm
             /\ At(r, "limits", [Known EXCEPT !.lim = lim], FALSE)
    /\ UNCHANGED <<m, perm, db>> /\ Loop

ApplyLimits(r) ==
    /\ req[r].at = "limits done" /\ m' = SetChargeLimits(m, req[r].new) /\ Idle(r)
    /\ UNCHANGED <<perm, db, left>> /\ Loop

HandlePortModes(r) ==
    /\ Post(r)
    /\ \/ At(r, "perm", [Known EXCEPT !.perm = TRUE, !.foff = ""], FALSE)
       \/ At(r, "perm", [Known EXCEPT !.perm = FALSE], FALSE)
       \/ \E mode \in Modes :
             /\ mode # "" => ~perm
             /\ At(r, "perm", [Known EXCEPT !.foff = mode], FALSE)
    /\ UNCHANGED <<m, perm, db>> /\ Loop

\* The limit of a permanent port is looked up and cleared.
CheckStale(r) ==
    LET q == req[r] IN
    /\ q.at = "full done"
    /\ \/ /\ q.new.perm /\ m.lim # ""
          /\ At(r, "stale", [q.new EXCEPT !.lim = ""], q.other)
          /\ UNCHANGED <<m, perm>>
       \/ /\ ~(q.new.perm /\ m.lim # "")
          /\ m' = SetModes(m, q.new) /\ perm' = q.new.perm /\ Idle(r)
    /\ UNCHANGED <<db, left>> /\ Loop

ApplyModes(r) ==
    /\ req[r].at = "stale done"
    /\ m' = SetModes(SetChargeLimits(m, req[r].new), req[r].new) /\ perm' = req[r].new.perm /\ Idle(r)
    /\ UNCHANGED <<db, left>> /\ Loop

\* The database writes of the request, by the thread pool.
Write(r) ==
    LET q == req[r]
        put(next, written) == db' = written /\ At(r, next, q.new, q.other)
    IN  /\ \/ q.at = "limits" /\ put("limits done", [db EXCEPT !.lim = q.new.lim])
           \/ q.at = "perm" /\ put("full", [db EXCEPT !.perm = q.new.perm])
           \/ q.at = "full" /\ put("full done", [db EXCEPT !.foff = q.new.foff])
           \/ q.at = "stale" /\ put("stale done", [db EXCEPT !.lim = q.new.lim])
        /\ UNCHANGED <<m, perm, left>> /\ Loop

\* _persist_limits_async, _persist_full_off_async
RunJob ==
    /\ \/ "limit" \in jobs /\ jobs' = jobs \ {"limit"} /\ db' = [db EXCEPT !.lim = ""]
       \/ "full" \in jobs /\ jobs' = jobs \ {"full"} /\ db' = [db EXCEPT !.foff = ""]
    /\ UNCHANGED <<m, perm, ps, on, link, queue, req, left>>

Serve(r) == HandleChargeLimits(r) \/ ApplyLimits(r) \/ HandlePortModes(r) \/ CheckStale(r)
            \/ ApplyModes(r) \/ Write(r)

Next ==
    \/ Sample \/ Verify \/ UserOrder \/ Confirmed \/ NotConfirmed
    \/ Disconnect \/ Reconnect \/ Rebuild \/ RunJob
    \/ \E r \in Requests : Serve(r)

Spec == Init /\ [][Next]_vars

\* The port timer samples every second or two until every window has run out, the command
\* loop runs the queue before it waits, and a lost link is connected again.
FairSpec == Spec /\ WF_vars(RipeSample) /\ WF_vars(Confirmed) /\ WF_vars(Reconnect)

-----------------------------------------------------------------------------
(* Properties. *)

\* "Full, then off" is never half revoked: an off that is still to be confirmed
\* belongs to a port that wants it, has no session and is not permanent, and a port
\* shown as fired has the function on.
FullOffCoherent ==
    /\ m.pend => m.foff # "" /\ ~m.chg
    /\ m.ffired => m.foff # "" /\ ~m.chg
    /\ m.foff # "" => ~perm

\* The policy is well-formed and coherent.
PolicyCoherent == TypeOK /\ FullOffCoherent

\* A charge that has reached its limit and still draws current is ended by it,
\* unless the limit is withdrawn: the off survives a full queue, unconfirmed commands and lost links.
LimitEnforced ==
    (m.chg /\ m.lim # "" /\ m.full /\ ~perm) ~> (~m.chg \/ m.lim = "" \/ perm \/ ps # "busy")

\* An off for a full device is confirmed, revoked or given up, never kept forever.
FullOffSettles == m.pend ~> ~m.pend

\* An off that is due is done, revoked or given up.
OffsSettle == LimitEnforced /\ FullOffSettles

\* A limit is used up by nothing but a charge that really ended with the link up
\* (and then it was for once), or by a request: not by an outage.
SpentOnACharge ==
    [][m.lim # "" /\ m'.lim = "" =>
          \/ m.lim = "once" /\ m.chg /\ ~m'.chg /\ link /\ link'
          \/ req' # req
          \/ m' = Mount(db)]_vars
=============================================================================
