----------------------------- MODULE PortControl -----------------------------
(***************************************************************************)
(* The commands of one charger: the queue of BLEManager, its port and        *)
(* setting handlers and the settings refresh (ble_manager.py), with the      *)
(* callers of ha_server.py: HTTP handlers that wait for an answer, MQTT and  *)
(* Bemfa orders that do not.                                                 *)
(*                                                                          *)
(* Two registers of the charger are followed: the port mask (PIID 16), read, *)
(* changed and written by the handler, and the protocol switches (PIID 21),  *)
(* changed by the HTTP handler from the cached value and written as a whole. *)
(* The charger (external) executes requests in the order sent; one is lost   *)
(* or answered late at the cost of a fault.  The sessions an off closes are  *)
(* ChargeSession's.                                                          *)
(*                                                                          *)
(* Bounds: one call per caller, Orders without a caller, Outside changes     *)
(* made by the charger itself, Faults, QMAX commands queued (500).           *)
(***************************************************************************)
EXTENDS Naturals, Sequences, FiniteSets

CONSTANTS Ports, Switches, Callers, Nobody, QMAX, Orders, Outside, Faults

ASSUME PortControlAssumption ==
    /\ Nobody \notin Callers /\ Ports \cap Switches = {}
    /\ QMAX \in Nat \ {0} /\ Orders \in Nat /\ Outside \in Nat /\ Faults \in Nat

VARIABLES
    link,     \* "down", or "up": authenticated, commands are accepted
    pc,       \* what the manager's coroutine waits for
    cmd,      \* the command it handles
    new,      \* the value it writes; in a refresh, the mask it is about to know
    got,      \* the refresh has read the mask
    queue,    \* cmd_queue
    putting,  \* commands of callers that wait for a free place
    call,     \* what became of each call
    dev,      \* the charger's registers
    jobs,     \* requests under way to the charger
    air,      \* answers under way to the app
    cache,    \* state.settings: the registers as last known
    refresh,  \* _settings_refresh_now
    last,     \* _last_port_ctl: the mask at the last refresh, and whether there is one
    told,     \* ports the front ends were last told are enabled
    left,     \* what the bounds leave: orders, outside changes, faults
    \* history, read by properties only:
    met,      \* the command under way was true of the charger since it was taken
    misled,   \* ... was answered by an older request's answer, or contradicted
    touched,  \* ports that changed without the app having learnt it
    flipped   \* ports told of by a command, and not correctly by a refresh since

vars == <<link, pc, cmd, new, got, queue, putting, call, dev, jobs, air, cache, refresh,
          last, told, left, met, misled, touched, flipped>>
history == <<met, misled, touched, flipped>>

Regs == {"mask", "proto"}
Values(reg) == SUBSET (IF reg = "mask" THEN Ports ELSE Switches)
Cmds == [names : SUBSET Ports, on : BOOLEAN, reg : {"mask"}, val : {{}}, who : Callers \cup {Nobody}]
        \cup [names : {{s} : s \in Switches}, on : BOOLEAN, reg : {"proto"}, val : SUBSET Switches, who : Callers]
NoCmd == [names |-> {}, on |-> FALSE, reg |-> "mask", val |-> {}, who |-> Nobody]
Messages == UNION {[op : {"get", "set", "echo"}, reg : {reg}, val : Values(reg),
                    names : SUBSET (Ports \cup Switches), old : BOOLEAN] : reg \in Regs}

TypeOK ==
    /\ link \in {"up", "down"}
    /\ pc \in {"off", "idle", "read", "write", "fetch16", "fetch21", "boot16", "boot21"}
    /\ cmd \in Cmds /\ new \in SUBSET (Ports \cup Switches) /\ got \in BOOLEAN
    /\ queue \in Seq(Cmds) /\ Len(queue) <= QMAX /\ putting \subseteq Cmds
    /\ call \in [Callers -> {"free", "putting", "waiting", "ok", "error", "timeout"}]
    /\ dev \in [mask : SUBSET Ports, proto : SUBSET Switches]
    /\ jobs \in Seq(Messages) /\ air \in Seq(Messages)
    /\ cache \in [mask : SUBSET Ports, proto : SUBSET Switches, known : BOOLEAN]
    /\ refresh \in BOOLEAN /\ last \in [mask : SUBSET Ports, known : BOOLEAN]
    /\ told \subseteq Ports
    /\ left \in [orders : 0..Orders, outside : 0..Outside, faults : 0..Faults]
    /\ met \in BOOLEAN /\ misled \in BOOLEAN /\ touched \subseteq Ports /\ flipped \subseteq Ports

Init ==
    /\ link = "down" /\ pc = "off" /\ cmd = NoCmd /\ new = {} /\ got = FALSE
    /\ queue = <<>> /\ putting = {} /\ call = [c \in Callers |-> "free"]
    /\ dev \in [mask : {Ports}, proto : {Switches}]
    /\ jobs = <<>> /\ air = <<>>
    /\ cache = [mask |-> Ports, proto |-> {}, known |-> FALSE]
    /\ refresh = FALSE /\ last = [mask |-> Ports, known |-> FALSE] /\ told = Ports
    /\ left = [orders |-> Orders, outside |-> Outside, faults |-> Faults]
    /\ met = FALSE /\ misled = FALSE /\ touched = {} /\ flipped = {}

Fault == left.faults > 0 /\ left' = [left EXCEPT !.faults = @ - 1]
Differ(mask) == {p \in Ports : (p \in mask) # (p \in dev.mask)}

-----------------------------------------------------------------------------
(* Callers. *)

\* Mutant: one command more than the queue holds.
EnqueueOver(c) ==
    IF Len(queue) <= QMAX
    THEN queue' = Append(queue, c) /\ putting' = putting /\ call' = [call EXCEPT ![c.who] = "waiting"]
    ELSE queue' = queue /\ putting' = putting \cup {c} /\ call' = [call EXCEPT ![c.who] = "putting"]

Enqueue(c) ==
    IF Len(queue) < QMAX
    THEN queue' = Append(queue, c) /\ putting' = putting /\ call' = [call EXCEPT ![c.who] = "waiting"]
    ELSE queue' = queue /\ putting' = putting \cup {c} /\ call' = [call EXCEPT ![c.who] = "putting"]

Callee == UNCHANGED <<link, pc, cmd, new, got, dev, jobs, air, cache, refresh, last, told, left, history>>

SendCommand(c) ==
    /\ call[c.who] = "free" /\ Callee
    /\ IF link = "up" THEN Enqueue(c)
       ELSE call' = [call EXCEPT ![c.who] = "error"] /\ UNCHANGED <<queue, putting>>

PortOrder(names, on, who) ==
    [names |-> names, on |-> on, reg |-> "mask", val |-> {}, who |-> who]
OrderedPorts == {{p} : p \in Ports} \cup {Ports}

HandlePort(who) == \E names \in OrderedPorts, on \in BOOLEAN : SendCommand(PortOrder(names, on, who))

\* The new value is computed now, under the state lock, from the cached one;
\* the lock is released before the command is sent.
HandleProtocol(who) ==
    \E s \in Switches, on \in BOOLEAN :
       SendCommand([names |-> {s}, on |-> on, reg |-> "proto", who |-> who,
                    val |-> IF on THEN cache.proto \cup {s} ELSE cache.proto \ {s}])

\* MQTT and Bemfa, link or no link: on a full queue the order is lost.
QueueOrder ==
    /\ left.orders > 0 /\ left' = [left EXCEPT !.orders = @ - 1]
    /\ \E names \in OrderedPorts, on \in BOOLEAN :
          queue' = IF Len(queue) < QMAX THEN Append(queue, PortOrder(names, on, Nobody)) ELSE queue
    /\ UNCHANGED <<link, pc, cmd, new, got, putting, call, dev, jobs, air, cache, refresh, last,
                   told, history>>

PutterResumes ==
    /\ Len(queue) < QMAX
    /\ \E c \in putting : /\ queue' = Append(queue, c) /\ putting' = putting \ {c}
                          /\ call' = [call EXCEPT ![c.who] = "waiting"]
    /\ Callee

\* The caller is told; its command stays where it is.
CallTimesOut(who) ==
    /\ call[who] = "waiting" /\ call' = [call EXCEPT ![who] = "timeout"]
    /\ Callee /\ UNCHANGED <<queue, putting>>

-----------------------------------------------------------------------------
(* Requests and answers (send_miot_command). *)

\* What was received before is thrown away.
Send(op, reg, val, names) ==
    /\ jobs' = Append([i \in 1..Len(jobs) |-> [jobs[i] EXCEPT !.old = TRUE]],
                      [op |-> op, reg |-> reg, val |-> val, names |-> names, old |-> FALSE])
    /\ air' = <<>>

\* The next frame, if it answers the window that is open.
Received(ops, reg) == {a \in {Head(air) : i \in DOMAIN air} : a.op \in ops /\ a.reg = reg}

\* None: nothing is coming, or it is late.
Silent ==
    /\ air = <<>>
    /\ IF jobs = <<>> THEN left' = left ELSE Fault

\* The mask becomes the known one.
Learn(mask, old) ==
    touched' = IF old THEN touched \cup Differ(mask) ELSE touched \cap Differ(mask)

\* It was read, and is not known yet.
Trust(mask, old) == touched' = IF old THEN touched \cup Differ(mask) ELSE touched
OrderOnItsWay == \E i \in DOMAIN jobs : jobs[i].op = "set" /\ jobs[i].reg = "mask"

-----------------------------------------------------------------------------
(* The manager (_process_commands and its handlers). *)

Settle(who, verdict) ==
    call' = IF who \in Callers /\ call[who] = "waiting" THEN [call EXCEPT ![who] = verdict] ELSE call

Finish(verdict) ==
    /\ pc' = "idle" /\ cmd' = NoCmd /\ new' = {} /\ Settle(cmd.who, verdict)

Wanted(c, base) == IF c.reg = "proto" THEN c.val
                   ELSE IF c.on THEN base \cup c.names ELSE base \ c.names

WriteNow(c, base) ==
    /\ pc' = "write" /\ new' = Wanted(c, base) /\ Send("set", c.reg, Wanted(c, base), c.names)

Meets(c, d) == IF c.reg = "proto" THEN d.proto = c.val
               ELSE IF c.on THEN c.names \subseteq d.mask ELSE c.names \cap d.mask = {}

\* A single port needs the mask read first; "all" and a setting do not.
TakeCommand ==
    /\ link = "up" /\ pc = "idle" /\ queue # <<>>
    /\ LET c == Head(queue) IN
       /\ queue' = Tail(queue) /\ cmd' = c /\ met' = Meets(c, dev) /\ misled' = FALSE
       /\ IF c.reg = "mask" /\ c.names # Ports
          THEN pc' = "read" /\ new' = new /\ Send("get", "mask", {}, {})
          ELSE WriteNow(c, {})
    /\ UNCHANGED <<got, link, putting, call, dev, cache, refresh, last, told, left, touched, flipped>>

\* The charger's own mask is trusted: nothing is written if it is already right.
ReadMask ==
    /\ pc = "read"
    /\ \E a \in Received({"get"}, "mask") :
         /\ misled' = (misled \/ a.old)
         /\ Trust(a.val, a.old)
         /\ IF Wanted(cmd, a.val) = a.val
            THEN Finish("ok") /\ air' = Tail(air) /\ UNCHANGED jobs
            ELSE WriteNow(cmd, a.val) /\ UNCHANGED <<cmd, call>>
    /\ UNCHANGED <<got, link, queue, putting, dev, cache, refresh, last, told, left, met, flipped>>

\* Mutant: an unread mask counts as 0.
ReadSilentZero ==
    /\ pc = "read" /\ Silent /\ WriteNow(cmd, {}) /\ UNCHANGED <<cmd, call>>
    /\ UNCHANGED <<got, link, queue, putting, dev, cache, refresh, last, told, history>>

\* No answer: the cached mask, written in any case; without one, an error.
ReadSilent ==
    /\ pc = "read" /\ Silent
    /\ IF cache.known THEN WriteNow(cmd, cache.mask) /\ UNCHANGED <<cmd, call>>
                      ELSE Finish("error") /\ UNCHANGED <<jobs, air>>
    /\ UNCHANGED <<got, link, queue, putting, dev, cache, refresh, last, told, history>>

\* An acknowledged value, or the one the charger reports, becomes the known
\* one; the ports ordered are told of.
WriteConfirmed ==
    /\ pc = "write"
    /\ \E a \in Received({"set", "echo"}, cmd.reg) :
         /\ LET known == IF a.op = "echo" /\ cmd.reg = "mask" THEN a.val ELSE new IN
            /\ IF cmd.reg = "mask"
               THEN /\ cache' = [cache EXCEPT !.mask = known, !.known = TRUE]
                    /\ told' = (told \ cmd.names) \cup (known \cap cmd.names)
                    /\ Learn(known, a.old) /\ flipped' = flipped \cup cmd.names
               ELSE cache' = [cache EXCEPT !.proto = known] /\ UNCHANGED <<told, touched, flipped>>
            /\ misled' = (misled \/ a.old \/ known # new)
    /\ Finish("ok") /\ air' = Tail(air)
    /\ UNCHANGED <<got, link, queue, putting, dev, jobs, refresh, last, left, met>>

\* Mutant: no answer counts as success.
WriteAssumed ==
    /\ pc = "write" /\ Silent /\ Finish("ok")
    /\ cache' = IF cmd.reg = "mask" THEN [cache EXCEPT !.mask = new] ELSE [cache EXCEPT !.proto = new]
    /\ UNCHANGED <<got, link, queue, putting, dev, jobs, air, refresh, last, told, history>>

\* No answer: nothing is believed, the settings are read again soon.
WriteSilent ==
    /\ pc = "write" /\ Silent /\ Finish("error")
    /\ refresh' = (refresh \/ cmd.reg = "mask")
    /\ UNCHANGED <<got, link, queue, putting, dev, jobs, air, cache, last, told, history>>

\* The transport raises inside a handler: its command fails, the link stays.
HandlerRaises ==
    /\ pc \in {"read", "write"} /\ Fault /\ Finish("error")
    /\ UNCHANGED <<got, link, queue, putting, dev, jobs, air, cache, refresh, last, told, history>>

\* Frames that no window asked for (the idle loop knows no answers to GET or SET).
DropAnswer ==
    /\ air # <<>> /\ air' = Tail(air)
    /\ LET a == Head(air) IN
       \/ pc = "idle"
       \/ pc \in {"read", "fetch16", "boot16"} /\ (a.op # "get" \/ a.reg # "mask")
       \/ pc \in {"fetch21", "boot21"} /\ (a.op # "get" \/ a.reg # "proto")
       \/ pc = "write" /\ (a.op = "get" \/ a.reg # cmd.reg)
    /\ UNCHANGED <<link, pc, cmd, new, got, queue, putting, call, dev, jobs, cache, refresh, last,
                   told, left, history>>

-----------------------------------------------------------------------------
(* Settings (_fetch_settings). *)

\* Mutant: the settings are read again only when asked for.
RefreshAsked ==
    \/ /\ link = "up" /\ pc = "idle" /\ air = <<>> /\ refresh
       /\ pc' = "fetch16" /\ refresh' = FALSE /\ Send("get", "mask", {}, {})
       /\ new' = cache.mask /\ got' = FALSE
       /\ UNCHANGED <<link, cmd, queue, putting, call, dev, cache, last, told, left, history>>
    \/ link = "up" /\ pc = "idle" /\ UNCHANGED vars

\* After two quiet seconds, when it is due or asked for.
RefreshSettings ==
    /\ link = "up" /\ pc = "idle" /\ air = <<>>
    /\ pc' = "fetch16" /\ refresh' = FALSE /\ Send("get", "mask", {}, {})
    /\ new' = cache.mask /\ got' = FALSE
    /\ UNCHANGED <<link, cmd, queue, putting, call, dev, cache, last, told, left, history>>

FetchMask ==
    /\ pc \in {"fetch16", "boot16"} /\ pc' = IF pc = "boot16" THEN "boot21" ELSE "fetch21"
    /\ \/ /\ \E a \in Received({"get"}, "mask") : new' = a.val /\ Trust(a.val, a.old)
          /\ got' = TRUE /\ left' = left
       \/ Silent /\ UNCHANGED <<new, got, touched>>
    /\ Send("get", "proto", {}, {})
    /\ UNCHANGED <<link, cmd, queue, putting, call, dev, cache, refresh, last, told, met,
                   misled, flipped>>

\* Mutant: only closed ports are announced.
EmitClosed(mask) == told \ (last.mask \ mask)

\* Ports whose bit differs from the last refresh are told of.
EmitChanges(mask) ==
    {p \in Ports : IF (p \in mask) = (p \in last.mask) \/ ~last.known THEN p \in told ELSE p \in mask}

\* While booting a full status follows.
FetchProtocol ==
    /\ pc \in {"fetch21", "boot21"} /\ pc' = "idle" /\ new' = {} /\ got' = FALSE
    /\ \E proto \in SUBSET Switches :
         /\ \/ \E a \in Received({"get"}, "proto") : a.val = proto /\ air' = Tail(air) /\ left' = left
            \/ Silent /\ proto = cache.proto /\ air' = air
         /\ cache' = [mask |-> new, proto |-> proto, known |-> cache.known \/ got]
    /\ told' = IF pc = "boot21" THEN new ELSE EmitChanges(new)
    /\ last' = [mask |-> new, known |-> TRUE]
    /\ flipped' = {p \in flipped : (p \in told') # (p \in new)}
    /\ touched' = IF got /\ ~OrderOnItsWay THEN touched \cap Differ(new) ELSE touched
    /\ UNCHANGED <<link, cmd, queue, putting, call, dev, jobs, refresh, met, misled>>

-----------------------------------------------------------------------------
(* The link and the device's rebuild. *)

\* `settled`: the transport raised inside the handler; otherwise its task was
\* cancelled and the caller is left to its timeout.  The queue stays.
LinkLost ==
    /\ link = "up" /\ Fault /\ link' = "down" /\ pc' = "off" /\ cmd' = NoCmd /\ new' = {} /\ got' = FALSE
    /\ call' = call \/ (pc \in {"read", "write"} /\ Settle(cmd.who, "error"))
    /\ jobs' = <<>> /\ air' = <<>>
    /\ UNCHANGED <<queue, putting, dev, cache, refresh, last, told, history>>

\* Commands are accepted as soon as the login is through, before the settings
\* have been read.
Connect ==
    /\ link = "down" /\ link' = "up" /\ pc' = "boot16" /\ new' = cache.mask /\ got' = FALSE
    /\ Send("get", "mask", {}, {})
    /\ UNCHANGED <<cmd, queue, putting, call, dev, cache, refresh, last, told, left, history>>

\* Mutant: the old queue is not emptied, its putters wait on.
RebuildUndrained ==
    /\ link = "down" /\ call' = call
    /\ queue' = <<>> /\ putting' = {} /\ refresh' = FALSE /\ last' = [last EXCEPT !.known = FALSE]
    /\ UNCHANGED <<link, pc, cmd, new, got, dev, jobs, air, cache, told, left, history>>

\* _rebuild_device_resources: what is queued fails, a new manager with a queue
\* of its own; a caller that waited for a place is left to its timeout.
Rebuild ==
    /\ link = "down"
    /\ call' = [c \in Callers |->
          IF call[c] = "waiting" /\ \E i \in 1..Len(queue) : queue[i].who = c THEN "error"
          ELSE IF call[c] = "putting" THEN "waiting" ELSE call[c]]
    /\ queue' = <<>> /\ putting' = {} /\ refresh' = FALSE /\ last' = [last EXCEPT !.known = FALSE]
    /\ UNCHANGED <<link, pc, cmd, new, got, dev, jobs, air, cache, told, left, history>>

-----------------------------------------------------------------------------
(* The charger (external). *)

App == UNCHANGED <<link, pc, cmd, new, got, queue, putting, call, cache, refresh, last, told, misled, flipped>>

Answer(j) == [j EXCEPT !.val = IF j.reg = "mask" THEN dev.mask ELSE dev.proto]

ChargerReads ==
    /\ jobs # <<>> /\ Head(jobs).op = "get" /\ jobs' = Tail(jobs)
    /\ \/ air' = Append(air, Answer(Head(jobs))) /\ left' = left
       \/ air' = air /\ Fault
    /\ App /\ UNCHANGED <<dev, met, touched>>

\* It writes and acknowledges, with or without the value, or does not answer;
\* or it keeps its mask and says so.
ChargerWrites ==
    /\ jobs # <<>> /\ Head(jobs).op = "set" /\ jobs' = Tail(jobs)
    /\ LET j == Head(jobs) IN
       \/ /\ dev' = IF j.reg = "mask" THEN [dev EXCEPT !.mask = j.val] ELSE [dev EXCEPT !.proto = j.val]
          /\ touched' = touched \cup IF j.reg = "mask" THEN Differ(j.val) ELSE {}
          /\ \/ \E op \in {"set", "echo"} : air' = Append(air, [j EXCEPT !.op = op]) /\ left' = left
             \/ air' = air /\ Fault
       \/ /\ j.reg = "mask" /\ Fault /\ UNCHANGED <<dev, touched>>
          /\ air' = Append(air, [j EXCEPT !.op = "echo", !.val = dev.mask])
    /\ met' = (met \/ Meets(cmd, dev'))
    /\ App

RequestLost ==
    /\ jobs # <<>> /\ Fault /\ jobs' = Tail(jobs)
    /\ App /\ UNCHANGED <<dev, air, met, touched>>

\* A countdown closes a port, the Mi Home app opens one.
ChargerChanges ==
    /\ left.outside > 0 /\ left' = [left EXCEPT !.outside = @ - 1]
    /\ \E p \in Ports, mask \in SUBSET Ports :
         /\ mask \in {dev.mask \cup {p}, dev.mask \ {p}} /\ mask # dev.mask
         /\ dev' = [dev EXCEPT !.mask = mask] /\ touched' = touched \cup {p}
    /\ met' = (met \/ Meets(cmd, dev'))
    /\ App /\ UNCHANGED <<jobs, air>>

Callings == \E who \in Callers : HandlePort(who) \/ HandleProtocol(who) \/ CallTimesOut(who)
Manager == TakeCommand \/ ReadMask \/ ReadSilent \/ WriteConfirmed \/ WriteSilent
           \/ DropAnswer \/ FetchMask \/ FetchProtocol
Charger == ChargerReads \/ ChargerWrites

Next == \/ Callings \/ QueueOrder \/ PutterResumes \/ Manager \/ RefreshSettings
        \/ HandlerRaises \/ LinkLost \/ Connect \/ Rebuild
        \/ Charger \/ RequestLost \/ ChargerChanges

Fairness ==
    /\ WF_vars(Manager) /\ WF_vars(Charger) /\ WF_vars(Connect)
    /\ SF_vars(TakeCommand) /\ SF_vars(PutterResumes) /\ SF_vars(RefreshSettings)
    /\ \A who \in Callers : WF_vars(CallTimesOut(who))

Spec == Init /\ [][Next]_vars
FairSpec == Spec /\ Fairness

-----------------------------------------------------------------------------
(* Properties. *)

\* A command changes a port it does not name only if that port had changed
\* without the app having learnt it (ble_manager.py:2263-2267).
BystandersKept ==
    [][\A p \in Differ(dev'.mask) :
          \/ p \in touched
          \/ left'.outside # left.outside
          \/ p \in Head(jobs).names]_vars

\* A caller is told ok only if the charger did what was ordered, at some moment
\* since the command was taken, unless an older request's answer or a contrary
\* report came in between (ble_manager.py:2271: no false success).
OkWasDone ==
    [][\A c \in Callers : call[c] # "ok" /\ call'[c] = "ok" => met' \/ misled']_vars

\* An order does what it says and nothing else, and the queue keeps to its limit.
OrdersFaithful == []TypeOK /\ BystandersKept /\ OkWasDone

\* After a refresh the front ends know every port's state, but for those a
\* command had told them of (ble_manager.py:2170).
ToldAfterRefresh ==
    [][pc = "fetch21" /\ pc' = "idle" /\ last.known =>
          \A p \in Ports \ flipped' : (p \in told') = (p \in cache'.mask)]_vars

\* Every call comes back.
CallsReturn == \A c \in Callers : call[c] \in {"putting", "waiting"} ~> call[c] \notin {"putting", "waiting"}

\* Whatever went wrong, the known registers become the charger's.
CacheCatchesUp == <>[](cache.mask = dev.mask /\ cache.proto = dev.proto)

\* Who gave an order gets an answer, and the app and its front ends know the charger's
\* registers.
FrontEndsKnow == CallsReturn /\ ToldAfterRefresh /\ CacheCatchesUp

=============================================================================
