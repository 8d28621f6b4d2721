------------------------------ MODULE EventPush ------------------------------
(***************************************************************************)
(* What browsers and pollers are told of the chargers' state: ChargerState   *)
(* (state.py), the emission of events (ble_manager.py), SSEEmitter, the      *)
(* handlers of /api/events and /api/status and the status cache              *)
(* (ha_server.py).                                                           *)
(*                                                                          *)
(* The state of a device is the version of its connection and of its port    *)
(* readings.  A change, the invalidation of the cache and the emission of     *)
(* the event are one step: the code awaits an uncontended lock and nothing    *)
(* else between them.  Each write to a browser's socket is an await.          *)
(***************************************************************************)
EXTENDS Naturals, Sequences, FiniteSets, SequencesExt, FiniteSetsExt

CONSTANTS
    Browsers, Pollers,
    Registry,        \* the devices in the order of the registry
    MAX_QUEUE_SIZE,  \* events a browser may fall behind
    MaxChanges,      \* bound: changes of the state
    Nothing

Devices == ToSet(Registry)
Primary == Registry[1]

ASSUME PushAssumption ==
    /\ Registry \in Seq(Devices) /\ IsInjective(Registry) /\ Registry # <<>>
    /\ {MAX_QUEUE_SIZE, MaxChanges} \subseteq Nat \ {0}
    /\ Nothing \notin Devices \cup Browsers \cup Pollers

VARIABLES
    state,    \* the version of each device's [conn, port]
    body,     \* _status_cache_map: the version of the cached answer, or Nothing
    poller,   \* a /api/status request: what it has read, while it serialises it
    stage,    \* of a browser's handler: where it awaits
    next,     \* the position in the registry its flush has reached
    queue,    \* its events
    pending,  \* _pending_status: the latest status per device, 0 if none
    hand,     \* the message being written
    \* history, read by properties only:
    view,     \* what the browser shows of each device
    heard,    \* the latest connection it was ever told
    owed,     \* the devices whose readings the stream owes it: that of the full
              \* state, and those that changed since it came
    dropped,  \* an event was lost to a full queue
    raced     \* the cached answer was overtaken by a change while it was made

serving == <<state, body, poller, raced>>
handlers == <<stage, next, queue, pending, hand>>
shown == <<view, heard, owed, dropped>>
pushVars == <<serving, handlers, shown>>

Version == [conn : Nat, port : Nat]
Event == [kind : {"status", "port"}, dev : Devices, v : Nat]
Blank == [d \in Devices |-> [conn |-> 0, port |-> 0]]

PushTypeOK ==
    /\ state \in [Devices -> Version]
    /\ body \in [Devices -> Version \cup {Nothing}]
    /\ poller \in [Pollers -> [dev : Devices, read : Version] \cup {Nothing}]
    /\ stage \in [Browsers -> {"gone", "added", "init", "flush", "get", "write"}]
    /\ next \in [Browsers -> 1..(Len(Registry) + 1)]
    /\ queue \in [Browsers -> Seq(Event)]
    /\ \A b \in Browsers : Len(queue[b]) <= MAX_QUEUE_SIZE
    /\ pending \in [Browsers -> [Devices -> Nat]]
    /\ DOMAIN hand = Browsers
    /\ \A b \in Browsers : stage[b] = "init" => hand[b] \in [Devices -> Version]
    /\ \A b \in Browsers : stage[b] = "write" => hand[b] \in Event
    /\ view \in [Browsers -> [Devices -> Version]]
    /\ heard \in [Browsers -> [Devices -> Nat]] /\ owed \in [Browsers -> SUBSET Devices]
    /\ dropped \in [Browsers -> BOOLEAN]
    /\ raced \in [Devices -> BOOLEAN]
    \* Nobody is remembered who has left: remove_client leaves no bucket behind.
    /\ \A b \in Browsers : stage[b] = "gone" =>
          pending[b] = [d \in Devices |-> 0] /\ queue[b] = <<>>

PushInit ==
    /\ state = Blank
    /\ body = [d \in Devices |-> Nothing]
    /\ poller = [p \in Pollers |-> Nothing]
    /\ stage = [b \in Browsers |-> "gone"]
    /\ next = [b \in Browsers |-> 1]
    /\ queue = [b \in Browsers |-> <<>>]
    /\ pending = [b \in Browsers |-> [d \in Devices |-> 0]]
    /\ hand = [b \in Browsers |-> Nothing]
    /\ view = [b \in Browsers |-> Blank] /\ heard = [b \in Browsers |-> [d \in Devices |-> 0]]
    /\ owed = [b \in Browsers |-> {}]
    /\ dropped = [b \in Browsers |-> FALSE] /\ raced = [d \in Devices |-> FALSE]

-----------------------------------------------------------------------------
(* SSEEmitter.                                                               *)

\* Mutant: enrolled only when the full state has been written.
LateClients == {b \in Browsers : stage[b] \notin {"gone", "added", "init"}}

Clients == {b \in Browsers : stage[b] # "gone"}

\* Mutant: a full queue refuses the event.
PutOrRefuse(q, events) ==
    LET all == q \o events
    IN  IF Len(all) <= MAX_QUEUE_SIZE THEN all ELSE SubSeq(all, 1, MAX_QUEUE_SIZE)

\* _put_or_drop, for several events: a full queue loses its oldest.
PutOrDrop(q, events) ==
    LET all == q \o events
    IN  IF Len(all) <= MAX_QUEUE_SIZE THEN all
        ELSE SubSeq(all, Len(all) - MAX_QUEUE_SIZE + 1, Len(all))

\* A status replaces the pending one and wakes nobody.
EmitStatus(d, v) ==
    /\ pending' = [b \in Browsers |-> IF b \in Clients THEN [pending[b] EXCEPT ![d] = v]
                                      ELSE pending[b]]
    /\ UNCHANGED <<queue, dropped>>

\* Any other event takes the pending status of its device into the queue before it.
EmitPort(d, v) ==
    LET Batch(b) == (IF pending[b][d] = 0 THEN <<>>
                     ELSE << [kind |-> "status", dev |-> d, v |-> pending[b][d]] >>)
                    \o << [kind |-> "port", dev |-> d, v |-> v] >>
    IN  /\ queue' = [b \in Browsers |-> IF b \in Clients THEN PutOrDrop(queue[b], Batch(b))
                                        ELSE queue[b]]
        /\ dropped' = [b \in Browsers |-> 
                          \/ dropped[b]
                          \/ b \in Clients /\ Len(queue[b]) + Len(Batch(b)) > MAX_QUEUE_SIZE]
        /\ pending' = [b \in Browsers |-> IF b \in Clients THEN [pending[b] EXCEPT ![d] = 0]
                                          ELSE pending[b]]

-----------------------------------------------------------------------------
(* The devices.                                                              *)

Changes == MapThenSumSet(LAMBDA d : state[d].conn + state[d].port, Devices)

\* Mutant: every manager was given the primary's.
InvalidatePrimary(d) ==
    body' = [body EXCEPT ![Primary] = Nothing] /\ raced' = [raced EXCEPT ![Primary] = FALSE]

\* invalidate_status_cache, as registered with the manager of d.
Invalidate(d) == body' = [body EXCEPT ![d] = Nothing] /\ raced' = [raced EXCEPT ![d] = FALSE]

\* The setters of ChargerState: under its lock, the cached dictionary with the value.
Update(d, part) == state' = [state EXCEPT ![d][part] = @ + 1]

\* A link comes up or goes down.
ConnChange(d) ==
    /\ Changes < MaxChanges
    /\ Update(d, "conn")
    /\ Invalidate(d) /\ EmitStatus(d, state'[d].conn)
    /\ UNCHANGED <<poller, stage, next, hand, view, heard, owed>>

\* A reading of a port that differs from the last one.
PortChange(d) ==
    /\ Changes < MaxChanges
    /\ Update(d, "port")
    /\ Invalidate(d) /\ EmitPort(d, state'[d].port)
    /\ owed' = [b \in Browsers |-> IF stage[b] = "gone" THEN owed[b] ELSE owed[b] \cup {d}]
    /\ UNCHANGED <<poller, stage, next, hand, view, heard>>

-----------------------------------------------------------------------------
(* GET /api/events.                                                          *)

\* A page opens the stream, or EventSource opens it again: what the page still shows
\* from before is left out.
Open(b) ==
    /\ stage[b] = "gone"
    /\ stage' = [stage EXCEPT ![b] = "added"]
    /\ UNCHANGED <<serving, next, queue, pending, hand, shown>>

\* The state of the device the request is about (the pages name none: the primary),
\* and `connected` of the others (describe).
FullState == [d \in Devices |-> [state[d] EXCEPT !.port = IF d = Primary THEN @ ELSE 0]]

\* It is read when the client is already being told of changes.
ReadState(b) ==
    /\ stage[b] = "added"
    /\ stage' = [stage EXCEPT ![b] = "init"]
    /\ hand' = [hand EXCEPT ![b] = FullState]
    /\ owed' = [owed EXCEPT ![b] = @ \cup {Primary}]
    /\ UNCHANGED <<serving, next, queue, pending, view, heard, dropped>>

WriteInit(b) ==
    /\ stage[b] = "init"
    /\ view' = [view EXCEPT ![b] = hand[b]]
    /\ heard' = [heard EXCEPT ![b] = [d \in Devices |-> Max({@[d], hand[b][d].conn})]]
    /\ stage' = [stage EXCEPT ![b] = "flush"] /\ next' = [next EXCEPT ![b] = 1]
    /\ hand' = [hand EXCEPT ![b] = Nothing]
    /\ UNCHANGED <<serving, queue, pending, owed, dropped>>

\* The pending status of the next device that has one, else on to the queue.
Flush(b) ==
    LET due == {i \in next[b]..Len(Registry) : pending[b][Registry[i]] # 0}
    IN  /\ stage[b] = "flush"
        /\ IF due = {}
           THEN /\ stage' = [stage EXCEPT ![b] = "get"]
                /\ UNCHANGED <<next, pending, hand>>
           ELSE LET d == Registry[Min(due)]
                IN  /\ hand' = [hand EXCEPT ![b] =
                          [kind |-> "status", dev |-> d, v |-> pending[b][d]]]
                    /\ pending' = [pending EXCEPT ![b][d] = 0]
                    /\ next' = [next EXCEPT ![b] = Min(due) + 1]
                    /\ stage' = [stage EXCEPT ![b] = "write"]
        /\ UNCHANGED <<serving, queue, shown>>

\* An event, after which the loop starts over.
Get(b) ==
    /\ stage[b] = "get" /\ queue[b] # <<>>
    /\ hand' = [hand EXCEPT ![b] = Head(queue[b])]
    /\ queue' = [queue EXCEPT ![b] = Tail(@)]
    /\ stage' = [stage EXCEPT ![b] = "write"] /\ next' = [next EXCEPT ![b] = 1]
    /\ UNCHANGED <<serving, pending, shown>>

\* Mutant: the keepalive goes on waiting for an event.
KeepaliveWaits(b) == stage[b] = "keepalive" /\ UNCHANGED pushVars

\* 15 s without an event: a keepalive, and the loop starts over.
Keepalive(b) ==
    /\ stage[b] = "get" /\ queue[b] = <<>>
    /\ stage' = [stage EXCEPT ![b] = "flush"] /\ next' = [next EXCEPT ![b] = 1]
    /\ UNCHANGED <<serving, queue, pending, hand, shown>>

\* The browser has the message.
Written(b) ==
    LET e == hand[b]
    IN  /\ stage[b] = "write"
        /\ IF e.kind = "status"
           THEN /\ view' = [view EXCEPT ![b][e.dev].conn = e.v]
                /\ heard' = [heard EXCEPT ![b][e.dev] = Max({@, e.v})]
           ELSE view' = [view EXCEPT ![b][e.dev].port = e.v] /\ UNCHANGED heard
        /\ hand' = [hand EXCEPT ![b] = Nothing]
        /\ stage' = [stage EXCEPT ![b] = "flush"]
        /\ UNCHANGED <<serving, next, queue, pending, owed, dropped>>

\* Mutant: only the bucket of the primary is removed.
LeaveBuckets(b) ==
    /\ stage[b] # "gone"
    /\ stage' = [stage EXCEPT ![b] = "gone"]
    /\ next' = [next EXCEPT ![b] = 1] /\ hand' = [hand EXCEPT ![b] = Nothing]
    /\ queue' = [queue EXCEPT ![b] = <<>>]
    /\ pending' = [pending EXCEPT ![b][Primary] = 0]
    /\ view' = [view EXCEPT ![b] = Blank] /\ heard' = [heard EXCEPT ![b] = [d \in Devices |-> 0]]
    /\ owed' = [owed EXCEPT ![b] = {}] /\ dropped' = [dropped EXCEPT ![b] = FALSE]
    /\ UNCHANGED serving

\* The connection breaks, or the page is closed.
Leave(b) ==
    /\ stage[b] # "gone"
    /\ stage' = [stage EXCEPT ![b] = "gone"]
    /\ next' = [next EXCEPT ![b] = 1] /\ hand' = [hand EXCEPT ![b] = Nothing]
    /\ queue' = [queue EXCEPT ![b] = <<>>]
    /\ pending' = [pending EXCEPT ![b] = [d \in Devices |-> 0]]
    /\ view' = [view EXCEPT ![b] = Blank] /\ heard' = [heard EXCEPT ![b] = [d \in Devices |-> 0]]
    /\ owed' = [owed EXCEPT ![b] = {}] /\ dropped' = [dropped EXCEPT ![b] = FALSE]
    /\ UNCHANGED serving

-----------------------------------------------------------------------------
(* GET /api/status.                                                          *)

\* Not in the cache: the state is copied, and serialised in a thread.
ReadStatus(p, d) ==
    /\ body[d] = Nothing /\ poller[p] = Nothing
    /\ poller' = [poller EXCEPT ![p] = [dev |-> d, read |-> state[d]]]
    /\ UNCHANGED <<state, body, raced, handlers, shown>>

\* The answer is cached as it is, whatever was invalidated meanwhile.
StoreStatus(p) ==
    LET d == poller[p].dev
    IN  /\ poller[p] # Nothing
        /\ body' = [body EXCEPT ![d] = poller[p].read]
        /\ raced' = [raced EXCEPT ![d] = poller[p].read # state[d]]
        /\ poller' = [poller EXCEPT ![p] = Nothing]
        /\ UNCHANGED <<state, handlers, shown>>

-----------------------------------------------------------------------------
Handler(b) == ReadState(b) \/ WriteInit(b) \/ Flush(b) \/ Get(b) \/ Keepalive(b) \/ Written(b)

PushNext ==
    \/ \E d \in Devices : ConnChange(d) \/ PortChange(d)
    \/ \E b \in Browsers : Open(b) \/ Handler(b) \/ Leave(b)
    \/ \E p \in Pollers, d \in Devices : ReadStatus(p, d)
    \/ \E p \in Pollers : StoreStatus(p)

PushSpec == PushInit /\ [][PushNext]_pushVars
\* A handler whose browser reads goes on, and wait_for times out when nothing comes.
FairPushSpec == PushSpec /\ \A b \in Browsers : WF_pushVars(Handler(b))

-----------------------------------------------------------------------------
(* Properties.                                                               *)

Stays(b) == <>[](stage[b] # "gone")

\* A page that stays open ends up with the port readings of the primary, and of every
\* other device that changed since it came, although the full state is read after it
\* was enrolled and older events reach it later, unless it fell so far behind that
\* events were dropped (handle_sse, emit).
PortsCatchUp ==
    \A b \in Browsers, d \in Devices :
       Stays(b) => <>[](d \in owed[b] => view[b][d].port = state[d].port \/ dropped[b])

\* A page that stays open is told every device's last connection state, although a
\* status wakes no handler (emit, flush_status, the keepalive).
StatusArrives ==
    \A b \in Browsers, d \in Devices :
       Stays(b) => <>[](heard[b][d] = state[d].conn \/ dropped[b])

\* A page that stays open loses no change that happens in its time for good.
EventsArrive == PortsCatchUp /\ StatusArrives

\* The reading queued last survives a full queue: it is the oldest that is dropped.
NewestKept ==
    \A b \in Browsers :
       dropped[b] /\ queue[b] # <<>> =>
          \E d \in Devices : Last(queue[b]) = [kind |-> "port", dev |-> d, v |-> state[d].port]

\* A cached answer is only ever out of date because a change overtook the request
\* that made it; in particular every device's changes reach its own cache.
OnlyRacesAreStale == \A d \in Devices : body[d] \in {Nothing, state[d]} \/ raced[d]

\* Queues and cache are well-formed and lose or age nothing they need not.
BuffersHold == PushTypeOK /\ NewestKept /\ OnlyRacesAreStale
=============================================================================
