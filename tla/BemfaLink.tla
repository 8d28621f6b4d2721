------------------------------- MODULE BemfaLink -------------------------------
(***************************************************************************)
(* The MQTT connection to the Bemfa cloud (BemfaClient) with one switch: the    *)
(* ping cycle that finds a dead connection and replaces it, the state the cloud  *)
(* shows, and the orders spoken to it.                                          *)
(*                                                                          *)
(* The ping cycle is a chain of tasks of the event loop; connecting and closing   *)
(* run in a thread; paho's own thread reconnects a client that exists and runs    *)
(* the callbacks.  ServerLife says when the client is started and when it ends.    *)
(***************************************************************************)
EXTENDS Naturals, Sequences

CONSTANTS
    MaxLost,  \* MAX_PING_LOST
    Budget,   \* bound: changes of the network and the port, orders, logins
    Nothing

ASSUME LinkAssumption == MaxLost \in Nat \ {0} /\ Budget \in Nat /\ Nothing \notin BOOLEAN

VARIABLES
    net,        \* the broker at the cloud can be reached
    client,     \* _client is there
    connected,  \* _connected
    session,    \* of the two ends: "none", "live", "half" (open here, dead there)
    job,        \* in the thread: "no", "closing", "opening"; "off" before the start
    chains,     \* publish jobs that sleep
    recv,       \* _ping_receive_task: "none", "waiting", "over"
    pong,       \* an answer is on its way
    lost,       \* _ping_lost
    active,     \* what the port delivers
    cache,      \* _state_cache
    unsent,     \* a state of the port is to be published
    shown,      \* the state the cloud has
    order,      \* an order the cloud has sent
    commands,   \* of this switch in cmd_queue, the first one next
    grace,      \* within 10 s of the connect
    recent,     \* within 1 s of a command
    left,       \* of the budget
    slipped     \* history: the cloud was left without the state of the port

line == <<net, client, connected, session>>
ping == <<chains, recv, pong, lost>>
switch == <<active, cache, unsent, shown>>
talk == <<order, commands, grace, recent>>
linkVars == <<line, job, ping, switch, talk, left, slipped>>

LinkTypeOK ==
    /\ {net, client, connected, pong, active, unsent, shown, grace, recent, slipped} \subseteq BOOLEAN
    /\ session \in {"none", "live", "half"} /\ job \in {"off", "no", "closing", "opening"}
    /\ chains \in 0..2 /\ recv \in {"none", "waiting", "over"} /\ lost \in 0..MaxLost
    /\ {cache, order} \subseteq BOOLEAN \cup {Nothing} /\ commands \in Seq(BOOLEAN)
    /\ left \in 0..Budget
    \* A client that is connected exists, and the network carries a live session.
    /\ (connected => client) /\ (session = "live" => net /\ client)

LinkInit ==
    /\ net \in BOOLEAN /\ client = FALSE /\ connected = FALSE /\ session = "none"
    /\ job = "off"
    /\ chains = 0 /\ recv = "none" /\ pong = FALSE /\ lost = 0
    /\ active \in BOOLEAN /\ cache = Nothing /\ unsent = active /\ shown \in BOOLEAN
    /\ order = Nothing /\ commands = <<>> /\ grace = FALSE /\ recent = FALSE
    /\ left \in 0..Budget /\ slipped = FALSE

Spend == left > 0 /\ left' = left - 1

-----------------------------------------------------------------------------
(* The network and paho's thread.                                           *)

\* The session is dead at the other end, with what was on its way.  (An outage that the
\* connection outlives is only a delay of what a live one carries.)
NetDown ==
    /\ net /\ Spend
    /\ net' = FALSE /\ session' = IF session = "live" THEN "half" ELSE session
    /\ pong' = FALSE /\ order' = Nothing
    /\ UNCHANGED <<client, connected, job, chains, recv, lost, switch,
                   commands, grace, recent, slipped>>

NetUp ==
    /\ ~net /\ Spend
    /\ net' = TRUE
    /\ UNCHANGED <<client, connected, session, job, ping, switch, talk, slipped>>

\* What the callback publishes for a switch.
FirstState == IF cache = Nothing THEN FALSE ELSE cache

\* _on_connect.
OnConnect ==
    /\ client /\ ~connected /\ net
    /\ connected' = TRUE /\ session' = "live" /\ grace' = TRUE
    /\ shown' = FirstState /\ slipped' = (slipped /\ FirstState # active)
    /\ UNCHANGED <<net, client, job, ping, active, cache, unsent, order, commands,
                   recent, left>>

\* _on_disconnect: the socket reports an error, which a half-open one need not do.
OnDisconnect ==
    /\ connected /\ session = "half"
    /\ connected' = FALSE /\ session' = "none"
    /\ UNCHANGED <<net, client, job, ping, switch, talk, left, slipped>>

-----------------------------------------------------------------------------
(* The ping cycle.                                                          *)

\* _publish_job after its 30 s, which outlast the 20 s of the one before.
Ping ==
    /\ chains > 0 /\ recv # "waiting"
    /\ client /\ connected
    /\ pong' = (session = "live")
    /\ recv' = "waiting"
    /\ UNCHANGED <<line, job, chains, lost, switch, talk, left, slipped>>

\* _on_message on the topic of the ping.
Pong ==
    /\ pong /\ pong' = FALSE
    /\ IF recv = "none" THEN UNCHANGED <<recv, lost>> ELSE recv' = "none" /\ lost' = 0
    /\ UNCHANGED <<line, job, chains, switch, talk, left, slipped>>

\* Mutant: the publish job goes on through the reconnect.
GiveUpKeeps == /\ lost' = 0 /\ recv' = "none" /\ job' = "closing" /\ UNCHANGED chains

\* _reconnect up to the disconnect.  A pong that comes while it waits for the cancelled
\* publish job cancels that wait, which _reconnect takes for the job's end.
GiveUp == /\ lost' = 0 /\ recv' = "none" /\ job' = "closing" /\ chains' = 0

\* Mutant: the count starts again with every ping.
CountReset == lost' = 0 /\ recv' = "over" /\ UNCHANGED <<job, chains>>

\* One more is lost, not yet the last.
Count == lost' = lost + 1 /\ recv' = "over" /\ UNCHANGED <<job, chains>>

\* _receive_job after its 20 s.
Missed ==
    /\ recv = "waiting"
    /\ IF lost + 1 = MaxLost THEN GiveUp ELSE Count
    /\ UNCHANGED <<line, pong, switch, talk, left, slipped>>

\* What _disconnect_mqtt leaves.
Hangs ==
    /\ client' = FALSE /\ connected' = FALSE /\ session' = "none"
    /\ pong' = FALSE /\ order' = Nothing /\ grace' = FALSE

Close ==
    /\ job = "closing" /\ job' = "opening"
    /\ Hangs
    /\ UNCHANGED <<net, chains, recv, lost, switch, commands, recent, left, slipped>>

\* _connect_mqtt, then a new ping cycle.  connect() raises when the network is down,
\* and there is no client then.
Opened ==
    /\ job' = "no" /\ client' = net
    /\ chains' = chains + 1
    /\ UNCHANGED <<net, connected, session, recv, pong, switch, talk, left, slipped>>

\* start(), once the topics are registered.
Open ==
    /\ job = "off" /\ lost' = 0
    /\ Opened

Reopen ==
    /\ job = "opening" /\ UNCHANGED lost
    /\ Opened

\* stop() has its three seconds, then the process ends with every task and thread; the
\* next one takes the port to be off until it has read it.
LinkEnd ==
    /\ Hangs
    /\ job' = "off" /\ chains' = 0 /\ recv' = "none" /\ lost' = 0
    /\ cache' = Nothing /\ unsent' = active /\ commands' = <<>> /\ recent' = FALSE
    /\ UNCHANGED <<net, active, shown, left, slipped>>

-----------------------------------------------------------------------------
(* The switch.                                                              *)

\* Mutant: a state is sent without being kept for the next connect.
SendUncached(on) ==
    IF client /\ connected
    THEN /\ shown' = IF session = "live" THEN on ELSE shown
         /\ slipped' = (on # active \/ (slipped /\ session # "live"))
         /\ UNCHANGED cache
    ELSE slipped' = (slipped \/ FirstState # active) /\ UNCHANGED <<cache, shown>>

\* publish_state: without a connection the state is not even kept.
Send(on) ==
    IF client /\ connected
    THEN /\ cache' = on /\ shown' = IF session = "live" THEN on ELSE shown
         /\ slipped' = (on # active \/ (slipped /\ session # "live"))
    ELSE slipped' = (slipped \/ FirstState # active) /\ UNCHANGED <<cache, shown>>

\* A push or a reading that differs from the one before, or a command that was confirmed.
SendState ==
    /\ unsent /\ unsent' = FALSE
    /\ Send(active)
    /\ UNCHANGED <<line, job, ping, active, talk, left>>

\* _read_initial_settings: at each login every port is reported off.
Login ==
    /\ Spend
    /\ Send(FALSE)
    /\ UNCHANGED <<line, job, ping, active, unsent, talk>>

PortChanges ==
    /\ Spend /\ active' = ~active /\ unsent' = TRUE
    /\ UNCHANGED <<line, job, ping, cache, shown, talk, slipped>>

\* The cloud shows an order at once and sends it to who has subscribed.
Order(on) ==
    /\ order = Nothing /\ Spend
    /\ shown' = on /\ order' = IF session = "live" THEN on ELSE Nothing
    /\ UNCHANGED <<line, job, ping, active, cache, unsent, commands, grace, recent, slipped>>

\* What _on_message does not take for an order: an echo of the connect, of a state it
\* sent itself, of an order just given.
Ignores(on) == grace \/ cache = on \/ recent

\* _on_message.
Take ==
    /\ order # Nothing /\ order' = Nothing
    /\ IF Ignores(order)
       THEN /\ slipped' = (slipped \/ (cache # order /\ order # active))
            /\ UNCHANGED <<cache, commands, recent>>
       ELSE /\ cache' = order /\ commands' = Append(commands, order) /\ recent' = TRUE
            /\ UNCHANGED slipped
    /\ UNCHANGED <<line, job, ping, active, unsent, shown, grace, left>>

\* _handle_port_command: a command that is confirmed is followed by the state of the port,
\* whatever it is; one that is not, by nothing.
Execute ==
    /\ commands # <<>> /\ commands' = Tail(commands)
    /\ \/ active' \in {active, Head(commands)} /\ unsent' = TRUE /\ UNCHANGED slipped
       \/ slipped' = (slipped \/ cache # active) /\ UNCHANGED <<active, unsent>>
    /\ UNCHANGED <<line, job, ping, cache, shown, order, grace, recent, left>>

TimePasses ==
    /\ \/ grace /\ grace' = FALSE /\ UNCHANGED recent
       \/ recent /\ recent' = FALSE /\ UNCHANGED grace
    /\ UNCHANGED <<line, job, ping, switch, order, commands, left, slipped>>

LinkNext ==
    \/ NetDown \/ NetUp \/ OnConnect \/ OnDisconnect
    \/ Ping \/ Pong \/ Missed \/ Close \/ Reopen
    \/ PortChanges \/ Order(TRUE) \/ Order(FALSE) \/ Take \/ TimePasses

\* What the manager of the device does for the client.
DeviceNext == SendState \/ Login \/ Execute

\* Sleeps end, threads finish, paho's thread retries, a message on a live session
\* arrives.  The network need not come back, and nothing makes a half-open socket report
\* itself.  What is fair about DeviceNext, ServerLife says.
LinkFairness ==
    /\ WF_linkVars(OnConnect) /\ WF_linkVars(Ping) /\ WF_linkVars(Pong) /\ WF_linkVars(Missed)
    /\ WF_linkVars(Close) /\ WF_linkVars(Reopen)
    /\ WF_linkVars(Take)

-----------------------------------------------------------------------------
(* Properties.                                                              *)

\* _start_ping_cycle: through failures and reconnects of whatever length there is one
\* chain of pings, and none while a reconnect is under way.
OneChain ==
    /\ chains <= 1
    /\ (job \in {"off", "closing"} => chains = 0)
    /\ (job = "no" => chains = 1)

\* bemfa_client.py 362-367: "Only ONE receive task exists at any time", and one chain.
LinkHolds == LinkTypeOK /\ OneChain

\* A connection the cloud knows nothing of any more is found and replaced, though
\* nothing here fails: with the network back it does not stay half open.
HalfOpenHeals == <>[]net => []<>(session # "half")

\* publish_state, _on_connect: a state that was sent into a dead connection, or taken over
\* by an order, comes to the cloud with the next connect, so that on a connection that
\* holds the cloud ends up showing what the port does.  That is all the code sees to: a
\* change while there is no connection, an order that came within the grace or the
\* second after another, a command nobody confirmed and the "off" of a login leave the
\* cloud wrong until the port changes again.
ShownSettles == <>[](connected /\ session = "live") => <>[](shown = active \/ slipped)

\* BemfaClient: what went wrong on the line comes right without a restart, unless the
\* client was given up because the network was down during a reconnect.
LinkSettles == HalfOpenHeals /\ ShownSettles
=============================================================================
