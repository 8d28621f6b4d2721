------------------------------ MODULE ConfigSave ------------------------------
(***************************************************************************)
(* Saving the configuration through the web interface: handle_config_save,   *)
(* the validation it shares with the start (config.py), the purge of retained *)
(* MQTT messages, the restart it schedules, and the start that reads the file. *)
(*                                                                          *)
(* From request.json() to os.replace the handler is one step.  It then waits   *)
(* for a worker thread once per MQTT namespace it clears, while the managers    *)
(* of the running configuration go on publishing, other requests are served     *)
(* and the middleware may give up on it.                                        *)
(***************************************************************************)
EXTENDS FiniteSets, Naturals

CONSTANTS
    Extras,          \* ids of the devices next to the primary
    Prefixes,        \* MQTT prefixes a user may write
    Tokens,
    Requests,        \* saves in progress at a time
    Installed,       \* configurations the process may be installed with
    MaxSaves,        \* bound: saves
    MaxFaults,       \* bound: silent brokers, crashes
    Primary, None

Extra == [prefix : Prefixes \cup {None}, token : Tokens \cup {None}]
Config == [base : Prefixes, token : Tokens \cup {None}, dev : [Extras -> Extra \cup {None}]]

\* What the page sends.  "****" stands for a token it got masked and sends back; in
\* the list of devices an emptied field counts as one, in the ble section it is "".
Form == [base : Prefixes, token : Tokens \cup {"****", ""},
         dev : [Extras -> [prefix : Prefixes \cup {None}, token : Tokens \cup {"****"}]
                          \cup {None}]]

AllPrefixes == Prefixes \cup (Prefixes \X Extras)
Cleanup == [todo : SUBSET AllPrefixes, begun : BOOLEAN]

ASSUME SaveAssumption ==
    /\ Primary \notin Extras
    /\ None \notin Prefixes \cup Tokens \cup Extra \cup Cleanup
    /\ MaxSaves \in Nat /\ MaxFaults \in Nat

VARIABLES
    disk,      \* config.yaml
    run,       \* the configuration the process was started with
    phase,     \* of the process: "up", "leaving" (in _restart), "down", "dead"
    live,      \* devices whose manager runs
    req,       \* the namespaces a save has still to clear
    due,       \* a _delayed_restart sleeps
    retained,  \* prefixes with retained messages at the broker
    saves, faults,  \* left of the bounds
    typed,     \* history: the last token a user gave each device of the file
    excused,   \* history: prefixes that were not cleared, or published on afterwards
    cut        \* history: the middleware cut a save off since the start

vars == <<disk, run, phase, live, req, due, retained, saves, faults, typed, excused, cut>>

Devices(c) == {Primary} \cup {d \in Extras : c.dev[d] # None}

\* topics_for: a prefix left empty is derived from the one of the primary.
PrefixOf(c, d) ==
    IF d = Primary THEN c.base
    ELSE IF c.dev[d].prefix = None THEN <<c.base, d>> ELSE c.dev[d].prefix

InUse(c) == {PrefixOf(c, d) : d \in Devices(c)}

\* _parse_devices: what an entry must have.
Complete(c) == \A d \in Devices(c) \ {Primary} : c.dev[d].token # None

\* validate_device_specs: no two devices share a namespace.
Apart(c) == \A d, e \in Devices(c) : PrefixOf(c, d) = PrefixOf(c, e) => d = e

\* config_from_mapping: what the process starts with.
Accepts(c) == Complete(c) /\ (Devices(c) # {Primary} => c.token # None) /\ Apart(c)

ASSUME InstalledAssumption == Installed \subseteq {c \in Config : Accepts(c)}

TypeOK ==
    /\ disk \in Config /\ run \in Config
    /\ phase \in {"up", "leaving", "down", "dead"}
    /\ live \subseteq Devices(run) /\ (phase \in {"down", "dead"} => live = {})
    /\ req \in [Requests -> Cleanup \cup {None}]
    /\ due \in BOOLEAN /\ cut \in BOOLEAN
    /\ retained \subseteq AllPrefixes /\ excused \subseteq AllPrefixes
    /\ saves \in 0..MaxSaves /\ faults \in 0..MaxFaults
    /\ typed \in [Extras \cup {Primary} -> Tokens \cup {None}]

Init ==
    /\ disk \in Installed /\ run = disk
    /\ phase = "up" /\ live = Devices(run)
    /\ req = [r \in Requests |-> None] /\ due = FALSE
    /\ retained = {}
    /\ saves \in 0..MaxSaves /\ faults \in 0..MaxFaults
    /\ typed = [d \in Extras \cup {Primary} |->
                  IF d = Primary THEN disk.token
                  ELSE IF disk.dev[d] = None THEN None ELSE disk.dev[d].token]
    /\ excused = {} /\ cut = FALSE

-----------------------------------------------------------------------------
(* The save.                                                                *)

\* The merge of the sections skips a masked token.
MergedToken(f) ==
    IF f.token \in Tokens THEN f.token ELSE IF f.token = "****" THEN disk.token ELSE None

\* _apply_devices_payload: a token that was not typed is the one in the file.
MergedExtra(f, d) ==
    [prefix |-> f.dev[d].prefix,
     token |-> IF f.dev[d].token \in Tokens THEN f.dev[d].token
               ELSE IF disk.dev[d] # None THEN disk.dev[d].token ELSE None]

Merged(f) == [base |-> f.base, token |-> MergedToken(f),
              dev |-> [d \in Extras |-> IF f.dev[d] = None THEN None ELSE MergedExtra(f, d)]]

\* Mutant: the check runs with the prefix the process was started with.
StartableStale(c) == Accepts([c EXCEPT !.base = run.base])

\* What is about to be written is loaded as the next start will load it.
Startable(c) == Accepts(c)

\* Mutant: only devices that are gone are purged.
StaleRemoved(c) == {PrefixOf(run, d) : d \in Devices(run) \ Devices(c)}

\* The namespaces of devices that are gone or have moved.
Stale(c) ==
    {PrefixOf(run, d) : d \in {e \in Devices(run) :
        e \in Devices(c) => PrefixOf(c, e) # PrefixOf(run, e)}}

\* The last token given for each device; one that leaves the file is forgotten.
TypedNow(f, c) ==
    [d \in Extras \cup {Primary} |->
        IF d = Primary THEN (IF f.token \in Tokens THEN f.token ELSE typed[d])
        ELSE IF c.dev[d] = None THEN None
        ELSE IF f.dev[d].token \in Tokens THEN f.dev[d].token ELSE typed[d]]

\* A save that is accepted: the file is replaced, then the purge begins; with
\* nothing to clear the restart is scheduled at once.
Write(r, f) ==
    LET c == Merged(f) IN
    /\ Startable(c)
    /\ disk' = c /\ typed' = TypedNow(f, c)
    /\ IF Stale(c) = {} THEN due' = TRUE /\ UNCHANGED req
       ELSE /\ req' = [req EXCEPT ![r] = [todo |-> Stale(c), begun |-> FALSE]]
            /\ UNCHANGED due

\* handle_config_save up to os.replace; one that is refused changes nothing.
Save(r) ==
    /\ phase \in {"up", "leaving"} /\ req[r] = None /\ saves > 0
    /\ saves' = saves - 1
    /\ \E f \in Form : Write(r, f)
    /\ UNCHANGED <<run, phase, live, retained, faults, excused, cut>>

\* Mutant: the handler ends with an error when a namespace could not be cleared.
PurgedAbort(r, p, cleared) ==
    LET todo == IF cleared THEN req[r].todo \ {p} ELSE {} IN
    IF todo = {} THEN req' = [req EXCEPT ![r] = None] /\ due' = (due \/ cleared)
    ELSE req' = [req EXCEPT ![r] = [todo |-> todo, begun |-> TRUE]] /\ UNCHANGED due

\* The handler after a namespace, cleared or not; after the last the restart.
Purged(r, p, cleared) ==
    LET todo == req[r].todo \ {p} IN
    IF todo = {} THEN req' = [req EXCEPT ![r] = None] /\ due' = TRUE
    ELSE req' = [req EXCEPT ![r] = [todo |-> todo, begun |-> TRUE]] /\ UNCHANGED due

\* _purge_namespace, with a broker that takes the empty messages or does not.
Purge(r) ==
    /\ req[r] # None
    /\ \E p \in req[r].todo :
         \/ /\ retained' = retained \ {p} /\ excused' = excused \ {p}
            /\ Purged(r, p, TRUE) /\ UNCHANGED faults
         \/ /\ faults > 0 /\ faults' = faults - 1
            /\ excused' = excused \cup {p}
            /\ Purged(r, p, FALSE) /\ UNCHANGED retained
    /\ UNCHANGED <<disk, run, phase, live, saves, typed, cut>>

\* request_timeout_middleware: nine topics at 2 s each fit into its 30 s once,
\* not twice.  The thread goes on with its namespace.
TimeOut(r) ==
    /\ req[r] # None /\ req[r].begun
    /\ faults > 0 /\ faults' = faults - 1
    /\ \E p \in req[r].todo : retained' \in {retained, retained \ {p}}
    /\ excused' = excused \cup req[r].todo
    /\ req' = [req EXCEPT ![r] = None] /\ cut' = TRUE
    /\ UNCHANGED <<disk, run, phase, live, due, saves, typed>>

-----------------------------------------------------------------------------
(* The managers, the restart and the start.                                 *)

\* A message of d's manager goes to the prefix the process was started with.
Retain(d) ==
    LET p == PrefixOf(run, d) IN
    /\ retained' = retained \cup {p}
    /\ excused' = IF p \in InUse(disk) THEN excused ELSE excused \cup {p}

Publish(d) ==
    /\ d \in live
    /\ Retain(d)
    /\ UNCHANGED <<disk, run, phase, live, req, due, saves, faults, typed, cut>>

\* _delayed_restart has slept its second.
Restart ==
    /\ phase = "up" /\ due
    /\ phase' = "leaving" /\ due' = FALSE
    /\ UNCHANGED <<disk, run, live, req, retained, saves, faults, typed, excused, cut>>

\* _restart stops the supervisors in order, the primary first; a manager that had
\* a connection reports it as gone.
StopDevice(d) ==
    /\ phase = "leaving" /\ d \in live /\ (Primary \in live => d = Primary)
    /\ live' = live \ {d}
    /\ \/ Retain(d)
       \/ UNCHANGED <<retained, excused>>
    /\ UNCHANGED <<disk, run, phase, req, due, saves, faults, typed, cut>>

Unpurged == UNION {req[r].todo : r \in {s \in Requests : req[s] # None}}

\* The process ends, with it every request and every task.
Ends ==
    /\ phase' = "down" /\ live' = {} /\ due' = FALSE
    /\ req' = [r \in Requests |-> None]

\* _restart leaves the broker and replaces the process.
Exec ==
    /\ phase = "leaving" /\ live = {}
    /\ Ends /\ excused' = excused \cup Unpurged
    /\ UNCHANGED <<disk, run, retained, saves, faults, typed, cut>>

\* The process dies: the broker publishes the will, the status of the primary.
Crash ==
    /\ phase \in {"up", "leaving"}
    /\ faults > 0 /\ faults' = faults - 1
    /\ Ends
    /\ retained' = retained \cup {run.base}
    /\ excused' = excused \cup Unpurged \cup ({run.base} \ InUse(disk))
    /\ UNCHANGED <<disk, run, saves, typed, cut>>

\* The start: load_config, then on_startup.
Boot ==
    /\ phase = "down"
    /\ IF Accepts(disk)
       THEN run' = disk /\ phase' = "up" /\ live' = Devices(disk) /\ cut' = FALSE
       ELSE phase' = "dead" /\ UNCHANGED <<run, live, cut>>
    /\ UNCHANGED <<disk, req, due, retained, saves, faults, typed, excused>>

Next ==
    \/ \E r \in Requests : Save(r) \/ Purge(r) \/ TimeOut(r)
    \/ \E d \in Extras \cup {Primary} : Publish(d) \/ StopDevice(d)
    \/ Restart \/ Exec \/ Crash \/ Boot

\* The broker answers or its time-out passes, sleeps end, supervisors stop, and
\* what watches the process (systemd, the desktop launcher) starts it again.
Fairness ==
    /\ \A r \in Requests : WF_vars(Purge(r))
    /\ \A d \in Extras \cup {Primary} : WF_vars(StopDevice(d))
    /\ WF_vars(Restart) /\ WF_vars(Exec) /\ WF_vars(Boot)

Spec == Init /\ [][Next]_vars /\ Fairness

-----------------------------------------------------------------------------
(* Properties.                                                              *)

\* What is on disk at any moment, between two saves as well as in the middle of one,
\* is a file the next start accepts: the process never ends up "dead".
AlwaysStarts == phase # "dead" /\ Accepts(disk)

\* Through saves with masked tokens, from pages loaded before other saves, before or
\* after the restart, the file holds for each extra device the token last typed.
TokensKept == \A d \in Extras : disk.dev[d] # None => disk.dev[d].token = typed[d]

\* handle_config_save: the file is always one that starts, with every token that nobody
\* typed over.
FileHolds == TypeOK /\ AlwaysStarts /\ TokensKept

\* Once the saved configuration runs and nothing is under way, messages retained
\* outside of its namespaces are there because the broker was silent, a process or a
\* request ended early, or a manager published after the purge; never because the
\* save did not see that the namespace was left.
GhostsExplained ==
    phase = "up" /\ run = disk /\ ~due /\ Unpurged = {}
        => retained \ InUse(disk) \subseteq excused

\* A file that was saved comes to run, whatever fails on the way, unless the
\* middleware cut the save off.
SavesTakeEffect == disk # run ~> (disk = run \/ cut)
=============================================================================
