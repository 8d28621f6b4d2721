------------------------------ MODULE BemfaCloud ------------------------------
(***************************************************************************)
(* The voice entities at the Bemfa cloud: what Server.setup_bemfa and          *)
(* BemfaClient delete and add there at each start, and the two things a start   *)
(* leaves for the next one: the flag bemfa.modified in config.yaml and the       *)
(* snapshot of registered entities in the database.  ServerLife composes this     *)
(* with the rest of the process.                                                *)
(*                                                                          *)
(* The name of a topic is fixed when it is added: adding one that exists        *)
(* changes nothing.  The start runs before the web server listens, so no save   *)
(* comes between its steps; the process may end between any two of them.         *)
(***************************************************************************)
EXTENDS FiniteSets, Naturals

CONSTANTS
    Ids,      \* entity ids: one per device and switch
    Names,    \* names a user may give an entity
    MaxEdits, \* bound: saves that change the section
    Unnamed

ASSUME CloudAssumption == Unnamed \notin Names /\ MaxEdits \in Nat

Plan == [Ids -> Names \cup {Unnamed}]
Section == [enabled : BOOLEAN, modified : BOOLEAN, plan : Plan]

VARIABLES
    section,   \* the bemfa section of config.yaml
    booted,    \* the section the process was started with
    snapshot,  \* bemfa_registered in the database
    cloud,     \* the name each topic has at the cloud, if it is there
    boot,      \* how far setup_bemfa has come, see Boots
    todo,      \* the calls it has still to make
    edits,     \* left of the bound
    missed     \* history: entities a call or the snapshot failed for, or a lost file

cloudVars == <<section, booted, snapshot, cloud, boot, todo, edits, missed>>

Boots == {"off", "calling", "clearing", "writing", "noting", "done"}

Entities(p) == {i \in Ids : p[i] # Unnamed}
Calls == [op : {"delete", "add"}, id : Ids]

\* A config.yaml that was truncated: every default.
BlankSection == [enabled |-> FALSE, modified |-> FALSE, plan |-> [i \in Ids |-> Unnamed]]

CloudTypeOK ==
    /\ section \in Section /\ booted \in Section
    /\ snapshot \subseteq Ids /\ missed \subseteq Ids
    /\ cloud \in [Ids -> Names \cup {Unnamed}]
    /\ boot \in Boots /\ edits \in 0..MaxEdits
    /\ todo \subseteq Calls /\ (todo # {} => boot = "calling" /\ booted.enabled)

-----------------------------------------------------------------------------
(* The start.                                                               *)

\* delete_topics: registered by an earlier start and no longer in the plan.
Unplanned(p) == [op : {"delete"}, id : snapshot \ Entities(p)]

\* _register_topics: a topic is added, and deleted before when names changed.
Register(s) ==
    [op : IF s.modified THEN {"delete", "add"} ELSE {"add"}, id : Entities(s.plan)]

Begun(s) == IF s.enabled THEN "calling" ELSE "done"
Planned(s) == IF s.enabled THEN Unplanned(s.plan) \cup Register(s) ELSE {}

\* The first start after the installation.
CloudInit ==
    /\ section \in {s \in Section : ~s.modified} /\ booted = section
    /\ snapshot = {} /\ cloud = [i \in Ids |-> Unnamed]
    /\ boot = Begun(section) /\ todo = Planned(section)
    /\ edits \in 0..MaxEdits /\ missed = {}

\* setup_bemfa.
CloudBoot ==
    /\ booted' = section
    /\ boot' = Begun(section) /\ todo' = Planned(section)
    /\ UNCHANGED <<section, snapshot, cloud, edits, missed>>

\* What a call that succeeds does at the cloud.
Done(c) ==
    IF c.op = "delete" THEN [cloud EXCEPT ![c.id] = Unnamed]
    ELSE IF cloud[c.id] = Unnamed THEN [cloud EXCEPT ![c.id] = booted.plan[c.id]] ELSE cloud

\* A call that fails is logged, no more; it may have had its effect all the same.  Only
\* the order of the two calls for one topic matters.
Call ==
    /\ boot = "calling"
    /\ \E c \in todo :
         /\ c.op = "add" => [op |-> "delete", id |-> c.id] \notin todo
         /\ todo' = todo \ {c}
         /\ \/ cloud' = Done(c) /\ UNCHANGED missed
            \/ cloud' \in {cloud, Done(c)} /\ missed' = missed \cup {c.id}
    /\ UNCHANGED <<section, booted, snapshot, boot, edits>>

\* setup_bemfa after the start of the client.
Registered ==
    /\ boot = "calling" /\ todo = {}
    /\ boot' = IF booted.modified THEN "clearing" ELSE "noting"
    /\ UNCHANGED <<section, booted, snapshot, cloud, todo, edits, missed>>

\* _set_bemfa_yaml_bool opens the file for writing, which empties it ...
Truncate ==
    /\ boot = "clearing"
    /\ section' = BlankSection /\ boot' = "writing"
    /\ UNCHANGED <<booted, snapshot, cloud, todo, edits, missed>>

\* ... and writes it back with one line changed.
Rewrite ==
    /\ boot = "writing"
    /\ section' = [enabled |-> booted.enabled, modified |-> FALSE, plan |-> booted.plan]
    /\ boot' = "noting"
    /\ UNCHANGED <<booted, snapshot, cloud, todo, edits, missed>>

\* _save_bemfa_registered: an error of the database is logged.
Note ==
    /\ boot = "noting" /\ boot' = "done"
    /\ \/ snapshot' = Entities(booted.plan) /\ UNCHANGED missed
       \/ /\ UNCHANGED snapshot
          /\ missed' = missed \cup (Entities(booted.plan) \ snapshot)
    /\ UNCHANGED <<section, booted, cloud, todo, edits>>

-----------------------------------------------------------------------------
(* The rest of the life of the process.                                     *)

\* Mutant: the flag says whether this save changed a name.
FlaggedNow(p) == p # section.plan

\* handle_config_save: changed names and bindings set the flag, no save resets it.
Flagged(p) == section.modified \/ p # section.plan

\* What handle_config_save makes of the section.
Edit ==
    /\ boot = "done" /\ edits > 0 /\ edits' = edits - 1
    /\ \E p \in Plan, e \in BOOLEAN :
         section' = [enabled |-> e, modified |-> Flagged(p), plan |-> p]
    /\ UNCHANGED <<booted, snapshot, cloud, boot, todo, missed>>

\* The process ends.
CloudEnd ==
    /\ boot' = "off" /\ todo' = {}
    /\ missed' = missed \cup (IF boot = "writing" THEN Entities(booted.plan) ELSE {})
    /\ UNCHANGED <<section, booted, snapshot, cloud, edits>>

\* Each step of the start takes a bounded time: the calls have time-outs.
CloudFairness ==
    /\ WF_cloudVars(Call) /\ WF_cloudVars(Truncate) /\ WF_cloudVars(Rewrite)
    /\ WF_cloudVars(Note)

-----------------------------------------------------------------------------
(* Properties.                                                              *)

\* Whatever was renamed, unbound, switched off in between, and however often the start
\* was cut short: once one has come to its end the cloud has the entities of the running
\* plan, by their present names, and no others, but for those a call failed for.
CloudAsPlanned ==
    boot = "done" /\ booted.enabled =>
        \A i \in Ids \ missed : cloud[i] = booted.plan[i]

\* Wherever the process ends, a later start can find every entity at the cloud: it is
\* in the snapshot or still in the file.
NoneForgotten ==
    \A i \in Ids \ missed :
        cloud[i] # Unnamed => i \in snapshot \/ i \in Entities(section.plan) \/ boot = "writing"

\* setup_bemfa: nothing at the cloud is wrong for good or out of the server's reach,
\* unless a call to it, the database or the file failed.
EntitiesKept == CloudTypeOK /\ CloudAsPlanned /\ NoneForgotten
=============================================================================
