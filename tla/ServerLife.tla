------------------------------ MODULE ServerLife ------------------------------
(***************************************************************************)
(* One process of the server after the other: saves and restarts (ConfigSave),  *)
(* the registration of the voice entities at each start (BemfaCloud) and the     *)
(* connection that follows it (BemfaLink).  They meet in config.yaml, which      *)
(* holds the devices and the bemfa section and which a save replaces and a start  *)
(* rewrites in place, and in the end of the process, which cuts all three off.    *)
(***************************************************************************)
EXTENDS ConfigSave, BemfaCloud, BemfaLink

CONSTANT Default  \* the MQTT prefix of a file that names none

ASSUME DefaultAssumption == Default \in Prefixes

lifeVars == <<vars, cloudVars, linkVars>>

\* What a start reads of the devices in an empty file.
Blank == [base |-> Default, token |-> None, dev |-> [d \in Extras |-> None]]

LifeInit == Init /\ CloudInit /\ LinkInit

\* A save by hand of the devices; the page sends the voice section as it is.
SaveDevices(r) ==
    /\ boot = "done"
    /\ Save(r)
    /\ UNCHANGED <<cloudVars, linkVars>>

\* A save of the voice section: handle_config_save with the devices of the file.
SaveVoice(r) ==
    /\ phase \in {"up", "leaving"} /\ req[r] = None
    /\ Edit
    /\ Startable(disk)
    /\ IF Stale(disk) = {} THEN due' = TRUE /\ UNCHANGED req
       ELSE /\ req' = [req EXCEPT ![r] = [todo |-> Stale(disk), begun |-> FALSE]]
            /\ UNCHANGED due
    /\ UNCHANGED <<disk, run, phase, live, retained, saves, faults, typed, excused, cut>>
    /\ UNCHANGED linkVars

Serve ==
    /\ \/ \E r \in Requests : Purge(r) \/ TimeOut(r)
       \/ Restart
       \/ \E d \in Extras \cup {Primary} : StopDevice(d) \/ (boot = "done" /\ Publish(d))
    /\ UNCHANGED <<cloudVars, linkVars>>

\* execv or the end of the process, wherever the start and the connection are.
LifeEnds == (Exec \/ Crash) /\ CloudEnd /\ LinkEnd

\* on_startup: setup_bemfa comes before the supervisors and the web server.
LifeBoot ==
    /\ Boot
    /\ IF phase' = "up" THEN CloudBoot ELSE UNCHANGED cloudVars
    /\ UNCHANGED linkVars

\* The calls to the cloud, and the snapshot.
StartStep == (Call \/ Note) /\ UNCHANGED <<vars, linkVars>>

\* BemfaClient.start ends with the connection.
Connects == Registered /\ Open /\ UNCHANGED vars

\* _clear_bemfa_modified: the file is empty for a moment, with all it says of the
\* devices.  What they retained was left behind if the process ends in it.
FileStep ==
    /\ \/ Truncate /\ disk' = Blank /\ excused' = excused \cup retained
       \/ Rewrite /\ disk' = run /\ excused' = excused \ InUse(run)
    /\ UNCHANGED <<run, phase, live, req, due, retained, saves, faults, typed, cut, linkVars>>

\* The manager of the device runs.
Managed == boot = "done" /\ Primary \in live

LinkStep ==
    /\ LinkNext \/ (Managed /\ DeviceNext)
    /\ UNCHANGED <<vars, cloudVars>>

LifeNext ==
    \/ \E r \in Requests : SaveDevices(r) \/ SaveVoice(r)
    \/ Serve \/ LifeEnds \/ LifeBoot
    \/ StartStep \/ Connects \/ FileStep
    \/ LinkStep

LifeFairness ==
    /\ Fairness /\ CloudFairness /\ LinkFairness
    /\ WF_lifeVars(Connects)
    /\ WF_linkVars(Managed /\ SendState) /\ WF_linkVars(Managed /\ Execute)

LifeSpec == LifeInit /\ [][LifeNext]_lifeVars /\ LifeFairness
=============================================================================
