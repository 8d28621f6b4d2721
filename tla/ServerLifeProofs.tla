--------------------------- MODULE ServerLifeProofs ---------------------------
(***************************************************************************)
(* The life of the server: first what each step of a save keeps, then what each   *)
(* step of the start does for the voice entities, then the whole, where starts    *)
(* rewrite config.yaml in place and the voice section is saved through the same   *)
(* handler, and the connection.                                                 *)
(***************************************************************************)
EXTENDS ServerLife, TLAPS

-----------------------------------------------------------------------------
(* Saves.                                                                   *)

\* A prefix with retained messages belongs to the running and to the saved
\* configuration, or a save has still to clear it, or it is accounted for.  The half
\* about the running one is what a later save builds on: it purges what runs, and so
\* never looks for a prefix that an earlier file had and that never ran.
GhostInv == retained \ (InUse(run) \cap InUse(disk)) \subseteq excused \cup Unpurged

IInv == TypeOK /\ AlwaysStarts /\ TokensKept /\ GhostInv

LEMMA Constants ==
    /\ Primary \notin Extras /\ None \notin Extra /\ None \notin Cleanup
    /\ MaxSaves \in Nat /\ MaxFaults \in Nat
BY SaveAssumption

LEMMA PrefixType ==
    ASSUME NEW c \in Config, NEW d \in Devices(c)
    PROVE  PrefixOf(c, d) \in AllPrefixes
<1>1. c.base \in Prefixes /\ c.dev \in [Extras -> Extra \cup {None}]
  BY DEF Config
<1>2. CASE d = Primary
  BY <1>1, <1>2 DEF PrefixOf, AllPrefixes
<1>3. CASE d # Primary
  <2>1. d \in Extras /\ c.dev[d] \in Extra
    BY <1>1, <1>3 DEF Devices
  <2>2. c.dev[d].prefix \in Prefixes \cup {None}
    BY <2>1 DEF Extra
  <2> QED
    BY <1>1, <1>3, <2>1, <2>2 DEF PrefixOf, AllPrefixes
<1> QED
  BY <1>2, <1>3

LEMMA StaleType ==
    ASSUME TypeOK, NEW c
    PROVE  Stale(c) \in SUBSET AllPrefixes
<1>1. run \in Config
  BY DEF TypeOK
<1> QED
  BY <1>1, PrefixType DEF Stale

LEMMA MergedType ==
    ASSUME TypeOK, NEW f \in Form
    PROVE  Merged(f) \in Config
<1>1. /\ disk.token \in Tokens \cup {None}
      /\ disk.dev \in [Extras -> Extra \cup {None}]
  BY DEF TypeOK, Config
<1>2. /\ f.base \in Prefixes
      /\ f.dev \in [Extras -> [prefix : Prefixes \cup {None}, token : Tokens \cup {"****"}]
                              \cup {None}]
  BY DEF Form
<1>3. MergedToken(f) \in Tokens \cup {None}
  BY <1>1 DEF MergedToken
<1>4. ASSUME NEW d \in Extras, f.dev[d] # None
      PROVE  MergedExtra(f, d) \in Extra
  <2>1. f.dev[d].prefix \in Prefixes \cup {None}
    BY <1>2, <1>4
  <2>2. disk.dev[d] # None => disk.dev[d].token \in Tokens \cup {None}
    BY <1>1, <1>4 DEF Extra
  <2> QED
    BY <2>1, <2>2 DEF MergedExtra, Extra
<1>5. [d \in Extras |-> IF f.dev[d] = None THEN None ELSE MergedExtra(f, d)]
        \in [Extras -> Extra \cup {None}]
  BY <1>4
<1> QED
  BY <1>2, <1>3, <1>5 DEF Merged, Config

LEMMA InitTyped == Init => TypeOK
<1> SUFFICES ASSUME Init PROVE TypeOK
  OBVIOUS
<1>1. disk \in Config /\ run = disk
  BY InstalledAssumption DEF Init
<1>2. disk.token \in Tokens \cup {None} /\ disk.dev \in [Extras -> Extra \cup {None}]
  BY <1>1 DEF Config
<1>3. \A d \in Extras : disk.dev[d] # None => disk.dev[d].token \in Tokens \cup {None}
  BY <1>2 DEF Extra
<1>4. typed \in [Extras \cup {Primary} -> Tokens \cup {None}]
  BY <1>2, <1>3 DEF Init
<1>5. MaxSaves \in 0..MaxSaves /\ MaxFaults \in 0..MaxFaults
  BY Constants
<1> QED
  BY <1>1, <1>4, <1>5 DEF Init, TypeOK

LEMMA PurgedType ==
    ASSUME TypeOK, NEW r \in Requests, req[r] # None, NEW p, NEW cleared, Purged(r, p, cleared)
    PROVE  req' \in [Requests -> Cleanup \cup {None}] /\ due' \in BOOLEAN
<1>1. req[r] \in Cleanup
  BY DEF TypeOK
<1>2. req[r].todo \ {p} \in SUBSET AllPrefixes
  BY <1>1 DEF Cleanup
<1>3. [todo |-> req[r].todo \ {p}, begun |-> TRUE] \in Cleanup
  BY <1>2 DEF Cleanup
<1> QED
  BY <1>3 DEF Purged, TypeOK

LEMMA RetainType ==
    ASSUME TypeOK, NEW d \in Devices(run), Retain(d)
    PROVE  retained' \subseteq AllPrefixes /\ excused' \subseteq AllPrefixes
<1>1. run \in Config
  BY DEF TypeOK
<1>2. PrefixOf(run, d) \in AllPrefixes
  BY <1>1, PrefixType
<1> QED
  BY <1>2 DEF Retain, TypeOK

LEMMA UnpurgedType == TypeOK => Unpurged \subseteq AllPrefixes
<1> SUFFICES ASSUME TypeOK, NEW r \in Requests, req[r] # None PROVE req[r].todo \subseteq AllPrefixes
  BY DEF Unpurged
<1>1. req[r] \in Cleanup
  BY DEF TypeOK
<1> QED
  BY <1>1 DEF Cleanup

LEMMA EndsType ==
    ASSUME TypeOK, Ends
    PROVE  /\ phase' = "down" /\ live' = {} /\ due' = FALSE
           /\ req' \in [Requests -> Cleanup \cup {None}]
BY DEF Ends

LEMMA FaultsType ==
    ASSUME faults \in 0..MaxFaults, faults > 0, faults' = faults - 1
    PROVE  faults' \in 0..MaxFaults
BY Constants

-----------------------------------------------------------------------------
LEMMA TypeStep == TypeOK /\ [Next]_vars => TypeOK'
<1> SUFFICES ASSUME TypeOK, [Next]_vars PROVE TypeOK'
  OBVIOUS
<1>1. ASSUME NEW r \in Requests, Save(r) PROVE TypeOK'
  <2>1. PICK f \in Form : Write(r, f)
    BY <1>1 DEF Save
  <2>2. disk' \in Config
    BY <2>1, MergedType DEF Write
  <2>3. [todo |-> Stale(Merged(f)), begun |-> FALSE] \in Cleanup
    BY StaleType DEF Cleanup
  <2>4. req' \in [Requests -> Cleanup \cup {None}] /\ due' \in BOOLEAN
    BY <2>1, <2>3 DEF Write, TypeOK
  <2>5. typed' \in [Extras \cup {Primary} -> Tokens \cup {None}]
    BY <2>1 DEF Write, TypedNow, TypeOK
  <2>6. saves' \in 0..MaxSaves
    BY <1>1, Constants DEF Save, TypeOK
  <2> QED
    BY <1>1, <2>2, <2>4, <2>5, <2>6 DEF Save, TypeOK
<1>2. ASSUME NEW r \in Requests, Purge(r) PROVE TypeOK'
  <2>1. req[r] # None /\ UNCHANGED <<disk, run, phase, live, saves, typed, cut>>
    BY <1>2 DEF Purge
  <2>2. PICK p \in req[r].todo :
          \/ /\ retained' = retained \ {p} /\ excused' = excused \ {p}
             /\ Purged(r, p, TRUE) /\ UNCHANGED faults
          \/ /\ faults > 0 /\ faults' = faults - 1
             /\ excused' = excused \cup {p}
             /\ Purged(r, p, FALSE) /\ UNCHANGED retained
    BY <1>2 DEF Purge
  <2>3. p \in AllPrefixes
    BY <2>1, UnpurgedType DEF Unpurged
  <2>4. req' \in [Requests -> Cleanup \cup {None}] /\ due' \in BOOLEAN
    BY <2>1, <2>2, PurgedType
  <2>5. faults' \in 0..MaxFaults
    BY <2>2, FaultsType DEF TypeOK
  <2>6. retained' \subseteq AllPrefixes /\ excused' \subseteq AllPrefixes
    BY <2>2, <2>3 DEF TypeOK
  <2> QED
    BY <2>1, <2>4, <2>5, <2>6 DEF TypeOK
<1>3. ASSUME NEW r \in Requests, TimeOut(r) PROVE TypeOK'
  <2>1. req[r].todo \subseteq AllPrefixes
    BY <1>3, UnpurgedType DEF Unpurged, TimeOut
  <2>2. faults' \in 0..MaxFaults
    BY <1>3, FaultsType DEF TimeOut, TypeOK
  <2>3. retained' \subseteq AllPrefixes /\ excused' \subseteq AllPrefixes
    BY <1>3, <2>1 DEF TimeOut, TypeOK
  <2>4. req' \in [Requests -> Cleanup \cup {None}]
    BY <1>3 DEF TimeOut, TypeOK
  <2> QED
    BY <1>3, <2>2, <2>3, <2>4 DEF TimeOut, TypeOK
<1>4. ASSUME NEW d \in Extras \cup {Primary}, Publish(d) PROVE TypeOK'
  <2>1. d \in Devices(run)
    BY <1>4 DEF Publish, TypeOK
  <2>2. retained' \subseteq AllPrefixes /\ excused' \subseteq AllPrefixes
    BY <1>4, <2>1, RetainType DEF Publish
  <2> QED
    BY <1>4, <2>2 DEF Publish, TypeOK
<1>5. ASSUME NEW d \in Extras \cup {Primary}, StopDevice(d) PROVE TypeOK'
  <2>1. d \in Devices(run)
    BY <1>5 DEF StopDevice, TypeOK
  <2>2. retained' \subseteq AllPrefixes /\ excused' \subseteq AllPrefixes
    BY <1>5, <2>1, RetainType DEF StopDevice, TypeOK
  <2> QED
    BY <1>5, <2>2 DEF StopDevice, TypeOK
<1>6. CASE Restart
  BY <1>6 DEF Restart, TypeOK
<1>7. CASE Exec
  <2>1. excused' \subseteq AllPrefixes
    BY <1>7, UnpurgedType DEF Exec, TypeOK
  <2> QED
    BY <1>7, <2>1, EndsType DEF Exec, TypeOK
<1>8. CASE Crash
  <2>1. run.base \in AllPrefixes
    BY DEF TypeOK, Config, AllPrefixes
  <2>2. retained' \subseteq AllPrefixes /\ excused' \subseteq AllPrefixes
    BY <1>8, <2>1, UnpurgedType DEF Crash, TypeOK
  <2>3. faults' \in 0..MaxFaults
    BY <1>8, FaultsType DEF Crash, TypeOK
  <2> QED
    BY <1>8, <2>2, <2>3, EndsType DEF Crash, TypeOK
<1>9. CASE Boot
  BY <1>9 DEF Boot, TypeOK
<1>10. CASE UNCHANGED vars
  BY <1>10 DEF vars, TypeOK
<1> QED
  BY <1>1, <1>2, <1>3, <1>4, <1>5, <1>6, <1>7, <1>8, <1>9, <1>10 DEF Next

-----------------------------------------------------------------------------
(* The file.                                                                *)

\* Only a save touches the file, and it is a file the start accepts; the typed tokens
\* are those of the file.
LEMMA FileSafe ==
    ASSUME TypeOK, AlwaysStarts, TokensKept, [Next]_vars
    PROVE  AlwaysStarts' /\ TokensKept'
<1>1. ASSUME NEW r \in Requests, Save(r) PROVE AlwaysStarts' /\ TokensKept'
  <2>1. PICK f \in Form : Write(r, f)
    BY <1>1 DEF Save
  <2> DEFINE c == Merged(f)
  <2>2. disk' = c /\ Accepts(c) /\ typed' = TypedNow(f, c)
    BY <2>1 DEF Write, Startable
  <2>3. AlwaysStarts'
    BY <1>1, <2>2 DEF Save, AlwaysStarts, Accepts, Complete, Apart, Devices, PrefixOf
  <2>4. ASSUME NEW d \in Extras, c.dev[d] # None PROVE c.dev[d].token = typed'[d]
    <3>1. f.dev[d] # None /\ c.dev[d] = MergedExtra(f, d)
      BY <2>4 DEF Merged
    <3>2. d # Primary
      BY Constants
    <3>3. typed'[d] = IF f.dev[d].token \in Tokens THEN f.dev[d].token ELSE typed[d]
      BY <2>2, <2>4, <3>2 DEF TypedNow
    <3>4. c.dev[d].token # None
      BY <2>2, <2>4, <3>2 DEF Accepts, Complete, Devices
    <3>5. CASE f.dev[d].token \in Tokens
      BY <3>1, <3>3, <3>5 DEF MergedExtra
    <3>6. CASE f.dev[d].token \notin Tokens
      <4>1. disk.dev[d] # None /\ c.dev[d].token = disk.dev[d].token
        BY <3>1, <3>4, <3>6 DEF MergedExtra
      <4> QED
        BY <3>3, <3>6, <4>1 DEF TokensKept
    <3> QED
      BY <3>5, <3>6
  <2>5. TokensKept'
    BY <2>2, <2>4 DEF TokensKept
  <2> QED
    BY <2>3, <2>5
<1>2. CASE UNCHANGED <<disk, typed>> /\ phase' # "dead"
  BY <1>2 DEF AlwaysStarts, TokensKept, Accepts, Complete, Apart, Devices, PrefixOf
<1>3. ASSUME NEW r \in Requests, Purge(r) \/ TimeOut(r)
      PROVE  UNCHANGED <<disk, typed>> /\ phase' # "dead"
  BY <1>3 DEF Purge, TimeOut, AlwaysStarts
<1>4. ASSUME NEW d \in Extras \cup {Primary}, Publish(d) \/ StopDevice(d)
      PROVE  UNCHANGED <<disk, typed>> /\ phase' # "dead"
  BY <1>4 DEF Publish, StopDevice, AlwaysStarts
<1>5. CASE Restart \/ Exec \/ Crash \/ Boot \/ UNCHANGED vars
  <2>1. UNCHANGED <<disk, typed>> /\ phase' # "dead"
    BY <1>5 DEF Restart, Exec, Crash, Boot, Ends, vars, AlwaysStarts
  <2> QED
    BY <1>2, <2>1
<1> QED
  BY <1>1, <1>2, <1>3, <1>4, <1>5 DEF Next

-----------------------------------------------------------------------------
(* The ghosts.                                                              *)

LEMMA GhostSave ==
    ASSUME TypeOK, GhostInv, NEW r \in Requests, Save(r)
    PROVE  GhostInv'
<1>1. PICK f \in Form : Write(r, f)
  BY DEF Save
<1> DEFINE c == Merged(f)
<1>2. disk' = c /\ run' = run /\ retained' = retained /\ excused' = excused /\ req[r] = None
  BY <1>1 DEF Save, Write
<1>3. Unpurged \subseteq Unpurged' /\ Stale(c) \subseteq Unpurged'
  <2>1. CASE Stale(c) = {}
    BY <1>1, <2>1 DEF Write, Unpurged
  <2>2. CASE Stale(c) # {}
    <3> DEFINE mine == [todo |-> Stale(c), begun |-> FALSE]
    <3>1. req' = [req EXCEPT ![r] = mine] /\ req \in [Requests -> Cleanup \cup {None}]
      BY <1>1, <2>2 DEF Write, TypeOK
    <3>2. mine \in Cleanup
      BY StaleType DEF Cleanup
    <3>3. mine # None /\ req'[r] = mine /\ mine.todo = Stale(c)
      BY <3>1, <3>2, Constants
    <3>4. \A s \in Requests : req[s] # None => req'[s] = req[s]
      BY <1>2, <3>1
    <3> HIDE DEF mine
    <3>5. Stale(c) \subseteq Unpurged'
      BY <3>3 DEF Unpurged
    <3>6. Unpurged \subseteq Unpurged'
      BY <3>4 DEF Unpurged
    <3> QED
      BY <3>5, <3>6
  <2> QED
    BY <2>1, <2>2
<1>4. ASSUME NEW p \in InUse(run), p \notin InUse(c) PROVE p \in Stale(c)
  <2>1. PICK d \in Devices(run) : p = PrefixOf(run, d)
    BY <1>4 DEF InUse
  <2>2. d \in Devices(c) => PrefixOf(c, d) # p
    BY <1>4 DEF InUse
  <2> QED
    BY <2>1, <2>2 DEF Stale
<1>5. InUse(run)' = InUse(run) /\ InUse(disk)' = InUse(c)
  BY <1>2 DEF InUse, Devices, PrefixOf
<1>6. ASSUME NEW p \in retained, p \notin InUse(run) \cap InUse(c)
      PROVE  p \in excused \cup Unpurged'
  BY <1>3, <1>4, <1>6 DEF GhostInv
<1> QED
  BY <1>2, <1>5, <1>6 DEF GhostInv

LEMMA GhostPurge ==
    ASSUME TypeOK, GhostInv, NEW r \in Requests, Purge(r)
    PROVE  GhostInv'
<1>1. req[r] # None /\ disk' = disk /\ run' = run
  BY DEF Purge
<1>2. PICK p \in req[r].todo :
        \/ /\ retained' = retained \ {p} /\ excused' = excused \ {p}
           /\ Purged(r, p, TRUE)
        \/ /\ excused' = excused \cup {p} /\ retained' = retained
           /\ Purged(r, p, FALSE)
  BY DEF Purge
<1>3. req \in [Requests -> Cleanup \cup {None}]
  BY DEF TypeOK
<1>4. Unpurged \ {p} \subseteq Unpurged'
  <2> DEFINE rest == req[r].todo \ {p}
  <2>1. CASE rest = {}
    <3>1. req' = [req EXCEPT ![r] = None]
      BY <1>2, <2>1 DEF Purged
    <3>2. \A s \in Requests : s # r => req'[s] = req[s]
      BY <1>3, <3>1
    <3> QED
      BY <2>1, <3>2 DEF Unpurged
  <2>2. CASE rest # {}
    <3> DEFINE mine == [todo |-> rest, begun |-> TRUE]
    <3>1. req' = [req EXCEPT ![r] = mine]
      BY <1>2, <2>2 DEF Purged
    <3>2. mine \in Cleanup
      <4>1. req[r] \in Cleanup
        BY <1>1, <1>3
      <4> QED
        BY <4>1 DEF Cleanup
    <3>3. mine # None /\ req'[r] = mine /\ mine.todo = rest
      BY <1>3, <3>1, <3>2, Constants
    <3>4. \A s \in Requests : s # r => req'[s] = req[s]
      BY <1>3, <3>1
    <3> HIDE DEF mine
    <3> QED
      BY <3>3, <3>4 DEF Unpurged
  <2> QED
    BY <2>1, <2>2
<1>5. InUse(run)' = InUse(run) /\ InUse(disk)' = InUse(disk)
  BY <1>1 DEF InUse, Devices, PrefixOf
<1> QED
  BY <1>2, <1>4, <1>5 DEF GhostInv

LEMMA GhostTimeOut ==
    ASSUME TypeOK, GhostInv, NEW r \in Requests, TimeOut(r)
    PROVE  GhostInv'
<1>1. /\ req[r] # None /\ disk' = disk /\ run' = run /\ retained' \subseteq retained
      /\ excused' = excused \cup req[r].todo /\ req' = [req EXCEPT ![r] = None]
  BY DEF TimeOut
<1>2. \A s \in Requests : s # r => req'[s] = req[s]
  BY <1>1 DEF TypeOK
<1>3. Unpurged \subseteq Unpurged' \cup req[r].todo
  BY <1>2 DEF Unpurged
<1>4. InUse(run)' = InUse(run) /\ InUse(disk)' = InUse(disk)
  BY <1>1 DEF InUse, Devices, PrefixOf
<1> QED
  BY <1>1, <1>3, <1>4 DEF GhostInv

LEMMA GhostRetain ==
    ASSUME GhostInv, NEW d \in Devices(run), Retain(d), UNCHANGED <<disk, run, req>>
    PROVE  GhostInv'
<1>1. PrefixOf(run, d) \in InUse(run)
  BY DEF InUse
<1>2. Unpurged' = Unpurged
  BY DEF Unpurged
<1>3. InUse(run)' = InUse(run) /\ InUse(disk)' = InUse(disk)
  BY DEF InUse, Devices, PrefixOf
<1> QED
  BY <1>1, <1>2, <1>3 DEF Retain, GhostInv

LEMMA GhostUnchanged ==
    ASSUME GhostInv, UNCHANGED <<disk, run, req, retained, excused>>
    PROVE  GhostInv'
<1>1. InUse(run)' = InUse(run) /\ InUse(disk)' = InUse(disk) /\ Unpurged' = Unpurged
  BY DEF InUse, Devices, PrefixOf, Unpurged
<1> QED
  BY <1>1 DEF GhostInv

\* When the process ends, whatever was to be cleared is accounted for.
LEMMA GhostEnds ==
    ASSUME GhostInv, Exec \/ Crash
    PROVE  GhostInv'
<1>1. disk' = disk /\ run' = run /\ Unpurged \subseteq excused'
      /\ excused \subseteq excused' /\ retained' \subseteq retained \cup {run.base}
      /\ (run.base \in retained' \ retained => run.base \in InUse(disk) \cup excused')
  BY DEF Exec, Crash
<1>2. run.base \in InUse(run)
  BY DEF InUse, Devices, PrefixOf
<1>3. InUse(run)' = InUse(run) /\ InUse(disk)' = InUse(disk)
  BY <1>1 DEF InUse, Devices, PrefixOf
<1> QED
  BY <1>1, <1>2, <1>3 DEF GhostInv

LEMMA GhostBoot ==
    ASSUME GhostInv, Boot
    PROVE  GhostInv'
<1>1. UNCHANGED <<disk, req, retained, excused>> /\ (run' = disk \/ run' = run)
  BY DEF Boot
<1>2. CASE run' = run
  BY <1>1, <1>2, GhostUnchanged
<1>3. CASE run' = disk
  <2>1. InUse(run)' = InUse(disk) /\ InUse(disk)' = InUse(disk) /\ Unpurged' = Unpurged
    BY <1>1, <1>3 DEF InUse, Devices, PrefixOf, Unpurged
  <2> QED
    BY <1>1, <2>1 DEF GhostInv
<1> QED
  BY <1>1, <1>2, <1>3

LEMMA GhostStep == TypeOK /\ GhostInv /\ [Next]_vars => GhostInv'
<1> SUFFICES ASSUME TypeOK, GhostInv, [Next]_vars PROVE GhostInv'
  OBVIOUS
<1>1. ASSUME NEW d \in Extras \cup {Primary}, Publish(d) \/ StopDevice(d) PROVE GhostInv'
  <2>1. d \in Devices(run) /\ UNCHANGED <<disk, run, req>>
    BY <1>1 DEF Publish, StopDevice, TypeOK
  <2>2. Retain(d) \/ UNCHANGED <<retained, excused>>
    BY <1>1 DEF Publish, StopDevice
  <2> QED
    BY <2>1, <2>2, GhostRetain, GhostUnchanged
<1>2. CASE Restart \/ UNCHANGED vars
  <2>1. UNCHANGED <<disk, run, req, retained, excused>>
    BY <1>2 DEF Restart, vars
  <2> QED
    BY <2>1, GhostUnchanged
<1> QED
  BY <1>1, <1>2, GhostSave, GhostPurge, GhostTimeOut, GhostEnds, GhostBoot DEF Next

-----------------------------------------------------------------------------
LEMMA InitInv == Init => IInv
<1> SUFFICES ASSUME Init PROVE IInv
  OBVIOUS
<1>1. AlwaysStarts
  BY InstalledAssumption DEF Init, AlwaysStarts
<1>2. \A d \in Extras : d # Primary
  BY Constants
<1>3. TokensKept
  BY <1>2 DEF Init, TokensKept
<1>4. GhostInv
  BY DEF Init, GhostInv
<1> QED
  BY <1>1, <1>3, <1>4, InitTyped DEF IInv

\* Of a configuration that runs, the namespaces are those of the file.
LEMMA InvExplains == IInv => GhostsExplained
<1> SUFFICES ASSUME IInv, run = disk, Unpurged = {}
             PROVE  retained \ InUse(disk) \subseteq excused
  BY DEF GhostsExplained
<1>1. InUse(run) = InUse(disk)
  BY DEF InUse, Devices, PrefixOf
<1> QED
  BY <1>1 DEF IInv, GhostInv

-----------------------------------------------------------------------------
(* The voice entities.                                                      *)

Delete(i) == [op |-> "delete", id |-> i]
Add(i) == [op |-> "add", id |-> i]

Running == {"calling", "clearing", "writing", "noting"}

\* The file and the section a start runs with.  Nothing saves before it is over.
FileInv ==
    /\ boot \in Running => booted.enabled
    /\ boot \in {"calling", "clearing"} => section = booted
    /\ boot = "noting" => section.plan = booted.plan /\ section.enabled
    /\ boot = "writing" => Entities(section.plan) = {}

\* What the calls still to be made will put right.
TodoInv(i) ==
    /\ Add(i) \in todo => i \in Entities(booted.plan)
    /\ i \in Entities(booted.plan) /\ Delete(i) \in todo =>
         Add(i) \in todo /\ booted.modified
    /\ i \notin missed =>
         IF i \in Entities(booted.plan)
         THEN /\ Add(i) \in todo \/ cloud[i] = booted.plan[i]
              /\ Delete(i) \in todo \/ cloud[i] \in {Unnamed, booted.plan[i]}
         ELSE cloud[i] = Unnamed \/ Delete(i) \in todo

\* What the next start can rely on: an entity has the name of the file unless that is
\* flagged; it is in the snapshot, or the file has it and is enabled.
KnownInv(i) ==
    i \notin missed /\ cloud[i] # Unnamed =>
        /\ i \in Entities(section.plan) /\ ~section.modified /\ boot \notin Running
             => cloud[i] = section.plan[i]
        /\ boot = "done" => i \in snapshot
        /\ boot = "off" => i \in snapshot \/ (i \in Entities(section.plan) /\ section.enabled)
        /\ boot = "calling" => i \in snapshot \/ i \in Entities(section.plan)

CloudInv ==
    /\ CloudTypeOK /\ FileInv
    /\ \A i \in Ids :
         /\ boot = "calling" => TodoInv(i)
         /\ boot \in Running \ {"calling"} \/ (boot = "done" /\ booted.enabled) =>
              i \in missed \/ cloud[i] = booted.plan[i]
         /\ KnownInv(i)

-----------------------------------------------------------------------------
\* The invariant says what it is for.
LEMMA CloudKept == CloudInv => EntitiesKept
<1> SUFFICES ASSUME CloudInv PROVE EntitiesKept
  OBVIOUS
<1>1. CloudAsPlanned
  BY DEF CloudInv, CloudAsPlanned
<1>2. ASSUME NEW i \in Ids \ missed, cloud[i] # Unnamed, boot # "writing"
      PROVE  i \in snapshot \/ i \in Entities(section.plan)
  <2>1. CASE boot \in {"clearing", "noting"}
    <3>1. cloud[i] = booted.plan[i] /\ section.plan = booted.plan
      BY <1>2, <2>1 DEF CloudInv, FileInv, Running
    <3> QED
      BY <1>2, <3>1 DEF Entities
  <2>2. boot \in Boots
    BY DEF CloudInv, CloudTypeOK
  <2> QED
    BY <1>2, <2>1, <2>2 DEF CloudInv, KnownInv, Boots
<1> QED
  BY <1>1, <1>2 DEF CloudInv, EntitiesKept, NoneForgotten

LEMMA RegisterType ==
    ASSUME CloudTypeOK, NEW s \in Section
    PROVE  Planned(s) \subseteq Calls /\ (Planned(s) # {} => s.enabled)
BY DEF Planned, Unplanned, Register, Calls, Entities, CloudTypeOK

LEMMA CloudBegins == CloudInit => CloudInv
<1> SUFFICES ASSUME CloudInit PROVE CloudInv
  OBVIOUS
<1>1. /\ section \in Section /\ booted = section /\ snapshot = {} /\ missed = {}
      /\ \A i \in Ids : cloud[i] = Unnamed
      /\ cloud \in [Ids -> Names \cup {Unnamed}]
      /\ boot = Begun(section) /\ todo = Planned(section) /\ edits \in 0..MaxEdits
  BY DEF CloudInit
<1>2. todo \subseteq Calls /\ (todo # {} => boot = "calling" /\ booted.enabled)
  BY <1>1 DEF Planned, Unplanned, Register, Calls, Entities, Begun
<1>3. CloudTypeOK
  BY <1>1, <1>2 DEF CloudTypeOK, Begun, Boots
<1>4. FileInv
  BY <1>1 DEF FileInv, Begun, Running
<1>5. ASSUME NEW i \in Ids, boot = "calling" PROVE TodoInv(i)
  <2>1. todo = Unplanned(section.plan) \cup Register(section) /\ Unplanned(section.plan) = {}
    BY <1>1, <1>5 DEF Planned, Begun, Unplanned
  <2>2. Add(i) \in todo <=> i \in Entities(booted.plan)
    BY <1>1, <2>1 DEF Add, Register
  <2>3. ~section.modified
    BY DEF CloudInit
  <2>4. Delete(i) \notin todo
    BY <2>1, <2>3 DEF Delete, Register
  <2> QED
    BY <1>1, <2>2, <2>4 DEF TodoInv
<1>6. ASSUME NEW i \in Ids, boot = "done" /\ booted.enabled PROVE FALSE
  BY <1>1, <1>6 DEF Begun
<1> QED
  BY <1>1, <1>3, <1>4, <1>5, <1>6 DEF CloudInv, KnownInv, Begun, Running

-----------------------------------------------------------------------------
LEMMA CloudBootStep ==
    ASSUME CloudInv, boot = "off", CloudBoot
    PROVE  CloudInv'
<1>1. /\ section \in Section /\ booted' = section /\ boot' = Begun(section)
      /\ todo' = Planned(section) /\ UNCHANGED <<section, snapshot, cloud, edits, missed>>
  BY DEF CloudBoot, CloudInv, CloudTypeOK
<1>2. CloudTypeOK'
  BY <1>1, RegisterType DEF CloudInv, CloudTypeOK, Begun, Boots, Planned
<1>3. FileInv'
  BY <1>1 DEF FileInv, Begun, Running
<1>4. ASSUME NEW i \in Ids, boot' = "calling" PROVE TodoInv(i)'
  <2>1. todo' = Unplanned(section.plan) \cup Register(section)
    BY <1>1, <1>4 DEF Planned, Begun
  <2>2. Add(i) \in todo' <=> i \in Entities(section.plan)
    BY <2>1 DEF Add, Register, Unplanned
  <2>3. i \in Entities(section.plan) => (Delete(i) \in todo' <=> section.modified)
    BY <2>1 DEF Delete, Register, Unplanned
  <2>4. i \in snapshot /\ i \notin Entities(section.plan) => Delete(i) \in todo'
    BY <2>1 DEF Delete, Unplanned
  <2>5. KnownInv(i)
    BY DEF CloudInv
  <2>6. Entities(booted.plan)' = Entities(section.plan)
    BY <1>1 DEF Entities
  <2>7. ASSUME i \notin missed, i \in Entities(section.plan)
        PROVE  Delete(i) \in todo' \/ cloud[i] \in {Unnamed, section.plan[i]}
    BY <2>3, <2>5, <2>7 DEF KnownInv, Running
  <2>8. ASSUME i \notin missed, i \notin Entities(section.plan)
        PROVE  cloud[i] = Unnamed \/ Delete(i) \in todo'
    BY <2>4, <2>5, <2>8 DEF KnownInv
  <2> QED
    BY <1>1, <2>2, <2>3, <2>6, <2>7, <2>8 DEF TodoInv, Add, Delete
<1>5. ASSUME NEW i \in Ids PROVE KnownInv(i)'
  BY <1>1 DEF CloudInv, KnownInv, Begun, Running, Entities
<1> QED
  BY <1>1, <1>2, <1>3, <1>4, <1>5 DEF CloudInv, Begun, Running

LEMMA CallStep ==
    ASSUME CloudInv, Call
    PROVE  CloudInv'
<1>1. PICK c \in todo :
         /\ c.op = "add" => Delete(c.id) \notin todo
         /\ todo' = todo \ {c}
         /\ \/ cloud' = Done(c) /\ UNCHANGED missed
            \/ cloud' \in {cloud, Done(c)} /\ missed' = missed \cup {c.id}
  BY DEF Call, Delete
<1>2. boot = "calling" /\ UNCHANGED <<section, booted, snapshot, boot, edits>>
  BY DEF Call
<1>3. c \in Calls /\ booted.enabled /\ section = booted
  BY <1>1, <1>2 DEF CloudInv, CloudTypeOK, FileInv, Running
<1>4. PICK j \in Ids : c = Delete(j) \/ c = Add(j)
  BY <1>3 DEF Calls, Delete, Add
<1>5. c.id = j /\ (c.op = "delete" <=> c = Delete(j)) /\ (c.op = "add" <=> c = Add(j))
  BY <1>4 DEF Delete, Add
<1>6. /\ cloud \in [Ids -> Names \cup {Unnamed}] /\ booted.plan \in [Ids -> Names \cup {Unnamed}]
      /\ missed \subseteq Ids
  BY DEF CloudInv, CloudTypeOK, Section, Plan
<1>7. /\ c = Delete(j) => Done(c) = [cloud EXCEPT ![j] = Unnamed]
      /\ c = Add(j) => Done(c) = IF cloud[j] = Unnamed THEN [cloud EXCEPT ![j] = booted.plan[j]]
                                 ELSE cloud
  BY <1>4, <1>5 DEF Done, Delete, Add
<1>8. cloud' \in [Ids -> Names \cup {Unnamed}] /\ missed' \subseteq Ids /\ missed \subseteq missed'
  BY <1>1, <1>4, <1>5, <1>6, <1>7
<1>9. CloudTypeOK'
  BY <1>1, <1>2, <1>3, <1>8 DEF CloudInv, CloudTypeOK
<1>10. FileInv'
  BY <1>2, <1>3 DEF CloudInv, FileInv, Running
<1>11. ASSUME NEW i \in Ids, i # j PROVE TodoInv(i)' /\ KnownInv(i)'
  <2>1. cloud'[i] = cloud[i] /\ (i \in missed <=> i \in missed')
    BY <1>1, <1>4, <1>5, <1>6, <1>7, <1>11
  <2>2. Add(i) # c /\ Delete(i) # c
    BY <1>4, <1>11 DEF Add, Delete
  <2>3. (Add(i) \in todo <=> Add(i) \in todo') /\ (Delete(i) \in todo <=> Delete(i) \in todo')
    BY <1>1, <2>2
  <2>4. TodoInv(i) /\ KnownInv(i)
    BY <1>2 DEF CloudInv
  <2> QED
    BY <1>2, <2>1, <2>3, <2>4 DEF TodoInv, KnownInv, Entities, Add, Delete
<1>12. TodoInv(j) /\ KnownInv(j)
  BY <1>2 DEF CloudInv
<1>13. CASE c = Delete(j)
  <2>1. /\ Delete(j) \notin todo' /\ (Add(j) \in todo' <=> Add(j) \in todo)
        /\ Delete(j) \in todo
    BY <1>1, <1>13 DEF Add, Delete
  <2>2. j \in missed' \/ cloud'[j] = Unnamed
    BY <1>1, <1>5, <1>6, <1>7, <1>13
  <2>3. TodoInv(j)'
    BY <1>2, <1>12, <2>1, <2>2 DEF TodoInv, Entities, Add, Delete
  <2>4. KnownInv(j)'
    BY <2>2 DEF KnownInv
  <2> QED
    BY <1>2, <1>9, <1>10, <1>11, <2>3, <2>4 DEF CloudInv, Running
<1>14. CASE c = Add(j)
  <2>1. /\ Add(j) \notin todo' /\ Delete(j) \notin todo /\ Delete(j) \notin todo'
        /\ j \in Entities(booted.plan)
    BY <1>1, <1>5, <1>12, <1>14 DEF TodoInv
  <2>2. j \in missed' \/ cloud'[j] = booted.plan[j]
    <3>1. j \in missed \/ cloud[j] \in {Unnamed, booted.plan[j]}
      BY <1>12, <2>1 DEF TodoInv
    <3> QED
      BY <1>1, <1>5, <1>6, <1>7, <1>8, <1>14, <3>1
  <2>3. TodoInv(j)'
    BY <1>2, <2>1, <2>2 DEF TodoInv, Entities, Add, Delete
  <2>4. KnownInv(j)'
    BY <1>2, <1>3, <2>1 DEF KnownInv, Running, Entities
  <2> QED
    BY <1>2, <1>9, <1>10, <1>11, <2>3, <2>4 DEF CloudInv, Running
<1> QED
  BY <1>4, <1>13, <1>14

LEMMA RegisteredStep ==
    ASSUME CloudInv, Registered
    PROVE  CloudInv'
<1>1. /\ boot = "calling" /\ todo = {} /\ boot' \in {"clearing", "noting"}
      /\ UNCHANGED <<section, booted, snapshot, cloud, todo, edits, missed>>
  BY DEF Registered
<1>2. CloudTypeOK' /\ FileInv'
  BY <1>1 DEF CloudInv, CloudTypeOK, FileInv, Boots, Running
<1>3. ASSUME NEW i \in Ids PROVE i \in missed \/ cloud[i] = booted.plan[i]
  <2>1. TodoInv(i)
    BY <1>1 DEF CloudInv
  <2>2. booted.plan \in [Ids -> Names \cup {Unnamed}]
    BY DEF CloudInv, CloudTypeOK, Section, Plan
  <2> QED
    BY <1>1, <2>1, <2>2 DEF TodoInv, Entities
<1> QED
  BY <1>1, <1>2, <1>3 DEF CloudInv, KnownInv, Running

LEMMA TruncateStep ==
    ASSUME CloudInv, Truncate
    PROVE  CloudInv'
<1>1. /\ boot = "clearing" /\ boot' = "writing" /\ section' = BlankSection
      /\ UNCHANGED <<booted, snapshot, cloud, todo, edits, missed>>
  BY DEF Truncate
<1>2. BlankSection \in Section /\ Entities(BlankSection.plan) = {}
  BY DEF BlankSection, Section, Plan, Entities
<1>3. CloudTypeOK'
  BY <1>1, <1>2 DEF CloudInv, CloudTypeOK, Boots
<1>4. FileInv'
  BY <1>1, <1>2 DEF CloudInv, FileInv, Running, Entities
<1> QED
  BY <1>1, <1>3, <1>4 DEF CloudInv, KnownInv, Running

LEMMA RewriteStep ==
    ASSUME CloudInv, Rewrite
    PROVE  CloudInv'
<1>1. /\ boot = "writing" /\ boot' = "noting" /\ booted.enabled /\ booted \in Section
      /\ section' = [enabled |-> booted.enabled, modified |-> FALSE, plan |-> booted.plan]
      /\ UNCHANGED <<booted, snapshot, cloud, todo, edits, missed>>
  BY DEF Rewrite, CloudInv, CloudTypeOK, FileInv, Running
<1>2. section' \in Section
  BY <1>1 DEF Section
<1>3. CloudTypeOK' /\ FileInv'
  BY <1>1, <1>2 DEF CloudInv, CloudTypeOK, FileInv, Boots, Running
<1> QED
  BY <1>1, <1>3 DEF CloudInv, KnownInv, Running

LEMMA NoteStep ==
    ASSUME CloudInv, Note
    PROVE  CloudInv'
<1>1. /\ boot = "noting" /\ boot' = "done"
      /\ UNCHANGED <<section, booted, cloud, todo, edits>>
      /\ section.plan = booted.plan /\ section.enabled
  BY DEF Note, CloudInv, FileInv
<1>2. /\ snapshot' \subseteq Ids /\ missed' \subseteq Ids /\ missed \subseteq missed'
      /\ \A i \in Entities(booted.plan) : i \in missed' \/ i \in snapshot'
  BY DEF Note, CloudInv, CloudTypeOK, Entities
<1>3. CloudTypeOK' /\ FileInv'
  BY <1>1, <1>2 DEF CloudInv, CloudTypeOK, FileInv, Boots, Running
<1>4. \A i \in Ids : i \in missed' \/ cloud[i] = booted.plan[i]
  BY <1>1, <1>2 DEF CloudInv, Running
<1>5. ASSUME NEW i \in Ids PROVE KnownInv(i)'
  BY <1>1, <1>2, <1>4 DEF KnownInv, Entities
<1> QED
  BY <1>1, <1>3, <1>4, <1>5 DEF CloudInv, Running

LEMMA EditStep ==
    ASSUME CloudInv, Edit
    PROVE  CloudInv'
<1>1. PICK p \in Plan, e \in BOOLEAN :
         section' = [enabled |-> e, modified |-> Flagged(p), plan |-> p]
  BY DEF Edit
<1>2. /\ boot = "done" /\ edits > 0 /\ edits' = edits - 1
      /\ UNCHANGED <<booted, snapshot, cloud, boot, todo, missed>>
  BY DEF Edit
<1>3. section \in Section /\ edits \in 0..MaxEdits /\ MaxEdits \in Nat
  BY CloudAssumption DEF CloudInv, CloudTypeOK
<1>4. Flagged(p) \in BOOLEAN
  BY <1>3 DEF Flagged, Section
<1>5. section' \in Section /\ edits' \in 0..MaxEdits
  <2>1. section' \in Section
    BY <1>1, <1>4 DEF Section
  <2>2. edits' \in 0..MaxEdits
    BY <1>2, <1>3
  <2> QED
    BY <2>1, <2>2
<1>6. CloudTypeOK' /\ FileInv'
  BY <1>2, <1>5 DEF CloudInv, CloudTypeOK, FileInv, Running
<1>7. ~section'.modified => section'.plan = section.plan /\ ~section.modified
  <2>1. section'.modified = Flagged(p) /\ section'.plan = p
    BY <1>1
  <2> QED
    BY <2>1 DEF Flagged
<1>8. ASSUME NEW i \in Ids PROVE KnownInv(i)'
  BY <1>2, <1>7 DEF CloudInv, KnownInv, Entities
<1> QED
  BY <1>2, <1>6, <1>8 DEF CloudInv, Running

LEMMA CloudEndStep ==
    ASSUME CloudInv, CloudEnd
    PROVE  CloudInv'
<1>1. /\ boot' = "off" /\ todo' = {}
      /\ missed' = missed \cup (IF boot = "writing" THEN Entities(booted.plan) ELSE {})
      /\ UNCHANGED <<section, booted, snapshot, cloud, edits>>
  BY DEF CloudEnd
<1>2. CloudTypeOK' /\ FileInv'
  BY <1>1 DEF CloudInv, CloudTypeOK, FileInv, Boots, Running, Entities
<1>3. ASSUME NEW i \in Ids, i \notin missed', cloud[i] # Unnamed
      PROVE  /\ i \in snapshot \/ (i \in Entities(section.plan) /\ section.enabled)
             /\ i \in Entities(section.plan) /\ ~section.modified => cloud[i] = section.plan[i]
  <2>1. boot \in Boots /\ i \notin missed /\ KnownInv(i)
    BY <1>1, <1>3 DEF CloudInv, CloudTypeOK
  <2>2. CASE boot = "writing"
    BY <1>1, <1>3, <2>1, <2>2 DEF CloudInv, Running, Entities
  <2>3. CASE boot \in {"clearing", "noting"}
    <3>1. cloud[i] = booted.plan[i] /\ section.plan = booted.plan /\ section.enabled
      BY <2>1, <2>3 DEF CloudInv, FileInv, Running
    <3> QED
      BY <1>3, <3>1 DEF Entities
  <2>4. CASE boot \in {"done", "off"}
    BY <1>3, <2>1, <2>4 DEF KnownInv, Running
  <2>5. CASE boot = "calling"
    <3>1. section = booted /\ section.enabled /\ TodoInv(i)
      BY <2>5 DEF CloudInv, FileInv, Running
    <3> QED
      BY <1>3, <2>1, <2>5, <3>1 DEF KnownInv, TodoInv
  <2> QED
    BY <2>1, <2>2, <2>3, <2>4, <2>5 DEF Boots
<1>4. ASSUME NEW i \in Ids PROVE KnownInv(i)'
  BY <1>1, <1>3 DEF KnownInv, Entities
<1> QED
  BY <1>1, <1>2, <1>4 DEF CloudInv, Running

LEMMA CloudUnchanged ==
    ASSUME CloudInv, UNCHANGED cloudVars
    PROVE  CloudInv'
BY DEF CloudInv, cloudVars, CloudTypeOK, FileInv, TodoInv, KnownInv, Entities, Running

-----------------------------------------------------------------------------
(* The whole life.                                                          *)

\* The file without which a start goes wrong: one that the start accepts, with the
\* tokens that were typed.
Kept(c) == Accepts(c) /\ \A d \in Extras : c.dev[d] # None => c.dev[d].token = typed[d]

\* What a start writes back is what it read: nothing saves in between.
StartInv ==
    /\ boot \in {"calling", "clearing"} => run = disk
    /\ boot = "writing" => run \in Config /\ Kept(run)

LifeInv == IInv /\ StartInv

-----------------------------------------------------------------------------
(* The steps of ConfigSave.                                                 *)

LEMMA OfSaves ==
    ASSUME IInv, [Next]_vars
    PROVE  IInv'
BY TypeStep, FileSafe, GhostStep DEF IInv

LEMMA StartUnchanged ==
    ASSUME StartInv, UNCHANGED <<disk, run, typed, boot>>
    PROVE  StartInv'
BY DEF StartInv, Kept, Accepts, Complete, Apart, Devices, PrefixOf

LEMMA Served ==
    ASSUME LifeInv, Serve
    PROVE  LifeInv'
<1>1. Next /\ UNCHANGED <<disk, run, typed, boot>>
  BY DEF Serve, Next, Purge, TimeOut, Restart, StopDevice, Publish, cloudVars
<1> QED
  BY <1>1, OfSaves, StartUnchanged DEF LifeInv

LEMMA Ended ==
    ASSUME LifeInv, LifeEnds
    PROVE  LifeInv'
<1>1. Next /\ boot' = "off"
  BY DEF LifeEnds, Next, CloudEnd
<1>2. StartInv'
  BY <1>1 DEF StartInv
<1> QED
  BY <1>1, <1>2, OfSaves DEF LifeInv

LEMMA Started ==
    ASSUME LifeInv, LifeBoot
    PROVE  LifeInv'
<1>1. Next /\ Boot
  BY DEF LifeBoot, Next
<1>2. Accepts(disk) /\ run' = disk /\ disk' = disk /\ phase' = "up"
  BY <1>1 DEF Boot, LifeInv, IInv, AlwaysStarts
<1>3. boot' \in {"calling", "done"}
  BY <1>2 DEF LifeBoot, CloudBoot, Begun
<1>4. StartInv'
  BY <1>2, <1>3 DEF StartInv
<1> QED
  BY <1>1, <1>4, OfSaves DEF LifeInv

LEMMA SavedDevices ==
    ASSUME LifeInv, NEW r \in Requests, SaveDevices(r)
    PROVE  LifeInv'
<1>1. Next /\ boot' = "done"
  BY DEF SaveDevices, Next, cloudVars
<1>2. StartInv'
  BY <1>1 DEF StartInv
<1> QED
  BY <1>1, <1>2, OfSaves DEF LifeInv

-----------------------------------------------------------------------------
(* The voice section.                                                       *)

LEMMA SavedVoice ==
    ASSUME LifeInv, NEW r \in Requests, SaveVoice(r)
    PROVE  LifeInv'
<1> DEFINE mine == [todo |-> Stale(disk), begun |-> FALSE]
<1>1. /\ boot' = "done" /\ req[r] = None
      /\ UNCHANGED <<disk, run, phase, live, retained, saves, faults, typed, excused, cut>>
  BY DEF SaveVoice, Edit
<1>2. /\ due' \in BOOLEAN
      /\ req' = req \/ req' = [req EXCEPT ![r] = mine]
  BY DEF SaveVoice, LifeInv, IInv, TypeOK
<1>3. mine \in Cleanup
  BY StaleType DEF Cleanup, LifeInv, IInv
<1>4. req \in [Requests -> Cleanup \cup {None}]
  BY DEF LifeInv, IInv, TypeOK
<1>5. req' \in [Requests -> Cleanup \cup {None}]
  BY <1>2, <1>3, <1>4
<1>6. TypeOK'
  BY <1>1, <1>2, <1>5 DEF LifeInv, IInv, TypeOK, Devices
<1>7. AlwaysStarts' /\ TokensKept'
  BY <1>1 DEF LifeInv, IInv, AlwaysStarts, TokensKept, Accepts, Complete, Apart, Devices, PrefixOf
<1>8. Unpurged \subseteq Unpurged'
  <2>1. \A s \in Requests : req[s] # None => req'[s] = req[s]
    BY <1>1, <1>2, <1>4
  <2> QED
    BY <2>1 DEF Unpurged
<1>9. GhostInv'
  <2>1. InUse(run)' = InUse(run) /\ InUse(disk)' = InUse(disk)
    BY <1>1 DEF InUse, Devices, PrefixOf
  <2> QED
    BY <1>1, <1>8, <2>1 DEF LifeInv, IInv, GhostInv
<1>10. StartInv'
  BY <1>1 DEF StartInv
<1> QED
  BY <1>6, <1>7, <1>9, <1>10 DEF LifeInv, IInv

-----------------------------------------------------------------------------
(* The file that a start rewrites.                                          *)

LEMMA BlankStarts == Blank \in Config /\ Accepts(Blank) /\ \A d \in Extras : Blank.dev[d] = None
<1>1. Blank \in Config /\ \A d \in Extras : Blank.dev[d] = None
  BY DefaultAssumption DEF Blank, Config
<1>2. Devices(Blank) = {Primary}
  BY <1>1 DEF Devices
<1> QED
  BY <1>1, <1>2 DEF Accepts, Complete, Apart

\* Everything of TypeOK but the file and the excuses.
LEMMA FileTyped ==
    ASSUME TypeOK, disk' \in Config, excused' \subseteq AllPrefixes,
           UNCHANGED <<run, phase, live, req, due, retained, saves, faults, typed, cut>>
    PROVE  TypeOK'
BY DEF TypeOK, Devices

LEMMA Truncated ==
    ASSUME LifeInv, Truncate, disk' = Blank, excused' = excused \cup retained,
           UNCHANGED <<run, phase, live, req, due, retained, saves, faults, typed, cut>>
    PROVE  LifeInv'
<1>1. boot = "clearing" /\ boot' = "writing"
  BY DEF Truncate
<1>2. run = disk
  BY <1>1 DEF LifeInv, StartInv
<1>3. TypeOK'
  BY BlankStarts, FileTyped DEF LifeInv, IInv, TypeOK
<1>4. AlwaysStarts' /\ TokensKept'
  <2>1. Accepts(disk)'
    BY BlankStarts DEF Accepts, Complete, Apart, Devices, PrefixOf
  <2> QED
    BY <2>1, BlankStarts DEF LifeInv, IInv, AlwaysStarts, TokensKept
<1>5. GhostInv'
  BY DEF GhostInv
<1>6. StartInv'
  <2>1. run' \in Config
    BY DEF LifeInv, IInv, TypeOK
  <2>2. Kept(run)'
    BY <1>2 DEF Kept, LifeInv, IInv, AlwaysStarts, TokensKept, Accepts, Complete, Apart,
                Devices, PrefixOf
  <2> QED
    BY <1>1, <2>1, <2>2 DEF StartInv
<1> QED
  BY <1>3, <1>4, <1>5, <1>6 DEF LifeInv, IInv

LEMMA Rewritten ==
    ASSUME LifeInv, Rewrite, disk' = run, excused' = excused \ InUse(run),
           UNCHANGED <<run, phase, live, req, due, retained, saves, faults, typed, cut>>
    PROVE  LifeInv'
<1>1. boot = "writing" /\ boot' = "noting"
  BY DEF Rewrite
<1>2. run \in Config /\ Kept(run)
  BY <1>1 DEF LifeInv, StartInv
<1>3. TypeOK'
  BY <1>2, FileTyped DEF LifeInv, IInv, TypeOK
<1>4. AlwaysStarts' /\ TokensKept'
  <2>1. Accepts(disk)'
    BY <1>2 DEF Kept, Accepts, Complete, Apart, Devices, PrefixOf
  <2> QED
    BY <1>2, <2>1 DEF Kept, LifeInv, IInv, AlwaysStarts, TokensKept
<1>5. GhostInv'
  <2>1. InUse(run)' = InUse(run) /\ InUse(disk)' = InUse(run) /\ Unpurged' = Unpurged
    BY DEF InUse, Devices, PrefixOf, Unpurged
  <2> QED
    BY <2>1 DEF LifeInv, IInv, GhostInv
<1>6. StartInv'
  BY <1>1 DEF StartInv
<1> QED
  BY <1>3, <1>4, <1>5, <1>6 DEF LifeInv, IInv

-----------------------------------------------------------------------------
LEMMA Aside ==
    ASSUME LifeInv, StartStep \/ Connects \/ LinkStep \/ UNCHANGED lifeVars
    PROVE  LifeInv'
<1>1. UNCHANGED vars
  BY DEF StartStep, Connects, LinkStep, lifeVars
<1>2. UNCHANGED boot \/ (boot = "calling" /\ boot' \in {"clearing", "noting"}) \/ boot' = "done"
  BY DEF StartStep, Connects, LinkStep, Call, Note, Registered, lifeVars, cloudVars
<1>3. StartInv'
  <2>1. UNCHANGED <<disk, run, typed>>
    BY <1>1 DEF vars
  <2>2. CASE UNCHANGED boot
    BY <2>1, <2>2, StartUnchanged DEF LifeInv
  <2>3. CASE boot = "calling" /\ boot' \in {"clearing", "noting"}
    BY <2>1, <2>3 DEF LifeInv, StartInv
  <2>4. CASE boot' = "done"
    BY <2>4 DEF StartInv
  <2> QED
    BY <1>2, <2>2, <2>3, <2>4
<1> QED
  BY <1>1, <1>3, OfSaves DEF LifeInv

LEMMA LifeInductive == LifeSpec => []LifeInv
<1>1. LifeInit => LifeInv
  <2> SUFFICES ASSUME LifeInit PROVE LifeInv
    OBVIOUS
  <2>1. IInv
    BY InitInv DEF LifeInit
  <2>2. StartInv
    BY DEF LifeInit, Init, CloudInit, Begun, StartInv
  <2> QED
    BY <2>1, <2>2 DEF LifeInv
<1>2. LifeInv /\ [LifeNext]_lifeVars => LifeInv'
  <2> SUFFICES ASSUME LifeInv, [LifeNext]_lifeVars PROVE LifeInv'
    OBVIOUS
  <2>1. CASE FileStep
    BY <2>1, Truncated, Rewritten DEF FileStep
  <2> QED
    BY <2>1, Served, Ended, Started, SavedDevices, SavedVoice, Aside DEF LifeNext
<1> QED
  BY <1>1, <1>2, PTL DEF LifeSpec

\* on_startup, handle_config_save: between saves, starts that rewrite the file and
\* processes that end anywhere, the file is always one that starts, and the token of
\* an extra device is the one last typed.
THEOREM LifeFileTheorem == LifeSpec => []FileHolds
BY LifeInductive, PTL DEF LifeInv, IInv, FileHolds

\* The same holds of what is retained at the broker: whichever of the steps left it
\* there, it is in the namespaces in use or accounted for.
THEOREM LifeGhostsTheorem == LifeSpec => []GhostsExplained
<1>1. LifeInv => GhostsExplained
  BY InvExplains DEF LifeInv
<1> QED
  BY <1>1, LifeInductive, PTL

-----------------------------------------------------------------------------
(* The voice entities.                                                      *)

\* A start begins from the end of the one before.
EntitiesInv == CloudInv /\ (phase = "down" => boot = "off")

LEMMA EntitiesInductive == LifeSpec => []EntitiesInv
<1>1. LifeInit => EntitiesInv
  BY CloudBegins DEF LifeInit, Init, EntitiesInv
<1>2. EntitiesInv /\ [LifeNext]_lifeVars => EntitiesInv'
  <2> SUFFICES ASSUME EntitiesInv, [LifeNext]_lifeVars PROVE EntitiesInv'
    OBVIOUS
  <2>1. ASSUME NEW r \in Requests, SaveDevices(r) PROVE EntitiesInv'
    <3>1. UNCHANGED cloudVars /\ phase' = phase
      BY <2>1 DEF SaveDevices, Save
    <3> QED
      BY <3>1, CloudUnchanged DEF EntitiesInv, cloudVars
  <2>2. ASSUME NEW r \in Requests, SaveVoice(r) PROVE EntitiesInv'
    <3>1. Edit /\ phase' = phase /\ boot' = boot
      BY <2>2 DEF SaveVoice, Edit
    <3> QED
      BY <3>1, EditStep DEF EntitiesInv
  <2>3. CASE Serve
    <3>1. UNCHANGED cloudVars /\ (phase' = phase \/ phase' = "leaving")
      BY <2>3 DEF Serve, Purge, TimeOut, Restart, StopDevice, Publish
    <3> QED
      BY <3>1, CloudUnchanged DEF EntitiesInv, cloudVars
  <2>4. CASE LifeEnds
    <3>1. CloudEnd /\ boot' = "off"
      BY <2>4 DEF LifeEnds, CloudEnd
    <3> QED
      BY <3>1, CloudEndStep DEF EntitiesInv
  <2>5. CASE LifeBoot
    <3>1. boot = "off" /\ phase' # "down" /\ (CloudBoot \/ UNCHANGED cloudVars)
      BY <2>5 DEF LifeBoot, Boot, EntitiesInv
    <3> QED
      BY <3>1, CloudBootStep, CloudUnchanged DEF EntitiesInv
  <2>6. CASE StartStep \/ Connects
    <3>1. (Call \/ Note \/ Registered) /\ phase' = phase /\ boot # "off"
      BY <2>6 DEF StartStep, Connects, vars, Call, Note, Registered
    <3> QED
      BY <3>1, CallStep, NoteStep, RegisteredStep DEF EntitiesInv
  <2>7. CASE FileStep
    <3>1. (Truncate \/ Rewrite) /\ phase' = phase /\ boot # "off"
      BY <2>7 DEF FileStep, Truncate, Rewrite
    <3> QED
      BY <3>1, TruncateStep, RewriteStep DEF EntitiesInv
  <2>8. CASE LinkStep \/ UNCHANGED lifeVars
    <3>1. UNCHANGED cloudVars /\ phase' = phase
      BY <2>8 DEF LinkStep, lifeVars, vars
    <3> QED
      BY <3>1, CloudUnchanged DEF EntitiesInv, cloudVars
  <2> QED
    BY <2>1, <2>2, <2>3, <2>4, <2>5, <2>6, <2>7, <2>8 DEF LifeNext
<1> QED
  BY <1>1, <1>2, PTL DEF LifeSpec

\* setup_bemfa, BemfaClient: wherever starts are cut short, whatever is renamed or
\* unbound in between, an entity for which no call failed has the name of the plan, and
\* none at the cloud is out of the reach of the next start.
THEOREM EntitiesKeptTheorem == LifeSpec => []EntitiesKept
<1>1. EntitiesInv => EntitiesKept
  BY CloudKept DEF EntitiesInv
<1> QED
  BY <1>1, EntitiesInductive, PTL

-----------------------------------------------------------------------------
(* The connection.                                                          *)

\* A chain of pings belongs to a client that is not being replaced; a count never
\* stands at its limit; where the thread is to connect there is nothing to connect to.
LinkInv ==
    /\ LinkTypeOK
    /\ chains = IF job = "no" THEN 1 ELSE 0
    /\ job # "no" => recv # "waiting"
    /\ lost < MaxLost
    /\ job \in {"off", "opening"} => ~client /\ ~connected /\ session = "none"
    /\ session = "half" => client

LEMMA Spent == ASSUME LinkInv, Spend PROVE left' \in 0..Budget
BY LinkAssumption DEF LinkInv, LinkTypeOK, Spend

LEMMA NetworkStep ==
    ASSUME LinkInv, NetDown \/ NetUp \/ OnConnect \/ OnDisconnect
    PROVE  LinkInv'
<1>1. CASE NetDown
  BY <1>1, Spent DEF NetDown, LinkInv, LinkTypeOK, switch
<1>2. CASE NetUp
  BY <1>2, Spent DEF NetUp, LinkInv, LinkTypeOK, ping, switch, talk
<1>3. CASE OnConnect
  BY <1>3 DEF OnConnect, FirstState, LinkInv, LinkTypeOK, ping
<1>4. CASE OnDisconnect
  BY <1>4 DEF OnDisconnect, LinkInv, LinkTypeOK, ping, switch, talk
<1> QED
  BY <1>1, <1>2, <1>3, <1>4

LEMMA PingStep ==
    ASSUME LinkInv, Ping \/ Pong \/ Missed
    PROVE  LinkInv'
<1>1. CASE Ping
  BY <1>1 DEF Ping, LinkInv, LinkTypeOK, line, switch, talk
<1>2. CASE Pong
  <2>1. pong' = FALSE /\ UNCHANGED <<line, job, chains, switch, talk, left, slipped>>
    BY <1>2 DEF Pong
  <2>2. (recv' = recv /\ lost' = lost) \/ (recv' = "none" /\ lost' = 0)
    BY <1>2 DEF Pong
  <2>3. lost' \in 0..MaxLost /\ lost' < MaxLost
    BY <2>2, LinkAssumption DEF LinkInv, LinkTypeOK
  <2> QED
    BY <2>1, <2>2, <2>3 DEF LinkInv, LinkTypeOK, line, switch, talk
<1>3. CASE Missed
  <2>1. job = "no"
    BY <1>3 DEF Missed, LinkInv, LinkTypeOK
  <2>2. CASE GiveUp
    BY <1>3, <2>2, LinkAssumption DEF Missed, GiveUp, LinkInv, LinkTypeOK, line, switch, talk
  <2>3. CASE lost + 1 # MaxLost /\ Count
    BY <1>3, <2>1, <2>3, LinkAssumption DEF Missed, Count, LinkInv, LinkTypeOK, line, switch, talk
  <2> QED
    BY <1>3, <2>2, <2>3 DEF Missed
<1> QED
  BY <1>1, <1>2, <1>3

LEMMA ReplaceStep ==
    ASSUME LinkInv, Close \/ Open \/ Reopen \/ LinkEnd
    PROVE  LinkInv'
<1>1. CASE Close
  BY <1>1 DEF Close, Hangs, LinkInv, LinkTypeOK, switch
<1>2. CASE Open \/ Reopen
  BY <1>2, LinkAssumption DEF Open, Reopen, Opened, LinkInv, LinkTypeOK, switch, talk
<1>3. CASE LinkEnd
  <2>1. 0 \in 0..MaxLost /\ 0 < MaxLost
    BY LinkAssumption
  <2> QED
    <3>1. /\ {net, client, connected, pong, active, unsent, shown, grace, recent, slipped}' \subseteq BOOLEAN
          /\ {cache, order}' \subseteq BOOLEAN \cup {Nothing}
      BY <1>3 DEF LinkEnd, Hangs, LinkInv, LinkTypeOK
    <3>0. commands' \in Seq(BOOLEAN)
      BY <1>3 DEF LinkEnd
    <3>2. /\ session' = "none" /\ job' = "off" /\ chains' = 0 /\ recv' = "none" /\ lost' = 0
          /\ left' \in 0..Budget /\ client' = FALSE /\ connected' = FALSE
      BY <1>3 DEF LinkEnd, Hangs, LinkInv, LinkTypeOK
    <3>3. chains' \in 0..2 /\ (chains' = IF job' = "no" THEN 1 ELSE 0)
      BY <3>2
    <3>4. LinkTypeOK'
      BY <2>1, <3>0, <3>1, <3>2, <3>3 DEF LinkTypeOK
    <3> QED
      BY <2>1, <3>2, <3>3, <3>4 DEF LinkInv
<1> QED
  BY <1>1, <1>2, <1>3

LEMMA SendType ==
    ASSUME LinkInv, NEW on \in BOOLEAN, Send(on)
    PROVE  cache' \in BOOLEAN \cup {Nothing} /\ shown' \in BOOLEAN /\ slipped' \in BOOLEAN
BY DEF Send, LinkInv, LinkTypeOK

LEMMA SwitchStep ==
    ASSUME LinkInv,
           SendState \/ Login \/ PortChanges \/ Order(TRUE) \/ Order(FALSE) \/ Take \/ Execute
             \/ TimePasses
    PROVE  LinkInv'
<1>1. CASE SendState
  <2>1. active \in BOOLEAN /\ Send(active)
    BY <1>1 DEF SendState, LinkInv, LinkTypeOK
  <2> QED
    BY <1>1, <2>1, SendType DEF SendState, LinkInv, LinkTypeOK, line, ping, talk
<1>2. CASE Login
  <2>1. Send(FALSE)
    BY <1>2 DEF Login
  <2> QED
    BY <1>2, <2>1, SendType, Spent DEF Login, LinkInv, LinkTypeOK, line, ping, talk
<1>3. CASE PortChanges
  BY <1>3, Spent DEF PortChanges, LinkInv, LinkTypeOK, line, ping, talk
<1>4. ASSUME NEW on \in BOOLEAN, Order(on) PROVE LinkInv'
  BY <1>4, Spent DEF Order, LinkInv, LinkTypeOK, line, ping
<1>5. CASE Take
  <2>1. order \in BOOLEAN /\ commands \in Seq(BOOLEAN)
    BY <1>5 DEF Take, LinkInv, LinkTypeOK
  <2>2. commands' \in Seq(BOOLEAN)
    <3>1. Append(commands, order) \in Seq(BOOLEAN)
      BY <2>1
    <3> QED
      BY <1>5, <2>1, <3>1 DEF Take
  <2>3. /\ slipped' \in BOOLEAN /\ order' = Nothing
        /\ cache' \in BOOLEAN \cup {Nothing} /\ recent' \in BOOLEAN
    BY <1>5 DEF Take, LinkInv, LinkTypeOK
  <2> QED
    BY <1>5, <2>2, <2>3 DEF Take, LinkInv, LinkTypeOK, line, ping
<1>6. CASE Execute
  <2>1. commands \in Seq(BOOLEAN) /\ commands # <<>>
    BY <1>6 DEF Execute, LinkInv, LinkTypeOK
  <2>2. Head(commands) \in BOOLEAN /\ commands' \in Seq(BOOLEAN)
    BY <1>6, <2>1 DEF Execute
  <2>3. {active, unsent, slipped}' \subseteq BOOLEAN
    BY <1>6, <2>2 DEF Execute, LinkInv, LinkTypeOK
  <2> QED
    BY <1>6, <2>2, <2>3 DEF Execute, LinkInv, LinkTypeOK, line, ping
<1>7. CASE TimePasses
  BY <1>7 DEF TimePasses, LinkInv, LinkTypeOK, line, ping, switch
<1> QED
  BY <1>1, <1>2, <1>3, <1>4, <1>5, <1>6, <1>7

LEMMA LinkUnchanged == ASSUME LinkInv, UNCHANGED linkVars PROVE LinkInv'
BY DEF linkVars, line, ping, switch, talk, LinkInv, LinkTypeOK

\* BemfaClient._start_ping_cycle, _reconnect: through losses, reconnects and restarts of
\* any number there is one chain of pings and at most one answer waited for.
THEOREM LinkHoldsTheorem == LifeSpec => []LinkHolds
<1>1. LifeInit => LinkInv
  <2>1. 0 \in 0..MaxLost /\ 0 < MaxLost
    BY LinkAssumption
  <2> QED
    <3> SUFFICES ASSUME LinkInit PROVE LinkInv
      BY DEF LifeInit
    <3>1. /\ {net, client, connected, pong, active, unsent, shown, grace, recent, slipped} \subseteq BOOLEAN
          /\ {cache, order} \subseteq BOOLEAN \cup {Nothing}
      BY DEF LinkInit
    <3>0. commands \in Seq(BOOLEAN)
      BY DEF LinkInit
    <3>2. /\ session = "none" /\ job = "off" /\ chains = 0 /\ recv = "none" /\ lost = 0
          /\ left \in 0..Budget /\ ~client /\ ~connected
      BY DEF LinkInit
    <3>3. chains \in 0..2 /\ (chains = IF job = "no" THEN 1 ELSE 0)
      BY <3>2
    <3>4. LinkTypeOK
      BY <2>1, <3>0, <3>1, <3>2, <3>3 DEF LinkTypeOK
    <3> QED
      BY <2>1, <3>2, <3>3, <3>4 DEF LinkInv
<1>2. LinkInv /\ [LifeNext]_lifeVars => LinkInv'
  <2> SUFFICES ASSUME LinkInv, [LifeNext]_lifeVars PROVE LinkInv'
    OBVIOUS
  <2>1. CASE UNCHANGED linkVars
    BY <2>1, LinkUnchanged
  <2>2. CASE LinkNext \/ SendState \/ Login \/ Execute \/ Open \/ LinkEnd
    BY <2>2, NetworkStep, PingStep, ReplaceStep, SwitchStep DEF LinkNext
  <2> QED
    BY <2>1, <2>2 DEF LifeNext, SaveDevices, SaveVoice, Serve, LifeEnds, LifeBoot, StartStep,
                      Connects, FileStep, LinkStep, DeviceNext, lifeVars
<1>3. LinkInv => LinkHolds
  BY DEF LinkInv, LinkHolds, OneChain
<1> QED
  BY <1>1, <1>2, <1>3, PTL DEF LifeSpec
=============================================================================
