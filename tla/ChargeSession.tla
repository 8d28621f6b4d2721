--------------------------- MODULE ChargeSession ---------------------------
(***************************************************************************)
(* The charge sessions of one port (BLEManager._start_session to           *)
(* _close_session, ble_server/ble_manager.py) and their rows in the        *)
(* database (PortHistory, ble_server/history.py).                          *)
(*                                                                         *)
(* The event loop starts and ends sessions in memory at once and submits   *)
(* the SQL to the thread pool.  The pool has at least five threads and     *)
(* _db_lock is not fair: jobs run in any order.  The result of             *)
(* start_session comes back as a callback in the loop, later still.        *)
(*                                                                         *)
(* A row identifier is reserved when its start_session job is submitted    *)
(* (ids are AUTOINCREMENT: never used again).                              *)
(***************************************************************************)
EXTENDS Integers, FiniteSets

CONSTANTS
    Rows,        \* row ids, the bound of the number of start_session jobs
    MaxSessions, \* bound of the number of sessions
    Toggles,     \* POST /api/session-recording may switch the recording
    ForcedEnds,  \* stop or link loss may end a session (_close_active_sessions)
    Restarts,    \* the server may be killed or restarted
    DbFails,     \* a statement of a job may fail
    None

Sessions == 1..MaxSessions

ASSUME SessionAssumption ==
    /\ IsFiniteSet(Rows) /\ Rows \cap Sessions = {} /\ MaxSessions \in Nat
    /\ None \notin Rows \cup Sessions \cup {0}
    /\ {Toggles, ForcedEnds, Restarts, DbFails} \subseteq BOOLEAN

VARIABLES
    charging,   \* is_charging
    cur,        \* history: the number of the session begun last
    energy,     \* session_wh: low (less than 0.05 Wh) or high
    active,     \* _active_sessions[port]: None, a row, or the placeholder id of
                \* a session that is not recorded (its number, for the negative id)
    recording,  \* record_sessions
    jobs,       \* submitted to the thread pool and not finished
    calls,      \* start_session jobs whose callback has not run yet
    row,        \* charge_sessions: absent, open, closed or deleted
    points,     \* rows with sample points in charge_points
    buffer,     \* rows with sample points in _pending_points
    owner,      \* history: the session a row was created for, 0 for none
    total,      \* history: the session whose totals a closed row has, or 0
    abandoned   \* history: rows nobody will end before the next restart

memory   == <<charging, cur, energy, active>>
database == <<row, points, buffer, owner, total, abandoned>>
vars == <<charging, cur, energy, active, recording, jobs, calls, row,
          points, buffer, owner, total, abandoned>>

StartJob(r, expected) == [op |-> "start", row |-> r, arg |-> expected]
EndJob(r, s)  == [op |-> "end", row |-> r, arg |-> s]
DeleteJob(r)  == [op |-> "delete", row |-> r, arg |-> None]
PointJob(r)   == [op |-> "point", row |-> r, arg |-> None]

\* Reserved or used row ids do not come back.
NewRow(r) == owner[r] = 0

Submit(new) == jobs' = jobs \cup new

Init ==
    /\ charging = FALSE /\ cur = 0 /\ energy = "low"
    /\ active = None
    /\ recording = TRUE
    /\ jobs = {} /\ calls = {}
    /\ row = [r \in Rows |-> "absent"]
    /\ points = {} /\ buffer = {}
    /\ owner = [r \in Rows |-> 0] /\ total = [r \in Rows |-> 0]
    /\ abandoned = {}

---------------------------------------------------------------------------
(* The event loop.                                                         *)

\* The samples before the start are counted in: the energy may be high at once.
StartSession ==
    /\ ~charging /\ cur < MaxSessions
    /\ charging' = TRUE /\ cur' = cur + 1
    /\ energy' \in {"low", "high"}
    /\ IF recording
       THEN /\ UNCHANGED active
            /\ \E r \in Rows : /\ NewRow(r) /\ Submit({StartJob(r, None)})
                               /\ owner' = [owner EXCEPT ![r] = cur']
       ELSE active' = cur' /\ UNCHANGED <<jobs, owner>>
    /\ UNCHANGED <<recording, calls, row, points, buffer, total, abandoned>>

Charge ==
    /\ charging /\ energy = "low"
    /\ energy' = "high"
    /\ UNCHANGED <<charging, cur, active, recording, jobs, calls, database>>

RecordChargePoint ==
    /\ charging /\ active \in Rows /\ recording
    /\ Submit({PointJob(active)})
    /\ UNCHANGED <<memory, recording, calls, database>>

PopActive == active' = None

\* What an ended session writes down: nothing without a row or with the
\* recording off.
FinalJobs ==
    IF active \notin Rows \/ ~recording THEN {}
    ELSE IF energy = "low" THEN {DeleteJob(active)} ELSE {EndJob(active, cur)}

\* A session that ends with its row left open: nobody is going to end it.
Abandon(left) == abandoned' = abandoned \cup left

\* _close_session(): low power, unplugged, port switched off.  With the recording
\* switched off the row is left as it is.
CloseSession ==
    /\ charging
    /\ charging' = FALSE /\ PopActive
    /\ Submit(FinalJobs)
    /\ Abandon(IF recording THEN {} ELSE {active} \cap Rows)
    /\ UNCHANGED <<cur, energy, recording, calls, row, points, buffer, owner, total>>

\* The points are in the database before the statement that follows, or lost.
Flush(dropped) ==
    /\ buffer' = {}
    /\ \/ points' = (points \cup buffer) \ dropped
       \/ DbFails /\ points' = points \ dropped

\* end_session(): the points first, then the totals into the row, if there is one.
SqlEnd(r, s) ==
    /\ Flush({})
    /\ \/ /\ row[r] \in {"open", "closed"}
          /\ row' = [row EXCEPT ![r] = "closed"]
          /\ total' = [total EXCEPT ![r] = s]
       \/ /\ DbFails \/ row[r] \notin {"open", "closed"}
          /\ UNCHANGED <<row, total>>

\* The statement that ends the row r has failed.
StillOpen(r) == IF DbFails /\ row'[r] = "open" THEN {r} ELSE {}

\* _close_active_sessions(): end_session at once, in the loop; a session with
\* little energy keeps its row.
CloseActiveSessions ==
    /\ ForcedEnds /\ charging
    /\ charging' = FALSE /\ PopActive
    /\ IF active \in Rows /\ recording /\ energy = "high"
       THEN SqlEnd(active, cur) /\ Abandon(StillOpen(active))
       ELSE UNCHANGED <<row, points, buffer, total>> /\ Abandon({active} \cap Rows)
    /\ UNCHANGED <<cur, energy, recording, jobs, calls, owner>>

\* Switched on again during a session: it gets a row and counts from zero.
ResumeRecordingSessions ==
    IF charging /\ active \in Sessions
    THEN /\ energy' = "low"
         /\ \E r \in Rows : /\ NewRow(r) /\ Submit({StartJob(r, active)})
                            /\ owner' = [owner EXCEPT ![r] = cur]
    ELSE UNCHANGED <<energy, jobs, owner>>

SwitchRecording ==
    /\ Toggles
    /\ recording' = ~recording
    /\ IF recording' THEN ResumeRecordingSessions ELSE UNCHANGED <<energy, jobs, owner>>
    /\ UNCHANGED <<charging, cur, active, calls, row, points, buffer, total, abandoned>>

\* Mutated form: the callback does not look whether the session still runs.
StillExpectedAnyway(c) == active = c.arg

\* The session still runs and nobody has given it a row meanwhile.
StillExpected(c) == charging /\ active = c.arg

\* Mutated form: a row that came too late is left in the database.
CloseResumedOrphanNever(r) == UNCHANGED jobs

CloseResumedOrphan(r) == Submit({DeleteJob(r)})

\* Mutated form: an answer is only looked at while a session runs.
OnSessionStartCharging(c) ==
    /\ c \in calls /\ charging
    /\ calls' = calls \ {c}
    /\ IF StillExpected(c)
       THEN active' = c.row /\ UNCHANGED jobs
       ELSE CloseResumedOrphan(c.row) /\ UNCHANGED active
    /\ UNCHANGED <<charging, cur, energy, recording, database>>

\* _on_session_start(), with the backfill of the earlier samples, and
\* _on_upgrade(), which has none.
OnSessionStart(c) ==
    /\ c \in calls
    /\ calls' = calls \ {c}
    /\ IF StillExpected(c)
       THEN /\ active' = c.row
            /\ \/ UNCHANGED jobs
               \/ c.arg = None /\ Submit({PointJob(c.row)})
       ELSE CloseResumedOrphan(c.row) /\ UNCHANGED active
    /\ UNCHANGED <<charging, cur, energy, recording, database>>

---------------------------------------------------------------------------
(* The jobs in the thread pool.                                            *)

Done(j) == jobs' = jobs \ {j}

RunStart(j) ==
    /\ j.op = "start" /\ Done(j)
    /\ \/ row' = [row EXCEPT ![j.row] = "open"] /\ calls' = calls \cup {j}
       \/ DbFails /\ UNCHANGED <<row, calls>>
    /\ UNCHANGED <<points, buffer, total, abandoned>>

RunEnd(j) ==
    /\ j.op = "end" /\ Done(j)
    /\ SqlEnd(j.row, j.arg) /\ Abandon(StillOpen(j.row))
    /\ UNCHANGED calls

\* Mutated form: buffered points are not flushed before the delete.
SqlDeleteNoFlush(r) ==
    /\ points' = points \ {r}
    /\ row' = [row EXCEPT ![r] = "deleted"]
    /\ UNCHANGED buffer

\* An exception in the delete leaves the row, with its points flushed.
SqlDelete(r) ==
    \/ Flush({r}) /\ row' = [row EXCEPT ![r] = "deleted"]
    \/ DbFails /\ Flush({}) /\ UNCHANGED row

RunDelete(j) ==
    /\ j.op = "delete" /\ Done(j)
    /\ SqlDelete(j.row) /\ Abandon(StillOpen(j.row))
    /\ UNCHANGED <<calls, total>>

\* The batch is flushed by size or by age.
RunPoint(j) ==
    /\ j.op = "point" /\ Done(j)
    /\ \/ buffer' = buffer \cup {j.row} /\ UNCHANGED points
       \/ buffer' = {} /\ points' = points \cup buffer \cup {j.row}
       \/ DbFails /\ buffer' = {} /\ UNCHANGED points
    /\ UNCHANGED <<row, calls, total, abandoned>>

RunJob ==
    \E j \in jobs :
        /\ RunStart(j) \/ RunEnd(j) \/ RunDelete(j) \/ RunPoint(j)
        /\ UNCHANGED <<memory, recording, owner>>

\* Mutated form: the clean-up does not ask for open rows only.
CloseStaleSessionsAll(stored) ==
    \E kept \in SUBSET {r \in stored : row[r] \in {"open", "closed"}} :
        /\ row' = [r \in Rows |-> IF row[r] \notin {"open", "closed"} THEN row[r]
                                  ELSE IF r \in kept THEN "closed" ELSE "deleted"]
        /\ points' = kept

\* close_stale_sessions(): a row that was left open is closed with the energy
\* of its sample points or, with too little of it, deleted.
CloseStaleSessions(stored) ==
    \E kept \in SUBSET {r \in stored : row[r] = "open"} :
        /\ row' = [r \in Rows |-> IF row[r] # "open" THEN row[r]
                                  ELSE IF r \in kept THEN "closed" ELSE "deleted"]
        /\ points' = {r \in stored : row[r] = "open" => r \in kept}

\* Memory, jobs and callbacks are gone; the buffer is flushed by close() when
\* the server has the time.
Restart ==
    /\ Restarts
    /\ charging' = FALSE /\ active' = None /\ energy' = "low"
    /\ jobs' = {} /\ calls' = {} /\ buffer' = {}
    /\ \E stored \in {points, points \cup buffer} : CloseStaleSessions(stored)
    /\ UNCHANGED <<cur, recording, owner, total, abandoned>>

---------------------------------------------------------------------------
Callback == \E c \in calls : OnSessionStart(c)

Next ==
    \/ StartSession \/ Charge \/ RecordChargePoint
    \/ CloseSession \/ CloseActiveSessions \/ SwitchRecording
    \/ Callback \/ RunJob \/ Restart

\* The pool runs every job and the loop every callback; nothing makes a
\* session begin or end.
Fairness ==
    /\ WF_vars(Callback)
    /\ \A r \in Rows : WF_vars(RunJob /\ \E j \in jobs \ jobs' : j.row = r)

Spec == Init /\ [][Next]_vars
FairSpec == Spec /\ Fairness
---------------------------------------------------------------------------
(* Properties.                                                             *)

Job == [op : {"start"}, row : Rows, arg : Sessions \cup {None}]
       \cup [op : {"end"}, row : Rows, arg : Sessions]
       \cup [op : {"delete", "point"}, row : Rows, arg : {None}]

TypeOK ==
    /\ charging \in BOOLEAN /\ recording \in BOOLEAN
    /\ cur \in 0..MaxSessions /\ energy \in {"low", "high"}
    /\ active \in Rows \cup Sessions \cup {None}
    /\ jobs \subseteq Job
    /\ calls \subseteq {j \in Job : j.op = "start"}
    /\ row \in [Rows -> {"absent", "open", "closed", "deleted"}]
    /\ points \subseteq Rows /\ buffer \subseteq Rows
    /\ owner \in [Rows -> 0..MaxSessions] /\ total \in [Rows -> 0..MaxSessions]
    /\ abandoned \subseteq Rows

\* The row that the running session writes to is open and belongs to a session
\* that runs: no late job or callback closes, deletes or hands out a row that
\* is in use (_active_sessions against charge_sessions).
ActiveRowIsOpen == active \in Rows => charging /\ row[active] = "open"

\* Somebody will end the row r: the running session, a callback or a job.
Owned(r) ==
    \/ active = r
    \/ \E c \in calls : c.row = r
    \/ \E j \in jobs : j.row = r /\ j.op \in {"end", "delete"}

\* A row that is shown as charging has somebody who will close or delete it, unless
\* its session ended with the recording off or by force with little energy, or the
\* statement that was to end it failed: the next restart cleans these up.
OpenRowsAreOwned == \A r \in Rows : row[r] = "open" => Owned(r) \/ r \in abandoned

\* Every other row that no session uses is closed or deleted in the end, in whatever
\* order the pool answers.
OpenRowsEnd ==
    \A r \in Rows : row[r] = "open" /\ active # r
                     ~> row[r] # "open" \/ active = r \/ r \in abandoned

\* No row is left shown as charging, at any moment or for good.
NoRowForgotten == [][OpenRowsAreOwned']_vars /\ OpenRowsEnd

\* A deleted session takes its points along, those in the buffer too: they
\* would come back with the next flush (the comment in delete_session).
DeleteTakesPoints ==
    [][\A r \in Rows : row[r] = "open" /\ row'[r] = "deleted"
            => r \notin points' /\ r \notin buffer']_vars

\* The rows keep what SessionLog promises.
Log == INSTANCE SessionLog WITH Recovered <- 0, state <- row, text <- total
KeepsLog == Log!Spec
===========================================================================
