------------------------ MODULE ChargeSessionProofs ------------------------
(***************************************************************************)
(* Theorems about ChargeSession, for any number of sessions and rows: the row*)
(* in use is open, a row that is open and not left behind has somebody to end*)
(* it, and the rows implement SessionLog; and about ChargeDetector, for any*)
(* powers, intervals and windows: the meter counts every interval of a session*)
(* once, the residue of a charge starts nothing, and a full end is earned. *)
(***************************************************************************)
EXTENDS ChargeSession, ChargeDetector, WellFoundedInduction, FiniteSetTheorems,
        SequenceTheorems, TLAPS

(***************************************************************************)
(* Type correctness.                                                       *)
(***************************************************************************)

\* The jobs that the event loop submits are jobs, and what is in them.
LEMMA JobTypes ==
    /\ \A r \in Rows, e \in Sessions \cup {None} :
         /\ StartJob(r, e) \in Job
         /\ StartJob(r, e).op = "start" /\ StartJob(r, e).row = r
         /\ StartJob(r, e).arg = e
    /\ \A r \in Rows, s \in Sessions :
         /\ EndJob(r, s) \in Job
         /\ EndJob(r, s).op = "end" /\ EndJob(r, s).row = r
         /\ EndJob(r, s).arg = s
    /\ \A r \in Rows :
         /\ DeleteJob(r) \in Job /\ PointJob(r) \in Job
         /\ DeleteJob(r).op = "delete" /\ DeleteJob(r).row = r
         /\ PointJob(r).op = "point" /\ PointJob(r).row = r
    /\ \A j \in Job :
         /\ j.op \in {"start", "end", "delete", "point"} /\ j.row \in Rows
         /\ j.op = "end" => j.arg \in Sessions
         /\ j.op = "start" => j.arg \in Sessions \cup {None}
BY DEF Job, StartJob, EndJob, DeleteJob, PointJob

\* A charging session has a number.
NumberedInv == charging => cur \in Sessions

\* Every variable stays in its range (the type invariant of the runs).
LEMMA TypeInductive == TypeOK /\ NumberedInv /\ [Next]_vars => (TypeOK /\ NumberedInv)'
<1> SUFFICES ASSUME TypeOK, NumberedInv, [Next]_vars
             PROVE  (TypeOK /\ NumberedInv)'
  OBVIOUS
<1> USE SessionAssumption DEF TypeOK, NumberedInv, Sessions, memory, database
<1>1. CASE StartSession
  <2>1. cur + 1 \in 1..MaxSessions
    BY <1>1 DEF StartSession
  <2>2. CASE recording
    <3>1. PICK r \in Rows : /\ Submit({StartJob(r, None)})
                            /\ owner' = [owner EXCEPT ![r] = cur']
      BY <1>1, <2>2 DEF StartSession
    <3>2. jobs' \subseteq Job
      <4>1. StartJob(r, None) \in Job
        BY JobTypes
      <4>2. QED
        BY <3>1, <4>1 DEF Submit
    <3>3. QED
      BY <1>1, <2>1, <2>2, <3>1, <3>2 DEF StartSession
  <2>3. CASE ~recording
    BY <1>1, <2>1, <2>3 DEF StartSession
  <2>4. QED
    BY <2>2, <2>3
<1>2. CASE Charge
  BY <1>2 DEF Charge
<1>3. CASE RecordChargePoint
  BY <1>3, JobTypes DEF RecordChargePoint, Submit
<1>4. CASE CloseSession
  <2>1. FinalJobs \subseteq Job
    BY <1>4, JobTypes DEF CloseSession, FinalJobs
  <2>2. QED
    BY <1>4, <2>1 DEF CloseSession, Submit, PopActive, Abandon
<1>5. CASE CloseActiveSessions
  <2>1. abandoned' \subseteq Rows
    BY <1>5 DEF CloseActiveSessions, Abandon, StillOpen
  <2>2. /\ row' \in [Rows -> {"absent", "open", "closed", "deleted"}]
        /\ points' \subseteq Rows /\ buffer' \subseteq Rows
        /\ total' \in [Rows -> 0..MaxSessions]
    BY <1>5 DEF CloseActiveSessions, SqlEnd, Flush
  <2>3. QED
    BY <1>5, <2>1, <2>2 DEF CloseActiveSessions, PopActive
<1>6. CASE SwitchRecording
  <2>1. CASE recording' /\ charging /\ active \in Sessions
    <3>1. PICK r \in Rows : /\ Submit({StartJob(r, active)})
                            /\ owner' = [owner EXCEPT ![r] = cur]
      BY <1>6, <2>1 DEF SwitchRecording, ResumeRecordingSessions
    <3>2. jobs' \subseteq Job
      BY <2>1, <3>1, JobTypes DEF Submit
    <3>3. QED
      BY <1>6, <2>1, <3>1, <3>2 DEF SwitchRecording, ResumeRecordingSessions
  <2>2. CASE ~(recording' /\ charging /\ active \in Sessions)
    BY <1>6, <2>2 DEF SwitchRecording, ResumeRecordingSessions
  <2>3. QED
    BY <2>1, <2>2
<1>7. ASSUME NEW c \in calls, OnSessionStart(c) PROVE (TypeOK /\ NumberedInv)'
  BY <1>7, JobTypes DEF OnSessionStart, Submit, CloseResumedOrphan
<1>8. ASSUME NEW j \in jobs, RunStart(j), UNCHANGED <<memory, recording, owner>>
      PROVE (TypeOK /\ NumberedInv)'
  <2>1. j \in Job /\ j.row \in Rows
    BY JobTypes
  <2>2. j.op = "start" /\ jobs' \subseteq jobs /\ UNCHANGED <<points, buffer, total, abandoned>>
    BY <1>8 DEF RunStart, Done
  <2>3. /\ row' \in [Rows -> {"absent", "open", "closed", "deleted"}]
        /\ calls' \subseteq calls \cup {j}
    BY <1>8, <2>1 DEF RunStart
  <2>4. QED
    BY <1>8, <2>1, <2>2, <2>3
<1>9. ASSUME NEW j \in jobs, RunEnd(j), UNCHANGED <<memory, recording, owner>>
      PROVE (TypeOK /\ NumberedInv)'
  BY <1>9, JobTypes DEF RunEnd, Done, SqlEnd, Flush, Abandon, StillOpen
<1>10. ASSUME NEW j \in jobs, RunDelete(j), UNCHANGED <<memory, recording, owner>>
       PROVE (TypeOK /\ NumberedInv)'
  <2>1. j \in Job /\ j.row \in Rows
    BY JobTypes
  <2>2. abandoned' \subseteq Rows
    BY <1>10, <2>1 DEF RunDelete, Abandon, StillOpen
  <2>3. QED
    BY <1>10, <2>1, <2>2 DEF RunDelete, Done, SqlDelete, Flush
<1>11. ASSUME NEW j \in jobs, RunPoint(j), UNCHANGED <<memory, recording, owner>>
       PROVE (TypeOK /\ NumberedInv)'
  BY <1>11, JobTypes DEF RunPoint, Done
<1>12. CASE Restart
  <2>1. /\ row' \in [Rows -> {"absent", "open", "closed", "deleted"}]
        /\ points' \subseteq Rows
    BY <1>12 DEF Restart, CloseStaleSessions
  <2>2. QED
    BY <1>12, <2>1 DEF Restart
<1>13. CASE UNCHANGED vars
  BY <1>13 DEF vars
<1>14. QED
  BY <1>1, <1>2, <1>3, <1>4, <1>5, <1>6, <1>7, <1>8, <1>9, <1>10, <1>11, <1>12,
     <1>13 DEF Next, Callback, RunJob

(***************************************************************************)
(* Who may touch a row.                                                    *)
(***************************************************************************)

\* What is under way for a row: its start_session job, then the callback of
\* that job, then nothing while the session has it, then its last job.
Tokens == calls \cup {j \in jobs : j.op # "point"}

\* A row that nobody has asked for does not exist and nothing refers to it.
FreshInv ==
    \A r \in Rows : owner[r] = 0 =>
        row[r] = "absent" /\ active # r /\ \A j \in Tokens : j.row # r

\* One thing at a time is under way for a row, nothing while it is in use.
OneTokenInv ==
    /\ calls \cap jobs = {}
    /\ \A j, k \in Tokens : j.row = k.row => j = k
    /\ \A j \in Tokens : j.row # active

\* A row exists once its start_session job has run, and is open until its last.
TokenRowInv ==
    /\ \A j \in jobs : j.op = "start" => row[j.row] = "absent"
    /\ \A j \in jobs : j.op \in {"end", "delete"} => row[j.row] = "open"
    /\ \A c \in calls : row[c.row] = "open"

RowInv == FreshInv /\ OneTokenInv /\ TokenRowInv /\ ActiveRowIsOpen

Typed == TypeOK /\ NumberedInv

\* A new start_session job for a row that nobody has asked for.
LEMMA RowNewJob ==
    ASSUME Typed, RowInv, NEW r \in Rows, NewRow(r), NEW e \in Sessions \cup {None},
           NEW s \in Sessions, Submit({StartJob(r, e)}),
           owner' = [owner EXCEPT ![r] = s], UNCHANGED <<calls, row>>,
           active' = active, active \in Rows => charging'
    PROVE  RowInv'
<1> DEFINE n == StartJob(r, e)
<1>1. n.op = "start" /\ n.row = r
  BY JobTypes
<1> HIDE DEF n
<1>2. jobs' = jobs \cup {n}
  BY DEF Submit, n
<1>3. Tokens' = Tokens \cup {n}
  BY <1>1, <1>2 DEF Tokens
<1>4. row[r] = "absent" /\ active # r /\ n \notin calls /\ \A j \in Tokens : j.row # r
  BY <1>1 DEF RowInv, FreshInv, NewRow, Tokens
<1>5. FreshInv'
  BY <1>1, <1>3, <1>4, SessionAssumption DEF RowInv, FreshInv, Typed, TypeOK, Sessions
<1>6. OneTokenInv'
  BY <1>1, <1>2, <1>3, <1>4 DEF RowInv, OneTokenInv
<1>7. TokenRowInv'
  BY <1>1, <1>2, <1>4 DEF RowInv, TokenRowInv
<1>8. ActiveRowIsOpen'
  BY DEF RowInv, ActiveRowIsOpen
<1>9. QED
  BY <1>5, <1>6, <1>7, <1>8 DEF RowInv

\* The last job of a row that was in use, which is not in use any more.
LEMMA RowLastJob ==
    ASSUME Typed, RowInv, NEW n \in Job, n.op \in {"end", "delete"},
           Submit({n}), UNCHANGED <<calls, row, owner>>,
           n.row = active, active' = None
    PROVE  RowInv'
<1>1. n.row \in Rows /\ None \notin Rows
  BY JobTypes, SessionAssumption
<1>2. jobs' = jobs \cup {n} /\ Tokens' = Tokens \cup {n}
  BY DEF Submit, Tokens
<1>3. row[n.row] = "open" /\ owner[n.row] # 0
  BY <1>1 DEF RowInv, FreshInv, ActiveRowIsOpen
<1>4. \A j \in Tokens : j.row # n.row /\ j.row # None
  BY JobTypes, SessionAssumption DEF RowInv, OneTokenInv, Tokens, Typed, TypeOK
<1>5. n \notin calls
  BY JobTypes DEF Typed, TypeOK
<1>6. FreshInv'
  BY <1>1, <1>2, <1>3 DEF RowInv, FreshInv
<1>7. OneTokenInv'
  BY <1>1, <1>2, <1>4, <1>5 DEF RowInv, OneTokenInv
<1>8. TokenRowInv'
  BY <1>2, <1>3 DEF RowInv, TokenRowInv
<1>9. QED
  BY <1>1, <1>6, <1>7, <1>8 DEF RowInv, ActiveRowIsOpen

\* The session lets go of its row and submits nothing for it.
LEMMA RowLetGo ==
    ASSUME Typed, RowInv, UNCHANGED <<jobs, calls, owner>>, active' \notin Rows,
           \A r \in Rows : row'[r] # row[r] => r = active
    PROVE  RowInv'
<1>1. Tokens' = Tokens
  BY DEF Tokens
<1>2. \A j \in Tokens : j.row \in Rows /\ j.row # active
  BY JobTypes DEF RowInv, OneTokenInv, Tokens, Typed, TypeOK
<1>3. FreshInv'
  BY <1>1 DEF RowInv, FreshInv
<1>4. OneTokenInv'
  BY <1>1, <1>2 DEF RowInv, OneTokenInv
<1>5. TokenRowInv'
  BY <1>2 DEF RowInv, TokenRowInv, Tokens
<1>6. QED
  BY <1>1, <1>3, <1>4, <1>5 DEF RowInv, ActiveRowIsOpen

\* A job that is no start_session job ends, and changes no row but its own.
LEMMA RowJobDone ==
    ASSUME Typed, RowInv, NEW j \in jobs, j.op # "start", Done(j),
           UNCHANGED <<charging, active, calls, owner>>,
           \A r \in Rows : row'[r] # row[r] => j.op \in {"end", "delete"} /\ r = j.row
    PROVE  RowInv'
<1>1. jobs' = jobs \ {j} /\ calls' = calls /\ j \notin calls
  BY DEF Done, RowInv, OneTokenInv
<1>2. Tokens' = Tokens \ {j}
  BY <1>1 DEF Tokens
<1>3. \A k \in Tokens : k.row \in Rows
  BY JobTypes DEF Tokens, Typed, TypeOK
<1>4. j.op \in {"end", "delete"} => \A k \in Tokens' : k.row # j.row
  BY <1>2 DEF RowInv, OneTokenInv, Tokens
<1>5. \A k \in Tokens' : row'[k.row] = row[k.row]
  BY <1>2, <1>3, <1>4
<1>6. j.op \in {"end", "delete"} => j.row # active /\ owner[j.row] # 0
  BY JobTypes DEF RowInv, OneTokenInv, FreshInv, Tokens, Typed, TypeOK
<1>7. FreshInv'
  BY <1>2, <1>6 DEF RowInv, FreshInv
<1>8. OneTokenInv'
  BY <1>1, <1>2 DEF RowInv, OneTokenInv
<1>9. TokenRowInv'
  BY <1>1, <1>5 DEF RowInv, TokenRowInv, Tokens
<1>10. ActiveRowIsOpen'
  BY <1>6 DEF RowInv, ActiveRowIsOpen
<1>11. QED
  BY <1>7, <1>8, <1>9, <1>10 DEF RowInv


\* The start_session job of a row runs, or fails.
LEMMA RowStarted ==
    ASSUME Typed, RowInv, NEW j \in jobs, RunStart(j),
           UNCHANGED <<charging, active, owner>>
    PROVE  RowInv'
<1>1. j \in Job /\ j.row \in Rows /\ j.op = "start" /\ j \notin calls /\ j \in Tokens
  BY JobTypes DEF RunStart, RowInv, OneTokenInv, Tokens, Typed, TypeOK
<1>2. jobs' = jobs \ {j}
  BY DEF RunStart, Done
<1>3. owner[j.row] # 0 /\ j.row # active
  BY <1>1 DEF RowInv, FreshInv, OneTokenInv
<1>4. \A k \in Tokens : k.row \in Rows
  BY JobTypes DEF Tokens, Typed, TypeOK
<1>5. \A k \in Tokens \ {j} : k.row # j.row
  BY <1>1 DEF RowInv, OneTokenInv
<1>6. CASE row' = [row EXCEPT ![j.row] = "open"] /\ calls' = calls \cup {j}
  <2>1. Tokens' = Tokens
    BY <1>1, <1>2, <1>6 DEF Tokens
  <2>2. \A r \in Rows : row'[r] = IF r = j.row THEN "open" ELSE row[r]
    BY <1>1, <1>6 DEF Typed, TypeOK
  <2>3. FreshInv'
    BY <1>3, <2>1, <2>2 DEF RowInv, FreshInv
  <2>4. OneTokenInv'
    BY <1>2, <1>6, <2>1 DEF RowInv, OneTokenInv
  <2>5. TokenRowInv'
    <3>1. \A k \in jobs' : k.op # "point" => k.row \in Rows /\ k.row # j.row
      BY <1>2, <1>4, <1>5 DEF Tokens
    <3>2. \A k \in jobs' : k.op = "start" => row'[k.row] = "absent"
      BY <1>2, <2>2, <3>1 DEF RowInv, TokenRowInv
    <3>3. \A k \in jobs' : k.op \in {"end", "delete"} => row'[k.row] = "open"
      BY <1>2, <2>2, <3>1 DEF RowInv, TokenRowInv
    <3>4. \A c \in calls' : row'[c.row] = "open"
      BY <1>1, <1>4, <1>6, <2>2 DEF RowInv, TokenRowInv, Tokens
    <3>5. QED
      BY <3>2, <3>3, <3>4 DEF TokenRowInv
  <2>6. ActiveRowIsOpen'
    BY <2>2 DEF RowInv, ActiveRowIsOpen
  <2>7. QED
    BY <2>3, <2>4, <2>5, <2>6 DEF RowInv
<1>7. CASE UNCHANGED <<row, calls>>
  <2>1. Tokens' = Tokens \ {j}
    BY <1>1, <1>2, <1>7 DEF Tokens
  <2>2. QED
    BY <1>2, <1>7, <2>1
       DEF RowInv, FreshInv, OneTokenInv, TokenRowInv, ActiveRowIsOpen
<1>8. QED
  BY <1>6, <1>7 DEF RunStart

\* The answer of a start_session job arrives in the loop.
LEMMA RowAnswered ==
    ASSUME Typed, RowInv, NEW c \in calls, OnSessionStart(c)
    PROVE  RowInv'
<1>1. c \in Job /\ c.row \in Rows /\ c \in Tokens /\ c \notin jobs
  BY JobTypes DEF RowInv, OneTokenInv, Tokens, Typed, TypeOK
<1>2. calls' = calls \ {c} /\ row' = row /\ owner' = owner /\ charging' = charging
  BY DEF OnSessionStart, database
<1>3. row[c.row] = "open" /\ owner[c.row] # 0
  BY <1>1 DEF RowInv, TokenRowInv, FreshInv
<1>4. \A k \in Tokens \ {c} : k.row # c.row
  BY <1>1 DEF RowInv, OneTokenInv
<1>5. CASE StillExpected(c)
  <2>1. active' = c.row /\ charging
    BY <1>5 DEF OnSessionStart, StillExpected
  <2>2. jobs' = jobs \/ jobs' = jobs \cup {PointJob(c.row)}
    BY <1>5 DEF OnSessionStart, Submit
  <2>3. PointJob(c.row).op = "point" /\ PointJob(c.row) \in Job
    BY <1>1, JobTypes
  <2>4. Tokens' = Tokens \ {c}
    BY <1>1, <1>2, <2>2, <2>3 DEF Tokens
  <2>5. \A k \in calls : k.op = "start"
    BY DEF Typed, TypeOK
  <2>6. FreshInv'
    BY <1>2, <1>3, <2>1, <2>4 DEF RowInv, FreshInv
  <2>7. OneTokenInv'
    BY <1>2, <1>4, <2>1, <2>2, <2>3, <2>4, <2>5 DEF RowInv, OneTokenInv
  <2>8. TokenRowInv'
    BY <1>2, <2>2, <2>3 DEF RowInv, TokenRowInv
  <2>9. QED
    BY <1>2, <1>3, <2>1, <2>6, <2>7, <2>8 DEF RowInv, ActiveRowIsOpen
<1>6. CASE ~StillExpected(c)
  <2> DEFINE n == DeleteJob(c.row)
  <2>1. n.op = "delete" /\ n.row = c.row /\ n \in Job
    BY <1>1, JobTypes
  <2>2. jobs' = jobs \cup {n} /\ active' = active
    BY <1>6 DEF OnSessionStart, CloseResumedOrphan, Submit
  <2> HIDE DEF n
  <2>3. \A k \in calls : k.op = "start"
    BY DEF Typed, TypeOK
  <2>4. Tokens' = (Tokens \ {c}) \cup {n}
    BY <1>1, <1>2, <2>1, <2>2 DEF Tokens
  <2>5. c.row # active
    BY <1>1 DEF RowInv, OneTokenInv
  <2>6. FreshInv'
    BY <1>2, <1>3, <2>1, <2>2, <2>4 DEF RowInv, FreshInv
  <2>7. OneTokenInv'
    BY <1>2, <1>4, <2>1, <2>2, <2>3, <2>4, <2>5 DEF RowInv, OneTokenInv
  <2>8. TokenRowInv'
    BY <1>2, <1>3, <2>1, <2>2 DEF RowInv, TokenRowInv
  <2>9. QED
    BY <1>2, <2>2, <2>6, <2>7, <2>8 DEF RowInv, ActiveRowIsOpen
<1>7. QED
  BY <1>5, <1>6


\* Every step keeps the rows in order.
LEMMA RowInductive == Typed /\ RowInv /\ [Next]_vars => RowInv'
<1> SUFFICES ASSUME Typed, RowInv, [Next]_vars PROVE RowInv'
  OBVIOUS
<1> USE DEF memory, database
<1>1. None \notin Rows /\ Rows \cap Sessions = {}
  BY SessionAssumption
<1>2. CASE StartSession
  <2>1. cur' \in Sessions
    BY <1>2, SessionAssumption DEF StartSession, Typed, TypeOK, Sessions
  <2>2. CASE recording
    <3>1. PICK r \in Rows : /\ NewRow(r) /\ Submit({StartJob(r, None)})
                            /\ owner' = [owner EXCEPT ![r] = cur']
      BY <1>2, <2>2 DEF StartSession
    <3>2. active' = active /\ charging' /\ UNCHANGED <<calls, row>>
      BY <1>2, <2>2 DEF StartSession
    <3>3. QED
      BY <2>1, <3>1, <3>2, RowNewJob
  <2>3. CASE ~recording
    <3>1. UNCHANGED <<jobs, calls, owner, row>> /\ active' \notin Rows
      BY <1>1, <1>2, <2>1, <2>3 DEF StartSession
    <3>2. QED
      BY <3>1, RowLetGo
  <2>4. QED
    BY <2>2, <2>3
<1>3. CASE Charge
  BY <1>3 DEF Charge, RowInv, FreshInv, OneTokenInv, TokenRowInv, ActiveRowIsOpen, Tokens
<1>4. CASE RecordChargePoint
  <2>1. jobs' = jobs \cup {PointJob(active)} /\ PointJob(active).op = "point"
    BY <1>4, JobTypes DEF RecordChargePoint, Submit
  <2>2. UNCHANGED <<charging, active, calls, row, owner>>
    BY <1>4 DEF RecordChargePoint
  <2>3. \A c \in calls : c.op = "start"
    BY DEF Typed, TypeOK
  <2>4. Tokens' = Tokens
    BY <2>1, <2>2 DEF Tokens
  <2>5. QED
    BY <2>1, <2>2, <2>3, <2>4
       DEF RowInv, FreshInv, OneTokenInv, TokenRowInv, ActiveRowIsOpen
<1>5. CASE CloseSession
  <2>1. active' = None /\ UNCHANGED <<calls, row, owner>> /\ Submit(FinalJobs) /\ charging
    BY <1>5 DEF CloseSession, PopActive
  <2>2. CASE FinalJobs = {}
    <3>1. jobs' = jobs
      BY <2>1, <2>2 DEF Submit
    <3>2. QED
      BY <1>1, <2>1, <3>1, RowLetGo
  <2>3. CASE active \in Rows /\ FinalJobs \in {{DeleteJob(active)}, {EndJob(active, cur)}}
    <3>1. cur \in Sessions
      BY <2>1 DEF Typed, NumberedInv
    <3>2. PICK n \in {DeleteJob(active), EndJob(active, cur)} : FinalJobs = {n}
      BY <2>3
    <3>3. n \in Job /\ n.op \in {"end", "delete"} /\ n.row = active
      BY <2>3, <3>1, JobTypes
    <3>4. QED
      BY <2>1, <3>2, <3>3, RowLastJob
  <2>4. QED
    BY <2>2, <2>3 DEF FinalJobs
<1>6. CASE CloseActiveSessions
  <2>1. active' = None /\ UNCHANGED <<jobs, calls, owner>>
    BY <1>6 DEF CloseActiveSessions, PopActive
  <2>2. \A r \in Rows : row'[r] # row[r] => r = active
    BY <1>6 DEF CloseActiveSessions, SqlEnd, Typed, TypeOK
  <2>3. QED
    BY <1>1, <2>1, <2>2, RowLetGo
<1>7. CASE SwitchRecording
  <2>1. UNCHANGED <<charging, active, calls, row>>
    BY <1>7 DEF SwitchRecording
  <2>2. CASE recording' /\ charging /\ active \in Sessions
    <3>1. PICK r \in Rows : /\ NewRow(r) /\ Submit({StartJob(r, active)})
                            /\ owner' = [owner EXCEPT ![r] = cur]
      BY <1>7, <2>2 DEF SwitchRecording, ResumeRecordingSessions
    <3>2. cur \in Sessions
      BY <2>2 DEF Typed, NumberedInv
    <3>3. QED
      BY <1>1, <2>1, <2>2, <3>1, <3>2, RowNewJob
  <2>3. CASE ~(recording' /\ charging /\ active \in Sessions)
    <3>1. UNCHANGED <<jobs, owner>>
      BY <1>7, <2>3 DEF SwitchRecording, ResumeRecordingSessions
    <3>2. QED
      BY <2>1, <3>1
         DEF RowInv, FreshInv, OneTokenInv, TokenRowInv, ActiveRowIsOpen, Tokens
  <2>4. QED
    BY <2>2, <2>3
<1>8. ASSUME NEW c \in calls, OnSessionStart(c) PROVE RowInv'
  BY <1>8, RowAnswered
<1>9. ASSUME NEW j \in jobs, RunStart(j), UNCHANGED <<memory, recording, owner>>
      PROVE RowInv'
  BY <1>9, RowStarted
<1>10. ASSUME NEW j \in jobs, RunEnd(j) \/ RunDelete(j) \/ RunPoint(j),
              UNCHANGED <<memory, recording, owner>>
       PROVE RowInv'
  <2>1. j.op # "start" /\ Done(j) /\ calls' = calls
    BY <1>10 DEF RunEnd, RunDelete, RunPoint
  <2>2. \A r \in Rows : row'[r] # row[r] => j.op \in {"end", "delete"} /\ r = j.row
    BY <1>10 DEF RunEnd, RunDelete, RunPoint, SqlEnd, SqlDelete, Typed, TypeOK
  <2>3. QED
    BY <1>10, <2>1, <2>2, RowJobDone
<1>11. CASE Restart
  <2>1. jobs' = {} /\ calls' = {} /\ active' = None /\ owner' = owner
    BY <1>11 DEF Restart
  <2>2. \A r \in Rows : row[r] = "absent" => row'[r] = "absent"
    BY <1>11 DEF Restart, CloseStaleSessions
  <2>3. QED
    BY <1>1, <2>1, <2>2
       DEF RowInv, FreshInv, OneTokenInv, TokenRowInv, ActiveRowIsOpen, Tokens
<1>12. CASE UNCHANGED vars
  BY <1>12 DEF vars, RowInv, FreshInv, OneTokenInv, TokenRowInv, ActiveRowIsOpen, Tokens
<1>13. QED
  BY <1>2, <1>3, <1>4, <1>5, <1>6, <1>7, <1>8, <1>9, <1>10, <1>11, <1>12
     DEF Next, Callback, RunJob

\* The state in which the server starts.
LEMMA InitInv == Init => Typed /\ RowInv
<1> SUFFICES ASSUME Init PROVE Typed /\ RowInv
  OBVIOUS
<1>1. Typed
  <2>1. jobs \subseteq Job /\ calls \subseteq {j \in Job : j.op = "start"}
    BY DEF Init
  <2>2. 0 \in 0..MaxSessions
    BY SessionAssumption
  <2>3. charging \in BOOLEAN /\ recording \in BOOLEAN /\ NumberedInv
    BY DEF Init, NumberedInv
  <2>4. QED
    BY <2>1, <2>2, <2>3 DEF Init, Typed, TypeOK
<1>2. Tokens = {}
  BY DEF Init, Tokens
<1>3. RowInv
  BY <1>2, SessionAssumption
     DEF Init, RowInv, FreshInv, OneTokenInv, TokenRowInv, ActiveRowIsOpen
<1>4. QED
  BY <1>1, <1>3

\* In whatever order the pool runs its jobs and the loop their callbacks, the
\* row that the running session writes to is open: nobody closes, deletes or
\* hands out a row in use.
THEOREM ActiveRowTheorem == Spec => [](TypeOK /\ ActiveRowIsOpen)
<1>1. Typed /\ RowInv => TypeOK /\ ActiveRowIsOpen
  BY DEF Typed, RowInv
<1>2. Typed /\ RowInv /\ [Next]_vars => (Typed /\ RowInv)'
  BY TypeInductive, RowInductive DEF Typed
<1>3. QED
  BY <1>1, <1>2, InitInv, PTL DEF Spec

(***************************************************************************)
(* Who ends a row.                                                         *)
(***************************************************************************)

\* What keeps a row owned: a step that opens no row, lets go of no row that stays
\* open, and drops no job or callback of such a row.
LEMMA OwnedStays ==
    ASSUME OpenRowsAreOwned, abandoned \subseteq abandoned',
           \A r \in Rows : row'[r] = "open" => row[r] = "open",
           \A r \in Rows : row'[r] = "open" /\ Owned(r) => Owned(r)' \/ r \in abandoned'
    PROVE  OpenRowsAreOwned'
BY DEF OpenRowsAreOwned

\* Every step leaves every open row with somebody who will end it.
LEMMA OwnedInductive == Typed /\ RowInv /\ OpenRowsAreOwned /\ [Next]_vars => OpenRowsAreOwned'
<1> SUFFICES ASSUME Typed, RowInv, OpenRowsAreOwned, [Next]_vars PROVE OpenRowsAreOwned'
  OBVIOUS
<1> USE DEF memory, database
<1>1. None \notin Rows /\ Rows \cap Sessions = {}
  BY SessionAssumption
<1>2. active \in Rows => charging /\ row[active] = "open"
  BY DEF RowInv, ActiveRowIsOpen
<1>3. CASE StartSession
  <2>1. active \notin Rows /\ jobs \subseteq jobs' /\ UNCHANGED <<calls, row, abandoned>>
    BY <1>2, <1>3 DEF StartSession, Submit
  <2>2. QED
    BY <2>1, OwnedStays DEF Owned
<1>4. CASE Charge
  BY <1>4, OwnedStays DEF Charge, Owned
<1>5. CASE RecordChargePoint
  <2>1. jobs \subseteq jobs' /\ UNCHANGED <<active, calls, row, abandoned>>
    BY <1>5 DEF RecordChargePoint, Submit
  <2>2. QED
    BY <2>1, OwnedStays DEF Owned
<1>6. CASE CloseSession
  <2>1. jobs' = jobs \cup FinalJobs /\ UNCHANGED <<calls, row>>
    BY <1>6 DEF CloseSession, Submit
  <2>2. active \in Rows => active \in abandoned' \/ \E j \in jobs' : j.row = active /\ j.op \in {"end", "delete"}
    <3>1. CASE active \in Rows /\ recording
      <4>1. cur \in Sessions
        BY <1>6 DEF CloseSession, Typed, NumberedInv
      <4>2. \E j \in FinalJobs : j.row = active /\ j.op \in {"end", "delete"}
        BY <3>1, <4>1, JobTypes DEF FinalJobs
      <4>3. QED
        BY <2>1, <4>2
    <3>2. CASE active \in Rows /\ ~recording
      BY <1>6, <3>2 DEF CloseSession, Abandon
    <3>3. QED
      BY <3>1, <3>2
  <2>3. abandoned \subseteq abandoned'
    BY <1>6 DEF CloseSession, Abandon
  <2>4. \A r \in Rows : Owned(r) => Owned(r)' \/ r \in abandoned'
    BY <2>1, <2>2 DEF Owned
  <2>5. QED
    BY <2>1, <2>3, <2>4, OwnedStays
<1>7. CASE CloseActiveSessions
  <2>1. UNCHANGED <<jobs, calls>> /\ abandoned \subseteq abandoned'
    BY <1>7 DEF CloseActiveSessions, Abandon
  <2>2. \A r \in Rows : row'[r] = "open" => row[r] = "open"
    BY <1>7 DEF CloseActiveSessions, SqlEnd, Typed, TypeOK
  <2>3. active \in Rows /\ row'[active] = "open" => active \in abandoned'
    <3>1. CASE active \in Rows /\ recording /\ energy = "high"
      <4>1. SqlEnd(active, cur) /\ Abandon(StillOpen(active))
        BY <1>7, <3>1 DEF CloseActiveSessions
      <4>2. row'[active] = "open" => DbFails
        BY <1>2, <3>1, <4>1 DEF SqlEnd, Typed, TypeOK
      <4>3. QED
        BY <4>1, <4>2 DEF Abandon, StillOpen
    <3>2. CASE active \in Rows /\ ~(recording /\ energy = "high")
      BY <1>7, <3>2 DEF CloseActiveSessions, Abandon
    <3>3. QED
      BY <3>1, <3>2
  <2>4. QED
    BY <2>1, <2>2, <2>3, OwnedStays DEF Owned
<1>8. CASE SwitchRecording
  <2>1. jobs \subseteq jobs' /\ UNCHANGED <<active, calls, row, abandoned>>
    BY <1>8 DEF SwitchRecording, ResumeRecordingSessions, Submit
  <2>2. QED
    BY <2>1, OwnedStays DEF Owned
<1>9. ASSUME NEW c \in calls, OnSessionStart(c) PROVE OpenRowsAreOwned'
  <2>1. c.row \in Rows /\ c.arg \in Sessions \cup {None}
    BY JobTypes DEF Typed, TypeOK
  <2>2. calls' = calls \ {c} /\ jobs \subseteq jobs' /\ UNCHANGED <<row, abandoned>>
    BY <1>9 DEF OnSessionStart, CloseResumedOrphan, Submit
  <2>3. CASE StillExpected(c)
    <3>1. active \notin Rows /\ active' = c.row
      BY <1>1, <1>9, <2>1, <2>3 DEF OnSessionStart, StillExpected
    <3>2. QED
      BY <2>2, <3>1, OwnedStays DEF Owned
  <2>4. CASE ~StillExpected(c)
    <3>1. active' = active /\ DeleteJob(c.row) \in jobs'
      BY <1>9, <2>4 DEF OnSessionStart, CloseResumedOrphan, Submit
    <3>2. DeleteJob(c.row).op = "delete" /\ DeleteJob(c.row).row = c.row
      BY <2>1, JobTypes
    <3>3. QED
      BY <2>2, <3>1, <3>2, OwnedStays DEF Owned
  <2>5. QED
    BY <2>3, <2>4
<1>10. ASSUME NEW j \in jobs, RunStart(j), UNCHANGED <<memory, recording, owner>>
       PROVE OpenRowsAreOwned'
  <2>1. j.op = "start" /\ jobs' = jobs \ {j} /\ active' = active /\ abandoned' = abandoned
    BY <1>10 DEF RunStart, Done
  <2>2. calls \subseteq calls'
    BY <1>10 DEF RunStart
  <2>3. \A r \in Rows : Owned(r) => Owned(r)'
    BY <2>1, <2>2 DEF Owned
  <2>4. \A r \in Rows : row'[r] = "open" => row[r] = "open" \/ Owned(r)'
    BY <1>10 DEF RunStart, Owned, Typed, TypeOK
  <2>5. QED
    BY <2>1, <2>3, <2>4 DEF OpenRowsAreOwned
<1>11. ASSUME NEW j \in jobs, RunEnd(j) \/ RunDelete(j),
              UNCHANGED <<memory, recording, owner>>
       PROVE OpenRowsAreOwned'
  <2>1. j.op \in {"end", "delete"} /\ jobs' = jobs \ {j} /\ UNCHANGED <<calls, active>>
    BY <1>11 DEF RunEnd, RunDelete, Done
  <2>2. j.row \in Rows /\ row[j.row] = "open"
    BY <2>1, JobTypes DEF Typed, TypeOK, RowInv, TokenRowInv
  <2>3. abandoned \subseteq abandoned' /\ Abandon(StillOpen(j.row))
    BY <1>11 DEF RunEnd, RunDelete, Abandon
  <2>4. \A r \in Rows : row'[r] = "open" => row[r] = "open"
    BY <1>11 DEF RunEnd, RunDelete, SqlEnd, SqlDelete, Typed, TypeOK
  <2>5. row'[j.row] = "open" => DbFails
    BY <1>11, <2>2 DEF RunEnd, RunDelete, SqlEnd, SqlDelete, Typed, TypeOK
  <2>6. row'[j.row] = "open" => j.row \in abandoned'
    BY <2>3, <2>5 DEF Abandon, StillOpen
  <2>7. \A r \in Rows : row'[r] = "open" /\ Owned(r) => Owned(r)' \/ r \in abandoned'
    BY <2>1, <2>6 DEF Owned
  <2>8. QED
    BY <2>3, <2>4, <2>7, OwnedStays
<1>12. ASSUME NEW j \in jobs, RunPoint(j), UNCHANGED <<memory, recording, owner>>
       PROVE OpenRowsAreOwned'
  BY <1>12, OwnedStays DEF RunPoint, Done, Owned
<1>13. CASE Restart
  BY <1>13 DEF Restart, CloseStaleSessions, OpenRowsAreOwned
<1>14. CASE UNCHANGED vars
  BY <1>14 DEF vars, OpenRowsAreOwned, Owned
<1>15. QED
  BY <1>3, <1>4, <1>5, <1>6, <1>7, <1>8, <1>9, <1>10, <1>11, <1>12, <1>13, <1>14
     DEF Next, Callback, RunJob

\* No row is left shown as charging without somebody who will close or delete it, at
\* no moment and in whatever order the pool answers: the safety part of NoRowForgotten.
THEOREM OwnedTheorem == Spec => []OpenRowsAreOwned
<1>1. Init => OpenRowsAreOwned
  BY DEF Init, OpenRowsAreOwned
<1>2. Typed /\ RowInv /\ OpenRowsAreOwned /\ [Next]_vars => (Typed /\ RowInv /\ OpenRowsAreOwned)'
  BY TypeInductive, RowInductive, OwnedInductive DEF Typed
<1>3. QED
  BY <1>1, <1>2, InitInv, PTL DEF Spec

(***************************************************************************)
(* Which session a row tells, and the refinement of SessionLog.            *)
(***************************************************************************)

EndJobs == {j \in jobs : j.op = "end"}

\* A session is begun and over when its totals are submitted, and only one job
\* has them.
EndJobInv ==
    /\ \A j \in EndJobs : j.arg \in 1..cur /\ (charging => j.arg # cur)
    /\ \A j, k \in EndJobs : j.arg = k.arg => j = k

\* The totals in a row are those of a session that is over, and no job has them.
ToldInv ==
    \A r \in Rows : total[r] # 0 =>
        /\ total[r] \in 1..cur /\ (charging => total[r] # cur)
        /\ \A j \in EndJobs : j.arg # total[r]

TotalInv == EndJobInv /\ ToldInv

\* A step that neither begins nor ends a session and submits no totals.
LEMMA TotalKept ==
    ASSUME TotalInv, EndJobs' \subseteq EndJobs, cur' = cur, charging' => charging,
           total' = total
    PROVE  TotalInv'
BY DEF TotalInv, EndJobInv, ToldInv

\* The totals of the session s, which nobody else has, are written into row r.
LEMMA TotalWritten ==
    ASSUME Typed, TotalInv, NEW r \in Rows, NEW s \in 1..cur, SqlEnd(r, s),
           EndJobs' \subseteq EndJobs, \A j \in EndJobs' : j.arg # s,
           cur' = cur, charging' => charging /\ s # cur
    PROVE  TotalInv'
<1>1. EndJobInv'
  BY DEF TotalInv, EndJobInv
<1>2. \A q \in Rows : total'[q] # total[q] => total'[q] = s
  BY DEF SqlEnd, Typed, TypeOK
<1>3. ToldInv'
  BY <1>2 DEF TotalInv, ToldInv
<1>4. QED
  BY <1>1, <1>3 DEF TotalInv

\* Every step keeps the totals apart.
LEMMA TotalInductive == Typed /\ RowInv /\ TotalInv /\ [Next]_vars => TotalInv'
<1> SUFFICES ASSUME Typed, RowInv, TotalInv, [Next]_vars PROVE TotalInv'
  OBVIOUS
<1> USE DEF memory, database
<1>1. CASE StartSession
  <2>1. cur \in Nat /\ cur' = cur + 1 /\ total' = total
    BY <1>1, SessionAssumption DEF StartSession, Typed, TypeOK
  <2>2. EndJobs' = EndJobs
    BY <1>1, JobTypes DEF StartSession, Submit, EndJobs
  <2>3. \A n \in 1..cur : n \in 1..cur' /\ n # cur'
    BY <2>1
  <2>4. QED
    BY <2>1, <2>2, <2>3 DEF TotalInv, EndJobInv, ToldInv
<1>2. CASE Charge
  BY <1>2, TotalKept DEF Charge, EndJobs
<1>3. CASE RecordChargePoint
  <2>1. EndJobs' = EndJobs
    BY <1>3, JobTypes DEF RecordChargePoint, Submit, EndJobs
  <2>2. QED
    BY <1>3, <2>1, TotalKept DEF RecordChargePoint
<1>4. CASE CloseSession
  <2>1. charging /\ ~charging' /\ cur' = cur /\ total' = total /\ jobs' = jobs \cup FinalJobs
    BY <1>4 DEF CloseSession, Submit
  <2>2. CASE active \in Rows /\ FinalJobs = {EndJob(active, cur)}
    <3> DEFINE n == EndJob(active, cur)
    <3>1. cur \in Sessions /\ cur \in 1..cur
      BY <2>1, SessionAssumption DEF Typed, NumberedInv, Sessions
    <3>2. n.op = "end" /\ n.arg = cur
      BY <2>2, <3>1, JobTypes
    <3>3. EndJobs' = EndJobs \cup {n}
      BY <2>1, <2>2, <3>2 DEF EndJobs
    <3> HIDE DEF n
    <3>4. EndJobInv'
      BY <2>1, <3>1, <3>2, <3>3 DEF TotalInv, EndJobInv
    <3>5. ToldInv'
      BY <2>1, <3>2, <3>3 DEF TotalInv, ToldInv
    <3>6. QED
      BY <3>4, <3>5 DEF TotalInv
  <2>3. CASE FinalJobs = {} \/ (active \in Rows /\ FinalJobs = {DeleteJob(active)})
    <3>1. EndJobs' = EndJobs
      BY <2>1, <2>3, JobTypes DEF EndJobs
    <3>2. QED
      BY <2>1, <3>1, TotalKept
  <2>4. \/ FinalJobs = {}
        \/ active \in Rows /\ FinalJobs = {DeleteJob(active)}
        \/ active \in Rows /\ FinalJobs = {EndJob(active, cur)}
    BY DEF FinalJobs
  <2>5. QED
    BY <2>2, <2>3, <2>4
<1>5. CASE CloseActiveSessions
  <2>1. charging /\ ~charging' /\ cur' = cur /\ EndJobs' = EndJobs
    BY <1>5 DEF CloseActiveSessions, EndJobs
  <2>2. CASE active \in Rows /\ SqlEnd(active, cur)
    <3>1. cur \in 1..cur
      BY <2>1, SessionAssumption DEF Typed, NumberedInv, Sessions
    <3>2. \A j \in EndJobs' : j.arg # cur
      BY <2>1 DEF TotalInv, EndJobInv
    <3>3. QED
      BY <2>1, <2>2, <3>1, <3>2, TotalWritten
  <2>3. CASE total' = total
    BY <2>1, <2>3, TotalKept
  <2>4. QED
    BY <1>5, <2>2, <2>3 DEF CloseActiveSessions
<1>6. CASE SwitchRecording
  <2>1. EndJobs' = EndJobs
    BY <1>6, JobTypes DEF SwitchRecording, ResumeRecordingSessions, Submit, EndJobs
  <2>2. QED
    BY <1>6, <2>1, TotalKept DEF SwitchRecording
<1>7. ASSUME NEW c \in calls, OnSessionStart(c) PROVE TotalInv'
  <2>1. c.row \in Rows
    BY JobTypes DEF Typed, TypeOK
  <2>2. EndJobs' = EndJobs
    BY <1>7, <2>1, JobTypes DEF OnSessionStart, CloseResumedOrphan, Submit, EndJobs
  <2>3. QED
    BY <1>7, <2>2, TotalKept DEF OnSessionStart
<1>8. ASSUME NEW j \in jobs, RunEnd(j), UNCHANGED <<memory, recording, owner>>
      PROVE TotalInv'
  <2>1. j \in EndJobs /\ jobs' = jobs \ {j} /\ SqlEnd(j.row, j.arg)
    BY <1>8 DEF RunEnd, Done, EndJobs
  <2>2. j.row \in Rows
    BY JobTypes DEF Typed, TypeOK
  <2>3. EndJobs' = EndJobs \ {j}
    BY <2>1 DEF EndJobs
  <2>4. j.arg \in 1..cur /\ (charging => j.arg # cur) /\ \A k \in EndJobs' : k.arg # j.arg
    BY <2>1, <2>3 DEF TotalInv, EndJobInv
  <2>5. QED
    BY <1>8, <2>1, <2>2, <2>3, <2>4, TotalWritten
<1>9. ASSUME NEW j \in jobs, RunStart(j) \/ RunDelete(j) \/ RunPoint(j),
             UNCHANGED <<memory, recording, owner>>
      PROVE TotalInv'
  <2>1. EndJobs' \subseteq EndJobs /\ total' = total
    BY <1>9 DEF RunStart, RunDelete, RunPoint, Done, EndJobs
  <2>2. QED
    BY <1>9, <2>1, TotalKept
<1>10. CASE Restart
  BY <1>10, TotalKept DEF Restart, EndJobs
<1>11. CASE UNCHANGED vars
  BY <1>11, TotalKept DEF vars, EndJobs
<1>12. QED
  BY <1>1, <1>2, <1>3, <1>4, <1>5, <1>6, <1>7, <1>8, <1>9, <1>10, <1>11
     DEF Next, Callback, RunJob

\* The totals of a session, written into an open row, are a Write of the log.
LEMMA LogWrite ==
    ASSUME Typed, NEW r \in Rows, NEW s \in Sessions, row[r] = "open",
           \A q \in Rows : total[q] # s, SqlEnd(r, s)
    PROVE  [Log!Next]_(Log!log)
<1>1. Log!Write(r, s) \/ UNCHANGED <<row, total>>
  BY DEF SqlEnd, Log!Write
<1>2. QED
  BY <1>1 DEF Log!Next, Log!log

\* Every step of the sessions is a step of the log or leaves it alone.
LEMMA LogStep == Typed /\ RowInv /\ TotalInv /\ [Next]_vars => [Log!Next]_(Log!log)
<1> SUFFICES ASSUME Typed, RowInv, TotalInv, [Next]_vars PROVE [Log!Next]_(Log!log)
  OBVIOUS
<1> USE DEF memory, database
<1>1. CASE StartSession \/ Charge \/ RecordChargePoint \/ CloseSession \/ SwitchRecording
  BY <1>1 DEF StartSession, Charge, RecordChargePoint, CloseSession, SwitchRecording, Log!log
<1>2. CASE CloseActiveSessions
  <2>1. CASE active \in Rows /\ SqlEnd(active, cur)
    <3>1. row[active] = "open" /\ charging /\ cur \in Sessions
      BY <1>2, <2>1 DEF RowInv, ActiveRowIsOpen, Typed, NumberedInv, CloseActiveSessions
    <3>2. \A q \in Rows : total[q] # cur
      BY <3>1, SessionAssumption DEF TotalInv, ToldInv, Sessions
    <3>3. QED
      BY <2>1, <3>1, <3>2, LogWrite
  <2>2. CASE UNCHANGED <<row, total>>
    BY <2>2 DEF Log!log
  <2>3. QED
    BY <1>2, <2>1, <2>2 DEF CloseActiveSessions
<1>3. ASSUME NEW c \in calls, OnSessionStart(c) PROVE [Log!Next]_(Log!log)
  BY <1>3 DEF OnSessionStart, Log!log
<1>4. ASSUME NEW j \in jobs, RunStart(j) PROVE [Log!Next]_(Log!log)
  <2>1. j.row \in Rows /\ row[j.row] = "absent"
    BY <1>4, JobTypes DEF RunStart, Typed, TypeOK, RowInv, TokenRowInv
  <2>2. Log!Open(j.row) \/ UNCHANGED <<row, total>>
    BY <1>4, <2>1 DEF RunStart, Log!Open
  <2>3. QED
    BY <2>1, <2>2 DEF Log!Next, Log!log
<1>5. ASSUME NEW j \in jobs, RunEnd(j) PROVE [Log!Next]_(Log!log)
  <2>1. j \in EndJobs /\ SqlEnd(j.row, j.arg)
    BY <1>5 DEF RunEnd, EndJobs
  <2>2. j.row \in Rows /\ j.arg \in Sessions /\ j.arg # 0
    BY <2>1, JobTypes DEF Typed, TypeOK, EndJobs, Sessions
  <2>3. row[j.row] = "open"
    BY <2>1 DEF RowInv, TokenRowInv, EndJobs
  <2>4. \A q \in Rows : total[q] # j.arg
    BY <2>1, <2>2 DEF TotalInv, ToldInv
  <2>5. QED
    BY <2>1, <2>2, <2>3, <2>4, LogWrite
<1>6. ASSUME NEW j \in jobs, RunDelete(j) PROVE [Log!Next]_(Log!log)
  <2>1. j.row \in Rows /\ row[j.row] = "open"
    BY <1>6, JobTypes DEF RunDelete, Typed, TypeOK, RowInv, TokenRowInv
  <2>2. Log!Delete(j.row) \/ UNCHANGED <<row, total>>
    BY <1>6, <2>1 DEF RunDelete, SqlDelete, Log!Delete
  <2>3. QED
    BY <2>1, <2>2 DEF Log!Next, Log!log
<1>7. ASSUME NEW j \in jobs, RunPoint(j) PROVE [Log!Next]_(Log!log)
  BY <1>7 DEF RunPoint, Log!log
<1>8. CASE Restart
  <2>1. PICK stored \in {points, points \cup buffer} : CloseStaleSessions(stored)
    BY <1>8 DEF Restart
  <2>2. PICK kept \in SUBSET {r \in stored : row[r] = "open"} :
          row' = [r \in Rows |-> IF row[r] # "open" THEN row[r]
                                 ELSE IF r \in kept THEN "closed" ELSE "deleted"]
    BY <2>1 DEF CloseStaleSessions
  <2>3. kept \in SUBSET Log!OpenRows
    BY <2>2 DEF Log!OpenRows, Typed, TypeOK
  <2>4. row' = [r \in Rows |-> IF r \notin Log!OpenRows THEN row[r]
                               ELSE IF r \in kept THEN "closed" ELSE "deleted"]
    BY <2>2 DEF Log!OpenRows
  <2>5. Log!Restart
    BY <1>8, <2>3, <2>4 DEF Restart, Log!Restart
  <2>6. QED
    BY <2>5 DEF Log!Next
<1>9. CASE UNCHANGED vars
  BY <1>9 DEF vars, Log!log
<1>10. QED
  BY <1>1, <1>2, <1>3, <1>4, <1>5, <1>6, <1>7, <1>8, <1>9 DEF Next, Callback, RunJob

\* The sessions of a port implement SessionLog: whatever the pool, the loop, a
\* restart and a failing database do, a row is opened once, gets the totals of
\* one session that no other row has, and what is written stays.
THEOREM SessionsKeepLog == Spec => KeepsLog
<1>1. Init => Log!Init
  BY DEF Init, Log!Init
<1>2. Init => TotalInv
  BY DEF Init, TotalInv, EndJobInv, ToldInv, EndJobs
<1>3. Typed /\ RowInv /\ TotalInv /\ [Next]_vars => (Typed /\ RowInv /\ TotalInv)'
  BY TypeInductive, RowInductive, TotalInductive DEF Typed
<1>4. QED
  BY <1>1, <1>2, <1>3, InitInv, LogStep, PTL DEF Spec, KeepsLog, Log!Spec

\* A row that is deleted leaves no sample point behind, neither in the table nor
\* in the buffer, whether its delete job or a restart deletes it.
THEOREM PointsGoWithTheirRow == Spec => DeleteTakesPoints
<1> DEFINE Takes == \A r \in Rows : row[r] = "open" /\ row'[r] = "deleted"
                        => r \notin points' /\ r \notin buffer'
<1>1. ASSUME Typed, [Next]_vars PROVE [Takes]_vars
  <2> USE DEF memory, database
  <2>1. CASE StartSession \/ Charge \/ RecordChargePoint \/ CloseSession
             \/ SwitchRecording
    <3>1. row' = row
      BY <2>1 DEF StartSession, Charge, RecordChargePoint, CloseSession, SwitchRecording
    <3>2. QED
      BY <3>1
  <2>2. CASE CloseActiveSessions
    <3>1. \A r \in Rows : row'[r] # row[r] => row'[r] # "deleted"
      BY <1>1, <2>2 DEF CloseActiveSessions, SqlEnd, Typed, TypeOK
    <3>2. QED
      BY <3>1
  <2>3. CASE Callback
    BY <2>3 DEF Callback, OnSessionStart
  <2>4. ASSUME NEW j \in jobs, RunStart(j) \/ RunEnd(j) \/ RunPoint(j) PROVE Takes
    <3>1. \A r \in Rows : row'[r] # row[r] => row'[r] # "deleted"
      BY <1>1, <2>4 DEF RunStart, RunEnd, RunPoint, SqlEnd, Typed, TypeOK
    <3>2. QED
      BY <3>1
  <2>5. ASSUME NEW j \in jobs, RunDelete(j) PROVE Takes
    <3>1. CASE Flush({j.row}) /\ row' = [row EXCEPT ![j.row] = "deleted"]
      <4>1. j.row \notin points' /\ buffer' = {}
        BY <3>1 DEF Flush
      <4>2. \A r \in Rows : row'[r] # row[r] => r = j.row
        BY <1>1, <3>1 DEF Typed, TypeOK
      <4>3. QED
        BY <4>1, <4>2
    <3>2. CASE UNCHANGED row
      BY <3>2
    <3>3. QED
      BY <2>5, <3>1, <3>2 DEF RunDelete, SqlDelete
  <2>6. CASE Restart
    BY <2>6 DEF Restart, CloseStaleSessions
  <2>7. CASE UNCHANGED vars
    BY <2>7
  <2>8. QED
    BY <1>1, <2>1, <2>2, <2>3, <2>4, <2>5, <2>6, <2>7 DEF Next, RunJob
<1>2. Typed /\ [Next]_vars => Typed'
  BY TypeInductive DEF Typed
<1>3. QED
  BY <1>1, <1>2, InitInv, PTL DEF Spec, DeleteTakesPoints


-----------------------------------------------------------------------------
(* The detector of a charge: numbers.                                        *)

\* The least element: what replaces induction, whose library theorem takes the
\* statement as a parameter.
LEMMA LeastNumber ==
    ASSUME NEW T, T \subseteq Nat, T # {}
    PROVE  \E x \in T : \A y \in T : x <= y
<1>1. PICK x \in T : \A y \in T : <<y, x>> \notin OpToRel(<,Nat)
  BY NatLessThanWellFounded, WFMin
<1>2. \A y \in T : y < x => <<y, x>> \in OpToRel(<,Nat)
  BY DEF OpToRel
<1>3. \A y \in T : ~(y < x) /\ x \in Nat /\ y \in Nat
  BY <1>1, <1>2
<1>4. QED
  BY <1>3

\* A bounded set of naturals has a greatest element, and Max is it.
LEMMA Greatest ==
    ASSUME NEW S, NEW b \in Nat, S \subseteq 0..b, S # {}
    PROVE  Max(S) \in S /\ \A x \in S : x <= Max(S)
<1> DEFINE T == {d \in 0..b : b - d \in S}
<1>1. T \subseteq Nat /\ T # {}
  <2>1. PICK x \in S : TRUE
    OBVIOUS
  <2>2. b - x \in 0..b /\ b - (b - x) = x
    BY <2>1
  <2>3. QED
    BY <2>1, <2>2
<1>2. PICK d \in T : \A y \in T : d <= y
  BY <1>1, LeastNumber
<1>3. \A x \in S : x <= b - d
  <2>1. TAKE x \in S
  <2>2. b - x \in 0..b /\ b - (b - x) = x
    BY <2>1
  <2>3. b - x \in T
    BY <2>1, <2>2
  <2>4. d <= b - x
    BY <2>3, <1>2
  <2>5. QED
    BY <2>1, <2>4, <1>1
<1>4. b - d \in S /\ \A x \in S : b - d >= x
  <2>1. b - d \in S
    BY <1>2
  <2>2. QED
    BY <2>1, <1>2, <1>3
<1>5. Max(S) \in S /\ \A x \in S : Max(S) >= x
  BY <1>4 DEF Max
<1>6. QED
  BY <1>5

\* Finitely many naturals are bounded.
LEMMA Bounded ==
    ASSUME NEW n \in Nat, NEW f \in [1..n -> Nat]
    PROVE  \E b \in Nat : \A i \in 1..n : f[i] <= b
<1> DEFINE T == {m \in 0..n : ~\E b \in Nat : \A i \in 1..m : f[i] <= b}
<1>1. T \subseteq Nat /\ (T = {} => \E b \in Nat : \A i \in 1..n : f[i] <= b)
  <2>1. T \subseteq Nat
    OBVIOUS
  <2>2. ASSUME T = {} PROVE \E b \in Nat : \A i \in 1..n : f[i] <= b
    <3>1. n \in 0..n
      OBVIOUS
    <3>2. n \notin T
      BY <2>2
    <3>3. QED
      BY <3>1, <3>2
  <2>3. QED
    BY <2>1, <2>2
<1>2. ASSUME T # {} PROVE FALSE
  <2>1. PICK m \in T : \A k \in T : m <= k
    BY <1>1, <1>2, LeastNumber
  <2>2. m \in 0..n /\ ~\E b \in Nat : \A i \in 1..m : f[i] <= b
    BY <2>1
  <2>3. m # 0
    BY <2>2
  <2>4. m - 1 \in 0..n /\ m \in 1..n /\ ~(m <= m - 1)
    BY <2>2, <2>3
  <2>5. m - 1 \notin T
    BY <2>1, <2>4
  <2>6. PICK b \in Nat : \A i \in 1..(m - 1) : f[i] <= b
    BY <2>4, <2>5
  <2>7. f[m] \in Nat
    BY <2>4
  <2> DEFINE c == IF f[m] <= b THEN b ELSE f[m]
  <2>8. c \in Nat /\ b <= c /\ f[m] <= c
    BY <2>7
  <2>9. \A i \in 1..m : f[i] <= c
    <3>1. SUFFICES ASSUME NEW i \in 1..m PROVE f[i] <= c
      OBVIOUS
    <3>2. CASE i = m
      BY <3>2, <2>8
    <3>3. CASE i # m
      <4>1. i \in 1..(m - 1) /\ i \in 1..n
        BY <3>1, <3>3, <2>2
      <4>2. f[i] \in Nat /\ f[i] <= b
        BY <4>1, <2>6
      <4>3. QED
        BY <4>2, <2>8, <2>7
    <3>4. QED
      BY <3>2, <3>3
  <2>10. QED
    BY <2>9, <2>8, <2>2
<1>3. QED
  BY <1>1, <1>2

\* The greatest element of a finite set of naturals.
LEMMA GreatestOfFinite ==
    ASSUME NEW S, IsFiniteSet(S), S \subseteq Nat, S # {}
    PROVE  /\ Max(S) \in S /\ \A x \in S : x <= Max(S)
           /\ \E b \in Nat : S \subseteq 0..b
<1>1. Cardinality(S) \in Nat /\ ExistsBijection(1..Cardinality(S), S)
  BY FS_CardinalityType
<1>2. PICK f \in Bijection(1..Cardinality(S), S) : TRUE
  BY <1>1 DEF ExistsBijection
<1>3. f \in [1..Cardinality(S) -> S] /\ \A x \in S : \E i \in 1..Cardinality(S) : f[i] = x
  BY <1>2 DEF Bijection, Injection, Surjection
<1>4. f \in [1..Cardinality(S) -> Nat]
  BY <1>3
<1>5. PICK b \in Nat : \A i \in 1..Cardinality(S) : f[i] <= b
  BY <1>1, <1>4, Bounded
<1>6. S \subseteq 0..b
  BY <1>3, <1>5
<1>7. QED
  BY <1>6, Greatest

\* What the assumption says of the powers and of the intervals.
LEMMA PowersBounded ==
    /\ Max(Powers) \in Nat /\ Max(Powers) \in Powers /\ 0 \in Powers
    /\ \A v \in Powers : v \in Nat /\ v <= Max(Powers) /\ v \in 0..Max(Powers)
<1>1. IsFiniteSet(Powers) /\ Powers \subseteq Nat /\ Powers # {} /\ 0 \in Powers
  BY DetectorAssumption
<1>2. Max(Powers) \in Powers /\ \A v \in Powers : v <= Max(Powers)
  BY <1>1, GreatestOfFinite
<1>3. \A v \in Powers : v \in 0..Max(Powers)
  BY <1>1, <1>2
<1>4. QED
  BY <1>1, <1>2, <1>3

LEMMA StepsBounded ==
    Longest \in Nat /\ \A dt \in Steps : dt \in Nat \ {0} /\ dt <= Longest
<1>1. IsFiniteSet(Steps) /\ Steps \subseteq Nat \ {0} /\ Steps # {}
  BY DetectorAssumption
<1>2. Max(Steps) \in Steps /\ \A dt \in Steps : dt <= Max(Steps)
  BY <1>1, GreatestOfFinite
<1>3. QED
  BY <1>1, <1>2 DEF Longest

\* The larger and the smaller of two.
LEMMA TwoNumbers ==
    ASSUME NEW x \in Nat, NEW y \in Nat
    PROVE  /\ Max({x, y}) = IF x >= y THEN x ELSE y
           /\ Min({x, y}) = IF x <= y THEN x ELSE y
<1>1. Max({x, y}) = IF x >= y THEN x ELSE y
  BY DEF Max
<1>2. Min({x, y}) = IF x <= y THEN x ELSE y
  BY DEF Min
<1>3. QED
  BY <1>1, <1>2

-----------------------------------------------------------------------------
(* The window.                                                               *)

\* What a sample is, and a window: the samples in the order of their ages, the last
\* one just taken.
Reading == [age : Nat, p : Powers]
IsWindow(s) ==
    /\ s \in Seq(Reading)
    /\ \A i, j \in 1..Len(s) : i < j => s[i].age > s[j].age
    /\ Len(s) > 0 => s[Len(s)].age = 0

LEMMA WindowFacts ==
    ASSUME NEW s, IsWindow(s)
    PROVE  /\ s \in Seq(Reading) /\ Len(s) \in Nat /\ DOMAIN s = 1..Len(s)
           /\ \A i \in 1..Len(s) : s[i] \in Reading /\ s[i].age \in Nat /\ s[i].p \in Powers
<1>1. s \in Seq(Reading)
  BY DEF IsWindow
<1>2. Len(s) \in Nat /\ DOMAIN s = 1..Len(s)
  BY <1>1, LenProperties
<1>3. \A i \in 1..Len(s) : s[i] \in Reading
  BY <1>1, ElementOfSeq
<1>4. QED
  BY <1>1, <1>2, <1>3 DEF Reading

\* Those within the window are the end of it.
LEMMA WithinIsEnd ==
    ASSUME NEW s, IsWindow(s), NEW w \in Int
    PROVE  \E c \in 1..(Len(s) + 1) :
              /\ \A i \in 1..Len(s) : s[i].age <= w <=> i >= c
              /\ Within(s, w) \in Seq(Reading)
              /\ Len(Within(s, w)) = Len(s) + 1 - c
              /\ \A i \in 1..(Len(s) + 1 - c) : Within(s, w)[i] = s[i + c - 1]
<1> USE DEF Reading
<1> DEFINE n == Len(s)
           T == {i \in 1..n : s[i].age <= w} \cup {n + 1}
<1>1. s \in Seq(Reading) /\ n \in Nat /\ DOMAIN s = 1..n /\ \A i \in 1..n : s[i] \in Reading
  BY WindowFacts
<1>2. T \subseteq Nat /\ T # {}
  BY <1>1
<1>3. PICK c \in T : \A i \in T : c <= i
  BY <1>2, LeastNumber
<1>4. c \in 1..(n + 1)
  BY <1>1, <1>3
<1>5. \A i \in 1..n : s[i].age <= w <=> i >= c
  <2>1. TAKE i \in 1..n
  <2>2. ASSUME s[i].age <= w PROVE i >= c
    BY <2>2, <1>3, <1>4
  <2>3. ASSUME i >= c PROVE s[i].age <= w
    <3>1. c \in 1..n /\ s[c].age <= w
      BY <2>1, <2>3, <1>1, <1>3, <1>4
    <3>2. s[c].age >= s[i].age
      <4>1. CASE c = i
        BY <4>1, <3>1, <1>1
      <4>2. CASE c < i
        BY <4>2, <3>1, <2>1, <1>1 DEF IsWindow
      <4>3. QED
        BY <4>1, <4>2, <2>3, <1>4, <1>1
    <3>3. QED
      BY <3>1, <3>2, <1>1
  <2>4. QED
    BY <2>2, <2>3
<1>6. {i \in DOMAIN s : s[i].age <= w} = c..n
  BY <1>1, <1>4, <1>5
<1>7. Cardinality(c..n) = n + 1 - c
  <2>1. c \in Int /\ n \in Int
    BY <1>1, <1>4
  <2>2. Cardinality(c..n) = IF c > n THEN 0 ELSE n - c + 1
    BY <2>1, FS_Interval
  <2>3. QED
    BY <2>1, <2>2, <1>4
<1>8. Within(s, w) = SubSeq(s, c, n)
  <2>1. n + 1 - (n + 1 - c) = c
    BY <1>1, <1>4
  <2>2. QED
    BY <2>1, <1>6, <1>7 DEF Within
<1>9. \A i \in c..n : s[i] \in Reading
  BY <1>1, <1>4
<1>10. /\ SubSeq(s, c, n) \in Seq(Reading)
       /\ Len(SubSeq(s, c, n)) = IF c <= n THEN n - c + 1 ELSE 0
       /\ \A i \in 1..(n - c + 1) : SubSeq(s, c, n)[i] = s[c + i - 1]
  BY <1>1, <1>4, <1>9, SubSeqProperties
<1>11. Len(Within(s, w)) = n + 1 - c
  BY <1>1, <1>4, <1>8, <1>10
<1>12. \A i \in 1..(n + 1 - c) : Within(s, w)[i] = s[i + c - 1]
  <2>1. TAKE i \in 1..(n + 1 - c)
  <2>2. i \in 1..(n - c + 1) /\ c + i - 1 = i + c - 1
    BY <1>1, <1>4
  <2>3. QED
    BY <2>2, <1>8, <1>10
<1>13. QED
  BY <1>4, <1>5, <1>8, <1>10, <1>11, <1>12

\* So it is a window itself.
LEMMA WithinIsWindow ==
    ASSUME NEW s, IsWindow(s), NEW w \in Int
    PROVE  IsWindow(Within(s, w))
<1>1. PICK c \in 1..(Len(s) + 1) :
         /\ Within(s, w) \in Seq(Reading)
         /\ Len(Within(s, w)) = Len(s) + 1 - c
         /\ \A i \in 1..(Len(s) + 1 - c) : Within(s, w)[i] = s[i + c - 1]
  BY WithinIsEnd
<1>2. Len(s) \in Nat
  BY DEF IsWindow
<1>3. \A i, j \in 1..(Len(s) + 1 - c) : i < j => Within(s, w)[i].age > Within(s, w)[j].age
  <2>1. TAKE i, j \in 1..(Len(s) + 1 - c)
  <2>2. /\ i + c - 1 \in 1..Len(s) /\ j + c - 1 \in 1..Len(s)
        /\ i < j => i + c - 1 < j + c - 1
    BY <1>2
  <2>3. QED
    BY <2>2, <1>1 DEF IsWindow
<1>4. Len(s) + 1 - c > 0 => Within(s, w)[Len(s) + 1 - c].age = 0
  <2>1. ASSUME Len(s) + 1 - c > 0 PROVE Within(s, w)[Len(s) + 1 - c].age = 0
    <3>1. /\ Len(s) + 1 - c \in 1..(Len(s) + 1 - c) /\ Len(s) + 1 - c + c - 1 = Len(s)
          /\ Len(s) > 0
      BY <1>2, <2>1
    <3>2. QED
      BY <3>1, <1>1 DEF IsWindow
  <2>2. QED
    BY <2>1
<1>5. QED
  BY <1>1, <1>3, <1>4 DEF IsWindow

\* What feed makes of a window: what is left of it grows older, the sample follows.
Feeds(s, dt, p, c, f) ==
    /\ \A i \in 1..Len(s) : s[i].age + dt <= ASSESS <=> i >= c
    /\ Len(f) = Len(s) + 2 - c
    /\ \A i \in 1..(Len(s) + 1 - c) :
          f[i] = [age |-> s[i + c - 1].age + dt, p |-> s[i + c - 1].p]
    /\ f[Len(s) + 2 - c] = [age |-> 0, p |-> p]

LEMMA FeedIsWindow ==
    ASSUME NEW s, IsWindow(s), NEW dt \in Nat \ {0}, NEW p \in Powers
    PROVE  /\ IsWindow(Feed(s, dt, p))
           /\ \A i \in 1..Len(Feed(s, dt, p)) : Feed(s, dt, p)[i].age <= ASSESS
           /\ \E c \in 1..(Len(s) + 1) : Feeds(s, dt, p, c, Feed(s, dt, p))
<1> USE DEF Reading
<1> DEFINE n == Len(s)
           kept == Within(s, ASSESS - dt)
           aged == [i \in 1..Len(kept) |-> [kept[i] EXCEPT !.age = @ + dt]]
           F == Feed(s, dt, p)
<1>1. s \in Seq(Reading) /\ n \in Nat /\ \A i \in 1..n : s[i] \in Reading
  BY WindowFacts
<1>2. ASSESS \in Nat /\ ASSESS - dt \in Int /\ Powers \subseteq Nat
  BY DetectorAssumption
<1>3. PICK c \in 1..(n + 1) :
         /\ \A i \in 1..n : s[i].age <= ASSESS - dt <=> i >= c
         /\ kept \in Seq(Reading)
         /\ Len(kept) = n + 1 - c
         /\ \A i \in 1..(n + 1 - c) : kept[i] = s[i + c - 1]
  BY <1>2, WithinIsEnd
<1>4. \A i \in 1..n : s[i].age + dt <= ASSESS <=> i >= c
  BY <1>1, <1>2, <1>3, SMTT(30)
<1>5. \A i \in 1..(n + 1 - c) :
         /\ i + c - 1 \in 1..n /\ kept[i] \in Reading
         /\ aged[i] = [age |-> s[i + c - 1].age + dt, p |-> s[i + c - 1].p]
         /\ aged[i] \in Reading
  <2>1. TAKE i \in 1..(n + 1 - c)
  <2>2. i + c - 1 \in 1..n /\ kept[i] = s[i + c - 1]
    <3>1. n \in Nat
      BY <1>1
    <3>2. kept[i] = s[i + c - 1]
      BY <1>3
    <3> HIDE DEF n, kept, aged, F, Reading
    <3>3. i + c - 1 \in 1..n
      BY <3>1
    <3>4. QED
      BY <3>2, <3>3
  <2>3. s[i + c - 1] \in Reading
    BY <2>2, <1>1
  <2>4. aged[i] = [kept[i] EXCEPT !.age = kept[i].age + dt]
    BY <1>3
  <2> HIDE DEF n, kept, aged
  <2>5. kept[i] \in Reading /\ kept[i].age \in Nat /\ kept[i].p \in Powers
        /\ kept[i].age = s[i + c - 1].age /\ kept[i].p = s[i + c - 1].p
    <3>1. kept[i] = s[i + c - 1]
      BY <2>2
    <3>2. s[i + c - 1].age \in Nat /\ s[i + c - 1].p \in Powers
      BY <2>3
    <3> HIDE DEF Reading
    <3>3. QED
      BY <3>1, <3>2, <2>3
  <2>6. aged[i] = [age |-> kept[i].age + dt, p |-> kept[i].p]
    BY <2>4, <2>5
  <2>7. aged[i] \in Reading
    BY <2>5, <2>6
  <2>8. QED
    BY <2>2, <2>5, <2>6, <2>7
<1>6. aged \in Seq(Reading) /\ Len(aged) = n + 1 - c
  <2>1. n + 1 - c \in Nat
    BY <1>1
  <2>2. aged \in [1..(n + 1 - c) -> Reading]
    BY <1>3, <1>5
  <2>3. QED
    BY <2>1, <2>2
<1>7. F = Append(aged, [age |-> 0, p |-> p]) /\ [age |-> 0, p |-> p] \in Reading
  BY DEF Feed
<1>8. F \in Seq(Reading) /\ Len(F) = n + 2 - c
  BY <1>1, <1>6, <1>7, SMTT(30)
<1>9. /\ F[n + 2 - c] = [age |-> 0, p |-> p]
      /\ \A i \in 1..(n + 1 - c) : F[i] = aged[i]
  BY <1>1, <1>6, <1>7
<1>10. \A i \in 1..(n + 1 - c) :
          /\ F[i] = [age |-> s[i + c - 1].age + dt, p |-> s[i + c - 1].p]
          /\ F[i].age <= ASSESS /\ F[i].age > 0 /\ F[i].age = s[i + c - 1].age + dt
  <2>1. TAKE i \in 1..(n + 1 - c)
  <2> HIDE DEF n, kept, aged, F
  <2>2. /\ F[i] = [age |-> s[i + c - 1].age + dt, p |-> s[i + c - 1].p]
        /\ i + c - 1 \in 1..n /\ i + c - 1 >= c
    <3>1. F[i] = aged[i]
      BY <1>9
    <3>2. i + c - 1 >= c
      BY <1>1
    <3>3. QED
      BY <3>1, <3>2, <1>5
  <2>3. s[i + c - 1].age \in Nat /\ s[i + c - 1].age + dt <= ASSESS
    BY <2>2, <1>1, <1>4
  <2>4. QED
    BY <2>2, <2>3, <1>2
<1>11. \A i, j \in 1..(n + 2 - c) : i < j => F[i].age > F[j].age
  <2>1. SUFFICES ASSUME NEW i \in 1..(n + 2 - c), NEW j \in 1..(n + 2 - c), i < j
                 PROVE  F[i].age > F[j].age
    OBVIOUS
  <2> HIDE DEF n, kept, aged, F
  <2>2. i \in 1..(n + 1 - c)
    BY <2>1, <1>1
  <2>3. CASE j = n + 2 - c
    <3>1. F[j].age = 0
      BY <2>3, <1>9
    <3>2. F[i].age > 0
      BY <2>2, <1>10
    <3>3. QED
      BY <3>1, <3>2
  <2>4. CASE j # n + 2 - c
    <3>1. j \in 1..(n + 1 - c)
      BY <2>4, <1>1
    <3>2. i + c - 1 \in 1..n /\ j + c - 1 \in 1..n /\ i + c - 1 < j + c - 1
      BY <2>1, <2>2, <3>1, <1>1
    <3>3. s[i + c - 1].age > s[j + c - 1].age
      BY <3>2 DEF IsWindow, n
    <3>4. s[i + c - 1].age \in Nat /\ s[j + c - 1].age \in Nat
      BY <3>2, <1>1
    <3>5. F[i].age = s[i + c - 1].age + dt
      BY <2>2, <1>10
    <3>6. F[j].age = s[j + c - 1].age + dt
      BY <3>1, <1>10
    <3>7. QED
      BY <3>3, <3>4, <3>5, <3>6
  <2>5. QED
    BY <2>3, <2>4
<1>12. IsWindow(F)
  <2> HIDE DEF n, kept, aged, F
  <2> QED BY <1>8, <1>9, <1>11 DEF IsWindow
<1>13. \A i \in 1..Len(F) : F[i].age <= ASSESS
  <2>1. SUFFICES ASSUME NEW i \in 1..(n + 2 - c) PROVE F[i].age <= ASSESS
    BY <1>8
  <2>2. CASE i = n + 2 - c
    BY <2>2, <1>9, <1>2
  <2>3. CASE i # n + 2 - c
    <3>1. i \in 1..(n + 1 - c)
      BY <2>3, <1>1
    <3>2. QED
      BY <3>1, <1>10
  <2>4. QED
    BY <2>2, <2>3
<1>14. Feeds(s, dt, p, c, F)
  BY <1>4, <1>8, <1>9, <1>10 DEF Feeds
<1>15. QED
  BY <1>12, <1>13, <1>14

\* A window has no more samples than ages.
LEMMA WindowLength ==
    ASSUME NEW s, IsWindow(s), NEW b \in Nat, \A i \in 1..Len(s) : s[i].age <= b
    PROVE  Len(s) <= b + 1
<1> DEFINE n == Len(s)
           T == {d \in 0..(n - 1) : s[n - d].age < d}
<1>1. n \in Nat /\ \A i \in 1..n : s[i].age \in Nat
  BY WindowFacts
<1>2. ASSUME T # {} PROVE FALSE
  <2>1. T \subseteq Nat
    BY <1>1
  <2>2. PICK d \in T : \A e \in T : d <= e
    BY <1>2, <2>1, LeastNumber
  <2>3. d \in 0..(n - 1) /\ s[n - d].age < d /\ n - d \in 1..n /\ d \in Nat
    BY <2>2, <1>1
  <2>4. s[n - d].age \in Nat /\ d # 0
    BY <2>3, <1>1
  <2>5. d - 1 \in 0..(n - 1) /\ ~(d <= d - 1) /\ n - (d - 1) \in 1..n /\ n - d < n - (d - 1)
    BY <2>3, <2>4, <1>1
  <2>6. d - 1 \notin T
    BY <2>2, <2>5
  <2>7. ~(s[n - (d - 1)].age < d - 1)
    BY <2>5, <2>6
  <2>8. s[n - d].age > s[n - (d - 1)].age
    BY <2>3, <2>5 DEF IsWindow
  <2>9. s[n - (d - 1)].age \in Nat
    BY <2>5, <1>1
  <2>10. QED
    BY <2>3, <2>4, <2>7, <2>8, <2>9
<1>3. CASE n = 0
  BY <1>3
<1>4. CASE n > 0
  <2>1. n - 1 \in 0..(n - 1) /\ n - (n - 1) = 1 /\ 1 \in 1..n
    BY <1>1, <1>4
  <2>2. ~(s[1].age < n - 1)
    BY <2>1, <1>2
  <2>3. s[1].age <= b /\ s[1].age \in Nat
    BY <2>1, <1>1
  <2>4. QED
    BY <2>2, <2>3, <1>1
<1>5. QED
  BY <1>1, <1>3, <1>4

\* While the gate counts, the run it counts grows older with the window and ends with
\* the new sample: the window is long enough not to lose any of it.
LEMMA RunGrows ==
    ASSUME NEW s, IsWindow(s), NEW dt \in Nat \ {0}, NEW p \in Powers,
           NEW a \in Nat, a + dt <= ASSESS
    PROVE  LET r == Within(s, a)
               q == Within(Feed(s, dt, p), a + dt)
           IN  /\ Len(q) = Len(r) + 1
               /\ \A i \in 1..Len(r) : q[i].age = r[i].age + dt /\ q[i].p = r[i].p
               /\ q[Len(r) + 1] = [age |-> 0, p |-> p]
<1> DEFINE n == Len(s)
           F == Feed(s, dt, p)
           r == Within(s, a)
           q == Within(F, a + dt)
<1>1. n \in Nat /\ \A i \in 1..n : s[i].age \in Nat
  BY WindowFacts
<1>2. ASSESS \in Nat
  BY DetectorAssumption
<1>3. IsWindow(F)
  BY FeedIsWindow
<1>4. PICK c \in 1..(n + 1) :
         /\ \A i \in 1..n : s[i].age + dt <= ASSESS <=> i >= c
         /\ Len(F) = n + 2 - c
         /\ \A i \in 1..(n + 1 - c) : F[i] = [age |-> s[i + c - 1].age + dt, p |-> s[i + c - 1].p]
         /\ F[n + 2 - c] = [age |-> 0, p |-> p]
  <2>1. PICK c \in 1..(n + 1) : Feeds(s, dt, p, c, F)
    BY FeedIsWindow
  <2>2. QED
    BY <2>1 DEF Feeds
<1>5. PICK d \in 1..(n + 1) :
         /\ \A i \in 1..n : s[i].age <= a <=> i >= d
         /\ Len(r) = n + 1 - d
         /\ \A i \in 1..(n + 1 - d) : r[i] = s[i + d - 1]
  <2>1. a \in Int
    OBVIOUS
  <2>2. QED
    BY <2>1, WithinIsEnd
<1>6. PICK e \in 1..(Len(F) + 1) :
         /\ \A i \in 1..Len(F) : F[i].age <= a + dt <=> i >= e
         /\ Len(q) = Len(F) + 1 - e
         /\ \A i \in 1..(Len(F) + 1 - e) : q[i] = F[i + e - 1]
  <2>1. a + dt \in Int
    OBVIOUS
  <2>2. QED
    BY <1>3, <2>1, WithinIsEnd
<1> HIDE DEF n, F, r, q
<1>7. c <= d
  <2>1. ASSUME d < c PROVE FALSE
    <3>1. d \in 1..n /\ ~(d >= c) /\ d >= d
      BY <2>1, <1>1
    <3>2. s[d].age <= a /\ s[d].age \in Nat
      BY <3>1, <1>1, <1>5
    <3>3. s[d].age + dt <= ASSESS
      BY <3>2, <1>2
    <3>4. QED
      BY <3>1, <3>3, <1>4
  <2>2. QED
    BY <2>1, <1>1
<1>8. \A i \in 1..(n + 2 - c) : F[i].age <= a + dt <=> i >= d - c + 1
  <2>1. SUFFICES ASSUME NEW i \in 1..(n + 2 - c)
                 PROVE  F[i].age <= a + dt <=> i >= d - c + 1
    OBVIOUS
  <2>2. CASE i = n + 2 - c
    <3>1. F[i].age = 0
      BY <2>2, <1>4
    <3>2. i >= d - c + 1
      BY <2>2, <1>1
    <3>3. QED
      BY <3>1, <3>2
  <2>3. CASE i # n + 2 - c
    <3>1. i \in 1..(n + 1 - c) /\ i + c - 1 \in 1..n
      BY <2>3, <1>1
    <3> DEFINE x == s[i + c - 1]
    <3>2. F[i].age = x.age + dt /\ x.age \in Nat
      <4>1. F[i] = [age |-> x.age + dt, p |-> x.p]
        BY <3>1, <1>4
      <4>2. x.age \in Nat
        BY <3>1, <1>1
      <4>3. QED
        BY <4>1, <4>2
    <3>3. s[i + c - 1].age <= a <=> i + c - 1 >= d
      BY <3>1, <1>5
    <3>4. i + c - 1 >= d <=> i >= d - c + 1
      BY <1>1
    <3>5. QED
      BY <3>2, <3>3, <3>4, SMTT(30)
  <2>4. QED
    BY <2>2, <2>3
<1>9. e = d - c + 1
  <2> DEFINE m == n + 2 - c
             f == d - c + 1
  <2>1. m \in Nat /\ f \in 1..m /\ e \in 1..(m + 1)
    BY <1>1, <1>4, <1>6, <1>7
  <2>2. \A i \in 1..m : i >= e <=> i >= f
    BY <1>4, <1>6, <1>8
  <2> HIDE DEF m, f
  <2>3. f >= e
    BY <2>1, <2>2
  <2>4. e \in 1..m
    BY <2>1, <2>3
  <2>5. e >= f
    BY <2>1, <2>2, <2>4
  <2>6. e = f
    BY <2>1, <2>3, <2>5
  <2>7. QED
    BY <2>6 DEF f
<1>10. Len(q) = Len(r) + 1
  BY <1>1, <1>4, <1>5, <1>6, <1>9
<1>11. \A i \in 1..Len(r) : q[i].age = r[i].age + dt /\ q[i].p = r[i].p
  <2>1. SUFFICES ASSUME NEW i \in 1..Len(r)
                 PROVE  q[i].age = r[i].age + dt /\ q[i].p = r[i].p
    OBVIOUS
  <2>2. i \in 1..(n + 1 - d) /\ i \in 1..(Len(F) + 1 - e)
    BY <1>1, <1>4, <1>5, <1>6, <1>10
  <2>3. q[i] = F[i + e - 1] /\ r[i] = s[i + d - 1]
    BY <2>2, <1>5, <1>6
  <2>4. i + e - 1 \in 1..(n + 1 - c) /\ i + e - 1 + c - 1 = i + d - 1
    BY <2>2, <1>1, <1>7, <1>9
  <2>5. F[i + e - 1] = [age |-> s[i + d - 1].age + dt, p |-> s[i + d - 1].p]
    BY <2>4, <1>4
  <2>6. QED
    BY <2>3, <2>5
<1>12. q[Len(r) + 1] = [age |-> 0, p |-> p]
  <2>1. /\ Len(r) + 1 \in 1..(Len(F) + 1 - e)
        /\ Len(r) + 1 + e - 1 = n + 2 - c
    BY <1>1, <1>4, <1>5, <1>6, <1>9, <1>10
  <2>2. QED
    BY <2>1, <1>4, <1>6
<1>13. QED
  BY <1>10, <1>11, <1>12 DEF q, r, F

-----------------------------------------------------------------------------
(* The median.                                                               *)

\* The k-th lowest power of some samples is one of the powers.
IsRanked(s, some, k, v) ==
    /\ Cardinality({i \in some : s[i].p < v}) < k
    /\ Cardinality({i \in some : s[i].p <= v}) >= k

LEMMA RankedType ==
    ASSUME NEW n \in Nat, NEW s, \A i \in 1..n : s[i].p \in Powers,
           NEW some \in SUBSET (1..n), NEW k \in 1..Cardinality(some)
    PROVE  \E v \in Powers : IsRanked(s, some, k, v)
<1> DEFINE Below(v) == {i \in some : s[i].p < v}
           Upto(v) == {i \in some : s[i].p <= v}
           V == {v \in Powers : Cardinality(Upto(v)) >= k}
           most == Max(Powers)
<1>1. Powers \subseteq Nat /\ most \in Powers /\ \A v \in Powers : v <= most
  BY PowersBounded
<1>2. IsFiniteSet(some) /\ Cardinality(some) \in Nat
  <2>1. IsFiniteSet(1..n)
    BY FS_Interval
  <2>2. QED
    BY <2>1, FS_Subset, FS_CardinalityType
<1>3. most \in V
  <2>1. Upto(most) = some
    BY <1>1
  <2>2. Cardinality(some) >= k
    BY <1>2
  <2>3. QED
    BY <2>1, <2>2, <1>1
<1>4. V \subseteq Nat /\ V # {}
  BY <1>1, <1>3
<1>5. PICK v \in V : \A u \in V : v <= u
  BY <1>4, LeastNumber
<1>6. v \in Powers /\ v \in Nat /\ Cardinality(Upto(v)) >= k
  BY <1>1, <1>5
<1>7. ASSUME Cardinality(Below(v)) >= k PROVE FALSE
  <2> DEFINE P == {s[i].p : i \in Below(v)}
             u == Max(P)
  <2>1. Below(v) # {}
    <3>1. CASE Below(v) = {}
      <4>1. Cardinality(Below(v)) = 0
        BY <3>1, FS_EmptySet
      <4>2. QED
        BY <4>1, <1>7
    <3>2. QED
      BY <3>1
  <2>2. P \subseteq 0..most /\ P # {}
    <3>1. \A i \in Below(v) : s[i].p \in 0..most
      <4>1. TAKE i \in Below(v)
      <4>2. s[i].p \in Powers
        OBVIOUS
      <4>3. QED
        BY <4>2, PowersBounded
    <3>2. QED
      BY <2>1, <3>1
  <2>3. most \in Nat
    BY <1>1
  <2>4. u \in P /\ \A x \in P : x <= u
    BY <2>2, <2>3, Greatest
  <2>5. u \in Powers /\ u \in Nat /\ u < v
    BY <2>4, <1>1
  <2>6. Upto(u) = Below(v)
    <3>1. \A i \in some : s[i].p \in Nat
      BY <1>1
    <3>2. \A i \in Below(v) : s[i].p <= u
      BY <2>4
    <3>3. \A i \in some : s[i].p <= u => s[i].p < v
      BY <3>1, <2>5, <1>6
    <3>4. QED
      BY <3>2, <3>3
  <2>7. u \in V
    BY <2>5, <2>6, <1>7
  <2>8. v <= u
    BY <2>7, <1>5
  <2>9. QED
    BY <2>5, <2>8, <1>6
<1>8. Cardinality(Below(v)) \in Nat
  <2>1. Below(v) \in SUBSET some
    OBVIOUS
  <2>2. IsFiniteSet(Below(v))
    BY <2>1, <1>2, FS_Subset
  <2>3. QED
    BY <2>2, FS_CardinalityType
<1>9. Cardinality(Below(v)) < k
  BY <1>7, <1>8
<1>10. QED
  BY <1>6, <1>9 DEF IsRanked

\* So the median is between nothing and the greatest power.
LEMMA MedianType ==
    ASSUME NEW n \in Nat, NEW s, DOMAIN s = 1..n, \A i \in 1..n : s[i].p \in Powers, NEW w
    PROVE  MedianSince(s, w) \in 0..Max(Powers)
<1> DEFINE recent == {i \in DOMAIN s : s[i].age <= w}
           m == Cardinality(recent)
           Ranked(k) == CHOOSE v \in Powers : /\ Cardinality({i \in recent : s[i].p < v}) < k
                                              /\ Cardinality({i \in recent : s[i].p <= v}) >= k
<1>1. Max(Powers) \in Nat /\ Powers \subseteq 0..Max(Powers)
  BY PowersBounded
<1>2. recent \in SUBSET (1..n)
  OBVIOUS
<1>3. m \in Nat
  <2>1. IsFiniteSet(1..n)
    BY FS_Interval
  <2>2. QED
    BY <1>2, <2>1, FS_Subset, FS_CardinalityType
<1>4. \A k \in 1..m : Ranked(k) \in Powers
  <2>1. SUFFICES ASSUME NEW k \in 1..m PROVE Ranked(k) \in Powers
    OBVIOUS
  <2> HIDE DEF recent, Ranked
  <2>2. \E v \in Powers : IsRanked(s, recent, k, v)
    <3>1. k \in 1..Cardinality(recent)
      BY <2>1 DEF m
    <3> HIDE DEF m
    <3>2. QED
      BY <1>2, <3>1, RankedType
  <2>3. QED
    BY <2>2 DEF Ranked, IsRanked
<1>5. MedianSince(s, w) = IF m = 0 THEN 0
                          ELSE (Ranked((m + 1) \div 2) + Ranked(m \div 2 + 1)) \div 2
  BY DEF MedianSince
<1> HIDE DEF recent, m, Ranked
<1>6. CASE m = 0
  BY <1>1, <1>5, <1>6
<1>7. CASE m # 0
  <2>1. (m + 1) \div 2 \in 1..m /\ m \div 2 + 1 \in 1..m
    BY <1>3, <1>7
  <2>2. /\ Ranked((m + 1) \div 2) \in Powers
        /\ Ranked(m \div 2 + 1) \in Powers
    BY <2>1, <1>4
  <2>3. \A x, y \in 0..Max(Powers) : (x + y) \div 2 \in 0..Max(Powers)
    BY <1>1
  <2>4. (Ranked((m + 1) \div 2) + Ranked(m \div 2 + 1)) \div 2 \in 0..Max(Powers)
    BY <2>2, <2>3, <1>1
  <2>5. QED
    BY <2>4, <1>5, <1>7
<1>8. QED
  BY <1>6, <1>7

-----------------------------------------------------------------------------
(* The energy of a run of samples.                                           *)

\* f adds up t from its second element on.
Adds(f, t, n) == \A k \in 0..n : f[k] = IF k <= 1 THEN 0 ELSE f[k - 1] + t[k]
SameParts(t, u, n) == \A k \in 2..n : t[k] = u[k]

LEMMA SumExists ==
    ASSUME NEW n \in Nat, NEW t, \A k \in 2..n : t[k] \in Nat
    PROVE  \E f \in [0..n -> Nat] : Adds(f, t, n)
<1> DEFINE T == {m \in 0..n : ~\E f \in [0..m -> Nat] : Adds(f, t, m)}
<1>1. T \subseteq Nat
  OBVIOUS
<1>2. ASSUME T # {} PROVE FALSE
  <2>1. PICK m \in T : \A k \in T : m <= k
    BY <1>1, <1>2, LeastNumber
  <2>2. m \in 0..n /\ ~\E f \in [0..m -> Nat] : Adds(f, t, m)
    BY <2>1
  <2>3. CASE m <= 1
    <3> DEFINE f == [k \in 0..m |-> 0]
    <3>1. f \in [0..m -> Nat] /\ Adds(f, t, m)
      BY <2>2, <2>3 DEF Adds
    <3>2. QED
      BY <3>1, <2>2
  <2>4. CASE m > 1
    <3>1. m - 1 \in 0..n /\ ~(m <= m - 1) /\ m \in 2..n
      BY <2>2, <2>4
    <3>2. m - 1 \notin T
      BY <2>1, <3>1
    <3>3. PICK g \in [0..(m - 1) -> Nat] : Adds(g, t, m - 1)
      BY <3>1, <3>2
    <3> DEFINE f == [k \in 0..m |-> IF k = m THEN g[m - 1] + t[m] ELSE g[k]]
    <3>4. t[m] \in Nat /\ g[m - 1] \in Nat
      BY <3>1, <2>4, <3>3
    <3>5. \A k \in 0..m : f[k] = IF k = m THEN g[m - 1] + t[m] ELSE g[k]
      OBVIOUS
    <3>6. \A k \in 0..m : k # m => k \in 0..(m - 1)
      BY <2>2
    <3>7. f \in [0..m -> Nat]
      BY <3>4, <3>6
    <3> HIDE DEF f
    <3>8. \A k \in 0..m : f[k] = IF k <= 1 THEN 0 ELSE f[k - 1] + t[k]
      <4>1. SUFFICES ASSUME NEW k \in 0..m
                     PROVE  f[k] = IF k <= 1 THEN 0 ELSE f[k - 1] + t[k]
        OBVIOUS
      <4>2. CASE k = m
        <5>1. m \in 0..m /\ m - 1 \in 0..m /\ m - 1 # m /\ ~(m <= 1)
          BY <2>2, <2>4
        <5>2. f[m] = g[m - 1] + t[m] /\ f[m - 1] = g[m - 1]
          BY <5>1, <3>5
        <5>3. QED
          BY <4>2, <5>1, <5>2
      <4>3. CASE k # m
        <5>1. k \in 0..(m - 1)
          BY <4>3, <3>6
        <5>2. g[k] = IF k <= 1 THEN 0 ELSE g[k - 1] + t[k]
          BY <5>1, <3>3 DEF Adds
        <5>3. k > 1 => k - 1 \in 0..m /\ k - 1 # m
          BY <4>1, <2>2
        <5>4. f[k] = g[k] /\ (k > 1 => f[k - 1] = g[k - 1])
          BY <4>3, <5>3, <3>5
        <5>5. QED
          BY <5>1, <5>2, <5>4
      <4>4. QED
        BY <4>2, <4>3
    <3>9. QED
      BY <3>7, <3>8, <2>2 DEF Adds
  <2>5. QED
    BY <2>2, <2>3, <2>4
<1>3. n \in 0..n /\ n \notin T
  <2>1. n \in 0..n
    OBVIOUS
  <2>2. QED
    BY <2>1, <1>2
<1>4. QED
  BY <1>3

\* Two such sums of the same numbers are equal.
LEMMA SumsAgree ==
    ASSUME NEW n \in Nat, NEW t, NEW u, SameParts(t, u, n),
           NEW f, NEW g, Adds(f, t, n), Adds(g, u, n)
    PROVE  \A k \in 0..n : f[k] = g[k]
<1> DEFINE T == {k \in 0..n : f[k] # g[k]}
<1>1. T \subseteq Nat
  OBVIOUS
<1>2. ASSUME T # {} PROVE FALSE
  <2>1. PICK m \in T : \A k \in T : m <= k
    BY <1>1, <1>2, LeastNumber
  <2>2. m \in 0..n /\ f[m] # g[m]
    BY <2>1
  <2>3. /\ f[m] = IF m <= 1 THEN 0 ELSE f[m - 1] + t[m]
        /\ g[m] = IF m <= 1 THEN 0 ELSE g[m - 1] + u[m]
    BY <2>2 DEF Adds
  <2>4. m > 1
    BY <2>2, <2>3
  <2>5. m - 1 \in 0..n /\ ~(m <= m - 1) /\ m \in 2..n
    BY <2>2, <2>4
  <2>6. f[m - 1] = g[m - 1]
    BY <2>1, <2>5
  <2>7. t[m] = u[m]
    BY <2>5 DEF SameParts
  <2>8. QED
    BY <2>2, <2>3, <2>4, <2>6, <2>7
<1>3. QED
  BY <1>2

\* The energy of an interval is a number.
LEMMA TrapezoidType ==
    ASSUME NEW p \in Nat, NEW q \in Nat, NEW dt \in Nat
    PROVE  Trapezoid(p, q, dt) \in Nat
<1>1. (p + q) * dt \in Nat
  OBVIOUS
<1>2. ((p + q) * dt) \div 2 \in Nat
  BY <1>1
<1>3. QED
  BY <1>2 DEF Trapezoid

\* What the backfill adds up.
Parts(run) == [k \in 2..Len(run) |->
                 Trapezoid(run[k - 1].p, run[k].p, run[k - 1].age - run[k].age)]

LEMMA PartsType ==
    ASSUME NEW run, IsWindow(run)
    PROVE  \A k \in 2..Len(run) : Parts(run)[k] \in Nat
<1>1. TAKE k \in 2..Len(run)
<1>2. /\ Len(run) \in Nat
      /\ \A i \in 1..Len(run) : run[i].age \in Nat /\ run[i].p \in Powers
  BY WindowFacts
<1>3. k - 1 \in 1..Len(run) /\ k \in 1..Len(run) /\ k - 1 < k
  BY <1>2
<1>4. run[k - 1].age > run[k].age
  BY <1>3 DEF IsWindow
<1>5. run[k - 1].age \in Nat /\ run[k].age \in Nat
  BY <1>2, <1>3
<1>6. run[k - 1].p \in Nat /\ run[k].p \in Nat
  BY <1>2, <1>3, PowersBounded
<1>7. run[k - 1].age - run[k].age \in Nat
  BY <1>4, <1>5
<1>8. QED
  BY <1>6, <1>7, TrapezoidType DEF Parts

LEMMA BackfillAdds ==
    ASSUME NEW run, IsWindow(run)
    PROVE  \E f \in [0..Len(run) -> Nat] : /\ Adds(f, Parts(run), Len(run))
                                           /\ Backfill(run) = UpTo(f[Len(run)], EnergyCap)
<1> DEFINE n == Len(run)
           Body(g) == [k \in 0..n |->
                         IF k <= 1 THEN 0
                         ELSE g[k - 1] + Trapezoid(run[k - 1].p, run[k].p,
                                                   run[k - 1].age - run[k].age)]
           sum == CHOOSE g : g = Body(g)
<1>1. n \in Nat
  BY WindowFacts
<1>2. PICK f \in [0..n -> Nat] : Adds(f, Parts(run), n)
  BY <1>1, PartsType, SumExists
<1>3. \A g : g = Body(g) => Adds(g, Parts(run), n)
  <2>1. SUFFICES ASSUME NEW g, g = Body(g), NEW k \in 0..n
                 PROVE  g[k] = IF k <= 1 THEN 0 ELSE g[k - 1] + Parts(run)[k]
    BY DEF Adds
  <2>2. Body(g)[k] = IF k <= 1 THEN 0
                     ELSE g[k - 1] + Trapezoid(run[k - 1].p, run[k].p, run[k - 1].age - run[k].age)
    BY <2>1
  <2>3. k > 1 => k \in 2..n
    BY <1>1
  <2>4. k > 1 => Parts(run)[k] = Trapezoid(run[k - 1].p, run[k].p, run[k - 1].age - run[k].age)
    BY <2>3 DEF Parts
  <2> HIDE DEF Body
  <2>5. g[k] = Body(g)[k]
    BY <2>1
  <2>6. QED
    BY <2>2, <2>4, <2>5, <1>1
<1>4. f = Body(f)
  <2>1. \A k \in 0..n : Body(f)[k] = f[k]
    <3>1. TAKE k \in 0..n
    <3>2. f[k] = IF k <= 1 THEN 0 ELSE f[k - 1] + Parts(run)[k]
      BY <1>2 DEF Adds
    <3>3. k > 1 => k \in 2..n
      BY <1>1
    <3>4. k > 1 => Parts(run)[k] = Trapezoid(run[k - 1].p, run[k].p, run[k - 1].age - run[k].age)
      BY <3>3 DEF Parts
    <3>5. QED
      BY <3>2, <3>4, <1>1
  <2>2. f = [k \in 0..n |-> f[k]] /\ Body(f) = [k \in 0..n |-> Body(f)[k]]
    OBVIOUS
  <2> HIDE DEF Body
  <2>3. QED
    BY <2>1, <2>2
<1>5. sum = Body(sum)
  <2> HIDE DEF Body
  <2>1. QED
    BY <1>4
<1>6. Adds(sum, Parts(run), n)
  <2> HIDE DEF Body, sum
  <2>1. QED
    BY <1>3, <1>5
<1>7. sum[n] = f[n]
  <2>1. n \in 0..n
    BY <1>1
  <2> HIDE DEF sum, n
  <2>2. SameParts(Parts(run), Parts(run), n)
    BY DEF SameParts
  <2>3. \A k \in 0..n : sum[k] = f[k]
    BY <1>1, <1>2, <1>6, <2>2, SumsAgree
  <2>4. QED
    BY <2>1, <2>3
<1>8. Backfill(run) = UpTo(sum[n], EnergyCap)
  BY DEF Backfill
<1>9. QED
  <2> HIDE DEF sum
  <2>1. QED
    BY <1>2, <1>7, <1>8

\* Adding up to a bound, twice.
LEMMA Saturates ==
    ASSUME NEW a \in Nat, NEW b \in Nat, NEW c \in Nat
    PROVE  UpTo(UpTo(a, c) + b, c) = UpTo(a + b, c) /\ UpTo(a, c) \in 0..c
BY DEF UpTo

\* A run that grows by a sample gains the energy of the interval before it.
LEMMA RunGains ==
    ASSUME NEW r, IsWindow(r), Len(r) > 0, NEW q, IsWindow(q),
           NEW dt \in Nat \ {0}, NEW p \in Powers,
           Len(q) = Len(r) + 1,
           \A i \in 1..Len(r) : q[i].age = r[i].age + dt /\ q[i].p = r[i].p,
           q[Len(r) + 1] = [age |-> 0, p |-> p]
    PROVE  Backfill(q) = UpTo(Backfill(r) + Trapezoid(r[Len(r)].p, p, dt), EnergyCap)
<1> DEFINE n == Len(r)
<1>1. n \in Nat /\ n \in 1..n /\ \A i \in 1..n : r[i].age \in Nat /\ r[i].p \in Powers
  BY WindowFacts, SMTT(30)
<1>2. r[n].age = 0
  BY DEF IsWindow
<1>3. PICK f \in [0..n -> Nat] : /\ Adds(f, Parts(r), n)
                                 /\ Backfill(r) = UpTo(f[n], EnergyCap)
  BY BackfillAdds
<1>4. PICK g \in [0..(n + 1) -> Nat] : /\ Adds(g, Parts(q), n + 1)
                                       /\ Backfill(q) = UpTo(g[n + 1], EnergyCap)
  BY BackfillAdds
<1> HIDE DEF n
<1>5. SameParts(Parts(r), Parts(q), n)
  <2>1. SUFFICES ASSUME NEW k \in 2..n PROVE Parts(r)[k] = Parts(q)[k]
    BY DEF SameParts
  <2>2. k - 1 \in 1..n /\ k \in 1..n /\ k \in 2..(n + 1)
    BY <1>1
  <2>3. /\ q[k].age = r[k].age + dt /\ q[k].p = r[k].p /\ r[k].age \in Nat
        /\ q[k - 1].age = r[k - 1].age + dt /\ q[k - 1].p = r[k - 1].p /\ r[k - 1].age \in Nat
    BY <2>2, <1>1 DEF n
  <2>4. q[k - 1].age - q[k].age = r[k - 1].age - r[k].age
    BY <2>3
  <2>5. QED
    BY <2>2, <2>3, <2>4 DEF Parts, n
<1>6. f[n] = g[n]
  <2>1. Adds(g, Parts(q), n)
    BY <1>1, <1>4 DEF Adds
  <2>2. n \in 0..n
    BY <1>1
  <2>3. \A k \in 0..n : f[k] = g[k]
    BY <1>1, <1>3, <1>5, <2>1, SumsAgree, SMTT(30)
  <2>4. QED
    BY <2>2, <2>3
<1>7. g[n + 1] = g[n] + Parts(q)[n + 1]
  BY <1>1, <1>4 DEF Adds
<1>8. Parts(q)[n + 1] = Trapezoid(r[n].p, p, dt)
  <2>1. n + 1 \in 2..(n + 1) /\ n + 1 - 1 = n
    BY <1>1
  <2>2. q[n].p = r[n].p /\ q[n].age = dt
    BY <1>1, <1>2 DEF n
  <2>3. q[n + 1].p = p /\ q[n + 1].age = 0
    BY DEF n
  <2>4. Parts(q)[n + 1] = Trapezoid(q[n].p, q[n + 1].p, q[n].age - q[n + 1].age)
    BY <2>1 DEF Parts, n
  <2>5. q[n].age - q[n + 1].age = dt
    BY <2>2, <2>3
  <2>6. QED
    BY <2>2, <2>3, <2>4, <2>5
<1>9. f[n] \in Nat /\ Trapezoid(r[n].p, p, dt) \in Nat /\ EnergyCap \in Nat
  <2>1. r[n].p \in Nat /\ p \in Nat /\ dt \in Nat
    BY <1>1, PowersBounded
  <2>2. f[n] \in Nat
    BY <1>1, <1>3
  <2>3. QED
    BY <2>1, <2>2, TrapezoidType, DetectorAssumption
<1>10. Backfill(q) = UpTo(f[n] + Trapezoid(r[n].p, p, dt), EnergyCap)
  BY <1>4, <1>6, <1>7, <1>8
<1>11. UpTo(UpTo(f[n], EnergyCap) + Trapezoid(r[n].p, p, dt), EnergyCap)
         = UpTo(f[n] + Trapezoid(r[n].p, p, dt), EnergyCap)
  BY <1>9, Saturates, ZenonT(30)
<1>12. Backfill(q) = UpTo(Backfill(r) + Trapezoid(r[n].p, p, dt), EnergyCap)
  BY <1>3, <1>10, <1>11
<1>13. QED
  BY <1>12 DEF n

-----------------------------------------------------------------------------
(* Type correctness, by parts.                                               *)

WindowOK ==
    /\ samples \in Seq([age : 0..ASSESS, p : Powers]) /\ Len(samples) <= ASSESS + 1
AssessedOK ==
    /\ peak \in 0..Max(Powers) /\ hold \in Ages(HOLD) /\ grace \in 0..GRACE
    /\ eval \in Ages(GRACE + 1)
GateOK == above \in Ages(START_HOLD + Longest) /\ post \in BOOLEAN /\ restart \in Nat
MeterOK == age \in 0..MIN_SEC /\ wh \in 0..EnergyCap /\ top \in Powers /\ lastp \in Powers
ChargeOK ==
    /\ chg \in BOOLEAN /\ idle \in Ages(DEBOUNCE + Longest)
    /\ why \in {"none", "unplug", "no_load", "low_power", "port_off", "link_loss"}
HistoryOK ==
    /\ high \in 0..RECOVER /\ loud \in 0..HOLD /\ drawn \in 0..EnergyCap
    /\ seen \in Powers /\ tail \in Nat

LEMMA TypeByParts ==
    /\ DetectorTypeOK <=> /\ WindowOK /\ AssessedOK /\ GateOK
                          /\ MeterOK /\ ChargeOK /\ HistoryOK
    /\ DetectorTypeOK' <=> /\ WindowOK' /\ AssessedOK' /\ GateOK'
                           /\ MeterOK' /\ ChargeOK' /\ HistoryOK'
BY DEF DetectorTypeOK, WindowOK, AssessedOK, GateOK, MeterOK, ChargeOK, HistoryOK

LEMMA WindowConstants ==
    {FAST, SLOW, ASSESS, RECENT, HOLD, GRACE, RECOVER, MIN_SEC, START_HOLD, DEBOUNCE,
     MAX_GAP, MIN_ENERGY, EnergyCap} \subseteq Nat
BY DetectorAssumption

\* The thresholds are numbers.
LEMMA ThresholdType ==
    ASSUME NEW p \in Nat
    PROVE  Threshold(p) \in Nat /\ 2 * Threshold(p) \in Nat
           /\ Max({RESTART_MIN, 2 * Threshold(p)}) \in Nat
<1>1. p \div 5 \in Nat /\ TAIL_CAP \in Nat /\ TAIL_MIN \in Nat /\ RESTART_MIN \in Nat
  BY DEF TAIL_CAP, TAIL_MIN, RESTART_MIN
<1>2. Min({TAIL_CAP, p \div 5}) \in Nat
  BY <1>1, TwoNumbers
<1>3. Threshold(p) \in Nat
  BY <1>1, <1>2, TwoNumbers DEF Threshold
<1>4. 2 * Threshold(p) \in Nat
  BY <1>3
<1>5. QED
  BY <1>1, <1>3, <1>4, TwoNumbers

LEMMA OlderType ==
    ASSUME NEW b \in Nat, NEW n \in Ages(b), NEW dt \in Nat
    PROVE  Older(n, dt, b) \in Ages(b)
BY DEF Ages, Older, UpTo, Never

LEMMA AssessType ==
    ASSUME NEW s, NEW pk, NEW h \in Ages(HOLD), NEW g \in 0..GRACE, NEW since \in Nat
    PROVE  /\ Assess(s, pk, h, g, since).hold \in Ages(HOLD)
           /\ Assess(s, pk, h, g, since).grace \in 0..GRACE
           /\ Assess(s, pk, h, g, since).eval = 0
           /\ Assess(s, pk, h, g, since).end \in BOOLEAN
<1>1. HOLD \in Nat /\ GRACE \in Nat
  BY WindowConstants
<1>2. \E x \in Ages(HOLD), y \in 0..GRACE : Assess(s, pk, h, g, since) = Verdict(x, y)
  <2>1. Never \in Ages(HOLD) /\ 0 \in Ages(HOLD) /\ 0 \in 0..GRACE
    BY <1>1 DEF Ages
  <2>2. ~(g + since > GRACE) => g + since \in 0..GRACE
    BY <1>1
  <2>3. \/ Assess(s, pk, h, g, since) = Verdict(Never, 0)
        \/ Assess(s, pk, h, g, since) = Verdict(0, 0)
        \/ Assess(s, pk, h, g, since) = Verdict(h, g)
        \/ Assess(s, pk, h, g, since) = Verdict(Never, g)
        \/ g + since \in 0..GRACE /\ Assess(s, pk, h, g, since) = Verdict(h, g + since)
    BY <2>2 DEF Assess
  <2>4. QED
    BY <2>1, <2>3
<1>3. \A x, y : /\ Verdict(x, y).hold = x /\ Verdict(x, y).grace = y
                /\ Verdict(x, y).eval = 0 /\ Verdict(x, y).end \in BOOLEAN
  BY DEF Verdict
<1>4. QED
  BY <1>2, <1>3

\* What a sample makes of the window of the state.
LEMMA FeedType ==
    ASSUME IsWindow(samples), NEW dt \in Steps, NEW p \in Powers
    PROVE  LET s == Feed(samples, dt, p)
           IN  /\ IsWindow(s) /\ Len(s) > 0 /\ s[Len(s)].p = p
               /\ \A i \in 1..Len(s) : s[i].age <= ASSESS
               /\ PFast(s) \in 0..Max(Powers)
<1> DEFINE s == Feed(samples, dt, p)
<1>1. dt \in Nat \ {0}
  BY StepsBounded
<1>2. /\ IsWindow(s) /\ \A i \in 1..Len(s) : s[i].age <= ASSESS
      /\ \E c \in 1..(Len(samples) + 1) : /\ Len(s) = Len(samples) + 2 - c
                                          /\ s[Len(samples) + 2 - c] = [age |-> 0, p |-> p]
  <2>1. PICK c \in 1..(Len(samples) + 1) : Feeds(samples, dt, p, c, s)
    BY <1>1, FeedIsWindow
  <2>2. IsWindow(s) /\ \A i \in 1..Len(s) : s[i].age <= ASSESS
    BY <1>1, FeedIsWindow
  <2>3. Len(s) = Len(samples) + 2 - c /\ s[Len(samples) + 2 - c] = [age |-> 0, p |-> p]
    BY <2>1 DEF Feeds
  <2>4. QED
    BY <2>2, <2>3
<1>3. Len(samples) \in Nat
  BY WindowFacts
<1>4. /\ Len(s) \in Nat /\ DOMAIN s = 1..Len(s)
      /\ \A i \in 1..Len(s) : s[i].p \in Powers
  BY <1>2, WindowFacts
<1> HIDE DEF s
<1>5. Len(s) > 0 /\ s[Len(s)].p = p
  <2>1. PICK c \in 1..(Len(samples) + 1) : /\ Len(s) = Len(samples) + 2 - c
                                           /\ s[Len(samples) + 2 - c] = [age |-> 0, p |-> p]
    BY <1>2
  <2>2. QED
    BY <2>1, <1>3
<1>6. PFast(s) \in 0..Max(Powers)
  BY <1>4, MedianType DEF PFast
<1>7. QED
  BY <1>2, <1>5, <1>6 DEF s

\* A window of samples that are not too old is what the type says.
LEMMA WindowTyped ==
    ASSUME NEW s, IsWindow(s), \A i \in 1..Len(s) : s[i].age <= ASSESS
    PROVE  s \in Seq([age : 0..ASSESS, p : Powers]) /\ Len(s) <= ASSESS + 1
<1>1. /\ s \in Seq(Reading) /\ Len(s) \in Nat /\ DOMAIN s = 1..Len(s)
      /\ \A i \in 1..Len(s) : s[i] \in Reading /\ s[i].age \in Nat /\ s[i].p \in Powers
  BY WindowFacts
<1>2. ASSESS \in Nat
  BY WindowConstants
<1>3. \A i \in 1..Len(s) : s[i] \in [age : 0..ASSESS, p : Powers]
  <2>1. TAKE i \in 1..Len(s)
  <2>2. s[i] = [age |-> s[i].age, p |-> s[i].p]
    BY <1>1 DEF Reading
  <2>3. s[i].age \in 0..ASSESS
    BY <1>1, <1>2
  <2>4. QED
    BY <2>2, <2>3, <1>1
<1>4. s \in [1..Len(s) -> [age : 0..ASSESS, p : Powers]]
  <2>1. s = [i \in 1..Len(s) |-> s[i]]
    BY <1>1
  <2>2. QED
    BY <2>1, <1>3
<1>5. s \in Seq([age : 0..ASSESS, p : Powers])
  <2> DEFINE R == [age : 0..ASSESS, p : Powers]
  <2>1. s \in [1..Len(s) -> R]
    BY <1>4
  <2> HIDE DEF R
  <2>2. s \in Seq(R)
    BY <1>1, <2>1, SeqDef
  <2>3. QED
    BY <2>2 DEF R
<1>6. QED
  BY <1>2, <1>5, WindowLength

\* What a session starts with is well-formed.
LEMMA StartType ==
    ASSUME NEW run, IsWindow(run), Len(run) > 0
    PROVE  /\ Warm(run) \in 0..Max(Powers)
           /\ Max({run[i].p : i \in 1..Len(run)}) \in Powers
           /\ Backfill(run) \in 0..EnergyCap
           /\ run[1].age \in Nat
<1> DEFINE n == Len(run)
           Upto(k) == [i \in 1..k |-> [run[i] EXCEPT !.age = @ - run[k].age]]
           W == {PFast(Upto(k)) : k \in 1..n}
           P == {run[i].p : i \in 1..n}
<1>1. /\ n \in Nat /\ 1 \in 1..n
      /\ \A i \in 1..n : run[i] \in Reading /\ run[i].age \in Nat /\ run[i].p \in Powers
  BY WindowFacts
<1>2. Max(Powers) \in Nat
  BY PowersBounded
<1>3. \A k \in 1..n : PFast(Upto(k)) \in 0..Max(Powers)
  <2>1. SUFFICES ASSUME NEW k \in 1..n PROVE PFast(Upto(k)) \in 0..Max(Powers)
    OBVIOUS
  <2>2. k \in Nat /\ DOMAIN Upto(k) = 1..k
    BY <1>1
  <2>3. \A i \in 1..k : Upto(k)[i].p \in Powers
    <3>1. SUFFICES ASSUME NEW i \in 1..k PROVE Upto(k)[i].p \in Powers
      OBVIOUS
    <3>2. i \in 1..n
      BY <1>1
    <3>3. run[i] \in Reading /\ run[i].p \in Powers
      BY <1>1, <3>2
    <3>4. Upto(k)[i] = [run[i] EXCEPT !.age = run[i].age - run[k].age]
      OBVIOUS
    <3>5. Upto(k)[i].p = run[i].p
      BY <3>3, <3>4 DEF Reading
    <3>6. QED
      BY <3>3, <3>5
  <2> HIDE DEF Upto
  <2>4. QED
    BY <2>2, <2>3, MedianType DEF PFast
<1>4. Warm(run) \in 0..Max(Powers)
  <2>1. W \subseteq 0..Max(Powers) /\ W # {}
    BY <1>1, <1>3
  <2>2. Max(W) \in W
    <3> HIDE DEF W
    <3>1. QED
      BY <2>1, <1>2, Greatest
  <2>3. Warm(run) = Max(W)
    BY DEF Warm
  <2>4. QED
    BY <2>1, <2>2, <2>3
<1>5. Max(P) \in Powers
  <2>1. P \subseteq Powers /\ P # {}
    BY <1>1
  <2>2. P \subseteq 0..Max(Powers)
    BY <2>1, PowersBounded
  <2>3. Max(P) \in P
    <3> HIDE DEF P
    <3>1. QED
      BY <2>1, <2>2, <1>2, Greatest
  <2>4. QED
    BY <2>1, <2>3
<1>6. Backfill(run) \in 0..EnergyCap
  <2>1. PICK f \in [0..n -> Nat] : Backfill(run) = UpTo(f[n], EnergyCap)
    BY BackfillAdds
  <2>2. f[n] \in Nat /\ EnergyCap \in Nat
    BY <2>1, <1>1, WindowConstants
  <2>3. QED
    BY <2>1, <2>2 DEF UpTo
<1>7. QED
  BY <1>1, <1>4, <1>5, <1>6

-----------------------------------------------------------------------------
(* The invariant of the meter.                                               *)

\* The window of the state is one, and ends with the last sample.
SamplesInv ==
    /\ IsWindow(samples) /\ \A i \in 1..Len(samples) : samples[i].age <= ASSESS
    /\ Len(samples) > 0 => samples[Len(samples)].p = lastp

\* A run that is counted is not long enough yet, and in the window.
RunInv == above # Never => ~chg /\ above < START_HOLD /\ Len(samples) > 0

\* What has been drawn since its first sample is the energy of the run at the gate,
\* then of the session.
EnergyInv ==
    /\ chg => wh = drawn
    /\ above # Never => drawn = Backfill(Within(samples, above))

MeterInv == DetectorTypeOK /\ SamplesInv /\ RunInv /\ EnergyInv

LEMMA EmptyWindow == IsWindow(<<>>) /\ Len(<<>>) = 0
BY DEF IsWindow

LEMMA MeterInit == DetectorInit => MeterInv
<1> SUFFICES ASSUME DetectorInit PROVE MeterInv
  OBVIOUS
<1> USE DEF DetectorInit
<1>1. WindowOK
  <2>1. ASSESS \in Nat
    BY WindowConstants
  <2>2. QED
    BY <2>1 DEF WindowOK
<1>2. AssessedOK /\ GateOK /\ MeterOK /\ ChargeOK /\ HistoryOK
  <2>1. 0 \in Powers /\ 0 \in 0..Max(Powers)
    BY PowersBounded
  <2>2. /\ 0 \in 0..GRACE /\ 0 \in 0..MIN_SEC /\ 0 \in 0..EnergyCap /\ 0 \in 0..RECOVER
        /\ 0 \in 0..HOLD
    BY WindowConstants
  <2>3. QED
    BY <2>1, <2>2 DEF AssessedOK, GateOK, MeterOK, ChargeOK, HistoryOK, Ages
<1>3. SamplesInv /\ RunInv /\ EnergyInv
  BY EmptyWindow DEF SamplesInv, RunInv, EnergyInv
<1>4. QED
  BY <1>1, <1>2, <1>3, TypeByParts DEF MeterInv

\* The history stays typed.
LEMMA RememberType ==
    ASSUME DetectorTypeOK, NEW dt \in Steps, NEW p \in Powers, NEW gone \in BOOLEAN,
           Remember(dt, p, gone), top' \in Powers
    PROVE  HistoryOK'
<1>1. dt \in Nat /\ p \in Nat /\ lastp \in Nat /\ top' \in Nat /\ lastp \in Powers
  BY StepsBounded, PowersBounded DEF DetectorTypeOK
<1>2. RECOVER \in Nat /\ HOLD \in Nat /\ EnergyCap \in Nat
  BY WindowConstants
<1>3. /\ high \in 0..RECOVER /\ loud \in 0..HOLD /\ drawn \in 0..EnergyCap
      /\ seen \in Powers /\ tail \in Nat
  BY DEF DetectorTypeOK
<1>4. high' \in 0..RECOVER
  BY <1>1, <1>2, <1>3 DEF Remember, Recovering, UpTo
<1>5. loud' \in 0..HOLD
  <2>1. UpTo(loud + dt, HOLD) \in 0..HOLD /\ 0 \in 0..HOLD
    BY <1>1, <1>2, <1>3 DEF UpTo
  <2>2. QED
    BY <2>1 DEF Remember
<1>6. drawn' \in 0..EnergyCap
  <2>1. Trapezoid(lastp, p, dt) \in Nat
    BY <1>1, TrapezoidType
  <2>2. UpTo(drawn + Trapezoid(lastp, p, dt), EnergyCap) \in 0..EnergyCap /\ 0 \in 0..EnergyCap
    BY <2>1, <1>2, <1>3 DEF UpTo
  <2>3. QED
    BY <2>2 DEF Remember
<1>7. seen' \in Powers
  <2>1. Max({seen, p}) \in Powers /\ 0 \in Powers
    BY <1>1, <1>3, PowersBounded, TwoNumbers
  <2>2. QED
    BY <2>1 DEF Remember
<1>8. tail' \in Nat
  <2>1. 2 * Threshold(top') \in Nat
    BY <1>1, ThresholdType
  <2>2. QED
    BY <2>1, <1>3 DEF Remember
<1>9. QED
  BY <1>4, <1>5, <1>6, <1>7, <1>8 DEF HistoryOK

\* A session that is closed leaves nothing behind that is counted.
LEMMA CloseKeeps ==
    ASSUME DetectorTypeOK, Close(why'), top' \in Powers,
           why' \in {"unplug", "no_load", "low_power", "port_off"},
           idle' = Never, MeterOK', HistoryOK'
    PROVE  MeterInv'
<1>1. chg' = FALSE /\ samples' = <<>> /\ above' = Never
  BY DEF Close, Reset, NoteNoLoad, NoteSessionEnd
<1>2. WindowOK'
  <2>1. ASSESS \in Nat
    BY WindowConstants
  <2>2. QED
    BY <1>1, <2>1 DEF WindowOK
<1>3. AssessedOK'
  <2>1. 0 \in 0..Max(Powers) /\ 0 \in 0..GRACE
    BY PowersBounded, WindowConstants
  <2>2. QED
    BY <2>1 DEF Close, Reset, AssessedOK, Ages
<1>4. GateOK'
  <2>1. restart \in Nat
    BY DEF DetectorTypeOK
  <2>2. Max({RESTART_MIN, 2 * Threshold(top')}) \in Nat
    BY PowersBounded, ThresholdType
  <2>3. QED
    BY <1>1, <2>1, <2>2 DEF Close, NoteNoLoad, NoteSessionEnd, GateOK, Ages
<1>5. ChargeOK'
  BY <1>1 DEF ChargeOK, Ages
<1>6. SamplesInv' /\ RunInv' /\ EnergyInv'
  BY <1>1, EmptyWindow DEF SamplesInv, RunInv, EnergyInv
<1>7. QED
  BY <1>2, <1>3, <1>4, <1>5, <1>6, TypeByParts DEF MeterInv

\* A sample of a session keeps the meter typed, and meters what is drawn.
LEMMA IntegrateKeeps ==
    ASSUME DetectorTypeOK, chg, wh = drawn, NEW dt \in Steps, NEW p \in Powers,
           NEW gone \in BOOLEAN, Integrate(dt, p), Remember(dt, p, gone)
    PROVE  MeterOK' /\ HistoryOK' /\ top' \in Powers /\ wh' = drawn'
<1>1. dt \in Nat /\ p \in Nat /\ lastp \in Nat
  BY StepsBounded, PowersBounded DEF DetectorTypeOK
<1>2. MIN_SEC \in Nat /\ EnergyCap \in Nat
  BY WindowConstants
<1>3. age \in 0..MIN_SEC /\ wh \in 0..EnergyCap /\ top \in Powers
  BY DEF DetectorTypeOK
<1>4. Trapezoid(lastp, p, dt) \in Nat
  BY <1>1, TrapezoidType
<1>5. wh' \in 0..EnergyCap /\ age' \in 0..MIN_SEC
  BY <1>1, <1>2, <1>3, <1>4 DEF Integrate, Gain, UpTo
<1>6. top' \in Powers
  <2>1. Max({top, p}) \in Powers
    BY <1>3, PowersBounded, TwoNumbers
  <2>2. QED
    BY <2>1, <1>3 DEF Integrate
<1>7. wh' = drawn'
  BY DEF Integrate, Gain, Remember
<1>8. HistoryOK'
  BY <1>6, RememberType
<1>9. QED
  BY <1>5, <1>6, <1>7, <1>8 DEF MeterOK, Integrate

\* The window of a session that goes on.
LEMMA FedWindow ==
    ASSUME IsWindow(samples), NEW dt \in Steps, NEW p \in Powers,
           samples' = Feed(samples, dt, p), lastp' = p
    PROVE  WindowOK' /\ SamplesInv' /\ Len(samples') > 0
<1>1. /\ IsWindow(samples') /\ Len(samples') > 0 /\ samples'[Len(samples')].p = p
      /\ \A i \in 1..Len(samples') : samples'[i].age <= ASSESS
  BY FeedType
<1>2. WindowOK'
  BY <1>1, WindowTyped DEF WindowOK
<1>3. QED
  BY <1>1, <1>2 DEF SamplesInv

LEMMA ChargingStep ==
    ASSUME MeterInv, NEW dt \in Steps, NEW p \in Powers, NEW gone \in BOOLEAN,
           Charging(dt, p, gone), Remember(dt, p, gone)
    PROVE  MeterInv'
<1>1. PICK s \in {Feed(samples, dt, p)} : \E pk \in {Max({peak, PFast(s)})} :
         /\ chg /\ Integrate(dt, p)
         /\ IF p = 0 THEN NoLoad(dt, s, pk, gone) ELSE Load(dt, s, pk)
  BY DEF Charging
<1>2. PICK pk \in {Max({peak, PFast(s)})} :
         /\ chg /\ Integrate(dt, p)
         /\ IF p = 0 THEN NoLoad(dt, s, pk, gone) ELSE Load(dt, s, pk)
  BY <1>1
<1>3. /\ DetectorTypeOK /\ wh = drawn /\ above = Never /\ IsWindow(samples)
      /\ s = Feed(samples, dt, p)
  BY <1>1, <1>2 DEF MeterInv, RunInv, EnergyInv, SamplesInv
<1>4. MeterOK' /\ HistoryOK' /\ top' \in Powers /\ wh' = drawn' /\ lastp' = p
  BY <1>2, <1>3, IntegrateKeeps DEF Integrate
<1>5. pk \in 0..Max(Powers)
  <2>1. PFast(s) \in 0..Max(Powers)
    BY <1>3, FeedType
  <2>2. peak \in 0..Max(Powers) /\ Max(Powers) \in Nat
    BY <1>3, PowersBounded DEF DetectorTypeOK
  <2>3. PFast(s) \in Nat /\ peak \in Nat
    BY <2>1, <2>2
  <2>4. pk = IF peak >= PFast(s) THEN peak ELSE PFast(s)
    BY <1>2, <2>3, TwoNumbers
  <2>5. QED
    BY <2>1, <2>2, <2>4
<1>6. dt \in Nat \ {0} /\ dt <= Longest /\ Longest \in Nat
  BY StepsBounded
<1>7. HOLD \in Nat /\ GRACE \in Nat /\ GRACE + 1 \in Nat /\ DEBOUNCE \in Nat
  BY WindowConstants
<1>8. /\ hold \in Ages(HOLD) /\ grace \in 0..GRACE /\ eval \in Ages(GRACE + 1)
      /\ idle \in Ages(DEBOUNCE + Longest) /\ post \in BOOLEAN /\ restart \in Nat
  BY <1>3 DEF DetectorTypeOK
<1>9. Older(hold, dt, HOLD) \in Ages(HOLD) /\ Older(eval, dt, GRACE + 1) \in Ages(GRACE + 1)
  BY <1>6, <1>7, <1>8, OlderType
<1>10. /\ Never \in Ages(HOLD) /\ Never \in Ages(DEBOUNCE + Longest)
       /\ Never \in Ages(START_HOLD + Longest)
  BY DEF Ages
<1>11. ASSUME samples' = s, peak' = pk, chg' = chg, why' = why, above' = Never,
              post' \in BOOLEAN, restart' = restart,
              hold' \in Ages(HOLD), grace' \in 0..GRACE, eval' \in Ages(GRACE + 1),
              idle' \in Ages(DEBOUNCE + Longest)
       PROVE  MeterInv'
  <2>1. WindowOK' /\ SamplesInv'
    BY <1>3, <1>4, <1>11, FedWindow
  <2>2. AssessedOK' /\ GateOK'
    BY <1>5, <1>8, <1>10, <1>11 DEF AssessedOK, GateOK
  <2>3. ChargeOK'
    BY <1>3, <1>11 DEF ChargeOK, DetectorTypeOK
  <2>4. RunInv' /\ EnergyInv'
    BY <1>4, <1>11 DEF RunInv, EnergyInv
  <2>5. QED
    BY <1>4, <2>1, <2>2, <2>3, <2>4, TypeByParts DEF MeterInv
<1>12. CASE p = 0
  <2>1. NoLoad(dt, s, pk, gone)
    BY <1>2, <1>12
  <2>2. CASE idle # Never /\ idle + dt >= DEBOUNCE
    <3>1. Close(IF gone THEN "unplug" ELSE "no_load") /\ idle' = Never
      BY <2>1, <2>2 DEF NoLoad
    <3>2. Close(why') /\ why' \in {"unplug", "no_load", "low_power", "port_off"}
      <4>1. why' = IF gone THEN "unplug" ELSE "no_load"
        BY <3>1 DEF Close
      <4>2. QED
        BY <3>1, <4>1
    <3>3. QED
      BY <3>1, <3>2, <1>3, <1>4, CloseKeeps
  <2>3. CASE ~(idle # Never /\ idle + dt >= DEBOUNCE)
    <3>1. /\ NoteNoLoad /\ samples' = s /\ peak' = pk
          /\ hold' = IF gone THEN Never ELSE Older(hold, dt, HOLD)
          /\ grace' = grace /\ eval' = Older(eval, dt, GRACE + 1)
          /\ idle' = IF idle = Never THEN 0 ELSE idle + dt
          /\ UNCHANGED <<chg, why>>
      BY <2>1, <2>3 DEF NoLoad
    <3>2. idle' \in Ages(DEBOUNCE + Longest)
      BY <3>1, <2>3, <1>6, <1>7, <1>8 DEF Ages, Never
    <3>3. hold' \in Ages(HOLD) /\ grace' \in 0..GRACE /\ eval' \in Ages(GRACE + 1)
      BY <3>1, <1>8, <1>9, <1>10
    <3>4. QED
      BY <3>1, <3>2, <3>3, <1>11 DEF NoteNoLoad
  <2>4. QED
    BY <2>2, <2>3
<1>13. CASE p # 0
  <2> DEFINE ev == Older(eval, dt, GRACE + 1)
             e == IF wh' < MIN_ENERGY \/ age' < MIN_SEC
                  THEN [hold |-> Never, grace |-> 0, end |-> FALSE, eval |-> ev]
                  ELSE Assess(s, pk, Older(hold, dt, HOLD), grace, IF ev = Never THEN 0 ELSE ev)
  <2>1. /\ idle' = Never
        /\ IF e.end THEN Close("low_power")
           ELSE /\ hold' = e.hold /\ grace' = e.grace /\ eval' = e.eval
                /\ samples' = s /\ peak' = pk
                /\ UNCHANGED <<chg, gate, why>>
    BY <1>2, <1>13 DEF Load
  <2>2. e.hold \in Ages(HOLD) /\ e.grace \in 0..GRACE /\ e.eval \in Ages(GRACE + 1)
    <3>1. CASE wh' < MIN_ENERGY \/ age' < MIN_SEC
      <4>1. e = [hold |-> Never, grace |-> 0, end |-> FALSE, eval |-> ev]
        BY <3>1
      <4>2. 0 \in 0..GRACE
        BY <1>7
      <4>3. QED
        BY <4>1, <4>2, <1>9, <1>10
    <3>2. CASE ~(wh' < MIN_ENERGY \/ age' < MIN_SEC)
      <4> DEFINE since == IF ev = Never THEN 0 ELSE ev
      <4>1. since \in Nat
        BY <1>7, <1>9 DEF Ages
      <4>2. e = Assess(s, pk, Older(hold, dt, HOLD), grace, since)
        BY <3>2
      <4> HIDE DEF since, e, ev
      <4>3. e.hold \in Ages(HOLD) /\ e.grace \in 0..GRACE /\ e.eval = 0
        BY <4>1, <4>2, <1>8, <1>9, AssessType
      <4>4. 0 \in Ages(GRACE + 1)
        BY <1>7 DEF Ages
      <4>5. QED
        BY <4>3, <4>4
    <3>3. QED
      BY <3>1, <3>2
  <2> HIDE DEF e
  <2>3. CASE e.end
    <3>1. Close("low_power") /\ idle' = Never
      BY <2>1, <2>3
    <3>2. why' = "low_power"
      BY <3>1 DEF Close
    <3>3. QED
      BY <3>1, <3>2, <1>3, <1>4, CloseKeeps
  <2>4. CASE ~e.end
    <3>1. /\ hold' = e.hold /\ grace' = e.grace /\ eval' = e.eval /\ idle' = Never
          /\ samples' = s /\ peak' = pk /\ UNCHANGED <<chg, gate, why>>
      BY <2>1, <2>4
    <3>2. QED
      BY <3>1, <2>2, <1>3, <1>8, <1>10, <1>11 DEF gate
  <2>5. QED
    BY <2>3, <2>4
<1>14. QED
  BY <1>12, <1>13

LEMMA OffStep ==
    ASSUME MeterInv, PortOff \/ LinkLoss
    PROVE  MeterInv'
<1>1. /\ DetectorTypeOK /\ chg /\ above = Never
      /\ MeterOK /\ tail \in Nat
  BY DEF MeterInv, RunInv, DetectorTypeOK, MeterOK, PortOff, LinkLoss
<1>2. MeterOK' /\ top' \in Powers
  BY <1>1 DEF MeterOK, PortOff, LinkLoss, meter
<1>3. HistoryOK'
  <2>1. 0 \in 0..RECOVER /\ 0 \in 0..HOLD /\ 0 \in 0..EnergyCap /\ 0 \in Powers
    BY WindowConstants, PowersBounded
  <2>2. 2 * Threshold(top) \in Nat
    BY <1>1, PowersBounded, ThresholdType DEF MeterOK
  <2>3. QED
    BY <2>1, <2>2 DEF HistoryOK, PortOff, LinkLoss
<1>4. CASE PortOff
  <2>1. Close("port_off") /\ idle' = Never
    BY <1>4 DEF PortOff
  <2>2. why' = "port_off"
    BY <2>1 DEF Close
  <2>3. QED
    BY <2>1, <2>2, <1>1, <1>2, <1>3, CloseKeeps
<1>5. CASE LinkLoss
  <2>1. /\ chg' = FALSE /\ Reset /\ why' = "link_loss" /\ above' = Never
        /\ post' = post /\ restart' = restart /\ idle' = idle
    BY <1>1, <1>5 DEF LinkLoss, gate
  <2>2. WindowOK'
    <3>1. ASSESS \in Nat
      BY WindowConstants
    <3>2. QED
      BY <2>1, <3>1 DEF WindowOK, Reset
  <2>3. AssessedOK'
    <3>1. 0 \in 0..Max(Powers) /\ 0 \in 0..GRACE
      BY PowersBounded, WindowConstants
    <3>2. QED
      BY <2>1, <3>1 DEF Reset, AssessedOK, Ages
  <2>4. GateOK' /\ ChargeOK'
    BY <1>1, <2>1 DEF GateOK, ChargeOK, DetectorTypeOK, Ages
  <2>5. SamplesInv' /\ RunInv' /\ EnergyInv'
    BY <2>1, EmptyWindow DEF SamplesInv, RunInv, EnergyInv, Reset
  <2>6. QED
    BY <1>2, <1>3, <2>2, <2>3, <2>4, <2>5, TypeByParts DEF MeterInv
<1>6. QED
  BY <1>4, <1>5

\* A run of one sample: no interval, no energy.
LEMMA RunStarts ==
    ASSUME NEW s, IsWindow(s), Len(s) > 0
    PROVE  Backfill(Within(s, 0)) = 0
<1> DEFINE r == Within(s, 0)
<1>1. Len(s) \in Nat /\ \A i \in 1..Len(s) : s[i].age \in Nat
  BY WindowFacts
<1>2. PICK c \in 1..(Len(s) + 1) : /\ \A i \in 1..Len(s) : s[i].age <= 0 <=> i >= c
                                   /\ Len(r) = Len(s) + 1 - c
  <2>1. 0 \in Int
    OBVIOUS
  <2>2. QED
    BY <2>1, WithinIsEnd
<1>3. Len(s) \in 1..Len(s) /\ s[Len(s)].age = 0
  BY <1>1 DEF IsWindow
<1>4. c <= Len(s)
  BY <1>1, <1>2, <1>3
<1>5. ~(c < Len(s))
  <2>1. ASSUME c < Len(s) PROVE FALSE
    <3>1. c \in 1..Len(s)
      BY <1>1, <1>4
    <3>2. s[c].age > s[Len(s)].age
      BY <2>1, <3>1, <1>3 DEF IsWindow
    <3>3. s[c].age <= 0
      BY <3>1, <1>2
    <3>4. s[c].age \in Nat
      BY <3>1, <1>1
    <3>5. QED
      BY <3>2, <3>3, <3>4, <1>3
  <2>2. QED
    BY <2>1
<1>6. Len(r) = 1
  <2> HIDE DEF r
  <2>1. c = Len(s)
    BY <1>1, <1>4, <1>5
  <2>2. QED
    BY <2>1, <1>1, <1>2
<1>7. IsWindow(r)
  <2>1. 0 \in Int
    OBVIOUS
  <2>2. QED
    BY <2>1, WithinIsWindow
<1> HIDE DEF r
<1>8. PICK f \in [0..Len(r) -> Nat] : /\ Adds(f, Parts(r), Len(r))
                                      /\ Backfill(r) = UpTo(f[Len(r)], EnergyCap)
  BY <1>7, BackfillAdds
<1>9. f[1] = 0
  BY <1>6, <1>8 DEF Adds
<1>10. EnergyCap \in Nat
  BY WindowConstants
<1>11. Backfill(r) = UpTo(0, EnergyCap)
  BY <1>6, <1>8, <1>9
<1>12. UpTo(0, EnergyCap) = 0
  BY <1>10 DEF UpTo
<1>13. QED
  BY <1>11, <1>12 DEF r

\* At the gate: the run that a sample continues or begins, and its energy.
LEMMA RunMetered ==
    ASSUME MeterInv, ~chg, NEW dt \in Steps, NEW p \in Powers, NEW gone \in BOOLEAN,
           Remember(dt, p, gone), NEW run,
           run = RunAge(dt, PFast(Feed(samples, dt, p))), run # Never
    PROVE  /\ run \in 0..(START_HOLD + Longest)
           /\ drawn' = Backfill(Within(Feed(samples, dt, p), run))
<1> DEFINE s == Feed(samples, dt, p)
<1>1. dt \in Nat \ {0} /\ dt <= Longest /\ Longest \in Nat
  BY StepsBounded
<1>2. START_HOLD \in Nat /\ ASSESS \in Nat /\ EnergyCap \in Nat
  BY WindowConstants
<1>3. /\ IsWindow(samples) /\ above \in Ages(START_HOLD + Longest)
      /\ Len(samples) > 0 => samples[Len(samples)].p = lastp
      /\ above # Never => above < START_HOLD /\ Len(samples) > 0
      /\ above # Never => drawn = Backfill(Within(samples, above))
  BY DEF MeterInv, SamplesInv, RunInv, EnergyInv, DetectorTypeOK
<1>4. IsWindow(s) /\ Len(s) > 0
  BY <1>3, FeedType
<1>5. run = IF above = Never THEN 0 ELSE UpTo(above + dt, ASSESS)
  BY DEF RunAge
<1>6. CASE above = Never
  <2>1. run = 0 /\ drawn' = 0
    BY <1>5, <1>6 DEF Remember
  <2>2. QED
    BY <2>1, <1>1, <1>2, <1>4, RunStarts
<1>7. CASE above # Never
  <2>1. above \in Nat /\ above < START_HOLD /\ START_HOLD + dt <= ASSESS + 1
    BY <1>2, <1>3, <1>7, DetectorAssumption DEF Ages, Never
  <2>2. above + dt \in Nat /\ above + dt <= ASSESS /\ above + dt <= START_HOLD + Longest
    BY <2>1, <1>1, <1>2
  <2>3. run = above + dt
    BY <2>2, <1>2, <1>5, <1>7 DEF UpTo
  <2> DEFINE r == Within(samples, above)
             q == Within(s, above + dt)
  <2>4. /\ Len(q) = Len(r) + 1
        /\ \A i \in 1..Len(r) : q[i].age = r[i].age + dt /\ q[i].p = r[i].p
        /\ q[Len(r) + 1] = [age |-> 0, p |-> p]
    BY <1>1, <1>3, <2>1, <2>2, RunGrows
  <2>5. IsWindow(r) /\ IsWindow(q)
    <3>1. above \in Int /\ above + dt \in Int
      BY <2>1, <2>2
    <3>2. QED
      BY <3>1, <1>3, <1>4, WithinIsWindow
  <2>6. Len(r) > 0 /\ r[Len(r)].p = lastp
    <3>1. PICK c \in 1..(Len(samples) + 1) :
             /\ \A i \in 1..Len(samples) : samples[i].age <= above <=> i >= c
             /\ Len(r) = Len(samples) + 1 - c
             /\ \A i \in 1..(Len(samples) + 1 - c) : r[i] = samples[i + c - 1]
      <4>1. above \in Int
        BY <2>1
      <4>2. QED
        BY <4>1, <1>3, WithinIsEnd
    <3> HIDE DEF r
    <3>2. Len(samples) \in Nat /\ Len(samples) > 0 /\ samples[Len(samples)].age = 0
      BY <1>3, <1>7, WindowFacts DEF IsWindow
    <3>3. Len(samples) >= c
      <4>1. Len(samples) \in 1..Len(samples)
        BY <3>2
      <4>2. samples[Len(samples)].age <= above
        BY <3>2, <2>1
      <4>3. QED
        BY <3>1, <4>1, <4>2
    <3>4. Len(r) \in 1..(Len(samples) + 1 - c) /\ Len(r) + c - 1 = Len(samples)
      BY <3>1, <3>2, <3>3
    <3>5. r[Len(r)] = samples[Len(samples)]
      BY <3>1, <3>4
    <3>6. QED
      BY <3>2, <3>4, <3>5, <1>3
  <2> HIDE DEF r, q
  <2>7. Backfill(q) = UpTo(Backfill(r) + Trapezoid(r[Len(r)].p, p, dt), EnergyCap)
    BY <1>1, <2>4, <2>5, <2>6, RunGains
  <2>8. drawn' = UpTo(drawn + Trapezoid(lastp, p, dt), EnergyCap)
    BY <1>7 DEF Remember
  <2>9. drawn = Backfill(r)
    BY <1>3, <1>7 DEF r
  <2>10. drawn' = Backfill(q)
    BY <2>6, <2>7, <2>8, <2>9
  <2>11. run \in 0..(START_HOLD + Longest)
    BY <2>2, <2>3, <1>1, <1>2
  <2>12. QED
    BY <2>3, <2>10, <2>11 DEF q
<1>8. QED
  BY <1>6, <1>7

LEMMA WaitingStep ==
    ASSUME MeterInv, NEW dt \in Steps, NEW p \in Powers, NEW gone \in BOOLEAN,
           Waiting(dt, p, gone), Remember(dt, p, gone)
    PROVE  MeterInv'
<1> DEFINE s == Feed(samples, dt, p)
           run == RunAge(dt, PFast(s))
<1>1. /\ ~chg /\ lastp' = p
      /\ IF ~gone /\ run # Never /\ run >= START_HOLD
         THEN Start(Within(s, run))
         ELSE /\ samples' = s
              /\ IF gone THEN NoteNoLoad ELSE above' = run /\ UNCHANGED <<post, restart>>
              /\ UNCHANGED <<chg, peak, hold, grace, eval, age, wh, top, idle, why>>
  BY DEF Waiting
<1>2. DetectorTypeOK /\ IsWindow(samples)
  BY DEF MeterInv, SamplesInv
<1>3. /\ IsWindow(s) /\ Len(s) > 0 /\ s[Len(s)].p = p
      /\ \A i \in 1..Len(s) : s[i].age <= ASSESS
  BY <1>2, FeedType
<1>4. run # Never => /\ run \in 0..(START_HOLD + Longest)
                     /\ drawn' = Backfill(Within(s, run))
  BY <1>1, RunMetered
<1>5. START_HOLD \in Nat /\ Longest \in Nat /\ START_HOLD + Longest \in Nat
  BY WindowConstants, StepsBounded
<1>6. /\ peak \in 0..Max(Powers) /\ hold \in Ages(HOLD) /\ grace \in 0..GRACE
      /\ eval \in Ages(GRACE + 1) /\ post \in BOOLEAN /\ restart \in Nat
      /\ age \in 0..MIN_SEC /\ wh \in 0..EnergyCap /\ top \in Powers
      /\ idle \in Ages(DEBOUNCE + Longest)
      /\ why \in {"none", "unplug", "no_load", "low_power", "port_off", "link_loss"}
  BY <1>2 DEF DetectorTypeOK
<1> HIDE DEF s, run
<1>7. CASE ~gone /\ run # Never /\ run >= START_HOLD
  <2> DEFINE w == Within(s, run)
  <2>1. Start(w)
    BY <1>1, <1>7
  <2>2. run \in Int
    BY <1>4, <1>5, <1>7
  <2>3. IsWindow(w)
    BY <2>2, <1>3, WithinIsWindow
  <2>4. Len(w) > 0 /\ w[Len(w)].p = p /\ \A i \in 1..Len(w) : w[i].age <= ASSESS
    <3>1. PICK c \in 1..(Len(s) + 1) :
             /\ \A i \in 1..Len(s) : s[i].age <= run <=> i >= c
             /\ Len(w) = Len(s) + 1 - c
             /\ \A i \in 1..(Len(s) + 1 - c) : w[i] = s[i + c - 1]
      BY <2>2, <1>3, WithinIsEnd
    <3> HIDE DEF w
    <3>2. Len(s) \in Nat /\ Len(s) \in 1..Len(s) /\ s[Len(s)].age = 0
      BY <1>3, WindowFacts DEF IsWindow
    <3>3. run >= 0
      BY <1>5, <1>7, <2>2
    <3>4. Len(s) >= c
      BY <3>1, <3>2, <3>3
    <3>5. /\ Len(w) \in 1..(Len(s) + 1 - c) /\ Len(w) + c - 1 = Len(s)
          /\ \A i \in 1..Len(w) : i \in 1..(Len(s) + 1 - c) /\ i + c - 1 \in 1..Len(s)
      BY <3>1, <3>2, <3>4
    <3>6. QED
      BY <3>1, <3>2, <3>5, <1>3
  <2> HIDE DEF w
  <2>5. /\ Warm(w) \in 0..Max(Powers) /\ Max({w[i].p : i \in 1..Len(w)}) \in Powers
        /\ Backfill(w) \in 0..EnergyCap /\ w[1].age \in Nat
    BY <2>3, <2>4, StartType
  <2>6. WindowOK' /\ SamplesInv'
    <3>1. samples' = w /\ lastp' = p
      BY <2>1, <1>1 DEF Start
    <3>2. QED
      BY <3>1, <2>3, <2>4, WindowTyped DEF WindowOK, SamplesInv
  <2>7. AssessedOK'
    <3>1. 0 \in 0..GRACE
      BY WindowConstants
    <3>2. QED
      BY <2>1, <2>5, <3>1 DEF Start, AssessedOK, Ages
  <2>8. GateOK' /\ ChargeOK'
    BY <2>1, <1>6 DEF Start, GateOK, ChargeOK, Ages
  <2>9. MeterOK' /\ top' \in Powers
    <3>1. MIN_SEC \in Nat
      BY WindowConstants
    <3>2. UpTo(w[1].age, MIN_SEC) \in 0..MIN_SEC
      BY <3>1, <2>5 DEF UpTo
    <3>3. QED
      BY <2>1, <2>5, <3>2, <1>1 DEF Start, MeterOK
  <2>10. HistoryOK'
    BY <1>2, <2>9, RememberType
  <2>11. RunInv' /\ EnergyInv'
    BY <2>1, <1>4, <1>7 DEF Start, RunInv, EnergyInv, w
  <2>12. QED
    BY <2>6, <2>7, <2>8, <2>9, <2>10, <2>11, TypeByParts DEF MeterInv
<1>8. CASE ~(~gone /\ run # Never /\ run >= START_HOLD)
  <2>1. /\ samples' = s
        /\ IF gone THEN NoteNoLoad ELSE above' = run /\ UNCHANGED <<post, restart>>
        /\ UNCHANGED <<chg, peak, hold, grace, eval, age, wh, top, idle, why>>
    BY <1>1, <1>8
  <2>2. WindowOK' /\ SamplesInv' /\ Len(samples') > 0
    BY <2>1, <1>1, <1>2, FedWindow DEF s
  <2>3. AssessedOK' /\ ChargeOK'
    <3>1. AssessedOK'
      BY <2>1, <1>6 DEF AssessedOK
    <3>2. chg' = FALSE
      BY <2>1, <1>1, <1>2 DEF DetectorTypeOK
    <3>3. ChargeOK'
      BY <2>1, <3>2, <1>6 DEF ChargeOK
    <3>4. QED
      BY <3>1, <3>3
  <2>4. MeterOK' /\ top' \in Powers
    BY <2>1, <1>1, <1>6 DEF MeterOK
  <2>5. HistoryOK'
    BY <1>2, <2>4, RememberType
  <2>6. GateOK'
    BY <2>1, <1>4, <1>5, <1>6 DEF GateOK, Ages, NoteNoLoad
  <2>7. above' # Never => /\ above' = run /\ run # Never /\ run < START_HOLD
    <3>1. gone => above' = Never
      BY <2>1 DEF NoteNoLoad
    <3>2. ~gone => above' = run
      BY <2>1
    <3>3. run # Never => run \in Int
      BY <1>4, <1>5
    <3>4. QED
      BY <3>1, <3>2, <3>3, <1>5, <1>8
  <2>8. RunInv' /\ EnergyInv'
    BY <2>1, <2>2, <2>7, <1>1, <1>4 DEF RunInv, EnergyInv
  <2>9. QED
    BY <2>2, <2>3, <2>4, <2>5, <2>6, <2>8, TypeByParts DEF MeterInv
<1>9. QED
  BY <1>7, <1>8

LEMMA MeterStep == MeterInv /\ [DetectorNext]_detectorVars => MeterInv'
<1> SUFFICES ASSUME MeterInv, [DetectorNext]_detectorVars PROVE MeterInv'
  OBVIOUS
<1>1. CASE Sample
  <2>1. PICK dt \in Steps, p \in Powers, gone \in BOOLEAN :
           /\ Charging(dt, p, gone) \/ Waiting(dt, p, gone)
           /\ Remember(dt, p, gone)
    BY <1>1 DEF Sample
  <2>2. QED
    BY <2>1, ChargingStep, WaitingStep
<1>2. CASE PortOff \/ LinkLoss
  BY <1>2, OffStep
<1>3. CASE UNCHANGED detectorVars
  BY <1>3 DEF detectorVars, detector, gate, meter, history, MeterInv, DetectorTypeOK,
              SamplesInv, RunInv, EnergyInv
<1>4. QED
  BY <1>1, <1>2, <1>3 DEF DetectorNext

\* The energy of a session is that of the intervals since the first sample of the run
\* that opened it, those waited at the gate included, each once and none twice
\* (_start_session with its backfill, the integration of every sample, and the ends:
\* full, without load, unplugged, switched off, the link lost); and the window, the
\* gate and the meter stay in their ranges.
THEOREM MeterTheorem == DetectorSpec => []MeterHolds
<1>1. MeterInv => MeterHolds
  BY DEF MeterInv, MeterHolds, EnergyCounted, EnergyInv
<1>2. QED
  BY <1>1, MeterInit, MeterStep, PTL DEF DetectorSpec

(***************************************************************************)
(* When a session begins and is over: the window against the history.      *)
(***************************************************************************)

\* The median of samples of which at least one is recent enough lies between what the
\* recent ones do not fall below and what they do not exceed.
LEMMA MedianBetween ==
    ASSUME NEW n \in Nat, NEW s, DOMAIN s = 1..n, \A i \in 1..n : s[i].p \in Powers, NEW w,
           NEW lo \in Nat, NEW hi \in Nat,
           \A i \in 1..n : s[i].age <= w => lo <= s[i].p /\ s[i].p <= hi,
           \E i \in 1..n : s[i].age <= w
    PROVE  lo <= MedianSince(s, w) /\ MedianSince(s, w) <= hi
<1> DEFINE recent == {i \in DOMAIN s : s[i].age <= w}
           m == Cardinality(recent)
           Ranked(k) == CHOOSE v \in Powers : /\ Cardinality({i \in recent : s[i].p < v}) < k
                                              /\ Cardinality({i \in recent : s[i].p <= v}) >= k
<1>1. Powers \subseteq Nat
  BY PowersBounded
<1>2. recent \in SUBSET (1..n) /\ recent # {}
  OBVIOUS
<1>3. m \in Nat /\ m # 0
  <2>1. IsFiniteSet(1..n)
    BY FS_Interval
  <2>2. IsFiniteSet(recent)
    BY <1>2, <2>1, FS_Subset
  <2>3. QED
    BY <1>2, <2>2, FS_CardinalityType, FS_EmptySet
<1>4. \A i \in recent : s[i].p \in Nat /\ lo <= s[i].p /\ s[i].p <= hi
  BY <1>1
<1>5. \A k \in 1..m : Ranked(k) \in lo..hi
  <2>1. SUFFICES ASSUME NEW k \in 1..m PROVE Ranked(k) \in lo..hi
    OBVIOUS
  <2> DEFINE v == Ranked(k)
  <2> HIDE DEF recent, Ranked
  <2>2. \E u \in Powers : IsRanked(s, recent, k, u)
    <3>1. k \in 1..Cardinality(recent)
      BY <2>1 DEF m
    <3> HIDE DEF m
    <3>2. QED
      BY <1>2, <3>1, RankedType
  <2>3. v \in Powers /\ IsRanked(s, recent, k, v)
    BY <2>2 DEF Ranked, IsRanked
  <2> HIDE DEF v
  <2>4. v \in Nat /\ k \in Nat /\ k >= 1 /\ k <= m
    BY <1>1, <1>3, <2>3
  <2>5. CASE v > hi
    <3>1. {i \in recent : s[i].p < v} = recent
      BY <1>4, <2>4, <2>5
    <3>2. Cardinality({i \in recent : s[i].p < v}) < k
      BY <2>3 DEF IsRanked
    <3>3. m < k
      BY <3>1, <3>2 DEF m
    <3> HIDE DEF m
    <3>4. QED
      BY <2>4, <3>3, <1>3
  <2>6. CASE v < lo
    <3>1. {i \in recent : s[i].p <= v} = {}
      BY <1>4, <2>4, <2>6
    <3>2. Cardinality({i \in recent : s[i].p <= v}) >= k
      BY <2>3 DEF IsRanked
    <3>3. 0 >= k
      BY <3>1, <3>2, FS_EmptySet
    <3>4. QED
      BY <2>4, <3>3
  <2>7. QED
    BY <2>4, <2>5, <2>6 DEF v
<1>6. MedianSince(s, w) = IF m = 0 THEN 0
                          ELSE (Ranked((m + 1) \div 2) + Ranked(m \div 2 + 1)) \div 2
  BY DEF MedianSince
<1> HIDE DEF recent, m, Ranked
<1>7. (m + 1) \div 2 \in 1..m /\ m \div 2 + 1 \in 1..m
  BY <1>3
<1>8. /\ Ranked((m + 1) \div 2) \in lo..hi
      /\ Ranked(m \div 2 + 1) \in lo..hi
  BY <1>5, <1>7
<1>9. \A x, y \in lo..hi : lo <= (x + y) \div 2 /\ (x + y) \div 2 <= hi
  OBVIOUS
<1>10. QED
  BY <1>3, <1>6, <1>8, <1>9

\* What is in a fed window: before the new sample only old ones, which are older now,
OnlyOlder(s, dt, f) ==
    \A i \in 1..(Len(f) - 1) :
       \E j \in 1..Len(s) : /\ f[i].age = s[j].age + dt /\ f[i].p = s[j].p
                            /\ s[j].age + dt <= ASSESS

\* and each of them that is not too old, with what followed it.
NoneLost(s, dt, f) ==
    \A j \in 1..Len(s) : s[j].age + dt <= ASSESS =>
       \E i \in 1..(Len(f) - 1) :
          /\ f[i].age = s[j].age + dt
          /\ \A k \in (i + 1)..(Len(f) - 1) : \E h \in (j + 1)..Len(s) : f[k].p = s[h].p

LEMMA FedSamples ==
    ASSUME NEW s, IsWindow(s), NEW dt \in Nat \ {0}, NEW p \in Powers
    PROVE  /\ IsWindow(Feed(s, dt, p)) /\ Len(Feed(s, dt, p)) > 0
           /\ Feed(s, dt, p)[Len(Feed(s, dt, p))].p = p
           /\ OnlyOlder(s, dt, Feed(s, dt, p)) /\ NoneLost(s, dt, Feed(s, dt, p))
<1> DEFINE f == Feed(s, dt, p)
           n == Len(s)
<1>1. IsWindow(f) /\ \E c \in 1..(Len(s) + 1) : Feeds(s, dt, p, c, f)
  BY FeedIsWindow
<1>2. PICK c \in 1..(n + 1) : Feeds(s, dt, p, c, f)
  BY <1>1
<1>3. n \in Nat /\ \A i \in 1..n : s[i].age \in Nat
  BY WindowFacts
<1> HIDE DEF f, n
<1>4. /\ \A i \in 1..n : s[i].age + dt <= ASSESS <=> i >= c
      /\ Len(f) = n + 2 - c
      /\ \A i \in 1..(n + 1 - c) :
            f[i] = [age |-> s[i + c - 1].age + dt, p |-> s[i + c - 1].p]
      /\ f[n + 2 - c] = [age |-> 0, p |-> p]
  BY <1>2 DEF Feeds, n
<1>5. c \in Nat /\ c >= 1 /\ c <= n + 1
  BY <1>2, <1>3
<1>6. Len(f) \in Nat /\ Len(f) > 0 /\ f[Len(f)].p = p /\ Len(f) - 1 = n + 1 - c
  BY <1>3, <1>4, <1>5
<1>7. \A i \in 1..(n + 1 - c) : /\ i + c - 1 \in 1..n /\ i + c - 1 >= c
                                /\ f[i].age = s[i + c - 1].age + dt /\ f[i].p = s[i + c - 1].p
  <2>1. TAKE i \in 1..(n + 1 - c)
  <2>2. i + c - 1 \in 1..n /\ i + c - 1 >= c
    BY <1>3, <1>5
  <2>3. f[i] = [age |-> s[i + c - 1].age + dt, p |-> s[i + c - 1].p]
    BY <1>4
  <2>4. QED
    BY <2>2, <2>3
<1>8. \A i \in 1..(n + 1 - c) :
         \E j \in 1..n : /\ f[i].age = s[j].age + dt /\ f[i].p = s[j].p
                         /\ s[j].age + dt <= ASSESS
  BY <1>4, <1>7
<1>9. \A i \in 1..(Len(f) - 1) :
         \E j \in 1..n : /\ f[i].age = s[j].age + dt /\ f[i].p = s[j].p
                         /\ s[j].age + dt <= ASSESS
  BY <1>6, <1>8
<1>10. \A j \in 1..n : s[j].age + dt <= ASSESS =>
          \E i \in 1..(Len(f) - 1) :
             /\ f[i].age = s[j].age + dt
             /\ \A k \in (i + 1)..(Len(f) - 1) : \E h \in (j + 1)..n : f[k].p = s[h].p
  <2>1. SUFFICES ASSUME NEW j \in 1..n, s[j].age + dt <= ASSESS
                 PROVE  \E i \in 1..(Len(f) - 1) :
                           /\ f[i].age = s[j].age + dt
                           /\ \A k \in (i + 1)..(Len(f) - 1) :
                                 \E h \in (j + 1)..n : f[k].p = s[h].p
    OBVIOUS
  <2> DEFINE i == j + 1 - c
  <2>2. j >= c
    BY <1>4, <2>1
  <2>3. i \in 1..(n + 1 - c) /\ i + c - 1 = j /\ i \in 1..(Len(f) - 1)
    BY <1>3, <1>5, <1>6, <2>2
  <2>4. f[i].age = s[j].age + dt
    BY <1>7, <2>3
  <2>5. \A k \in (i + 1)..(Len(f) - 1) : /\ k \in 1..(n + 1 - c)
                                         /\ k + c - 1 \in (j + 1)..n
    BY <1>3, <1>5, <1>6, <2>3
  <2>6. \A k \in (i + 1)..(Len(f) - 1) : \E h \in (j + 1)..n : f[k].p = s[h].p
    BY <1>7, <2>5
  <2>7. QED
    BY <2>3, <2>4, <2>6
<1>11. QED
  <2>1. OnlyOlder(s, dt, f) /\ NoneLost(s, dt, f)
    BY <1>9, <1>10 DEF n, OnlyOlder, NoneLost
  <2>2. QED
    BY <1>1, <1>6, <2>1 DEF f

\* At an idle port no sample in the window is above the highest since the session ended,
\* and what a finished charge may go on drawing is below the threshold of the gate.
ResidueInv ==
    ~chg => /\ \A i \in 1..Len(samples) : samples[i].p <= seen
            /\ tail > 0 => post /\ restart >= tail

\* A session that is over leaves, unless the device was unplugged, the higher threshold
\* behind, and an empty window.
LEMMA CloseRaises ==
    ASSUME NEW reason, Close(reason), reason # "unplug", top' \in Nat
    PROVE  post' = TRUE /\ restart' >= 2 * Threshold(top')
<1>1. 2 * Threshold(top') \in Nat /\ RESTART_MIN \in Nat
  BY ThresholdType DEF RESTART_MIN
<1>2. Max({RESTART_MIN, 2 * Threshold(top')}) >= 2 * Threshold(top')
  BY <1>1, TwoNumbers
<1>3. QED
  BY <1>2 DEF Close, NoteSessionEnd

LEMMA CloseEmpties ==
    ASSUME NEW reason, Close(reason)
    PROVE  chg' = FALSE /\ Len(samples') = 0
BY DEF Close, Reset

\* The fast median of an idle port is no higher than what was seen there.
LEMMA FastSeen ==
    ASSUME MeterInv, ResidueInv, ~chg, NEW dt \in Steps, NEW p \in Powers,
           NEW s, s = Feed(samples, dt, p)
    PROVE  /\ \A i \in 1..Len(s) : s[i].p <= Max({seen, p})
           /\ PFast(s) <= Max({seen, p})
<1> DEFINE m == Max({seen, p})
<1>1. seen \in Nat /\ p \in Nat /\ dt \in Nat \ {0} /\ Powers \subseteq Nat
  BY PowersBounded, StepsBounded DEF MeterInv, DetectorTypeOK
<1>2. m \in Nat /\ seen <= m /\ p <= m
  BY <1>1, TwoNumbers
<1> HIDE DEF m
<1>3. IsWindow(samples)
  BY DEF MeterInv, SamplesInv
<1>4. /\ IsWindow(s) /\ Len(s) > 0 /\ s[Len(s)].p = p
      /\ \A i \in 1..(Len(s) - 1) : \E j \in 1..Len(samples) : s[i].p = samples[j].p
  <2>1. IsWindow(s) /\ Len(s) > 0 /\ s[Len(s)].p = p /\ OnlyOlder(samples, dt, s)
    <3>1. /\ IsWindow(Feed(samples, dt, p)) /\ Len(Feed(samples, dt, p)) > 0
          /\ Feed(samples, dt, p)[Len(Feed(samples, dt, p))].p = p
          /\ OnlyOlder(samples, dt, Feed(samples, dt, p))
      BY <1>1, <1>3, FedSamples
    <3>2. QED
      BY <3>1
  <2>2. QED
    BY <2>1 DEF OnlyOlder
<1>5. /\ DOMAIN s = 1..Len(s)
      /\ \A i \in 1..Len(s) : s[i].p \in Powers /\ s[i].age \in Nat
  BY <1>4, WindowFacts
<1>6. Len(s) \in Nat
  BY <1>4, WindowFacts
<1>7. \A i \in 1..Len(s) : s[i].p <= m
  <2>1. TAKE i \in 1..Len(s)
  <2>2. CASE i = Len(s)
    BY <1>2, <1>4, <2>2
  <2>3. CASE i # Len(s)
    <3>1. i \in 1..(Len(s) - 1)
      BY <1>6, <2>3
    <3>2. PICK j \in 1..Len(samples) : s[i].p = samples[j].p
      BY <1>4, <3>1
    <3>3. samples[j].p <= seen /\ s[i].p \in Nat
      BY <1>1, <1>5 DEF ResidueInv
    <3>4. QED
      BY <1>1, <1>2, <3>2, <3>3
  <2>4. QED
    BY <2>2, <2>3
<1>8. \E i \in 1..Len(s) : s[i].age <= FAST
  <2>1. Len(s) \in 1..Len(s) /\ s[Len(s)].age = 0
    BY <1>4, <1>6 DEF IsWindow
  <2>2. FAST \in Nat
    BY DetectorAssumption
  <2>3. QED
    BY <2>1, <2>2
<1>9. \A i \in 1..Len(s) : 0 <= s[i].p
  <2>1. TAKE i \in 1..Len(s)
  <2>2. s[i].p \in Nat
    BY <1>1, <1>5
  <2>3. QED
    BY <2>2
<1>10. PFast(s) <= m
  BY <1>2, <1>5, <1>6, <1>7, <1>8, <1>9, MedianBetween DEF PFast
<1>11. QED
  BY <1>7, <1>10 DEF m

\* Every step keeps the residue of a charge below the gate, and a start is above it.
LEMMA ResidueStep ==
    ASSUME MeterInv, ResidueInv, [DetectorNext]_detectorVars
    PROVE  ResidueInv' /\ (~chg /\ chg' => Max({seen, lastp'}) >= tail)
<1>1. /\ seen \in Nat /\ tail \in Nat /\ restart \in Nat /\ top \in Nat /\ chg \in BOOLEAN
  BY PowersBounded DEF MeterInv, DetectorTypeOK
<1>2. ASSUME NEW dt \in Steps, NEW p \in Powers, NEW gone \in BOOLEAN, gone => p = 0,
             Charging(dt, p, gone), Remember(dt, p, gone)
      PROVE  ResidueInv' /\ chg
  <2>1. PICK s, pk : /\ chg /\ Integrate(dt, p)
                     /\ IF p = 0 THEN NoLoad(dt, s, pk, gone) ELSE Load(dt, s, pk)
    BY <1>2 DEF Charging
  <2>2. \/ chg' = TRUE
        \/ Close(IF gone THEN "unplug" ELSE "no_load")
        \/ Close("low_power") /\ p # 0
    BY <2>1 DEF NoLoad, Load
  <2>3. top' \in Nat
    <3>1. p \in Nat
      BY PowersBounded
    <3>2. QED
      BY <1>1, <2>1, <3>1, TwoNumbers DEF Integrate
  <2>4. CASE chg' = TRUE
    BY <2>1, <2>4 DEF ResidueInv
  <2>5. CASE Close(IF gone THEN "unplug" ELSE "no_load")
    <3>1. chg' = FALSE /\ Len(samples') = 0
      BY <2>5, CloseEmpties
    <3>2. CASE gone
      <4>1. tail' = 0
        BY <1>2, <3>2 DEF Remember
      <4>2. QED
        BY <2>1, <3>1, <4>1 DEF ResidueInv
    <3>3. CASE ~gone
      <4>1. tail' = 2 * Threshold(top')
        BY <1>2, <2>1, <3>1, <3>3 DEF Remember
      <4>2. post' = TRUE /\ restart' >= 2 * Threshold(top')
        <5>1. Close("no_load") /\ "no_load" # "unplug"
          BY <2>5, <3>3
        <5>2. QED
          BY <2>3, <5>1, CloseRaises
      <4>3. QED
        BY <2>1, <3>1, <4>1, <4>2 DEF ResidueInv
    <3>4. QED
      BY <3>2, <3>3
  <2>6. CASE Close("low_power") /\ p # 0
    <3>1. /\ chg' = FALSE /\ Len(samples') = 0
          /\ post' = TRUE /\ restart' >= 2 * Threshold(top')
      <4>1. Close("low_power") /\ "low_power" # "unplug"
        BY <2>6
      <4>2. QED
        BY <2>3, <4>1, CloseRaises, CloseEmpties
    <3>2. tail' = 2 * Threshold(top')
      BY <1>2, <2>1, <2>6, <3>1 DEF Remember
    <3>3. QED
      BY <2>1, <3>1, <3>2 DEF ResidueInv
  <2>7. QED
    BY <2>1, <2>2, <2>4, <2>5, <2>6
<1>3. ASSUME NEW dt \in Steps, NEW p \in Powers, NEW gone \in BOOLEAN,
             Waiting(dt, p, gone), Remember(dt, p, gone)
      PROVE  ResidueInv' /\ (~chg /\ chg' => Max({seen, lastp'}) >= tail)
  <2> DEFINE s == Feed(samples, dt, p)
             run == RunAge(dt, PFast(s))
             m == Max({seen, p})
  <2>1. /\ ~chg /\ lastp' = p
        /\ IF ~gone /\ run # Never /\ run >= START_HOLD
           THEN Start(Within(s, run))
           ELSE /\ samples' = s
                /\ IF gone THEN NoteNoLoad ELSE above' = run /\ UNCHANGED <<post, restart>>
                /\ UNCHANGED <<chg, peak, hold, grace, eval, age, wh, top, idle, why>>
    BY <1>3 DEF Waiting
  <2>2. (\A i \in 1..Len(s) : s[i].p <= m) /\ PFast(s) <= m
    BY <2>1, FastSeen
  <2>3. PFast(s) \in Nat /\ m \in Nat
    <3>1. PFast(s) \in 0..Max(Powers) /\ Max(Powers) \in Nat /\ p \in Nat
      BY FeedType, PowersBounded DEF MeterInv, SamplesInv
    <3>2. QED
      BY <1>1, <3>1, TwoNumbers
  <2>4. run # Never => PFast(s) >= StartThreshold
    <3>1. StartThreshold \in Nat
      BY <1>1, TwoNumbers DEF StartThreshold, START_MIN
    <3>2. QED
      BY <2>3, <3>1 DEF RunAge
  <2> HIDE DEF s, run
  <2>5. CASE ~gone /\ run # Never /\ run >= START_HOLD
    <3>1. chg' = TRUE
      BY <2>1, <2>5 DEF Start
    <3>2. tail > 0 => m >= tail
      <4>1. ASSUME tail > 0 PROVE m >= tail
        <5>1. post /\ restart >= tail
          BY <2>1, <4>1 DEF ResidueInv
        <5>2. StartThreshold >= restart
          BY <1>1, <5>1, TwoNumbers DEF StartThreshold, START_MIN
        <5>3. StartThreshold \in Nat
          BY <1>1, TwoNumbers DEF StartThreshold, START_MIN
        <5>4. QED
          BY <1>1, <2>2, <2>3, <2>4, <2>5, <5>1, <5>2, <5>3
      <4>2. QED
        BY <4>1
    <3>3. QED
      BY <1>1, <2>1, <2>3, <3>1, <3>2 DEF ResidueInv
  <2>6. CASE ~(~gone /\ run # Never /\ run >= START_HOLD)
    <3>1. /\ samples' = s /\ chg' = chg
          /\ ~gone => UNCHANGED <<post, restart>>
      BY <2>1, <2>6
    <3>2. seen' = m
      BY <1>3, <2>1 DEF Remember
    <3>3. gone => tail' = 0
      BY <1>3 DEF Remember
    <3>4. ~gone => tail' = tail
      BY <1>1, <1>3, <2>1, <3>1 DEF Remember
    <3>5. \A i \in 1..Len(samples') : samples'[i].p <= seen'
      BY <2>2, <3>1, <3>2
    <3>6. tail' > 0 => post' /\ restart' >= tail'
      <4>1. CASE gone
        BY <3>3, <4>1
      <4>2. CASE ~gone
        BY <2>1, <3>1, <3>4, <4>2 DEF ResidueInv
      <4>3. QED
        BY <4>1, <4>2
    <3>7. QED
      BY <2>1, <3>1, <3>5, <3>6 DEF ResidueInv
  <2>7. QED
    BY <2>5, <2>6
<1>4. CASE Sample
  <2>1. PICK dt \in Steps, p \in Powers, gone \in BOOLEAN :
           /\ gone => p = 0
           /\ Charging(dt, p, gone) \/ Waiting(dt, p, gone)
           /\ Remember(dt, p, gone)
    BY <1>4 DEF Sample
  <2>2. QED
    BY <2>1, <1>2, <1>3
<1>5. CASE PortOff
  <2>1. /\ chg /\ top' = top /\ Close("port_off") /\ tail' = 2 * Threshold(top)
    BY <1>5 DEF PortOff, meter
  <2>2. "port_off" # "unplug" /\ top' \in Nat
    BY <1>1, <2>1
  <2>3. /\ chg' = FALSE /\ Len(samples') = 0
        /\ post' = TRUE /\ restart' >= 2 * Threshold(top')
    BY <2>1, <2>2, CloseRaises, CloseEmpties
  <2>4. QED
    BY <2>1, <2>3 DEF ResidueInv
<1>6. CASE LinkLoss
  BY <1>6 DEF LinkLoss, Reset, ResidueInv
<1>7. CASE UNCHANGED detectorVars
  BY <1>7 DEF detectorVars, detector, gate, history, ResidueInv
<1>8. QED
  BY <1>4, <1>5, <1>6, <1>7 DEF DetectorNext

\* The residue of a finished charge opens no session, whatever the sample rate, the
\* fluctuations and the window: until the port was seen empty it takes a draw above
\* twice the tail of the last session (note_session_end, should_start).
THEOREM ResidueTheorem == DetectorSpec => ResidueStartsNothing
<1>1. DetectorInit => ResidueInv
  BY DEF DetectorInit, ResidueInv
<1>2. MeterInv /\ ResidueInv /\ [DetectorNext]_detectorVars
        => ResidueInv' /\ [~chg /\ chg' => Max({seen, lastp'}) >= tail]_detectorVars
  BY ResidueStep
<1>3. QED
  BY <1>1, <1>2, MeterInit, MeterStep, PTL DEF DetectorSpec, ResidueStartsNothing

-----------------------------------------------------------------------------
(* A recovery of the charge.                                                 *)

\* The threshold of a recovery is its floor: the tail is never that high.
LEMMA FloorRules ==
    ASSUME NEW p \in Nat
    PROVE  Threshold(p) <= TAIL_CAP /\ RecoverThreshold(p) = RECOVER_FLOOR
<1> USE DEF TAIL_MIN, TAIL_CAP, RECOVER_FLOOR
<1>1. p \div 5 \in Nat
  OBVIOUS
<1>2. Min({TAIL_CAP, p \div 5}) \in Nat /\ Min({TAIL_CAP, p \div 5}) <= TAIL_CAP
  <2>1. \A q \in Nat : Min({TAIL_CAP, q}) \in Nat /\ Min({TAIL_CAP, q}) <= TAIL_CAP
    <3>1. TAKE q \in Nat
    <3>2. Min({TAIL_CAP, q}) = IF TAIL_CAP <= q THEN TAIL_CAP ELSE q
      BY TwoNumbers
    <3>3. QED
      BY <3>2
  <2>2. QED
    BY <1>1, <2>1
<1>3. Threshold(p) \in Nat /\ Threshold(p) <= TAIL_CAP
  BY <1>2, TwoNumbers DEF Threshold
<1>4. 2 * Threshold(p) \in Nat /\ 2 * Threshold(p) <= RECOVER_FLOOR
  BY <1>3
<1>5. QED
  BY <1>3, <1>4, TwoNumbers DEF RecoverThreshold

\* The samples that are high at the end of a window make a recovery that is as long as
\* the time since the one before them.
LEMMA RecoveryFound ==
    ASSUME NEW s, IsWindow(s), NEW pk \in Nat, NEW i \in 2..Len(s),
           \A k \in i..Len(s) : s[k].age <= RECENT /\ s[k].p > RECOVER_FLOOR
    PROVE  Recovery(s, pk) \in Nat /\ Recovery(s, pk) >= s[i - 1].age
<1> DEFINE n == Len(s)
           Since(k) == IF k = 1 THEN s[1].age ELSE s[k - 1].age
           High(k) == s[k].age <= RECENT /\ s[k].p > RecoverThreshold(pk)
           Runs == {r \in (DOMAIN s) \X (DOMAIN s) : r[1] <= r[2] /\ \A k \in r[1]..r[2] : High(k)}
           S == {0} \cup {Since(r[1]) - s[r[2]].age : r \in Runs}
<1>1. n \in Nat /\ DOMAIN s = 1..n /\ \A k \in 1..n : s[k].age \in Nat
  BY WindowFacts
<1>2. (\A j, k \in 1..n : j < k => s[j].age > s[k].age) /\ (n > 0 => s[n].age = 0)
  BY DEF IsWindow
<1>3. i \in Nat /\ 2 <= i /\ i <= n
  BY <1>1
<1>4. RecoverThreshold(pk) = RECOVER_FLOOR
  BY FloorRules
<1>5. Recovery(s, pk) = Max(S)
  BY DEF Recovery
<1> HIDE DEF n
<1>6. \A k \in 1..n : Since(k) \in 0..s[1].age /\ \A j \in k..n : Since(k) >= s[j].age
  <2>1. TAKE k \in 1..n
  <2>2. 1 \in 1..n /\ s[1].age \in Nat /\ \A j \in 1..n : s[j].age \in 0..s[1].age
    <3>1. 1 \in 1..n
      BY <1>1
    <3>2. s[1].age \in Nat
      BY <1>1, <3>1
    <3>3. ASSUME NEW j \in 1..n PROVE s[j].age \in 0..s[1].age
      <4>1. s[j].age \in Nat /\ (1 < j => s[1].age > s[j].age)
        BY <1>1, <1>2, <3>1
      <4>2. j = 1 \/ 1 < j
        OBVIOUS
      <4>3. QED
        BY <3>2, <4>1, <4>2
    <3>4. QED
      BY <3>1, <3>2, <3>3
  <2>3. CASE k = 1
    BY <2>2, <2>3
  <2>4. CASE k # 1
    <3>1. k - 1 \in 1..n /\ \A j \in k..n : j \in 1..n /\ k - 1 < j
      BY <1>1, <2>4
    <3>2. \A j \in k..n : s[k - 1].age > s[j].age /\ s[k - 1].age \in Nat /\ s[j].age \in Nat
      BY <1>1, <1>2, <3>1
    <3>3. QED
      BY <2>2, <2>4, <3>1, <3>2
  <2>5. QED
    BY <2>3, <2>4
<1> HIDE DEF Since
<1>7. s[1].age \in Nat
  <2>1. 1 \in 1..n
    BY <1>1, <1>3
  <2>2. QED
    BY <1>1, <2>1
<1>8. S \subseteq 0..s[1].age
  <2>1. ASSUME NEW r \in Runs PROVE Since(r[1]) - s[r[2]].age \in 0..s[1].age
    <3>1. r[1] \in 1..n /\ r[2] \in r[1]..n /\ r[2] \in 1..n
      BY <1>1, <2>1
    <3>2. Since(r[1]) \in 0..s[1].age /\ Since(r[1]) >= s[r[2]].age /\ s[r[2]].age \in Nat
      BY <1>1, <1>6, <3>1
    <3>3. QED
      BY <1>7, <3>2
  <2>2. 0 \in 0..s[1].age
    BY <1>7
  <2>3. QED
    BY <2>1, <2>2
<1>9. s[i - 1].age \in S
  <2>1. <<i, n>> \in Runs
    <3>1. i \in 1..n /\ n \in 1..n /\ i <= n
      BY <1>1, <1>3
    <3>2. \A k \in i..n : High(k)
      BY <1>4 DEF n
    <3>3. QED
      BY <1>1, <3>1, <3>2
  <2>2. Since(i) - s[n].age = s[i - 1].age
    <3>1. i # 1 /\ i - 1 \in 1..n
      BY <1>1, <1>3
    <3>2. s[n].age = 0 /\ s[i - 1].age \in Nat
      BY <1>1, <1>2, <1>3, <3>1
    <3>3. QED
      BY <3>1, <3>2 DEF Since
  <2> HIDE DEF Runs
  <2>3. Since(<<i, n>>[1]) - s[<<i, n>>[2]].age \in S
    BY <2>1
  <2>4. QED
    BY <2>2, <2>3
<1> HIDE DEF S
<1>10. Max(S) \in S /\ \A x \in S : x <= Max(S)
  BY <1>7, <1>8, <1>9, Greatest
<1>11. \A x \in 0..s[1].age : x \in Nat
  OBVIOUS
<1>12. Max(S) \in Nat
  BY <1>8, <1>10, <1>11
<1>13. QED
  BY <1>5, <1>9, <1>10, <1>12

\* A sample that is older than a recovery must be, all later ones being high, makes one:
\* those that are too old to be looked at are followed by enough others.
LEMMA RecoveryHolds ==
    ASSUME NEW s, IsWindow(s), NEW pk \in Nat, NEW j \in 1..(Len(s) - 1), s[j].age >= RECOVER,
           \A k \in (j + 1)..Len(s) : s[k].p > RECOVER_FLOOR
    PROVE  Recovery(s, pk) >= RECOVER
<1> DEFINE n == Len(s)
           T == {k \in (j + 1)..n : s[k].age <= RECENT}
<1>1. n \in Nat /\ \A k \in 1..n : s[k].age \in Nat
  BY WindowFacts
<1>2. (\A h, k \in 1..n : h < k => s[h].age > s[k].age) /\ (n > 0 => s[n].age = 0)
  BY DEF IsWindow
<1>3. RECOVER \in Nat /\ RECENT \in Nat /\ RECOVER <= RECENT
  BY DetectorAssumption
<1>4. j \in Nat /\ 1 <= j /\ j + 1 <= n
  BY <1>1
<1> HIDE DEF n
<1>5. T \subseteq Nat /\ n \in T
  BY <1>1, <1>2, <1>3, <1>4
<1>6. PICK i \in T : \A k \in T : i <= k
  BY <1>5, LeastNumber
<1>7. i \in Nat /\ j + 1 <= i /\ i <= n /\ s[i].age <= RECENT
  BY <1>4, <1>1, <1>6
<1>8. \A k \in i..n : s[k].age <= RECENT /\ s[k].p > RECOVER_FLOOR
  <2>1. TAKE k \in i..n
  <2>2. k \in (j + 1)..n /\ k \in 1..n /\ i \in 1..n /\ (k = i \/ i < k)
    BY <1>1, <1>4, <1>7
  <2>3. s[k].age \in Nat /\ s[i].age \in Nat /\ (i < k => s[i].age > s[k].age)
    BY <1>1, <1>2, <2>2
  <2>4. s[k].age <= RECENT
    BY <1>3, <1>7, <2>2, <2>3
  <2>5. QED
    BY <2>2, <2>4 DEF n
<1>9. Recovery(s, pk) \in Nat /\ Recovery(s, pk) >= s[i - 1].age
  <2>1. i \in 2..n
    BY <1>1, <1>4, <1>7
  <2>2. QED
    BY <1>8, <2>1, RecoveryFound DEF n
<1>10. s[i - 1].age \in Nat /\ s[i - 1].age >= RECOVER
  <2>1. i - 1 \in 1..n /\ (i - 1 = j \/ i - 1 \in (j + 1)..n)
    BY <1>1, <1>4, <1>7
  <2>2. s[i - 1].age \in Nat
    BY <1>1, <2>1
  <2>3. CASE i - 1 = j
    BY <2>2, <2>3
  <2>4. CASE i - 1 \in (j + 1)..n
    <3>1. ~(s[i - 1].age <= RECENT)
      BY <1>6, <1>7, <2>4
    <3>2. QED
      BY <1>3, <2>2, <3>1
  <2>5. QED
    BY <2>1, <2>3, <2>4
<1>11. QED
  BY <1>3, <1>9, <1>10

-----------------------------------------------------------------------------
(* A session that is found full.                                             *)

\* What the device has drawn more than the recovery threshold for is in the window, sample
\* by sample, until it is a recovery; then the count is given up.
HighInv ==
    chg => /\ Len(samples) > 0
           /\ \A i \in 1..Len(samples) : samples[i].age < high => samples[i].p > RECOVER_FLOOR
           /\ high < RECOVER => \E i \in 1..Len(samples) : samples[i].age = high
           /\ high = RECOVER => hold = Never

\* The count is not older than the last recovery or loss of voltage.
LoudInv == chg /\ hold # Never => hold <= loud

EarnedInv == HighInv /\ LoudInv

\* One more sample, and the time that the device has drawn much.
LEMMA HighFed ==
    ASSUME MeterInv, HighInv, chg, NEW dt \in Steps, NEW p \in Powers,
           NEW s, s = Feed(samples, dt, p), NEW pk \in Nat
    PROVE  /\ Len(s) > 0 /\ Recovering(p, dt) \in 0..RECOVER
           /\ \A i \in 1..Len(s) : s[i].age < Recovering(p, dt) => s[i].p > RECOVER_FLOOR
           /\ Recovering(p, dt) < RECOVER => \E i \in 1..Len(s) : s[i].age = Recovering(p, dt)
           /\ Recovering(p, dt) = RECOVER =>
                 /\ high = RECOVER \/ Recovery(s, pk) >= RECOVER
                 /\ PFast(s) > RECOVER_FLOOR
<1> DEFINE h == Recovering(p, dt)
           n == Len(samples)
           m == Len(s)
<1>1. /\ high \in 0..RECOVER /\ RECOVER \in Nat /\ RECOVER > 0 /\ FAST \in Nat /\ FAST < RECOVER
      /\ ASSESS \in Nat /\ RECOVER <= ASSESS /\ 2 * RECOVER <= ASSESS + 2
      /\ dt \in Nat /\ dt > 0 /\ dt <= ASSESS
  <2>1. high \in 0..RECOVER
    BY DEF MeterInv, DetectorTypeOK
  <2>2. /\ RECOVER \in Nat /\ FAST \in Nat /\ ASSESS \in Nat /\ RECENT \in Nat
        /\ RECOVER <= RECENT /\ RECENT <= ASSESS
        /\ FAST < RECOVER /\ 2 * RECOVER <= ASSESS + 2
    BY DetectorAssumption
  <2>3. dt \in Nat \ {0} /\ dt <= ASSESS
    BY StepsBounded, DetectorAssumption
  <2>4. QED
    BY <2>1, <2>2, <2>3
<1>2. p \in Nat /\ Powers \subseteq Nat /\ dt \in Nat \ {0}
  BY PowersBounded, StepsBounded
<1>3. IsWindow(samples) /\ n > 0
  BY DEF MeterInv, SamplesInv, HighInv
<1>4. /\ IsWindow(s) /\ m > 0 /\ s[m].p = p /\ OnlyOlder(samples, dt, s)
      /\ NoneLost(samples, dt, s)
  <2>1. /\ IsWindow(Feed(samples, dt, p)) /\ Len(Feed(samples, dt, p)) > 0
        /\ Feed(samples, dt, p)[Len(Feed(samples, dt, p))].p = p
        /\ OnlyOlder(samples, dt, Feed(samples, dt, p))
        /\ NoneLost(samples, dt, Feed(samples, dt, p))
    BY <1>2, <1>3, FedSamples
  <2>2. QED
    BY <2>1
<1>5. m \in Nat /\ DOMAIN s = 1..m /\ \A i \in 1..m : s[i].age \in Nat /\ s[i].p \in Powers
  BY <1>4, WindowFacts
<1>6. n \in Nat /\ \A i \in 1..n : samples[i].age \in Nat
  BY <1>3, WindowFacts
<1>7. n \in 1..n /\ samples[n].age = 0 /\ m \in 1..m /\ s[m].age = 0
  BY <1>3, <1>4, <1>5, <1>6 DEF IsWindow
<1>8. /\ h \in 0..RECOVER
      /\ p <= RECOVER_FLOOR => h = 0
      /\ p > RECOVER_FLOOR => h = IF high + dt > RECOVER THEN RECOVER ELSE high + dt
  BY <1>1, <1>2 DEF Recovering, UpTo, RECOVER_FLOOR
<1> HIDE DEF h
<1>9. /\ \A i \in 1..n : samples[i].age < high => samples[i].p > RECOVER_FLOOR
      /\ high < RECOVER => \E i \in 1..n : samples[i].age = high
  BY DEF HighInv
<1>10. ASSUME NEW i \in 1..m, s[i].age < h PROVE s[i].p > RECOVER_FLOOR
  <2>1. p > RECOVER_FLOOR /\ h <= high + dt
    BY <1>1, <1>2, <1>5, <1>8, <1>10 DEF RECOVER_FLOOR
  <2>2. CASE i = m
    BY <1>4, <2>1, <2>2
  <2>3. CASE i # m
    <3>1. i \in 1..(m - 1)
      <4>1. m \in Nat
        BY <1>5
      <4>2. QED
        BY <2>3, <4>1
    <3>2. PICK j \in 1..n : s[i].age = samples[j].age + dt /\ s[i].p = samples[j].p
      BY <1>4, <3>1 DEF OnlyOlder
    <3>3. samples[j].age < high
      BY <1>1, <1>6, <1>8, <1>10, <2>1, <3>2
    <3>4. QED
      BY <1>9, <3>2, <3>3
  <2>4. QED
    BY <2>2, <2>3
<1>11. ASSUME NEW j \in 1..n, samples[j].age + dt <= ASSESS
       PROVE  \E i \in 1..(m - 1) :
                 /\ s[i].age = samples[j].age + dt
                 /\ \A k \in (i + 1)..(m - 1) : \E x \in (j + 1)..n : s[k].p = samples[x].p
  BY <1>11, <1>4 DEF NoneLost
<1>12. ASSUME h < RECOVER PROVE \E i \in 1..m : s[i].age = h
  <2>1. CASE h = 0
    BY <1>7, <2>1
  <2>2. CASE h # 0
    <3>1. h = high + dt /\ high < RECOVER
      BY <1>1, <1>2, <1>8, <1>12, <2>2 DEF RECOVER_FLOOR
    <3>2. PICK j \in 1..n : samples[j].age = high
      BY <1>9, <3>1
    <3>3. samples[j].age + dt <= ASSESS
      BY <1>1, <1>12, <3>1, <3>2
    <3>4. PICK i \in 1..(m - 1) : s[i].age = samples[j].age + dt
      BY <1>11, <3>3
    <3>5. i \in 1..m
      BY <1>5
    <3>6. QED
      BY <3>1, <3>2, <3>4, <3>5
  <2>3. QED
    BY <2>1, <2>2
<1>13. ASSUME h = RECOVER, high # RECOVER PROVE Recovery(s, pk) >= RECOVER
  <2>1. /\ p > RECOVER_FLOOR /\ high < RECOVER /\ high + dt >= RECOVER
    BY <1>1, <1>2, <1>8, <1>13 DEF RECOVER_FLOOR
  <2>2. PICK j \in 1..n : /\ samples[j].age + dt >= RECOVER /\ samples[j].age + dt <= ASSESS
                          /\ samples[j].age <= high
    <3>1. CASE dt >= RECOVER
      BY <1>1, <1>7, <3>1
    <3>2. CASE dt < RECOVER
      <4>1. PICK j \in 1..n : samples[j].age = high
        BY <1>9, <2>1
      <4>2. high + dt <= ASSESS
        BY <1>1, <2>1, <3>2
      <4>3. QED
        BY <1>1, <2>1, <4>1, <4>2
    <3>3. QED
      BY <1>1, <3>1, <3>2
  <2>3. PICK i \in 1..(m - 1) :
           /\ s[i].age = samples[j].age + dt
           /\ \A k \in (i + 1)..(m - 1) : \E x \in (j + 1)..n : s[k].p = samples[x].p
    BY <1>11, <2>2
  <2>4. \A k \in (i + 1)..m : s[k].p > RECOVER_FLOOR
    <3>1. TAKE k \in (i + 1)..m
    <3>2. CASE k = m
      BY <1>4, <2>1, <3>2
    <3>3. CASE k # m
      <4>1. k \in (i + 1)..(m - 1)
        <5>1. m \in Nat
          BY <1>5
        <5>2. QED
          BY <3>3, <5>1
      <4>2. PICK x \in (j + 1)..n : s[k].p = samples[x].p
        BY <2>3, <4>1
      <4>3. x \in 1..n /\ j \in 1..n /\ j < x
        BY <1>6
      <4>4. samples[j].age > samples[x].age
        BY <1>3, <4>3 DEF IsWindow
      <4>5. samples[x].age < high
        BY <1>1, <1>6, <2>2, <4>3, <4>4
      <4>6. QED
        BY <1>9, <4>2, <4>3, <4>5
    <3>4. QED
      BY <3>2, <3>3
  <2>5. s[i].age >= RECOVER
    BY <2>2, <2>3
  <2>6. QED
    BY <1>4, <2>4, <2>5, RecoveryHolds
<1>14. ASSUME h = RECOVER PROVE PFast(s) > RECOVER_FLOOR
  <2> DEFINE lo == RECOVER_FLOOR + 1
  <2>1. lo \in Nat /\ Max(Powers) \in Nat
    BY PowersBounded DEF RECOVER_FLOOR
  <2>2. \A i \in 1..m : s[i].age <= FAST => lo <= s[i].p /\ s[i].p <= Max(Powers)
    <3>1. TAKE i \in 1..m
    <3>2. HAVE s[i].age <= FAST
    <3>3. s[i].age < h /\ s[i].p \in Powers
      BY <1>1, <1>5, <1>14, <3>2
    <3>4. s[i].p > RECOVER_FLOOR
      BY <1>10, <3>3
    <3>5. s[i].p \in Nat /\ s[i].p <= Max(Powers)
      BY <3>3, PowersBounded
    <3>6. QED
      BY <3>4, <3>5 DEF RECOVER_FLOOR
  <2>3. \E i \in 1..m : s[i].age <= FAST
    BY <1>1, <1>7
  <2> HIDE DEF lo
  <2>4. lo <= MedianSince(s, FAST)
    BY <1>5, <2>1, <2>2, <2>3, MedianBetween
  <2>5. PFast(s) \in Nat
    <3>1. PFast(s) \in 0..Max(Powers)
      BY <1>5, MedianType DEF PFast
    <3>2. QED
      BY <2>1, <3>1
  <2>6. QED
    BY <2>4, <2>5 DEF PFast, lo, RECOVER_FLOOR
<1>15. QED
  BY <1>4, <1>8, <1>10, <1>12, <1>13, <1>14 DEF h

\* What an assessment makes of the count, and when it ends the session.
LEMMA Assessed ==
    ASSUME NEW s, NEW pk, NEW c, NEW g, NEW since
    PROVE  LET e == Assess(s, pk, c, g, since)
           IN  /\ e.hold # Never => ~(Recovery(s, pk) >= RECOVER)
               /\ e.hold = Never \/ (e.hold = 0 /\ Settled(s, pk)) \/ (e.hold = c /\ c # Never)
               /\ e.end => e.hold # Never /\ e.hold >= HOLD
<1> DEFINE e == Assess(s, pk, c, g, since)
<1>1. \A x, y : /\ Verdict(x, y).hold = x
                /\ Verdict(x, y).end => x # Never /\ x >= HOLD
  BY DEF Verdict
<1>2. \/ e = Verdict(Never, 0)
      \/ e = Verdict(Never, g)
      \/ /\ ~(Recovery(s, pk) >= RECOVER)
         /\ \/ e = Verdict(0, 0) /\ Settled(s, pk)
            \/ c # Never /\ e = Verdict(c, g)
            \/ c # Never /\ e = Verdict(c, g + since)
  BY DEF Assess
<1> HIDE DEF e
<1>3. /\ e.hold # Never => ~(Recovery(s, pk) >= RECOVER)
      /\ e.hold = Never \/ (e.hold = 0 /\ Settled(s, pk)) \/ (e.hold = c /\ c # Never)
  BY <1>1, <1>2
<1>4. e.end => e.hold # Never /\ e.hold >= HOLD
  BY <1>1, <1>2
<1>5. QED
  BY <1>3, <1>4 DEF e

\* A sample of a session keeps the count honest, and ends the session only after a hold.
LEMMA EarnedCharging ==
    ASSUME MeterInv, EarnedInv, NEW dt \in Steps, NEW p \in Powers, NEW gone \in BOOLEAN,
           gone => p = 0, Charging(dt, p, gone), Remember(dt, p, gone)
    PROVE  EarnedInv' /\ (~chg' /\ why' = "low_power" => loud' >= HOLD)
<1> DEFINE r == Recovering(p, dt)
           older == Older(hold, dt, HOLD)
           ev == Older(eval, dt, GRACE + 1)
<1>1. PICK s \in {Feed(samples, dt, p)} : \E pk \in {Max({peak, PFast(s)})} :
         /\ chg /\ Integrate(dt, p)
         /\ IF p = 0 THEN NoLoad(dt, s, pk, gone) ELSE Load(dt, s, pk)
  BY DEF Charging
<1>2. PICK pk \in {Max({peak, PFast(s)})} :
         /\ chg /\ Integrate(dt, p)
         /\ IF p = 0 THEN NoLoad(dt, s, pk, gone) ELSE Load(dt, s, pk)
  BY <1>1
<1>3. s = Feed(samples, dt, p) /\ HighInv /\ LoudInv /\ chg
  BY <1>1, <1>2 DEF EarnedInv
<1>4. /\ hold \in Ages(HOLD) /\ loud \in 0..HOLD /\ HOLD \in Nat /\ dt \in Nat /\ dt > 0
      /\ RECOVER \in Nat /\ RECOVER > 0
  <2>1. hold \in Ages(HOLD) /\ loud \in 0..HOLD /\ HOLD \in Nat
    BY WindowConstants DEF MeterInv, DetectorTypeOK
  <2>2. dt \in Nat \ {0}
    BY StepsBounded
  <2>3. RECOVER \in Nat /\ FAST \in Nat /\ FAST < RECOVER
    BY DetectorAssumption
  <2>4. QED
    BY <2>1, <2>2, <2>3
<1>5. pk \in Nat
  <2>1. PFast(s) \in 0..Max(Powers) /\ peak \in 0..Max(Powers) /\ Max(Powers) \in Nat
    BY <1>3, FeedType, PowersBounded DEF MeterInv, SamplesInv, DetectorTypeOK
  <2>2. PFast(s) \in Nat /\ peak \in Nat
    BY <2>1
  <2>3. QED
    BY <1>2, <2>2, TwoNumbers
<1>6. /\ Len(s) > 0 /\ r \in 0..RECOVER
      /\ \A i \in 1..Len(s) : s[i].age < r => s[i].p > RECOVER_FLOOR
      /\ r < RECOVER => \E i \in 1..Len(s) : s[i].age = r
      /\ r = RECOVER => /\ high = RECOVER \/ Recovery(s, pk) >= RECOVER
                        /\ PFast(s) > RECOVER_FLOOR
  BY <1>3, <1>5, HighFed
<1>7. /\ chg' = TRUE => high' = r
      /\ loud' = IF gone \/ r >= RECOVER THEN 0 ELSE UpTo(loud + dt, HOLD)
  BY <1>3 DEF Remember
<1>8. p = 0 => r = 0
  BY DEF Recovering, RECOVER_FLOOR
<1> HIDE DEF r
<1>9. older \in Ages(HOLD) /\ (older # Never => older <= UpTo(loud + dt, HOLD))
  <2>1. CASE hold = Never
    BY <2>1 DEF Older, Ages
  <2>2. CASE hold # Never
    <3>1. hold <= loud /\ hold \in 0..HOLD
      BY <1>3, <1>4, <2>2 DEF LoudInv, Ages
    <3>2. older = UpTo(hold + dt, HOLD)
      BY <2>2 DEF Older
    <3>3. QED
      BY <1>4, <3>1, <3>2 DEF UpTo, Ages
  <2>3. QED
    BY <2>1, <2>2
<1>10. hold = Never => older = Never
  BY DEF Older
<1> HIDE DEF older, ev
<1>11. UpTo(loud + dt, HOLD) \in 0..HOLD
  BY <1>4 DEF UpTo
<1>12. ASSUME chg' = TRUE, samples' = s, r = RECOVER => hold' = Never,
              hold' # Never => hold' <= loud'
       PROVE  EarnedInv'
  BY <1>6, <1>7, <1>12 DEF EarnedInv, HighInv, LoudInv
<1>13. CASE p = 0
  <2>1. NoLoad(dt, s, pk, gone) /\ r = 0 /\ ~(r >= RECOVER)
    BY <1>2, <1>4, <1>8, <1>13
  <2>2. CASE idle # Never /\ idle + dt >= DEBOUNCE
    <3>1. Close(IF gone THEN "unplug" ELSE "no_load")
      BY <2>1, <2>2 DEF NoLoad
    <3>2. chg' = FALSE /\ why' = IF gone THEN "unplug" ELSE "no_load"
      BY <3>1 DEF Close
    <3>3. QED
      BY <3>2 DEF EarnedInv, HighInv, LoudInv
  <2>3. CASE ~(idle # Never /\ idle + dt >= DEBOUNCE)
    <3>1. /\ samples' = s /\ chg' = TRUE /\ hold' = IF gone THEN Never ELSE older
      BY <1>3, <2>1, <2>3 DEF NoLoad, older
    <3>2. hold' # Never => hold' <= loud'
      BY <1>7, <1>9, <2>1, <3>1
    <3>3. QED
      BY <1>4, <1>12, <2>1, <3>1, <3>2
  <2>4. QED
    BY <2>2, <2>3
<1>14. CASE p # 0
  <2> DEFINE e == IF wh' < MIN_ENERGY \/ age' < MIN_SEC
                  THEN [hold |-> Never, grace |-> 0, end |-> FALSE, eval |-> ev]
                  ELSE Assess(s, pk, older, grace, IF ev = Never THEN 0 ELSE ev)
  <2>1. /\ ~gone
        /\ IF e.end THEN Close("low_power")
           ELSE /\ hold' = e.hold /\ samples' = s /\ chg' = chg
    BY <1>2, <1>14 DEF Load, older, ev
  <2>2. /\ e.hold = Never \/ ~(Recovery(s, pk) >= RECOVER)
        /\ e.hold = Never \/ (e.hold = 0 /\ Settled(s, pk)) \/ (e.hold = older /\ older # Never)
        /\ e.end => e.hold # Never /\ e.hold >= HOLD
    <3>1. CASE wh' < MIN_ENERGY \/ age' < MIN_SEC
      BY <3>1
    <3>2. CASE ~(wh' < MIN_ENERGY \/ age' < MIN_SEC)
      <4>1. e = Assess(s, pk, older, grace, IF ev = Never THEN 0 ELSE ev)
        BY <3>2
      <4> HIDE DEF e
      <4>2. QED
        BY <4>1, Assessed
    <3>3. QED
      BY <3>1, <3>2
  <2> HIDE DEF e
  <2>3. r = RECOVER => e.hold = Never
    <3>1. SUFFICES ASSUME r = RECOVER PROVE e.hold = Never
      OBVIOUS
    <3>2. ~Settled(s, pk)
      <4>1. Threshold(pk) \in Nat /\ Threshold(pk) <= TAIL_CAP
        BY <1>5, FloorRules, ThresholdType
      <4>2. PFast(s) > RECOVER_FLOOR /\ PFast(s) \in Nat
        <5>1. PFast(s) \in 0..Max(Powers) /\ Max(Powers) \in Nat
          BY <1>3, FeedType, PowersBounded DEF MeterInv, SamplesInv
        <5>2. QED
          BY <1>6, <3>1, <5>1
      <4>3. QED
        BY <4>1, <4>2 DEF Settled, TAIL_CAP, RECOVER_FLOOR
    <3>3. high = RECOVER \/ Recovery(s, pk) >= RECOVER
      BY <1>6, <3>1
    <3>4. high = RECOVER => older = Never
      BY <1>3, <1>10 DEF HighInv
    <3>5. QED
      BY <2>2, <3>2, <3>3, <3>4
  <2>4. e.hold # Never => e.hold <= loud' /\ loud' = UpTo(loud + dt, HOLD)
    <3>1. SUFFICES ASSUME e.hold # Never
                   PROVE  e.hold <= loud' /\ loud' = UpTo(loud + dt, HOLD)
      OBVIOUS
    <3>2. ~(r >= RECOVER)
      BY <1>4, <1>6, <2>3, <3>1
    <3>3. loud' = UpTo(loud + dt, HOLD)
      BY <1>7, <2>1, <3>2
    <3>4. QED
      BY <1>9, <1>11, <2>2, <3>1, <3>3
  <2>5. CASE e.end
    <3>1. chg' = FALSE
      BY <2>1, <2>5 DEF Close
    <3>2. e.hold \in Int
      BY <1>9, <2>2, <2>5 DEF Ages, Never
    <3>3. loud' >= HOLD
      BY <1>4, <1>11, <2>2, <2>4, <2>5, <3>2
    <3>4. QED
      BY <3>1, <3>3 DEF EarnedInv, HighInv, LoudInv
  <2>6. CASE ~e.end
    BY <1>3, <1>12, <2>1, <2>3, <2>4, <2>6
  <2>7. QED
    BY <2>5, <2>6
<1>15. QED
  BY <1>13, <1>14

\* A session that starts has an empty count.
LEMMA EarnedWaiting ==
    ASSUME MeterInv, NEW dt \in Steps, NEW p \in Powers, NEW gone \in BOOLEAN,
           Waiting(dt, p, gone), Remember(dt, p, gone)
    PROVE  EarnedInv' /\ ~chg
<1> DEFINE s == Feed(samples, dt, p)
           run == RunAge(dt, PFast(s))
           w == Within(s, run)
<1>1. /\ ~chg
      /\ IF ~gone /\ run # Never /\ run >= START_HOLD THEN Start(w) ELSE chg' = chg
  BY DEF Waiting
<1>2. CASE ~gone /\ run # Never /\ run >= START_HOLD
  <2>1. samples' = w /\ chg' = TRUE /\ hold' = Never /\ high' = 0
    BY <1>1, <1>2 DEF Start, Remember
  <2>2. IsWindow(s) /\ Len(s) > 0
    BY FeedType DEF MeterInv, SamplesInv
  <2>3. run \in Nat
    <3>1. run \in 0..(START_HOLD + Longest)
      BY <1>1, <1>2, RunMetered
    <3>2. QED
      BY <3>1, WindowConstants, StepsBounded
  <2> HIDE DEF s, run
  <2>4. PICK c \in 1..(Len(s) + 1) :
           /\ \A i \in 1..Len(s) : s[i].age <= run <=> i >= c
           /\ Len(w) = Len(s) + 1 - c
           /\ \A i \in 1..(Len(s) + 1 - c) : w[i] = s[i + c - 1]
    <3>1. run \in Int
      BY <2>3
    <3>2. QED
      BY <2>2, <3>1, WithinIsEnd
  <2>5. IsWindow(w)
    BY <2>2, <2>3, WithinIsWindow
  <2> HIDE DEF w
  <2>6. Len(s) \in Nat /\ Len(s) \in 1..Len(s) /\ s[Len(s)].age = 0
    BY <2>2, WindowFacts DEF IsWindow
  <2>7. Len(w) > 0 /\ Len(w) \in Nat /\ Len(w) \in 1..Len(w)
    BY <2>3, <2>4, <2>6
  <2>8. w[Len(w)].age = 0 /\ \A i \in 1..Len(w) : w[i].age \in Nat
    BY <2>5, <2>7, WindowFacts DEF IsWindow
  <2>9. \A i \in 1..Len(w) : ~(w[i].age < 0)
    BY <2>8
  <2>10. HighInv'
    BY <2>1, <2>7, <2>8, <2>9 DEF HighInv
  <2>11. QED
    BY <1>1, <2>1, <2>10 DEF EarnedInv, LoudInv
<1>3. CASE ~(~gone /\ run # Never /\ run >= START_HOLD)
  BY <1>1, <1>3 DEF EarnedInv, HighInv, LoudInv
<1>4. QED
  BY <1>2, <1>3

LEMMA EarnedStep ==
    ASSUME MeterInv, EarnedInv, [DetectorNext]_detectorVars
    PROVE  EarnedInv' /\ (chg /\ ~chg' /\ why' = "low_power" => loud' >= HOLD)
<1>1. CASE Sample
  <2>1. PICK dt \in Steps, p \in Powers, gone \in BOOLEAN :
           /\ gone => p = 0
           /\ Charging(dt, p, gone) \/ Waiting(dt, p, gone)
           /\ Remember(dt, p, gone)
    BY <1>1 DEF Sample
  <2>2. QED
    BY <2>1, EarnedCharging, EarnedWaiting
<1>2. CASE PortOff \/ LinkLoss
  <2>1. chg' = FALSE /\ why' \in {"port_off", "link_loss"}
    BY <1>2 DEF PortOff, LinkLoss, Close
  <2>2. QED
    BY <2>1 DEF EarnedInv, HighInv, LoudInv
<1>3. CASE UNCHANGED detectorVars
  BY <1>3 DEF detectorVars, detector, history, EarnedInv, HighInv, LoudInv
<1>4. QED
  BY <1>1, <1>2, <1>3 DEF DetectorNext

\* A session is found full only after a whole hold without a recovery of the charge and
\* without a loss of voltage, whatever fluctuates in between, at whatever sample rate and
\* however many samples are missed (should_end, recovery_sec, feed).
THEOREM EarnedTheorem == DetectorSpec => EndIsEarned
<1>1. DetectorInit => EarnedInv
  BY DEF DetectorInit, EarnedInv, HighInv, LoudInv
<1>2. MeterInv /\ EarnedInv /\ [DetectorNext]_detectorVars
        => EarnedInv' /\ [chg /\ ~chg' /\ why' = "low_power" => loud' >= HOLD]_detectorVars
  BY EarnedStep
<1>3. QED
  BY <1>1, <1>2, MeterInit, MeterStep, PTL DEF DetectorSpec, EndIsEarned
============================================================================
