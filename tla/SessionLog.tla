----------------------------- MODULE SessionLog -----------------------------
(***************************************************************************)
(* What the charge history promises (table charge_sessions of              *)
(* ble_server/history.py): a row is opened, then it gets the totals of one *)
(* session, or it is deleted, or a restart closes it from its sample       *)
(* points; no session is written down twice and what is written stays.     *)
(***************************************************************************)
CONSTANTS
    Rows,
    Sessions,
    Recovered  \* in text: the totals were computed from the sample points

VARIABLES
    state,  \* state[r]: absent, open, closed or deleted
    text    \* text[r]: the session whose totals the row r has, or Recovered

log == <<state, text>>

OpenRows == {r \in Rows : state[r] = "open"}

Init ==
    /\ state = [r \in Rows |-> "absent"]
    /\ text = [r \in Rows |-> Recovered]

Open(r) ==
    /\ state[r] = "absent"
    /\ state' = [state EXCEPT ![r] = "open"] /\ UNCHANGED text

Write(r, s) ==
    /\ state[r] = "open" /\ \A q \in Rows : text[q] # s
    /\ state' = [state EXCEPT ![r] = "closed"]
    /\ text' = [text EXCEPT ![r] = s]

Delete(r) ==
    /\ state[r] = "open"
    /\ state' = [state EXCEPT ![r] = "deleted"] /\ UNCHANGED text

Restart ==
    \E kept \in SUBSET OpenRows :
        /\ state' = [r \in Rows |-> IF r \notin OpenRows THEN state[r]
                                    ELSE IF r \in kept THEN "closed" ELSE "deleted"]
        /\ UNCHANGED text

Next == \/ Restart
        \/ \E r \in Rows : Open(r) \/ Delete(r) \/ \E s \in Sessions : Write(r, s)

Spec == Init /\ [][Next]_log
=============================================================================
