----------------------------- MODULE MiotSession -----------------------------
(***************************************************************************)
(* One device's BLE life: the handshake of MiotAuth, on success the command *)
(* channel of MiotLink, and again after the link was given up               *)
(* (_connect_locked, _connect_and_run and the loop of start in              *)
(* ble_manager.py).                                                         *)
(***************************************************************************)
EXTENDS MiotAuth, MiotLink

sessionVars == <<authVars, linkVars>>

Init == AuthInit /\ LinkInit

\* An attempt runs only while the link is closed.
Handshake == pc = "closed" /\ AuthNext /\ UNCHANGED linkVars

\* authenticate returned True: the next handshake has a controller of its own,
\* and a charger that the app left or that still believes it logged in.
LoggedIn ==
    /\ step = "in" /\ Connect
    /\ step' = "idle" /\ tries' = 0 /\ heard' = FALSE /\ excused' = FALSE
    /\ inq' = <<>> /\ ctl' = <<>> /\ out' = <<>>
    /\ peer' = [peer EXCEPT !.did = "fresh", !.lost = FALSE, !.owes = {}]
    /\ slips' = 0

Linked == (Close \/ LinkStep) /\ UNCHANGED authVars

Next == Handshake \/ LoggedIn \/ Linked

Fairness ==
    /\ WF_sessionVars(pc = "closed" /\ (AppStep \/ NextAttempt) /\ UNCHANGED linkVars)
    /\ WF_sessionVars(pc = "closed" /\ PeerStep /\ UNCHANGED linkVars)
    /\ WF_sessionVars(LoggedIn)
    /\ WF_sessionVars(Close /\ UNCHANGED authVars)
    /\ WF_sessionVars(Open /\ UNCHANGED authVars)
    /\ WF_sessionVars(Loop /\ UNCHANGED authVars)
    /\ WF_sessionVars(Window /\ UNCHANGED authVars)
    /\ WF_sessionVars(ChargerAnswers /\ UNCHANGED authVars)
    /\ SF_sessionVars(MustRead /\ Poll /\ UNCHANGED authVars)

Spec == Init /\ [][Next]_sessionVars
FairSpec == Spec /\ Fairness

-----------------------------------------------------------------------------
(* Properties. *)

\* Whatever was swallowed, garbled or lost, and however often the link had to
\* be opened again, the app does not go on showing a reading that is not the true one
\* any more, unless the timer passes that reading over or the configured token is not
\* the charger's.
ShownCatchesUp ==
    \A v \in 0..MaxVal :
        (dev.val = v /\ peer.agrees) ~> (shown = v \/ dev.val # v \/ ~MustRead)

\* Readings are shown in their order, and one that is read anew catches up.
ShownFollows == ShownGoesForward /\ ShownCatchesUp

\* The handshake is well-formed and refused for a reason only.
HandshakeHolds == AuthTypeOK /\ RefusedForAReason

\* Both ends of the channel agree on counters and on what was executed.
ChannelHolds == LinkTypeOK /\ CounterInStep /\ DoneMeansExecuted

=============================================================================
