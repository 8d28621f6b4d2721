------------------------------ MODULE MiotAuth ------------------------------
(***************************************************************************)
(* The login handshake of the MiOT protocol:                                *)
(* CuktechBLEController._try_authenticate of controller.py, one attempt per *)
(* BLE connection, against the charger (external: how it answers is read    *)
(* from what the code waits for).  Bytes are abstract: a frame is its kind. *)
(*                                                                          *)
(* `out` holds what the app wrote and the charger has not handled yet,      *)
(* `inq` the auth_data notifications, `ctl` those of auth_ctrl.  A wait     *)
(* takes the head of its queue; it times out only on an empty queue.  An    *)
(* answer that is late or lost costs one of Slips (the bound on faults).    *)
(***************************************************************************)
EXTENDS Naturals, Sequences

CONSTANTS
    Slips,      \* how many answers may come too late or never between two logins
    RdyTries,   \* controller.py:444: 5 waits for RCV_RDY
    KeyWaits    \* controller.py:390: 3 waits for the late key data

ASSUME AuthAssumption ==
    /\ Slips \in Nat
    /\ RdyTries \in Nat \ {0, 1}
    /\ KeyWaits \in Nat \ {0}

VARIABLES
    step,      \* where the attempt stands; "in" and "refused" end it
    tries,     \* round of the loop it is in
    inq, ctl,  \* notification queues auth_data, auth_ctrl
    out,       \* writes under way to the charger
    peer,      \* the charger: what it did last, whether it lost the thread, what
               \* it still owes, whether the configured token is its own
    heard,     \* the second-round response came (response_data)
    slips,     \* faults so far
    excused    \* the attempt met a fault (history, read by a property only)

authVars == <<step, tries, inq, ctl, out, peer, heard, slips, excused>>

Steps == {"idle", "init", "key", "resync", "drain", "rdy1", "ok1", "random",
          "mac", "parts", "rdy2", "ok2", "round2", "ok3", "result"}
Ended == {"in", "refused"}
Peers == {"fresh", "asked", "keyed", "login", "random", "mac", "parts", "info",
          "challenge", "response", "done"}
AuthFrames == {"INIT", "KEY", "JUNK", "RDY", "OK", "RANDOM", "MAC", "HEAD", "PART",
           "CHALLENGE", "RESPONSE"}
AuthWrites == {"a4", "echo", "pad", "login", "sendkey", "random", "ack", "ready", "received",
               "sendinfo", "mac", "again"}

AuthTypeOK ==
    /\ step \in Steps \cup Ended
    /\ tries \in 0..(IF RdyTries > KeyWaits THEN RdyTries ELSE KeyWaits) - 1
    /\ inq \in Seq(AuthFrames) /\ out \in Seq(AuthWrites)
    /\ ctl \in Seq({"yes", "no"})
    /\ peer \in [did : Peers, lost : BOOLEAN, owes : SUBSET {"KEY", "JUNK"}, agrees : BOOLEAN]
    /\ heard \in BOOLEAN
    /\ slips \in 0..Slips
    /\ excused \in BOOLEAN

AuthInit ==
    /\ step = "idle" /\ tries = 0
    /\ inq = <<>> /\ ctl = <<>> /\ out = <<>>
    /\ peer \in [did : {"fresh"}, lost : BOOLEAN, owes : {{}}, agrees : BOOLEAN]
    /\ heard = FALSE /\ slips = 0 /\ excused = FALSE

-----------------------------------------------------------------------------
(* Waiting for a notification (wait_notify). *)

Take(x) == inq # <<>> /\ x = Head(inq) /\ inq' = Tail(inq)

\* No answer in time: none is coming, or it is late and that is a fault.
Silence(q) ==
    /\ q = <<>>
    /\ \/ out = <<>> /\ peer.owes = {} /\ slips' = slips
       \/ slips < Slips /\ slips' = slips + 1
    /\ excused' = TRUE

Write(ws) == out' = out \o ws
Goto(s) == step' = s /\ tries' = 0
Refuse == step' = "refused" /\ tries' = 0
\* Mutant: one round too many, with a count that goes past the last.
AgainOffByOne(limit) == IF tries < limit THEN tries' = tries + 1 /\ step' = step ELSE Refuse

Again(limit) == IF tries + 1 < limit THEN tries' = tries + 1 /\ step' = step ELSE Refuse

SamePeer == UNCHANGED <<ctl, peer>>
Heard == UNCHANGED <<slips, excused>>     \* a wait that was answered
Quiet == UNCHANGED <<inq, out>>           \* a wait that was not

-----------------------------------------------------------------------------
(* Phase A: initialisation and the placeholder key exchange. *)

Begin ==
    /\ step = "idle"
    /\ inq' = <<>> /\ Write(<<"a4">>) /\ Goto("init")
    /\ SamePeer /\ Heard /\ UNCHANGED heard

WaitInit ==
    /\ step = "init"
    /\ \/ \E x \in AuthFrames : Take(x) /\ Write(<<"echo">>) /\ Goto("key") /\ Heard
       \/ Silence(inq) /\ Refuse /\ Quiet
    /\ SamePeer /\ UNCHANGED heard

\* A short repeat of the init answer: the charger lost the thread.
WaitKey ==
    /\ step = "key"
    /\ \/ \E x \in AuthFrames :
            /\ Take(x) /\ Heard
            /\ IF x = "INIT" THEN Goto("resync") /\ out' = out
                             ELSE Goto("drain") /\ Write(<<"pad">>)
       \/ Silence(inq) /\ Refuse /\ Quiet
    /\ SamePeer /\ UNCHANGED heard

\* Three waits without the key data end the attempt (the loop's else). Twelve
\* seconds of silence before the last of them do not: the next round breaks and
\* the handshake goes on without it.
Resync ==
    /\ step = "resync"
    /\ \/ Take("KEY") /\ Goto("drain") /\ Write(<<"pad">>) /\ Heard
       \/ \E x \in AuthFrames \ {"KEY"} : Take(x) /\ Again(KeyWaits) /\ out' = out /\ Heard
       \/ tries + 1 < KeyWaits /\ Silence(inq) /\ Goto("drain") /\ Write(<<"pad">>) /\ inq' = inq
       \/ tries + 1 = KeyWaits /\ Silence(inq) /\ Refuse /\ Quiet
    /\ SamePeer /\ UNCHANGED heard

\* Two drains of what is left, auth_ctrl subscribed, login and key announced.
DrainAndLogin ==
    /\ step = "drain"
    /\ inq' = <<>> /\ Write(<<"login", "sendkey">>) /\ Goto("rdy1")
    /\ SamePeer /\ Heard /\ UNCHANGED heard

-----------------------------------------------------------------------------
(* Phase B: random keys, HMACs, the second round and the verdict. *)

\* Mutant: the first other frame ends the attempt.
WaitRdyStrict ==
    /\ step = "rdy1"
    /\ \/ Take("RDY") /\ Write(<<"random">>) /\ Goto("ok1") /\ Heard
       \/ \E x \in AuthFrames \ {"RDY"} : Take(x) /\ Refuse /\ out' = out /\ Heard
       \/ Silence(inq) /\ Again(RdyTries) /\ Quiet
    /\ SamePeer /\ UNCHANGED heard

\* Anything but RCV_RDY is skipped, a silence too, RdyTries times in all.
WaitRdy ==
    /\ step = "rdy1"
    /\ \/ Take("RDY") /\ Write(<<"random">>) /\ Goto("ok1") /\ Heard
       \/ \E x \in AuthFrames \ {"RDY"} : Take(x) /\ Again(RdyTries) /\ out' = out /\ Heard
       \/ Silence(inq) /\ Again(RdyTries) /\ Quiet
    /\ SamePeer /\ UNCHANGED heard

\* A wait that accepts one frame and gives up on everything else.
Expect(at, frame, next, writes) ==
    /\ step = at
    /\ \/ Take(frame) /\ Write(writes) /\ Goto(next) /\ Heard
       \/ \E x \in AuthFrames \ {frame} : Take(x) /\ Refuse /\ out' = out /\ Heard
       \/ Silence(inq) /\ Refuse /\ Quiet
    /\ SamePeer /\ UNCHANGED heard

WaitOk == Expect("ok1", "OK", "random", <<>>)
RecvRandom == Expect("random", "RANDOM", "mac", <<"ack">>)
WaitRdy2 == Expect("rdy2", "RDY", "ok2", <<"mac">>)

\* The keys are derived and the charger's HMAC is compared with ours.
Verify(writes) == IF peer.agrees THEN Goto("rdy2") /\ Write(writes \o <<"sendinfo">>)
                             ELSE Refuse /\ Write(writes)

RecvMac ==
    /\ step = "mac"
    /\ \/ Take("MAC") /\ Verify(<<"ack">>) /\ Heard
       \/ Take("HEAD") /\ Write(<<"ready">>) /\ Goto("parts") /\ Heard
       \/ \E x \in AuthFrames \ {"MAC", "HEAD"} : Take(x) /\ Refuse /\ out' = out /\ Heard
       \/ Silence(inq) /\ Refuse /\ Quiet
    /\ SamePeer /\ UNCHANGED heard

\* The HMAC in two frames; with one missing it is too short.
RecvParts ==
    /\ step = "parts"
    /\ \/ \E x \in AuthFrames :
            /\ Take(x) /\ Heard
            /\ IF tries = 0 THEN tries' = 1 /\ UNCHANGED <<step, out>>
                            ELSE Verify(<<"received">>)
       \/ Silence(inq) /\ Refuse /\ Write(<<"received">>) /\ inq' = inq
    /\ SamePeer /\ UNCHANGED heard

WaitOk2 ==
    /\ step = "ok2" /\ Goto("round2")
    /\ \/ (\E x \in AuthFrames : Take(x)) /\ out' = out /\ Heard
       \/ Silence(inq) /\ Quiet
    /\ SamePeer /\ UNCHANGED heard

\* Challenge and response, until RCV_RDY, RCV_OK or the deadline.
SecondRound ==
    /\ step = "round2"
    /\ \/ Take("CHALLENGE") /\ Write(<<"ack">>) /\ Heard /\ UNCHANGED <<step, tries, heard>>
       \/ Take("RESPONSE") /\ Write(<<"ack", "ack">>) /\ heard' = TRUE
          /\ Heard /\ UNCHANGED <<step, tries>>
       \/ \E x \in AuthFrames \ {"CHALLENGE", "RESPONSE", "RDY", "OK"} :
            Take(x) /\ Heard /\ UNCHANGED <<step, tries, heard, out>>
       \/ /\ \/ (Take("RDY") \/ Take("OK")) /\ Heard
             \/ Silence(inq) /\ inq' = inq
          /\ IF heard THEN Goto("ok3") /\ Write(<<"again">>) ELSE Goto("result") /\ out' = out
          /\ UNCHANGED heard
    /\ SamePeer

WaitOk3 ==
    /\ step = "ok3" /\ Goto("result")
    /\ \/ (\E x \in AuthFrames : Take(x)) /\ out' = out /\ Heard
       \/ Silence(inq) /\ Quiet
    /\ SamePeer /\ UNCHANGED heard

\* Mutant: the verdict is awaited again after every timeout.
VerdictForever ==
    /\ step = "result"
    /\ \/ /\ ctl # <<>> /\ ctl' = Tail(ctl) /\ Heard
          /\ IF Head(ctl) = "yes" THEN Goto("in") ELSE Refuse
       \/ Silence(ctl) /\ ctl' = ctl /\ UNCHANGED <<step, tries>>
    /\ UNCHANGED <<inq, out, peer, heard>>

Verdict ==
    /\ step = "result"
    /\ \/ /\ ctl # <<>> /\ ctl' = Tail(ctl) /\ Heard
          /\ IF Head(ctl) = "yes" THEN Goto("in") ELSE Refuse
       \/ Silence(ctl) /\ Refuse /\ ctl' = ctl
    /\ UNCHANGED <<inq, out, peer, heard>>

-----------------------------------------------------------------------------
(* The charger (external).  It sends in order: what it still owes comes     *)
(* before the answer to the key announcement.                               *)

Answer(frames, did) == inq' = inq \o frames /\ peer' = [peer EXCEPT !.did = did]

\* It handles the oldest write.
PeerReacts ==
    /\ out # <<>> /\ out' = Tail(out)
    /\ LET w == Head(out) IN
       \/ w = "a4" /\ Answer(<<"INIT">>, "asked") /\ ctl' = ctl
       \/ w = "echo" /\ ~peer.lost /\ Answer(<<"KEY">>, "keyed") /\ ctl' = ctl
       \/ /\ w = "echo" /\ peer.lost /\ inq' = Append(inq, "INIT") /\ ctl' = ctl
          /\ peer' \in { [peer EXCEPT !.did = "keyed", !.owes = o] : o \in {{}, {"KEY"}} }
       \/ /\ w = "pad" /\ inq' = inq /\ ctl' = ctl
          /\ peer' \in { peer, [peer EXCEPT !.owes = @ \cup {"JUNK"}] }
       \/ w = "login" /\ Answer(<<>>, "login") /\ ctl' = ctl
       \/ w = "sendkey" /\ peer.owes = {} /\ Answer(<<"RDY">>, "login") /\ ctl' = ctl
       \/ w = "random" /\ Answer(<<"OK", "RANDOM">>, "random") /\ ctl' = ctl
       \/ w = "ack" /\ peer.did = "random" /\ ctl' = ctl
          /\ (Answer(<<"MAC">>, "mac") \/ Answer(<<"HEAD">>, "parts"))
       \/ w = "ready" /\ Answer(<<"PART", "PART">>, "mac") /\ ctl' = ctl
       \/ w = "sendinfo" /\ Answer(<<"RDY">>, "info") /\ ctl' = ctl
       \/ w = "mac" /\ ctl' = ctl /\ Answer(<<"OK", "CHALLENGE">>, "challenge")
       \/ w = "mac" /\ Answer(<<"OK">>, "done") /\ ctl' = Append(ctl, IF peer.agrees THEN "yes" ELSE "no")
       \/ w = "ack" /\ peer.did = "challenge" /\ Answer(<<"RESPONSE">>, "response") /\ ctl' = ctl
       \/ w = "ack" /\ peer.did = "response" /\ Answer(<<"RDY">>, "info") /\ ctl' = ctl
       \/ w = "again" /\ Answer(<<"OK">>, "done") /\ ctl' = Append(ctl, IF peer.agrees THEN "yes" ELSE "no")
       \/ w \in {"ack", "received"} /\ peer.did \notin {"random", "challenge", "response"}
          /\ UNCHANGED <<inq, ctl, peer>>
    /\ UNCHANGED <<step, tries, heard, slips, excused>>

\* Late key data or a residue of the exchange; it answers in order.
PeerDelivers ==
    /\ \E x \in peer.owes : /\ inq' = Append(inq, x)
                            /\ peer' = [peer EXCEPT !.owes = @ \ {x}]
    /\ UNCHANGED <<step, tries, ctl, out, heard, slips, excused>>

\* A write without response that never arrives.
PeerMisses ==
    /\ out # <<>> /\ slips < Slips
    /\ out' = Tail(out) /\ slips' = slips + 1 /\ excused' = TRUE
    /\ UNCHANGED <<step, tries, inq, ctl, peer, heard>>

\* The next BLE connection: a new controller, and a charger that may still be
\* in the middle of the attempt that was given up.
NextAttempt ==
    /\ step = "refused"
    /\ step' = "idle" /\ tries' = 0 /\ heard' = FALSE /\ excused' = FALSE
    /\ inq' = <<>> /\ ctl' = <<>> /\ out' = <<>>
    /\ \E l \in {FALSE, peer.did \notin {"fresh", "done"}} :
          peer' = [peer EXCEPT !.did = "fresh", !.lost = l, !.owes = {}]
    /\ UNCHANGED slips

AppStep ==
    \/ Begin \/ WaitInit \/ WaitKey \/ Resync \/ DrainAndLogin \/ WaitRdy
    \/ WaitOk \/ RecvRandom \/ RecvMac \/ RecvParts \/ WaitRdy2 \/ WaitOk2
    \/ SecondRound \/ WaitOk3 \/ Verdict

PeerStep == PeerReacts \/ PeerDelivers

AuthNext == AppStep \/ PeerStep \/ PeerMisses \/ NextAttempt

-----------------------------------------------------------------------------
(* Properties. *)

\* With the right token an attempt is refused only after an answer was lost,
\* late or never sent: no residue of the key exchange, no repeat of the init
\* answer and no multi-frame answer makes it fail (controller.py:376-447).
RefusedForAReason == step = "refused" /\ peer.agrees => excused

\* Every attempt ends (controller.py: every wait has a deadline).
EveryAttemptEnds == (step \notin Ended \cup {"idle"}) ~> (step \in Ended)

=============================================================================
