-------------------------- MODULE MiotSessionProofs --------------------------
(***************************************************************************)
(* Proofs about MiotSession: the handshake of a charger that holds the same  *)
(* token is refused only for a reason, and the command channel keeps both    *)
(* counters together and reports no command as done that was not executed.   *)
(*                                                                          *)
(* Neither property is inductive.  For the handshake the invariant lists,    *)
(* step by step, what may be under way between the two sides while nothing   *)
(* unusual has happened (OnTrack): at each wait what comes next is what the  *)
(* step takes.  For the channel it says that what is still to be decrypted   *)
(* is in the order of its counters, less than half a round ahead of the last *)
(* one (InStep), and what an acknowledgement at hand stands for (DoneInv).   *)
(***************************************************************************)
EXTENDS MiotSession, SequenceTheorems, TLAPS

-----------------------------------------------------------------------------
(* The handshake. *)

\* What is under way between the app (out) and the charger (inq, owes).
Flow(o, i, w) == out = o /\ inq = i /\ peer.owes = w

Fresh == peer.did = "fresh" /\ Flow(<<>>, <<>>, {})
AskingInit ==
    \/ peer.did = "fresh" /\ Flow(<<"a4">>, <<>>, {})
    \/ Flow(<<>>, <<"INIT">>, {})
AskingKey ==
    \/ Flow(<<"echo">>, <<>>, {})
    \/ Flow(<<>>, <<"KEY">>, {})
    \/ \E w \in {{}, {"KEY"}} : Flow(<<>>, <<"INIT">>, w)
    \/ Flow(<<>>, <<"INIT", "KEY">>, {})
Resyncing ==
    /\ tries = 0
    /\ \/ \E w \in {{}, {"KEY"}} : Flow(<<>>, <<>>, w)
       \/ Flow(<<>>, <<"KEY">>, {})
Draining ==
    \/ Flow(<<"pad">>, <<>>, {})
    \/ \E w \in {{}, {"JUNK"}} : Flow(<<>>, <<>>, w)
    \/ Flow(<<>>, <<"JUNK">>, {})
\* At most one residue of the key exchange precedes RCV_RDY.
Announcing ==
    \/ tries = 0 /\ Flow(<<"pad", "login", "sendkey">>, <<>>, {})
    \/ \E o \in {<<"login", "sendkey">>, <<"sendkey">>} :
          \/ tries = 0 /\ \E w \in {{}, {"JUNK"}} : Flow(o, <<>>, w)
          \/ tries = 0 /\ Flow(o, <<"JUNK">>, {})
          \/ tries = 1 /\ Flow(o, <<>>, {})
    \/ tries = 0 /\ \E i \in {<<"RDY">>, <<"JUNK", "RDY">>} : Flow(<<>>, i, {})
    \/ tries = 1 /\ Flow(<<>>, <<"RDY">>, {})
SendingRandom == Flow(<<"random">>, <<>>, {}) \/ (peer.did = "random" /\ Flow(<<>>, <<"OK", "RANDOM">>, {}))
GettingRandom == peer.did = "random" /\ Flow(<<>>, <<"RANDOM">>, {})
GettingMac ==
    \/ peer.did = "random" /\ Flow(<<"ack">>, <<>>, {})
    \/ peer.did = "mac" /\ Flow(<<>>, <<"MAC">>, {})
    \/ Flow(<<>>, <<"HEAD">>, {})
GettingParts ==
    \/ tries = 0 /\ Flow(<<"ready">>, <<>>, {})
    \/ peer.did = "mac" /\ \/ tries = 0 /\ Flow(<<>>, <<"PART", "PART">>, {})
                           \/ tries = 1 /\ Flow(<<>>, <<"PART">>, {})
Verified ==
    \/ peer.did = "mac" /\ \E a \in {"ack", "received"} : Flow(<<a, "sendinfo">>, <<>>, {})
    \/ Flow(<<"sendinfo">>, <<>>, {})
    \/ Flow(<<>>, <<"RDY">>, {})
SendingMac ==
    \/ ctl = <<>> /\ Flow(<<"mac">>, <<>>, {})
    \/ ctl = <<>> /\ peer.did = "challenge" /\ Flow(<<>>, <<"OK", "CHALLENGE">>, {})
    \/ ctl = <<"yes">> /\ Flow(<<>>, <<"OK">>, {})
Challenged ==
    \/ ~heard /\ ctl = <<"yes">> /\ Flow(<<>>, <<>>, {})
    \/ /\ ~heard /\ ctl = <<>> /\ peer.did = "challenge"
       /\ Flow(<<>>, <<"CHALLENGE">>, {}) \/ Flow(<<"ack">>, <<>>, {})
    \/ ~heard /\ ctl = <<>> /\ peer.did = "response" /\ Flow(<<>>, <<"RESPONSE">>, {})
    \/ heard /\ ctl = <<>> /\ peer.did = "response" /\ Flow(<<"ack", "ack">>, <<>>, {})
    \/ /\ heard /\ ctl = <<>> /\ peer.did = "info"
       /\ Flow(<<"ack">>, <<"RDY">>, {}) \/ Flow(<<>>, <<"RDY">>, {})
SendingAgain ==
    \/ ctl = <<>> /\ peer.did = "info" /\ \E o \in {<<"ack", "again">>, <<"again">>} : Flow(o, <<>>, {})
    \/ ctl = <<"yes">> /\ Flow(<<>>, <<"OK">>, {})

Judged == ctl = <<"yes">> /\ out = <<>>

OnTrack ==
    /\ step = "idle" => Fresh
    /\ step = "init" => AskingInit
    /\ step = "key" => AskingKey
    /\ step = "resync" => Resyncing
    /\ step = "drain" => Draining
    /\ step = "rdy1" => Announcing
    /\ step = "ok1" => SendingRandom
    /\ step = "random" => GettingRandom
    /\ step = "mac" => GettingMac
    /\ step = "parts" => GettingParts
    /\ step = "rdy2" => Verified
    /\ step = "ok2" => SendingMac
    /\ step = "round2" => Challenged
    /\ step = "ok3" => SendingAgain
    /\ step = "result" => Judged
    /\ step # "refused"
\* Until the second round there is no verdict and no response.
    /\ step \notin {"ok2", "round2", "ok3", "result", "in"} => ctl = <<>>
    /\ step \notin {"round2", "ok3", "result", "in"} => ~heard

HandInv == AuthTypeOK /\ (peer.agrees /\ ~excused => OnTrack)

-----------------------------------------------------------------------------
(* Types of the handshake. *)

PeerRecords ==
    [did : Peers, lost : BOOLEAN, owes : SUBSET {"KEY", "JUNK"}, agrees : BOOLEAN]
Rounds == 0..(IF RdyTries > KeyWaits THEN RdyTries ELSE KeyWaits) - 1

LEMMA SeqFacts ==
    ASSUME NEW S, NEW s \in Seq(S), NEW t \in Seq(S), NEW x \in S
    PROVE  /\ s \o t \in Seq(S) /\ Append(s, x) \in Seq(S) /\ <<>> \in Seq(S)
           /\ s # <<>> => Head(s) \in S /\ Tail(s) \in Seq(S)
OBVIOUS

\* What the pieces of a wait keep well-formed.
LEMMA WaitTypes ==
    ASSUME AuthTypeOK
    PROVE  /\ \A x : Take(x) => inq' \in Seq(AuthFrames) /\ x \in AuthFrames
           /\ \A ws \in Seq(AuthWrites) : Write(ws) => out' \in Seq(AuthWrites)
           /\ Quiet => inq' \in Seq(AuthFrames) /\ out' \in Seq(AuthWrites)
           /\ \A s \in Steps \cup Ended : Goto(s) => step' \in Steps \cup Ended /\ tries' \in Rounds
           /\ Refuse => step' \in Steps \cup Ended /\ tries' \in Rounds
           /\ \A n \in {RdyTries, KeyWaits} :
                Again(n) => step' \in Steps \cup Ended /\ tries' \in Rounds
           /\ Heard => slips' \in 0..Slips /\ excused' \in BOOLEAN
           /\ \A q : Silence(q) => slips' \in 0..Slips /\ excused' \in BOOLEAN
           /\ SamePeer => ctl' \in Seq({"yes", "no"}) /\ peer' \in PeerRecords
<1>. 0 \in Rounds
  BY AuthAssumption DEF Rounds
<1>1. \A x : Take(x) => inq' \in Seq(AuthFrames) /\ x \in AuthFrames
  BY SeqFacts DEF AuthTypeOK, Take
<1>2. \A ws \in Seq(AuthWrites) : Write(ws) => out' \in Seq(AuthWrites)
  BY SeqFacts DEF AuthTypeOK, Write
<1>3. \A n \in {RdyTries, KeyWaits} :
                Again(n) => step' \in Steps \cup Ended /\ tries' \in Rounds
  <2>1. tries \in Nat
    BY AuthAssumption DEF AuthTypeOK
  <2>2. Refuse => step' \in Steps \cup Ended /\ tries' \in Rounds
    BY DEF Refuse, Ended
  <2>. QED BY <2>1, <2>2, AuthAssumption DEF AuthTypeOK, Again, Rounds
<1>4. /\ \A s \in Steps \cup Ended : Goto(s) => step' \in Steps \cup Ended /\ tries' \in Rounds
      /\ Refuse => step' \in Steps \cup Ended /\ tries' \in Rounds
  BY DEF Goto, Refuse, Ended
<1>6. \A q : Silence(q) => slips' \in 0..Slips /\ excused' \in BOOLEAN
  BY AuthAssumption DEF AuthTypeOK, Silence
<1>5. /\ Quiet => inq' \in Seq(AuthFrames) /\ out' \in Seq(AuthWrites)
      /\ Heard => slips' \in 0..Slips /\ excused' \in BOOLEAN
      /\ SamePeer => ctl' \in Seq({"yes", "no"}) /\ peer' \in PeerRecords
  BY DEF AuthTypeOK, Quiet, Heard, SamePeer, PeerRecords
<1>. QED BY <1>1, <1>2, <1>3, <1>4, <1>5, <1>6

LEMMA WriteTypes ==
    /\ <<>> \in Seq(AuthWrites) /\ <<>> \in Seq(AuthFrames)
    /\ \A ws \in Seq(AuthWrites), a \in AuthWrites : ws \o <<a>> \in Seq(AuthWrites)
    /\ \A a, b \in AuthWrites : <<a>> \in Seq(AuthWrites) /\ <<a, b>> \in Seq(AuthWrites)
OBVIOUS

LEMMA AppTypeStep == AuthTypeOK /\ AppStep => AuthTypeOK'
<1>. SUFFICES ASSUME AuthTypeOK, AppStep PROVE AuthTypeOK'
  OBVIOUS
<1>. AuthTypeOK' <=> /\ step' \in Steps \cup Ended /\ tries' \in Rounds
                     /\ inq' \in Seq(AuthFrames) /\ out' \in Seq(AuthWrites)
                     /\ ctl' \in Seq({"yes", "no"}) /\ peer' \in PeerRecords
                     /\ heard' \in BOOLEAN /\ slips' \in 0..Slips /\ excused' \in BOOLEAN
  BY DEF AuthTypeOK, Rounds, PeerRecords
<1>. /\ heard \in BOOLEAN /\ inq \in Seq(AuthFrames) /\ out \in Seq(AuthWrites)
     /\ step \in Steps \cup Ended /\ tries \in Rounds
  BY DEF AuthTypeOK, Rounds
<1>. AuthWrites # {} /\ \A w \in {"a4", "echo", "pad", "login", "sendkey", "random", "ack", "ready", "received",
               "sendinfo", "mac", "again"} : w \in AuthWrites
  BY DEF AuthWrites
<1>. \A s \in {"idle", "init", "key", "resync", "drain", "rdy1", "ok1", "random",
          "mac", "parts", "rdy2", "ok2", "round2", "ok3", "result", "in"} : s \in Steps \cup Ended
  BY DEF Steps, Ended
<1>. USE WaitTypes, WriteTypes
<1>1. CASE Begin
  BY <1>1 DEF Begin
<1>2. CASE WaitInit
  BY <1>2 DEF WaitInit
<1>3. CASE WaitKey
  BY <1>3 DEF WaitKey
<1>4. CASE Resync
  BY <1>4 DEF Resync
<1>5. CASE DrainAndLogin
  BY <1>5 DEF DrainAndLogin
<1>6. CASE WaitRdy
  BY <1>6 DEF WaitRdy
<1>7. CASE WaitOk \/ RecvRandom \/ WaitRdy2
  BY <1>7 DEF WaitOk, RecvRandom, WaitRdy2, Expect
<1>8. CASE RecvMac
  BY <1>8 DEF RecvMac, Verify
<1>9. CASE RecvParts
  <2>1. 1 \in Rounds
    BY AuthAssumption DEF Rounds
  <2>. QED BY <1>9, <2>1 DEF RecvParts, Verify
<1>10. CASE WaitOk2 \/ WaitOk3
  BY <1>10 DEF WaitOk2, WaitOk3
<1>11. CASE SecondRound
  BY <1>11 DEF SecondRound
<1>12. CASE Verdict
  <2>1. ctl \in Seq({"yes", "no"}) /\ peer \in PeerRecords
    BY DEF AuthTypeOK, PeerRecords
  <2>2. ctl # <<>> => Tail(ctl) \in Seq({"yes", "no"})
    BY <2>1
  <2>. QED BY <1>12, <2>1, <2>2 DEF Verdict
<1>. QED BY <1>1, <1>2, <1>3, <1>4, <1>5, <1>6, <1>7, <1>8, <1>9, <1>10, <1>11, <1>12 DEF AppStep

\* The charger's record at the start of an attempt.
LEMMA FreshPeer ==
    ASSUME AuthTypeOK, NEW l \in BOOLEAN,
           peer' = [peer EXCEPT !.did = "fresh", !.lost = l, !.owes = {}]
    PROVE  peer' \in PeerRecords /\ peer'.did = "fresh" /\ peer'.owes = {}
BY DEF AuthTypeOK, PeerRecords, Peers

LEMMA PeerTypeStep == AuthTypeOK /\ (PeerStep \/ PeerMisses \/ NextAttempt) => AuthTypeOK'
<1>. SUFFICES ASSUME AuthTypeOK PROVE PeerStep \/ PeerMisses \/ NextAttempt => AuthTypeOK'
  OBVIOUS
<1>0. /\ peer \in PeerRecords
      /\ \A d \in Peers : [peer EXCEPT !.did = d] \in PeerRecords
      /\ \A w \in SUBSET {"KEY", "JUNK"} : [peer EXCEPT !.owes = w] \in PeerRecords
      /\ \A d \in Peers, w \in SUBSET {"KEY", "JUNK"} :
           [peer EXCEPT !.did = d, !.owes = w] \in PeerRecords
      /\ \A d \in Peers, l \in BOOLEAN, w \in SUBSET {"KEY", "JUNK"} :
           [peer EXCEPT !.did = d, !.lost = l, !.owes = w] \in PeerRecords
  BY DEF AuthTypeOK, PeerRecords
<1>5. peer.owes \subseteq {"KEY", "JUNK"} /\ peer.did \in Peers
  BY <1>0 DEF PeerRecords
<1>1. PeerReacts => AuthTypeOK'
  <2>. SUFFICES ASSUME PeerReacts PROVE AuthTypeOK'
    OBVIOUS
  <2>1. out' \in Seq(AuthWrites)
    BY SeqFacts DEF PeerReacts, AuthTypeOK
  <2>2. ctl' \in Seq({"yes", "no"})
    <3>1. \A x \in {"yes", "no"} : Append(ctl, x) \in Seq({"yes", "no"})
      BY DEF AuthTypeOK
    <3>. QED BY <3>1 DEF PeerReacts, AuthTypeOK
  <2>3. inq' \in Seq(AuthFrames)
    <3>1. /\ \A a \in AuthFrames : inq \o <<a>> \in Seq(AuthFrames) /\ Append(inq, a) \in Seq(AuthFrames)
          /\ \A a, b \in AuthFrames : inq \o <<a, b>> \in Seq(AuthFrames)
          /\ inq \o <<>> \in Seq(AuthFrames)
      BY DEF AuthTypeOK
    <3>2. inq \in Seq(AuthFrames)
      BY DEF AuthTypeOK
    <3>3. {"INIT", "KEY", "RDY", "OK", "RANDOM", "MAC", "HEAD", "PART", "CHALLENGE", "RESPONSE"} \subseteq AuthFrames
      BY DEF AuthFrames
    <3>4. \/ inq' = inq \/ inq' = Append(inq, "INIT") \/ inq' = inq \o <<>>
          \/ \E a \in {"INIT", "KEY", "RDY", "MAC", "HEAD", "OK", "RESPONSE"} : inq' = inq \o <<a>>
          \/ inq' = inq \o <<"OK", "RANDOM">> \/ inq' = inq \o <<"PART", "PART">>
          \/ inq' = inq \o <<"OK", "CHALLENGE">>
      BY Zenon DEF PeerReacts, Answer
    <3>. QED BY <3>1, <3>2, <3>3, <3>4, Zenon
  <2>4. peer' \in PeerRecords
    <3>1. \/ peer' = peer \/ (\E d \in Peers : peer' = [peer EXCEPT !.did = d])
          \/ \E d \in Peers, w \in SUBSET {"KEY", "JUNK"} : peer' = [peer EXCEPT !.did = d, !.owes = w]
          \/ \E w \in SUBSET {"KEY", "JUNK"} : peer' = [peer EXCEPT !.owes = w]
      BY <1>5 DEF PeerReacts, Answer, Peers
    <3>. QED BY <1>0, <3>1, ZenonT(60)
  <2>. QED BY <2>1, <2>2, <2>3, <2>4 DEF PeerReacts, AuthTypeOK, PeerRecords
<1>2. PeerDelivers => AuthTypeOK'
  <2>. SUFFICES ASSUME NEW x \in peer.owes, inq' = Append(inq, x),
                       peer' = [peer EXCEPT !.owes = @ \ {x}], PeerDelivers
                PROVE  AuthTypeOK'
    BY DEF PeerDelivers
  <2>1. inq' \in Seq(AuthFrames)
    BY <1>5 DEF AuthTypeOK, AuthFrames
  <2>2. peer' \in PeerRecords
    <3>1. peer.owes \ {x} \in SUBSET {"KEY", "JUNK"}
      BY <1>5
    <3>. QED BY <1>0, <3>1
  <2>. QED BY <2>1, <2>2 DEF PeerDelivers, AuthTypeOK, PeerRecords
<1>3. PeerMisses => AuthTypeOK'
  BY SeqFacts, AuthAssumption DEF PeerMisses, AuthTypeOK
<1>4. NextAttempt => AuthTypeOK'
  <2>1. 0 \in Rounds /\ "fresh" \in Peers
    BY AuthAssumption DEF Rounds, Peers
  <2>2. NextAttempt => peer' \in PeerRecords
    <3>1. SUFFICES ASSUME NEW l \in BOOLEAN,
                          peer' = [peer EXCEPT !.did = "fresh", !.lost = l, !.owes = {}]
                   PROVE  peer' \in PeerRecords
      BY Zenon DEF NextAttempt
    <3>. QED BY <3>1, FreshPeer
  <2>3. NextAttempt => inq' \in Seq(AuthFrames) /\ out' \in Seq(AuthWrites) /\ ctl' \in Seq({"yes", "no"})
    BY DEF NextAttempt
  <2>. QED BY <2>1, <2>2, <2>3, ZenonT(60) DEF NextAttempt, AuthTypeOK, Steps, PeerRecords, Rounds
<1>. QED BY <1>1, <1>2, <1>3, <1>4 DEF PeerStep

-----------------------------------------------------------------------------
(* The app's steps stay on the track. *)

LEMMA Triples ==
    ASSUME NEW a, NEW b, NEW c
    PROVE  /\ <<a>> \o <<b, c>> = <<a, b, c>>
           /\ Head(<<a, b, c>>) = a /\ Tail(<<a, b, c>>) = <<b, c>> /\ <<a, b, c>> # <<>>
<1>. DEFINE S == {a, b, c}
<1>0. /\ <<a>> \in Seq(S) /\ <<b, c>> \in Seq(S) /\ <<a, b, c>> \in Seq(S)
      /\ Len(<<a>>) = 1 /\ Len(<<b, c>>) = 2 /\ Len(<<a, b, c>>) = 3
  OBVIOUS
<1>. HIDE DEF S
<1> DEFINE s == <<a>> \o <<b, c>>
<1>1. s \in Seq(S) /\ Len(s) = 3 /\ s[1] = a /\ s[2] = b /\ s[3] = c
  BY <1>0
<1>2. \A i \in 1..Len(s) : s[i] = <<a, b, c>>[i]
  BY <1>1
<1>3. Head(<<a, b, c>>) = a /\ Tail(<<a, b, c>>) = <<b, c>> /\ <<a, b, c>> # <<>>
  OBVIOUS
<1>. QED BY ONLY <1>1, <1>2, <1>0, <1>3, SeqEqual

\* The short queues of the handshake.
LEMMA Shapes ==
    ASSUME NEW a, NEW b, NEW c
    PROVE  /\ Tail(<<a>>) = <<>> /\ Tail(<<a, b>>) = <<b>>
           /\ Head(<<a>>) = a /\ Head(<<a, b>>) = a
           /\ <<a>> # <<>> /\ <<a, b>> # <<>>
           /\ <<>> \o <<a>> = <<a>> /\ <<>> \o <<a, b>> = <<a, b>> /\ <<a>> \o <<>> = <<a>>
           /\ <<a>> \o <<b>> = <<a, b>>
           /\ Append(<<>>, a) = <<a>> /\ Append(<<a>>, b) = <<a, b>>
<1>. DEFINE S == {a, b, c}
<1>0. /\ <<a>> \in Seq(S) /\ <<b>> \in Seq(S) /\ <<b, c>> \in Seq(S)
      /\ <<a, b>> \in Seq(S) /\ <<a, b, c>> \in Seq(S)
      /\ Len(<<a>>) = 1 /\ Len(<<b, c>>) = 2  /\ Len(<<a, b>>) = 2 /\ Len(<<b>>) = 1
      /\ Len(<<a, b, c>>) = 3
  OBVIOUS
<1>. HIDE DEF S
<1>1. <<a>> \o <<b>> = <<a, b>>
  <2> DEFINE s == <<a>> \o <<b>>
  <2>1. s \in Seq(S) /\ Len(s) = 2 /\ s[1] = a /\ s[2] = b
    BY <1>0
  <2>2. \A i \in 1..Len(s) : s[i] = <<a, b>>[i]
    BY <2>1
  <2>. QED BY ONLY <2>1, <2>2, <1>0, SeqEqual
<1>3. Append(<<a>>, b) = <<a, b>>
  <2> DEFINE s == Append(<<a>>, b)
  <2>1. s \in Seq(S) /\ Len(s) = 2 /\ s[1] = a /\ s[2] = b
    BY <1>0
  <2>2. \A i \in 1..Len(s) : s[i] = <<a, b>>[i]
    BY <2>1
  <2>. QED BY ONLY <2>1, <2>2, <1>0, SeqEqual
<1>4. /\ Tail(<<a>>) = <<>> /\ Tail(<<a, b>>) = <<b>> /\ Tail(<<a, b, c>>) = <<b, c>>
      /\ Head(<<a>>) = a /\ Head(<<a, b>>) = a /\ Head(<<a, b, c>>) = a
      /\ <<a>> # <<>> /\ <<a, b>> # <<>> /\ <<a, b, c>> # <<>>
  OBVIOUS
<1>5. /\ <<>> \o <<a>> = <<a>> /\ <<>> \o <<a, b>> = <<a, b>> /\ <<a>> \o <<>> = <<a>>
      /\ Append(<<>>, a) = <<a>>
  OBVIOUS
<1>. QED BY <1>1, <1>3, <1>4, <1>5

LEMMA AppTrack ==
    ASSUME AuthTypeOK, peer.agrees, OnTrack, AppStep, ~excused'
    PROVE  OnTrack'
<1>0. \A q : ~Silence(q)
  BY DEF Silence
<1>1. CASE Begin
  <2>1. /\ <<>> \o <<"a4">> = <<"a4">>
    BY Shapes
  <2>. QED BY <1>0, <1>1, <2>1 DEF Begin, OnTrack, Fresh, AskingInit, Flow, Write, Goto, SamePeer, Take
<1>2. CASE WaitInit
  <2>1. /\ Head(<<"INIT">>) = "INIT" /\ Tail(<<"INIT">>) = <<>> /\ <<"INIT">> # <<>>
        /\ <<>> \o <<"echo">> = <<"echo">>
    BY Shapes
  <2>. QED BY <1>0, <1>2, <2>1 DEF WaitInit, OnTrack, AskingInit, AskingKey, Flow, Write, Goto, SamePeer, Take
<1>3. CASE WaitKey
  <2>1. /\ Head(<<"INIT">>) = "INIT" /\ Tail(<<"INIT">>) = <<>> /\ <<"INIT">> # <<>>
        /\ Head(<<"KEY">>) = "KEY" /\ Tail(<<"KEY">>) = <<>> /\ <<"KEY">> # <<>>
        /\ Head(<<"INIT", "KEY">>) = "INIT" /\ Tail(<<"INIT", "KEY">>) = <<"KEY">> /\ <<"INIT", "KEY">> # <<>>
        /\ <<>> \o <<"pad">> = <<"pad">>
    BY Shapes
  <2>. QED BY <1>0, <1>3, <2>1 DEF WaitKey, OnTrack, AskingKey, Resyncing, Draining, Flow, Write, Goto, SamePeer, Take
<1>4. CASE Resync
  <2>1. /\ Head(<<"KEY">>) = "KEY" /\ Tail(<<"KEY">>) = <<>> /\ <<"KEY">> # <<>>
        /\ <<>> \o <<"pad">> = <<"pad">>
    BY Shapes
  <2>. QED BY <1>0, <1>4, <2>1 DEF Resync, OnTrack, Resyncing, Draining, Flow, Write, Goto, SamePeer, Take
<1>5. CASE DrainAndLogin
  <2>1. <<>> \o <<"login", "sendkey">> = <<"login", "sendkey">>
    BY Shapes
  <2>2. <<"pad">> \o <<"login", "sendkey">> = <<"pad", "login", "sendkey">>
    BY Triples
  <2>. QED BY <1>0, <1>5, <2>1, <2>2 DEF DrainAndLogin, OnTrack, Draining, Announcing, Flow, Write, Goto, SamePeer, Take
<1>6. CASE WaitRdy
  <2>1. /\ Head(<<"RDY">>) = "RDY" /\ Tail(<<"RDY">>) = <<>> /\ <<"RDY">> # <<>>
        /\ Head(<<"JUNK">>) = "JUNK" /\ Tail(<<"JUNK">>) = <<>> /\ <<"JUNK">> # <<>>
        /\ Head(<<"JUNK", "RDY">>) = "JUNK" /\ Tail(<<"JUNK", "RDY">>) = <<"RDY">> /\ <<"JUNK", "RDY">> # <<>>
        /\ <<>> \o <<"random">> = <<"random">>
    BY Shapes
  <2>2. CASE inq = <<>>
    BY <1>0, <1>6, <2>2 DEF WaitRdy, Take
  <2>3. CASE tries = 0 /\ inq = <<"JUNK">> /\ out \in {<<"login", "sendkey">>, <<"sendkey">>} /\ peer.owes = {}
    <3>1. step' = "rdy1" /\ tries' = 1 /\ inq' = <<>> /\ out' = out
      BY <1>0, <1>6, <2>1, <2>3, AuthAssumption DEF WaitRdy, Take, Again
    <3>2. Announcing'
      BY <1>6, <2>3, <3>1 DEF WaitRdy, SamePeer, Announcing, Flow
    <3>. QED BY <1>6, <3>1, <3>2 DEF WaitRdy, SamePeer, OnTrack
  <2>4. CASE tries = 0 /\ Flow(<<>>, <<"JUNK", "RDY">>, {})
    <3>1. step' = "rdy1" /\ tries' = 1 /\ inq' = <<"RDY">> /\ out' = out
      BY <1>0, <1>6, <2>1, <2>4, AuthAssumption DEF WaitRdy, Take, Again, Flow
    <3>2. Announcing'
      BY <1>6, <2>4, <3>1 DEF WaitRdy, SamePeer, Announcing, Flow
    <3>. QED BY <1>6, <3>1, <3>2 DEF WaitRdy, SamePeer, OnTrack
  <2>5. CASE Flow(<<>>, <<"RDY">>, {})
    BY <1>0, <1>6, <2>1, <2>5 DEF WaitRdy, OnTrack, SendingRandom, Flow, Write, Goto, SamePeer, Take
  <2>6. Announcing
    BY <1>6 DEF WaitRdy, OnTrack
  <2>. QED BY <2>2, <2>3, <2>4, <2>5, <2>6 DEF Announcing, Flow
<1>7. CASE WaitOk
  <2>1. /\ Head(<<"OK", "RANDOM">>) = "OK" /\ Tail(<<"OK", "RANDOM">>) = <<"RANDOM">> /\ <<"OK", "RANDOM">> # <<>>
        /\ <<>> \o <<>> = <<>>
    BY Shapes
  <2>. QED BY <1>0, <1>7, <2>1 DEF WaitOk, Expect, OnTrack, SendingRandom, GettingRandom, Flow, Write, Goto, SamePeer, Take
<1>8. CASE RecvRandom
  <2>1. /\ Head(<<"RANDOM">>) = "RANDOM" /\ Tail(<<"RANDOM">>) = <<>> /\ <<"RANDOM">> # <<>>
        /\ <<>> \o <<"ack">> = <<"ack">>
    BY Shapes
  <2>. QED BY <1>0, <1>8, <2>1 DEF RecvRandom, Expect, OnTrack, GettingRandom, GettingMac, Flow, Write, Goto, SamePeer, Take
<1>9. CASE RecvMac
  <2>1. /\ Head(<<"MAC">>) = "MAC" /\ Tail(<<"MAC">>) = <<>> /\ <<"MAC">> # <<>>
        /\ Head(<<"HEAD">>) = "HEAD" /\ Tail(<<"HEAD">>) = <<>> /\ <<"HEAD">> # <<>>
        /\ <<>> \o <<"ready">> = <<"ready">>
        /\ <<>> \o <<"ack", "sendinfo">> = <<"ack", "sendinfo">>
        /\ <<"ack">> \o <<"sendinfo">> = <<"ack", "sendinfo">>
    BY Shapes
  <2>. QED BY <1>0, <1>9, <2>1 DEF RecvMac, Verify, OnTrack, GettingMac, GettingParts, Verified, Flow, Write, Goto, SamePeer, Take
<1>10. CASE RecvParts
  <2>1. /\ Head(<<"PART">>) = "PART" /\ Tail(<<"PART">>) = <<>> /\ <<"PART">> # <<>>
        /\ Head(<<"PART", "PART">>) = "PART" /\ Tail(<<"PART", "PART">>) = <<"PART">> /\ <<"PART", "PART">> # <<>>
        /\ <<>> \o <<"received", "sendinfo">> = <<"received", "sendinfo">>
        /\ <<"received">> \o <<"sendinfo">> = <<"received", "sendinfo">>
    BY Shapes
  <2>2. GettingParts /\ ctl = <<>> /\ ~heard
    BY <1>10 DEF RecvParts, OnTrack
  <2>3. CASE inq = <<>>
    BY <1>0, <1>10, <2>3 DEF RecvParts, Take
  <2>4. CASE tries = 0 /\ peer.did = "mac" /\ Flow(<<>>, <<"PART", "PART">>, {})
    BY <1>0, <1>10, <2>1, <2>2, <2>4 DEF RecvParts, OnTrack, GettingParts, Flow, SamePeer, Take
  <2>5. CASE tries = 1 /\ peer.did = "mac" /\ Flow(<<>>, <<"PART">>, {})
    BY <1>0, <1>10, <2>1, <2>2, <2>5 DEF RecvParts, Verify, OnTrack, Verified, Flow, Write, Goto, SamePeer, Take
  <2>. QED BY <2>2, <2>3, <2>4, <2>5 DEF GettingParts, Flow
<1>11. CASE WaitRdy2
  <2>1. /\ Head(<<"RDY">>) = "RDY" /\ Tail(<<"RDY">>) = <<>> /\ <<"RDY">> # <<>>
        /\ <<>> \o <<"mac">> = <<"mac">>
    BY Shapes
  <2>. QED BY <1>0, <1>11, <2>1 DEF WaitRdy2, Expect, OnTrack, Verified, SendingMac, Flow, Write, Goto, SamePeer, Take
<1>12. CASE WaitOk2
  <2>1. /\ Head(<<"OK">>) = "OK" /\ Tail(<<"OK">>) = <<>> /\ <<"OK">> # <<>>
        /\ Head(<<"OK", "CHALLENGE">>) = "OK" /\ Tail(<<"OK", "CHALLENGE">>) = <<"CHALLENGE">> /\ <<"OK", "CHALLENGE">> # <<>>
    BY Shapes
  <2>. QED BY <1>0, <1>12, <2>1 DEF WaitOk2, OnTrack, SendingMac, Challenged, Flow, Write, Goto, SamePeer, Take
<1>13. CASE SecondRound
  <2>1. /\ Head(<<"CHALLENGE">>) = "CHALLENGE" /\ Tail(<<"CHALLENGE">>) = <<>> /\ <<"CHALLENGE">> # <<>>
        /\ Head(<<"RESPONSE">>) = "RESPONSE" /\ Tail(<<"RESPONSE">>) = <<>> /\ <<"RESPONSE">> # <<>>
        /\ Head(<<"RDY">>) = "RDY" /\ Tail(<<"RDY">>) = <<>> /\ <<"RDY">> # <<>>
        /\ <<>> \o <<"ack">> = <<"ack">>
        /\ <<>> \o <<"ack", "ack">> = <<"ack", "ack">>
        /\ <<>> \o <<"again">> = <<"again">>
        /\ <<"ack">> \o <<"again">> = <<"ack", "again">>
    BY Shapes
  <2>2. Challenged
    BY <1>13 DEF SecondRound, OnTrack
  <2>3. CASE inq = <<>>
    BY <1>0, <1>13, <2>3 DEF SecondRound, Take
  <2>4. CASE ~heard /\ ctl = <<>> /\ peer.did = "challenge" /\ Flow(<<>>, <<"CHALLENGE">>, {})
    BY <1>0, <1>13, <2>1, <2>4 DEF SecondRound, OnTrack, Challenged, Flow, Write, SamePeer, Take
  <2>5. CASE ~heard /\ ctl = <<>> /\ peer.did = "response" /\ Flow(<<>>, <<"RESPONSE">>, {})
    BY <1>0, <1>13, <2>1, <2>5 DEF SecondRound, OnTrack, Challenged, Flow, Write, SamePeer, Take
  <2>6. CASE /\ heard /\ ctl = <<>> /\ peer.did = "info"
             /\ Flow(<<"ack">>, <<"RDY">>, {}) \/ Flow(<<>>, <<"RDY">>, {})
    BY <1>0, <1>13, <2>1, <2>6 DEF SecondRound, OnTrack, SendingAgain, Flow, Write, Goto, SamePeer, Take
  <2>. QED BY <2>2, <2>3, <2>4, <2>5, <2>6 DEF Challenged, Flow
<1>14. CASE WaitOk3
  <2>1. /\ Head(<<"OK">>) = "OK" /\ Tail(<<"OK">>) = <<>> /\ <<"OK">> # <<>>
    BY Shapes
  <2>. QED BY <1>0, <1>14, <2>1 DEF WaitOk3, OnTrack, SendingAgain, Judged, Flow, Write, Goto, SamePeer, Take
<1>15. CASE Verdict
  <2>1. Head(<<"yes">>) = "yes"
    BY Shapes
  <2>. QED BY <1>0, <1>15, <2>1 DEF Verdict, OnTrack, Judged, Goto
<1>. QED BY <1>1, <1>2, <1>3, <1>4, <1>5, <1>6, <1>7, <1>8, <1>9, <1>10, <1>11, <1>12, <1>13, <1>14, <1>15 DEF AppStep

-----------------------------------------------------------------------------
(* So do the charger's. *)

\* What the charger has sent and done after a step of its own.
Reply(i, did, owes, c) == inq' = i /\ peer'.did = did /\ peer'.owes = owes /\ ctl' = c

\* What it does with each write.
LEMMA Reactions ==
    ASSUME AuthTypeOK, peer.agrees, PeerReacts, NEW w, w = Head(out)
    PROVE  /\ w = "a4" =>
            Reply(inq \o <<"INIT">>, "asked", peer.owes, ctl)
           /\ w = "echo" =>
            \/ Reply(inq \o <<"KEY">>, "keyed", peer.owes, ctl)
            \/ \E d \in {{}, {"KEY"}} : Reply(Append(inq, "INIT"), "keyed", d, ctl)
           /\ w = "pad" =>
            \E d \in {peer.owes, peer.owes \cup {"JUNK"}} : Reply(inq, peer.did, d, ctl)
           /\ w = "login" =>
            Reply(inq \o <<>>, "login", peer.owes, ctl)
           /\ w = "sendkey" =>
            peer.owes = {} /\ Reply(inq \o <<"RDY">>, "login", {}, ctl)
           /\ w = "random" =>
            Reply(inq \o <<"OK", "RANDOM">>, "random", peer.owes, ctl)
           /\ w = "ack" /\ peer.did = "random" =>
            \/ Reply(inq \o <<"MAC">>, "mac", peer.owes, ctl)
            \/ Reply(inq \o <<"HEAD">>, "parts", peer.owes, ctl)
           /\ w = "ack" /\ peer.did = "challenge" =>
            Reply(inq \o <<"RESPONSE">>, "response", peer.owes, ctl)
           /\ w = "ack" /\ peer.did = "response" =>
            Reply(inq \o <<"RDY">>, "info", peer.owes, ctl)
           /\ w = "ack" /\ peer.did \in {"mac", "info"} =>
            Reply(inq, peer.did, peer.owes, ctl)
           /\ w = "received" /\ peer.did = "mac" =>
            Reply(inq, peer.did, peer.owes, ctl)
           /\ w = "ready" =>
            Reply(inq \o <<"PART", "PART">>, "mac", peer.owes, ctl)
           /\ w = "sendinfo" =>
            Reply(inq \o <<"RDY">>, "info", peer.owes, ctl)
           /\ w = "mac" =>
            \/ Reply(inq \o <<"OK", "CHALLENGE">>, "challenge", peer.owes, ctl)
            \/ Reply(inq \o <<"OK">>, "done", peer.owes, Append(ctl, "yes"))
           /\ w = "again" =>
            Reply(inq \o <<"OK">>, "done", peer.owes, Append(ctl, "yes"))
<1>0. /\ peer \in PeerRecords
      /\ \A d \in Peers : [peer EXCEPT !.did = d].did = d /\ [peer EXCEPT !.did = d].owes = peer.owes
      /\ \A w1 : [peer EXCEPT !.owes = w1].did = peer.did /\ [peer EXCEPT !.owes = w1].owes = w1
      /\ \A d, w1 : [peer EXCEPT !.did = d, !.owes = w1].owes = w1
                  /\ [peer EXCEPT !.did = d, !.owes = w1].did = d
  BY DEF AuthTypeOK, PeerRecords
<1>1. w = "a4" =>
            Reply(inq \o <<"INIT">>, "asked", peer.owes, ctl)
  <2>. SUFFICES ASSUME w = "a4"
               PROVE  Reply(inq \o <<"INIT">>, "asked", peer.owes, ctl)
    OBVIOUS
  <2>1. inq' = inq \o <<"INIT">> /\ peer' = [peer EXCEPT !.did = "asked"] /\ ctl' = ctl
    BY DEF PeerReacts, Answer
  <2>. QED BY <1>0, <2>1 DEF Reply, Peers
<1>2. w = "echo" =>
            \/ Reply(inq \o <<"KEY">>, "keyed", peer.owes, ctl)
            \/ \E d \in {{}, {"KEY"}} : Reply(Append(inq, "INIT"), "keyed", d, ctl)
  <2>. SUFFICES ASSUME w = "echo"
               PROVE  \/ Reply(inq \o <<"KEY">>, "keyed", peer.owes, ctl)
            \/ \E d \in {{}, {"KEY"}} : Reply(Append(inq, "INIT"), "keyed", d, ctl)
    OBVIOUS
  <2>1. \/ inq' = inq \o <<"KEY">> /\ peer' = [peer EXCEPT !.did = "keyed"] /\ ctl' = ctl
        \/ /\ inq' = Append(inq, "INIT") /\ ctl' = ctl
           /\ peer' \in { [peer EXCEPT !.did = "keyed", !.owes = o] : o \in {{}, {"KEY"}} }
    BY DEF PeerReacts, Answer
  <2>2. CASE inq' = inq \o <<"KEY">> /\ peer' = [peer EXCEPT !.did = "keyed"]
    BY <1>0, <2>1, <2>2 DEF Reply, Peers
  <2>3. ASSUME NEW o \in {{}, {"KEY"}}, peer' = [peer EXCEPT !.did = "keyed", !.owes = o],
               inq' = Append(inq, "INIT")
        PROVE  Reply(Append(inq, "INIT"), "keyed", o, ctl)
    BY <1>0, <2>1, <2>3 DEF Reply, Peers
  <2>. QED BY <2>1, <2>2, <2>3
<1>3. w = "pad" =>
            \E d \in {peer.owes, peer.owes \cup {"JUNK"}} : Reply(inq, peer.did, d, ctl)
  <2>. SUFFICES ASSUME w = "pad"
               PROVE  \E d \in {peer.owes, peer.owes \cup {"JUNK"}} : Reply(inq, peer.did, d, ctl)
    OBVIOUS
  <2>1. inq' = inq /\ ctl' = ctl /\ peer' \in { peer, [peer EXCEPT !.owes = @ \cup {"JUNK"}] }
    BY DEF PeerReacts, Answer
  <2>2. peer' = peer \/ peer' = [peer EXCEPT !.owes = peer.owes \cup {"JUNK"}]
    BY <2>1
  <2>3. CASE peer' = peer
    BY <2>1, <2>3 DEF Reply
  <2>4. CASE peer' = [peer EXCEPT !.owes = peer.owes \cup {"JUNK"}]
    BY <1>0, <2>1, <2>4 DEF Reply
  <2>. QED BY <2>2, <2>3, <2>4
<1>4. w = "login" =>
            Reply(inq \o <<>>, "login", peer.owes, ctl)
  <2>. SUFFICES ASSUME w = "login"
               PROVE  Reply(inq \o <<>>, "login", peer.owes, ctl)
    OBVIOUS
  <2>1. inq' = inq \o <<>> /\ peer' = [peer EXCEPT !.did = "login"] /\ ctl' = ctl
    BY DEF PeerReacts, Answer
  <2>. QED BY <1>0, <2>1 DEF Reply, Peers
<1>5. w = "sendkey" =>
            peer.owes = {} /\ Reply(inq \o <<"RDY">>, "login", {}, ctl)
  <2>. SUFFICES ASSUME w = "sendkey"
               PROVE  peer.owes = {} /\ Reply(inq \o <<"RDY">>, "login", {}, ctl)
    OBVIOUS
  <2>1. peer.owes = {} /\ inq' = inq \o <<"RDY">> /\ peer' = [peer EXCEPT !.did = "login"] /\ ctl' = ctl
    BY DEF PeerReacts, Answer
  <2>. QED BY <1>0, <2>1 DEF Reply, Peers
<1>6. w = "random" =>
            Reply(inq \o <<"OK", "RANDOM">>, "random", peer.owes, ctl)
  <2>. SUFFICES ASSUME w = "random"
               PROVE  Reply(inq \o <<"OK", "RANDOM">>, "random", peer.owes, ctl)
    OBVIOUS
  <2>1. inq' = inq \o <<"OK", "RANDOM">> /\ peer' = [peer EXCEPT !.did = "random"] /\ ctl' = ctl
    BY DEF PeerReacts, Answer
  <2>. QED BY <1>0, <2>1 DEF Reply, Peers
<1>7. w = "ack" /\ peer.did = "random" =>
            \/ Reply(inq \o <<"MAC">>, "mac", peer.owes, ctl)
            \/ Reply(inq \o <<"HEAD">>, "parts", peer.owes, ctl)
  <2>. SUFFICES ASSUME w = "ack" /\ peer.did = "random"
               PROVE  \/ Reply(inq \o <<"MAC">>, "mac", peer.owes, ctl)
            \/ Reply(inq \o <<"HEAD">>, "parts", peer.owes, ctl)
    OBVIOUS
  <2>1. \/ inq' = inq \o <<"MAC">> /\ peer' = [peer EXCEPT !.did = "mac"] /\ ctl' = ctl
        \/ inq' = inq \o <<"HEAD">> /\ peer' = [peer EXCEPT !.did = "parts"] /\ ctl' = ctl
    BY DEF PeerReacts, Answer
  <2>2. peer' = [peer EXCEPT !.did = "mac"] => peer'.did = "mac" /\ peer'.owes = peer.owes
    BY <1>0 DEF Peers
  <2>3. peer' = [peer EXCEPT !.did = "parts"] => peer'.did = "parts" /\ peer'.owes = peer.owes
    BY <1>0 DEF Peers
  <2>. QED BY <2>1, <2>2, <2>3 DEF Reply
<1>8. w = "ack" /\ peer.did = "challenge" =>
            Reply(inq \o <<"RESPONSE">>, "response", peer.owes, ctl)
  <2>. SUFFICES ASSUME w = "ack" /\ peer.did = "challenge"
               PROVE  Reply(inq \o <<"RESPONSE">>, "response", peer.owes, ctl)
    OBVIOUS
  <2>1. inq' = inq \o <<"RESPONSE">> /\ peer' = [peer EXCEPT !.did = "response"] /\ ctl' = ctl
    BY DEF PeerReacts, Answer
  <2>. QED BY <1>0, <2>1 DEF Reply, Peers
<1>9. w = "ack" /\ peer.did = "response" =>
            Reply(inq \o <<"RDY">>, "info", peer.owes, ctl)
  <2>. SUFFICES ASSUME w = "ack" /\ peer.did = "response"
               PROVE  Reply(inq \o <<"RDY">>, "info", peer.owes, ctl)
    OBVIOUS
  <2>1. inq' = inq \o <<"RDY">> /\ peer' = [peer EXCEPT !.did = "info"] /\ ctl' = ctl
    BY DEF PeerReacts, Answer
  <2>. QED BY <1>0, <2>1 DEF Reply, Peers
<1>10. w = "ack" /\ peer.did \in {"mac", "info"} =>
            Reply(inq, peer.did, peer.owes, ctl)
  <2>. SUFFICES ASSUME w = "ack" /\ peer.did \in {"mac", "info"}
               PROVE  Reply(inq, peer.did, peer.owes, ctl)
    OBVIOUS
  <2>1. inq' = inq /\ ctl' = ctl /\ peer' = peer
    BY DEF PeerReacts, Answer
  <2>. QED BY <1>0, <2>1 DEF Reply, Peers
<1>11. w = "received" /\ peer.did = "mac" =>
            Reply(inq, peer.did, peer.owes, ctl)
  <2>. SUFFICES ASSUME w = "received" /\ peer.did = "mac"
               PROVE  Reply(inq, peer.did, peer.owes, ctl)
    OBVIOUS
  <2>1. inq' = inq /\ ctl' = ctl /\ peer' = peer
    BY DEF PeerReacts, Answer
  <2>. QED BY <1>0, <2>1 DEF Reply, Peers
<1>12. w = "ready" =>
            Reply(inq \o <<"PART", "PART">>, "mac", peer.owes, ctl)
  <2>. SUFFICES ASSUME w = "ready"
               PROVE  Reply(inq \o <<"PART", "PART">>, "mac", peer.owes, ctl)
    OBVIOUS
  <2>1. inq' = inq \o <<"PART", "PART">> /\ peer' = [peer EXCEPT !.did = "mac"] /\ ctl' = ctl
    BY DEF PeerReacts, Answer
  <2>. QED BY <1>0, <2>1 DEF Reply, Peers
<1>13. w = "sendinfo" =>
            Reply(inq \o <<"RDY">>, "info", peer.owes, ctl)
  <2>. SUFFICES ASSUME w = "sendinfo"
               PROVE  Reply(inq \o <<"RDY">>, "info", peer.owes, ctl)
    OBVIOUS
  <2>1. inq' = inq \o <<"RDY">> /\ peer' = [peer EXCEPT !.did = "info"] /\ ctl' = ctl
    BY DEF PeerReacts, Answer
  <2>. QED BY <1>0, <2>1 DEF Reply, Peers
<1>14. w = "mac" =>
            \/ Reply(inq \o <<"OK", "CHALLENGE">>, "challenge", peer.owes, ctl)
            \/ Reply(inq \o <<"OK">>, "done", peer.owes, Append(ctl, "yes"))
  <2>. SUFFICES ASSUME w = "mac"
               PROVE  \/ Reply(inq \o <<"OK", "CHALLENGE">>, "challenge", peer.owes, ctl)
            \/ Reply(inq \o <<"OK">>, "done", peer.owes, Append(ctl, "yes"))
    OBVIOUS
  <2>1. \/ inq' = inq \o <<"OK", "CHALLENGE">> /\ peer' = [peer EXCEPT !.did = "challenge"] /\ ctl' = ctl
        \/ inq' = inq \o <<"OK">> /\ peer' = [peer EXCEPT !.did = "done"] /\ ctl' = Append(ctl, "yes")
    BY DEF PeerReacts, Answer
  <2>. QED BY <1>0, <2>1 DEF Reply, Peers
<1>15. w = "again" =>
            Reply(inq \o <<"OK">>, "done", peer.owes, Append(ctl, "yes"))
  <2>. SUFFICES ASSUME w = "again"
               PROVE  Reply(inq \o <<"OK">>, "done", peer.owes, Append(ctl, "yes"))
    OBVIOUS
  <2>1. inq' = inq \o <<"OK">> /\ peer' = [peer EXCEPT !.did = "done"] /\ ctl' = Append(ctl, "yes")
    BY DEF PeerReacts, Answer
  <2>. QED BY <1>0, <2>1 DEF Reply, Peers
<1>. QED BY <1>1, <1>2, <1>3, <1>4, <1>5, <1>6, <1>7, <1>8, <1>9, <1>10, <1>11, <1>12, <1>13, <1>14, <1>15

LEMMA PeerTrack ==
    ASSUME AuthTypeOK, peer.agrees, OnTrack, PeerStep
    PROVE  OnTrack'
<1>. step \in Steps \cup Ended /\ step' = step /\ tries' = tries /\ heard' = heard
  BY DEF AuthTypeOK, PeerStep, PeerReacts, PeerDelivers
<1>0. /\ PeerReacts => out # <<>> /\ out' = Tail(out)
      /\ PeerDelivers => out' = out /\ \E x \in peer.owes :
                            Reply(Append(inq, x), peer.did, peer.owes \ {x}, ctl)
  <2>1. peer \in PeerRecords /\ \A d : [peer EXCEPT !.owes = d].did = peer.did
                                   /\ [peer EXCEPT !.owes = d].owes = d
    BY DEF AuthTypeOK, PeerRecords
  <2>. QED BY <2>1 DEF PeerReacts, PeerDelivers, Reply
<1>1. CASE step = "idle"
  BY <1>0, <1>1 DEF OnTrack, Fresh, Flow, PeerStep
<1>2. CASE step = "init"
  <2>1. /\ Head(<<"a4">>) = "a4" /\ Tail(<<"a4">>) = <<>> /\ <<"a4">> # <<>>
        /\ <<>> \o <<"INIT">> = <<"INIT">>
    BY Shapes
  <2>. QED BY <1>0, <1>2, <2>1, Reactions DEF OnTrack, AskingInit, Flow, PeerStep, Reply
<1>3. CASE step = "key"
  <2>1. /\ Head(<<"echo">>) = "echo" /\ Tail(<<"echo">>) = <<>> /\ <<"echo">> # <<>>
        /\ <<>> \o <<"KEY">> = <<"KEY">>
        /\ Append(<<>>, "INIT") = <<"INIT">>
        /\ Append(<<"INIT">>, "KEY") = <<"INIT", "KEY">>
    BY Shapes
  <2>. QED BY <1>0, <1>3, <2>1, Reactions DEF OnTrack, AskingKey, Flow, PeerStep, Reply
<1>4. CASE step = "resync"
  <2>1. /\ Append(<<>>, "KEY") = <<"KEY">>
    BY Shapes
  <2>. QED BY <1>0, <1>4, <2>1, Reactions DEF OnTrack, Resyncing, Flow, PeerStep, Reply
<1>5. CASE step = "drain"
  <2>1. /\ Head(<<"pad">>) = "pad" /\ Tail(<<"pad">>) = <<>> /\ <<"pad">> # <<>>
        /\ Append(<<>>, "JUNK") = <<"JUNK">>
    BY Shapes
  <2>. QED BY <1>0, <1>5, <2>1, Reactions DEF OnTrack, Draining, Flow, PeerStep, Reply
<1>6. CASE step = "rdy1"
  <2>1. /\ Head(<<"login", "sendkey">>) = "login" /\ Tail(<<"login", "sendkey">>) = <<"sendkey">> /\ <<"login", "sendkey">> # <<>>
        /\ Head(<<"sendkey">>) = "sendkey" /\ Tail(<<"sendkey">>) = <<>> /\ <<"sendkey">> # <<>>
        /\ <<>> \o <<>> = <<>>
        /\ <<"JUNK">> \o <<>> = <<"JUNK">>
        /\ <<>> \o <<"RDY">> = <<"RDY">>
        /\ <<"JUNK">> \o <<"RDY">> = <<"JUNK", "RDY">>
        /\ Append(<<>>, "JUNK") = <<"JUNK">>
    BY Shapes
  <2>2. Head(<<"pad", "login", "sendkey">>) = "pad"
        /\ Tail(<<"pad", "login", "sendkey">>) = <<"login", "sendkey">>
    BY Triples
  <2>. QED BY <1>0, <1>6, <2>1, <2>2, Reactions, ZenonT(60) DEF OnTrack, Announcing, Flow, PeerStep, Reply
<1>7. CASE step = "ok1"
  <2>1. /\ Head(<<"random">>) = "random" /\ Tail(<<"random">>) = <<>> /\ <<"random">> # <<>>
        /\ <<>> \o <<"OK", "RANDOM">> = <<"OK", "RANDOM">>
    BY Shapes
  <2>. QED BY <1>0, <1>7, <2>1, Reactions DEF OnTrack, SendingRandom, Flow, PeerStep, Reply
<1>8. CASE step = "random"
  <2>. QED BY <1>0, <1>8, Reactions DEF OnTrack, GettingRandom, Flow, PeerStep, Reply
<1>9. CASE step = "mac"
  <2>1. /\ Head(<<"ack">>) = "ack" /\ Tail(<<"ack">>) = <<>> /\ <<"ack">> # <<>>
        /\ <<>> \o <<"MAC">> = <<"MAC">>
        /\ <<>> \o <<"HEAD">> = <<"HEAD">>
    BY Shapes
  <2>. QED BY <1>0, <1>9, <2>1, Reactions DEF OnTrack, GettingMac, Flow, PeerStep, Reply
<1>10. CASE step = "parts"
  <2>1. /\ Head(<<"ready">>) = "ready" /\ Tail(<<"ready">>) = <<>> /\ <<"ready">> # <<>>
        /\ <<>> \o <<"PART", "PART">> = <<"PART", "PART">>
    BY Shapes
  <2>. QED BY <1>0, <1>10, <2>1, Reactions DEF OnTrack, GettingParts, Flow, PeerStep, Reply
<1>11. CASE step = "rdy2"
  <2>1. /\ Head(<<"ack", "sendinfo">>) = "ack" /\ Tail(<<"ack", "sendinfo">>) = <<"sendinfo">> /\ <<"ack", "sendinfo">> # <<>>
        /\ Head(<<"received", "sendinfo">>) = "received" /\ Tail(<<"received", "sendinfo">>) = <<"sendinfo">> /\ <<"received", "sendinfo">> # <<>>
        /\ Head(<<"sendinfo">>) = "sendinfo" /\ Tail(<<"sendinfo">>) = <<>> /\ <<"sendinfo">> # <<>>
        /\ <<>> \o <<"RDY">> = <<"RDY">>
    BY Shapes
  <2>. QED BY <1>0, <1>11, <2>1, Reactions DEF OnTrack, Verified, Flow, PeerStep, Reply
<1>12. CASE step = "ok2"
  <2>1. /\ Head(<<"mac">>) = "mac" /\ Tail(<<"mac">>) = <<>> /\ <<"mac">> # <<>>
        /\ <<>> \o <<"OK", "CHALLENGE">> = <<"OK", "CHALLENGE">>
        /\ <<>> \o <<"OK">> = <<"OK">>
        /\ Append(<<>>, "yes") = <<"yes">>
    BY Shapes
  <2>. QED BY <1>0, <1>12, <2>1, Reactions DEF OnTrack, SendingMac, Flow, PeerStep, Reply
<1>13. CASE step = "round2"
  <2>1. /\ Head(<<"ack">>) = "ack" /\ Tail(<<"ack">>) = <<>> /\ <<"ack">> # <<>>
        /\ Head(<<"ack", "ack">>) = "ack" /\ Tail(<<"ack", "ack">>) = <<"ack">> /\ <<"ack", "ack">> # <<>>
        /\ <<>> \o <<"RESPONSE">> = <<"RESPONSE">>
        /\ <<>> \o <<"RDY">> = <<"RDY">>
    BY Shapes
  <2>. QED BY <1>0, <1>13, <2>1, Reactions DEF OnTrack, Challenged, Flow, PeerStep, Reply
<1>14. CASE step = "ok3"
  <2>1. /\ Head(<<"ack", "again">>) = "ack" /\ Tail(<<"ack", "again">>) = <<"again">> /\ <<"ack", "again">> # <<>>
        /\ Head(<<"again">>) = "again" /\ Tail(<<"again">>) = <<>> /\ <<"again">> # <<>>
        /\ <<>> \o <<"OK">> = <<"OK">>
        /\ Append(<<>>, "yes") = <<"yes">>
    BY Shapes
  <2>. QED BY <1>0, <1>14, <2>1, Reactions DEF OnTrack, SendingAgain, Flow, PeerStep, Reply
<1>15. CASE step = "result"
  BY <1>0, <1>15 DEF OnTrack, Judged, PeerStep, PeerDelivers
<1>16. CASE step \in {"in", "refused"}
  BY <1>16 DEF OnTrack
<1>. QED BY <1>1, <1>2, <1>3, <1>4, <1>5, <1>6, <1>7, <1>8, <1>9, <1>10, <1>11, <1>12, <1>13, <1>14, <1>15, <1>16 DEF Steps, Ended

LEMMA AppKeeps == AppStep => peer' = peer /\ (excused => excused')
<1>. SUFFICES ASSUME AppStep PROVE peer' = peer /\ (excused => excused')
  OBVIOUS
<1>0. /\ Heard => excused' = excused
      /\ \A q : Silence(q) => excused'
      /\ SamePeer => peer' = peer
  BY DEF Heard, Silence, SamePeer
<1>1. CASE Begin \/ WaitInit \/ WaitKey \/ Resync \/ DrainAndLogin \/ WaitRdy
  BY <1>0, <1>1 DEF Begin, WaitInit, WaitKey, Resync, DrainAndLogin, WaitRdy
<1>2. CASE WaitOk \/ RecvRandom \/ RecvMac \/ RecvParts \/ WaitRdy2
  BY <1>0, <1>2 DEF WaitOk, RecvRandom, RecvMac, RecvParts, WaitRdy2, Expect
<1>3. CASE WaitOk2 \/ SecondRound \/ WaitOk3 \/ Verdict
  BY <1>0, <1>3 DEF WaitOk2, SecondRound, WaitOk3, Verdict
<1>. QED BY <1>1, <1>2, <1>3 DEF AppStep

LEMMA PeerKeeps == AuthTypeOK /\ PeerStep => peer'.agrees = peer.agrees /\ excused' = excused
<1>. SUFFICES ASSUME AuthTypeOK, PeerStep PROVE peer'.agrees = peer.agrees /\ excused' = excused
  OBVIOUS
<1>0. peer \in PeerRecords
  BY DEF AuthTypeOK, PeerRecords
<1>1. \/ peer' = peer \/ (\E d : peer' = [peer EXCEPT !.did = d])
      \/ \E d, w : peer' = [peer EXCEPT !.did = d, !.owes = w]
      \/ \E w : peer' = [peer EXCEPT !.owes = w]
  <2>1. PeerReacts => \/ peer' = peer \/ (\E d : peer' = [peer EXCEPT !.did = d])
                      \/ peer' \in { [peer EXCEPT !.did = "keyed", !.owes = o] : o \in {{}, {"KEY"}} }
                      \/ peer' \in { peer, [peer EXCEPT !.owes = @ \cup {"JUNK"}] }
    BY Zenon DEF PeerReacts, Answer
  <2>2. PeerDelivers => \E x : peer' = [peer EXCEPT !.owes = @ \ {x}]
    BY Zenon DEF PeerDelivers
  <2>3. ASSUME peer' \in { [peer EXCEPT !.did = "keyed", !.owes = o] : o \in {{}, {"KEY"}} }
        PROVE  \E d, w : peer' = [peer EXCEPT !.did = d, !.owes = w]
    BY <2>3, Zenon
  <2>4. ASSUME peer' \in { peer, [peer EXCEPT !.owes = @ \cup {"JUNK"}] }
        PROVE  peer' = peer \/ \E w : peer' = [peer EXCEPT !.owes = w]
    BY <2>4, Zenon
  <2>5. ASSUME NEW x, peer' = [peer EXCEPT !.owes = @ \ {x}]
        PROVE  \E w : peer' = [peer EXCEPT !.owes = w]
    BY <2>5, Zenon
  <2>. QED BY <2>1, <2>2, <2>3, <2>4, <2>5, Zenon DEF PeerStep
<1>2. peer'.agrees = peer.agrees
  <2>1. ASSUME NEW d, peer' = [peer EXCEPT !.did = d] PROVE peer'.agrees = peer.agrees
    BY <1>0, <2>1 DEF PeerRecords
  <2>2. ASSUME NEW d, NEW w, peer' = [peer EXCEPT !.did = d, !.owes = w]
        PROVE  peer'.agrees = peer.agrees
    BY <1>0, <2>2 DEF PeerRecords
  <2>3. ASSUME NEW w, peer' = [peer EXCEPT !.owes = w] PROVE peer'.agrees = peer.agrees
    BY <1>0, <2>3 DEF PeerRecords
  <2>. QED BY <1>1, <2>1, <2>2, <2>3
<1>. QED BY <1>2 DEF PeerStep, PeerReacts, PeerDelivers

LEMMA HandStep == HandInv /\ [Next]_sessionVars => HandInv'
<1>. SUFFICES ASSUME HandInv, [Next]_sessionVars PROVE HandInv'
  OBVIOUS
<1>. AuthTypeOK
  BY DEF HandInv
<1>1. CASE AppStep
  <2>1. AuthTypeOK'
    BY <1>1, AppTypeStep
  <2>2. ASSUME peer'.agrees, ~excused' PROVE OnTrack'
    BY <1>1, <2>2, AppKeeps, AppTrack DEF HandInv
  <2>. QED BY <2>1, <2>2 DEF HandInv
<1>2. CASE PeerStep
  <2>1. AuthTypeOK'
    BY <1>2, PeerTypeStep
  <2>2. ASSUME peer'.agrees, ~excused' PROVE OnTrack'
    BY <1>2, <2>2, PeerKeeps, PeerTrack DEF HandInv
  <2>. QED BY <2>1, <2>2 DEF HandInv
<1>3. CASE PeerMisses
  BY <1>3, PeerTypeStep DEF PeerMisses, HandInv
<1>4. CASE NextAttempt
  <2>1. AuthTypeOK'
    BY <1>4, PeerTypeStep
  <2>2. OnTrack'
    <3>1. peer'.did = "fresh" /\ peer'.owes = {}
      <4>1. PICK l \in BOOLEAN : peer' = [peer EXCEPT !.did = "fresh", !.lost = l, !.owes = {}]
        BY <1>4, Zenon DEF NextAttempt
      <4>. QED BY <4>1, FreshPeer
    <3>. QED BY <1>4, <3>1 DEF NextAttempt, OnTrack, Fresh, Flow
  <2>. QED BY <2>1, <2>2 DEF HandInv
<1>5. CASE LoggedIn
  <2>1. peer' = [peer EXCEPT !.did = "fresh", !.lost = FALSE, !.owes = {}]
    BY <1>5 DEF LoggedIn
  <2>2. peer' \in PeerRecords /\ peer'.did = "fresh" /\ peer'.owes = {}
    BY <2>1, FreshPeer
  <2>3. OnTrack'
    BY <1>5, <2>2 DEF LoggedIn, OnTrack, Fresh, Flow
  <2>4. AuthTypeOK'
    <3>1. 0 \in Rounds /\ "idle" \in Steps /\ <<>> \in Seq({"yes", "no"}) /\ 0 \in 0..Slips
      BY AuthAssumption DEF Rounds, Steps
    <3>. QED BY <1>5, <2>2, <3>1, WriteTypes DEF LoggedIn, AuthTypeOK, PeerRecords, Rounds
  <2>. QED BY <2>3, <2>4 DEF HandInv
<1>6. CASE UNCHANGED authVars
  BY <1>6 DEF authVars, HandInv, AuthTypeOK, OnTrack, Flow, Fresh, AskingInit, AskingKey,
      Resyncing, Draining, Announcing, SendingRandom, GettingRandom, GettingMac, GettingParts, Verified, SendingMac, Challenged, SendingAgain, Judged
<1>. QED BY <1>1, <1>2, <1>3, <1>4, <1>5, <1>6 DEF Next, Handshake, Linked, AuthNext, sessionVars

\* _try_authenticate, _recv_auth_response: whatever an earlier login left behind and
\* however often it is tried, a login to a charger that holds the same token is refused
\* only after an answer was lost, late or never sent.
THEOREM HandshakeTheorem == Spec => []HandshakeHolds
<1>1. Init => HandInv
  <2>. SUFFICES ASSUME AuthInit PROVE HandInv
    BY DEF Init
  <2>1. AuthTypeOK
    <3>1. 0 \in Rounds /\ "idle" \in Steps /\ <<>> \in Seq({"yes", "no"}) /\ 0 \in 0..Slips
      BY AuthAssumption DEF Rounds, Steps
    <3>2. peer \in PeerRecords
      BY DEF AuthInit, PeerRecords, Peers
    <3>. QED BY <3>1, <3>2, WriteTypes DEF AuthInit, AuthTypeOK, PeerRecords, Rounds
  <2>2. OnTrack
    BY DEF AuthInit, OnTrack, Fresh, Flow
  <2>. QED BY <2>1, <2>2 DEF HandInv
<1>2. HandInv => HandshakeHolds
  BY DEF HandInv, HandshakeHolds, RefusedForAReason, OnTrack
<1>. QED BY <1>1, <1>2, HandStep, PTL DEF Spec

-----------------------------------------------------------------------------
(* The counters. *)

N == W * HIGHS
Half(f) == f.part \in {1, 2}
\* How far counter `it` is ahead of `s`.
Off(s, it) == (it + N - s) % N

\* What is still to be decrypted, in the order in which it is taken.
Line == parts.got \o rx

InOrder(L, s, it) ==
    /\ \A i \in DOMAIN L : Off(s, L[i].it) < Off(s, it)
    /\ \A i, j \in DOMAIN L : i < j /\ ~Half(L[j]) => Off(s, L[i].it) < Off(s, L[j].it)
    /\ \A i, j \in DOMAIN L : i < j /\ L[i].part = 1 =>
            L[j].part # 1 /\ (L[j].part = 2 => j = i + 1)

\* Halves that nobody collects stand at the head of the queue.
StraysFirst(q) == \A i, j \in DOMAIN q : i < j /\ Half(q[j]) => Half(q[i])

InBoot ==
    /\ seen <= dev.it
    /\ \A j \in DOMAIN Line : seen <= Line[j].it /\ Line[j].it < dev.it
    /\ \A i \in DOMAIN saved : saved[i].it < dev.it
    /\ \A i \in DOMAIN saved, j \in DOMAIN Line : saved[i].it < Line[j].it

InStep ==
    /\ hi = seen \div W /\ last = seen % W
    /\ Off(seen, dev.it) <= W \div 2
    /\ InOrder(Line, seen, dev.it)
    /\ pc # "collect" => StraysFirst(rx)
    /\ phase = "boot" => InBoot

Opened == pc \notin {"down", "closed", "setup"}

Shape ==
    /\ pc \in {"closed", "setup", "drain", "replay"} => phase = "boot"
    /\ pc = "main" => phase = "main"
    /\ pc \in {"closed", "setup"} => saved = <<>>
    /\ pc \notin {"collect", "down"} => parts = NoParts
    /\ pc = "collect" /\ parts.for = "main" => phase = "main"
    /\ phase = "boot" => cmd.op # "set" /\ dev.it < W \div 2
    /\ pc # "down" => streak < VERIFY_FAIL_LIMIT
    /\ pc \in {"sending", "answer"} \/ (pc = "collect" /\ parts.for = "answer") => cmd.op # "none"

IsAnswer(f, v) == f.k \in {"ack", "result"} /\ f.v = v
AtHand(q, v) == \E i \in DOMAIN q : IsAnswer(q[i], v)
DoneInv ==
    /\ okd <= dev.set
    /\ dev.job.op = "set" => dev.job.v >= okd
    /\ cmd.op = "set" =>
         /\ cmd.v > okd
         /\ acked = cmd.v \/ AtHand(rx, cmd.v) =>
              dev.set = cmd.v /\ (dev.job.op = "set" => dev.job.v = cmd.v)

ChanInv == LinkTypeOK /\ Shape /\ DoneInv /\ (Opened /\ ~garbled => InStep)

-----------------------------------------------------------------------------
(* Counting in circles. *)

LEMMA ModOnce ==
    ASSUME NEW m \in Nat \ {0}, NEW z \in 0..2 * m - 1
    PROVE  z % m = IF z < m THEN z ELSE z - m
OBVIOUS

LEMMA DivUnique ==
    ASSUME NEW m \in Nat \ {0}, NEW z \in Nat
    PROVE  /\ z \div m \in Nat /\ z % m \in 0..m - 1 /\ z = m * (z \div m) + (z % m)
<1>1. z \div m \in Int /\ z % m \in 0..m - 1 /\ z = m * (z \div m) + (z % m)
  OBVIOUS
<1>2. ASSUME NEW q \in Int, NEW r \in 0..m - 1, q < 0 PROVE m * q + r < 0
  <2>1. m * q <= m * (-1)
    BY <1>2
  <2>. QED BY <2>1
<1>. QED BY <1>1, <1>2

LEMMA Circle ==
    /\ N \in Nat /\ N >= 2 * W /\ W \in Nat /\ W \div 2 \in Nat /\ W = 2 * (W \div 2) /\ W \div 2 > 1
    /\ Counters = 0..N - 1 /\ HIGHS \in Nat /\ HIGHS > 1
<1>1. W \in Nat /\ W > 2 /\ W % 2 = 0 /\ HIGHS \in Nat /\ HIGHS >= 2
  BY LinkAssumption
<1>2. N \in Nat /\ N >= 2 * W
  BY <1>1 DEF N
<1>. QED BY <1>1, <1>2 DEF Counters, N

LEMMA OffIs ==
    ASSUME NEW s \in Counters, NEW x \in Counters
    PROVE  Off(s, x) = (IF x >= s THEN x - s ELSE x + N - s) /\ Off(s, x) \in Counters
<1>. DEFINE z == x + N - s
<1>1. z \in 0..2 * N - 1 /\ N \in Nat \ {0}
  BY Circle
<1>2. z % N = IF z < N THEN z ELSE z - N
  BY <1>1, ModOnce
<1>. QED BY <1>2, Circle DEF Off

LEMMA Regroup ==
    \A a, b, t \in Seq(Frames) : (a \o b) \o t = a \o (b \o t)
<1>. SUFFICES ASSUME NEW a \in Seq(Frames), NEW b \in Seq(Frames), NEW t \in Seq(Frames)
              PROVE  (a \o b) \o t = a \o (b \o t)
  OBVIOUS
<1>. QED BY ConcatAssociative

LEMMA OffNat == \A s, x \in Counters : Off(s, x) \in Nat
BY OffIs, Circle

\* The high half that the app keeps follows the charger's.
LEMMA HighFollows ==
    ASSUME NEW x \in Counters, seen \in Counters, Off(seen, x) < W \div 2,
           hi = seen \div W, last = seen % W
    PROVE  HighAfter(x % W) = x \div W
<1>. DEFINE h == seen \div W
            g == x \div W
            l == x % W
<1>1. /\ h \in Nat /\ last \in 0..W - 1 /\ seen = W * h + last
      /\ g \in Nat /\ l \in 0..W - 1 /\ x = W * g + l
  <2>1. W \in Nat \ {0} /\ seen \in Nat /\ x \in Nat
    BY Circle
  <2>2. h \in Nat /\ seen % W \in 0..W - 1 /\ seen = W * h + (seen % W)
    BY <2>1, DivUnique
  <2>3. g \in Nat /\ l \in 0..W - 1 /\ x = W * g + l
    BY <2>1, DivUnique
  <2>. QED BY <2>2, <2>3
<1>2. N = W * HIGHS /\ seen < N /\ x < N
  BY Circle DEF N
<1>3. h < HIGHS /\ g < HIGHS
  <2>1. h >= HIGHS => W * h >= W * HIGHS
    BY <1>1, Circle
  <2>2. g >= HIGHS => W * g >= W * HIGHS
    BY <1>1, Circle
  <2>. QED BY <2>1, <2>2, <1>1, <1>2, Circle
<1>4. HighAfter(l) = IF l < last /\ last - l > W \div 2 THEN (h + 1) % HIGHS ELSE h
  BY DEF HighAfter
<1>5. \A k \in Int : (k >= 2 => W * k >= 2 * W) /\ (k <= -1 => W * k <= -W)
                    /\ (k = 1 => W * k = W) /\ (k = 0 => W * k = 0)
  BY Circle
<1>6. CASE x >= seen
  <2>0. W * (g - h) = W * g - W * h
    BY <1>1, Circle
  <2>1. W * (g - h) + l - last < W \div 2 /\ W * (g - h) + l - last >= 0
    <3>1. x - seen < W \div 2
      BY <1>6, OffIs
    <3>. QED BY <2>0, <3>1, <1>1, <1>6, Circle
  <2>2. g - h \in {0, 1}
    BY <2>1, <1>1, <1>5, Circle
  <2>3. CASE g = h
    BY <2>1, <2>3, <1>1, <1>4, <1>5, Circle
  <2>4. CASE g = h + 1
    <3>1. W + l - last < W \div 2
      BY <2>1, <2>4, <1>1, <1>5
    <3>2. (h + 1) % HIGHS = h + 1
      BY <2>4, <1>1, <1>3, Circle
    <3>. QED BY <2>4, <3>1, <3>2, <1>1, <1>4, Circle
  <2>. QED BY <2>2, <2>3, <2>4, <1>1
<1>7. CASE x < seen
  <2>0. W * (g + HIGHS - h) = W * g + W * HIGHS - W * h
    BY <1>1, Circle
  <2>1. W * (g + HIGHS - h) + l - last < W \div 2 /\ W * (g + HIGHS - h) + l - last >= 0
    <3>1. x + N - seen < W \div 2
      BY <1>7, OffIs, Circle
    <3>. QED BY <2>0, <3>1, <1>1, <1>2, <1>7, Circle
  <2>2. g + HIGHS - h \in {0, 1}
    BY <2>1, <1>1, <1>5, Circle
  <2>3. g = 0 /\ h = HIGHS - 1 /\ W * (g + HIGHS - h) = W
    BY <2>2, <1>1, <1>3, <1>5, Circle
  <2>4. (h + 1) % HIGHS = 0
    BY <2>3, Circle
  <2>. QED BY <2>1, <2>3, <2>4, <1>1, <1>4, Circle
<1>. QED BY <1>6, <1>7, Circle

-----------------------------------------------------------------------------
(* Types of the channel. *)

DevRecords == [it : Counters, val : 0..MaxVal, set : 0..MaxSet, job : Cmds, pushes : 0..PushMax]

LEMMA FrameFacts ==
    /\ \A f \in Frames :
         /\ f.k \in {"push", "get", "ack", "result"} /\ f.it \in Counters /\ f.part \in 0..3
         /\ f.k \in {"push", "get"} => f.v \in 0..MaxVal
         /\ f.k \in {"ack", "result"} => f.v \in 1..MaxSet /\ f.part = 0
    /\ \A f \in Frames, p \in {1, 2} : f.part = 3 =>
         /\ [f EXCEPT !.part = p] \in Frames /\ [f EXCEPT !.part = p].it = f.it
         /\ [f EXCEPT !.part = p].part = p /\ [f EXCEPT !.part = p].k = f.k
<1>1. \A f \in Frames :
         /\ f.k \in {"push", "get", "ack", "result"} /\ f.it \in Counters /\ f.part \in 0..3
         /\ f.k \in {"push", "get"} => f.v \in 0..MaxVal
         /\ f.k \in {"ack", "result"} => f.v \in 1..MaxSet /\ f.part = 0
  BY DEF Frames
<1>2. ASSUME NEW f \in Frames, NEW p \in {1, 2}, f.part = 3
      PROVE  /\ [f EXCEPT !.part = p] \in Frames /\ [f EXCEPT !.part = p].it = f.it
             /\ [f EXCEPT !.part = p].part = p /\ [f EXCEPT !.part = p].k = f.k
  <2>1. f \in [k : {"push", "get"}, it : Counters, v : 0..MaxVal, part : 0..3]
    BY <1>2 DEF Frames
  <2>. QED BY <2>1 DEF Frames
<1>. QED BY <1>1, <1>2

LEMMA HalvesFacts ==
    ASSUME NEW f \in Frames, f.part = 3
    PROVE  /\ Halves(f) \in Seq(Frames) /\ Len(Halves(f)) = 2
           /\ \A i \in 1..2 : /\ Halves(f)[i].it = f.it /\ Halves(f)[i].part = i
                              /\ Halves(f)[i].k \in {"push", "get"}
<1>1. f.k \in {"push", "get"}
  BY FrameFacts
<1>2. [f EXCEPT !.part = 1] \in Frames /\ [f EXCEPT !.part = 2] \in Frames
  BY FrameFacts
<1>3. Halves(f) \in Seq(Frames) /\ Len(Halves(f)) = 2
  BY <1>2 DEF Halves
<1>4. Halves(f)[1] = [f EXCEPT !.part = 1] /\ Halves(f)[2] = [f EXCEPT !.part = 2]
  BY DEF Halves
<1>5. ASSUME NEW p \in {1, 2}, NEW h, h = [f EXCEPT !.part = p]
      PROVE  h.it = f.it /\ h.part = p /\ h.k \in {"push", "get"}
  BY <1>1, <1>5, FrameFacts
<1>. QED BY <1>3, <1>4, <1>5

LEMMA QueueFacts ==
    ASSUME NEW S, NEW q \in Seq(S)
    PROVE  /\ \A x \in S : Append(q, x) \in Seq(S)
           /\ q # <<>> => Head(q) \in S /\ Tail(q) \in Seq(S)
           /\ \A i \in DOMAIN q : q[i] \in S
           /\ \A r \in Seq(S) : q \o r \in Seq(S)
           /\ <<>> \in Seq(S)
           /\ \A i \in 1..Len(q) : SubSeq(q, 1, i - 1) \o SubSeq(q, i + 1, Len(q)) \in Seq(S)
OBVIOUS

LEMMA CmdFacts ==
    /\ NoCmd \in Cmds /\ [op |-> "get", v |-> 0] \in Cmds
    /\ \A v \in 1..MaxSet : [op |-> "set", v |-> v] \in Cmds
    /\ \A c \in Cmds : /\ c.op \in {"none", "get", "set"} /\ c.v \in Nat
                       /\ c.op = "set" => c.v \in 1..MaxSet
                       /\ c # NoCmd => c.op # "none"
    /\ NoCmd.op = "none"
<1>1. NoCmd \in Cmds /\ [op |-> "get", v |-> 0] \in Cmds /\ NoCmd.op = "none"
  BY DEF NoCmd, Cmds
<1>2. \A v \in 1..MaxSet : [op |-> "set", v |-> v] \in Cmds
  BY DEF Cmds
<1>3. ASSUME NEW c \in Cmds
      PROVE  /\ c.op \in {"none", "get", "set"} /\ c.v \in Nat
             /\ c.op = "set" => c.v \in 1..MaxSet
             /\ c # NoCmd => c.op # "none"
  <2>1. c = NoCmd \/ c = [op |-> "get", v |-> 0] \/ \E v \in 1..MaxSet : c = [op |-> "set", v |-> v]
    BY DEF Cmds, NoCmd
  <2>2. ASSUME NEW v \in 1..MaxSet, c = [op |-> "set", v |-> v] PROVE c.op = "set" /\ c.v \in 1..MaxSet
    BY <2>2
  <2>. QED BY <2>1, <2>2 DEF NoCmd
<1>. QED BY <1>1, <1>2, <1>3

LEMMA DevFacts ==
    ASSUME LinkTypeOK
    PROVE  /\ dev \in DevRecords
           /\ \A c \in Cmds : [dev EXCEPT !.job = c] \in DevRecords
           /\ [dev EXCEPT !.pushes = 0] \in DevRecords
           /\ dev.val < MaxVal => [dev EXCEPT !.val = @ + 1] \in DevRecords
           /\ \A x \in Counters : [dev EXCEPT !.job = NoCmd, !.it = x] \in DevRecords
           /\ \A x \in Counters, v \in 0..MaxSet : [dev EXCEPT !.job = NoCmd, !.it = x, !.set = v] \in DevRecords
           /\ \A x \in Counters : dev.pushes < PushMax => [dev EXCEPT !.it = x, !.pushes = @ + 1] \in DevRecords
           /\ \A x \in Counters : [dev EXCEPT !.it = x, !.job = NoCmd, !.pushes = 0] \in DevRecords
           /\ Next1(dev.it) \in Counters
<1>1. dev \in DevRecords
  BY DEF LinkTypeOK, DevRecords
<1>2. NoCmd \in Cmds /\ 0 \in 0..PushMax /\ MaxVal \in Nat /\ PushMax \in Nat
  BY CmdFacts, LinkAssumption
<1>3. Next1(dev.it) \in Counters
  BY <1>1, Circle DEF Next1, DevRecords, N
<1>4. dev.val < MaxVal => [dev EXCEPT !.val = @ + 1] \in DevRecords
  BY <1>1, <1>2 DEF DevRecords
<1>5. \A x \in Counters : dev.pushes < PushMax => [dev EXCEPT !.it = x, !.pushes = @ + 1] \in DevRecords
  <2>. SUFFICES ASSUME NEW x \in Counters, dev.pushes < PushMax
                PROVE  [dev EXCEPT !.it = x, !.pushes = @ + 1] \in DevRecords
    OBVIOUS
  <2>1. dev.pushes + 1 \in 0..PushMax
    BY <1>1, <1>2 DEF DevRecords
  <2>. QED BY <1>1, <2>1 DEF DevRecords
<1>6. /\ \A c \in Cmds : [dev EXCEPT !.job = c] \in DevRecords
      /\ [dev EXCEPT !.pushes = 0] \in DevRecords
      /\ \A x \in Counters : [dev EXCEPT !.job = NoCmd, !.it = x] \in DevRecords
  BY <1>1, <1>2 DEF DevRecords
<1>7. /\ \A x \in Counters, v \in 0..MaxSet : [dev EXCEPT !.job = NoCmd, !.it = x, !.set = v] \in DevRecords
      /\ \A x \in Counters : [dev EXCEPT !.it = x, !.job = NoCmd, !.pushes = 0] \in DevRecords
  BY <1>1, <1>2 DEF DevRecords
<1>. QED BY <1>1, <1>3, <1>4, <1>5, <1>6, <1>7

CallTyped ==
    /\ cmd' \in Cmds /\ acked' \in 0..MaxSet /\ pc' \in Pcs /\ okd' \in 0..MaxSet
    /\ streak' \in 0..VERIFY_FAIL_LIMIT /\ shown' \in 0..MaxVal
CountTyped == hi' \in 0..HIGHS - 1 /\ last' \in 0..W - 1 /\ seen' \in Counters /\ garbled' \in BOOLEAN
QueueTyped == rx' \in Seq(Frames) /\ parts' \in [for : {"main", "answer"}, got : Seq(Frames)]
RestTyped ==
    /\ phase' \in {"boot", "main"} /\ dev' \in DevRecords /\ failures' \in 0..DECRYPT_FAIL_LIMIT
    /\ saved' \in Seq(Frames) /\ faults' \in 0..Faults

LEMMA Pieces ==
    ASSUME LinkTypeOK
    PROVE  /\ \A v \in 0..MaxVal, own \in BOOLEAN : Answered(v, own) => CallTyped
           /\ streak < VERIFY_FAIL_LIMIT /\ Unanswered => CallTyped
           /\ \A f \in Frames : InWindow(f) => CallTyped
           /\ Ignored => CallTyped
           /\ \A f \in Frames, whole \in BOOLEAN, first \in BOOLEAN, good \in BOOLEAN : Decrypt(f, whole, first, good) => CountTyped
           /\ Skip => CountTyped
           /\ \A good \in BOOLEAN, f \in Frames, next \in Pcs : Process(good, f, next) =>
                failures' \in 0..DECRYPT_FAIL_LIMIT /\ pc' \in Pcs /\ shown' \in 0..MaxVal
<1>0. /\ 0 \in 0..MaxVal /\ 0 \in 0..VERIFY_FAIL_LIMIT /\ 0 \in 0..MaxSet
      /\ {"down", "main", "replay", "answer"} \subseteq Pcs
      /\ cmd \in Cmds /\ acked \in 0..MaxSet /\ pc \in Pcs /\ okd \in 0..MaxSet
      /\ streak \in 0..VERIFY_FAIL_LIMIT /\ shown \in 0..MaxVal
  BY LinkAssumption DEF LinkTypeOK, Pcs
<1>1. ASSUME NEW v \in 0..MaxVal, NEW own \in BOOLEAN, Answered(v, own) PROVE CallTyped
  <2>1. cmd.op = "set" => cmd.v \in 0..MaxSet
    BY <1>0, CmdFacts
  <2>. QED BY <1>0, <1>1, <2>1, CmdFacts DEF Answered, CallTyped
<1>2. streak < VERIFY_FAIL_LIMIT /\ Unanswered => CallTyped
  BY <1>0, CmdFacts, LinkAssumption DEF Unanswered, GiveUp, CallTyped
<1>3. ASSUME NEW f \in Frames, InWindow(f) PROVE CallTyped
  <2>1. f.k = "get" \/ f.k = "push" => f.v \in 0..MaxVal
    BY FrameFacts
  <2>2. f.k = "ack" => f.v \in 0..MaxSet
    BY FrameFacts
  <2>3. CASE f.k = "get" /\ Answered(f.v, TRUE)
    BY <1>1, <2>1, <2>3
  <2>4. CASE Answered(0, f.v = cmd.v)
    BY <1>0, <1>1, <2>4
  <2>. QED BY <1>0, <1>3, <2>1, <2>2, <2>3, <2>4 DEF InWindow, CallTyped
<1>4. Ignored => CallTyped
  BY <1>0 DEF Ignored, CallTyped
<1>5. \A lo \in 0..W - 1 : HighAfter(lo) \in 0..HIGHS - 1
  <2>1. hi \in 0..HIGHS - 1 /\ (hi + 1) % HIGHS \in 0..HIGHS - 1
    <3>1. hi \in 0..HIGHS - 1 /\ HIGHS \in Nat \ {0}
      BY Circle DEF LinkTypeOK
    <3>2. hi + 1 \in Nat
      BY <3>1
    <3>. QED BY <3>1, <3>2, DivUnique
  <2>. QED BY <2>1 DEF HighAfter
<1>6. ASSUME NEW f \in Frames, NEW whole \in BOOLEAN, NEW first \in BOOLEAN, NEW good \in BOOLEAN,
             Decrypt(f, whole, first, good)
      PROVE  CountTyped
  <2>1. f.it \in Counters /\ f.it % W \in 0..W - 1
    <3>1. f.it \in Counters
      BY FrameFacts
    <3>2. f.it \in Nat /\ W \in Nat \ {0}
      BY <3>1, Circle
    <3>. QED BY <3>1, <3>2, DivUnique
  <2>2. PICK lo \in 0..W - 1 : hi' = HighAfter(lo) /\ last' = lo
    BY <1>6, <2>1 DEF Decrypt
  <2>3. seen' \in Counters
    BY <1>6, <2>1 DEF Decrypt, LinkTypeOK
  <2>4. garbled' \in BOOLEAN
    BY <1>6, Zenon DEF Decrypt
  <2>. QED BY <1>5, <2>2, <2>3, <2>4 DEF CountTyped
<1>7. Skip => CountTyped
  BY DEF Skip, CountTyped, LinkTypeOK
<1>8. ASSUME NEW good \in BOOLEAN, NEW f \in Frames, NEW next \in Pcs, Process(good, f, next)
      PROVE failures' \in 0..DECRYPT_FAIL_LIMIT /\ pc' \in Pcs /\ shown' \in 0..MaxVal
  <2>1. f.k = "push" => f.v \in 0..MaxVal
    BY FrameFacts
  <2>2. failures \in 0..DECRYPT_FAIL_LIMIT /\ DECRYPT_FAIL_LIMIT \in Nat
    BY LinkAssumption DEF LinkTypeOK
  <2>. QED BY <1>0, <1>8, <2>1, <2>2 DEF Process, OneMore, GiveUp
<1>. QED BY <1>1, <1>2, <1>3, <1>4, <1>6, <1>7, <1>8

\* The four ways a wait inside a command's window can go.
Answering(good) ==
    /\ rx # <<>> /\ rx' = Tail(rx) /\ Head(rx).part = 0 /\ UNCHANGED <<parts, faults>>
    /\ Decrypt(Head(rx), TRUE, TRUE, good)
    /\ IF good THEN InWindow(Head(rx)) ELSE Ignored
Skipping ==
    /\ rx # <<>> /\ rx' = Tail(rx) /\ Head(rx).part \in {1, 2} /\ UNCHANGED <<parts, faults>>
    /\ Ignored /\ Skip
Header ==
    /\ rx # <<>> /\ Head(rx).part = 3 /\ rx' = Tail(rx) \o Halves(Head(rx))
    /\ parts' = [for |-> "answer", got |-> <<>>] /\ pc' = "collect"
    /\ Skip /\ UNCHANGED <<cmd, acked, streak, shown, okd, faults>>
TimedOut == NoAnswer(rx) /\ Skip /\ UNCHANGED <<rx, parts>> /\ Late

LEMMA WaitCases ==
    ASSUME LinkTypeOK, WaitAnswer
    PROVE  /\ pc = "answer" /\ UNCHANGED <<phase, dev, failures, saved>>
           /\ (\E good \in BOOLEAN : Answering(good)) \/ Skipping \/ Header \/ TimedOut
<1>1. pc = "answer" /\ UNCHANGED <<phase, dev, failures, saved>>
  BY DEF WaitAnswer
<1>2. CASE \E f \in {Head(rx) : i \in DOMAIN rx} :
            /\ rx' = Tail(rx) /\ f.part # 3 /\ UNCHANGED <<parts, faults>>
            /\ \/ \E good \in BOOLEAN : /\ f.part = 0 /\ Decrypt(f, TRUE, TRUE, good)
                                        /\ IF good THEN InWindow(f) ELSE Ignored
               \/ f.part # 0 /\ Ignored /\ Skip
  <2>1. PICK f \in {Head(rx) : i \in DOMAIN rx} :
            /\ rx' = Tail(rx) /\ f.part # 3 /\ UNCHANGED <<parts, faults>>
            /\ \/ \E good \in BOOLEAN : /\ f.part = 0 /\ Decrypt(f, TRUE, TRUE, good)
                                        /\ IF good THEN InWindow(f) ELSE Ignored
               \/ f.part # 0 /\ Ignored /\ Skip
    BY <1>2
  <2>2. f = Head(rx) /\ rx # <<>>
    <3>1. f = Head(rx) /\ DOMAIN rx # {}
      BY <2>1, Zenon
    <3>2. DOMAIN <<>> = {}
      OBVIOUS
    <3>. QED BY <3>1, <3>2, Zenon
  <2>3. Head(rx).part \in 0..3
    BY <2>2, QueueFacts, FrameFacts DEF LinkTypeOK
  <2>4. CASE Head(rx).part # 0 /\ Ignored /\ Skip
    BY <1>1, <2>1, <2>2, <2>3, <2>4 DEF Skipping
  <2>5. ASSUME NEW good \in BOOLEAN, Head(rx).part = 0, Decrypt(Head(rx), TRUE, TRUE, good),
               IF good THEN InWindow(Head(rx)) ELSE Ignored
        PROVE  Answering(good)
    BY <2>1, <2>2, <2>5 DEF Answering
  <2>6. \/ \E good \in BOOLEAN : /\ Head(rx).part = 0 /\ Decrypt(Head(rx), TRUE, TRUE, good)
                                 /\ IF good THEN InWindow(Head(rx)) ELSE Ignored
        \/ Head(rx).part # 0 /\ Ignored /\ Skip
    BY <2>1, <2>2
  <2>. QED BY <1>1, <2>4, <2>5, <2>6
<1>3. CASE Header \/ TimedOut
  BY <1>1, <1>3
<1>. QED BY <1>1, <1>2, <1>3 DEF WaitAnswer, Header, TimedOut

\* The end of a multi-frame payload that is decrypted.
Gathered(good) ==
    /\ parts.got # <<>>
    /\ LET g == parts.got IN
       \/ /\ Len(g) = 2 /\ parts.for = "main" /\ Decrypt(g[1], Complete(g), g[1].part = 1, good)
          /\ Process(good, g[1], "main") /\ UNCHANGED <<cmd, acked, streak, okd>>
       \/ /\ parts.for = "answer" /\ Decrypt(g[1], Complete(g), g[1].part = 1, good)
          /\ (IF good THEN InWindow(g[1]) ELSE Ignored) /\ UNCHANGED failures

LEMMA CollectedCases ==
    ASSUME LinkTypeOK, Collected
    PROVE  /\ pc = "collect" /\ parts' = NoParts /\ UNCHANGED <<phase, rx, dev, saved>>
           /\ Len(parts.got) = 2 \/ rx = <<>>
           /\ \/ \E good \in BOOLEAN : Gathered(good)
              \/ rx = <<>> /\ pc' = parts.for /\ Skip /\ UNCHANGED <<cmd, acked, streak, shown, okd, failures>>
<1>1. /\ pc = "collect" /\ parts' = NoParts /\ UNCHANGED <<phase, rx, dev, saved>>
      /\ Len(parts.got) = 2 \/ rx = <<>>
  BY DEF Collected
<1>2. parts.got \in Seq(Frames)
  BY DEF LinkTypeOK
<1>3. Len(parts.got) = 2 => parts.got # <<>>
  BY <1>2
<1>4. Len(parts.got) = 1 \/ parts.got = <<>> => rx = <<>>
  BY <1>1, <1>2
<1>. QED BY <1>1, <1>3, <1>4 DEF Collected, Gathered

\* What the charger sends is a complete payload or a header, under its counter.
LEMMA Sent ==
    ASSUME LinkTypeOK, ChargerAnswers \/ ChargerPushes
    PROVE  \E f \in Frames : rx' = Append(rx, f) /\ f.it = dev.it /\ f.part \in {0, 3}
                            /\ (f.k \in {"ack", "result"} => dev.job.op = "set" /\ f.v = dev.job.v)
<1>1. /\ dev.it \in Counters /\ dev.val \in 0..MaxVal /\ dev.job \in Cmds
      /\ dev.job.op = "set" => dev.job.v \in 1..MaxSet
  BY CmdFacts DEF LinkTypeOK
<1>2. \A k \in {"push", "get"}, p \in {0, 3} : Frame(k, dev.val, p) \in Frames
  BY <1>1 DEF Frame, Frames
<1>3. dev.job.op = "set" => \A k \in {"ack", "result"} : Frame(k, dev.job.v, 0) \in Frames
  BY <1>1 DEF Frame, Frames
<1>4. \A k, v, p : Frame(k, v, p).k = k /\ Frame(k, v, p).it = dev.it /\ Frame(k, v, p).part = p
                  /\ Frame(k, v, p).v = v
  BY DEF Frame
<1>. QED BY <1>2, <1>3, <1>4 DEF ChargerAnswers, ChargerPushes

LEMMA LinkTypeStep == LinkTypeOK /\ Shape /\ (Close \/ Connect \/ LinkStep) => LinkTypeOK'
<1>. SUFFICES ASSUME LinkTypeOK, Shape, Close \/ Connect \/ LinkStep PROVE LinkTypeOK'
  OBVIOUS
<1>0. CallTyped /\ CountTyped /\ QueueTyped /\ RestTyped => LinkTypeOK'
  BY DEF CallTyped, CountTyped, QueueTyped, RestTyped, LinkTypeOK, DevRecords
<1>. USE DEF CallTyped, CountTyped, QueueTyped, RestTyped
<1>2. /\ pc \in Pcs /\ phase \in {"boot", "main"} /\ cmd \in Cmds /\ acked \in 0..MaxSet
      /\ parts \in [for : {"main", "answer"}, got : Seq(Frames)] /\ rx \in Seq(Frames)
      /\ dev \in DevRecords
      /\ hi \in 0..HIGHS - 1 /\ last \in 0..W - 1
      /\ failures \in 0..DECRYPT_FAIL_LIMIT /\ streak \in 0..VERIFY_FAIL_LIMIT
      /\ saved \in Seq(Frames) /\ shown \in 0..MaxVal
      /\ okd \in 0..MaxSet /\ faults \in 0..Faults
      /\ seen \in Counters /\ garbled \in BOOLEAN
  BY DEF LinkTypeOK, DevRecords
<1>3. /\ 0 \in 0..MaxSet /\ 0 \in 0..VERIFY_FAIL_LIMIT /\ 0 \in 0..HIGHS - 1 /\ 0 \in 0..W - 1 /\ 0 \in Counters
      /\ pc # "down" => streak < VERIFY_FAIL_LIMIT
      /\ NoParts \in [for : {"main", "answer"}, got : Seq(Frames)]
      /\ [for |-> "answer", got |-> <<>>] \in [for : {"main", "answer"}, got : Seq(Frames)]
      /\ faults < Faults => faults + 1 \in 0..Faults
      /\ \A p \in Pcs : p = "closed" \/ TRUE
      /\ <<>> \in Seq(Frames)
  BY <1>2, Circle, LinkAssumption DEF Shape, NoParts
<1>4. {"down", "closed", "setup", "drain", "replay", "main", "sending", "answer", "collect"} = Pcs
  BY DEF Pcs
<1>5. Skip => CountTyped
  BY Pieces
<1>6. \A q : NoAnswer(q) => faults' \in 0..Faults
  BY <1>2, <1>3 DEF NoAnswer
<1>7. \A f \in Frames : f.part = 3 => Halves(f) \in Seq(Frames) /\ (rx = <<>> \/ Tail(rx) \o Halves(f) \in Seq(Frames))
  BY <1>2, HalvesFacts, QueueFacts
<1>8. rx # <<>> => Head(rx) \in Frames /\ Tail(rx) \in Seq(Frames)
  BY <1>2, QueueFacts
<1>9. ASSUME NEW c \in Cmds, Send(c)
      PROVE  cmd' \in Cmds /\ acked' \in 0..MaxSet /\ pc' \in Pcs /\ CountTyped /\ rx' \in Seq(Frames) /\ dev' \in DevRecords
  <2>1. rx' \in Seq(Frames)
    <3>1. \A i \in DOMAIN rx : rx[i] \in Frames
      BY <1>2, QueueFacts
    <3>2. ASSUME NEW i \in DOMAIN rx, rx[i].part = 3 PROVE Halves(rx[i]) \in Seq(Frames)
      BY <3>1, <3>2, HalvesFacts
    <3>3. \/ rx' = <<>>
          \/ \E i \in DOMAIN rx : rx[i].part = 3 /\ rx' = Halves(rx[i])
      BY <1>2, <1>9 DEF Send
    <3>. QED BY <1>3, <3>2, <3>3
  <2>. QED BY <1>9, <2>1, <1>3, <1>4, <1>5, DevFacts DEF Send
<1>11. CASE Poll \/ Set \/ ReadInitialSettings
  <2>1. \E c \in Cmds : Send(c)
    BY <1>11, CmdFacts DEF Poll, Set, ReadInitialSettings
  <2>2. UNCHANGED <<phase, parts, failures, streak, saved, shown, okd, faults>>
    BY <1>11 DEF Poll, Set, ReadInitialSettings
  <2>. QED BY <1>0, <1>2, <1>9, <2>1, <2>2
<1>12. CASE SendEncrypted
  <2>1. Unanswered => CallTyped
    BY <1>3, <1>12, Pieces DEF SendEncrypted
  <2>2. CallTyped
    BY <1>2, <1>4, <1>12, <2>1 DEF SendEncrypted
  <2>3. dev' \in DevRecords
    BY <1>2, <1>12, DevFacts DEF SendEncrypted
  <2>4. faults' \in 0..Faults
    BY <1>2, <1>3, <1>12 DEF SendEncrypted
  <2>. QED BY <1>0, <1>2, <1>5, <1>12, <2>2, <2>3, <2>4 DEF SendEncrypted
<1>13. CASE WaitAnswer
  <2>0. UNCHANGED <<phase, dev, failures, saved>>
    BY <1>13 DEF WaitAnswer
  <2>1. ASSUME NEW good \in BOOLEAN, Answering(good) \/ Skipping
        PROVE LinkTypeOK'
    <3>1. CallTyped
      BY <1>8, <2>1, Pieces DEF Answering, Skipping
    <3>2. CountTyped
      BY <1>8, <2>1, Pieces DEF Answering, Skipping
    <3>. QED BY <1>0, <1>2, <1>8, <2>0, <2>1, <3>1, <3>2 DEF Answering, Skipping
  <2>2. CASE Header
    BY <1>0, <1>2, <1>3, <1>4, <1>5, <1>7, <1>8, <2>0, <2>2 DEF Header
  <2>3. CASE TimedOut
    <3>1. CallTyped
      <4>1. \A own \in BOOLEAN : Answered(0, own) => CallTyped
        BY Pieces, LinkAssumption
      <4>2. Unanswered => CallTyped
        BY <1>3, <1>13, Pieces DEF WaitAnswer
      <4>. QED BY <2>3, <4>1, <4>2 DEF TimedOut, Late
    <3>. QED BY <1>0, <1>2, <1>5, <1>6, <2>0, <2>3, <3>1 DEF TimedOut
  <2>. QED BY <1>13, <2>1, <2>2, <2>3, WaitCases
<1>14. CASE TakeFrame
  <2>1. PICK good \in BOOLEAN : Decrypt(Head(rx), Head(rx).part = 0, Head(rx).part = 0, good)
                              /\ Process(good, Head(rx), "main")
    BY <1>14 DEF TakeFrame
  <2>2. CountTyped /\ failures' \in 0..DECRYPT_FAIL_LIMIT /\ pc' \in Pcs /\ shown' \in 0..MaxVal
    BY <1>4, <1>8, <1>14, <2>1, Pieces DEF TakeFrame
  <2>. QED BY <1>0, <1>2, <1>8, <1>14, <2>2 DEF TakeFrame
<1>15. CASE TakeHeader
  BY <1>0, <1>2, <1>3, <1>4, <1>5, <1>7, <1>8, <1>15 DEF TakeHeader
<1>16. CASE Collect
  <2>1. parts' \in [for : {"main", "answer"}, got : Seq(Frames)]
    <3>1. Append(parts.got, Head(rx)) \in Seq(Frames)
      BY <1>2, <1>8, <1>16, QueueFacts DEF Collect
    <3>. QED BY <1>2, <1>16, <3>1 DEF Collect
  <2>. QED BY <1>0, <1>2, <1>5, <1>8, <1>16, <2>1 DEF Collect
<1>17. CASE Collected
  <2>1. /\ UNCHANGED <<phase, rx, dev, saved>> /\ parts' = NoParts /\ faults' \in 0..Faults
        /\ parts.for \in {"main", "answer"} /\ parts.got \in Seq(Frames)
        /\ parts.got # <<>> => parts.got[1] \in Frames
    BY <1>2, <1>6, <1>17 DEF Collected
  <2>2. ASSUME NEW good \in BOOLEAN, Gathered(good) PROVE LinkTypeOK'
    <3>1. CountTyped /\ CallTyped
      <4>1. Complete(parts.got) \in BOOLEAN /\ (parts.got[1].part = 1) \in BOOLEAN
        BY DEF Complete
      <4>2. parts.got[1] \in Frames /\ Decrypt(parts.got[1], Complete(parts.got), parts.got[1].part = 1, good)
        BY <2>1, <2>2 DEF Gathered
      <4>3. CountTyped
        BY <4>1, <4>2, Pieces
      <4>4. CASE parts.for = "main"
        <5>1. Process(good, parts.got[1], "main") /\ UNCHANGED <<cmd, acked, streak, okd>> /\ "main" \in Pcs
          BY <1>4, <2>2, <4>4 DEF Gathered
        <5>2. pc' \in Pcs /\ shown' \in 0..MaxVal
          BY <4>2, <5>1, Pieces
        <5>. QED BY <1>2, <4>3, <5>1, <5>2
      <4>5. CASE parts.for = "answer"
        <5>1. IF good THEN InWindow(parts.got[1]) ELSE Ignored
          BY <2>2, <4>5 DEF Gathered
        <5>2. CallTyped
          BY <4>2, <5>1, Pieces
        <5>. QED BY <4>3, <5>2
      <4>. QED BY <2>1, <4>3, <4>4, <4>5
    <3>2. failures' \in 0..DECRYPT_FAIL_LIMIT
      BY <1>2, <1>4, <2>1, <2>2, Pieces DEF Gathered
    <3>. QED BY <1>0, <1>2, <1>3, <2>1, <3>1, <3>2
  <2>3. ASSUME pc' = parts.for, Skip, UNCHANGED <<cmd, acked, streak, shown, okd, failures>>
        PROVE  LinkTypeOK'
    BY <1>0, <1>2, <1>3, <1>4, <1>5, <2>1, <2>3
  <2>. QED BY <1>17, <2>2, <2>3, CollectedCases
<1>18. CASE Close \/ Connect \/ SetupCmdChannel
  <2>1. dev' \in DevRecords
    <3>1. CASE Close
      <4>1. dev' = [dev EXCEPT !.it = 0, !.job = NoCmd, !.pushes = 0] /\ 0 \in Counters
        BY <3>1, Circle DEF Close
      <4>. QED BY <4>1, DevFacts, Zenon
    <3>2. CASE Connect \/ SetupCmdChannel
      BY <3>2, DevFacts DEF Connect, SetupCmdChannel
    <3>. QED BY <1>18, <3>1, <3>2
  <2>2. CASE Close
    BY <1>0, <1>2, <1>3, <1>4, <2>1, <2>2, CmdFacts DEF Close
  <2>3. CASE Connect
    BY <1>0, <1>2, <1>3, <1>4, <2>1, <2>3 DEF Connect
  <2>4. CASE SetupCmdChannel
    BY <1>0, <1>2, <1>3, <1>4, <2>1, <2>4 DEF SetupCmdChannel
  <2>. QED BY <1>18, <2>2, <2>3, <2>4
<1>19. CASE SaveInitPush
  <2>1. saved' \in Seq(Frames)
    BY <1>2, <1>8, <1>19, QueueFacts DEF SaveInitPush
  <2>. QED BY <1>0, <1>2, <1>5, <1>8, <1>19, <2>1 DEF SaveInitPush
<1>20. CASE Replay
  <2>1. saved # <<>> => Head(saved) \in Frames /\ Tail(saved) \in Seq(Frames)
    BY <1>2, QueueFacts
  <2>2. CASE saved = <<>>
    BY <1>0, <1>2, <1>4, <1>5, <1>20, <2>2 DEF Replay
  <2>3. CASE saved # <<>>
    <3>1. PICK good \in BOOLEAN : Decrypt(Head(saved), TRUE, TRUE, good)
                                /\ Process(good, Head(saved), "replay")
      BY <1>20, <2>3 DEF Replay
    <3>2. CountTyped /\ failures' \in 0..DECRYPT_FAIL_LIMIT /\ pc' \in Pcs /\ shown' \in 0..MaxVal
      BY <1>4, <2>1, <2>3, <3>1, Pieces
    <3>. QED BY <1>0, <1>2, <1>20, <2>1, <2>3, <3>2 DEF Replay
  <2>. QED BY <2>2, <2>3
<1>21. CASE ChargerAnswers \/ ChargerPushes
  <2>1. rx' \in Seq(Frames)
    <3>1. \A f \in Frames : Append(rx, f) \in Seq(Frames)
      BY <1>2, QueueFacts
    <3>. QED BY <1>21, <3>1, Sent
  <2>2. dev' \in DevRecords
    <3>1. dev.it \in Counters /\ dev.job \in Cmds
      BY <1>2 DEF DevRecords
    <3>2. dev.job.op = "set" => dev.job.v \in 0..MaxSet
      BY <3>1, CmdFacts
    <3>3. CASE ChargerPushes
      BY <3>3, DevFacts DEF ChargerPushes
    <3>4. CASE ChargerAnswers
      <4>1. Next1(dev.it) \in Counters /\ NoCmd \in Cmds
        BY DevFacts, CmdFacts
      <4>2. [dev EXCEPT !.job = NoCmd, !.it = Next1(@)] \in DevRecords
        BY <4>1, DevFacts
      <4>3. dev.job.op = "set" =>
              [dev EXCEPT !.job = NoCmd, !.it = Next1(@), !.set = dev.job.v] \in DevRecords
        BY <3>2, <4>1, DevFacts
      <4>. QED BY <3>4, <4>2, <4>3 DEF ChargerAnswers
    <3>. QED BY <1>21, <3>3, <3>4
  <2>. QED BY <1>0, <1>2, <1>21, <2>1, <2>2 DEF ChargerAnswers, ChargerPushes, AppIdle
<1>22. CASE ChargerChanges
  <2>1. dev' \in DevRecords
    BY <1>22, DevFacts DEF ChargerChanges
  <2>. QED BY <1>0, <1>2, <1>22, <2>1 DEF ChargerChanges, AppIdle
<1>23. CASE Lose
  <2>1. rx' \in Seq(Frames)
    BY <1>2, <1>23, QueueFacts DEF Lose
  <2>. QED BY <1>0, <1>2, <1>3, <1>23, <2>1 DEF Lose, AppIdle
<1>24. CASE LinkLost
  BY <1>0, <1>2, <1>3, <1>4, <1>24 DEF LinkLost, GiveUp
<1>. QED BY <1>11, <1>12, <1>13, <1>14, <1>15, <1>16, <1>17, <1>18, <1>19, <1>20, <1>21, <1>22, <1>23, <1>24
    DEF LinkStep, Open, Loop, Window

\* What one answer, one unanswered command and one processed payload do to Shape.
LEMMA ShapePieces ==
    ASSUME LinkTypeOK, Shape
    PROVE  /\ \A v, own : cmd.op # "none" /\ Answered(v, own) =>
                /\ streak' < VERIFY_FAIL_LIMIT \/ streak' = streak
                /\ cmd'.op = "none" /\ pc' = IF phase = "boot" THEN "replay" ELSE "main"
           /\ streak < VERIFY_FAIL_LIMIT /\ Unanswered =>
                /\ cmd'.op = "none" /\ (pc' # "down" => streak' < VERIFY_FAIL_LIMIT)
                /\ pc' \in {"down", IF phase = "boot" THEN "replay" ELSE "main"}
           /\ \A good, f, next : Process(good, f, next) => pc' \in {"down", next}
<1>1. NoCmd.op = "none" /\ VERIFY_FAIL_LIMIT \in Nat \ {0} /\ streak \in Nat /\ phase \in {"boot", "main"}
  BY LinkAssumption DEF LinkTypeOK, NoCmd
<1>2. phase = "boot" => cmd.op # "set"
  BY DEF Shape
<1>. QED BY <1>1, <1>2 DEF Answered, Unanswered, Process, GiveUp

LEMMA Around ==
    ASSUME NEW s \in Counters, NEW x \in Counters, NEW n \in Nat, Off(s, x) + n < N
    PROVE  (x + n + N - s) % N = Off(s, x) + n
<1>. DEFINE o == Off(s, x)
            z == x + n + N - s
<1>1. o = (IF x >= s THEN x - s ELSE x + N - s) /\ o \in Counters
  BY OffIs
<1>2. s \in 0..N - 1 /\ x \in 0..N - 1 /\ N \in Nat \ {0}
  BY Circle
<1>. HIDE DEF o
<1>3. o \in 0..N - 1 /\ o + n < N
  BY <1>1, <1>2, Circle DEF o
<1>4. z = (IF x >= s THEN N + o + n ELSE o + n) /\ z \in 0..2 * N - 1
  BY <1>1, <1>2, <1>3
<1>. HIDE DEF z
<1>5. z % N = IF z < N THEN z ELSE z - N
  BY <1>2, <1>4, ModOnce
<1>6. z % N = o + n
  BY <1>2, <1>3, <1>4, <1>5
<1>. QED BY <1>6 DEF o, z

\* The next counter, and how far it is from the last one decrypted.
LEMMA NextIs ==
    ASSUME NEW x \in Counters
    PROVE  Next1(x) = (IF x + 1 < N THEN x + 1 ELSE 0) /\ Next1(x) \in Counters
<1>. DEFINE z == x + 1
<1>1. z \in 0..2 * N - 1 /\ N \in Nat \ {0}
  BY Circle
<1>2. z % N = IF z < N THEN z ELSE z - N
  BY <1>1, ModOnce
<1>. QED BY <1>2, Circle DEF Next1, N

LEMMA ChargerMoves ==
    ASSUME LinkTypeOK, ChargerAnswers \/ ChargerPushes
    PROVE  /\ AppIdle /\ dev'.it = Next1(dev.it)
           /\ Off(seen, dev.it) <= W \div 2 => Off(seen, dev.it) < W \div 2
           /\ phase = "boot" => dev.it + 1 < W \div 2
<1>1. dev \in DevRecords /\ dev.it \in Counters /\ seen \in Counters
  BY DEF LinkTypeOK, DevRecords
<1>2. /\ [dev EXCEPT !.job = NoCmd, !.it = Next1(@)].it = Next1(dev.it)
      /\ \A v : [dev EXCEPT !.job = NoCmd, !.it = Next1(@), !.set = v].it = Next1(dev.it)
      /\ [dev EXCEPT !.it = Next1(@), !.pushes = @ + 1].it = Next1(dev.it)
  BY <1>1 DEF DevRecords
<1>3. AppIdle /\ dev'.it = Next1(dev.it) /\ (Room(0) \/ Room(2))
  BY <1>2 DEF ChargerAnswers, ChargerPushes
<1>4. phase = "boot" => dev.it + 1 < W \div 2
  BY <1>1, <1>3, Circle DEF Room
<1>5. ASSUME NEW n \in {0, 2}, Room(n), Off(seen, dev.it) <= W \div 2
      PROVE  Off(seen, dev.it) < W \div 2
  <2>1. (dev.it + n + N - seen) % N < W \div 2
    BY <1>5 DEF Room, N
  <2>2. /\ n \in 0..2 /\ Off(seen, dev.it) \in Counters
        /\ Off(seen, dev.it) = IF dev.it >= seen THEN dev.it - seen ELSE dev.it + N - seen
    BY <1>1, OffIs
  <2>3. Off(seen, dev.it) + n < N
    BY <1>5, <2>2, Circle
  <2>4. (dev.it + n + N - seen) % N = Off(seen, dev.it) + n
    BY <1>1, <2>2, <2>3, Around
  <2>. QED BY <2>1, <2>2, <2>4, Circle
<1>. QED BY <1>3, <1>4, <1>5

LEMMA ShapeStep == LinkTypeOK /\ Shape /\ (Close \/ Connect \/ LinkStep) => Shape'
<1>. SUFFICES ASSUME LinkTypeOK, Shape, Close \/ Connect \/ LinkStep PROVE Shape'
  OBVIOUS
<1>1. /\ VERIFY_FAIL_LIMIT \in Nat \ {0} /\ streak \in Nat /\ phase \in {"boot", "main"} /\ dev.it \in Counters
      /\ NoCmd.op = "none" /\ NoParts.for = "main" /\ parts.for \in {"main", "answer"}
      /\ dev \in DevRecords /\ W \div 2 > 1
  BY Circle, LinkAssumption DEF LinkTypeOK, NoCmd, NoParts, DevRecords
<1>2. (\A c \in Cmds : [dev EXCEPT !.job = c].it = dev.it) /\ [dev EXCEPT !.pushes = 0].it = dev.it
      /\ [dev EXCEPT !.val = @ + 1].it = dev.it
  BY <1>1 DEF DevRecords
<1>3. ASSUME UNCHANGED <<phase, dev, saved>>,
             parts' = NoParts,
             pc' \in {"down", "answer"} \/ pc' = IF phase = "boot" THEN "replay" ELSE "main",
             pc' # "down" => streak' < VERIFY_FAIL_LIMIT,
             cmd' = cmd \/ cmd'.op = "none",
             pc' = "answer" => cmd'.op # "none"
      PROVE  Shape'
  BY <1>1, <1>3 DEF Shape
<1>11. CASE Poll \/ Set
  <2>1. pc = "main" /\ pc' = "sending" /\ cmd'.op # "none" /\ dev'.it = dev.it
        /\ UNCHANGED <<phase, parts, streak, saved>>
    <3>1. CASE Poll
      BY <1>2, <3>1 DEF Poll, Send
    <3>2. CASE Set
      <4>1. PICK v \in 1..MaxSet : Send([op |-> "set", v |-> v])
        BY <3>2 DEF Set
      <4>2. cmd'.op = "set" /\ pc' = "sending" /\ dev'.it = dev.it
        BY <1>2, <4>1 DEF Send
      <4>. QED BY <3>2, <4>2 DEF Set
    <3>. QED BY <1>11, <3>1, <3>2
  <2>. QED BY <1>1, <2>1 DEF Shape
<1>12. CASE ReadInitialSettings
  <2>1. pc = "drain" /\ pc' = "sending" /\ cmd'.op = "get" /\ dev'.it = dev.it
        /\ UNCHANGED <<phase, parts, streak, saved>>
    BY <1>2, <1>12 DEF ReadInitialSettings, Send
  <2>. QED BY <1>1, <2>1 DEF Shape
<1>13. CASE SendEncrypted
  <2>1. pc = "sending" /\ dev'.it = dev.it /\ UNCHANGED <<phase, parts, saved>>
    BY <1>2, <1>13 DEF SendEncrypted, LinkTypeOK
  <2>2. CASE Unanswered
    BY <1>1, <2>1, <2>2, ShapePieces DEF Shape
  <2>3. CASE pc' = "answer" /\ UNCHANGED <<cmd, streak>>
    BY <1>1, <2>1, <2>3 DEF Shape
  <2>. QED BY <1>13, <2>2, <2>3 DEF SendEncrypted
<1>14. ASSUME NEW f \in Frames, InWindow(f) \/ Ignored,
              UNCHANGED <<phase, dev, saved>>, parts' = NoParts, cmd.op # "none", pc # "down"
       PROVE  Shape'
  <2>1. CASE \E v, own : Answered(v, own)
    BY <1>1, <1>3, <1>14, <2>1, ShapePieces DEF Shape
  <2>2. CASE pc' = "answer" /\ UNCHANGED <<cmd, streak>>
    BY <1>1, <1>3, <1>14, <2>2 DEF Shape
  <2>. QED BY <1>14, <2>1, <2>2 DEF InWindow, Ignored
<1>15. CASE WaitAnswer
  <2>1. /\ pc = "answer" /\ UNCHANGED <<phase, dev, saved>> /\ parts = NoParts /\ cmd.op # "none"
        /\ rx # <<>> => Head(rx) \in Frames
    BY <1>15, QueueFacts DEF WaitAnswer, Shape, LinkTypeOK
  <2>2. ASSUME NEW good \in BOOLEAN, Answering(good) \/ Skipping PROVE Shape'
    BY <1>14, <2>1, <2>2 DEF Answering, Skipping
  <2>3. CASE Header
    BY <1>1, <2>1, <2>3 DEF Header, Shape
  <2>4. CASE TimedOut
    <3>1. CASE \E v, own : Answered(v, own)
      BY <1>1, <1>3, <2>1, <2>4, <3>1, ShapePieces DEF Shape, TimedOut
    <3>2. CASE Unanswered
      BY <1>1, <1>3, <2>1, <2>4, <3>2, ShapePieces DEF Shape, TimedOut
    <3>. QED BY <2>4, <3>1, <3>2 DEF TimedOut, Late
  <2>. QED BY <1>15, <2>2, <2>3, <2>4, WaitCases
<1>16. CASE TakeFrame
  <2>1. pc = "main" /\ pc' \in {"down", "main"} /\ UNCHANGED <<phase, cmd, parts, dev, streak, saved>>
    BY <1>16, ShapePieces DEF TakeFrame
  <2>. QED BY <1>1, <2>1 DEF Shape
<1>17. CASE TakeHeader
  <2>1. pc = "main" /\ pc' = "collect" /\ parts'.for = "main" /\ UNCHANGED <<phase, cmd, dev, streak, saved>>
    BY <1>1, <1>17 DEF TakeHeader
  <2>. QED BY <1>1, <2>1 DEF Shape
<1>18. CASE Collect
  <2>1. pc = "collect" /\ parts'.for = parts.for /\ UNCHANGED <<pc, phase, cmd, dev, streak, saved>>
    BY <1>18 DEF Collect, LinkTypeOK
  <2>. QED BY <1>1, <2>1 DEF Shape
<1>19. CASE Collected
  <2>1. /\ pc = "collect" /\ parts' = NoParts /\ UNCHANGED <<phase, dev, saved>>
        /\ parts.got # <<>> => parts.got[1] \in Frames
        /\ parts.for = "main" => phase = "main"
        /\ parts.for = "answer" => cmd.op # "none"
    BY <1>19 DEF Collected, LinkTypeOK, Shape
  <2>2. ASSUME NEW good \in BOOLEAN, Gathered(good) PROVE Shape'
    <3>1. CASE parts.for = "main"
      <4>1. Process(good, parts.got[1], "main") /\ UNCHANGED <<cmd, streak>>
        BY <2>2, <3>1 DEF Gathered
      <4>2. pc' \in {"down", "main"}
        BY <4>1, ShapePieces
      <4>. QED BY <1>1, <1>3, <2>1, <3>1, <4>1, <4>2 DEF Shape
    <3>2. CASE parts.for = "answer"
      BY <1>14, <2>1, <2>2, <3>2 DEF Gathered
    <3>. QED BY <1>1, <3>1, <3>2
  <2>3. ASSUME pc' = parts.for, UNCHANGED <<cmd, streak>> PROVE Shape'
    BY <1>1, <1>3, <2>1, <2>3 DEF Shape
  <2>. QED BY <1>19, <2>2, <2>3, CollectedCases
<1>20. CASE Close
  <2>1. [dev EXCEPT !.it = 0, !.job = NoCmd, !.pushes = 0].it = 0
    BY <1>1 DEF DevRecords
  <2>2. dev'.it = 0 /\ cmd'.op = "none" /\ streak' = 0 /\ phase' = "boot" /\ pc' = "closed" /\ saved' = <<>>
        /\ parts' = NoParts
    BY <1>1, <1>20, <2>1 DEF Close
  <2>3. 0 < W \div 2 /\ streak' < VERIFY_FAIL_LIMIT
    BY <1>1, <2>2, Circle
  <2>. QED BY <2>2, <2>3 DEF Shape
<1>21. CASE Connect \/ SetupCmdChannel \/ SaveInitPush
  BY <1>1, <1>21 DEF Connect, SetupCmdChannel, SaveInitPush, Shape
<1>22. CASE Replay
  <2>1. UNCHANGED <<cmd, parts, dev, streak>> /\ pc = "replay"
    BY <1>22 DEF Replay
  <2>2. \/ pc' \in {"down", "replay"} /\ phase' = phase
        \/ pc' = "main" /\ phase' = "main"
    BY <1>22, ShapePieces DEF Replay
  <2>. QED BY <1>1, <2>1, <2>2 DEF Shape
<1>23. CASE ChargerAnswers \/ ChargerPushes
  <2>1. AppIdle /\ dev'.it = Next1(dev.it) /\ (phase = "boot" => dev.it + 1 < W \div 2)
    BY <1>23, ChargerMoves
  <2>2. dev.it + 1 < W \div 2 => Next1(dev.it) = dev.it + 1
    BY <1>1, NextIs, Circle
  <2>. QED BY <1>1, <2>1, <2>2 DEF AppIdle, Shape
<1>24. CASE ChargerChanges \/ Lose
  <2>1. AppIdle /\ dev'.it = dev.it
    BY <1>2, <1>24 DEF ChargerChanges, Lose
  <2>. QED BY <1>1, <2>1 DEF AppIdle, Shape
<1>25. CASE LinkLost
  BY <1>1, <1>25 DEF LinkLost, GiveUp, Shape
<1>. QED BY <1>11, <1>12, <1>13, <1>15, <1>16, <1>17, <1>18, <1>19, <1>20, <1>21, <1>22, <1>23, <1>24, <1>25
    DEF LinkStep, Open, Loop, Window

-----------------------------------------------------------------------------
(* Commands and their answers. *)

LEMMA NothingNew ==
    ASSUME NEW q \in Seq(Frames), NEW v
    PROVE  /\ q # <<>> => (AtHand(Tail(q), v) => AtHand(q, v)) /\ (IsAnswer(Head(q), v) => AtHand(q, v))
           /\ q # <<>> /\ Head(q).part = 3 => (AtHand(Tail(q) \o Halves(Head(q)), v) => AtHand(q, v))
           /\ \A i \in DOMAIN q : q[i].part = 3 => ~AtHand(Halves(q[i]), v)
           /\ ~AtHand(<<>>, v)
           /\ \A i \in 1..Len(q) : AtHand(SubSeq(q, 1, i - 1) \o SubSeq(q, i + 1, Len(q)), v) => AtHand(q, v)
           /\ \A f \in Frames : AtHand(Append(q, f), v) => AtHand(q, v) \/ IsAnswer(f, v)
<1>1. ASSUME q # <<>> PROVE /\ AtHand(Tail(q), v) => AtHand(q, v)
                            /\ IsAnswer(Head(q), v) => AtHand(q, v)
  BY <1>1 DEF AtHand
<1>2. ASSUME NEW f \in Frames, f.part = 3 PROVE ~AtHand(Halves(f), v)
  <2>1. Len(Halves(f)) = 2 /\ Halves(f) \in Seq(Frames)
        /\ \A i \in 1..2 : Halves(f)[i].k \in {"push", "get"}
    BY <1>2, HalvesFacts
  <2>. QED BY <2>1 DEF AtHand, IsAnswer
<1>3. ASSUME NEW r \in Seq(Frames), NEW s \in Seq(Frames), AtHand(r \o s, v)
      PROVE  AtHand(r, v) \/ AtHand(s, v)
  <2>1. PICK i \in 1..Len(r) + Len(s) : IsAnswer((r \o s)[i], v)
    BY <1>3 DEF AtHand
  <2>2. CASE i <= Len(r)
    BY <2>1, <2>2 DEF AtHand
  <2>3. CASE i > Len(r)
    <3>1. i - Len(r) \in 1..Len(s) /\ (r \o s)[i] = s[i - Len(r)]
      BY <2>1, <2>3
    <3>. QED BY <2>1, <3>1 DEF AtHand
  <2>. QED BY <2>2, <2>3
<1>4. ASSUME q # <<>>, Head(q).part = 3, AtHand(Tail(q) \o Halves(Head(q)), v) PROVE AtHand(q, v)
  <2>1. Head(q) \in Frames /\ Tail(q) \in Seq(Frames)
    BY <1>4, QueueFacts
  <2>2. Halves(Head(q)) \in Seq(Frames)
    BY <1>4, <2>1, HalvesFacts
  <2>3. AtHand(Tail(q), v) \/ AtHand(Halves(Head(q)), v)
    BY <1>3, <1>4, <2>1, <2>2
  <2>. QED BY <1>1, <1>2, <1>4, <2>1, <2>3
<1>5. ASSUME NEW i \in 1..Len(q), AtHand(SubSeq(q, 1, i - 1) \o SubSeq(q, i + 1, Len(q)), v)
      PROVE  AtHand(q, v)
  <2>1. SubSeq(q, 1, i - 1) \in Seq(Frames) /\ SubSeq(q, i + 1, Len(q)) \in Seq(Frames)
    OBVIOUS
  <2>2. CASE AtHand(SubSeq(q, 1, i - 1), v)
    BY <2>2 DEF AtHand
  <2>3. CASE AtHand(SubSeq(q, i + 1, Len(q)), v)
    <3>1. PICK j \in 1..Len(q) - i : IsAnswer(SubSeq(q, i + 1, Len(q))[j], v)
      BY <2>3 DEF AtHand
    <3>2. SubSeq(q, i + 1, Len(q))[j] = q[j + i] /\ j + i \in 1..Len(q)
      BY <3>1
    <3>. QED BY <3>1, <3>2 DEF AtHand
  <2>. QED BY <1>3, <1>5, <2>1, <2>2, <2>3
<1>6. ASSUME NEW f \in Frames, AtHand(Append(q, f), v) PROVE AtHand(q, v) \/ IsAnswer(f, v)
  BY <1>6 DEF AtHand
<1>7. ~AtHand(<<>>, v)
  BY DEF AtHand
<1>. QED BY <1>1, <1>2, <1>4, <1>5, <1>6, <1>7, QueueFacts

LEMMA QueueKeeps ==
    ASSUME LinkTypeOK, LinkStep, NEW v
    PROVE  ChargerAnswers \/ (AtHand(rx', v) => AtHand(rx, v))
<1>0. rx \in Seq(Frames)
  BY DEF LinkTypeOK
<1>1. CASE ReadInitialSettings \/ Poll \/ Set
  <2>1. PICK c \in Cmds : Send(c)
    BY <1>1, CmdFacts DEF ReadInitialSettings, Poll, Set
  <2>2. \/ rx' = <<>>
        \/ \E i \in 1..Len(rx) : rx[i].part = 3 /\ rx' = Halves(rx[i])
    BY <2>1 DEF Send
  <2>. QED BY <1>0, <2>2, NothingNew
<1>2. CASE SetupCmdChannel
  BY <1>0, <1>2, NothingNew DEF SetupCmdChannel
<1>3. CASE SaveInitPush \/ TakeFrame \/ Collect
  BY <1>0, <1>3, NothingNew DEF SaveInitPush, TakeFrame, Collect
<1>4. CASE TakeHeader
  BY <1>0, <1>4, NothingNew DEF TakeHeader
<1>5. CASE WaitAnswer
  BY <1>0, <1>5, WaitCases, NothingNew DEF Answering, Skipping, Header, TimedOut
<1>6. CASE ChargerPushes
  <2>1. PICK f \in Frames : rx' = Append(rx, f) /\ f.k = "push"
    <3>1. \E f \in Frames : rx' = Append(rx, f)
      BY <1>6, Sent
    <3>2. Frame("push", dev.val, 0) \in Frames /\ Frame("push", dev.val, 0).k = "push"
      BY DEF Frame, Frames, LinkTypeOK
    <3>. QED BY <1>6, <3>2 DEF ChargerPushes
  <2>. QED BY <1>0, <2>1, NothingNew DEF IsAnswer
<1>7. CASE Lose
  BY <1>0, <1>7, NothingNew DEF Lose
<1>8. CASE Replay \/ Collected \/ SendEncrypted \/ ChargerChanges \/ LinkLost
  BY <1>8 DEF Replay, Collected, SendEncrypted, ChargerChanges, LinkLost
<1>. QED BY <1>1, <1>2, <1>3, <1>4, <1>5, <1>6, <1>7, <1>8
    DEF LinkStep, Open, Loop, Window

LEMMA DoneStep == LinkTypeOK /\ Shape /\ DoneInv /\ (Close \/ Connect \/ LinkStep) => DoneInv'
<1>. SUFFICES ASSUME LinkTypeOK, Shape, DoneInv, Close \/ Connect \/ LinkStep PROVE DoneInv'
  OBVIOUS
<1>1. /\ dev \in DevRecords /\ okd \in Nat /\ acked \in Nat /\ cmd \in Cmds /\ cmd.v \in Nat /\ rx \in Seq(Frames)
      /\ dev.set \in Nat /\ dev.job \in Cmds /\ dev.job.v \in Nat /\ NoCmd.op = "none" /\ (cmd.op = "set" => cmd.v # 0)
      /\ dev.job.op = "set" => dev.job.v \in 0..MaxSet
  <2>1. dev \in DevRecords /\ okd \in Nat /\ acked \in Nat /\ cmd \in Cmds /\ rx \in Seq(Frames)
    BY LinkAssumption DEF LinkTypeOK, DevRecords
  <2>2. dev.set \in Nat /\ dev.job \in Cmds
    BY <2>1, LinkAssumption DEF DevRecords
  <2>. QED BY <2>1, <2>2, CmdFacts
<1>2. /\ \A c \in Cmds : [dev EXCEPT !.job = c].set = dev.set /\ [dev EXCEPT !.job = c].job = c
      /\ [dev EXCEPT !.pushes = 0].set = dev.set /\ [dev EXCEPT !.pushes = 0].job = dev.job
  BY <1>1 DEF DevRecords
<1>3. ASSUME dev'.set = dev.set, dev'.job = dev.job \/ dev'.job = NoCmd, okd' = okd, cmd' = cmd \/ cmd' = NoCmd,
             acked' = acked \/ acked' = 0, \A v : AtHand(rx', v) => AtHand(rx, v)
      PROVE  DoneInv'
  BY <1>1, <1>3 DEF DoneInv
\* What the end of a wait does: rx holds no answer it did not hold before.
<1>4. ASSUME UNCHANGED dev, \A v : AtHand(rx', v) => AtHand(rx, v),
             \/ Unanswered
             \/ \E v, own : Answered(v, own) /\ (cmd.op = "set" /\ own = TRUE => acked = cmd.v \/ AtHand(rx, cmd.v))
                            /\ own \in BOOLEAN
             \/ UNCHANGED <<cmd, okd>> /\ (acked' = acked \/ AtHand(rx, acked'))
      PROVE  DoneInv'
  <2>1. CASE Unanswered
    BY <1>1, <1>3, <1>4, <2>1 DEF Unanswered
  <2>2. ASSUME NEW v, NEW own \in BOOLEAN, Answered(v, own),
               cmd.op = "set" /\ own = TRUE => acked = cmd.v \/ AtHand(rx, cmd.v)
        PROVE  DoneInv'
    <3>1. cmd' = NoCmd /\ acked' = 0 /\ (okd' = okd \/ (cmd.op = "set" /\ own = TRUE /\ okd' = cmd.v))
      BY <2>2, Zenon DEF Answered
    <3>2. CASE okd' = okd
      BY <1>1, <1>3, <1>4, <3>1, <3>2
    <3>3. CASE cmd.op = "set" /\ own = TRUE /\ okd' = cmd.v
      <4>1. dev.set = cmd.v /\ (dev.job.op = "set" => dev.job.v = cmd.v)
        BY <2>2, <3>3 DEF DoneInv
      <4>. QED BY <1>1, <1>4, <3>1, <3>3, <4>1 DEF DoneInv
    <3>. QED BY <3>1, <3>2, <3>3
  <2>3. CASE UNCHANGED <<cmd, okd>> /\ (acked' = acked \/ AtHand(rx, acked'))
    BY <1>1, <1>4, <2>3 DEF DoneInv
  <2>. QED BY <1>4, <2>1, <2>2, <2>3
<1>5. ASSUME NEW f \in Frames, InWindow(f) \/ Ignored, UNCHANGED dev, \A v : AtHand(rx', v) => AtHand(rx, v),
             f.k \in {"ack", "result"} => AtHand(rx, f.v)
      PROVE  DoneInv'
  <2>1. CASE \E v : Answered(v, TRUE) /\ cmd.op = "get"
    BY <1>4, <1>5, <2>1
  <2>2. CASE f.k = "result" /\ Answered(0, f.v = cmd.v)
    <3>1. (f.v = cmd.v) \in BOOLEAN /\ ((f.v = cmd.v) = TRUE => AtHand(rx, cmd.v))
      BY <1>5, <2>2
    <3>. QED BY <1>4, <1>5, <2>2, <3>1
  <2>3. CASE f.k = "ack" /\ acked' = f.v /\ UNCHANGED <<cmd, okd>>
    BY <1>4, <1>5, <2>3
  <2>4. CASE UNCHANGED <<cmd, acked, okd>>
    BY <1>4, <1>5, <2>4
  <2>. QED BY <1>5, <2>1, <2>2, <2>3, <2>4 DEF InWindow, Ignored
<1>11. ASSUME NEW c \in Cmds, Send(c), UNCHANGED okd, c.op = "set" => c.v > okd PROVE DoneInv'
  <2>1. \A v : ~AtHand(rx', v)
    <3>1. \/ rx' = <<>>
          \/ \E i \in 1..Len(rx) : rx[i].part = 3 /\ rx' = Halves(rx[i])
      BY <1>11 DEF Send
    <3>2. rx \in Seq(Frames) /\ DOMAIN rx = 1..Len(rx)
      BY <1>1
    <3>. QED BY <3>1, <3>2, NothingNew
  <2>2. cmd' = c /\ acked' = 0 /\ dev'.set = dev.set /\ dev'.job = dev.job
    BY <1>2, <1>11 DEF Send
  <2>3. c.op = "set" => c.v # 0
    BY <1>1, <1>11, CmdFacts
  <2>. QED BY <1>1, <1>11, <2>1, <2>2, <2>3 DEF DoneInv
<1>12. CASE Poll \/ Set \/ ReadInitialSettings
  <2>1. CASE Poll \/ ReadInitialSettings
    BY <1>11, <2>1, CmdFacts DEF Poll, ReadInitialSettings
  <2>2. CASE Set
    <3>1. PICK v \in 1..MaxSet : v > okd /\ Send([op |-> "set", v |-> v])
      BY <2>2 DEF Set
    <3>. QED BY <1>11, <2>2, <3>1, CmdFacts DEF Set
  <2>. QED BY <1>12, <2>1, <2>2
<1>13. CASE SendEncrypted
  <2>1. /\ UNCHANGED <<okd, rx>> /\ dev'.set = dev.set
        /\ UNCHANGED <<cmd, acked>> \/ (cmd' = NoCmd /\ acked' = 0)
        /\ dev'.job = dev.job \/ dev'.job = cmd
    BY <1>1, <1>2, <1>13 DEF SendEncrypted, Unanswered
  <2>. QED BY <1>1, <2>1 DEF DoneInv
<1>14. CASE WaitAnswer
  <2>1. \A v : AtHand(rx', v) => AtHand(rx, v)
    BY <1>1, <1>14, WaitCases, NothingNew DEF Answering, Skipping, Header, TimedOut
  <2>2. UNCHANGED dev
    BY <1>14 DEF WaitAnswer
  <2>3. ASSUME NEW good \in BOOLEAN, Answering(good) PROVE DoneInv'
    <3>1. Head(rx) \in Frames /\ (InWindow(Head(rx)) \/ Ignored) /\ rx # <<>>
      BY <1>1, <2>3, QueueFacts DEF Answering
    <3>2. Head(rx).k \in {"ack", "result"} => AtHand(rx, Head(rx).v)
      BY <1>1, <3>1, NothingNew DEF IsAnswer
    <3>. QED BY <1>5, <2>1, <2>2, <3>1, <3>2
  <2>4. CASE Skipping \/ Header
    BY <1>4, <2>1, <2>2, <2>4 DEF Skipping, Header, Ignored
  <2>5. CASE TimedOut
    <3>1. CASE Unanswered
      BY <1>4, <2>1, <2>2, <3>1
    <3>2. CASE Answered(0, acked = cmd.v)
      <4>1. (acked = cmd.v) \in BOOLEAN /\ ((acked = cmd.v) = TRUE => acked = cmd.v)
        OBVIOUS
      <4>. QED BY <1>4, <2>1, <2>2, <3>2, <4>1
    <3>. QED BY <2>5, <3>1, <3>2 DEF TimedOut, Late
  <2>. QED BY <1>14, <2>3, <2>4, <2>5, WaitCases
<1>15. CASE Collected
  <2>1. UNCHANGED <<rx, dev>> /\ parts.got \in Seq(Frames) /\ (parts.got # <<>> => parts.got[1] \in Frames)
    BY <1>15 DEF Collected, LinkTypeOK
  <2>2. ASSUME NEW good \in BOOLEAN, Gathered(good) PROVE DoneInv'
    <3>1. CASE parts.for = "main"
      BY <1>4, <2>1, <2>2, <3>1 DEF Gathered
    <3>2. CASE parts.for = "answer"
      <4>1. parts.got # <<>> /\ (IF good THEN InWindow(parts.got[1]) ELSE Ignored)
            /\ Decrypt(parts.got[1], Complete(parts.got), parts.got[1].part = 1, good)
        BY <2>2, <3>2 DEF Gathered
      <4>2. good => parts.got[1].k \notin {"ack", "result"}
        <5>1. good => Complete(parts.got)
          BY <4>1 DEF Decrypt
        <5>2. Complete(parts.got) => parts.got[1].part = 1
          BY DEF Complete
        <5>. QED BY <2>1, <4>1, <5>1, <5>2, FrameFacts
      <4>3. CASE good
        BY <1>5, <2>1, <4>1, <4>2, <4>3
      <4>4. CASE ~good
        BY <1>4, <2>1, <4>1, <4>4 DEF Ignored
      <4>. QED BY <4>3, <4>4
    <3>. QED BY <2>2, <3>1, <3>2 DEF Gathered
  <2>. QED BY <1>4, <1>15, <2>1, <2>2, CollectedCases
<1>16. CASE TakeFrame \/ TakeHeader \/ Collect
  <2>1. UNCHANGED <<cmd, acked, okd, dev>>
    BY <1>16 DEF TakeFrame, TakeHeader, Collect
  <2>2. \A v : AtHand(rx', v) => AtHand(rx, v)
    BY <1>1, <1>16, NothingNew DEF TakeFrame, TakeHeader, Collect
  <2>. QED BY <1>4, <2>1, <2>2
<1>17. CASE SaveInitPush \/ Replay \/ SetupCmdChannel
  <2>1. UNCHANGED <<cmd, acked, okd, dev>>
    BY <1>17 DEF SaveInitPush, Replay, SetupCmdChannel
  <2>2. \A v : AtHand(rx', v) => AtHand(rx, v)
    BY <1>1, <1>17, NothingNew DEF SaveInitPush, Replay, SetupCmdChannel
  <2>. QED BY <1>4, <2>1, <2>2
<1>18. CASE Close
  <2>1. dev'.set = dev.set /\ dev'.job = NoCmd
    BY <1>1, <1>18, CmdFacts DEF Close, DevRecords
  <2>2. \A v : ~AtHand(rx', v)
    BY <1>1, <1>18, NothingNew DEF Close
  <2>3. okd' = okd /\ cmd' = NoCmd /\ acked' = 0
    BY <1>18 DEF Close
  <2>. QED BY <1>3, <2>1, <2>2, <2>3
<1>19. CASE Connect \/ LinkLost
  BY <1>4, <1>19 DEF Connect, LinkLost
<1>20. CASE ChargerChanges \/ Lose
  <2>1. dev'.set = dev.set /\ dev'.job = dev.job /\ UNCHANGED <<cmd, acked, okd>>
    BY <1>1, <1>20 DEF ChargerChanges, Lose, AppIdle, DevRecords
  <2>2. \A v : AtHand(rx', v) => AtHand(rx, v)
    BY <1>1, <1>20, NothingNew DEF ChargerChanges, Lose
  <2>. QED BY <1>3, <2>1, <2>2
<1>21. CASE ChargerPushes
  <2>1. dev'.set = dev.set /\ dev'.job = dev.job /\ UNCHANGED <<cmd, acked, okd>>
    BY <1>1, <1>21 DEF ChargerPushes, AppIdle, DevRecords
  <2>2. \A v : AtHand(rx', v) => AtHand(rx, v)
    <3>1. Frame("push", dev.val, 0) \in Frames /\ ~\E v : IsAnswer(Frame("push", dev.val, 0), v)
      BY DEF Frame, Frames, LinkTypeOK, IsAnswer
    <3>. QED BY <1>1, <1>21, <3>1, NothingNew DEF ChargerPushes
  <2>. QED BY <1>3, <2>1, <2>2
<1>22. CASE ChargerAnswers
  <2>1. UNCHANGED <<cmd, acked, okd>>
    BY <1>22 DEF ChargerAnswers, AppIdle
  <2>2. PICK f \in Frames : rx' = Append(rx, f)
                          /\ (f.k \in {"ack", "result"} => dev.job.op = "set" /\ f.v = dev.job.v)
    BY <1>22, Sent
  <2>3. \A v : AtHand(rx', v) => AtHand(rx, v) \/ (dev.job.op = "set" /\ v = dev.job.v)
    BY <1>1, <2>2, NothingNew DEF IsAnswer
  <2>4. dev'.job = NoCmd /\ dev'.set = IF dev.job.op = "set" THEN dev.job.v ELSE dev.set
    BY <1>1, <1>22, CmdFacts DEF ChargerAnswers, DevRecords
  <2>. QED BY <1>1, <2>1, <2>3, <2>4 DEF DoneInv
<1>. QED BY <1>12, <1>13, <1>14, <1>15, <1>16, <1>17, <1>18, <1>19, <1>20, <1>21, <1>22
    DEF LinkStep, Open, Loop, Window

-----------------------------------------------------------------------------
(* What is still to be decrypted. *)

\* How far two counters are apart, seen from a third one.
LEMMA OffShift ==
    ASSUME NEW s \in Counters, NEW x \in Counters, NEW y \in Counters
    PROVE  /\ Off(s, x) <= Off(s, y) => Off(x, y) = Off(s, y) - Off(s, x)
           /\ s <= y => Off(s, y) = y - s
<1>1. N \in Nat /\ s \in 0..N - 1 /\ x \in 0..N - 1 /\ y \in 0..N - 1
  BY Circle
<1>2. /\ Off(s, x) = IF x >= s THEN x - s ELSE x + N - s
      /\ Off(s, y) = IF y >= s THEN y - s ELSE y + N - s
      /\ Off(x, y) = IF y >= x THEN y - x ELSE y + N - x
  BY OffIs
<1>. QED BY <1>1, <1>2

\* The charger's counter goes one on.
LEMMA OffNext ==
    ASSUME NEW s \in Counters, NEW x \in Counters, Off(s, x) < W \div 2
    PROVE  Off(s, Next1(x)) = Off(s, x) + 1
<1>1. N \in Nat /\ s \in 0..N - 1 /\ x \in 0..N - 1 /\ W \div 2 \in Nat /\ N >= 2 * (W \div 2) /\ W \div 2 > 1
  BY Circle
<1>2. /\ Off(s, x) = IF x >= s THEN x - s ELSE x + N - s
      /\ Off(s, Next1(x)) = IF Next1(x) >= s THEN Next1(x) - s ELSE Next1(x) + N - s
  BY OffIs, NextIs
<1>3. Next1(x) = IF x + 1 < N THEN x + 1 ELSE 0
  BY NextIs
<1>. QED BY <1>1, <1>2, <1>3

\* M is L without its p-th element.
Without(M, L, p) ==
    /\ p \in 1..Len(L) /\ Len(M) = Len(L) - 1
    /\ \A i \in 1..Len(M) : M[i] = L[IF i < p THEN i ELSE i + 1]

LEMMA WithoutFacts ==
    ASSUME NEW q \in Seq(Frames)
    PROVE  /\ q # <<>> => Without(Tail(q), q, 1)
           /\ \A i \in 1..Len(q), g \in Seq(Frames) :
                LET r == SubSeq(q, 1, i - 1) \o SubSeq(q, i + 1, Len(q))
                IN  Without(r, q, i) /\ Without(g \o r, g \o q, Len(g) + i)
<1>1. q # <<>> => Without(Tail(q), q, 1)
  BY DEF Without
<1>2. ASSUME NEW i \in 1..Len(q), NEW g \in Seq(Frames)
      PROVE  LET r == SubSeq(q, 1, i - 1) \o SubSeq(q, i + 1, Len(q))
             IN  Without(r, q, i) /\ Without(g \o r, g \o q, Len(g) + i)
  <2>. DEFINE a == SubSeq(q, 1, i - 1)
              b == SubSeq(q, i + 1, Len(q))
              r == a \o b
  <2>1. /\ a \in Seq(Frames) /\ Len(a) = i - 1 /\ \A j \in 1..i - 1 : a[j] = q[j]
        /\ b \in Seq(Frames) /\ Len(b) = Len(q) - i /\ \A j \in 1..Len(q) - i : b[j] = q[i + j]
    OBVIOUS
  <2>. HIDE DEF a, b
  <2>2. r \in Seq(Frames) /\ Len(r) = Len(q) - 1
        /\ \A j \in 1..Len(q) - 1 : r[j] = IF j <= i - 1 THEN a[j] ELSE b[j - (i - 1)]
    <3>1. /\ r \in Seq(Frames) /\ Len(r) = Len(a) + Len(b)
          /\ \A j \in 1..Len(a) + Len(b) : r[j] = IF j <= Len(a) THEN a[j] ELSE b[j - Len(a)]
      BY <2>1, ConcatProperties
    <3>2. Len(a) + Len(b) = Len(q) - 1
      BY <2>1
    <3>. QED BY <2>1, <3>1, <3>2
  <2>3. \A j \in 1..Len(r) : r[j] = q[IF j < i THEN j ELSE j + 1]
    <3>. SUFFICES ASSUME NEW j \in 1..Len(r) PROVE r[j] = q[IF j < i THEN j ELSE j + 1]
      OBVIOUS
    <3>1. CASE j < i
      BY <2>1, <2>2, <3>1
    <3>2. CASE j >= i
      <4>1. j - (i - 1) \in 1..Len(q) - i /\ i + (j - (i - 1)) = j + 1
        BY <2>2, <3>2
      <4>. QED BY <2>1, <2>2, <3>2, <4>1
    <3>. QED BY <3>1, <3>2
  <2>4. Without(r, q, i)
    BY <2>2, <2>3 DEF Without
  <2>. HIDE DEF r
  <2>5. /\ Len(g \o r) = Len(g) + Len(q) - 1 /\ Len(g \o q) = Len(g) + Len(q)
        /\ \A j \in 1..Len(g) + Len(r) : (g \o r)[j] = IF j <= Len(g) THEN g[j] ELSE r[j - Len(g)]
        /\ \A j \in 1..Len(g) + Len(q) : (g \o q)[j] = IF j <= Len(g) THEN g[j] ELSE q[j - Len(g)]
    BY <2>2, ConcatProperties
  <2>6. ASSUME NEW j \in 1..Len(g \o r)
        PROVE  (g \o r)[j] = (g \o q)[IF j < Len(g) + i THEN j ELSE j + 1]
    <3>1. CASE j <= Len(g)
      BY <2>2, <2>5, <3>1
    <3>2. CASE j > Len(g)
      <4>. DEFINE k == j - Len(g)
      <4>1. k \in 1..Len(r) /\ (g \o r)[j] = r[k] /\ j = k + Len(g)
        BY <2>2, <2>5, <3>2
      <4>. HIDE DEF k
      <4>2. CASE k < i
        <5>1. k \in 1..Len(q) /\ j < Len(g) + i /\ (g \o q)[j] = q[k]
          BY <2>2, <2>5, <3>2, <4>1, <4>2
        <5>2. r[k] = q[k]
          BY <2>3, <4>1, <4>2
        <5>. QED BY <4>1, <5>1, <5>2
      <4>3. CASE k >= i
        <5>1. k + 1 \in 1..Len(q) /\ ~(j < Len(g) + i) /\ (g \o q)[j + 1] = q[k + 1]
          <6>1. j + 1 \in 1..Len(g) + Len(q) /\ ~(j + 1 <= Len(g)) /\ j + 1 - Len(g) = k + 1
            BY <2>2, <4>1
          <6>. QED BY <2>2, <2>5, <4>1, <4>3, <6>1
        <5>2. r[k] = q[k + 1]
          BY <2>3, <4>1, <4>3
        <5>. QED BY <4>1, <5>1, <5>2
      <4>4. k \in Nat /\ (k < i \/ k >= i)
        BY <4>1
      <4>. QED BY <4>2, <4>3, <4>4
    <3>4. j \in Nat /\ Len(g) \in Nat
      BY <2>2, <2>5
    <3>5. j <= Len(g) \/ j > Len(g)
      BY <3>4
    <3>. QED BY <3>1, <3>2, <3>5, Zenon
  <2>7. Without(g \o r, g \o q, Len(g) + i)
    <3>1. Len(g) + i \in 1..Len(g \o q) /\ Len(g \o r) = Len(g \o q) - 1
      BY <2>2, <2>5
    <3>. QED BY <2>6, <3>1 DEF Without
  <2>. QED BY <2>4, <2>7 DEF r, a, b
<1>. QED BY <1>1, <1>2

LEMMA InOrderWithout ==
    ASSUME NEW L \in Seq(Frames), NEW M \in Seq(Frames), NEW p, Without(M, L, p), NEW s, NEW it, InOrder(L, s, it)
    PROVE  InOrder(M, s, it)
<1>. DEFINE phi(i) == IF i < p THEN i ELSE i + 1
<1>1. /\ p \in Nat /\ DOMAIN M = 1..Len(M) /\ DOMAIN L = 1..Len(L) /\ Len(M) \in Nat
      /\ \A i \in DOMAIN M : M[i] = L[phi(i)] /\ phi(i) \in DOMAIN L
      /\ \A i, j \in DOMAIN M : i < j => phi(i) < phi(j)
  BY DEF Without
<1>2. \A i, j \in DOMAIN M : i < j /\ phi(j) = phi(i) + 1 => j = i + 1
  BY <1>1
<1>. HIDE DEF phi
<1>. QED BY <1>1, <1>2 DEF InOrder, Half

LEMMA InOrderAppend ==
    ASSUME NEW L \in Seq(Frames), NEW f \in Frames, f.part \in {0, 3}, NEW s \in Counters, NEW it2 \in Counters,
           InOrder(L, s, f.it), Off(s, it2) = Off(s, f.it) + 1
    PROVE  InOrder(Append(L, f), s, it2)
<1>. DEFINE M == Append(L, f)
<1>1. /\ DOMAIN L = 1..Len(L) /\ DOMAIN M = 1..Len(L) + 1 /\ Len(L) \in Nat
      /\ \A i \in 1..Len(L) : M[i] = L[i] /\ L[i].it \in Counters
      /\ M[Len(L) + 1] = f
  BY FrameFacts
<1>2. Off(s, f.it) \in Nat /\ \A i \in 1..Len(L) : Off(s, L[i].it) \in Nat
  <2>1. f.it \in Counters
    BY FrameFacts
  <2>. QED BY <1>1, <2>1, OffNat, Zenon
<1>. HIDE DEF M
<1>3. InOrder(M, s, it2)
  <2>1. \A i \in DOMAIN M : Off(s, M[i].it) < Off(s, it2)
    BY <1>1, <1>2 DEF InOrder
  <2>2. \A i, j \in DOMAIN M : i < j /\ ~Half(M[j]) => Off(s, M[i].it) < Off(s, M[j].it)
    BY <1>1, <1>2 DEF InOrder
  <2>3. \A i, j \in DOMAIN M : i < j /\ M[i].part = 1 => M[j].part # 1 /\ (M[j].part = 2 => j = i + 1)
    BY <1>1 DEF InOrder
  <2>. QED BY <2>1, <2>2, <2>3 DEF InOrder
<1>. QED BY <1>3 DEF M

\* A header's two halves come behind what was sent meanwhile.
LEMMA InOrderHalves ==
    ASSUME NEW q \in Seq(Frames), q # <<>>, Head(q).part = 3, NEW s \in Counters, NEW it \in Counters, InOrder(q, s, it),
           \A i \in DOMAIN q : ~Half(q[i])
    PROVE  /\ InOrder(Tail(q) \o Halves(Head(q)), s, it)
           /\ \A j \in DOMAIN (Tail(q) \o Halves(Head(q))) : \E k \in DOMAIN q : (Tail(q) \o Halves(Head(q)))[j].it = q[k].it
<1>. DEFINE h == Halves(Head(q))
            t == Tail(q)
            M == t \o h
            n == Len(q) - 1
<1>1. Head(q) \in Frames /\ Head(q) = q[1] /\ Len(q) \in Nat \ {0} /\ t \in Seq(Frames) /\ Len(t) = n
      /\ \A i \in 1..n : t[i] = q[i + 1]
  OBVIOUS
<1>2. h \in Seq(Frames) /\ Len(h) = 2 /\ \A i \in 1..2 : h[i].it = q[1].it /\ h[i].part = i
  BY <1>1, HalvesFacts
<1>. HIDE DEF h, t
<1>3. /\ DOMAIN M = 1..n + 2 /\ DOMAIN q = 1..n + 1 /\ n \in Nat
      /\ \A i \in 1..n : M[i] = q[i + 1]
      /\ M[n + 1] = h[1] /\ M[n + 2] = h[2]
  <2>1. n \in Nat /\ n + 1 - n = 1 /\ n + 2 - n = 2 /\ DOMAIN q = 1..n + 1
    BY <1>1
  <2>2. Len(M) = n + 2 /\ M \in Seq(Frames)
        /\ \A i \in 1..n + 2 : M[i] = IF i <= n THEN t[i] ELSE h[i - n]
    <3>1. /\ M \in Seq(Frames) /\ Len(M) = Len(t) + Len(h)
          /\ \A i \in 1..Len(t) + Len(h) : M[i] = IF i <= Len(t) THEN t[i] ELSE h[i - Len(t)]
      <4>1. t \in Seq(Frames) /\ h \in Seq(Frames)
        BY <1>1, <1>2
      <4>. HIDE DEF n
      <4>. QED BY <4>1, ConcatProperties, Zenon DEF M
    <3>2. Len(t) = n /\ Len(h) = 2 /\ n \in Nat
      BY <1>1, <1>2
    <3>3. Len(t) + Len(h) = n + 2
      BY <3>2
    <3>4. \A i : i - Len(t) = i - n /\ (i <= Len(t) <=> i <= n)
      BY <3>2, Zenon
    <3>. HIDE DEF n, M
    <3>. QED BY <3>1, <3>3, <3>4, Zenon
  <2>. HIDE DEF n, M
  <2>3. DOMAIN M = 1..n + 2
    BY <2>2
  <2>4. \A i \in 1..n : M[i] = q[i + 1]
    BY <1>1, <2>1, <2>2
  <2>5. M[n + 1] = h[1] /\ M[n + 2] = h[2]
    BY <2>1, <2>2
  <2>. QED BY <2>1, <2>3, <2>4, <2>5
<1>. HIDE DEF M, n
<1>4. /\ h[1].it = q[1].it /\ h[1].part = 1 /\ h[2].it = q[1].it /\ h[2].part = 2
      /\ \A j \in DOMAIN M : j <= n \/ j = n + 1 \/ j = n + 2
      /\ \A j \in 1..n : j + 1 \in DOMAIN q
      /\ 1 \in DOMAIN q
  BY <1>2, <1>3
<1>5. \A j \in DOMAIN M : \/ j \in 1..n /\ M[j] = q[j + 1] /\ j + 1 \in DOMAIN q
                          \/ j \in {n + 1, n + 2} /\ Half(M[j]) /\ M[j].it = q[1].it
  BY <1>3, <1>4 DEF Half
<1>6. InOrder(M, s, it)
  <2>1. \A i \in DOMAIN M : Off(s, M[i].it) < Off(s, it)
    BY <1>4, <1>5 DEF InOrder
  <2>2. ASSUME NEW i \in DOMAIN M, NEW j \in DOMAIN M, i < j, ~Half(M[j])
        PROVE  Off(s, M[i].it) < Off(s, M[j].it)
    <3>1. j \in 1..n /\ M[j] = q[j + 1] /\ j + 1 \in DOMAIN q
      BY <1>5, <2>2
    <3>2. i \in 1..n /\ M[i] = q[i + 1] /\ i + 1 \in DOMAIN q /\ i + 1 < j + 1
      BY <1>3, <1>5, <2>2, <3>1
    <3>. QED BY <2>2, <3>1, <3>2 DEF InOrder
  <2>3. \A i, j \in DOMAIN M : i < j /\ M[i].part = 1 => M[j].part # 1 /\ (M[j].part = 2 => j = i + 1)
    BY <1>3, <1>4, <1>5 DEF Half
  <2>. QED BY <2>1, <2>2, <2>3 DEF InOrder
<1>7. \A j \in DOMAIN M : \E k \in DOMAIN q : M[j].it = q[k].it
  BY <1>4, <1>5
<1>. QED BY <1>6, <1>7 DEF M, h, t

\* Two ways of counting that differ by a constant order alike.
LEMMA InOrderMoves ==
    ASSUME NEW L \in Seq(Frames), NEW s \in Counters, NEW s2 \in Counters, NEW it \in Counters, NEW d \in Int,
           InOrder(L, s, it), Off(s2, it) = Off(s, it) - d,
           \A i \in DOMAIN L : Off(s2, L[i].it) = Off(s, L[i].it) - d
    PROVE  InOrder(L, s2, it)
<1>1. Off(s, it) \in Int /\ \A i \in DOMAIN L : Off(s, L[i].it) \in Int
  <2>1. \A i \in DOMAIN L : L[i].it \in Counters
    BY FrameFacts
  <2>. QED BY <2>1, OffNat
<1>2. \A i \in DOMAIN L : Off(s2, L[i].it) < Off(s2, it)
  BY <1>1 DEF InOrder
<1>3. \A i, j \in DOMAIN L : i < j /\ ~Half(L[j]) => Off(s2, L[i].it) < Off(s2, L[j].it)
  BY <1>1 DEF InOrder
<1>. QED BY <1>2, <1>3 DEF InOrder

-----------------------------------------------------------------------------
(* The counters stay in step. *)

LEMMA LineFacts ==
    ASSUME LinkTypeOK
    PROVE  /\ Line \in Seq(Frames) /\ seen \in Counters /\ dev.it \in Counters /\ saved \in Seq(Frames) /\ rx \in Seq(Frames)
           /\ parts.got = <<>> => Line = rx
           /\ rx = <<>> => Line = parts.got
           /\ \A i \in DOMAIN Line : Line[i].it \in Counters
           /\ \A i \in DOMAIN saved : saved[i].it \in Counters
<1>1. parts.got \in Seq(Frames) /\ rx \in Seq(Frames) /\ seen \in Counters /\ dev.it \in Counters /\ saved \in Seq(Frames)
  BY DEF LinkTypeOK
<1>2. Line \in Seq(Frames) /\ (parts.got = <<>> => Line = rx) /\ (rx = <<>> => Line = parts.got)
  BY <1>1, ConcatProperties, ConcatEmptySeq DEF Line
<1>3. \A q \in Seq(Frames) : \A i \in DOMAIN q : q[i].it \in Counters
  BY FrameFacts
<1>. QED BY <1>1, <1>2, <1>3

LEMMA LineNext ==
    ASSUME LinkTypeOK'
    PROVE  /\ Line' \in Seq(Frames) /\ rx' \in Seq(Frames)
           /\ parts'.got = <<>> => Line' = rx'
           /\ \A i \in DOMAIN Line' : Line'[i].it \in Counters
<1>1. parts'.got \in Seq(Frames) /\ rx' \in Seq(Frames)
  BY DEF LinkTypeOK
<1>2. Line' \in Seq(Frames) /\ (parts'.got = <<>> => Line' = rx')
  BY <1>1, ConcatProperties, ConcatEmptySeq DEF Line
<1>3. \A q \in Seq(Frames) : \A i \in DOMAIN q : q[i].it \in Counters
  BY FrameFacts
<1>. QED BY <1>1, <1>2, <1>3

LEMMA LineGrows ==
    ASSUME LinkTypeOK, NEW f \in Frames, rx' = Append(rx, f), parts' = parts
    PROVE  Line' = Append(Line, f)
<1>1. parts.got \in Seq(Frames) /\ rx \in Seq(Frames)
  BY DEF LinkTypeOK
<1>2. /\ Append(rx, f) = rx \o <<f>> /\ <<f>> \in Seq(Frames)
      /\ Append(parts.got \o rx, f) = (parts.got \o rx) \o <<f>>
  <2>1. \A q \in Seq(Frames) : Append(q, f) = q \o <<f>>
    BY AppendIsConcat
  <2>2. parts.got \o rx \in Seq(Frames)
    BY <1>1, ConcatProperties, Zenon
  <2>3. <<f>> \in Seq(Frames)
    OBVIOUS
  <2>. QED BY <1>1, <2>1, <2>2, <2>3, Zenon
<1>3. (parts.got \o rx) \o <<f>> = parts.got \o (rx \o <<f>>)
  BY <1>1, <1>2, Regroup, ZenonT(60)
<1>. QED BY <1>2, <1>3 DEF Line

\* A frame that is collected as a part stays first in line.
LEMMA CollectKeeps ==
    ASSUME LinkTypeOK, Collect
    PROVE  Line' = Line
<1>1. parts.got \in Seq(Frames) /\ rx \in Seq(Frames) /\ rx # <<>> /\ Tail(rx) \in Seq(Frames) /\ Head(rx) \in Frames
  BY QueueFacts DEF Collect, LinkTypeOK
<1>2. parts'.got = Append(parts.got, Head(rx)) /\ rx' = Tail(rx)
  BY DEF Collect, LinkTypeOK
<1>3. Append(parts.got, Head(rx)) = parts.got \o <<Head(rx)>> /\ <<Head(rx)>> \in Seq(Frames)
  BY <1>1, AppendIsConcat
<1>4. <<Head(rx)>> \o Tail(rx) = rx
  BY <1>1
<1>5. (parts.got \o <<Head(rx)>>) \o Tail(rx) = parts.got \o (<<Head(rx)>> \o Tail(rx))
  BY <1>1, <1>3, Regroup, Zenon
<1>. QED BY <1>2, <1>3, <1>4, <1>5 DEF Line

\* Nothing is decrypted: what there is to decrypt stays in order.
LEMMA Kept ==
    ASSUME InStep, UNCHANGED <<hi, last, seen, saved>>, dev'.it = dev.it, phase' = phase \/ phase' = "main",
           InOrder(Line', seen, dev.it), \A j \in DOMAIN Line' : \E k \in DOMAIN Line : Line'[j].it = Line[k].it,
           pc' # "collect" => StraysFirst(rx')
    PROVE  InStep'
<1>1. phase' = "boot" => InBoot'
  BY DEF InStep, InBoot
<1>. QED BY <1>1 DEF InStep

\* The first payload is decrypted: the app's counter jumps to its counter.
LEMMA Jump ==
    ASSUME LinkTypeOK, InStep, NEW f \in Frames, Off(seen, f.it) < Off(seen, dev.it),
           NEW whole \in BOOLEAN, NEW good \in BOOLEAN, Decrypt(f, whole, TRUE, good)
    PROVE  seen' = f.it /\ hi' = seen' \div W /\ last' = seen' % W /\ good = whole
<1>1. f.it \in Counters /\ seen \in Counters
  BY FrameFacts DEF LinkTypeOK
<1>2. Off(seen, f.it) < W \div 2
  <2>1. Off(seen, dev.it) <= W \div 2 /\ Off(seen, dev.it) \in Nat /\ Off(seen, f.it) \in Nat /\ W \div 2 \in Nat
    BY <1>1, OffNat, Circle, LineFacts DEF InStep
  <2>. QED BY <2>1
<1>3. HighAfter(f.it % W) = f.it \div W
  BY <1>1, <1>2, HighFollows DEF InStep
<1>. QED BY <1>3 DEF Decrypt

LEMMA Taken ==
    ASSUME LinkTypeOK, LinkTypeOK', InStep, NEW f \in Frames, \E k \in DOMAIN Line : f.it = Line[k].it,
           seen' = f.it, hi' = seen' \div W, last' = seen' % W,
           dev'.it = dev.it, phase' = phase, saved' = saved,
           InOrder(Line', seen, dev.it),
           \A j \in DOMAIN Line' : \E k \in DOMAIN Line : Line'[j].it = Line[k].it,
           \A j \in DOMAIN Line' : Off(seen, f.it) <= Off(seen, Line'[j].it),
           pc' # "collect" => StraysFirst(rx')
    PROVE  InStep'
<1>. DEFINE d == Off(seen, f.it)
<1>1. /\ seen \in Counters /\ f.it \in Counters /\ dev.it \in Counters /\ Line' \in Seq(Frames)
      /\ \A j \in DOMAIN Line' : Line'[j].it \in Counters
      /\ \A y \in Counters : Off(seen, y) \in Nat
  BY LineFacts, LineNext, FrameFacts, OffNat
<1>2. d < Off(seen, dev.it)
  BY DEF InStep, InOrder
<1>3. Off(f.it, dev.it) = Off(seen, dev.it) - d
  BY <1>1, <1>2, OffShift
<1>4. \A j \in DOMAIN Line' : Off(f.it, Line'[j].it) = Off(seen, Line'[j].it) - d
  BY <1>1, OffShift
<1>5. InOrder(Line', f.it, dev.it)
  <2>1. d \in Int
    BY <1>1
  <2>. HIDE DEF d
  <2>. QED BY <1>1, <1>3, <1>4, <2>1, InOrderMoves
<1>6. Off(f.it, dev.it) <= W \div 2
  <2>1. d \in Nat /\ Off(seen, dev.it) \in Nat /\ W \div 2 \in Nat /\ Off(seen, dev.it) <= W \div 2
    BY <1>1, Circle DEF InStep
  <2>. HIDE DEF d
  <2>. QED BY <1>3, <2>1
<1>7. ASSUME phase = "boot" PROVE InBoot'
  <2>1. InBoot
    BY <1>7 DEF InStep
  <2>2. seen <= f.it /\ f.it < dev.it
    BY <2>1 DEF InBoot
  <2>3. ASSUME NEW j \in DOMAIN Line' PROVE f.it <= Line'[j].it /\ Line'[j].it < dev.it
    <3>1. seen <= Line'[j].it /\ Line'[j].it < dev.it
      BY <2>1 DEF InBoot
    <3>2. Off(seen, f.it) = f.it - seen /\ Off(seen, Line'[j].it) = Line'[j].it - seen
      BY <1>1, <2>2, <3>1, OffShift
    <3>3. f.it - seen <= Line'[j].it - seen
      BY <3>2
    <3>. QED BY <1>1, <3>1, <3>3, Circle
  <2>4. f.it <= dev.it
    BY <1>1, <2>2, Circle
  <2>. QED BY <2>1, <2>3, <2>4 DEF InBoot
<1>. QED BY <1>5, <1>6, <1>7 DEF InStep

LEMMA NoHalves ==
    ASSUME LinkTypeOK, Shape, InStep, pc \notin {"collect", "down"}, rx # <<>>, ~Half(Head(rx))
    PROVE  /\ Line = rx /\ \A i \in DOMAIN rx : ~Half(rx[i])
           /\ 1 \in DOMAIN rx /\ Head(rx) = rx[1] /\ Head(rx) \in Frames
           /\ \A i \in DOMAIN rx : Off(seen, Head(rx).it) <= Off(seen, rx[i].it)
           /\ Off(seen, Head(rx).it) < Off(seen, dev.it)
<1>1. rx \in Seq(Frames) /\ Line = rx
  BY LineFacts DEF Shape, NoParts
<1>2. 1 \in DOMAIN rx /\ Head(rx) = rx[1] /\ Head(rx) \in Frames /\ \A i \in DOMAIN rx : i = 1 \/ 1 < i
  BY <1>1
<1>3. \A i \in DOMAIN rx : ~Half(rx[i])
  BY <1>2 DEF InStep, StraysFirst
<1>4. \A i \in DOMAIN rx : Off(seen, rx[i].it) \in Int
  <2>1. \A i \in DOMAIN rx : rx[i].it \in Counters /\ seen \in Counters
    BY <1>1, LineFacts
  <2>. QED BY <2>1, OffNat
<1>5. \A i \in DOMAIN rx : Off(seen, rx[1].it) <= Off(seen, rx[i].it)
  BY <1>1, <1>2, <1>3, <1>4 DEF InStep, InOrder
<1>6. Off(seen, Head(rx).it) < Off(seen, dev.it)
  BY <1>1, <1>2 DEF InStep, InOrder
<1>. QED BY <1>1, <1>2, <1>3, <1>5, <1>6

\* One frame fewer: taken from the head, or lost anywhere.
LEMMA Fewer ==
    ASSUME LinkTypeOK, LinkTypeOK', InStep, NEW p, Without(Line', Line, p)
    PROVE  /\ InOrder(Line', seen, dev.it)
           /\ \A j \in DOMAIN Line' : \E k \in DOMAIN Line : Line'[j] = Line[k]
<1>1. Line \in Seq(Frames) /\ Line' \in Seq(Frames)
  BY LineFacts, LineNext
<1>2. InOrder(Line', seen, dev.it)
  BY <1>1, InOrderWithout DEF InStep
<1>3. ASSUME NEW j \in DOMAIN Line' PROVE \E k \in DOMAIN Line : Line'[j] = Line[k]
  <2>1. j \in 1..Len(Line') /\ (IF j < p THEN j ELSE j + 1) \in DOMAIN Line
    BY <1>1, <1>3 DEF Without
  <2>. QED BY <2>1 DEF Without
<1>. QED BY <1>2, <1>3

LEMMA StraysWithout ==
    ASSUME NEW q \in Seq(Frames), NEW r \in Seq(Frames), NEW p, Without(r, q, p), StraysFirst(q)
    PROVE  StraysFirst(r)
<1>. DEFINE phi(i) == IF i < p THEN i ELSE i + 1
<1>1. /\ \A i \in DOMAIN r : r[i] = q[phi(i)] /\ phi(i) \in DOMAIN q
      /\ \A i, j \in DOMAIN r : i < j => phi(i) < phi(j)
  BY DEF Without
<1>. HIDE DEF phi
<1>. QED BY <1>1 DEF StraysFirst

\* The head of the queue is taken outside of a collection.
LEMMA HeadTaken ==
    ASSUME LinkTypeOK, LinkTypeOK', Shape, InStep, pc \notin {"collect", "down"}, rx # <<>>, rx' = Tail(rx), parts' = parts
    PROVE  /\ Line = rx /\ Line' = Tail(rx)
           /\ InOrder(Line', seen, dev.it)
           /\ \A j \in DOMAIN Line' : \E k \in DOMAIN Line : Line'[j] = Line[k]
           /\ StraysFirst(rx')
<1>1. rx \in Seq(Frames) /\ Line = rx /\ rx' \in Seq(Frames) /\ Line' = rx'
  BY LineFacts, LineNext DEF Shape, NoParts
<1>2. Without(rx', rx, 1)
  BY <1>1, WithoutFacts
<1>3. StraysFirst(rx')
  BY <1>1, <1>2, StraysWithout DEF InStep
<1>. QED BY <1>1, <1>2, <1>3, Fewer

\* A frame of the queue, or a stray part, is decrypted or passed over.
LEMMA FrameRead ==
    ASSUME LinkTypeOK, LinkTypeOK', Shape, InStep, pc \notin {"collect", "down"}, rx # <<>>, rx' = Tail(rx),
           UNCHANGED <<phase, parts, dev, saved>>,
           \/ Skip
           \/ ~Half(Head(rx)) /\ \E whole \in BOOLEAN, good \in BOOLEAN : Decrypt(Head(rx), whole, TRUE, good)
    PROVE  InStep'
<1>1. /\ Line = rx /\ Line' = Tail(rx) /\ InOrder(Line', seen, dev.it) /\ StraysFirst(rx')
      /\ \A j \in DOMAIN Line' : \E k \in DOMAIN Line : Line'[j] = Line[k]
  BY HeadTaken
<1>2. CASE Skip
  BY <1>1, <1>2, Kept DEF Skip
<1>3. ASSUME ~Half(Head(rx)), NEW whole \in BOOLEAN, NEW good \in BOOLEAN, Decrypt(Head(rx), whole, TRUE, good)
      PROVE  InStep'
  <2>1. /\ 1 \in DOMAIN Line /\ Head(rx) = Line[1] /\ Head(rx) \in Frames
        /\ \A i \in DOMAIN Line : Off(seen, Head(rx).it) <= Off(seen, Line[i].it)
        /\ Off(seen, Head(rx).it) < Off(seen, dev.it)
    BY <1>1, <1>3, NoHalves
  <2>2. seen' = Head(rx).it /\ hi' = seen' \div W /\ last' = seen' % W
    BY <1>3, <2>1, Jump
  <2>3. \A j \in DOMAIN Line' : Off(seen, Head(rx).it) <= Off(seen, Line'[j].it)
    BY <1>1, <2>1
  <2>. QED BY <1>1, <2>1, <2>2, <2>3, Taken
<1>. QED BY <1>2, <1>3

\* A header is answered: its halves come last.
LEMMA HeaderRead ==
    ASSUME LinkTypeOK, LinkTypeOK', Shape, InStep, pc \notin {"collect", "down"}, rx # <<>>, Head(rx).part = 3,
           rx' = Tail(rx) \o Halves(Head(rx)), parts'.got = <<>>, pc' = "collect",
           UNCHANGED <<phase, dev, saved>>, Skip
    PROVE  InStep'
<1>1. Line = rx /\ Line' = rx' /\ rx \in Seq(Frames) /\ seen \in Counters /\ dev.it \in Counters
      /\ \A i \in DOMAIN rx : ~Half(rx[i])
  BY NoHalves, LineFacts, LineNext DEF Half
<1>2. InOrder(Line', seen, dev.it) /\ \A j \in DOMAIN Line' : \E k \in DOMAIN Line : Line'[j].it = Line[k].it
  BY <1>1, InOrderHalves DEF InStep
<1>. QED BY <1>2, Kept DEF Skip

\* The payload that was collected is decrypted.
LEMMA GatheredRead ==
    ASSUME LinkTypeOK, LinkTypeOK', Shape, InStep, NEW good \in BOOLEAN, Gathered(good), parts' = NoParts,
           UNCHANGED <<phase, rx, dev, saved>>, Len(parts.got) = 2 \/ rx = <<>>, ~garbled'
    PROVE  InStep'
<1>. DEFINE g == parts.got
<1>1. /\ g \in Seq(Frames) /\ rx \in Seq(Frames) /\ g # <<>> /\ Len(g) \in Nat \ {0} /\ g[1] \in Frames
      /\ Line \in Seq(Frames) /\ Len(Line) = Len(g) + Len(rx) /\ DOMAIN Line = 1..Len(g) + Len(rx)
      /\ \A i \in 1..Len(g) + Len(rx) : Line[i] = IF i <= Len(g) THEN g[i] ELSE rx[i - Len(g)]
      /\ Line' = rx
  <2>1. g \in Seq(Frames) /\ rx \in Seq(Frames) /\ g # <<>>
    BY DEF LinkTypeOK, Gathered
  <2>2. Len(g) \in Nat \ {0} /\ g[1] \in Frames
    BY <2>1
  <2>3. Line' = rx
    BY LineNext DEF NoParts
  <2>4. /\ g \o rx \in Seq(Frames) /\ Len(g \o rx) = Len(g) + Len(rx)
        /\ \A i \in 1..Len(g) + Len(rx) : (g \o rx)[i] = IF i <= Len(g) THEN g[i] ELSE rx[i - Len(g)]
    BY <2>1, ConcatProperties
  <2>5. Line = g \o rx
    BY DEF Line
  <2>6. DOMAIN Line = 1..Len(g) + Len(rx)
    BY <2>4, <2>5
  <2>. QED BY <2>1, <2>2, <2>3, <2>4, <2>5, <2>6
<1>2. Decrypt(g[1], Complete(g), g[1].part = 1, good)
  BY DEF Gathered
<1>3. g[1].part = 1 /\ Decrypt(g[1], Complete(g), TRUE, good) /\ Complete(g) \in BOOLEAN
  <2>1. g[1].part = 1
    BY <1>2 DEF Decrypt
  <2>2. (g[1].part = 1) = TRUE
    BY <2>1
  <2>. QED BY <1>2, <2>1, <2>2 DEF Complete
<1>. HIDE DEF g
<1>4. 1 \in DOMAIN Line /\ Line[1] = g[1]
  BY <1>1
<1>5. ASSUME NEW j \in DOMAIN rx
      PROVE  /\ Len(g) + j \in DOMAIN Line /\ Line[Len(g) + j] = rx[j] /\ 1 < Len(g) + j
             /\ ~Half(rx[j])
  <2>1. j \in 1..Len(rx) /\ Len(g) + j \in 1..Len(g) + Len(rx) /\ ~(Len(g) + j <= Len(g)) /\ Len(g) + j - Len(g) = j
    BY <1>1, <1>5
  <2>2. Len(g) + j \in DOMAIN Line /\ Line[Len(g) + j] = rx[j] /\ 1 < Len(g) + j
    BY <1>1, <2>1
  <2>3. Len(g) = 2 /\ Len(g) + j # 1 + 1
    <3>1. rx # <<>>
      BY <1>1, <1>5
    <3>2. Len(g) = 2
      BY <3>1 DEF g
    <3>. QED BY <2>1, <3>2
  <2>4. rx[j].part # 1 /\ rx[j].part # 2
    BY <1>3, <1>4, <2>2, <2>3 DEF InStep, InOrder
  <2>. QED BY <2>2, <2>4 DEF Half
<1>6. InOrder(rx, seen, dev.it)
  <2>1. \A i, j \in DOMAIN rx : i < j => Len(g) + i < Len(g) + j
    BY <1>1
  <2>2. \A i \in DOMAIN rx : Off(seen, rx[i].it) < Off(seen, dev.it)
    BY <1>5 DEF InStep, InOrder
  <2>3. \A i, j \in DOMAIN rx : i < j /\ ~Half(rx[j]) => Off(seen, rx[i].it) < Off(seen, rx[j].it)
    BY <1>5, <2>1 DEF InStep, InOrder
  <2>4. \A i \in DOMAIN rx : rx[i].part \notin {1, 2}
    BY <1>5 DEF Half
  <2>. QED BY <2>2, <2>3, <2>4 DEF InOrder
<1>7. Off(seen, g[1].it) < Off(seen, dev.it)
  BY <1>4 DEF InStep, InOrder
<1>8. seen' = g[1].it /\ hi' = seen' \div W /\ last' = seen' % W
  BY <1>1, <1>3, <1>7, Jump
<1>9. \A j \in DOMAIN rx : Off(seen, g[1].it) <= Off(seen, rx[j].it)
  <2>1. \A j \in DOMAIN rx : Off(seen, g[1].it) < Off(seen, rx[j].it)
    BY <1>4, <1>5 DEF InStep, InOrder
  <2>2. \A j \in DOMAIN rx : Off(seen, rx[j].it) \in Nat /\ Off(seen, g[1].it) \in Nat
    <3>1. seen \in Counters /\ g[1].it \in Counters /\ \A j \in DOMAIN rx : rx[j].it \in Counters
      BY <1>1, <1>5, LineFacts, FrameFacts
    <3>. QED BY <3>1, OffNat
  <2>. QED BY <2>1, <2>2
<1>10. StraysFirst(rx) /\ \A j \in DOMAIN rx : \E k \in DOMAIN Line : rx[j].it = Line[k].it
  BY <1>5 DEF StraysFirst
<1>. QED BY <1>1, <1>4, <1>6, <1>8, <1>9, <1>10, Taken

\* What the charger sends goes to the end.
LEMMA ChargerSent ==
    ASSUME LinkTypeOK, LinkTypeOK', Shape, InStep, ChargerAnswers \/ ChargerPushes
    PROVE  InStep'
<1>1. /\ AppIdle /\ dev'.it = Next1(dev.it) /\ Off(seen, dev.it) < W \div 2
      /\ phase = "boot" => dev.it + 1 < W \div 2
  BY ChargerMoves DEF InStep
<1>2. PICK f \in Frames : rx' = Append(rx, f) /\ f.it = dev.it /\ f.part \in {0, 3}
  BY Sent
<1>3. /\ seen \in Counters /\ dev.it \in Counters /\ dev'.it \in Counters /\ Line \in Seq(Frames) /\ Line' \in Seq(Frames)
      /\ parts.got \in Seq(Frames) /\ rx \in Seq(Frames) /\ parts' = parts
  BY <1>1, NextIs, LineFacts, LineNext DEF LinkTypeOK, AppIdle
<1>4. Off(seen, dev'.it) = Off(seen, dev.it) + 1
  BY <1>1, <1>3, OffNext
<1>5. Line' = Append(Line, f)
  BY <1>2, <1>3, LineGrows
<1>6. InOrder(Line', seen, dev'.it)
  BY <1>2, <1>3, <1>4, <1>5, InOrderAppend DEF InStep
<1>7. Off(seen, dev'.it) <= W \div 2
  <2>1. Off(seen, dev.it) \in Nat /\ W \div 2 \in Nat
    BY <1>3, OffNat, Circle
  <2>. QED BY <1>1, <1>4, <2>1
<1>8. pc # "collect" => StraysFirst(rx')
  <2>1. /\ DOMAIN rx' = 1..Len(rx) + 1 /\ DOMAIN rx = 1..Len(rx) /\ Len(rx) \in Nat /\ rx'[Len(rx) + 1] = f
        /\ \A i \in 1..Len(rx) : rx'[i] = rx[i]
    BY <1>2, <1>3
  <2>2. ASSUME pc # "collect", NEW i \in DOMAIN rx', NEW j \in DOMAIN rx', i < j, Half(rx'[j]) PROVE Half(rx'[i])
    <3>1. i \in DOMAIN rx /\ j \in DOMAIN rx
      BY <1>2, <2>1, <2>2 DEF Half
    <3>. QED BY <2>1, <2>2, <3>1 DEF InStep, StraysFirst
  <2>. QED BY <2>2 DEF StraysFirst
<1>9. phase = "boot" => InBoot'
  <2>. SUFFICES ASSUME phase = "boot" PROVE InBoot'
    OBVIOUS
  <2>1. InBoot /\ dev'.it = dev.it + 1 /\ dev.it \in Nat /\ seen \in Nat
    <3>1. InBoot /\ dev'.it = (IF dev.it + 1 < N THEN dev.it + 1 ELSE 0)
      BY <1>1, <1>3, NextIs DEF InStep
    <3>2. dev.it \in Nat /\ seen \in Nat /\ W \div 2 < N /\ N \in Nat /\ W \div 2 \in Nat
      BY <1>3, Circle
    <3>. QED BY <1>1, <3>1, <3>2
  <2>2. \A j \in DOMAIN Line' : (j \in DOMAIN Line /\ Line'[j] = Line[j]) \/ Line'[j] = f
    BY <1>3, <1>5
  <2>3. \A j \in DOMAIN Line : Line[j].it \in Nat
    BY LineFacts, Circle
  <2>4. \A i \in DOMAIN saved : saved[i].it \in Nat
    BY LineFacts, Circle
  <2>5. seen' = seen /\ saved' = saved
    BY <1>1 DEF AppIdle
  <2>6. \A j \in DOMAIN Line' : seen <= Line'[j].it /\ Line'[j].it < dev'.it
    BY <1>2, <2>1, <2>2, <2>3 DEF InBoot
  <2>7. \A i \in DOMAIN saved, j \in DOMAIN Line' : saved[i].it < Line'[j].it
    BY <1>2, <2>1, <2>2 DEF InBoot
  <2>8. seen <= dev'.it /\ \A i \in DOMAIN saved : saved[i].it < dev'.it
    BY <2>1, <2>4 DEF InBoot
  <2>. QED BY <2>5, <2>6, <2>7, <2>8 DEF InBoot
<1>. QED BY <1>1, <1>6, <1>7, <1>8, <1>9 DEF InStep, AppIdle

\* The queue is thrown away for a command; a header in it still brings its halves.
LEMMA SendDrains ==
    ASSUME LinkTypeOK, LinkTypeOK', Shape, InStep, NEW c \in Cmds, Send(c), pc \notin {"collect", "down"},
           UNCHANGED <<phase, parts, saved>>
    PROVE  InStep'
<1>1. Line = rx /\ Line' = rx' /\ rx \in Seq(Frames) /\ rx' \in Seq(Frames)
  BY LineFacts, LineNext DEF Shape, NoParts
<1>2. dev'.it = dev.it
  BY DEF Send, LinkTypeOK
<1>3. \/ rx' = <<>>
      \/ \E i \in 1..Len(rx) : rx[i].part = 3 /\ rx' = Halves(rx[i])
  BY DEF Send
<1>4. CASE rx' = <<>>
  BY <1>1, <1>2, <1>4, Kept DEF Send, Skip, InOrder, StraysFirst
<1>5. ASSUME NEW i \in 1..Len(rx), rx[i].part = 3, rx' = Halves(rx[i]) PROVE InStep'
  <2>1. rx[i] \in Frames /\ i \in DOMAIN rx
    BY <1>1
  <2>2. DOMAIN rx' = 1..2 /\ \A j \in 1..2 : rx'[j].it = rx[i].it /\ rx'[j].part = j
    BY <1>5, <2>1, HalvesFacts
  <2>3. \A j \in DOMAIN rx' : Half(rx'[j]) /\ rx'[j].it = rx[i].it
    BY <2>2 DEF Half
  <2>4. Off(seen, rx[i].it) < Off(seen, dev.it)
    BY <1>1, <2>1 DEF InStep, InOrder
  <2>5. \A j, k \in 1..2 : j < k => j = 1 /\ k = 2
    OBVIOUS
  <2>6. InOrder(rx', seen, dev.it)
    BY <2>2, <2>3, <2>4, <2>5 DEF InOrder
  <2>. QED BY <1>1, <1>2, <2>1, <2>3, <2>6, Kept DEF Send, Skip, StraysFirst
<1>. QED BY <1>3, <1>4, <1>5

\* An initial push is kept: it is older than all that is still queued.
LEMMA PushSaved ==
    ASSUME LinkTypeOK, LinkTypeOK', Shape, InStep, SaveInitPush
    PROVE  InStep'
<1>1. /\ pc = "drain" /\ rx # <<>> /\ rx' = Tail(rx) /\ UNCHANGED <<pc, phase, parts, dev, hi, last, seen>>
      /\ saved' = IF Head(rx).part = 0 THEN Append(saved, Head(rx)) ELSE saved
      /\ phase = "boot" /\ InBoot
  BY DEF SaveInitPush, Skip, Shape, InStep
<1>2. /\ Line = rx /\ Line' = Tail(rx) /\ InOrder(Line', seen, dev.it) /\ StraysFirst(rx')
      /\ \A j \in DOMAIN Line' : \E k \in DOMAIN Line : Line'[j] = Line[k]
  BY <1>1, HeadTaken
<1>3. CASE Head(rx).part # 0
  BY <1>1, <1>2, <1>3, Kept
<1>4. CASE Head(rx).part = 0
  <2>1. /\ rx \in Seq(Frames) /\ saved \in Seq(Frames) /\ Tail(rx) \in Seq(Frames) /\ Head(rx) = rx[1] /\ 1 \in DOMAIN rx
        /\ \A j \in DOMAIN Tail(rx) : j + 1 \in DOMAIN rx /\ 1 < j + 1 /\ Tail(rx)[j] = rx[j + 1]
        /\ \A i \in DOMAIN rx : ~Half(rx[i])
    BY <1>1, <1>4, NoHalves, LineFacts DEF Half
  <2>2. \A i \in DOMAIN saved' : (i \in DOMAIN saved /\ saved'[i] = saved[i]) \/ saved'[i] = rx[1]
    BY <1>1, <1>4, <2>1
  <2>3. ASSUME NEW j \in DOMAIN Tail(rx) PROVE rx[1].it < Tail(rx)[j].it
    <3>1. Off(seen, rx[1].it) < Off(seen, rx[j + 1].it)
      BY <1>2, <2>1, <2>3 DEF InStep, InOrder
    <3>2. /\ seen \in Counters /\ rx[1].it \in Counters /\ rx[j + 1].it \in Counters
          /\ seen <= rx[1].it /\ seen <= rx[j + 1].it
      BY <1>1, <1>2, <2>1, <2>3, LineFacts DEF InBoot
    <3>3. Off(seen, rx[1].it) = rx[1].it - seen /\ Off(seen, rx[j + 1].it) = rx[j + 1].it - seen
      BY <3>2, OffShift
    <3>4. rx[1].it - seen < rx[j + 1].it - seen
      BY <3>1, <3>3
    <3>5. rx[1].it < rx[j + 1].it
      BY <3>2, <3>4, Circle
    <3>. QED BY <2>1, <3>5
  <2>4. InBoot'
    BY <1>1, <1>2, <2>1, <2>2, <2>3 DEF InBoot
  <2>. QED BY <1>1, <1>2, <2>4 DEF InStep
<1>. QED BY <1>3, <1>4

\* A kept push is decrypted: the app's counter may go back to it.
LEMMA PushReplayed ==
    ASSUME LinkTypeOK, LinkTypeOK', Shape, Shape', InStep, Replay
    PROVE  InStep'
<1>1. pc = "replay" /\ phase = "boot" /\ UNCHANGED <<parts, rx, dev>> /\ InBoot /\ StraysFirst(rx) /\ Line' = Line
  BY DEF Replay, Shape, InStep, Line
<1>2. CASE saved = <<>>
  BY <1>1, <1>2, Kept DEF Replay, Skip, InStep
<1>3. ASSUME NEW good \in BOOLEAN, saved # <<>>, saved' = Tail(saved), phase' = phase,
             Decrypt(Head(saved), TRUE, TRUE, good)
      PROVE  InStep'
  <2>. DEFINE f == Head(saved)
              h == W \div 2
  <2>1. /\ saved \in Seq(Frames) /\ f \in Frames /\ f = saved[1] /\ 1 \in DOMAIN saved
        /\ \A i \in DOMAIN saved' : i + 1 \in DOMAIN saved /\ saved'[i] = saved[i + 1]
    BY <1>3, LineFacts
  <2>. HIDE DEF f
  <2>2. /\ seen \in Counters /\ f.it \in Counters /\ dev.it \in Counters
        /\ seen \in Nat /\ f.it \in Nat /\ dev.it \in Nat /\ h \in Nat /\ W = 2 * h /\ h > 1
    <3>1. seen \in Counters /\ f.it \in Counters /\ dev.it \in Counters
      BY <2>1, FrameFacts, LineFacts, Zenon
    <3>2. h \in Nat /\ W = 2 * h /\ h > 1 /\ Counters \subseteq Nat
      BY Circle
    <3>. QED BY <3>1, <3>2
  <2>3. f.it < dev.it /\ seen <= dev.it /\ dev.it < h
    BY <1>1, <2>1 DEF InBoot, Shape
  <2>. HIDE DEF h
  <2>4. f.it < W /\ seen < W
    BY <2>2, <2>3
  <2>5. ASSUME NEW x \in Nat, x < W PROVE x \div W = 0 /\ x % W = x
    <3>1. W \in Nat \ {0} /\ x \in Nat /\ x < W
      BY <2>2, <2>5
    <3>. QED BY <3>1
  <2>6. hi = 0 /\ last = seen /\ f.it % W = f.it /\ f.it \div W = 0
    BY <2>2, <2>4, <2>5 DEF InStep
  <2>7. HighAfter(f.it % W) = 0
    <3>1. ~(last - f.it > W \div 2)
      BY <2>2, <2>3, <2>6 DEF h
    <3>. QED BY <2>6, <3>1 DEF HighAfter
  <2>8. seen' = f.it /\ last' = f.it /\ hi' = 0
    BY <1>3, <2>6, <2>7 DEF Decrypt, f
  <2>9. hi' = seen' \div W /\ last' = seen' % W
    BY <2>6, <2>8
  <2>10. \A j \in DOMAIN Line : /\ Line[j] \in Frames /\ Line[j].it \in Counters /\ seen <= Line[j].it
                               /\ f.it < Line[j].it /\ Line[j].it < dev.it
    BY <1>1, <2>1, LineFacts DEF InBoot
  <2>11. /\ Off(f.it, dev.it) = dev.it - f.it /\ Off(seen, dev.it) = dev.it - seen
         /\ \A j \in DOMAIN Line : Off(f.it, Line[j].it) = Line[j].it - f.it /\ Off(seen, Line[j].it) = Line[j].it - seen
    <3>1. \A s, y \in Counters : s <= y => Off(s, y) = y - s
      BY OffShift
    <3>2. f.it <= dev.it /\ \A j \in DOMAIN Line : f.it <= Line[j].it
      <4>1. \A j \in DOMAIN Line : Line[j].it \in Nat
        BY <2>10, Circle
      <4>. QED BY <2>2, <2>3, <2>10, <4>1
    <3>. QED BY <2>2, <2>3, <2>10, <3>1, <3>2
  <2>12. InOrder(Line, f.it, dev.it)
    <3>. DEFINE d == f.it - seen
    <3>1. d \in Int /\ Off(f.it, dev.it) = Off(seen, dev.it) - d
      BY <2>2, <2>11
    <3>2. \A j \in DOMAIN Line : Off(f.it, Line[j].it) = Off(seen, Line[j].it) - d
      <4>1. \A j \in DOMAIN Line : Line[j].it \in Nat
        BY <2>10, Circle
      <4>. QED BY <2>2, <2>11, <4>1
    <3>. HIDE DEF d
    <3>. QED BY <2>2, <3>1, <3>2, InOrderMoves, LineFacts DEF InStep
  <2>13. Off(f.it, dev.it) <= W \div 2
    BY <2>2, <2>3, <2>11 DEF h
  <2>14. InBoot'
    <3>1. \A j \in DOMAIN Line : f.it <= Line[j].it
      <4>1. \A j \in DOMAIN Line : Line[j].it \in Nat
        BY <2>10, Circle
      <4>. QED BY <2>2, <2>10, <4>1
    <3>2. f.it <= dev.it
      BY <2>2, <2>3
    <3>. QED BY <1>1, <2>1, <2>8, <2>10, <3>1, <3>2 DEF InBoot
  <2>. QED BY <1>1, <2>8, <2>9, <2>12, <2>13, <2>14 DEF InStep
<1>. QED BY <1>2, <1>3 DEF Replay

\* Whatever is not the set-up of the channel needs the link, and forgets no garbled frame.
LEMMA StepNeedsLink ==
    ASSUME LinkStep, ~SetupCmdChannel, pc' \notin {"down", "closed", "setup"}, ~garbled'
    PROVE  pc \notin {"down", "closed", "setup"} /\ ~garbled
<1>. DEFINE Keeps == Skip \/ garbled' = garbled \/ \E f, whole, first, good : Decrypt(f, whole, first, good)
            There == pc \notin {"down", "closed", "setup"} /\ Keeps
<1>1. ASSUME SaveInitPush \/ ReadInitialSettings \/ Replay PROVE There
  <2>1. pc \in {"drain", "replay"}
    BY <1>1 DEF SaveInitPush, ReadInitialSettings, Replay
  <2>2. Keeps
    BY <1>1, Zenon DEF SaveInitPush, ReadInitialSettings, Replay, Send
  <2>. QED BY <2>1, <2>2
<1>2. ASSUME TakeFrame \/ TakeHeader \/ Poll \/ Set PROVE There
  <2>1. pc = "main"
    BY <1>2 DEF TakeFrame, TakeHeader, Poll, Set
  <2>2. Keeps
    BY <1>2, Zenon DEF TakeFrame, TakeHeader, Poll, Set, Send
  <2>. QED BY <2>1, <2>2
<1>3. ASSUME Collect \/ Collected PROVE There
  <2>1. pc = "collect"
    BY <1>3 DEF Collect, Collected
  <2>2. Keeps
    BY <1>3, Zenon DEF Collect, Collected
  <2>. QED BY <2>1, <2>2
<1>4. ASSUME SendEncrypted \/ WaitAnswer PROVE There
  <2>1. pc \in {"sending", "answer"}
    BY <1>4 DEF SendEncrypted, WaitAnswer
  <2>2. Keeps
    BY <1>4, Zenon DEF SendEncrypted, WaitAnswer
  <2>. QED BY <2>1, <2>2
<1>5. ASSUME ChargerAnswers \/ ChargerPushes \/ ChargerChanges \/ Lose PROVE There
  <2>1. AppIdle
    BY <1>5, Zenon DEF ChargerAnswers, ChargerPushes, ChargerChanges, Lose
  <2>. QED BY <2>1 DEF AppIdle
<1>6. ~LinkLost
  BY DEF LinkLost, GiveUp
<1>7. There
  BY <1>1, <1>2, <1>3, <1>4, <1>5, <1>6 DEF LinkStep, Open, Loop, Window
<1>8. Skip => ~garbled
  BY Zenon DEF Skip
<1>9. ASSUME NEW f, NEW whole, NEW first, NEW good, Decrypt(f, whole, first, good) PROVE ~garbled
  BY <1>9, Zenon DEF Decrypt
<1>10. Keeps => ~garbled
  <2>1. CASE garbled' = garbled
    BY <2>1, Zenon
  <2>2. (\E f, whole, first, good : Decrypt(f, whole, first, good)) => ~garbled
    BY <1>9, Zenon
  <2>. QED BY <1>8, <2>1, <2>2, Zenon
<1>. QED BY <1>7, <1>10, Zenon

LEMMA InStepStep ==
    LinkTypeOK /\ LinkTypeOK' /\ Shape /\ Shape' /\ (Opened /\ ~garbled => InStep)
        /\ (Close \/ Connect \/ LinkStep) => (Opened' /\ ~garbled' => InStep')
<1>. SUFFICES ASSUME LinkTypeOK, LinkTypeOK', Shape, Shape', Opened /\ ~garbled => InStep, Close \/ Connect \/ LinkStep,
                     Opened', ~garbled'
              PROVE  InStep'
  OBVIOUS
<1>1. CASE SetupCmdChannel
  <2>1. /\ hi' = 0 /\ last' = 0 /\ seen' = 0 /\ rx' = <<>> /\ dev' = dev /\ saved' = <<>> /\ Line' = <<>>
        /\ dev.it \in Counters /\ dev.it < W \div 2 /\ pc' = "drain" /\ phase' = "boot"
    BY <1>1, LineNext, LineFacts DEF SetupCmdChannel, Shape, NoParts
  <2>2. dev.it \in Nat /\ W \in Nat \ {0} /\ 0 \in Counters
    BY <2>1, Circle
  <2>3. Off(0, dev.it) = dev.it /\ 0 \div W = 0 /\ 0 % W = 0
    BY <2>1, <2>2, OffShift
  <2>4. InOrder(<<>>, 0, dev.it) /\ StraysFirst(<<>>)
    BY DEF InOrder, StraysFirst
  <2>5. InBoot'
    BY <2>1, <2>2 DEF InBoot
  <2>6. Off(0, dev.it) <= W \div 2
    BY <2>1, <2>2, <2>3, Circle
  <2>. QED BY <2>1, <2>3, <2>4, <2>5, <2>6 DEF InStep
<1>2. ASSUME ~SetupCmdChannel PROVE Opened /\ ~garbled /\ ~Close /\ ~Connect /\ InStep /\ LinkStep /\ pc # "down"
  <2>1. ~Close /\ ~Connect
    BY DEF Close, Connect, Opened
  <2>2. LinkStep
    BY <2>1, Zenon
  <2>3. pc \notin {"down", "closed", "setup"} /\ ~garbled
    BY <1>2, <2>2, StepNeedsLink, Zenon DEF Opened
  <2>. QED BY <2>1, <2>2, <2>3, Zenon DEF Opened
<1>. SUFFICES ASSUME ~SetupCmdChannel PROVE InStep'
  BY <1>1
<1>3. Opened /\ ~garbled /\ InStep /\ LinkStep /\ pc # "down"
  BY <1>2
<1>4. CASE Poll \/ Set \/ ReadInitialSettings
  <2>1. PICK c \in Cmds : Send(c)
    BY <1>4, CmdFacts DEF Poll, Set, ReadInitialSettings
  <2>2. pc \notin {"collect", "down"} /\ UNCHANGED <<phase, parts, saved>>
    BY <1>4 DEF Poll, Set, ReadInitialSettings
  <2>. QED BY <1>3, <2>1, <2>2, SendDrains
<1>5. CASE SaveInitPush
  BY <1>3, <1>5, PushSaved
<1>6. CASE Replay
  BY <1>3, <1>6, PushReplayed
<1>7. CASE TakeFrame
  <2>1. /\ pc = "main" /\ rx # <<>> /\ Head(rx).part # 3 /\ rx' = Tail(rx) /\ UNCHANGED <<phase, parts, dev, saved>>
    BY <1>7 DEF TakeFrame
  <2>2. PICK good \in BOOLEAN : Decrypt(Head(rx), Head(rx).part = 0, Head(rx).part = 0, good)
    BY <1>7 DEF TakeFrame
  <2>3. Head(rx).part = 0
    BY <2>2 DEF Decrypt
  <2>4. (Head(rx).part = 0) = TRUE
    BY <2>3
  <2>5. Decrypt(Head(rx), TRUE, TRUE, good)
    BY <2>2, <2>4
  <2>6. ~Half(Head(rx)) /\ \E whole \in BOOLEAN, ok \in BOOLEAN : Decrypt(Head(rx), whole, TRUE, ok)
    <3>1. ~Half(Head(rx))
      BY <2>3 DEF Half
    <3>. QED BY <2>5, <3>1, Zenon
  <2>. QED BY <1>3, <2>1, <2>6, FrameRead
<1>8. CASE TakeHeader
  BY <1>3, <1>8, HeaderRead DEF TakeHeader, NoParts
<1>9. CASE Collect
  <2>3. Line' = Line
    BY <1>9, CollectKeeps
  <2>4. UNCHANGED <<hi, last, seen, saved, dev, phase>> /\ pc' = "collect"
    BY <1>9 DEF Collect, Skip
  <2>. QED BY <1>3, <2>3, <2>4, Kept DEF InStep
<1>10. CASE Collected
  <2>1. /\ pc = "collect" /\ parts' = NoParts /\ UNCHANGED <<phase, rx, dev, saved>>
        /\ Len(parts.got) = 2 \/ rx = <<>>
        /\ \/ \E good \in BOOLEAN : Gathered(good)
           \/ rx = <<>> /\ Skip
    BY <1>10, CollectedCases
  <2>2. ASSUME rx = <<>>, Skip PROVE InStep'
    <3>1. Line' = <<>> /\ rx' = <<>>
      BY <2>1, <2>2, LineNext DEF NoParts
    <3>. QED BY <1>3, <2>1, <2>2, <3>1, Kept DEF Skip, InOrder, StraysFirst
  <2>. QED BY <1>3, <2>1, <2>2, GatheredRead
<1>11. CASE SendEncrypted
  <2>1. /\ pc = "sending" /\ UNCHANGED <<phase, parts, rx, saved, hi, last, seen>> /\ dev'.it = dev.it
    BY <1>11 DEF SendEncrypted, Skip, LinkTypeOK
  <2>2. Line' = Line
    BY <2>1 DEF Line
  <2>. QED BY <1>3, <2>1, <2>2, Kept DEF InStep
<1>12. CASE WaitAnswer
  <2>1. pc = "answer" /\ UNCHANGED <<phase, dev, saved>>
    BY <1>12, WaitCases
  <2>2. ASSUME NEW good \in BOOLEAN, Answering(good) PROVE InStep'
    <3>1. ~Half(Head(rx)) /\ \E whole \in BOOLEAN, ok \in BOOLEAN : Decrypt(Head(rx), whole, TRUE, ok)
      <4>1. ~Half(Head(rx))
        BY <2>2 DEF Answering, Half
      <4>2. Decrypt(Head(rx), TRUE, TRUE, good)
        BY <2>2 DEF Answering
      <4>. QED BY <4>1, <4>2, Zenon
    <3>. QED BY <1>3, <2>1, <2>2, <3>1, FrameRead DEF Answering
  <2>3. CASE Skipping
    BY <1>3, <2>1, <2>3, FrameRead DEF Skipping
  <2>4. CASE Header
    BY <1>3, <2>1, <2>4, HeaderRead DEF Header
  <2>5. CASE TimedOut
    <3>1. Line' = Line /\ UNCHANGED <<hi, last, seen, rx>>
      BY <2>5 DEF TimedOut, Skip, Line
    <3>. QED BY <1>3, <2>1, <3>1, Kept DEF InStep
  <2>. QED BY <1>12, <2>2, <2>3, <2>4, <2>5, WaitCases
<1>13. CASE ChargerAnswers \/ ChargerPushes
  BY <1>3, <1>13, ChargerSent
<1>14. CASE ChargerChanges
  <2>1. dev'.it = dev.it /\ AppIdle /\ rx' = rx /\ Line' = Line
    BY <1>14 DEF ChargerChanges, AppIdle, LinkTypeOK, Line
  <2>. QED BY <1>3, <2>1, Kept DEF InStep, AppIdle
<1>15. CASE Lose
  <2>1. PICK i \in 1..Len(rx) : rx' = SubSeq(rx, 1, i - 1) \o SubSeq(rx, i + 1, Len(rx))
    BY <1>15 DEF Lose
  <2>2. rx \in Seq(Frames) /\ parts.got \in Seq(Frames) /\ parts' = parts /\ rx' \in Seq(Frames)
    BY <1>15 DEF LinkTypeOK, Lose, AppIdle
  <2>3. Without(rx', rx, i) /\ Without(Line', Line, Len(parts.got) + i)
    BY <2>1, <2>2, WithoutFacts DEF Line
  <2>4. /\ InOrder(Line', seen, dev.it)
        /\ \A j \in DOMAIN Line' : \E k \in DOMAIN Line : Line'[j] = Line[k]
    BY <1>3, <2>3, Fewer
  <2>5. pc # "collect" => StraysFirst(rx')
    BY <1>3, <2>2, <2>3, StraysWithout DEF InStep
  <2>. QED BY <1>3, <1>15, <2>4, <2>5, Kept DEF Lose, AppIdle
<1>16. CASE LinkLost
  BY <1>16 DEF LinkLost, GiveUp, Opened
<1>. QED BY <1>3, <1>4, <1>5, <1>6, <1>7, <1>8, <1>9, <1>10, <1>11, <1>12, <1>13, <1>14, <1>15, <1>16
    DEF LinkStep, Open, Loop, Window

-----------------------------------------------------------------------------
(* The channel over a device's whole life. *)

LEMMA ChanInit == Init => ChanInv
<1>. SUFFICES ASSUME Init PROVE ChanInv
  OBVIOUS
<1>1. LinkInit
  BY DEF Init
<1>2. /\ 0 \in Counters /\ 0 \in 0..HIGHS - 1 /\ 0 \in 0..W - 1 /\ 0 \in 0..MaxVal /\ 0 \in 0..MaxSet /\ 0 \in 0..PushMax
      /\ 0 \in 0..DECRYPT_FAIL_LIMIT /\ 0 \in 0..VERIFY_FAIL_LIMIT /\ 0 \in 0..Faults /\ <<>> \in Seq(Frames)
      /\ 0 < VERIFY_FAIL_LIMIT /\ 0 < W \div 2
  BY Circle, LinkAssumption
<1>3. NoParts \in [for : {"main", "answer"}, got : Seq(Frames)]
  BY <1>2 DEF NoParts
<1>4. dev.it = 0 /\ dev.set = 0 /\ dev.job = NoCmd /\ dev \in DevRecords
  BY <1>1, <1>2, CmdFacts DEF LinkInit, DevRecords
<1>5. LinkTypeOK
  BY <1>1, <1>2, <1>3, <1>4, CmdFacts DEF LinkInit, LinkTypeOK, Pcs, DevRecords
<1>6. Shape
  BY <1>1, <1>2, <1>4, CmdFacts DEF LinkInit, Shape
<1>7. DoneInv
  BY <1>1, <1>4, CmdFacts DEF LinkInit, DoneInv
<1>8. ~Opened
  BY <1>1 DEF LinkInit, Opened
<1>. QED BY <1>5, <1>6, <1>7, <1>8 DEF ChanInv

LEMMA ChanStep == ChanInv /\ [Next]_sessionVars => ChanInv'
<1>. SUFFICES ASSUME ChanInv, [Next]_sessionVars PROVE ChanInv'
  OBVIOUS
<1>1. CASE UNCHANGED linkVars
  <2>1. LinkTypeOK'
    BY <1>1 DEF linkVars, ChanInv, LinkTypeOK
  <2>2. Shape' /\ (Opened' <=> Opened) /\ garbled' = garbled
    BY <1>1 DEF linkVars, ChanInv, Shape, Opened
  <2>3. DoneInv'
    BY <1>1 DEF linkVars, ChanInv, DoneInv, AtHand
  <2>4. InStep => InStep'
    BY <1>1 DEF linkVars, InStep, Line, InBoot
  <2>. QED BY <2>1, <2>2, <2>3, <2>4 DEF ChanInv
<1>2. CASE Close \/ Connect \/ LinkStep
  <2>1. LinkTypeOK' /\ Shape' /\ DoneInv'
    BY <1>2, LinkTypeStep, ShapeStep, DoneStep DEF ChanInv
  <2>2. Opened' /\ ~garbled' => InStep'
    BY <1>2, <2>1, InStepStep DEF ChanInv
  <2>. QED BY <2>1, <2>2 DEF ChanInv
<1>3. UNCHANGED linkVars \/ Close \/ Connect \/ LinkStep
  BY DEF Next, Handshake, LoggedIn, Linked, sessionVars
<1>. QED BY <1>1, <1>2, <1>3

\* Both ends of the channel agree for as long as the link lives, and a SET that
\* was reported done on its own answer was executed by the charger.
THEOREM ChannelTheorem == Spec => []ChannelHolds
<1>1. ChanInv => ChannelHolds
  BY DEF ChanInv, ChannelHolds, DoneInv, DoneMeansExecuted, CounterInStep, InStep, Opened
<1>. QED BY <1>1, ChanInit, ChanStep, PTL DEF Spec

-----------------------------------------------------------------------------
(* Readings are shown in their order. *)

Reading(f) == f.k \in {"push", "get"}

\* No reading is ahead of the charger's, and only a SET is acknowledged.
TrueInv ==
    /\ shown <= dev.val
    /\ \A j \in DOMAIN Line : Reading(Line[j]) => Line[j].v <= dev.val
    /\ \A i \in DOMAIN saved : Reading(saved[i]) => saved[i].v <= dev.val
    /\ acked # 0 => cmd.op = "set"

\* Who was sent later has the newer reading: all that is still to be decrypted is
\* newer than what is shown, and than the pushes that are kept for later.
InTurn ==
    /\ \A j \in DOMAIN Line : Reading(Line[j]) => shown <= Line[j].v
    /\ \A i, j \in DOMAIN Line :
         Reading(Line[i]) /\ Reading(Line[j]) /\ Off(Line[j].it, dev.it) <= Off(Line[i].it, dev.it)
            => Line[i].v <= Line[j].v
    /\ \A i \in DOMAIN saved, j \in DOMAIN Line :
         Reading(saved[i]) /\ Reading(Line[j]) => saved[i].v <= Line[j].v

ReadingInv == TrueInv /\ (Opened /\ ~garbled => InTurn)

LEMMA ReadingFacts ==
    /\ LinkTypeOK => shown \in Nat
    /\ \A f \in Frames : Reading(f) => f.v \in Nat
<1>1. MaxVal \in Nat
  BY LinkAssumption
<1>2. \A f \in Frames : Reading(f) => f.v \in 0..MaxVal
  BY FrameFacts DEF Reading
<1>. QED BY <1>1, <1>2 DEF LinkTypeOK

Alike(f, g) == f.it = g.it /\ f.k = g.k /\ f.v = g.v
\* The frame that the charger sends in this step.
New(f) == (ChargerAnswers \/ ChargerPushes) /\ f.it = dev.it /\ (Reading(f) => f.v = dev.val)
\* Every frame of q is one of r, or a part of one.
From(q, r) == \A j \in DOMAIN q : \E k \in DOMAIN r : Alike(q[j], r[k])

LEMMA HalvesAlike ==
    ASSUME NEW f \in Frames, f.part = 3
    PROVE  \A j \in DOMAIN Halves(f) : Alike(Halves(f)[j], f)
<1>1. f \in [k : {"push", "get"}, it : Counters, v : 0..MaxVal, part : 0..3]
  BY FrameFacts DEF Frames
<1>2. Halves(f) = <<[f EXCEPT !.part = 1], [f EXCEPT !.part = 2]>>
  BY DEF Halves
<1>3. \A p \in {1, 2} : Alike([f EXCEPT !.part = p], f)
  BY <1>1 DEF Alike
<1>4. DOMAIN Halves(f) = 1..2
  BY <1>2
<1>. QED BY <1>2, <1>3, <1>4

LEMMA FromFacts ==
    ASSUME NEW q \in Seq(Frames)
    PROVE  /\ From(q, q)
           /\ From(<<>>, q)
           /\ q # <<>> => From(Tail(q), q)
           /\ q # <<>> /\ Head(q).part = 3 => From(Tail(q) \o Halves(Head(q)), q)
           /\ \A i \in DOMAIN q : q[i].part = 3 => From(Halves(q[i]), q)
           /\ \A M \in Seq(Frames) : \A p : Without(M, q, p) => From(M, q)
<1>1. From(q, q) /\ From(<<>>, q)
  BY DEF From, Alike
<1>2. ASSUME NEW M \in Seq(Frames), NEW p, Without(M, q, p) PROVE From(M, q)
  <2>1. \A j \in DOMAIN M : (IF j < p THEN j ELSE j + 1) \in DOMAIN q /\ M[j] = q[IF j < p THEN j ELSE j + 1]
    BY <1>2 DEF Without
  <2>. QED BY <2>1 DEF From, Alike
<1>3. ASSUME q # <<>> PROVE From(Tail(q), q)
  BY <1>2, <1>3, WithoutFacts, QueueFacts
<1>4. ASSUME NEW i \in DOMAIN q, q[i].part = 3 PROVE From(Halves(q[i]), q)
  <2>1. q[i] \in Frames
    OBVIOUS
  <2>2. \A j \in DOMAIN Halves(q[i]) : Alike(Halves(q[i])[j], q[i])
    BY <1>4, <2>1, HalvesAlike
  <2>. QED BY <2>2 DEF From
<1>5. ASSUME q # <<>>, Head(q).part = 3 PROVE From(Tail(q) \o Halves(Head(q)), q)
  <2>. DEFINE t == Tail(q)
              h == Halves(Head(q))
  <2>1. /\ 1 \in DOMAIN q /\ Head(q) = q[1] /\ t \in Seq(Frames) /\ h \in Seq(Frames)
        /\ From(t, q) /\ From(h, q)
    BY <1>3, <1>4, <1>5, HalvesFacts
  <2>. HIDE DEF t, h
  <2>2. \A j \in 1..Len(t) + Len(h) : (t \o h)[j] = IF j <= Len(t) THEN t[j] ELSE h[j - Len(t)]
    BY <2>1, ConcatProperties
  <2>3. ASSUME NEW j \in DOMAIN (t \o h) PROVE \E k \in DOMAIN q : Alike((t \o h)[j], q[k])
    <3>1. j \in 1..Len(t) + Len(h) /\ Len(t) \in Nat /\ Len(h) \in Nat
      BY <2>1, <2>3, ConcatProperties
    <3>2. CASE j <= Len(t)
      <4>1. j \in DOMAIN t /\ (t \o h)[j] = t[j]
        BY <2>1, <2>2, <3>1, <3>2
      <4>. QED BY <2>1, <4>1 DEF From
    <3>3. CASE j > Len(t)
      <4>1. j - Len(t) \in DOMAIN h /\ (t \o h)[j] = h[j - Len(t)]
        BY <2>1, <2>2, <3>1, <3>3
      <4>. QED BY <2>1, <4>1 DEF From
    <3>. QED BY <3>1, <3>2, <3>3
  <2>4. From(t \o h, q)
    BY <2>3 DEF From
  <2>. QED BY <2>4 DEF t, h
<1>. QED BY <1>1, <1>2, <1>3, <1>4, <1>5

\* Behind the parts that were collected stands the queue.
LEMMA BehindParts ==
    ASSUME LinkTypeOK
    PROVE  /\ \A i \in DOMAIN parts.got : i \in DOMAIN Line /\ Line[i] = parts.got[i]
           /\ \A j \in DOMAIN rx : Len(parts.got) + j \in DOMAIN Line /\ Line[Len(parts.got) + j] = rx[j]
<1>1. parts.got \in Seq(Frames) /\ rx \in Seq(Frames)
  BY DEF LinkTypeOK
<1>2. /\ Line \in Seq(Frames) /\ Len(Line) = Len(parts.got) + Len(rx)
      /\ \A i \in 1..Len(parts.got) + Len(rx) :
            Line[i] = IF i <= Len(parts.got) THEN parts.got[i] ELSE rx[i - Len(parts.got)]
  BY <1>1, ConcatProperties DEF Line
<1>3. Len(parts.got) \in Nat /\ Len(rx) \in Nat /\ DOMAIN Line = 1..Len(parts.got) + Len(rx)
  BY <1>1, <1>2
<1>4. \A i \in DOMAIN parts.got : i \in DOMAIN Line /\ Line[i] = parts.got[i]
  BY <1>1, <1>2, <1>3
<1>5. ASSUME NEW j \in DOMAIN rx PROVE Len(parts.got) + j \in DOMAIN Line /\ Line[Len(parts.got) + j] = rx[j]
  <2>1. j \in 1..Len(rx) /\ Len(parts.got) + j \in 1..Len(parts.got) + Len(rx)
        /\ ~(Len(parts.got) + j <= Len(parts.got)) /\ Len(parts.got) + j - Len(parts.got) = j
    BY <1>1, <1>3, <1>5
  <2>. QED BY <1>2, <1>3, <2>1
<1>. QED BY <1>4, <1>5

LEMMA SentIsNew ==
    ASSUME LinkTypeOK, ChargerAnswers \/ ChargerPushes
    PROVE  \E f \in Frames : rx' = Append(rx, f) /\ New(f)
<1>1. /\ dev.it \in Counters /\ dev.val \in 0..MaxVal /\ dev.job \in Cmds
      /\ dev.job.op = "set" => dev.job.v \in 1..MaxSet
  BY CmdFacts DEF LinkTypeOK
<1>2. \A k \in {"push", "get"}, p \in {0, 3} : Frame(k, dev.val, p) \in Frames
  BY <1>1 DEF Frame, Frames
<1>3. dev.job.op = "set" => \A k \in {"ack", "result"} : Frame(k, dev.job.v, 0) \in Frames
  BY <1>1 DEF Frame, Frames
<1>4. \A k, v, p : Frame(k, v, p).k = k /\ Frame(k, v, p).it = dev.it /\ Frame(k, v, p).v = v
  BY DEF Frame
<1>5. /\ \A k \in {"push", "get"}, p \in {0, 3} : New(Frame(k, dev.val, p))
      /\ \A k \in {"ack", "result"} : \A v : New(Frame(k, v, 0))
  BY <1>4 DEF New, Reading
<1>. QED BY <1>2, <1>3, <1>5 DEF ChargerAnswers, ChargerPushes

\* Whatever a step does, what is to be decrypted was it before, but for what the
\* charger sends.
LEMMA LineFrom ==
    ASSUME LinkTypeOK, LinkTypeOK', Shape, Close \/ Connect \/ LinkStep
    PROVE  From(Line', Line) \/ \E f \in Frames : New(f) /\ Line' = Append(Line, f)
<1>1. /\ Line \in Seq(Frames) /\ Line' \in Seq(Frames) /\ rx \in Seq(Frames) /\ rx' \in Seq(Frames)
      /\ parts.got \in Seq(Frames) /\ From(Line, Line) /\ From(<<>>, Line)
      /\ pc \notin {"collect", "down"} => Line = rx /\ parts.got = <<>>
      /\ parts'.got = <<>> => Line' = rx'
  BY LineFacts, LineNext, FromFacts DEF Shape, NoParts, LinkTypeOK
<1>2. CASE Close \/ SetupCmdChannel
  <2>1. rx' = <<>> /\ parts'.got = <<>>
    BY <1>1, <1>2 DEF Close, SetupCmdChannel, NoParts
  <2>. QED BY <1>1, <2>1
<1>3. CASE Connect \/ Replay \/ SendEncrypted \/ ChargerChanges \/ LinkLost
  <2>1. rx' = rx /\ parts' = parts
    BY <1>3, Zenon DEF Connect, Replay, SendEncrypted, ChargerChanges, LinkLost, AppIdle
  <2>. QED BY <1>1, <2>1 DEF Line
<1>4. CASE SaveInitPush \/ TakeFrame \/ TakeHeader
  <2>1. pc \in {"drain", "main"} /\ rx # <<>> /\ (parts' = parts \/ parts' = NoParts)
    BY <1>4, Zenon DEF SaveInitPush, TakeFrame, TakeHeader
  <2>2. pc \notin {"collect", "down"} /\ parts'.got = <<>>
    BY <1>1, <2>1 DEF NoParts
  <2>3. rx' = Tail(rx) \/ (Head(rx).part = 3 /\ rx' = Tail(rx) \o Halves(Head(rx)))
    BY <1>4, Zenon DEF SaveInitPush, TakeFrame, TakeHeader
  <2>. QED BY <1>1, <2>1, <2>2, <2>3, FromFacts
<1>5. CASE Poll \/ Set \/ ReadInitialSettings
  <2>1. PICK c : Send(c)
    BY <1>5, Zenon DEF Poll, Set, ReadInitialSettings
  <2>2. pc \notin {"collect", "down"} /\ parts'.got = <<>>
    BY <1>1, <1>5 DEF Poll, Set, ReadInitialSettings
  <2>3. rx' = <<>> \/ \E i \in DOMAIN rx : rx[i].part = 3 /\ rx' = Halves(rx[i])
    BY <1>1, <2>1 DEF Send
  <2>. QED BY <1>1, <2>2, <2>3, FromFacts
<1>6. CASE Collect
  BY <1>1, <1>6, CollectKeeps
<1>7. CASE Collected
  <2>1. Line' = rx
    BY <1>1, <1>7, CollectedCases DEF NoParts
  <2>2. ASSUME NEW j \in DOMAIN rx PROVE Len(parts.got) + j \in DOMAIN Line /\ Line[Len(parts.got) + j] = rx[j]
    BY <1>1, <2>2, BehindParts
  <2>. QED BY <2>1, <2>2 DEF From, Alike
<1>8. CASE WaitAnswer
  <2>1. pc = "answer"
    BY <1>8 DEF WaitAnswer
  <2>2. CASE Skipping \/ \E good \in BOOLEAN : Answering(good)
    <3>1. rx # <<>> /\ rx' = Tail(rx) /\ parts' = parts
      BY <2>2 DEF Answering, Skipping
    <3>. QED BY <1>1, <2>1, <3>1, FromFacts
  <2>3. CASE Header
    <3>1. rx # <<>> /\ Head(rx).part = 3 /\ rx' = Tail(rx) \o Halves(Head(rx)) /\ parts'.got = <<>>
      BY <2>3 DEF Header
    <3>. QED BY <1>1, <2>1, <3>1, FromFacts
  <2>4. CASE TimedOut
    BY <1>1, <2>4 DEF TimedOut, Line
  <2>. QED BY <1>8, <2>2, <2>3, <2>4, WaitCases
<1>9. CASE ChargerAnswers \/ ChargerPushes
  <2>1. PICK f \in Frames : rx' = Append(rx, f) /\ New(f)
    BY <1>9, SentIsNew
  <2>2. parts' = parts
    BY <1>9, Zenon DEF ChargerAnswers, ChargerPushes, AppIdle
  <2>. QED BY <2>1, <2>2, LineGrows
<1>10. CASE Lose
  <2>1. PICK i \in 1..Len(rx) : rx' = SubSeq(rx, 1, i - 1) \o SubSeq(rx, i + 1, Len(rx))
    BY <1>10 DEF Lose
  <2>2. parts' = parts
    BY <1>10 DEF Lose, AppIdle
  <2>3. Without(Line', Line, Len(parts.got) + i)
    BY <1>1, <2>1, <2>2, WithoutFacts DEF Line
  <2>. QED BY <1>1, <2>3, FromFacts
<1>. QED BY <1>2, <1>3, <1>4, <1>5, <1>6, <1>7, <1>8, <1>9, <1>10 DEF LinkStep, Open, Loop, Window

\* What is shown is what it was, or a reading that was decrypted.
Replayed == pc = "replay" /\ saved # <<>> /\ Reading(Head(saved)) /\ shown' = Head(saved).v /\ UNCHANGED <<rx, parts>>
HeadShown ==
    /\ pc \notin {"collect", "down"} /\ rx # <<>> /\ Head(rx).part = 0 /\ Reading(Head(rx))
    /\ rx' = Tail(rx) /\ parts' = parts /\ shown' = Head(rx).v
PartsShown ==
    /\ pc = "collect" /\ Complete(parts.got) /\ Reading(parts.got[1])
    /\ rx' = rx /\ parts' = NoParts /\ shown' = parts.got[1].v

LEMMA WindowShows ==
    ASSUME NEW f, InWindow(f)
    PROVE  shown' = shown \/ (Reading(f) /\ shown' = f.v)
BY Zenon DEF InWindow, Answered, Reading

LEMMA MainShows ==
    ASSUME NEW good, NEW f, NEW next, Process(good, f, next)
    PROVE  shown' = shown \/ (good /\ Reading(f) /\ shown' = f.v)
BY DEF Process, Reading

LEMMA LateShows ==
    ASSUME LinkTypeOK, acked # 0 => cmd.op = "set", Late
    PROVE  shown' = shown
<1>1. ASSUME acked # 0, Answered(0, acked = cmd.v) PROVE shown' = shown
  BY <1>1 DEF Answered
<1>2. Unanswered => shown' = shown
  BY DEF Unanswered
<1>. QED BY <1>1, <1>2 DEF Late

LEMMA ShownFrom ==
    ASSUME LinkTypeOK, Shape, TrueInv, Close \/ Connect \/ LinkStep
    PROVE  /\ shown' = shown \/ Replayed \/ HeadShown \/ PartsShown
           /\ shown' # shown => dev' = dev /\ (saved' = saved \/ saved' = Tail(saved))
<1>1. CASE Close \/ Connect \/ SetupCmdChannel \/ SaveInitPush \/ Collect \/ TakeHeader
  BY <1>1, Zenon DEF Close, Connect, SetupCmdChannel, SaveInitPush, Collect, TakeHeader
<1>2. CASE ChargerAnswers \/ ChargerPushes \/ ChargerChanges \/ Lose \/ LinkLost
  BY <1>2, Zenon DEF ChargerAnswers, ChargerPushes, ChargerChanges, Lose, LinkLost, AppIdle
<1>3. CASE Poll \/ Set \/ ReadInitialSettings
  BY <1>3, Zenon DEF Poll, Set, ReadInitialSettings
<1>4. CASE SendEncrypted
  BY <1>4, Zenon DEF SendEncrypted, Unanswered
<1>5. CASE Replay
  <2>1. ASSUME NEW good \in BOOLEAN, saved # <<>>, Process(good, Head(saved), "replay")
        PROVE  shown' = shown \/ (Reading(Head(saved)) /\ shown' = Head(saved).v)
    BY <2>1, MainShows
  <2>2. pc = "replay" /\ UNCHANGED <<rx, parts, dev>> /\ (saved' = Tail(saved) \/ saved' = saved)
    BY <1>5 DEF Replay
  <2>3. shown' = shown \/ (saved # <<>> /\ Reading(Head(saved)) /\ shown' = Head(saved).v)
    BY <1>5, <2>1 DEF Replay
  <2>. QED BY <2>2, <2>3 DEF Replayed
<1>6. CASE TakeFrame
  <2>1. PICK good \in BOOLEAN : /\ Decrypt(Head(rx), Head(rx).part = 0, Head(rx).part = 0, good)
                                /\ Process(good, Head(rx), "main")
    BY <1>6 DEF TakeFrame
  <2>2. good => Head(rx).part = 0
    BY <2>1 DEF Decrypt
  <2>3. pc = "main" /\ rx # <<>> /\ rx' = Tail(rx) /\ UNCHANGED <<parts, dev, saved>>
    BY <1>6 DEF TakeFrame
  <2>4. shown' = shown \/ (good /\ Reading(Head(rx)) /\ shown' = Head(rx).v)
    BY <2>1, MainShows
  <2>. QED BY <2>2, <2>3, <2>4 DEF HeadShown
<1>7. CASE Collected
  <2>1. pc = "collect" /\ parts' = NoParts /\ UNCHANGED <<rx, dev, saved>>
    BY <1>7, CollectedCases
  <2>2. ASSUME NEW good \in BOOLEAN, Gathered(good)
        PROVE  shown' = shown \/ (Complete(parts.got) /\ Reading(parts.got[1]) /\ shown' = parts.got[1].v)
    <3>1. PICK first : Decrypt(parts.got[1], Complete(parts.got), first, good)
      BY <2>2, Zenon DEF Gathered
    <3>2. good => Complete(parts.got)
      BY <3>1 DEF Decrypt
    <3>3. CASE Process(good, parts.got[1], "main")
      BY <3>2, <3>3, MainShows
    <3>4. CASE IF good THEN InWindow(parts.got[1]) ELSE Ignored
      BY <3>2, <3>4, WindowShows DEF Ignored
    <3>. QED BY <2>2, <3>3, <3>4 DEF Gathered
  <2>3. shown' = shown \/ (Complete(parts.got) /\ Reading(parts.got[1]) /\ shown' = parts.got[1].v)
    BY <1>7, <2>2, CollectedCases
  <2>. QED BY <2>1, <2>3 DEF PartsShown
<1>8. CASE WaitAnswer
  <2>1. pc = "answer" /\ dev' = dev /\ saved' = saved
    BY <1>8 DEF WaitAnswer
  <2>2. ASSUME NEW good \in BOOLEAN, Answering(good) PROVE shown' = shown \/ HeadShown
    <3>1. shown' = shown \/ (Reading(Head(rx)) /\ shown' = Head(rx).v)
      BY <2>2, WindowShows DEF Answering, Ignored
    <3>. QED BY <2>1, <2>2, <3>1 DEF Answering, HeadShown
  <2>3. Skipping \/ Header => shown' = shown
    BY DEF Skipping, Header, Ignored
  <2>4. TimedOut => shown' = shown
    BY LateShows DEF TimedOut, TrueInv
  <2>. QED BY <1>8, <2>1, <2>2, <2>3, <2>4, WaitCases
<1>. QED BY <1>1, <1>2, <1>3, <1>4, <1>5, <1>6, <1>7, <1>8 DEF LinkStep, Open, Loop, Window

LEMMA AckedStep ==
    ASSUME LinkTypeOK, acked # 0 => cmd.op = "set", Close \/ Connect \/ LinkStep
    PROVE  acked' # 0 => cmd'.op = "set"
<1>0. /\ \A v, own : Answered(v, own) => acked' = 0
      /\ Unanswered => acked' = 0
      /\ \A c : Send(c) => acked' = 0
      /\ Late => acked' = 0
      /\ \A f : InWindow(f) => acked' = 0 \/ UNCHANGED <<cmd, acked>> \/ (cmd.op = "set" /\ cmd' = cmd)
      /\ Ignored => UNCHANGED <<cmd, acked>>
  BY Zenon DEF Answered, Unanswered, Send, Late, InWindow, Ignored
<1>1. CASE Close \/ Connect \/ SetupCmdChannel \/ SaveInitPush \/ Replay \/ TakeFrame \/ TakeHeader \/ Collect
  <2>1. acked' = 0 \/ UNCHANGED <<cmd, acked>>
    BY <1>1, Zenon DEF Close, Connect, SetupCmdChannel, SaveInitPush, Replay, TakeFrame, TakeHeader, Collect
  <2>. QED BY <2>1
<1>2. CASE ChargerAnswers \/ ChargerPushes \/ ChargerChanges \/ Lose \/ LinkLost
  <2>1. UNCHANGED <<cmd, acked>>
    BY <1>2, Zenon DEF ChargerAnswers, ChargerPushes, ChargerChanges, Lose, LinkLost, AppIdle
  <2>. QED BY <2>1
<1>3. CASE Poll \/ Set \/ ReadInitialSettings
  BY <1>0, <1>3, Zenon DEF Poll, Set, ReadInitialSettings
<1>4. CASE SendEncrypted
  <2>1. acked' = 0 \/ UNCHANGED <<cmd, acked>>
    BY <1>0, <1>4, Zenon DEF SendEncrypted
  <2>. QED BY <2>1
<1>5. CASE Collected
  <2>1. acked' = 0 \/ UNCHANGED <<cmd, acked>> \/ (cmd.op = "set" /\ cmd' = cmd)
    BY <1>0, <1>5, CollectedCases, Zenon DEF Gathered
  <2>. QED BY <2>1
<1>6. CASE WaitAnswer
  <2>1. acked' = 0 \/ UNCHANGED <<cmd, acked>> \/ (cmd.op = "set" /\ cmd' = cmd)
    BY <1>0, <1>6, WaitCases, Zenon DEF Answering, Skipping, Header, TimedOut
  <2>. QED BY <2>1
<1>. QED BY <1>1, <1>2, <1>3, <1>4, <1>5, <1>6 DEF LinkStep, Open, Loop, Window

\* The charger's reading goes on, and its counter moves with what it sends.
LEMMA DevGrows ==
    ASSUME LinkTypeOK, Close \/ Connect \/ LinkStep
    PROVE  /\ dev.val \in Nat /\ dev'.val \in Nat /\ dev.val <= dev'.val
           /\ ChargerAnswers \/ ChargerPushes => dev'.val = dev.val
           /\ ~Close /\ ~ChargerAnswers /\ ~ChargerPushes => dev'.it = dev.it
<1>1. dev \in DevRecords /\ dev.val \in Nat
  BY DEF LinkTypeOK, DevRecords
<1>2. CASE Close
  <2>1. dev' = [dev EXCEPT !.it = 0, !.job = NoCmd, !.pushes = 0]
    BY <1>2 DEF Close
  <2>2. ~ChargerAnswers /\ ~ChargerPushes
    BY <1>2 DEF Close, ChargerAnswers, ChargerPushes, AppIdle
  <2>. QED BY <1>1, <1>2, <2>1, <2>2 DEF DevRecords
<1>3. CASE ChargerAnswers \/ ChargerPushes
  <2>1. /\ [dev EXCEPT !.job = NoCmd, !.it = Next1(@)].val = dev.val
        /\ \A v : [dev EXCEPT !.job = NoCmd, !.it = Next1(@), !.set = v].val = dev.val
        /\ [dev EXCEPT !.it = Next1(@), !.pushes = @ + 1].val = dev.val
    BY <1>1 DEF DevRecords
  <2>2. dev'.val = dev.val
    BY <1>3, <2>1, Zenon DEF ChargerAnswers, ChargerPushes
  <2>. QED BY <1>1, <1>3, <2>2
<1>4. CASE ChargerChanges
  <2>1. dev' = [dev EXCEPT !.val = @ + 1]
    BY <1>4 DEF ChargerChanges
  <2>2. dev'.val = dev.val + 1 /\ dev'.it = dev.it
    BY <1>1, <2>1 DEF DevRecords
  <2>3. ~ChargerAnswers /\ ~ChargerPushes
    <3>1. rx' = rx
      BY <1>4 DEF ChargerChanges
    <3>2. ASSUME ChargerAnswers \/ ChargerPushes PROVE FALSE
      <4>1. PICK f \in Frames : rx' = Append(rx, f)
        BY <3>2, SentIsNew
      <4>2. rx \in Seq(Frames)
        BY DEF LinkTypeOK
      <4>. QED BY <3>1, <4>1, <4>2
    <3>. QED BY <3>2
  <2>. QED BY <1>1, <2>2, <2>3
<1>5. CASE Poll \/ Set \/ ReadInitialSettings
  <2>1. dev' = [dev EXCEPT !.pushes = 0]
    BY <1>5, Zenon DEF Poll, Set, ReadInitialSettings, Send
  <2>2. dev'.val = dev.val /\ dev'.it = dev.it
    BY <1>1, <2>1 DEF DevRecords
  <2>. QED BY <1>1, <2>2
<1>6. CASE SendEncrypted
  <2>1. dev' = dev \/ dev' = [dev EXCEPT !.job = cmd]
    BY <1>6 DEF SendEncrypted
  <2>2. dev'.val = dev.val /\ dev'.it = dev.it
    BY <1>1, <2>1 DEF DevRecords
  <2>. QED BY <1>1, <2>2
<1>7. CASE Connect \/ SetupCmdChannel \/ SaveInitPush \/ Replay \/ TakeFrame \/ TakeHeader \/ Collect \/ Collected
           \/ WaitAnswer \/ Lose \/ LinkLost
  <2>1. dev' = dev
    BY <1>7, Zenon DEF Connect, SetupCmdChannel, SaveInitPush, Replay, TakeFrame, TakeHeader, Collect, Collected,
                       WaitAnswer, Lose, LinkLost
  <2>. QED BY <1>1, <2>1
<1>. QED BY <1>2, <1>3, <1>4, <1>5, <1>6, <1>7 DEF LinkStep, Open, Loop, Window

LEMMA SavedFrom ==
    ASSUME LinkTypeOK, Shape, Close \/ Connect \/ LinkStep
    PROVE  /\ \A i \in DOMAIN saved' : \/ \E k \in DOMAIN saved : saved'[i] = saved[k]
                                       \/ SaveInitPush /\ rx # <<>> /\ Head(rx).part = 0 /\ saved'[i] = Head(rx)
           /\ ChargerAnswers \/ ChargerPushes => saved' = saved
<1>0. saved \in Seq(Frames)
  BY DEF LinkTypeOK
<1>1. CASE Close
  <2>1. saved' = <<>>
    BY <1>1 DEF Close
  <2>2. ChargerAnswers \/ ChargerPushes => saved' = saved
    BY DEF ChargerAnswers, ChargerPushes, AppIdle
  <2>. QED BY <2>1, <2>2
<1>2. CASE SaveInitPush
  <2>1. rx # <<>> /\ saved' = (IF Head(rx).part = 0 THEN Append(saved, Head(rx)) ELSE saved) /\ rx' = Tail(rx)
    BY <1>2 DEF SaveInitPush
  <2>2. \A i \in DOMAIN saved' : \/ \E k \in DOMAIN saved : saved'[i] = saved[k]
                                 \/ SaveInitPush /\ rx # <<>> /\ Head(rx).part = 0 /\ saved'[i] = Head(rx)
    <3>1. CASE Head(rx).part # 0
      BY <2>1, <3>1
    <3>2. CASE Head(rx).part = 0
      <4>1. saved' = Append(saved, Head(rx))
        BY <2>1, <3>2
      <4>2. DOMAIN saved' = 1..Len(saved) + 1 /\ DOMAIN saved = 1..Len(saved) /\ Len(saved) \in Nat
            /\ saved'[Len(saved) + 1] = Head(rx) /\ \A i \in 1..Len(saved) : saved'[i] = saved[i]
        BY <1>0, <4>1
      <4>3. \A i \in DOMAIN saved' : i \in 1..Len(saved) \/ i = Len(saved) + 1
        BY <4>2
      <4>. QED BY <1>2, <2>1, <3>2, <4>2, <4>3
    <3>. QED BY <3>1, <3>2
  <2>3. ChargerAnswers \/ ChargerPushes => saved' = saved
    BY DEF ChargerAnswers, ChargerPushes, AppIdle
  <2>. QED BY <2>2, <2>3
<1>3. CASE Replay
  <2>1. saved' = saved \/ (saved # <<>> /\ saved' = Tail(saved))
    BY <1>3 DEF Replay
  <2>2. ChargerAnswers \/ ChargerPushes => saved' = saved
    BY DEF ChargerAnswers, ChargerPushes, AppIdle
  <2>. QED BY <1>0, <2>1, <2>2
<1>4. CASE ~Close /\ ~SaveInitPush /\ ~Replay
  <2>1. saved' = saved
    BY <1>4, Zenon DEF LinkStep, Open, Loop, Window, Connect, SetupCmdChannel, ReadInitialSettings, Poll, Set, TakeFrame,
       TakeHeader, Collect, Collected, WaitAnswer, SendEncrypted, ChargerAnswers, ChargerPushes, ChargerChanges, Lose,
       LinkLost, AppIdle
  <2>. QED BY <2>1
<1>. QED BY <1>1, <1>2, <1>3, <1>4

\* A reading that is to be decrypted: an older one, or the charger's.
LEMMA LineReadings ==
    ASSUME LinkTypeOK, LinkTypeOK', Shape, Close \/ Connect \/ LinkStep, NEW j \in DOMAIN Line', Reading(Line'[j])
    PROVE  \/ \E k \in DOMAIN Line : Alike(Line'[j], Line[k]) /\ Reading(Line[k])
           \/ (ChargerAnswers \/ ChargerPushes) /\ Line'[j].v = dev.val /\ Line'[j].it = dev.it
<1>1. CASE From(Line', Line)
  BY <1>1 DEF From, Alike, Reading
<1>2. ASSUME NEW f \in Frames, New(f), Line' = Append(Line, f)
      PROVE  \/ \E k \in DOMAIN Line : Alike(Line'[j], Line[k]) /\ Reading(Line[k])
             \/ (ChargerAnswers \/ ChargerPushes) /\ Line'[j].v = dev.val /\ Line'[j].it = dev.it
  <2>1. (j \in DOMAIN Line /\ Line'[j] = Line[j]) \/ Line'[j] = f
    BY <1>2, LineFacts
  <2>. QED BY <1>2, <2>1 DEF New, Alike
<1>. QED BY <1>1, <1>2, LineFrom

\* What is shown without having been kept stood first in line.
LEMMA FirstShown ==
    ASSUME LinkTypeOK, Shape, HeadShown \/ PartsShown
    PROVE  1 \in DOMAIN Line /\ Reading(Line[1]) /\ shown' = Line[1].v
<1>1. rx \in Seq(Frames) /\ parts.got \in Seq(Frames)
  BY DEF LinkTypeOK
<1>2. CASE HeadShown
  <2>1. Line = rx
    BY <1>2, LineFacts DEF HeadShown, Shape, NoParts
  <2>2. 1 \in DOMAIN rx /\ Head(rx) = rx[1]
    BY <1>1, <1>2 DEF HeadShown
  <2>. QED BY <1>2, <2>1, <2>2 DEF HeadShown
<1>3. CASE PartsShown
  <2>1. 1 \in DOMAIN parts.got
    BY <1>1, <1>3 DEF PartsShown, Complete
  <2>. QED BY <1>3, <2>1, BehindParts DEF PartsShown
<1>. QED BY <1>2, <1>3

LEMMA TrueStep ==
    ASSUME LinkTypeOK, LinkTypeOK', Shape, TrueInv, Close \/ Connect \/ LinkStep
    PROVE  TrueInv'
<1>1. dev.val \in Nat /\ dev'.val \in Nat /\ dev.val <= dev'.val
  BY DevGrows
<1>2. /\ Line \in Seq(Frames) /\ saved \in Seq(Frames) /\ rx \in Seq(Frames) /\ shown \in Nat
      /\ \A f \in Frames : Reading(f) => f.v \in Nat
  BY LineFacts, ReadingFacts
<1>3. ASSUME NEW j \in DOMAIN Line', Reading(Line'[j]) PROVE Line'[j].v <= dev'.val
  <2>1. CASE Line'[j].v = dev.val
    BY <1>1, <2>1
  <2>2. ASSUME NEW k \in DOMAIN Line, Alike(Line'[j], Line[k]), Reading(Line[k]) PROVE Line'[j].v <= dev'.val
    <3>1. Line[k].v \in Nat /\ Line[k].v <= dev.val
      BY <1>2, <2>2 DEF TrueInv
    <3>. QED BY <1>1, <2>2, <3>1 DEF Alike
  <2>. QED BY <1>3, <2>1, <2>2, LineReadings
<1>4. ASSUME NEW i \in DOMAIN saved', Reading(saved'[i]) PROVE saved'[i].v <= dev'.val
  <2>1. ASSUME NEW k \in DOMAIN saved, saved'[i] = saved[k] PROVE saved'[i].v <= dev'.val
    <3>1. saved[k].v \in Nat /\ saved[k].v <= dev.val
      BY <1>2, <1>4, <2>1 DEF TrueInv
    <3>. QED BY <1>1, <2>1, <3>1
  <2>2. ASSUME SaveInitPush, rx # <<>>, saved'[i] = Head(rx) PROVE saved'[i].v <= dev'.val
    <3>1. Line = rx
      BY <2>2, LineFacts DEF SaveInitPush, Shape, NoParts
    <3>2. 1 \in DOMAIN Line /\ Head(rx) = Line[1]
      BY <1>2, <2>2, <3>1
    <3>3. Line[1].v \in Nat /\ Line[1].v <= dev.val
      BY <1>2, <1>4, <2>2, <3>2 DEF TrueInv
    <3>. QED BY <1>1, <2>2, <3>2, <3>3
  <2>. QED BY <2>1, <2>2, SavedFrom
<1>5. shown' <= dev'.val
  <2>1. CASE shown' = shown
    BY <1>1, <1>2, <2>1 DEF TrueInv
  <2>2. CASE Replayed
    <3>1. 1 \in DOMAIN saved /\ Head(saved) = saved[1]
      BY <1>2, <2>2 DEF Replayed
    <3>2. saved[1].v \in Nat /\ saved[1].v <= dev.val /\ shown' = saved[1].v
      BY <1>2, <2>2, <3>1 DEF Replayed, TrueInv
    <3>. QED BY <1>1, <3>2
  <2>3. CASE HeadShown \/ PartsShown
    <3>1. 1 \in DOMAIN Line /\ Reading(Line[1]) /\ shown' = Line[1].v
      BY <2>3, FirstShown
    <3>2. Line[1].v \in Nat /\ Line[1].v <= dev.val
      BY <1>2, <3>1 DEF TrueInv
    <3>. QED BY <1>1, <3>1, <3>2
  <2>. QED BY <2>1, <2>2, <2>3, ShownFrom
<1>6. acked' # 0 => cmd'.op = "set"
  BY AckedStep DEF TrueInv
<1>. QED BY <1>3, <1>4, <1>5, <1>6 DEF TrueInv

\* The order of the counters, seen from the charger's.
LEMMA Ages ==
    ASSUME LinkTypeOK, InStep
    PROVE  /\ \A i \in DOMAIN Line : /\ Line[i].it \in Counters
                                     /\ Off(seen, Line[i].it) \in Nat /\ Off(seen, dev.it) \in Nat
                                     /\ Off(seen, Line[i].it) < Off(seen, dev.it)
                                     /\ Off(Line[i].it, dev.it) = Off(seen, dev.it) - Off(seen, Line[i].it)
<1>. SUFFICES ASSUME NEW i \in DOMAIN Line
              PROVE  /\ Line[i].it \in Counters
                     /\ Off(seen, Line[i].it) \in Nat /\ Off(seen, dev.it) \in Nat
                     /\ Off(seen, Line[i].it) < Off(seen, dev.it)
                     /\ Off(Line[i].it, dev.it) = Off(seen, dev.it) - Off(seen, Line[i].it)
  OBVIOUS
<1>1. seen \in Counters /\ dev.it \in Counters /\ Line[i].it \in Counters
  BY LineFacts
<1>2. Off(seen, Line[i].it) \in Nat /\ Off(seen, dev.it) \in Nat
  BY <1>1, OffNat
<1>3. Off(seen, Line[i].it) < Off(seen, dev.it)
  BY DEF InStep, InOrder
<1>4. Off(seen, Line[i].it) <= Off(seen, dev.it)
  BY <1>2, <1>3
<1>. QED BY <1>1, <1>2, <1>3, <1>4, OffShift

\* What is taken from the line to be shown or kept is the oldest of all that is in it.
HeadGoes ==
    /\ pc \notin {"collect", "down"} /\ rx # <<>> /\ ~Half(Head(rx))
    /\ rx' = Tail(rx) /\ parts' = parts

LEMMA OldestGoes ==
    ASSUME LinkTypeOK, Shape, InStep, HeadGoes \/ PartsShown
    PROVE  1 \in DOMAIN Line /\ \A j \in DOMAIN Line' : \E k \in DOMAIN Line :
              Line'[j] = Line[k] /\ Off(Line[k].it, dev.it) <= Off(Line[1].it, dev.it)
<1>1. 1 \in DOMAIN Line /\ Line \in Seq(Frames) /\ rx \in Seq(Frames)
  <2>1. HeadGoes => 1 \in DOMAIN rx /\ Line = rx
    BY LineFacts DEF HeadGoes, Shape, NoParts
  <2>. QED BY <2>1, FirstShown, LineFacts
<1>2. ASSUME NEW k \in DOMAIN Line, 1 < k, ~Half(Line[k]) PROVE Off(Line[k].it, dev.it) <= Off(Line[1].it, dev.it)
  <2>1. Off(seen, Line[1].it) < Off(seen, Line[k].it)
    BY <1>1, <1>2 DEF InStep, InOrder
  <2>. QED BY <1>1, <2>1, Ages
<1>3. CASE HeadGoes
  <2>1. /\ Line = rx /\ rx # <<>> /\ rx' = Tail(rx) /\ parts' = parts /\ parts.got = <<>>
        /\ \A i \in DOMAIN rx : ~Half(rx[i])
    BY <1>3, NoHalves DEF HeadGoes, Shape, NoParts
  <2>2. Line' = Tail(rx)
    <3>1. Tail(rx) \in Seq(Frames)
      BY <1>1, <2>1, QueueFacts
    <3>. QED BY <2>1, <3>1, ConcatEmptySeq DEF Line
  <2>3. \A j \in DOMAIN Tail(rx) : j + 1 \in DOMAIN rx /\ Tail(rx)[j] = rx[j + 1] /\ 1 < j + 1
    BY <1>1, <2>1
  <2>. QED BY <1>1, <1>2, <2>1, <2>2, <2>3
<1>4. CASE PartsShown
  <2>1. /\ Line' = rx /\ Len(parts.got) = 2 /\ parts.got[1].part = 1
        /\ parts.got \in Seq(Frames) /\ Line[1] = parts.got[1]
    <3>1. parts.got \in Seq(Frames) /\ Len(parts.got) = 2 /\ parts.got[1].part = 1 /\ 1 \in DOMAIN parts.got
      BY <1>4 DEF PartsShown, Complete, LinkTypeOK
    <3>2. Line' = rx
      BY <1>1, <1>4, ConcatEmptySeq DEF PartsShown, Line, NoParts
    <3>. QED BY <3>1, <3>2, BehindParts
  <2>2. ASSUME NEW j \in DOMAIN rx PROVE j + 2 \in DOMAIN Line /\ Line[j + 2] = rx[j] /\ 1 < j + 2 /\ ~Half(Line[j + 2])
    <3>1. 2 + j \in DOMAIN Line /\ Line[2 + j] = rx[j]
      BY <2>1, <2>2, BehindParts
    <3>2. j \in Nat /\ 2 + j = j + 2 /\ 1 < j + 2 /\ j + 2 # 1 + 1
      BY <1>1, <2>2
    <3>3. Line[j + 2].part # 1 /\ Line[j + 2].part # 2
      BY <1>1, <2>1, <3>1, <3>2 DEF InStep, InOrder
    <3>. QED BY <3>1, <3>2, <3>3 DEF Half
  <2>. QED BY <1>1, <1>2, <2>1, <2>2
<1>. QED BY <1>3, <1>4

\* Of the two readings of a line, the one with the younger counter is the newer one.
LEMMA OrderStep ==
    ASSUME LinkTypeOK, LinkTypeOK', Shape, InStep, TrueInv, InTurn, LinkStep,
           NEW i \in DOMAIN Line', NEW j \in DOMAIN Line', Reading(Line'[i]), Reading(Line'[j]),
           Off(Line'[j].it, dev'.it) <= Off(Line'[i].it, dev'.it)
    PROVE  Line'[i].v <= Line'[j].v
<1>. DEFINE Old(a) == \E k \in DOMAIN Line : Alike(Line'[a], Line[k]) /\ Reading(Line[k])
            Sent1(a) == Line'[a].v = dev.val /\ Line'[a].it = dev.it
            Sends == ChargerAnswers \/ ChargerPushes
<1>1. (Old(i) \/ (Sends /\ Sent1(i))) /\ (Old(j) \/ (Sends /\ Sent1(j)))
  BY LineReadings
<1>2. CASE ~Sends
  <2>1. PICK k \in DOMAIN Line : Alike(Line'[i], Line[k]) /\ Reading(Line[k])
    BY <1>1, <1>2
  <2>2. PICK m \in DOMAIN Line : Alike(Line'[j], Line[m]) /\ Reading(Line[m])
    BY <1>1, <1>2
  <2>3. dev'.it = dev.it \/ Line' = <<>>
    <3>1. ~Close => dev'.it = dev.it
      BY <1>2, DevGrows
    <3>2. Close => Line' = <<>>
      BY LineNext DEF Close, NoParts
    <3>. QED BY <3>1, <3>2
  <2>4. dev'.it = dev.it
    BY <2>3
  <2>. QED BY <2>1, <2>2, <2>4 DEF InTurn, Alike
<1>3. CASE Sends
  <2>1. /\ dev.it \in Counters /\ dev'.it = Next1(dev.it) /\ Off(seen, dev.it) < W \div 2
        /\ W \div 2 \in Nat /\ dev.val \in Nat /\ Off(seen, dev.it) \in Nat
    BY <1>3, ChargerMoves, LineFacts, Circle, OffNat, DevGrows DEF InStep
  <2>2. ASSUME NEW k \in DOMAIN Line
        PROVE  /\ Off(Line[k].it, dev'.it) = Off(Line[k].it, dev.it) + 1
               /\ Off(Line[k].it, dev.it) \in Nat \ {0}
    <3>1. /\ Line[k].it \in Counters
          /\ Off(seen, Line[k].it) \in Nat /\ Off(seen, Line[k].it) < Off(seen, dev.it)
          /\ Off(Line[k].it, dev.it) = Off(seen, dev.it) - Off(seen, Line[k].it)
      BY Ages
    <3>2. Off(Line[k].it, dev.it) < W \div 2 /\ Off(Line[k].it, dev.it) \in Nat \ {0}
      BY <2>1, <3>1
    <3>. QED BY <2>1, <3>1, <3>2, OffNext
  <2>3. Off(dev.it, dev'.it) = 1
    <3>1. Off(dev.it, dev.it) = 0
      <4>1. dev.it \in Nat
        BY <2>1, Circle
      <4>2. Off(dev.it, dev.it) = IF dev.it >= dev.it THEN dev.it - dev.it ELSE dev.it + N - dev.it
        BY <2>1, OffIs
      <4>. QED BY <4>1, <4>2
    <3>2. 0 < W \div 2
      BY Circle
    <3>. QED BY <2>1, <3>1, <3>2, OffNext
  <2>4. ASSUME NEW k \in DOMAIN Line, Reading(Line[k]) PROVE Line[k].v <= dev.val
    BY <2>4 DEF TrueInv
  <2>5. CASE Sent1(j)
    <3>1. CASE Old(i)
      BY <2>4, <2>5, <3>1 DEF Alike
    <3>2. CASE Sent1(i)
      BY <2>1, <2>5, <3>2
    <3>. QED BY <1>1, <3>1, <3>2
  <2>6. ASSUME NEW m \in DOMAIN Line, Alike(Line'[j], Line[m]), Reading(Line[m]) PROVE Line'[i].v <= Line'[j].v
    <3>1. CASE Sent1(i)
      BY <2>2, <2>3, <2>6, <3>1 DEF Alike
    <3>2. ASSUME NEW k \in DOMAIN Line, Alike(Line'[i], Line[k]), Reading(Line[k]) PROVE Line'[i].v <= Line'[j].v
      <4>1. Off(Line[m].it, dev.it) <= Off(Line[k].it, dev.it)
        BY <2>2, <2>6, <3>2 DEF Alike
      <4>. QED BY <2>6, <3>2, <4>1 DEF InTurn, Alike
    <3>. QED BY <1>1, <3>1, <3>2
  <2>. QED BY <1>1, <2>5, <2>6
<1>. QED BY <1>2, <1>3

LEMMA TurnStep ==
    ASSUME LinkTypeOK, LinkTypeOK', Shape, TrueInv, Opened /\ ~garbled => InStep /\ InTurn,
           Close \/ Connect \/ LinkStep, Opened', ~garbled'
    PROVE  InTurn'
<1>1. CASE SetupCmdChannel
  <2>1. Line' = <<>> /\ saved' = <<>>
    BY <1>1, LineNext DEF SetupCmdChannel, Shape, NoParts
  <2>. QED BY <2>1 DEF InTurn
<1>. SUFFICES ASSUME ~SetupCmdChannel PROVE InTurn'
  BY <1>1
<1>2. LinkStep /\ InStep /\ InTurn
  <2>1. ~Close /\ ~Connect
    BY DEF Close, Connect, Opened
  <2>. QED BY <2>1, StepNeedsLink DEF Opened
<1>3. /\ \A k \in DOMAIN Line : Line[k] \in Frames /\ (Reading(Line[k]) => Line[k].v \in Nat)
      /\ saved \in Seq(Frames) /\ rx \in Seq(Frames) /\ shown \in Nat /\ dev.val \in Nat
  <2>1. Line \in Seq(Frames) /\ saved \in Seq(Frames) /\ rx \in Seq(Frames) /\ shown \in Nat /\ dev.val \in Nat
    BY LineFacts, ReadingFacts, DevGrows
  <2>. QED BY <2>1, ReadingFacts
<1>4. ASSUME HeadGoes \/ PartsShown, Reading(Line[1]), NEW j \in DOMAIN Line', Reading(Line'[j])
      PROVE  Line[1].v <= Line'[j].v
  <2>1. 1 \in DOMAIN Line
    BY <1>2, <1>4, OldestGoes
  <2>2. PICK k \in DOMAIN Line : Line'[j] = Line[k] /\ Off(Line[k].it, dev.it) <= Off(Line[1].it, dev.it)
    BY <1>2, <1>4, OldestGoes
  <2>. QED BY <1>2, <1>4, <2>1, <2>2 DEF InTurn
<1>5. ASSUME NEW j \in DOMAIN Line', Reading(Line'[j]) PROVE shown' <= Line'[j].v
  <2>1. CASE shown' = shown
    <3>1. \A k \in DOMAIN Line : Reading(Line[k]) => shown <= Line[k].v
      BY <1>2 DEF InTurn
    <3>2. shown <= dev.val
      BY DEF TrueInv
    <3>. QED BY <1>5, <2>1, <3>1, <3>2, LineReadings DEF Alike
  <2>2. CASE Replayed
    <3>1. Line' = Line /\ 1 \in DOMAIN saved /\ Reading(saved[1]) /\ shown' = saved[1].v
      BY <1>3, <2>2 DEF Replayed, Line
    <3>. QED BY <1>2, <1>5, <3>1 DEF InTurn
  <2>3. CASE HeadShown \/ PartsShown
    <3>1. HeadShown => HeadGoes
      BY DEF HeadShown, HeadGoes, Half
    <3>. QED BY <1>4, <1>5, <2>3, <3>1, FirstShown
  <2>. QED BY <2>1, <2>2, <2>3, ShownFrom
<1>6. ASSUME NEW i \in DOMAIN saved', NEW j \in DOMAIN Line', Reading(saved'[i]), Reading(Line'[j])
      PROVE  saved'[i].v <= Line'[j].v
  <2>1. ASSUME NEW k \in DOMAIN saved, saved'[i] = saved[k] PROVE saved'[i].v <= Line'[j].v
    <3>1. \A m \in DOMAIN Line : Reading(Line[m]) => saved[k].v <= Line[m].v
      BY <1>2, <1>6, <2>1 DEF InTurn
    <3>2. saved[k].v <= dev.val
      BY <1>6, <2>1 DEF TrueInv
    <3>. QED BY <1>6, <2>1, <3>1, <3>2, LineReadings DEF Alike
  <2>2. ASSUME SaveInitPush, rx # <<>>, Head(rx).part = 0, saved'[i] = Head(rx) PROVE saved'[i].v <= Line'[j].v
    <3>1. HeadGoes
      BY <2>2 DEF SaveInitPush, HeadGoes, Half
    <3>2. Line = rx
      BY <2>2, LineFacts DEF SaveInitPush, Shape, NoParts
    <3>3. Line[1] = Head(rx)
      BY <1>3, <2>2, <3>2
    <3>. QED BY <1>4, <1>6, <2>2, <3>1, <3>3
  <2>. QED BY <2>1, <2>2, SavedFrom
<1>7. \A i, j \in DOMAIN Line' :
         Reading(Line'[i]) /\ Reading(Line'[j]) /\ Off(Line'[j].it, dev'.it) <= Off(Line'[i].it, dev'.it)
            => Line'[i].v <= Line'[j].v
  BY <1>2, OrderStep
<1>. QED BY <1>5, <1>6, <1>7 DEF InTurn

LEMMA ReadingStep ==
    ChanInv /\ ChanInv' /\ ReadingInv /\ [Next]_sessionVars => ReadingInv'
<1>. SUFFICES ASSUME ChanInv, ChanInv', ReadingInv, [Next]_sessionVars PROVE ReadingInv'
  OBVIOUS
<1>1. CASE UNCHANGED linkVars
  BY <1>1 DEF linkVars, ReadingInv, TrueInv, InTurn, Line, Opened
<1>2. CASE Close \/ Connect \/ LinkStep
  <2>1. TrueInv'
    BY <1>2, TrueStep DEF ChanInv, ReadingInv
  <2>2. Opened' /\ ~garbled' => InTurn'
    BY <1>2, TurnStep DEF ChanInv, ReadingInv
  <2>. QED BY <2>1, <2>2 DEF ReadingInv
<1>3. UNCHANGED linkVars \/ Close \/ Connect \/ LinkStep
  BY DEF Next, Handshake, LoggedIn, Linked, sessionVars
<1>. QED BY <1>1, <1>2, <1>3

\* A step of an open link shows nothing older than what is shown.
LEMMA ShowsNewer ==
    ASSUME ChanInv, ReadingInv, [Next]_sessionVars, phase = "main", phase' = "main", ~garbled
    PROVE  shown' >= shown
<1>1. shown \in Nat
  BY ReadingFacts DEF ChanInv
<1>2. CASE UNCHANGED linkVars
  BY <1>1, <1>2 DEF linkVars
<1>3. CASE Close \/ Connect \/ LinkStep
  <2>1. CASE shown' = shown
    BY <1>1, <2>1
  <2>2. ~Replayed
    BY DEF Replayed, ChanInv, Shape
  <2>3. CASE HeadShown \/ PartsShown
    <3>1. 1 \in DOMAIN Line /\ Reading(Line[1]) /\ shown' = Line[1].v
      BY <2>3, FirstShown DEF ChanInv
    <3>2. Opened
      BY <2>3 DEF HeadShown, PartsShown, Opened, ChanInv, Shape
    <3>3. shown <= Line[1].v
      BY <3>1, <3>2 DEF ReadingInv, InTurn
    <3>4. Line[1].v \in Nat
      BY <3>1, LineFacts, ReadingFacts DEF ChanInv
    <3>. QED BY <1>1, <3>1, <3>3, <3>4
  <2>. QED BY <1>3, <2>1, <2>2, <2>3, ShownFrom DEF ChanInv, ReadingInv
<1>4. UNCHANGED linkVars \/ Close \/ Connect \/ LinkStep
  BY DEF Next, Handshake, LoggedIn, Linked, sessionVars
<1>. QED BY <1>2, <1>3, <1>4

\* Once the initial pushes are processed, no older reading replaces a newer one
\* (_process_decrypted_frame, on_port_push and _handle_verify_port): for any width of
\* the counter, any number of pushes, lost frames, late answers and dropped links, as
\* long as no payload was decrypted without its first part.
THEOREM ForwardTheorem == Spec => ShownGoesForward
<1>1. Init => ReadingInv
  <2>. SUFFICES ASSUME Init PROVE ReadingInv
    OBVIOUS
  <2>1. Line = <<>> /\ saved = <<>> /\ acked = 0 /\ shown = 0 /\ dev.val = 0 /\ ~Opened
    BY DEF Init, LinkInit, Line, NoParts, Opened
  <2>. QED BY <2>1 DEF ReadingInv, TrueInv
<1>2. Spec => [](ChanInv /\ ReadingInv)
  <2>1. Init => ChanInv /\ ReadingInv
    BY <1>1, ChanInit
  <2>2. ChanInv /\ ReadingInv /\ [Next]_sessionVars => (ChanInv /\ ReadingInv)'
    BY ChanStep, ReadingStep
  <2>. QED BY <2>1, <2>2, PTL DEF Spec
<1>3. ChanInv /\ ReadingInv /\ [Next]_sessionVars
        => [phase = "main" /\ phase' = "main" /\ ~garbled => shown' >= shown]_linkVars
  BY ShowsNewer
<1>. QED BY <1>2, <1>3, PTL DEF Spec, ShownGoesForward

=============================================================================
