------------------------------ MODULE MiotLink ------------------------------
(***************************************************************************)
(* The encrypted command channel of an authenticated link: the receiving    *)
(* half of CuktechBLEController (controller.py) and the frame handling of   *)
(* BLEManager (ble_manager.py), against the charger (external).             *)
(*                                                                          *)
(* A frame carries the low half of the charger's counter; the app keeps the *)
(* high half itself.  The 16-bit low half is counted modulo W and the high  *)
(* half modulo HIGHS, so that both wrap.  One port is followed (`shown` is  *)
(* what the app shows of it, dev.val what is true, versions in order) and   *)
(* one setting is written.  Decryption succeeds for a complete payload      *)
(* under the right counter.                                                 *)
(*                                                                          *)
(* Bounds: W, HIGHS, MaxVal readings, MaxSet commands, RxMax queued frames  *)
(* (1024 in the code, where the oldest is dropped), Faults lost frames,     *)
(* lost writes, late answers and dropped links; PushMax pushes between two   *)
(* commands.                                                                *)
(***************************************************************************)
EXTENDS Naturals, Sequences

CONSTANTS W, HIGHS, MaxVal, MaxSet, RxMax, PushMax, Faults,
    Reread,               \* the readings that, while shown, are read anew for certain
    DECRYPT_FAIL_LIMIT,   \* ble_manager.py:150: 3
    VERIFY_FAIL_LIMIT     \* ble_manager.py:297: 5

ASSUME LinkAssumption ==
    /\ W \in Nat /\ W % 2 = 0 /\ W > 2 /\ HIGHS \in Nat \ {0, 1}
    /\ MaxVal \in Nat /\ MaxSet \in Nat /\ RxMax \in Nat \ {0} /\ PushMax \in Nat /\ Faults \in Nat
    /\ Reread \subseteq 0..MaxVal
    /\ DECRYPT_FAIL_LIMIT \in Nat \ {0} /\ VERIFY_FAIL_LIMIT \in Nat \ {0}

VARIABLES
    pc,       \* where the link's one coroutine stands
    phase,    \* "boot" until the initial pushes are processed, then "main"
    cmd,      \* the command under way
    acked,    \* got_ack: 0, or (history) the SET that was acknowledged
    parts,    \* multi-frame payload being collected: who asked, what came
    rx,       \* the notification queue cmd_recv
    dev,      \* the charger: counter, reading, setting, command in hand, multi-frame answer
    hi, last, \* _dev_it_hi, _last_dev_it_lo
    failures, \* _decrypt_failures
    streak,   \* _verify_fail_streak
    saved,    \* init_push_frames
    shown,    \* state.ports[piid]
    okd,      \* the last SET the caller was told has worked, on its own answer if any
    faults,
    seen, garbled   \* history: counter of the last complete payload tried;
                    \* an incomplete one was tried

linkVars == <<pc, phase, cmd, acked, parts, rx, dev, hi, last, failures,
              streak, saved, shown, okd, faults, seen, garbled>>

NoCmd == [op |-> "none", v |-> 0]
Cmds == {NoCmd, [op |-> "get", v |-> 0]} \cup [op : {"set"}, v : 1..MaxSet]
Counters == 0..W * HIGHS - 1
\* part: 0 complete, 3 header of a multi-frame payload, 1 and 2 its two halves;
\* v: the reading, or (history) the SET that is answered.
Frames == [k : {"push", "get"}, it : Counters, v : 0..MaxVal, part : 0..3]
          \cup [k : {"ack", "result"}, it : Counters, v : 1..MaxSet, part : {0}]
Pcs == {"down", "closed", "setup", "drain", "replay", "main", "sending", "answer", "collect"}
NoParts == [for |-> "main", got |-> <<>>]

LinkTypeOK ==
    /\ pc \in Pcs /\ phase \in {"boot", "main"} /\ cmd \in Cmds /\ acked \in 0..MaxSet
    /\ parts \in [for : {"main", "answer"}, got : Seq(Frames)]
    /\ rx \in Seq(Frames)
    /\ dev \in [it : Counters, val : 0..MaxVal, set : 0..MaxSet, job : Cmds,
                pushes : 0..PushMax]
    /\ hi \in 0..HIGHS - 1 /\ last \in 0..W - 1
    /\ failures \in 0..DECRYPT_FAIL_LIMIT /\ streak \in 0..VERIFY_FAIL_LIMIT
    /\ saved \in Seq(Frames) /\ shown \in 0..MaxVal
    /\ okd \in 0..MaxSet /\ faults \in 0..Faults
    /\ seen \in Counters /\ garbled \in BOOLEAN

LinkInit ==
    /\ pc = "closed" /\ phase = "boot" /\ cmd = NoCmd /\ acked = 0
    /\ parts = NoParts /\ rx = <<>>
    /\ dev = [it |-> 0, val |-> 0, set |-> 0, job |-> NoCmd, pushes |-> 0]
    /\ hi = 0 /\ last = 0 /\ failures = 0 /\ streak = 0 /\ saved = <<>>
    /\ shown = 0 /\ okd = 0 /\ faults = 0
    /\ seen = 0 /\ garbled = FALSE

-----------------------------------------------------------------------------
(* Decrypting (decrypt). *)

\* Mutant: every smaller counter counts as a wrap.
HighAfterAny(lo) == IF lo < last THEN (hi + 1) % HIGHS ELSE hi

HighAfter(lo) == IF lo < last /\ last - lo > W \div 2 THEN (hi + 1) % HIGHS ELSE hi

\* Decrypts payload f: `whole` if all its parts are there, `first` if at least
\* its first bytes are, the ones that hold the counter.
Decrypt(f, whole, first, good) ==
    \E lo \in IF first THEN {f.it % W} ELSE 0..W - 1 :
        /\ good = (whole /\ HighAfter(lo) = f.it \div W)
        /\ hi' = HighAfter(lo) /\ last' = lo
        /\ seen' = IF first THEN f.it ELSE seen
        /\ garbled' = (garbled \/ ~first)

Skip == UNCHANGED <<hi, last, seen, garbled>>
\* The charger never gets half a round (32768 frames) ahead of what was read
\* last, and the initial pushes (60 at most) stay below it; a push leaves room
\* for two answers.
Room(n) ==
    /\ (dev.it + n + W * HIGHS - seen) % (W * HIGHS) < W \div 2
    /\ phase = "boot" => dev.it + n < W \div 2 - 1

\* The two halves of a payload, sent once its header was answered.
Halves(f) == <<[f EXCEPT !.part = 1], [f EXCEPT !.part = 2]>>
Complete(g) == Len(g) = 2 /\ g[1].part = 1 /\ g[2].part = 2

-----------------------------------------------------------------------------
(* Commands (send_miot_command).  The end of a command is part of the step  *)
(* that ends it.                                                            *)

GiveUp == pc' = "down"

\* The answer to the caller: _handle_verify_port, _handle_set_command, and the
\* reads of _fetch_settings while booting, which only go on.  `own`: the answer
\* is not an older command's.
Answered(value, own) ==
    /\ cmd' = NoCmd /\ acked' = 0
    /\ \/ cmd.op = "set" /\ okd' = (IF own THEN cmd.v ELSE okd) /\ pc' = "main" /\ UNCHANGED <<streak, shown>>
       \/ cmd.op = "get" /\ phase = "main" /\ streak' = 0 /\ shown' = value
          /\ pc' = "main" /\ UNCHANGED okd
       \/ cmd.op = "get" /\ phase = "boot" /\ pc' = "replay" /\ UNCHANGED <<streak, shown, okd>>

\* Mutants: the limit is checked one late; a dead link is never given up.
UnansweredOffByOne ==
    /\ cmd' = NoCmd /\ acked' = 0 /\ UNCHANGED <<shown, okd>>
    /\ IF cmd.op = "get" /\ phase = "main"
       THEN /\ streak' = streak + 1
            /\ IF streak + 1 > VERIFY_FAIL_LIMIT THEN GiveUp ELSE pc' = "main"
       ELSE streak' = streak /\ pc' = IF phase = "boot" THEN "replay" ELSE "main"

UnansweredForever ==
    /\ cmd' = NoCmd /\ acked' = 0 /\ UNCHANGED <<shown, okd, streak>>
    /\ pc' = IF phase = "boot" THEN "replay" ELSE "main"

Unanswered ==
    /\ cmd' = NoCmd /\ acked' = 0 /\ UNCHANGED <<shown, okd>>
    /\ IF cmd.op = "get" /\ phase = "main"
       THEN /\ streak' = streak + 1
            /\ IF streak + 1 >= VERIFY_FAIL_LIMIT THEN GiveUp ELSE pc' = "main"
       ELSE streak' = streak /\ pc' = IF phase = "boot" THEN "replay" ELSE "main"

\* What is queued is acknowledged and thrown away (_drain_pending_pushes); the
\* parts of a multi-frame message that is among it may come later.
Send(c) ==
    /\ cmd' = c /\ acked' = 0 /\ pc' = "sending"
    /\ rx' \in {<<>>} \cup {Halves(rx[i]) : i \in {j \in 1..Len(rx) : rx[j].part = 3}}
    /\ dev' = [dev EXCEPT !.pushes = 0]
    /\ Skip

\* What _port_timer queues.  C3 and A are read every 3 s, whatever they show.  C1 and
\* C2 are read only with a history and after 15 s without a sample: not while they
\* show an idle port (no session: nothing to sample), nor while a session charges at
\* the current shown, whose integration counts as a sample; for certain only while
\* they show a voltage and no current.
MustRead == shown \in Reread

Poll ==
    /\ pc = "main" /\ Send([op |-> "get", v |-> 0])
    /\ UNCHANGED <<phase, parts, failures, streak, saved, shown, okd, faults>>

Set ==
    /\ pc = "main" /\ \E v \in 1..MaxSet : v > dev.set /\ v > okd /\ Send([op |-> "set", v |-> v])
    /\ UNCHANGED <<phase, parts, failures, streak, saved, shown, okd, faults>>

\* No answer in time: none is coming, or it is late and that is a fault.
NoAnswer(q) ==
    \/ q = <<>> /\ (dev.job = NoCmd \/ ~Room(0)) /\ faults' = faults
    \/ faults < Faults /\ faults' = faults + 1

\* Header, RCV_RDY, frame, RCV_OK (_send_encrypted).  Without one of the two
\* the command has failed, whether the charger got the frame or not.
SendEncrypted ==
    /\ pc = "sending"
    /\ \/ /\ dev.job # NoCmd /\ ~Room(0) /\ Unanswered /\ UNCHANGED <<dev, faults>>
       \/ /\ dev.job = NoCmd /\ pc' = "answer" /\ dev' = [dev EXCEPT !.job = cmd]
          /\ UNCHANGED <<cmd, acked, streak, shown, okd, faults>>
       \/ /\ dev.job = NoCmd /\ faults < Faults /\ faults' = faults + 1 /\ Unanswered
          /\ dev' \in {dev, [dev EXCEPT !.job = cmd]}
    /\ Skip /\ UNCHANGED <<phase, parts, rx, failures, saved>>

\* A decrypted frame inside the command's window: its answer, or a push that is
\* handed to on_port_push at once.  seq is not compared (controller.py:886).
InWindow(f) ==
    \/ f.k = "get" /\ cmd.op = "get" /\ Answered(f.v, TRUE)
    \/ f.k = "result" /\ cmd.op = "set" /\ Answered(0, f.v = cmd.v)
    \/ f.k = "ack" /\ cmd.op = "set" /\ acked' = f.v
       /\ pc' = "answer" /\ UNCHANGED <<cmd, streak, shown, okd>>
    \/ f.k = "push" /\ shown' = f.v /\ pc' = "answer" /\ UNCHANGED <<cmd, acked, streak, okd>>
    \/ /\ \/ f.k = "get" /\ cmd.op # "get"
          \/ f.k \in {"ack", "result"} /\ cmd.op # "set"
       /\ pc' = "answer" /\ UNCHANGED <<cmd, acked, streak, shown, okd>>

Ignored == pc' = "answer" /\ UNCHANGED <<cmd, acked, streak, shown, okd>>

\* Mutant: a SET without any answer counts as done.
LateAssumed == IF cmd.op = "set" THEN Answered(0, TRUE) ELSE Unanswered

\* The window is over: an acknowledged SET counts as done.
Late == IF acked # 0 THEN Answered(0, acked = cmd.v) ELSE Unanswered

WaitAnswer ==
    /\ pc = "answer"
    /\ \/ \E f \in {Head(rx) : i \in DOMAIN rx} :
            /\ rx' = Tail(rx) /\ f.part # 3 /\ UNCHANGED <<parts, faults>>
            /\ \/ \E good \in BOOLEAN : /\ f.part = 0 /\ Decrypt(f, TRUE, TRUE, good)
                                        /\ IF good THEN InWindow(f) ELSE Ignored
               \/ f.part # 0 /\ Ignored /\ Skip    \* neither header: not decoded
       \/ /\ rx # <<>> /\ Head(rx).part = 3 /\ rx' = Tail(rx) \o Halves(Head(rx))
          /\ parts' = [for |-> "answer", got |-> <<>>] /\ pc' = "collect"
          /\ Skip /\ UNCHANGED <<cmd, acked, streak, shown, okd, faults>>
       \/ /\ NoAnswer(rx) /\ Skip /\ UNCHANGED <<rx, parts>>
          /\ Late
    /\ UNCHANGED <<phase, dev, failures, saved>>

-----------------------------------------------------------------------------
(* The main loop (_connect_and_run, _decrypt_payload). *)

\* The count stops at the limit, where nothing tells the larger ones apart.
OneMore(n) == IF n < DECRYPT_FAIL_LIMIT THEN n + 1 ELSE n

\* Process(good, f): DECRYPT_FAIL_LIMIT failures without a success end the link.
Process(good, f, next) ==
    IF good
    THEN /\ failures' = 0 /\ pc' = next
         /\ shown' = IF f.k = "push" THEN f.v ELSE shown
    ELSE /\ failures' = OneMore(failures) /\ shown' = shown
         /\ IF failures + 1 >= DECRYPT_FAIL_LIMIT THEN GiveUp ELSE pc' = next

\* An inline frame, or a stray part, which is decrypted as if it were one.
TakeFrame ==
    /\ pc = "main" /\ rx # <<>> /\ Head(rx).part # 3 /\ rx' = Tail(rx)
    /\ \E good \in BOOLEAN :
         /\ Decrypt(Head(rx), Head(rx).part = 0, Head(rx).part = 0, good)
         /\ Process(good, Head(rx), "main")
    /\ UNCHANGED <<phase, cmd, acked, parts, dev, streak, saved, okd, faults>>

TakeHeader ==
    /\ pc = "main" /\ rx # <<>> /\ Head(rx).part = 3
    /\ rx' = Tail(rx) \o Halves(Head(rx)) /\ parts' = NoParts /\ pc' = "collect"
    /\ Skip /\ UNCHANGED <<phase, cmd, acked, dev, failures, streak, saved, shown, okd, faults>>

\* Mutant: a push among the parts is processed at once, ahead of an older answer.
CollectForwards ==
    /\ pc = "collect" /\ Len(parts.got) < 2 /\ rx # <<>> /\ rx' = Tail(rx)
    /\ IF Head(rx).k = "push"
       THEN shown' = Head(rx).v /\ parts' = parts
       ELSE parts' = [parts EXCEPT !.got = Append(@, Head(rx))] /\ shown' = shown
    /\ Skip /\ UNCHANGED <<pc, phase, cmd, acked, dev, failures, streak, saved, okd, faults>>

\* Whatever frames come next are taken for the parts.
Collect ==
    /\ pc = "collect" /\ Len(parts.got) < 2 /\ rx # <<>>
    /\ parts' = [parts EXCEPT !.got = Append(@, Head(rx))] /\ rx' = Tail(rx)
    /\ Skip /\ UNCHANGED <<pc, phase, cmd, acked, dev, failures, streak, saved,
                           shown, okd, faults>>

\* Both parts are there or none comes any more.  The main loop does not decrypt
\* an incomplete payload, a command's window does.
Collected ==
    /\ pc = "collect"
    /\ \/ Len(parts.got) = 2 /\ faults' = faults
       \/ Len(parts.got) < 2 /\ rx = <<>> /\ NoAnswer(rx)
    /\ parts' = NoParts
    /\ LET g == parts.got  IN
       \/ g = <<>> /\ pc' = parts.for /\ Skip
          /\ UNCHANGED <<cmd, acked, streak, shown, okd, failures>>
       \/ Len(g) = 1 /\ parts.for = "main" /\ pc' = "main" /\ Skip
          /\ UNCHANGED <<cmd, acked, streak, shown, okd, failures>>
       \/ /\ Len(g) = 2 /\ parts.for = "main"
          /\ \E good \in BOOLEAN : /\ Decrypt(g[1], Complete(g), g[1].part = 1, good)
                                   /\ Process(good, g[1], "main")
          /\ UNCHANGED <<cmd, acked, streak, okd>>
       \/ /\ g # <<>> /\ parts.for = "answer"
          /\ \E good \in BOOLEAN : /\ Decrypt(g[1], Complete(g), g[1].part = 1, good)
                                   /\ IF good THEN InWindow(g[1]) ELSE Ignored
          /\ UNCHANGED <<failures>>
    /\ UNCHANGED <<phase, rx, dev, saved>>

-----------------------------------------------------------------------------
(* Opening the link (_setup_cmd_channel, _connect_locked). *)

\* The link is closed and its controller dropped (_disconnect); what the
\* manager keeps over the next one is _decrypt_failures and the state it shows.
Close ==
    /\ pc = "down" /\ pc' = "closed" /\ phase' = "boot" /\ cmd' = NoCmd /\ acked' = 0
    /\ parts' = NoParts /\ rx' = <<>> /\ saved' = <<>> /\ streak' = 0
    /\ hi' = 0 /\ last' = 0 /\ seen' = 0 /\ garbled' = FALSE
    /\ dev' = [dev EXCEPT !.it = 0, !.job = NoCmd, !.pushes = 0]
    /\ UNCHANGED <<failures, shown, okd, faults>>

\* A new controller whose login has succeeded.
Connect ==
    /\ pc = "closed" /\ pc' = "setup"
    /\ UNCHANGED <<phase, cmd, acked, parts, rx, dev, hi, last, failures, streak, saved, shown,
                   okd, faults, seen, garbled>>

\* The counters restart; what the charger pushed so far is discarded.
SetupCmdChannel ==
    /\ pc = "setup"
    /\ hi' = 0 /\ last' = 0 /\ seen' = 0 /\ garbled' = FALSE
    /\ rx' = <<>> /\ pc' = "drain"
    /\ UNCHANGED <<phase, cmd, acked, parts, dev, failures, streak, saved, shown,
                   okd, faults>>

\* Inline pushes are kept for later (_drain_device_push).
SaveInitPush ==
    /\ pc = "drain" /\ rx # <<>> /\ rx' = Tail(rx)
    /\ saved' = IF Head(rx).part = 0 THEN Append(saved, Head(rx)) ELSE saved
    /\ Skip /\ UNCHANGED <<pc, phase, cmd, acked, parts, dev, failures, streak, shown,
                           okd, faults>>

\* 0.8 s of silence: the settings are read (_read_initial_settings) ...
ReadInitialSettings ==
    /\ pc = "drain" /\ rx = <<>>
    /\ Send([op |-> "get", v |-> 0])
    /\ UNCHANGED <<phase, parts, failures, streak, saved, shown, okd, faults>>

\* ... and only then the kept frames are processed.
Replay ==
    /\ pc = "replay"
    /\ \/ /\ saved # <<>> /\ saved' = Tail(saved) /\ phase' = phase
          /\ \E good \in BOOLEAN : /\ Decrypt(Head(saved), TRUE, TRUE, good)
                                   /\ Process(good, Head(saved), "replay")
       \/ /\ saved = <<>> /\ pc' = "main" /\ phase' = "main"
          /\ Skip /\ UNCHANGED <<saved, failures, shown>>
    /\ UNCHANGED <<cmd, acked, parts, rx, dev, streak, okd, faults>>

-----------------------------------------------------------------------------
(* The charger and the air (external). *)

AppIdle == UNCHANGED <<pc, phase, cmd, acked, parts, hi, last, failures, streak, saved, shown, okd,
                   seen, garbled>>
Next1(it) == (it + 1) % (W * HIGHS)
Frame(k, v, part) == [k |-> k, it |-> dev.it, v |-> v, part |-> part]

ChargerChanges ==
    /\ dev.val < MaxVal /\ dev' = [dev EXCEPT !.val = @ + 1]
    /\ AppIdle /\ UNCHANGED <<rx, faults>>

ChargerPushes ==
    /\ pc \notin {"down", "closed"} /\ Room(2) /\ Len(rx) < RxMax /\ dev.pushes < PushMax
    /\ rx' = Append(rx, Frame("push", dev.val, 0)) 
    /\ dev' = [dev EXCEPT !.it = Next1(@), !.pushes = @ + 1]
    /\ AppIdle /\ UNCHANGED faults

\* It executes the command and answers inline or in two frames; a SET is
\* acknowledged and its value sometimes echoed.
ChargerAnswers ==
    /\ dev.job # NoCmd /\ Room(0)
    /\ \/ /\ dev.job.op = "get"
          /\ \E part \in {0, 3} : rx' = Append(rx, Frame("get", dev.val, part))
          /\ dev' = [dev EXCEPT !.job = NoCmd, !.it = Next1(@)]
       \/ /\ dev.job.op = "set"
          /\ \E k \in {"ack", "result"} : rx' = Append(rx, Frame(k, dev.job.v, 0))
          /\ dev' = [dev EXCEPT !.job = NoCmd, !.it = Next1(@), !.set = dev.job.v]
    /\ AppIdle /\ UNCHANGED faults

\* A notification is lost (or dropped from a full queue).
Lose ==
    /\ faults < Faults /\ faults' = faults + 1
    /\ \E i \in 1..Len(rx) : rx' = SubSeq(rx, 1, i - 1) \o SubSeq(rx, i + 1, Len(rx))
    /\ AppIdle /\ dev' = dev

\* The link is lost (the watchdog's probe or a failed write).
LinkLost ==
    /\ pc \notin {"down", "closed"} /\ faults < Faults /\ faults' = faults + 1 /\ GiveUp
    /\ UNCHANGED <<phase, cmd, acked, parts, rx, dev, hi, last, failures, streak, saved,
                   shown, okd, seen, garbled>>

Open == SetupCmdChannel \/ SaveInitPush \/ ReadInitialSettings \/ Replay
Loop == TakeFrame \/ TakeHeader \/ Collect \/ Collected
Window == SendEncrypted \/ WaitAnswer

LinkStep == Open \/ Loop \/ Window \/ ChargerAnswers \/ Poll \/ Set
            \/ ChargerChanges \/ ChargerPushes \/ Lose \/ LinkLost
-----------------------------------------------------------------------------
(* Properties. *)

\* The counter the app reconstructs is the charger's: as long as no payload was
\* decrypted without its first part, a complete payload always decrypts.
CounterInStep ==
    pc \notin {"down", "closed", "setup"} /\ ~garbled => hi = seen \div W /\ last = seen % W

\* A command that was reported done on an answer of its own was executed by the
\* charger (controller.py:935: a missing result is no refusal, an acknowledgement
\* is enough).  An older command's late answer may be taken for it as well, since
\* seq is not compared (controller.py:886): that is left out (okd).
DoneMeansExecuted == okd <= dev.set

\* Once the initial pushes are processed no older reading replaces a newer one, as long
\* as no payload was decrypted without its first part: a multi-frame answer whose place
\* pushes have taken leaves its parts behind, and the next header collects them.
ShownGoesForward ==
    [][phase = "main" /\ phase' = "main" /\ ~garbled => shown' >= shown]_linkVars

=============================================================================
