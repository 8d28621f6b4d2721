--------------------------- MODULE ChargeDetector ---------------------------
(***************************************************************************)
(* When a charge begins and when it is over (ble_server/energy.py): the      *)
(* start gate, the session detector and the energy integrator of one port,   *)
(* driven by the samples _manage_session feeds them (ble_manager.py).        *)
(*                                                                          *)
(* Time and power are scaled integers: every window keeps its role and its    *)
(* order relative to the others, and a sample carries its age.  Samples come  *)
(* at intervals of their own (Steps): no rule may depend on the sample rate.  *)
(* Power is in units of 0.05 W at 5 V; energy saturates at EnergyCap.         *)
(***************************************************************************)
EXTENDS Integers, Sequences, FiniteSets, FiniteSetsExt

CONSTANTS
    Powers,    \* what a device may draw
    Steps,     \* intervals between samples
    FAST, SLOW, ASSESS, RECENT, HOLD, GRACE, RECOVER, MIN_SEC,  \* windows of the detector
    START_HOLD, DEBOUNCE,  \* of the gate, and of a port without load
    MAX_GAP,   \* longer intervals are not integrated
    MIN_ENERGY, EnergyCap

ASSUME DetectorAssumption ==
    /\ Powers \subseteq Nat /\ IsFiniteSet(Powers) /\ 0 \in Powers
    /\ Steps \subseteq Nat \ {0} /\ IsFiniteSet(Steps) /\ Steps # {}
    /\ {FAST, SLOW, ASSESS, RECENT, HOLD, GRACE, RECOVER, MIN_SEC, START_HOLD, DEBOUNCE,
        MAX_GAP, MIN_ENERGY, EnergyCap} \subseteq Nat
    /\ FAST <= SLOW /\ SLOW <= ASSESS /\ RECOVER <= RECENT /\ RECENT <= ASSESS
    /\ MIN_ENERGY <= EnergyCap
    \* no silence so long that the window loses part of a run the gate goes on counting
    /\ \A dt \in Steps : START_HOLD + dt <= ASSESS + 1 /\ dt <= ASSESS
    \* a recovery is longer than the fast window, and two fit the whole window
    /\ FAST < RECOVER /\ 2 * RECOVER <= ASSESS + 2

TAIL_MIN == 1         \* 0.05 W
TAIL_CAP == 12        \* 0.6 W
RECOVER_FLOOR == 100  \* 5 W
START_MIN == 10       \* 0.5 W, at 5 V also what 0.1 A makes
RESTART_MIN == 8      \* 0.4 W
Never == -1           \* an age that is not running

VARIABLES
    chg,      \* es.is_charging
    samples,  \* the detector's window: age and power of each sample
    peak,     \* highest fast median of the session
    hold,     \* age of _hold_since
    grace,    \* time spent unsettled since
    eval,     \* age of the last should_end
    above,    \* the gate: age of _above_since
    post,     \* a session has ended and the port was not seen empty since
    restart,  \* the threshold then
    age,      \* of the session, up to MIN_SEC
    wh,       \* session_wh
    top,      \* es.max_power
    lastp,    \* es.last_power
    idle,     \* age of _no_load_since
    \* history, read by properties only:
    why,      \* how the last session ended
    high,     \* how long the device has drawn more than the recovery threshold, up to RECOVER
    loud,     \* age of the last such recovery or loss of voltage, up to HOLD
    drawn,    \* the energy since the gate's run began, up to EnergyCap
    seen,     \* highest sample since the session ended
    tail      \* twice the tail of the last session, until the port was seen empty

detector == <<samples, peak, hold, grace, eval>>
gate == <<above, post, restart>>
meter == <<age, wh, top, lastp>>
history == <<why, high, loud, drawn, seen, tail>>
detectorVars == <<chg, detector, gate, meter, idle, history>>

Ages(n) == {Never} \cup 0..n
Longest == Max(Steps)

DetectorTypeOK ==
    /\ chg \in BOOLEAN /\ post \in BOOLEAN
    /\ samples \in Seq([age : 0..ASSESS, p : Powers]) /\ Len(samples) <= ASSESS + 1
    /\ peak \in 0..Max(Powers) /\ top \in Powers /\ lastp \in Powers
    /\ hold \in Ages(HOLD) /\ grace \in 0..GRACE /\ eval \in Ages(GRACE + 1)
    /\ above \in Ages(START_HOLD + Longest) /\ restart \in Nat
    /\ age \in 0..MIN_SEC /\ wh \in 0..EnergyCap /\ idle \in Ages(DEBOUNCE + Longest)
    /\ why \in {"none", "unplug", "no_load", "low_power", "port_off", "link_loss"}
    /\ high \in 0..RECOVER /\ loud \in 0..HOLD /\ drawn \in 0..EnergyCap /\ seen \in Powers /\ tail \in Nat

DetectorInit ==
    /\ chg = FALSE /\ samples = <<>> /\ peak = 0 /\ hold = Never /\ grace = 0 /\ eval = Never
    /\ above = Never /\ post = FALSE /\ restart = 0
    /\ age = 0 /\ wh = 0 /\ top = 0 /\ lastp = 0 /\ idle = Never
    /\ why = "none" /\ high = 0 /\ loud = 0 /\ drawn = 0 /\ seen = 0 /\ tail = 0

-----------------------------------------------------------------------------
(* Statistics over the window. *)

UpTo(n, bound) == IF n > bound THEN bound ELSE n
Older(n, dt, bound) == IF n = Never THEN Never ELSE UpTo(n + dt, bound)

\* The samples come in the order of their ages: those within the window are its end.
Within(s, window) ==
    SubSeq(s, Len(s) + 1 - Cardinality({i \in DOMAIN s : s[i].age <= window}), Len(s))

\* The median of the powers within the window.
MedianSince(s, window) ==
    LET recent == {i \in DOMAIN s : s[i].age <= window}
        n == Cardinality(recent)
        Ranked(k) == CHOOSE v \in Powers : /\ Cardinality({i \in recent : s[i].p < v}) < k
                                           /\ Cardinality({i \in recent : s[i].p <= v}) >= k
    IN  IF n = 0 THEN 0 ELSE (Ranked((n + 1) \div 2) + Ranked(n \div 2 + 1)) \div 2
PFast(s) == MedianSince(s, FAST)
PSlow(s) == MedianSince(s, SLOW)

Threshold(p) == Max({TAIL_MIN, Min({TAIL_CAP, p \div 5})})
RecoverThreshold(p) == Max({RECOVER_FLOOR, 2 * Threshold(p)})

\* Longest time above the recovery threshold within RECENT.  The interval before a
\* sample counts as the sample's.
Recovery(s, pk) ==
    LET Since(i) == IF i = 1 THEN s[1].age ELSE s[i - 1].age
        High(i) == s[i].age <= RECENT /\ s[i].p > RecoverThreshold(pk)
        Runs == {r \in (DOMAIN s) \X (DOMAIN s) : r[1] <= r[2] /\ \A i \in r[1]..r[2] : High(i)}
    IN  Max({0} \cup {Since(r[1]) - s[r[2]].age : r \in Runs})

\* Mutant: the window is not trimmed.
FeedUntrimmed(s, dt, p) ==
    LET older == [i \in 1..Len(s) |-> [s[i] EXCEPT !.age = UpTo(@ + dt, ASSESS)]]
    IN  Append(older, [age |-> 0, p |-> p])

Feed(s, dt, p) ==
    LET kept == Within(s, ASSESS - dt)
    IN  Append([i \in 1..Len(kept) |-> [kept[i] EXCEPT !.age = @ + dt]], [age |-> 0, p |-> p])

\* The energy of an interval, unless it is irregular.
Trapezoid(p, q, dt) == IF dt > MAX_GAP THEN 0 ELSE ((p + q) * dt) \div 2

-----------------------------------------------------------------------------
(* The gate. *)

StartThreshold == IF post THEN Max({START_MIN, restart}) ELSE START_MIN

NoteNoLoad == post' = FALSE /\ above' = Never /\ UNCHANGED restart

\* Mutant: the threshold is raised, the state that makes it count is not entered.
NoteSessionEndOnly ==
    /\ post' = FALSE /\ above' = Never
    /\ restart' = Max({RESTART_MIN, 2 * Threshold(top')})

NoteSessionEnd ==
    /\ post' = TRUE /\ above' = Never
    /\ restart' = Max({RESTART_MIN, 2 * Threshold(top')})

\* One sample at an idle port: the age of the run above the threshold, and whether
\* the run is long enough.  The threshold is read from the fast median, never from
\* the sample.
RunAge(dt, fast) == IF fast < StartThreshold THEN Never
                    ELSE IF above = Never THEN 0 ELSE UpTo(above + dt, ASSESS)

-----------------------------------------------------------------------------
(* The end of a session. *)

Reset == samples' = <<>> /\ peak' = 0 /\ hold' = Never /\ grace' = 0 /\ eval' = Never

Close(reason) ==
    /\ chg' = FALSE /\ Reset /\ why' = reason
    /\ IF reason = "unplug" THEN NoteNoLoad ELSE NoteSessionEnd

\* should_end once the gates on energy and duration are passed, the sample being in
\* the window.  A hold may end on an unsettled sample while the budget lasts.
Settled(s, pk) == PFast(s) <= Threshold(pk) /\ PSlow(s) <= Threshold(pk)
Verdict(h, g) == [hold |-> h, grace |-> g, end |-> h # Never /\ h >= HOLD, eval |-> 0]

\* Mutant: every settled sample starts the count again.
AssessRestarted(s, pk, h, g, since) ==
    IF Recovery(s, pk) >= RECOVER THEN Verdict(Never, 0)
    ELSE IF Settled(s, pk) THEN Verdict(0, 0)
    ELSE Verdict(Never, 0)

\* Mutant: the fluctuations are budgeted, a recovery is not looked for.
AssessDeaf(s, pk, h, g, since) ==
    IF Settled(s, pk) THEN (IF h = Never THEN Verdict(0, 0) ELSE Verdict(h, g))
    ELSE IF h = Never THEN Verdict(Never, g)
    ELSE IF g + since > GRACE THEN Verdict(Never, 0)
    ELSE Verdict(h, g + since)

Assess(s, pk, h, g, since) ==
    IF Recovery(s, pk) >= RECOVER THEN Verdict(Never, 0)
    ELSE IF Settled(s, pk) THEN (IF h = Never THEN Verdict(0, 0) ELSE Verdict(h, g))
    ELSE IF h = Never THEN Verdict(Never, g)
    ELSE IF g + since > GRACE THEN Verdict(Never, 0)
    ELSE Verdict(h, g + since)

-----------------------------------------------------------------------------
(* One sample (_process_decrypted_frame): the energy of the interval, then    *)
(* _manage_session.  gone: the voltage has collapsed.                         *)

Gain(dt, p) == UpTo(wh + Trapezoid(lastp, p, dt), EnergyCap)

\* The energy of a session.  Between sessions it is not kept: Start counts afresh.
Integrate(dt, p) ==
    /\ lastp' = p
    /\ age' = UpTo(age + dt, MIN_SEC)
    /\ wh' = Gain(dt, p)
    /\ top' = IF dt > MAX_GAP THEN top ELSE Max({top, p})

\* Branch B: no load.  One sample without load never ends a session.
NoLoad(dt, s, pk, gone) ==
    IF idle # Never /\ idle + dt >= DEBOUNCE
    THEN Close(IF gone THEN "unplug" ELSE "no_load") /\ idle' = Never
    ELSE /\ NoteNoLoad /\ samples' = s /\ peak' = pk
         /\ hold' = IF gone THEN Never ELSE Older(hold, dt, HOLD)
         /\ grace' = grace /\ eval' = Older(eval, dt, GRACE + 1)
         /\ idle' = IF idle = Never THEN 0 ELSE idle + dt
         /\ UNCHANGED <<chg, why>>

\* Branch C: a load.  Too short or too small a session is not assessed at all.
Load(dt, s, pk) ==
    LET ev == Older(eval, dt, GRACE + 1)
        e  == IF wh' < MIN_ENERGY \/ age' < MIN_SEC
              THEN [hold |-> Never, grace |-> 0, end |-> FALSE, eval |-> ev]
              ELSE Assess(s, pk, Older(hold, dt, HOLD), grace, IF ev = Never THEN 0 ELSE ev)
    IN  /\ idle' = Never
        /\ IF e.end THEN Close("low_power")
           ELSE /\ hold' = e.hold /\ grace' = e.grace /\ eval' = e.eval
                /\ samples' = s /\ peak' = pk
                /\ UNCHANGED <<chg, gate, why>>

Charging(dt, p, gone) ==
    \E s \in {Feed(samples, dt, p)} : \E pk \in {Max({peak, PFast(s)})} :
        /\ chg /\ Integrate(dt, p)
        /\ IF p = 0 THEN NoLoad(dt, s, pk, gone) ELSE Load(dt, s, pk)

\* Mutant: the run's first sample is left out.
BackfillShort(run) ==
    LET sum[k \in 0..Len(run)] ==
          IF k <= 2 THEN 0
          ELSE sum[k - 1] + Trapezoid(run[k - 1].p, run[k].p, run[k - 1].age - run[k].age)
    IN  UpTo(sum[Len(run)], EnergyCap)

\* _start_session: the run that opened the gate becomes the first part of the session.
Backfill(run) ==
    LET sum[k \in 0..Len(run)] ==
          IF k <= 1 THEN 0
          ELSE sum[k - 1] + Trapezoid(run[k - 1].p, run[k].p, run[k - 1].age - run[k].age)
    IN  UpTo(sum[Len(run)], EnergyCap)

\* The highest fast median a detector sees that is fed the run from its first sample.
Warm(run) ==
    LET Upto(k) == [i \in 1..k |-> [run[i] EXCEPT !.age = @ - run[k].age]]
    IN  Max({PFast(Upto(k)) : k \in 1..Len(run)})

Start(run) ==
    /\ chg' = TRUE /\ idle' = Never
    /\ samples' = run /\ peak' = Warm(run) /\ hold' = Never /\ grace' = 0 /\ eval' = Never
    /\ age' = UpTo(run[1].age, MIN_SEC) /\ wh' = Backfill(run)
    /\ top' = Max({run[i].p : i \in 1..Len(run)})
    /\ post' = FALSE /\ above' = Never /\ UNCHANGED <<restart, why>>

\* An idle port.  Without voltage the gate is released and nothing is sampled on
\* (_should_sample_port).
Waiting(dt, p, gone) ==
    \E s \in {Feed(samples, dt, p)} : \E run \in {RunAge(dt, PFast(s))} :
        /\ ~chg /\ lastp' = p
        /\ IF ~gone /\ run # Never /\ run >= START_HOLD
           THEN \E opening \in {Within(s, run)} : Start(opening)
           ELSE /\ samples' = s
                /\ IF gone THEN NoteNoLoad ELSE above' = run /\ UNCHANGED <<post, restart>>
                /\ UNCHANGED <<chg, peak, hold, grace, eval, age, wh, top, idle, why>>

-----------------------------------------------------------------------------
(* The history the properties compare with.                                  *)

Recovering(p, dt) == IF p > RECOVER_FLOOR THEN UpTo(high + dt, RECOVER) ELSE 0

Remember(dt, p, gone) ==
    /\ high' = IF chg /\ chg' THEN Recovering(p, dt) ELSE 0
    /\ loud' = IF ~chg \/ gone \/ Recovering(p, dt) >= RECOVER THEN 0
               ELSE UpTo(loud + dt, HOLD)
    /\ drawn' = IF chg \/ above # Never THEN UpTo(drawn + Trapezoid(lastp, p, dt), EnergyCap)
                ELSE 0
    /\ seen' = IF chg THEN 0 ELSE Max({seen, p})
    /\ tail' = IF chg' \/ gone THEN 0 ELSE IF chg THEN 2 * Threshold(top') ELSE tail

Sample ==
    \E dt \in Steps, p \in Powers, gone \in BOOLEAN :
       /\ gone => p = 0
       /\ Charging(dt, p, gone) \/ Waiting(dt, p, gone)
       /\ Remember(dt, p, gone)

\* The port is switched off, by a user or by us: no debounce (branch A).
PortOff ==
    /\ chg /\ UNCHANGED meter /\ Close("port_off") /\ idle' = Never
    /\ high' = 0 /\ loud' = 0 /\ seen' = 0 /\ drawn' = 0 /\ tail' = 2 * Threshold(top)

\* _close_active_sessions: the gate is not told.
LinkLoss ==
    /\ chg /\ chg' = FALSE /\ Reset /\ why' = "link_loss"
    /\ UNCHANGED <<gate, meter, idle>>
    /\ high' = 0 /\ loud' = 0 /\ seen' = 0 /\ drawn' = 0 /\ tail' = 0

DetectorNext == Sample \/ PortOff \/ LinkLoss
DetectorSpec == DetectorInit /\ [][DetectorNext]_detectorVars
\* Readings arrive, or the timer takes them, as long as the loop runs.
FairDetectorSpec == DetectorSpec /\ WF_detectorVars(Sample)

-----------------------------------------------------------------------------
(* Properties.                                                               *)

\* A session ends as full only after a whole hold without a real recovery of
\* the charge and without a loss of voltage, whatever fluctuates, at whatever
\* sample rate, and however many samples were missed (should_end).
EndIsEarned == [][chg /\ ~chg' /\ why' = "low_power" => loud' >= HOLD]_detectorVars

\* No session stays open for good at a device that settles: one whose draw stays
\* within the tail of its own peak is found full in the end (should_end, feed).
QuietTail == chg /\ wh >= MIN_ENERGY /\ 0 < lastp /\ lastp <= Threshold(peak)
QuietEnds == ~<>[]QuietTail

\* The residue of a finished charge opens no session: until the port was seen empty,
\* only a draw above twice the tail of the last session does (note_session_end).
ResidueStartsNothing == [][~chg /\ chg' => Max({seen, lastp'}) >= tail]_detectorVars

\* The energy of a session is that of the intervals since its first sample, those
\* spent waiting at the gate included, each once (_start_session, the backfill).
EnergyCounted == chg => wh = drawn

\* A session begins and ends with a charge.
SessionsAreCharges == EndIsEarned /\ ResidueStartsNothing /\ QuietEnds

\* The meter is well-formed and counts each interval once.
MeterHolds == DetectorTypeOK /\ EnergyCounted
=============================================================================
