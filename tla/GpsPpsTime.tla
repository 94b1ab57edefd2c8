------------------------------ MODULE GpsPpsTime ------------------------------
(***************************************************************************)
(* The GPS/PPS clock discipline: components/gps_pps_time/gps_pps_time.cpp. *)
(*                                                                         *)
(* Three actors share the state: the PPS interrupt (pps_isr), the main     *)
(* loop (loop() and the NMEA callback on_update(), which never overlap)    *)
(* and the GPS receiver, whose pulses and sentences arrive on their own    *)
(* schedule.  The interrupt can fire between any two steps of the main     *)
(* loop, in particular between clearing pps_flag_ and reading the stamp    *)
(* the flag announced.                                                     *)
(*                                                                         *)
(* Time is counted in ticks, SEC of them per second.  "now" is true GPS    *)
(* time and also the reading of micros()/millis(): both counters are free  *)
(* running and only their differences are used.  The system clock reads    *)
(* now + sys_off.                                                          *)
(***************************************************************************)
EXTENDS Integers

CONSTANTS
  SEC,                    \* ticks per second
  BootSec,                \* the GPS second in which the device boots
  Horizon,                \* the last tick of the model
  EPOCH_FIX_STREAK,
  PPS_PERIOD_BAD_STREAK,
  PPS_PERIOD_GOOD_STREAK,
  PPS_PERIOD_TOLERANCE,   \* ticks
  PPS_TIMEOUT,            \* ticks
  LoopDelay,              \* ticks an unblocked main loop may take to notice a pulse
  NmeaDelay,              \* ticks after the pulse by which its sentence was handled
  CoastSlip,              \* ticks a coasting receiver adds to its period
  Glitches,               \* second offsets a corrupted sentence may carry
  FaultPlans              \* what may go wrong, one of these per behaviour

FaultKinds == {"missed", "lost", "glitch", "stall", "noise", "nofix", "coast",
               "pushed"}
\* The kinds of fault that may occur, how many are left, and whether there is
\* none while the clock is not synchronised, at boot or after a reset.
FaultPlan == [kinds : SUBSET FaultKinds, left : Nat, synced : BOOLEAN]

ASSUME TimeAssumption ==
  /\ SEC \in Nat \ {0}
  /\ BootSec \in Nat \ {0}
  /\ Horizon \in Nat
  /\ LoopDelay \in Nat
  /\ NmeaDelay \in Nat
  /\ CoastSlip \in Nat

ASSUME DisciplineAssumption ==
  /\ EPOCH_FIX_STREAK \in Nat \ {0}
  /\ PPS_PERIOD_BAD_STREAK \in Nat \ {0}
  /\ PPS_PERIOD_GOOD_STREAK \in Nat \ {0}
  /\ PPS_PERIOD_TOLERANCE \in Nat
  /\ PPS_TIMEOUT \in Nat

ASSUME FaultAssumption ==
  /\ Glitches \subseteq Int
  /\ FaultPlans \subseteq FaultPlan

VARIABLES
  now,                 \* true GPS time, in ticks
  last_edge,           \* when the receiver last began a second
  rx_sec,              \* the second the receiver believes it is in
  heard,               \* the last second whose sentence left the UART
  coasting,            \* the receiver's oscillator runs without lock
  stalled,             \* the main loop is blocked by other components
  faults,              \* the plan: faults the environment may still inject
  last_pps_micros,     \* written by the interrupt
  isr_anchor_micros,   \* written by the interrupt
  pps_flag,            \* set by the interrupt, cleared by loop()
  pc,                  \* "taken": loop() has cleared the flag, not yet read the stamp
  sats,                \* some satellite count is not zero
  gps_time_valid,
  has_gps_time,
  last_gps_epoch,
  pps_synced,
  pps_count,           \* 0, 1 or 2 (two or more)
  prev_pps_micros,
  last_pps_millis,
  period_healthy,
  bad_streak,
  good_streak,
  err_streak,          \* epoch_error_streak_
  err_last,            \* epoch_error_last_
  anchor,              \* the published (epoch, micros) pair
  skip_next,           \* anchor_pred_error_skip_next_
  sys_off,             \* system clock minus now
  adj                  \* correction adjtime() has still to apply

receiver   == <<last_edge, rx_sec, heard, coasting>>
isr        == <<last_pps_micros, isr_anchor_micros, pps_flag>>
epochs     == <<gps_time_valid, has_gps_time, last_gps_epoch, pps_synced, pps_count>>
pulses     == <<prev_pps_micros, last_pps_millis>>
health     == <<period_healthy, bad_streak, good_streak>>
nmea_check == <<err_streak, err_last>>
clock      == <<sys_off, adj>>
served     == <<anchor, skip_next>>
main       == <<pc, sats, epochs, pulses, health, nmea_check, clock, served>>
vars       == <<now, receiver, stalled, faults, isr, main>>

NoAnchor == [epoch |-> 0, micros |-> 0]

TrueSec == now \div SEC
Magnitude(x) == IF x < 0 THEN -x ELSE x
Period == SEC + (IF coasting THEN CoastSlip ELSE 0)
NextEdge == last_edge + Period

Init ==
  /\ now = BootSec * SEC
  /\ last_edge = now /\ rx_sec = BootSec /\ heard = BootSec
  /\ coasting = FALSE /\ stalled = FALSE /\ faults \in FaultPlans
  /\ last_pps_micros = 0 /\ isr_anchor_micros = 0 /\ pps_flag = FALSE
  /\ pc = "idle" /\ sats = FALSE
  /\ gps_time_valid = FALSE /\ has_gps_time = FALSE /\ last_gps_epoch = 0
  /\ pps_synced = FALSE /\ pps_count = 0
  /\ prev_pps_micros = 0 /\ last_pps_millis = 0
  /\ period_healthy = TRUE /\ bad_streak = 0 /\ good_streak = 0
  /\ err_streak = 0 /\ err_last = 0
  /\ anchor = NoAnchor /\ skip_next = FALSE
  /\ sys_off = -now /\ adj = 0

-----------------------------------------------------------------------------
(***************************************************************************)
(* The environment: time, the receiver and the rest of the main loop.      *)
(***************************************************************************)

Fault(kind) ==
  /\ kind \in faults.kinds
  /\ faults.left > 0
  /\ faults.synced => pps_synced
  /\ faults' = [faults EXCEPT !.left = @ - 1]

\* The ISR pps_isr(): a pulse closer than 900 ms to the last accepted one is
\* dropped; an anchor of 0 (no pulse yet) accepts anything.
PpsIsr ==
  IF isr_anchor_micros # 0 /\ 10 * (now - isr_anchor_micros) < 9 * SEC
    THEN UNCHANGED isr
    ELSE /\ last_pps_micros' = now
         /\ isr_anchor_micros' = now
         /\ pps_flag' = TRUE

\* The receiver begins a second and raises the pulse ...
ReceiverEdge ==
  /\ now = NextEdge
  /\ last_edge' = now
  /\ rx_sec' = rx_sec + 1
  /\ PpsIsr
  /\ UNCHANGED <<now, heard, coasting, stalled, faults, main>>

\* ... or the pulse never reaches the pin.
MissedEdge ==
  /\ now = NextEdge
  /\ Fault("missed")
  /\ last_edge' = now
  /\ rx_sec' = rx_sec + 1
  /\ UNCHANGED <<now, heard, coasting, stalled, isr, main>>

\* An edge that marks no second.
NoiseEdge ==
  /\ now > last_edge
  /\ Fault("noise")
  /\ PpsIsr
  /\ UNCHANGED <<now, receiver, stalled, main>>

\* The receiver loses lock: its period grows, and its idea of the time with it.
StartCoast ==
  /\ ~coasting
  /\ Fault("coast")
  /\ coasting' = TRUE
  /\ UNCHANGED <<now, last_edge, rx_sec, heard, stalled, isr, main>>

\* Lock is back: pulse and sentence are true again from the next second on.
Relock ==
  /\ coasting
  /\ coasting' = FALSE
  /\ last_edge' = TrueSec * SEC
  /\ rx_sec' = TrueSec
  /\ heard' = TrueSec
  /\ UNCHANGED <<now, stalled, faults, isr, main>>

\* Other components block the main loop (no loop(), no on_update()).
Stall ==
  /\ ~stalled /\ pc = "idle"
  /\ Fault("stall")
  /\ stalled' = TRUE
  /\ UNCHANGED <<now, receiver, isr, main>>

Resume ==
  /\ stalled
  /\ stalled' = FALSE
  /\ UNCHANGED <<now, receiver, faults, isr, main>>

\* Another time source of the node sets the system clock to a whole second.
ClockPushed(g) ==
  /\ Fault("pushed")
  /\ sys_off' = (TrueSec + g) * SEC - now
  /\ UNCHANGED <<now, receiver, stalled, isr, adj, pc, sats, epochs, pulses,
                 health, nmea_check, served>>

\* Time passes.  Unless it is blocked, the main loop notices a pulse within
\* LoopDelay and has handled the second's sentence NmeaDelay after its pulse.
Tick ==
  /\ now < Horizon
  /\ now < NextEdge
  /\ pc = "idle"
  /\ ~stalled => /\ pps_flag => now - last_pps_micros < LoopDelay
                 /\ heard < rx_sec => now - last_edge < NmeaDelay
  /\ now' = now + 1
  /\ UNCHANGED <<receiver, stalled, faults, isr, main>>

\* adjtime() slews the system clock one tick towards the requested correction.
Slew ==
  /\ adj # 0
  /\ LET step == IF adj > 0 THEN 1 ELSE -1
     IN sys_off' = sys_off + step /\ adj' = adj - step
  /\ UNCHANGED <<now, receiver, stalled, faults, isr, pc, sats, epochs, pulses,
                 health, nmea_check, served>>

-----------------------------------------------------------------------------
(***************************************************************************)
(* loop() and apply_pps_correction_().                                     *)
(***************************************************************************)

\* Mutated form: the reset forgets to invalidate the anchor.
FullReset_KeepsAnchor ==
  /\ pps_synced' = FALSE
  /\ anchor' = anchor
  /\ gps_time_valid' = FALSE
  /\ last_gps_epoch' = 0
  /\ pps_count' = 0

\* publish_pps_anchor_(0, 0, 0) and the six assignments that go with it: NMEA
\* has to establish the epoch and the coarse clock again.
FullReset ==
  /\ pps_synced' = FALSE
  /\ anchor' = NoAnchor
  /\ gps_time_valid' = FALSE
  /\ last_gps_epoch' = 0
  /\ pps_count' = 0

\* settimeofday(sec, 0)
SetClock(sec) == sys_off' = sec * SEC - now

\* loop() clears the flag before it looks at the stamp.
LoopTake ==
  /\ pps_flag /\ pc = "idle" /\ ~stalled
  /\ pps_flag' = FALSE
  /\ pc' = "taken"
  /\ UNCHANGED <<now, receiver, stalled, faults, last_pps_micros, isr_anchor_micros,
                 sats, epochs, pulses, health, nmea_check, clock, served>>

\* Every branch below reads last_pps_micros_ once, after the flag was cleared.
Applying ==
  /\ pc = "taken"
  /\ pc' = "idle"
  /\ UNCHANGED <<now, receiver, stalled, faults, isr, sats, nmea_check>>

EpochKnown == gps_time_valid /\ last_gps_epoch # 0

PulseIgnored ==
  /\ Applying
  /\ ~EpochKnown
  /\ UNCHANGED <<epochs, pulses, health, clock, served>>

\* No satellites: a synchronised clock starts over; an unsynchronised one only
\* touches last_pps_millis_, to throttle its log line to one in PPS_TIMEOUT.
PulseWithoutFix ==
  /\ Applying
  /\ EpochKnown /\ ~sats
  /\ IF pps_synced
       THEN FullReset /\ has_gps_time' = FALSE
       ELSE UNCHANGED <<epochs, anchor>>
  /\ last_pps_millis' = IF pps_count' = 0 /\ now - last_pps_millis > PPS_TIMEOUT
                          THEN now ELSE last_pps_millis
  /\ UNCHANGED <<prev_pps_micros, health, clock, skip_next>>

Usable == EpochKnown /\ sats

\* The first pulse only starts the interval; the epoch does not advance.
PulseFirst ==
  /\ Applying
  /\ Usable /\ pps_count = 0
  /\ pps_count' = 1
  /\ last_pps_millis' = now
  /\ prev_pps_micros' = last_pps_micros
  /\ UNCHANGED <<gps_time_valid, has_gps_time, last_gps_epoch, pps_synced,
                 health, clock, served>>

Interval == last_pps_micros - prev_pps_micros
\* Seconds the pulse is late: the interval rounded to seconds, less one.
ExtraEpochs == (Interval + SEC \div 2) \div SEC - 1
InSpec ==
  /\ ExtraEpochs >= 0
  /\ Magnitude(Interval - (ExtraEpochs + 1) * SEC) <= PPS_PERIOD_TOLERANCE
\* Mutated form: one second per pulse, however late it is.
CorrectedEpoch_NoExtra == last_gps_epoch + 1
CorrectedEpoch == last_gps_epoch + 1 + ExtraEpochs
Drift == sys_off + last_pps_micros - CorrectedEpoch * SEC

\* Mutated form: saturates one too late.
Saturate_OffByOne(n, limit) == IF n <= limit THEN n + 1 ELSE n
Saturate(n, limit) == IF n < limit THEN n + 1 ELSE n

\* Mutated form: the gate closes one bad period too late.
PeriodCheck_Late ==
  IF InSpec
    THEN /\ bad_streak' = 0
         /\ good_streak' = Saturate(good_streak, PPS_PERIOD_GOOD_STREAK)
         /\ period_healthy' = (period_healthy \/ good_streak' >= PPS_PERIOD_GOOD_STREAK)
    ELSE /\ good_streak' = 0
         /\ bad_streak' = Saturate(bad_streak, PPS_PERIOD_BAD_STREAK)
         /\ period_healthy' = (period_healthy /\ bad_streak < PPS_PERIOD_BAD_STREAK)

\* The period check: PPS_PERIOD_BAD_STREAK bad periods close the gate,
\* PPS_PERIOD_GOOD_STREAK good ones open it again.
PeriodCheck ==
  IF InSpec
    THEN /\ bad_streak' = 0
         /\ good_streak' = Saturate(good_streak, PPS_PERIOD_GOOD_STREAK)
         /\ period_healthy' = (period_healthy \/ good_streak' >= PPS_PERIOD_GOOD_STREAK)
    ELSE /\ good_streak' = 0
         /\ bad_streak' = Saturate(bad_streak, PPS_PERIOD_BAD_STREAK)
         /\ period_healthy' = (period_healthy /\ bad_streak' < PPS_PERIOD_BAD_STREAK)

\* What every later pulse does before the branches on drift.
Counting ==
  /\ Applying
  /\ Usable /\ pps_count > 0
  /\ last_pps_millis' = now
  /\ prev_pps_micros' = last_pps_micros
  /\ PeriodCheck

FarOff == Magnitude(Drift) > 2 * SEC
Off == 10 * Magnitude(Drift) > SEC

\* The second usable pulse sets the clock and turns serving on.
PulseSync ==
  /\ Counting
  /\ ~pps_synced
  /\ pps_synced' = TRUE
  /\ last_gps_epoch' = CorrectedEpoch
  /\ pps_count' = 2
  /\ SetClock(CorrectedEpoch)
  /\ adj' = 0
  /\ UNCHANGED <<gps_time_valid, has_gps_time, served>>

\* Drift beyond two seconds: start over.
PulseDiverged ==
  /\ Counting
  /\ pps_synced /\ FarOff
  /\ FullReset
  /\ has_gps_time' = FALSE
  /\ UNCHANGED <<clock, skip_next>>

\* Drift beyond 100 ms: step the clock; the anchor stays as it was.
PulseHardSync ==
  /\ Counting
  /\ pps_synced /\ Off /\ ~FarOff
  /\ last_gps_epoch' = CorrectedEpoch
  /\ pps_count' = 2
  /\ SetClock(CorrectedEpoch)
  /\ adj' = 0
  /\ UNCHANGED <<gps_time_valid, has_gps_time, pps_synced, served>>

\* Mutated form: the pair is published with the epoch of the pulse before.
PulseDiscipline_StaleEpoch ==
  /\ Counting
  /\ pps_synced /\ ~Off
  /\ last_gps_epoch' = CorrectedEpoch
  /\ pps_count' = 2
  /\ adj' = -Drift
  /\ anchor' = [epoch |-> last_gps_epoch, micros |-> last_pps_micros]
  /\ skip_next' = FALSE
  /\ UNCHANGED <<gps_time_valid, has_gps_time, pps_synced, sys_off>>

\* Normal operation: slew the clock and publish the pair to serve from.
PulseDiscipline ==
  /\ Counting
  /\ pps_synced /\ ~Off
  /\ last_gps_epoch' = CorrectedEpoch
  /\ pps_count' = 2
  /\ adj' = -Drift
  /\ anchor' = [epoch |-> CorrectedEpoch, micros |-> last_pps_micros]
  /\ skip_next' = FALSE
  /\ UNCHANGED <<gps_time_valid, has_gps_time, pps_synced, sys_off>>

ApplyPpsCorrection ==
  \/ PulseIgnored
  \/ PulseWithoutFix
  \/ PulseFirst
  \/ PulseSync
  \/ PulseDiverged
  \/ PulseHardSync
  \/ PulseDiscipline

-----------------------------------------------------------------------------
(***************************************************************************)
(* on_update(): one NMEA sentence.                                         *)
(***************************************************************************)

\* A signed 8 bit conversion.
Int8(x) == ((x + 128) % 256) - 128

\* Whole seconds the system clock is away from the sentence.  A right clock is
\* 0 to 1000 ms ahead of it; -100 to 900 ms is taken as right.
EpochError(ts) ==
  LET delta == sys_off + now - ts * SEC
  IN  IF 10 * delta > 9 * SEC THEN Int8((delta + SEC \div 2) \div SEC)
      ELSE IF 10 * delta < -SEC THEN Int8(-((SEC \div 2 - delta) \div SEC))
      ELSE 0

Suspect(ts) == pps_synced /\ EpochError(ts) # 0
Streak(ts) == IF EpochError(ts) = err_last THEN err_streak + 1 ELSE 1
\* Mutated form: one sentence too many.
MustFix_Late(ts) == Suspect(ts) /\ Streak(ts) > EPOCH_FIX_STREAK
MustFix(ts) == Suspect(ts) /\ Streak(ts) >= EPOCH_FIX_STREAK
\* The seconds the epoch counter and the system clock are stepped back.
Step(ts) == IF MustFix(ts) THEN EpochError(ts) ELSE 0
FixedEpoch(ts) == last_gps_epoch - Step(ts)

\* Mutated form: the step is not marked for the anchor check.
EpochSanity_NoMark(ts) ==
  /\ err_streak' = IF Suspect(ts) /\ ~MustFix(ts) THEN Streak(ts) ELSE 0
  /\ err_last' = IF Suspect(ts) THEN EpochError(ts) ELSE err_last
  /\ adj' = IF MustFix(ts) THEN 0 ELSE adj
  /\ skip_next' = skip_next

\* The streak of sentences that name the same error, and the step at its end.
EpochSanity(ts) ==
  /\ err_streak' = IF Suspect(ts) /\ ~MustFix(ts) THEN Streak(ts) ELSE 0
  /\ err_last' = IF Suspect(ts) THEN EpochError(ts) ELSE err_last
  /\ adj' = IF MustFix(ts) THEN 0 ELSE adj
  /\ skip_next' = (skip_next \/ MustFix(ts))

\* After a blocked loop the UART buffer holds its oldest sentence; what came
\* while it was full is lost.  Then there is the current one.
Unread == {s \in {heard + 1, rx_sec} : s > heard /\ s <= rx_sec}

\* Sentence s is handled.
Hearing(s) ==
  /\ pc = "idle" /\ ~stalled
  /\ s = rx_sec => now > last_edge
  /\ heard' = IF s = rx_sec THEN s ELSE rx_sec - 1
  /\ UNCHANGED <<now, last_edge, rx_sec, coasting, stalled, isr, pc, pulses, health>>

\* No new valid date and time: on_update() returns after the satellite counts, which
\* this sentence gives or leaves as they were.
NmeaWithoutTime(s) ==
  /\ Hearing(s)
  /\ Fault("lost")
  /\ sats' \in {sats, TRUE} \cup (IF "nofix" \in faults.kinds THEN {FALSE} ELSE {})
  /\ UNCHANGED <<epochs, nmea_check, clock, served>>

\* Unsynchronised: NMEA owns the epoch counter, unless a pulse is pending, and
\* sets the coarse clock once.
NmeaCoarse(s, ts) ==
  /\ Hearing(s)
  /\ ~pps_synced
  /\ gps_time_valid' = TRUE
  /\ has_gps_time' = TRUE
  /\ last_gps_epoch' = IF pps_flag THEN last_gps_epoch ELSE ts
  /\ IF has_gps_time THEN UNCHANGED sys_off ELSE SetClock(ts)
  /\ EpochSanity(ts)
  /\ UNCHANGED <<pps_synced, pps_count, anchor>>

\* More than two seconds between sentence and counter, and no pulse pending.
Diverged(ts) == ~pps_flag /\ Magnitude(ts - FixedEpoch(ts)) > 2

\* Synchronised: the sentence only checks, and steps a counter that three
\* sentences in a row found wrong by the same amount.
NmeaCheck(s, ts) ==
  /\ Hearing(s)
  /\ pps_synced /\ ~Diverged(ts)
  /\ gps_time_valid' = TRUE
  /\ last_gps_epoch' = FixedEpoch(ts)
  /\ sys_off' = sys_off - Step(ts) * SEC
  /\ EpochSanity(ts)
  /\ UNCHANGED <<has_gps_time, pps_synced, pps_count, anchor>>

\* The reset, directly followed by the coarse clock: has_gps_time_ is cleared
\* and set again in the same call.
NmeaDiverged(s, ts) ==
  /\ Hearing(s)
  /\ pps_synced /\ Diverged(ts)
  /\ FullReset
  /\ has_gps_time' = TRUE
  /\ SetClock(ts)
  /\ EpochSanity(ts)

OnUpdate(s, ts) ==
  /\ NmeaCoarse(s, ts) \/ NmeaCheck(s, ts) \/ NmeaDiverged(s, ts)
  /\ \/ sats' = TRUE /\ UNCHANGED faults
     \/ sats' = FALSE /\ Fault("nofix")

\* A sentence with the wrong second in it.
OnGlitch(s, ts) ==
  /\ NmeaCoarse(s, ts) \/ NmeaCheck(s, ts) \/ NmeaDiverged(s, ts)
  /\ Fault("glitch")
  /\ sats' = TRUE

-----------------------------------------------------------------------------
\* The clock has run out; the model ends here, the program does not.
EndOfHorizon == now = Horizon /\ UNCHANGED vars

Environment ==
  \/ ReceiverEdge \/ MissedEdge \/ NoiseEdge
  \/ StartCoast \/ Relock
  \/ Stall \/ Resume
  \/ Tick \/ Slew
  \/ \E g \in Glitches \cup {0} : ClockPushed(g)

MainLoop ==
  \/ LoopTake
  \/ ApplyPpsCorrection
  \/ \E s \in Unread :
       \/ NmeaWithoutTime(s)
       \/ OnUpdate(s, s)
       \/ \E g \in Glitches : OnGlitch(s, s + g)

Next == Environment \/ MainLoop \/ EndOfHorizon

Spec == Init /\ [][Next]_vars

-----------------------------------------------------------------------------
(***************************************************************************)
(* What other components read.                                             *)
(***************************************************************************)

\* Mutated form: a silent pin goes unnoticed.
IsSynchronized_NoTimeout == pps_synced /\ period_healthy

\* is_synchronized()
IsSynchronized ==
  /\ pps_synced
  /\ period_healthy
  /\ now - last_pps_millis < PPS_TIMEOUT

\* get_last_sync_epoch()
LastSyncEpoch == IF pps_synced THEN last_gps_epoch ELSE 0

-----------------------------------------------------------------------------
(***************************************************************************)
(* Properties.                                                             *)
(***************************************************************************)

\* Types of all variables.
TypeOK ==
  /\ now \in Nat /\ last_edge \in Nat /\ rx_sec \in Nat /\ heard \in Nat
  /\ coasting \in BOOLEAN /\ stalled \in BOOLEAN /\ faults \in FaultPlan
  /\ last_pps_micros \in Nat /\ isr_anchor_micros \in Nat /\ pps_flag \in BOOLEAN
  /\ pc \in {"idle", "taken"} /\ sats \in BOOLEAN
  /\ gps_time_valid \in BOOLEAN /\ has_gps_time \in BOOLEAN /\ last_gps_epoch \in Int
  /\ pps_synced \in BOOLEAN /\ pps_count \in 0 .. 2
  /\ prev_pps_micros \in Nat /\ last_pps_millis \in Nat
  /\ period_healthy \in BOOLEAN
  /\ bad_streak \in 0 .. PPS_PERIOD_BAD_STREAK
  /\ good_streak \in 0 .. PPS_PERIOD_GOOD_STREAK
  /\ err_streak \in 0 .. EPOCH_FIX_STREAK - 1 /\ err_last \in Int
  /\ anchor \in [epoch : Int, micros : Nat] /\ skip_next \in BOOLEAN
  /\ sys_off \in Int /\ adj \in Int

\* No pulse is waiting and none is being applied.
Quiet == ~pps_flag /\ pc = "idle"

\* The three resets (fix lost, drift, NMEA divergence) and the way back: what
\* a synchronised clock rests on is all there, and an anchor is only ever
\* offered by a synchronised clock ("invalidate: serving must fall back").
ResetIsComplete ==
  /\ pps_synced => gps_time_valid /\ has_gps_time /\ pps_count = 2
  /\ anchor.epoch # 0 => pps_synced

\* The epoch counter names the second that began at the last accepted pulse,
\* however many pulses were missed or overwritten while the loop was blocked.
EpochTrue == pps_synced /\ Quiet => last_gps_epoch = last_pps_micros \div SEC

\* The published pair is a true one: the second and the instant it began.
AnchorTrue == anchor.epoch # 0 => anchor.epoch * SEC = anchor.micros

\* The anchor in use and the epoch counter stay the same whole number of
\* seconds apart as the pulses they came from, unless the counter was stepped
\* after the anchor was published, which skip_next marks.
AnchorMatchesCounter ==
  anchor.epoch # 0 /\ ~skip_next =>
    last_gps_epoch - anchor.epoch =
      (prev_pps_micros - anchor.micros + SEC \div 2) \div SEC

\* A clock offered to clients was set by a pulse at most PPS_TIMEOUT ago (and
\* the loop delay with which it was noticed).
ServesOnlyRecentPulse ==
  IsSynchronized => now - last_pps_micros <= PPS_TIMEOUT + LoopDelay

(***************************************************************************)
(* Which faults they withstand.                                            *)
(***************************************************************************)

\* What a receiver and a busy main loop do in the field.
Usual == {"missed", "lost", "stall", "glitch", "nofix"}

\* Nothing went wrong while the clock was not synchronised, neither at boot nor in
\* the way back from a reset, and no edge came that is not a second.
Undisturbed == faults.synced /\ faults.kinds \subseteq Usual

\* Once the first two pulses were counted right (after boot, and after each reset that
\* a lost fix causes), missed pulses, a blocked loop, lost or wrong sentences and a lost
\* fix leave the epoch counter true ...
EpochStaysTrue == Undisturbed => EpochTrue

\* ... and the pair published from it.
AnchorStaysTrue == Undisturbed => AnchorTrue

\* The anchor and the counter keep the distance of the pulses they came from.
\* An edge that marks no second breaks this: two intervals are rounded, not one.
AnchorKeepsDistance == faults.kinds \subseteq Usual => AnchorMatchesCounter

\* While the main loop runs, a clock offered to clients was set by a recent
\* pulse, although edges come that mark no second, pulses are missed and
\* another time source sets the system clock.
ServesWhilePulsing == "stall" \notin faults.kinds => ServesOnlyRecentPulse

\* A receiver that coasts with a long period is refused before the pair it
\* publishes is further out than the pulses the gate tolerates.
CoastIsRefused ==
  IsSynchronized /\ anchor.epoch # 0 =>
    Magnitude(anchor.epoch * SEC - anchor.micros) < PPS_PERIOD_BAD_STREAK * CoastSlip

=============================================================================
