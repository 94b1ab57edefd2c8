--------------------------- MODULE GpsPpsTimeProofs ---------------------------
(***************************************************************************)
(* What GpsPpsTime guarantees for every tick rate, streak length, fault    *)
(* budget and horizon: type correctness, that each of the three resets     *)
(* takes the anchor and everything a synchronised clock rests on with it,  *)
(* that a clock is offered only while pulses come, that anchor and counter *)
(* keep the distance of their pulses, that under the faults of a receiver  *)
(* in the field both stay true, that a wrong counter is repaired, and that *)
(* a coasting receiver is refused in time.                                 *)
(***************************************************************************)
EXTENDS GpsRepair, TLAPS

USE TimeAssumption, DisciplineAssumption, FaultAssumption
    DEF TimeAssumption, DisciplineAssumption, FaultAssumption

-----------------------------------------------------------------------------
(***************************************************************************)
(* The helpers stay within their types.                                    *)
(***************************************************************************)

\* Half a second is a number of ticks.
LEMMA HalfType == SEC \div 2 \in Nat
  BY SMT

\* Division by the ticks per second gives an integer.
LEMMA DivType == \A a \in Int : a \div SEC \in Int
  BY SMT

\* The 8 bit conversion gives an integer.
LEMMA Int8Type == \A x \in Int : Int8(x) \in Int
  BY SMT DEF Int8

\* The second error a sentence reports is an integer.
LEMMA EpochErrorType ==
  ASSUME TypeOK, NEW ts \in Int
  PROVE  EpochError(ts) \in Int
<1> DEFINE delta == sys_off + now - ts * SEC
           half  == SEC \div 2
<1>1. delta \in Int BY DEF TypeOK
<1>2. half \in Int BY HalfType
<1>3. Int8((delta + half) \div SEC) \in Int /\ Int8(-((half - delta) \div SEC)) \in Int
  <2> HIDE DEF delta, half
  <2>1. delta + half \in Int /\ half - delta \in Int BY <1>1, <1>2
  <2>2. (delta + half) \div SEC \in Int /\ (half - delta) \div SEC \in Int
    BY <2>1, DivType
  <2>3. -((half - delta) \div SEC) \in Int BY <2>2
  <2> QED BY <2>2, <2>3, Int8Type
<1> QED BY <1>3 DEF EpochError

\* The epoch a pulse names, and the drift measured against it, are integers.
LEMMA CorrectedEpochType ==
  ASSUME TypeOK
  PROVE  CorrectedEpoch \in Int /\ Drift \in Int
<1> DEFINE rounded == (Interval + SEC \div 2) \div SEC
<1>1. Interval + SEC \div 2 \in Int BY HalfType DEF TypeOK, Interval
<1>2. rounded \in Int BY <1>1, DivType
<1>3. CorrectedEpoch \in Int
  <2> HIDE DEF rounded
  <2>1. ExtraEpochs = rounded - 1 BY DEF ExtraEpochs, rounded
  <2> QED BY <1>2, <2>1 DEF TypeOK, CorrectedEpoch
<1>4. Drift \in Int
  <2> HIDE DEF rounded
  <2> QED BY <1>3 DEF TypeOK, Drift
<1> QED BY <1>3, <1>4

\* What a sentence does to the error streak, the slew, the marker, the counter
\* and the system clock keeps their types.
LEMMA EpochSanityType ==
  ASSUME TypeOK, NEW ts \in Int, EpochSanity(ts)
  PROVE  /\ err_streak' \in 0 .. EPOCH_FIX_STREAK - 1
         /\ err_last' \in Int
         /\ adj' \in Int
         /\ skip_next' \in BOOLEAN
         /\ FixedEpoch(ts) \in Int
         /\ sys_off - Step(ts) * SEC \in Int
<1>1. EpochError(ts) \in Int BY EpochErrorType
<1>2. Streak(ts) \in Nat BY DEF TypeOK, Streak
<1>3. err_streak' \in 0 .. EPOCH_FIX_STREAK - 1
  BY <1>2 DEF EpochSanity, MustFix
<1>4. Step(ts) \in Int BY <1>1 DEF Step
<1>5. FixedEpoch(ts) \in Int /\ sys_off - Step(ts) * SEC \in Int
  BY <1>4 DEF TypeOK, FixedEpoch
<1>6. skip_next' \in BOOLEAN BY DEF TypeOK, EpochSanity, MustFix, Suspect
<1> QED BY <1>1, <1>3, <1>5, <1>6 DEF TypeOK, EpochSanity

-----------------------------------------------------------------------------
(***************************************************************************)
(* Type correctness.                                                       *)
(***************************************************************************)

LEMMA TypeInit == Init => TypeOK
<1> SUFFICES ASSUME Init PROVE TypeOK
  OBVIOUS
<1>1. BootSec * SEC \in Nat BY SMT
<1>2. /\ now \in Nat /\ last_edge \in Nat /\ rx_sec \in Nat /\ heard \in Nat
      /\ faults \in FaultPlan
  BY <1>1 DEF Init
<1>3. /\ last_pps_micros \in Nat /\ isr_anchor_micros \in Nat
      /\ prev_pps_micros \in Nat /\ last_pps_millis \in Nat
      /\ last_gps_epoch \in Int /\ pps_count \in 0 .. 2
      /\ bad_streak \in 0 .. PPS_PERIOD_BAD_STREAK
      /\ good_streak \in 0 .. PPS_PERIOD_GOOD_STREAK
  BY DEF Init
<1>4. /\ err_streak \in 0 .. EPOCH_FIX_STREAK - 1 /\ err_last \in Int
      /\ anchor \in [epoch : Int, micros : Nat]
      /\ sys_off \in Int /\ adj \in Int
  BY <1>2 DEF Init, NoAnchor
<1>5. /\ coasting \in BOOLEAN /\ stalled \in BOOLEAN /\ pps_flag \in BOOLEAN
      /\ pc \in {"idle", "taken"} /\ sats \in BOOLEAN
      /\ gps_time_valid \in BOOLEAN /\ has_gps_time \in BOOLEAN
      /\ pps_synced \in BOOLEAN /\ period_healthy \in BOOLEAN /\ skip_next \in BOOLEAN
  BY DEF Init
<1> QED BY <1>2, <1>3, <1>4, <1>5 DEF TypeOK

\* The interrupt and the fault budget.
LEMMA IsrType ==
  ASSUME TypeOK, PpsIsr
  PROVE  /\ last_pps_micros' \in Nat /\ isr_anchor_micros' \in Nat
         /\ pps_flag' \in BOOLEAN
  BY DEF TypeOK, PpsIsr, isr

LEMMA FaultType ==
  ASSUME TypeOK, NEW kind, Fault(kind)
  PROVE  faults' \in FaultPlan
  BY DEF TypeOK, Fault, FaultPlan

\* The environment keeps the types.
LEMMA TypeEnvironment == TypeOK /\ Environment => TypeOK'
<1> SUFFICES ASSUME TypeOK, Environment PROVE TypeOK'
  OBVIOUS
<1> USE DEF main, receiver, isr, epochs, pulses, health, nmea_check, clock, served
<1>1. CASE ReceiverEdge
  BY <1>1, IsrType DEF TypeOK, ReceiverEdge
<1>2. CASE MissedEdge
  BY <1>2, FaultType DEF TypeOK, MissedEdge
<1>3. CASE NoiseEdge
  BY <1>3, IsrType, FaultType DEF TypeOK, NoiseEdge
<1>4. CASE StartCoast
  BY <1>4, FaultType DEF TypeOK, StartCoast
<1>5. CASE Relock
  <2>1. TrueSec \in Nat /\ TrueSec * SEC \in Nat
    <3>1. TrueSec \in Nat BY SMT DEF TypeOK, TrueSec
    <3> QED BY <3>1, SMT
  <2> QED BY <1>5, <2>1 DEF TypeOK, Relock
<1>6. CASE Stall
  BY <1>6, FaultType DEF TypeOK, Stall
<1>7. CASE Resume
  BY <1>7 DEF TypeOK, Resume
<1>8. CASE Tick
  BY <1>8 DEF TypeOK, Tick
<1>9. CASE Slew
  <2>1. sys_off' \in Int /\ adj' \in Int BY <1>9 DEF TypeOK, Slew
  <2> QED BY <1>9, <2>1 DEF TypeOK, Slew
<1>10. ASSUME NEW g \in Glitches \cup {0}, ClockPushed(g) PROVE TypeOK'
  <2>1. TrueSec \in Int /\ g \in Int BY DivType DEF TypeOK, TrueSec
  <2>2. (TrueSec + g) * SEC \in Int
    <3> DEFINE sec == TrueSec + g
    <3>1. sec \in Int BY <2>1
    <3> HIDE DEF sec
    <3>2. sec * SEC \in Int BY <3>1, SMT
    <3> QED BY <3>2 DEF sec
  <2>3. sys_off' \in Int BY <1>10, <2>2 DEF TypeOK, ClockPushed
  <2>4. faults' \in FaultPlan BY <1>10, FaultType DEF ClockPushed
  <2> QED BY <1>10, <2>3, <2>4 DEF TypeOK, ClockPushed
<1> QED BY <1>1, <1>2, <1>3, <1>4, <1>5, <1>6, <1>7, <1>8, <1>9, <1>10 DEF Environment

\* A pulse, whichever branch it takes, keeps the types.
LEMMA TypePulse == TypeOK /\ ApplyPpsCorrection => TypeOK'
<1> SUFFICES ASSUME TypeOK, ApplyPpsCorrection PROVE TypeOK'
  OBVIOUS
<1> USE DEF Applying, receiver, isr, epochs, pulses, health, nmea_check, clock, served
<1>1. ASSUME Counting
      PROVE  /\ bad_streak' \in 0 .. PPS_PERIOD_BAD_STREAK
             /\ good_streak' \in 0 .. PPS_PERIOD_GOOD_STREAK
             /\ period_healthy' \in BOOLEAN
  <2>1. PeriodCheck BY <1>1 DEF Counting
  <2>2. /\ Saturate(bad_streak, PPS_PERIOD_BAD_STREAK) \in 0 .. PPS_PERIOD_BAD_STREAK
        /\ Saturate(good_streak, PPS_PERIOD_GOOD_STREAK) \in 0 .. PPS_PERIOD_GOOD_STREAK
    BY DEF TypeOK, Saturate
  <2>3. bad_streak' \in 0 .. PPS_PERIOD_BAD_STREAK
    BY <2>1, <2>2, SMT DEF PeriodCheck
  <2>4. good_streak' \in 0 .. PPS_PERIOD_GOOD_STREAK
    BY <2>1, <2>2, SMT DEF PeriodCheck
  <2>5. period_healthy' \in BOOLEAN
    BY <2>1, Zenon DEF PeriodCheck
  <2> QED BY <2>3, <2>4, <2>5
<1>2. ASSUME SetClock(CorrectedEpoch) PROVE sys_off' \in Int
  <2>1. CorrectedEpoch * SEC \in Int BY CorrectedEpochType
  <2> QED BY <1>2, <2>1 DEF TypeOK, SetClock
<1>3. ASSUME FullReset
      PROVE  /\ pps_synced' \in BOOLEAN /\ gps_time_valid' \in BOOLEAN
             /\ anchor' \in [epoch : Int, micros : Nat]
             /\ last_gps_epoch' \in Int /\ pps_count' \in 0 .. 2
  <2>1. pps_synced' \in BOOLEAN /\ gps_time_valid' \in BOOLEAN
    BY <1>3 DEF FullReset
  <2>2. anchor' \in [epoch : Int, micros : Nat] BY <1>3 DEF FullReset, NoAnchor
  <2>3. last_gps_epoch' \in Int /\ pps_count' \in 0 .. 2 BY <1>3 DEF FullReset
  <2> QED BY <2>1, <2>2, <2>3
<1>4. CASE PulseIgnored
  BY <1>4 DEF TypeOK, PulseIgnored
<1>5. CASE PulseWithoutFix
  <2>1. /\ pps_synced' \in BOOLEAN /\ gps_time_valid' \in BOOLEAN
        /\ has_gps_time' \in BOOLEAN
        /\ anchor' \in [epoch : Int, micros : Nat]
        /\ last_gps_epoch' \in Int /\ pps_count' \in 0 .. 2
    BY <1>3, <1>5 DEF TypeOK, PulseWithoutFix
  <2>2. last_pps_millis' \in Nat BY <1>5 DEF TypeOK, PulseWithoutFix
  <2> QED BY <1>5, <2>1, <2>2 DEF TypeOK, PulseWithoutFix
<1>6. CASE PulseFirst
  BY <1>6 DEF TypeOK, PulseFirst
<1>7. CASE PulseSync
  BY <1>1, <1>2, <1>7, CorrectedEpochType DEF TypeOK, PulseSync, Counting
<1>8. CASE PulseDiverged
  BY <1>1, <1>3, <1>8 DEF TypeOK, PulseDiverged, Counting
<1>9. CASE PulseHardSync
  BY <1>1, <1>2, <1>9, CorrectedEpochType DEF TypeOK, PulseHardSync, Counting
<1>10. CASE PulseDiscipline
  <2>1. anchor' \in [epoch : Int, micros : Nat]
    BY <1>10, CorrectedEpochType DEF TypeOK, PulseDiscipline
  <2>2. adj' \in Int BY <1>10, CorrectedEpochType DEF PulseDiscipline
  <2>3. /\ bad_streak' \in 0 .. PPS_PERIOD_BAD_STREAK
        /\ good_streak' \in 0 .. PPS_PERIOD_GOOD_STREAK
        /\ period_healthy' \in BOOLEAN
    BY <1>1, <1>10 DEF PulseDiscipline
  <2>4. last_gps_epoch' \in Int BY <1>10, CorrectedEpochType DEF PulseDiscipline
  <2>5. skip_next' \in BOOLEAN /\ pc' \in {"idle", "taken"} /\ pps_count' \in 0 .. 2
    <3>1. skip_next' = FALSE /\ pps_count' = 2 BY <1>10, Zenon DEF PulseDiscipline
    <3>2. pc' = "idle" BY <1>10, Zenon DEF PulseDiscipline, Counting
    <3>3. skip_next' \in BOOLEAN BY <3>1
    <3>4. pc' \in {"idle", "taken"} BY <3>2
    <3>5. pps_count' \in 0 .. 2 BY <3>1
    <3> QED BY <3>3, <3>4, <3>5
  <2>6. last_pps_millis' \in Nat /\ prev_pps_micros' \in Nat /\ sys_off' \in Int
    BY <1>10 DEF TypeOK, PulseDiscipline, Counting
  <2>7. UNCHANGED <<gps_time_valid, has_gps_time, pps_synced, now, receiver, stalled,
                    faults, isr, sats, nmea_check>>
    BY <1>10 DEF PulseDiscipline, Counting
  <2> QED BY <2>1, <2>2, <2>3, <2>4, <2>5, <2>6, <2>7 DEF TypeOK
<1> QED BY <1>4, <1>5, <1>6, <1>7, <1>8, <1>9, <1>10 DEF ApplyPpsCorrection

\* A sentence keeps the types, whatever second it names.
LEMMA TypeSentence ==
  ASSUME TypeOK, NEW s \in Unread, NEW ts \in Int,
         NmeaCoarse(s, ts) \/ NmeaCheck(s, ts) \/ NmeaDiverged(s, ts),
         faults' \in FaultPlan, sats' \in BOOLEAN
  PROVE  TypeOK'
<1> USE DEF isr, pulses, health
<1>1. EpochSanity(ts) BY DEF NmeaCoarse, NmeaCheck, NmeaDiverged
<1>2. Hearing(s) BY DEF NmeaCoarse, NmeaCheck, NmeaDiverged
<1>3. heard' \in Nat
  <2>1. s \in Nat /\ s <= rx_sec BY DEF TypeOK, Unread
  <2>2. heard' = IF s = rx_sec THEN s ELSE rx_sec - 1 BY <1>2 DEF Hearing
  <2> QED BY <2>1, <2>2 DEF TypeOK
<1>4. ts * SEC \in Int /\ (SetClock(ts) => sys_off' \in Int)
  <2>1. ts * SEC \in Int BY SMT
  <2> QED BY <2>1 DEF TypeOK, SetClock
<1>5. /\ gps_time_valid' \in BOOLEAN /\ has_gps_time' \in BOOLEAN
      /\ pps_synced' \in BOOLEAN
  BY DEF TypeOK, NmeaCoarse, NmeaCheck, NmeaDiverged, FullReset
<1>6. pps_count' \in 0 .. 2
  BY DEF TypeOK, NmeaCoarse, NmeaCheck, NmeaDiverged, FullReset
<1>7. anchor' \in [epoch : Int, micros : Nat]
  BY DEF TypeOK, NmeaCoarse, NmeaCheck, NmeaDiverged, FullReset, NoAnchor
<1>8. last_gps_epoch' \in Int
  BY <1>1, EpochSanityType DEF TypeOK, NmeaCoarse, NmeaCheck, NmeaDiverged, FullReset
<1>9. sys_off' \in Int
  BY <1>1, <1>4, EpochSanityType DEF TypeOK, NmeaCoarse, NmeaCheck, NmeaDiverged
<1>10. /\ err_streak' \in 0 .. EPOCH_FIX_STREAK - 1 /\ err_last' \in Int
       /\ adj' \in Int /\ skip_next' \in BOOLEAN
  BY <1>1, EpochSanityType
<1> QED BY <1>2, <1>3, <1>5, <1>6, <1>7, <1>8, <1>9, <1>10 DEF TypeOK, Hearing

\* The main loop keeps the types.
LEMMA TypeMainLoop == TypeOK /\ MainLoop => TypeOK'
<1> SUFFICES ASSUME TypeOK, MainLoop PROVE TypeOK'
  OBVIOUS
<1> USE DEF receiver, isr, epochs, pulses, health, nmea_check, clock, served
<1>1. CASE LoopTake
  BY <1>1 DEF TypeOK, LoopTake
<1>2. CASE ApplyPpsCorrection
  BY <1>2, TypePulse
<1>3. ASSUME NEW s \in Unread, NmeaWithoutTime(s) PROVE TypeOK'
  <2>1. heard' \in Nat
    <3>1. s \in Nat /\ s <= rx_sec BY DEF TypeOK, Unread
    <3>2. heard' = IF s = rx_sec THEN s ELSE rx_sec - 1
      BY <1>3 DEF NmeaWithoutTime, Hearing
    <3> QED BY <3>1, <3>2 DEF TypeOK
  <2>2. faults' \in FaultPlan BY <1>3, FaultType DEF NmeaWithoutTime
  <2> QED BY <1>3, <2>1, <2>2 DEF TypeOK, NmeaWithoutTime, Hearing
<1>4. ASSUME NEW s \in Unread, OnUpdate(s, s) PROVE TypeOK'
  <2>1. s \in Int BY DEF TypeOK, Unread
  <2>2. faults' \in FaultPlan BY <1>4, FaultType DEF TypeOK, OnUpdate
  <2>3. sats' \in BOOLEAN BY <1>4 DEF OnUpdate
  <2>4. NmeaCoarse(s, s) \/ NmeaCheck(s, s) \/ NmeaDiverged(s, s) BY <1>4 DEF OnUpdate
  <2> QED BY <2>1, <2>2, <2>3, <2>4, TypeSentence
<1>5. ASSUME NEW s \in Unread, NEW g \in Glitches, OnGlitch(s, s + g) PROVE TypeOK'
  <2>1. s + g \in Int BY DEF TypeOK, Unread
  <2>2. faults' \in FaultPlan BY <1>5, FaultType DEF OnGlitch
  <2>3. sats' \in BOOLEAN BY <1>5 DEF OnGlitch
  <2>4. NmeaCoarse(s, s + g) \/ NmeaCheck(s, s + g) \/ NmeaDiverged(s, s + g)
    BY <1>5 DEF OnGlitch
  <2> QED BY <2>1, <2>2, <2>3, <2>4, TypeSentence
<1> QED BY <1>1, <1>2, <1>3, <1>4, <1>5 DEF MainLoop

\* A step that changes nothing keeps the types.
LEMMA TypeStutter == TypeOK /\ UNCHANGED vars => TypeOK'
  BY DEF TypeOK, vars, receiver, isr, main, epochs, pulses, health, nmea_check,
         clock, served

\* Type correctness, for every value of the constants.
THEOREM TypeCorrect == Spec => []TypeOK
<1>1. Init => TypeOK BY TypeInit
<1>2. TypeOK /\ [Next]_vars => TypeOK'
  BY TypeEnvironment, TypeMainLoop, TypeStutter DEF Next, EndOfHorizon
<1> QED BY <1>1, <1>2, PTL DEF Spec

-----------------------------------------------------------------------------
(***************************************************************************)
(* Resets are complete.  On its own the property does not survive the pulse *)
(* that synchronises the clock: it needs that a valid epoch comes with the *)
(* coarse clock, which each of the three resets and each sentence keeps.   *)
(***************************************************************************)

\* The inductive invariant.
ResetInv == ResetIsComplete /\ (gps_time_valid => has_gps_time)

\* The environment touches none of it.
LEMMA ResetEnvironment == ResetInv /\ Environment => ResetInv'
  BY DEF ResetInv, ResetIsComplete, Environment, ReceiverEdge, MissedEdge, NoiseEdge,
         StartCoast, Relock, Stall, Resume, Tick, Slew, ClockPushed, main, epochs, served

\* Every branch of a pulse.
LEMMA ResetPulse == TypeOK /\ ResetInv /\ ApplyPpsCorrection => ResetInv'
<1> SUFFICES ASSUME TypeOK, ResetInv, ApplyPpsCorrection PROVE ResetInv'
  OBVIOUS
<1> USE DEF ResetInv, ResetIsComplete, epochs, served
<1>1. CASE PulseIgnored BY <1>1 DEF PulseIgnored
<1>2. CASE PulseWithoutFix BY <1>2 DEF PulseWithoutFix, FullReset, NoAnchor
<1>3. CASE PulseFirst
  <2>1. pps_count = 0 /\ ~pps_synced BY <1>3 DEF PulseFirst
  <2> QED BY <1>3, <2>1 DEF PulseFirst
<1>4. CASE PulseSync
  BY <1>4 DEF PulseSync, Counting, Usable, EpochKnown
<1>5. CASE PulseDiverged BY <1>5 DEF PulseDiverged, FullReset, NoAnchor
<1>6. CASE PulseHardSync BY <1>6 DEF PulseHardSync
<1>7. CASE PulseDiscipline BY <1>7 DEF PulseDiscipline
<1> QED BY <1>1, <1>2, <1>3, <1>4, <1>5, <1>6, <1>7 DEF ApplyPpsCorrection

\* Every branch of a sentence.
LEMMA ResetSentence ==
  ASSUME ResetInv, NEW s, NEW ts,
         NmeaCoarse(s, ts) \/ NmeaCheck(s, ts) \/ NmeaDiverged(s, ts)
  PROVE  ResetInv'
<1> USE DEF ResetInv, ResetIsComplete
<1>1. CASE NmeaCoarse(s, ts) BY <1>1 DEF NmeaCoarse
<1>2. CASE NmeaCheck(s, ts) BY <1>2 DEF NmeaCheck
<1>3. CASE NmeaDiverged(s, ts) BY <1>3 DEF NmeaDiverged, FullReset, NoAnchor
<1> QED BY <1>1, <1>2, <1>3

\* The inductive invariant holds.
LEMMA ResetInvariant == Spec => []ResetInv
<1>1. Init => ResetInv
  BY DEF Init, ResetInv, ResetIsComplete, NoAnchor
<1>2. TypeOK /\ ResetInv /\ [Next]_vars => ResetInv'
  <2> SUFFICES ASSUME TypeOK, ResetInv, [Next]_vars PROVE ResetInv'
    OBVIOUS
  <2>1. CASE Environment BY <2>1, ResetEnvironment
  <2>2. CASE LoopTake BY <2>2 DEF LoopTake, ResetInv, ResetIsComplete, epochs, served
  <2>3. CASE ApplyPpsCorrection BY <2>3, ResetPulse
  <2>4. ASSUME NEW s \in Unread, NmeaWithoutTime(s) PROVE ResetInv'
    BY <2>4 DEF NmeaWithoutTime, ResetInv, ResetIsComplete, epochs, served
  <2>5. ASSUME NEW s \in Unread, OnUpdate(s, s) PROVE ResetInv'
    BY <2>5, ResetSentence DEF OnUpdate
  <2>6. ASSUME NEW s \in Unread, NEW g \in Glitches, OnGlitch(s, s + g) PROVE ResetInv'
    BY <2>6, ResetSentence DEF OnGlitch
  <2>7. CASE UNCHANGED vars
    BY <2>7 DEF ResetInv, ResetIsComplete, vars, main, epochs, served
  <2> QED BY <2>1, <2>2, <2>3, <2>4, <2>5, <2>6, <2>7 DEF Next, MainLoop, EndOfHorizon
<1> QED BY <1>1, <1>2, TypeCorrect, PTL DEF Spec

\* Losing the fix, drifting off or being contradicted by the receiver never
\* leaves half a synchronised clock behind, and no anchor to serve from.
THEOREM ResetsAreComplete == Spec => []ResetIsComplete
  BY ResetInvariant, PTL DEF ResetInv

-----------------------------------------------------------------------------
\* The plan of faults: only the number left ever changes, and it goes down with
\* each fault.
LEMMA FaultCounts ==
  ASSUME TypeOK, NEW kind, Fault(kind)
  PROVE  /\ kind \in faults.kinds /\ (faults.synced => pps_synced)
         /\ faults'.kinds = faults.kinds /\ faults'.synced = faults.synced
         /\ faults.left \in Nat \ {0} /\ faults'.left = faults.left - 1
BY DEF TypeOK, Fault, FaultPlan

LEMMA PlanStays ==
  ASSUME TypeOK, [Next]_vars
  PROVE  faults'.kinds = faults.kinds /\ faults'.synced = faults.synced
<1>1. CASE faults' = faults BY <1>1
<1>2. CASE \E kind \in FaultKinds : Fault(kind) BY <1>2, FaultCounts
<1>3. CASE Environment
  BY <1>1, <1>2, <1>3
     DEF Environment, ReceiverEdge, MissedEdge, NoiseEdge, StartCoast, Relock, Stall, Resume,
         Tick, Slew, ClockPushed, FaultKinds
<1>4. CASE LoopTake \/ ApplyPpsCorrection
  BY <1>1, <1>4
     DEF LoopTake, ApplyPpsCorrection, PulseIgnored, PulseWithoutFix, PulseFirst, PulseSync,
         PulseDiverged, PulseHardSync, PulseDiscipline, Counting, Applying
<1>5. ASSUME NEW s, NmeaWithoutTime(s)
      PROVE  faults'.kinds = faults.kinds /\ faults'.synced = faults.synced
  BY <1>2, <1>5 DEF NmeaWithoutTime, FaultKinds
<1>6. ASSUME NEW s, OnUpdate(s, s)
      PROVE  faults'.kinds = faults.kinds /\ faults'.synced = faults.synced
  BY <1>1, <1>2, <1>6 DEF OnUpdate, FaultKinds
<1>7. ASSUME NEW s, NEW ts, OnGlitch(s, ts)
      PROVE  faults'.kinds = faults.kinds /\ faults'.synced = faults.synced
  BY <1>2, <1>7 DEF OnGlitch, FaultKinds
<1> QED BY <1>1, <1>3, <1>4, <1>5, <1>6, <1>7 DEF Next, MainLoop, EndOfHorizon, vars

-----------------------------------------------------------------------------
(***************************************************************************)
(* A clock on offer is of a recent pulse.                                  *)
(***************************************************************************)

\* A pulse that the loop has still to apply.
Pending == pps_flag \/ pc = "taken"

\* While the loop is not blocked a pulse does not wait for long, so that the time
\* at which one was applied is not much later than the last one was.
RecentInv ==
  /\ last_pps_micros <= now
  /\ "stall" \notin faults.kinds =>
       /\ ~stalled
       /\ Pending => now <= last_pps_micros + LoopDelay
       /\ pps_synced => last_pps_millis <= last_pps_micros + LoopDelay

\* The environment: the clock does not tick over a pulse that has waited LoopDelay.
LEMMA RecentEnvironment == TypeOK /\ RecentInv /\ Environment => RecentInv'
<1> SUFFICES ASSUME TypeOK, RecentInv, Environment PROVE RecentInv'
  OBVIOUS
<1>1. faults'.kinds = faults.kinds BY PlanStays DEF Next
<1>2. now \in Nat /\ last_pps_micros \in Nat /\ last_pps_millis \in Nat /\ LoopDelay \in Nat
  BY DEF TypeOK
<1>3. CASE ReceiverEdge \/ NoiseEdge
  <2>1. /\ now' = now /\ pps_synced' = pps_synced /\ last_pps_millis' = last_pps_millis
        /\ stalled' = stalled /\ pc' = pc
    BY <1>3 DEF ReceiverEdge, NoiseEdge, main, epochs, pulses
  <2>2. \/ last_pps_micros' = last_pps_micros /\ pps_flag' = pps_flag
        \/ last_pps_micros' = now
    BY <1>3 DEF ReceiverEdge, NoiseEdge, PpsIsr, isr
  <2> QED BY <1>1, <1>2, <2>1, <2>2 DEF RecentInv, Pending
<1>4. CASE Tick
  <2>1. /\ now' = now + 1 /\ last_pps_micros' = last_pps_micros /\ pps_flag' = pps_flag
        /\ pps_synced' = pps_synced /\ last_pps_millis' = last_pps_millis
        /\ stalled' = stalled /\ pc' = pc /\ pc = "idle"
        /\ ~stalled /\ pps_flag => now - last_pps_micros < LoopDelay
    BY <1>4 DEF Tick, main, epochs, pulses, isr
  <2> QED BY <1>1, <1>2, <2>1 DEF RecentInv, Pending
<1>5. CASE Stall
  <2>1. "stall" \in faults.kinds BY <1>5 DEF Stall, Fault
  <2> QED BY <1>1, <1>5, <2>1 DEF RecentInv, Stall, isr
<1>6. CASE MissedEdge \/ StartCoast \/ Relock \/ Resume \/ Slew
           \/ \E g \in Glitches \cup {0} : ClockPushed(g)
  <2>1. /\ now' = now /\ last_pps_micros' = last_pps_micros /\ pps_flag' = pps_flag
        /\ pps_synced' = pps_synced /\ last_pps_millis' = last_pps_millis
        /\ (stalled' => stalled) /\ pc' = pc
    BY <1>6 DEF MissedEdge, StartCoast, Relock, Resume, Slew, ClockPushed, main, epochs,
           pulses, isr, receiver
  <2> QED BY <1>1, <2>1 DEF RecentInv, Pending
<1> QED BY <1>3, <1>4, <1>5, <1>6 DEF Environment

LEMMA RecentMainLoop == TypeOK /\ RecentInv /\ MainLoop => RecentInv'
<1> SUFFICES ASSUME TypeOK, RecentInv, MainLoop PROVE RecentInv'
  OBVIOUS
<1>1. faults'.kinds = faults.kinds BY PlanStays DEF Next
<1>2. now \in Nat /\ last_pps_micros \in Nat /\ last_pps_millis \in Nat /\ LoopDelay \in Nat
  BY DEF TypeOK
<1>3. CASE LoopTake
  BY <1>1, <1>3 DEF LoopTake, RecentInv, Pending, epochs, pulses
<1>4. CASE ApplyPpsCorrection
  <2>1. /\ now' = now /\ last_pps_micros' = last_pps_micros /\ pps_flag' = pps_flag
        /\ stalled' = stalled /\ pc = "taken" /\ pc' = "idle"
    BY <1>4
       DEF ApplyPpsCorrection, PulseIgnored, PulseWithoutFix, PulseFirst, PulseSync,
           PulseDiverged, PulseHardSync, PulseDiscipline, Counting, Applying, isr
  <2>2. \/ pps_synced' = FALSE
        \/ pps_synced' = pps_synced /\ last_pps_millis' = last_pps_millis
        \/ last_pps_millis' = now
    BY <1>4
       DEF ApplyPpsCorrection, PulseIgnored, PulseWithoutFix, PulseFirst, PulseSync, FullReset,
           PulseDiverged, PulseHardSync, PulseDiscipline, Counting, Applying, epochs, pulses
  <2> QED BY <1>1, <1>2, <2>1, <2>2 DEF RecentInv, Pending
<1>5. ASSUME NEW s, NEW ts,
             NmeaWithoutTime(s) \/ NmeaCoarse(s, ts) \/ NmeaCheck(s, ts) \/ NmeaDiverged(s, ts)
      PROVE  RecentInv'
  <2>1. /\ now' = now /\ last_pps_micros' = last_pps_micros /\ pps_flag' = pps_flag
        /\ stalled' = stalled /\ pc' = pc /\ last_pps_millis' = last_pps_millis
        /\ pps_synced' => pps_synced
    <3>1. CASE NmeaWithoutTime(s)
      BY <3>1 DEF NmeaWithoutTime, Hearing, epochs, pulses, isr
    <3>2. CASE NmeaCoarse(s, ts) \/ NmeaCheck(s, ts) \/ NmeaDiverged(s, ts)
      BY <3>2 DEF NmeaCoarse, NmeaCheck, NmeaDiverged, Hearing, FullReset, pulses, isr
    <3> QED BY <1>5, <3>1, <3>2
  <2> QED BY <1>1, <2>1 DEF RecentInv, Pending
<1> QED BY <1>3, <1>4, <1>5 DEF MainLoop, OnUpdate, OnGlitch

\* While the main loop runs, a clock is offered for PPS_TIMEOUT after a pulse and
\* the delay with which the pulse was noticed, and no longer (ServesWhilePulsing).
THEOREM ServesOnlyWhilePulsing == Spec => []ServesWhilePulsing
<1>1. Init => RecentInv
  <2> SUFFICES ASSUME Init PROVE RecentInv OBVIOUS
  <2>1. now \in Nat BY TypeInit DEF TypeOK
  <2> QED BY <2>1 DEF Init, RecentInv, Pending
<1>2. TypeOK /\ RecentInv /\ [Next]_vars => RecentInv'
  BY RecentEnvironment, RecentMainLoop
     DEF Next, EndOfHorizon, vars, main, isr, epochs, pulses, RecentInv, Pending
<1>3. TypeOK /\ RecentInv => ServesWhilePulsing
  BY DEF TypeOK, RecentInv, ServesWhilePulsing, ServesOnlyRecentPulse, IsSynchronized
<1> QED BY <1>1, <1>2, <1>3, TypeCorrect, PTL DEF Spec

-----------------------------------------------------------------------------
(***************************************************************************)
(* Whole seconds.                                                          *)
(***************************************************************************)

\* An instant at which a second begins.
OnSecond(t) == \E k \in Int : t = k * SEC

\* Seconds as ticks.
LEMMA SecondsAdd ==
  ASSUME NEW j \in Int, NEW k \in Int
  PROVE  /\ j * SEC \in Int /\ k * SEC \in Int
         /\ (j + k) * SEC = j * SEC + k * SEC
         /\ (j - k) * SEC = j * SEC - k * SEC
         /\ (k + 1) * SEC = k * SEC + SEC
         /\ (k - 1) * SEC = k * SEC - SEC
<1>1. SEC \in Int OBVIOUS
<1> QED BY <1>1

LEMMA SecondsOrder ==
  ASSUME NEW j \in Int, NEW k \in Int
  PROVE  /\ j <= k <=> j * SEC <= k * SEC
         /\ j = k <=> j * SEC = k * SEC
<1>1. SEC \in Nat \ {0} OBVIOUS
<1>2. j <= k => j * SEC <= k * SEC BY <1>1
<1>3. j < k => j * SEC < k * SEC BY <1>1
<1>4. k < j => k * SEC < j * SEC BY <1>1
<1>5. j * SEC \in Int /\ k * SEC \in Int BY <1>1
<1> QED BY <1>2, <1>3, <1>4, <1>5

\* Whole seconds and less than one more.
LEMMA WholeSeconds ==
  ASSUME NEW k \in Int, NEW r \in 0 .. SEC - 1
  PROVE  (k * SEC + r) \div SEC = k
<1> DEFINE x == k * SEC + r
           q == x \div SEC
<1>1. SEC \in Nat \ {0} /\ x \in Int BY SecondsAdd
<1>2. q \in Int /\ SEC * q <= x /\ x < SEC * (q + 1) BY <1>1
<1>3. q * SEC <= x /\ x < q * SEC + SEC /\ q * SEC \in Int /\ k * SEC \in Int
  <2> HIDE DEF q, x
  <2> QED BY <1>1, <1>2
<1>4. k * SEC < (q + 1) * SEC /\ q * SEC < (k + 1) * SEC
  <2>1. (q + 1) * SEC = q * SEC + SEC /\ (k + 1) * SEC = k * SEC + SEC
    BY <1>2, SecondsAdd
  <2> HIDE DEF q
  <2> QED BY <1>1, <1>3, <2>1
<1>5. k < q + 1 /\ q < k + 1
  <2> HIDE DEF q, x
  <2>1. q + 1 \in Int /\ k + 1 \in Int BY <1>2
  <2>2. (q + 1) * SEC \in Int /\ (k + 1) * SEC \in Int BY <1>1, <2>1
  <2>3. ~(q + 1 <= k) BY <1>3, <1>4, <2>1, <2>2, SecondsOrder
  <2>4. ~(k + 1 <= q)
    <3>1. k + 1 <= q <=> (k + 1) * SEC <= q * SEC BY <1>2, <2>1, SecondsOrder
    <3> QED BY <1>3, <1>4, <2>2, <3>1
  <2> QED BY <1>2, <2>3, <2>4
<1> HIDE DEF q
<1>6. q = k BY <1>2, <1>5
<1> QED BY <1>6 DEF q

LEMMA WholeSecondsRound ==
  ASSUME NEW k \in Int
  PROVE  (k * SEC + SEC \div 2) \div SEC = k
<1>1. SEC \div 2 \in 0 .. SEC - 1 OBVIOUS
<1> QED BY <1>1, WholeSeconds

\* The epoch a pulse is given, between pulses that mark seconds.
LEMMA EpochGoesWithPulses ==
  ASSUME TypeOK, OnSecond(last_pps_micros), OnSecond(prev_pps_micros)
  PROVE  /\ CorrectedEpoch \in Int
         /\ (CorrectedEpoch - last_gps_epoch) * SEC = last_pps_micros - prev_pps_micros
         /\ CorrectedEpoch * SEC = last_gps_epoch * SEC + (last_pps_micros - prev_pps_micros)
         /\ prev_pps_micros <= last_pps_micros => last_gps_epoch <= CorrectedEpoch
<1>1. PICK j \in Int : last_pps_micros = j * SEC BY DEF OnSecond
<1>2. PICK k \in Int : prev_pps_micros = k * SEC BY DEF OnSecond
<1>3. last_gps_epoch \in Int /\ j - k \in Int BY DEF TypeOK
<1>4. Interval = (j - k) * SEC BY <1>1, <1>2, SecondsAdd DEF Interval
<1>5. (Interval + SEC \div 2) \div SEC = j - k BY <1>3, <1>4, WholeSecondsRound
<1>6. CorrectedEpoch = last_gps_epoch + (j - k)
  BY <1>3, <1>5 DEF CorrectedEpoch, ExtraEpochs
<1>7. CorrectedEpoch - last_gps_epoch = j - k BY <1>3, <1>6
<1>8. (CorrectedEpoch - last_gps_epoch) * SEC = last_pps_micros - prev_pps_micros
  BY <1>1, <1>2, <1>7, SecondsAdd
<1>9. CorrectedEpoch * SEC = last_gps_epoch * SEC + (last_pps_micros - prev_pps_micros)
  <2>1. (last_gps_epoch + (j - k)) * SEC = last_gps_epoch * SEC + (j - k) * SEC
    BY <1>3, SecondsAdd
  <2> QED BY <1>1, <1>2, <1>6, <2>1, SecondsAdd
<1>10. prev_pps_micros <= last_pps_micros => k <= j BY <1>1, <1>2, SecondsOrder
<1> QED BY <1>3, <1>6, <1>8, <1>9, <1>10

-----------------------------------------------------------------------------
(***************************************************************************)
(* The anchor and the counter keep the distance of their pulses.           *)
(***************************************************************************)

\* Every accepted pulse begins a second, and every pulse and every step moves the
\* counter along with the pulses, or marks or withdraws the anchor.
DistanceInv ==
  faults.kinds \subseteq Usual =>
    /\ ~coasting
    /\ OnSecond(last_edge) /\ OnSecond(last_pps_micros) /\ OnSecond(prev_pps_micros)
    /\ anchor.epoch # 0 /\ ~skip_next =>
         (last_gps_epoch - anchor.epoch) * SEC = prev_pps_micros - anchor.micros

\* The edge after one that begins a second does so too, unless the receiver coasts.
LEMMA NextEdgeOnSecond ==
  ASSUME TypeOK, ~coasting, OnSecond(last_edge)
  PROVE  OnSecond(NextEdge)
<1>1. PICK k \in Int : last_edge = k * SEC BY DEF OnSecond
<1>2. NextEdge = (k + 1) * SEC BY <1>1, SecondsAdd DEF NextEdge, Period
<1> QED BY <1>2 DEF OnSecond

\* A counter that moves along with the pulses keeps its distance to the anchor.
LEMMA SecondsApart ==
  ASSUME NEW e \in Int, NEW f \in Int, NEW a \in Int, NEW p \in Int, NEW q \in Int,
         NEW m \in Int, (e - a) * SEC = p - m, f * SEC = e * SEC + (q - p)
  PROVE  (f - a) * SEC = q - m
<1>1. /\ (e - a) * SEC = e * SEC - a * SEC /\ (f - a) * SEC = f * SEC - a * SEC
      /\ e * SEC \in Int /\ f * SEC \in Int /\ a * SEC \in Int
  BY SecondsAdd
<1> QED BY <1>1

LEMMA DistanceInit == Init => DistanceInv
<1> SUFFICES ASSUME Init PROVE DistanceInv
  OBVIOUS
<1>1. OnSecond(last_edge) BY DEF Init, OnSecond
<1>2. OnSecond(last_pps_micros) /\ OnSecond(prev_pps_micros)
  <2>1. 0 = 0 * SEC OBVIOUS
  <2> QED BY <2>1 DEF Init, OnSecond
<1>3. ~coasting /\ anchor.epoch = 0 BY DEF Init, NoAnchor
<1> QED BY <1>1, <1>2, <1>3 DEF DistanceInv

LEMMA DistanceEnvironment == TypeOK /\ DistanceInv /\ Environment => DistanceInv'
<1> SUFFICES ASSUME TypeOK, DistanceInv, Environment, faults.kinds \subseteq Usual
             PROVE  DistanceInv'
  BY PlanStays DEF DistanceInv, Next
<1>1. /\ ~coasting
      /\ OnSecond(last_edge) /\ OnSecond(last_pps_micros) /\ OnSecond(prev_pps_micros)
      /\ anchor.epoch # 0 /\ ~skip_next =>
           (last_gps_epoch - anchor.epoch) * SEC = prev_pps_micros - anchor.micros
  BY DEF DistanceInv
<1>2. ~Fault("noise") /\ ~Fault("coast") /\ ~Fault("pushed") BY DEF Fault, Usual
<1>3. CASE ReceiverEdge \/ MissedEdge
  <2>1. OnSecond(now) /\ last_edge' = now
    BY <1>1, <1>3, NextEdgeOnSecond DEF ReceiverEdge, MissedEdge
  <2>2. last_pps_micros' = last_pps_micros \/ last_pps_micros' = now
    BY <1>3 DEF ReceiverEdge, MissedEdge, PpsIsr, isr
  <2>3. OnSecond(last_edge)' /\ OnSecond(last_pps_micros)'
    BY <1>1, <2>1, <2>2 DEF OnSecond
  <2> QED BY <1>1, <1>3, <2>3
          DEF DistanceInv, ReceiverEdge, MissedEdge, main, epochs, pulses, served, OnSecond
<1>4. CASE Stall \/ Resume \/ Tick \/ Slew
  <2>1. UNCHANGED <<coasting, last_edge, last_pps_micros, prev_pps_micros, anchor, skip_next,
                    last_gps_epoch>>
    BY <1>4 DEF Stall, Resume, Tick, Slew, receiver, isr, main, epochs, pulses, served
  <2> QED BY <1>1, <2>1 DEF DistanceInv, OnSecond
<1> QED BY <1>1, <1>2, <1>3, <1>4
        DEF Environment, NoiseEdge, StartCoast, Relock, ClockPushed

\* Every branch of a pulse.
LEMMA DistancePulse == TypeOK /\ ResetInv /\ DistanceInv /\ ApplyPpsCorrection => DistanceInv'
<1> SUFFICES ASSUME TypeOK, ResetInv, DistanceInv, ApplyPpsCorrection,
                    faults.kinds \subseteq Usual
             PROVE  DistanceInv'
  BY PlanStays DEF DistanceInv, Next, MainLoop
<1>1. /\ ~coasting
      /\ OnSecond(last_edge) /\ OnSecond(last_pps_micros) /\ OnSecond(prev_pps_micros)
      /\ anchor.epoch # 0 /\ ~skip_next =>
           (last_gps_epoch - anchor.epoch) * SEC = prev_pps_micros - anchor.micros
  BY DEF DistanceInv
<1>2. /\ UNCHANGED <<coasting, last_edge, last_pps_micros>>
      /\ prev_pps_micros' = prev_pps_micros \/ prev_pps_micros' = last_pps_micros
  BY DEF ApplyPpsCorrection, PulseIgnored, PulseWithoutFix, PulseFirst, PulseSync, PulseDiverged,
         PulseHardSync, PulseDiscipline, Counting, Applying, receiver, isr, pulses
<1>3. /\ OnSecond(last_edge)' /\ OnSecond(last_pps_micros)' /\ OnSecond(prev_pps_micros)'
      /\ ~coasting'
  BY <1>1, <1>2 DEF OnSecond
<1>4. SUFFICES ASSUME anchor'.epoch # 0, ~skip_next'
               PROVE  (last_gps_epoch - anchor.epoch)' * SEC = prev_pps_micros' - anchor'.micros
  BY <1>3 DEF DistanceInv
<1>5. anchor.epoch # 0 => pps_synced /\ pps_count = 2 BY DEF ResetInv, ResetIsComplete
<1>6. CASE PulseIgnored
  BY <1>1, <1>4, <1>6 DEF PulseIgnored, epochs, pulses, served
<1>7. CASE PulseWithoutFix
  BY <1>1, <1>4, <1>7 DEF PulseWithoutFix, FullReset, NoAnchor, epochs
<1>8. CASE PulseFirst \/ PulseSync
  BY <1>4, <1>5, <1>8 DEF PulseFirst, PulseSync, served
<1>9. CASE PulseDiverged
  BY <1>4, <1>9 DEF PulseDiverged, FullReset, NoAnchor
<1>10. CASE PulseHardSync
  <2>1. /\ anchor' = anchor /\ skip_next' = skip_next
        /\ last_gps_epoch' = CorrectedEpoch /\ prev_pps_micros' = last_pps_micros
    BY <1>10 DEF PulseHardSync, Counting, served
  <2>2. (last_gps_epoch - anchor.epoch) * SEC = prev_pps_micros - anchor.micros
    BY <1>1, <1>4, <2>1
  <2>3. /\ last_gps_epoch \in Int /\ anchor.epoch \in Int /\ anchor.micros \in Int
        /\ last_pps_micros \in Int /\ prev_pps_micros \in Int
    BY DEF TypeOK
  <2>4. /\ CorrectedEpoch \in Int
        /\ CorrectedEpoch * SEC = last_gps_epoch * SEC + (last_pps_micros - prev_pps_micros)
    BY <1>1, EpochGoesWithPulses
  <2>5. (CorrectedEpoch - anchor.epoch) * SEC = last_pps_micros - anchor.micros
    BY <2>2, <2>3, <2>4, SecondsApart
  <2> QED BY <2>1, <2>5
<1>11. CASE PulseDiscipline
  <2>1. /\ anchor' = [epoch |-> CorrectedEpoch, micros |-> last_pps_micros]
        /\ last_gps_epoch' = CorrectedEpoch /\ prev_pps_micros' = last_pps_micros
    BY <1>11 DEF PulseDiscipline, Counting
  <2>2. CorrectedEpoch \in Int /\ last_pps_micros \in Int
    BY CorrectedEpochType DEF TypeOK
  <2> QED BY <2>1, <2>2
<1> QED BY <1>6, <1>7, <1>8, <1>9, <1>10, <1>11 DEF ApplyPpsCorrection

\* Every branch of a sentence.
LEMMA DistanceSentence ==
  ASSUME TypeOK, ResetInv, DistanceInv, NEW s, NEW ts \in Int,
         NmeaCoarse(s, ts) \/ NmeaCheck(s, ts) \/ NmeaDiverged(s, ts),
         faults'.kinds = faults.kinds
  PROVE  DistanceInv'
<1>1. /\ UNCHANGED <<coasting, last_edge, last_pps_micros, prev_pps_micros>>
      /\ EpochSanity(ts)
  BY DEF NmeaCoarse, NmeaCheck, NmeaDiverged, Hearing, isr, pulses
<1>2. CASE NmeaCoarse(s, ts)
  <2>1. anchor' = anchor /\ anchor.epoch = 0
    BY <1>2 DEF NmeaCoarse, ResetInv, ResetIsComplete
  <2> QED BY <1>1, <2>1 DEF DistanceInv, OnSecond
<1>3. CASE NmeaCheck(s, ts)
  <2>1. anchor' = anchor BY <1>3 DEF NmeaCheck
  <2>2. ~skip_next' => ~skip_next /\ last_gps_epoch' = last_gps_epoch
    <3>1. skip_next' = (skip_next \/ MustFix(ts)) BY <1>1 DEF EpochSanity
    <3>2. last_gps_epoch' = last_gps_epoch - Step(ts) BY <1>3 DEF NmeaCheck, FixedEpoch
    <3>3. ~MustFix(ts) => Step(ts) = 0 BY DEF Step
    <3>4. last_gps_epoch \in Int BY DEF TypeOK
    <3>5. ~skip_next' => ~skip_next /\ ~MustFix(ts) BY <3>1, Zenon
    <3>6. ~MustFix(ts) => last_gps_epoch' = last_gps_epoch BY <3>2, <3>3, <3>4
    <3> QED BY <3>5, <3>6, Zenon
  <2> QED BY <1>1, <2>1, <2>2 DEF DistanceInv, OnSecond
<1>4. CASE NmeaDiverged(s, ts)
  <2>1. anchor'.epoch = 0 BY <1>4 DEF NmeaDiverged, FullReset, NoAnchor
  <2> QED BY <1>1, <2>1 DEF DistanceInv, OnSecond
<1> QED BY <1>2, <1>3, <1>4

\* The anchor in use is as many seconds behind the counter as its pulse is behind
\* the counter's, unless a step of the counter has marked it (AnchorKeepsDistance).
THEOREM AnchorStaysWithCounter == Spec => []AnchorKeepsDistance
<1>1. TypeOK /\ ResetInv /\ DistanceInv /\ [Next]_vars => DistanceInv'
  <2> SUFFICES ASSUME TypeOK, ResetInv, DistanceInv, [Next]_vars PROVE DistanceInv'
    OBVIOUS
  <2>1. faults'.kinds = faults.kinds BY PlanStays
  <2>2. CASE Environment BY <2>2, DistanceEnvironment
  <2>3. CASE ApplyPpsCorrection BY <2>3, DistancePulse
  <2>4. ASSUME LoopTake \/ UNCHANGED vars \/ \E s \in Unread : NmeaWithoutTime(s)
        PROVE  DistanceInv'
    <3>1. UNCHANGED <<coasting, last_edge, last_pps_micros, prev_pps_micros, anchor,
                      last_gps_epoch, skip_next>>
      BY <2>4 DEF LoopTake, vars, NmeaWithoutTime, Hearing, receiver, isr, main, epochs, pulses,
                  served
    <3> QED BY <2>1, <3>1 DEF DistanceInv, OnSecond
  <2>5. ASSUME NEW s \in Unread, OnUpdate(s, s) PROVE DistanceInv'
    <3>1. s \in Int BY DEF TypeOK, Unread
    <3> QED BY <2>1, <2>5, <3>1, DistanceSentence DEF OnUpdate
  <2>6. ASSUME NEW s \in Unread, NEW g \in Glitches, OnGlitch(s, s + g) PROVE DistanceInv'
    <3>1. s + g \in Int BY DEF TypeOK, Unread
    <3> QED BY <2>1, <2>6, <3>1, DistanceSentence DEF OnGlitch
  <2> QED BY <2>2, <2>3, <2>4, <2>5, <2>6 DEF Next, MainLoop, EndOfHorizon
<1>2. TypeOK /\ DistanceInv => AnchorKeepsDistance
  <2> SUFFICES ASSUME TypeOK, DistanceInv, faults.kinds \subseteq Usual,
                      anchor.epoch # 0, ~skip_next
               PROVE  last_gps_epoch - anchor.epoch =
                        (prev_pps_micros - anchor.micros + SEC \div 2) \div SEC
    BY DEF AnchorKeepsDistance, AnchorMatchesCounter
  <2>1. (last_gps_epoch - anchor.epoch) * SEC = prev_pps_micros - anchor.micros
    BY DEF DistanceInv
  <2>2. last_gps_epoch - anchor.epoch \in Int BY DEF TypeOK
  <2> QED BY <2>1, <2>2, WholeSecondsRound
<1> QED BY <1>1, <1>2, DistanceInit, ResetInvariant, TypeCorrect, PTL DEF Spec

-----------------------------------------------------------------------------
(***************************************************************************)
(* The epoch counter stays true.                                           *)
(***************************************************************************)

\* An unblocked loop notices pulses in the tick in which they come, sentences are
\* handled in the first half of a second, and a fault plan is too short to make
\* EPOCH_FIX_STREAK sentences in a row suspicious.
QuickLoop ==
  /\ LoopDelay = 0
  /\ 2 * NmeaDelay < SEC
  /\ \A plan \in FaultPlans :
       plan.synced /\ plan.kinds \subseteq Usual => plan.left < EPOCH_FIX_STREAK

\* The loop is not blocked for so long that 8 bits do not hold the age of a sentence.
ShortStalls == rx_sec - heard <= 256

\* The receiver's edges and the accepted pulses are on the grid of true seconds.
GridInv ==
  /\ ~coasting
  /\ last_edge = rx_sec * SEC /\ last_edge <= now /\ now <= last_edge + SEC
  /\ OnSecond(last_pps_micros) /\ OnSecond(prev_pps_micros)
  /\ prev_pps_micros <= last_pps_micros /\ last_pps_micros <= last_edge
  /\ isr_anchor_micros = last_pps_micros
  /\ 0 < heard /\ heard <= rx_sec
  /\ pc = "taken" => ~stalled
  /\ pc = "taken" /\ pps_flag =>
       now = last_edge /\ last_pps_micros = last_edge /\ heard < rx_sec

\* A synchronised clock is right and counts the pulse it applied last.
SyncedInv ==
  pps_synced =>
    /\ last_gps_epoch > 0
    /\ last_gps_epoch * SEC = prev_pps_micros
    /\ Quiet => prev_pps_micros = last_pps_micros
    /\ sys_off = 0 /\ adj = 0

\* Until then nothing goes wrong: pulses are applied at once, and the sentence
\* that follows the first one names its second.
StartInv ==
  ~pps_synced =>
    /\ ~stalled /\ last_gps_epoch >= 0
    /\ Pending => now = last_edge /\ last_pps_micros = last_edge /\ heard < rx_sec
    /\ ~(pps_flag /\ pc = "taken")
    /\ pps_count > 0 =>
         /\ pps_count = 1 /\ sats /\ gps_time_valid /\ last_gps_epoch > 0
         /\ Pending => prev_pps_micros = last_edge - SEC /\ last_gps_epoch = rx_sec - 1
         /\ ~Pending =>
              /\ prev_pps_micros = last_edge /\ last_pps_micros = last_edge
              /\ heard = rx_sec => last_gps_epoch = rx_sec
              /\ heard # rx_sec => now - last_edge <= NmeaDelay

\* A sentence that comes too late for its second, and the error it then names.
Late(s) == 10 * (now - s * SEC) > 9 * SEC
LateError(s) == Int8((now - s * SEC + SEC \div 2) \div SEC)

\* No sentence that waits will make the streak longer.
Clear ==
  /\ ~stalled
  /\ \A s \in Unread : Late(s) => err_streak > 0 /\ err_last # LateError(s)
  /\ \A s \in Unread, t \in Unread : Late(s) /\ Late(t) => s = t

\* The streak, the faults to come and the backlog of the last blocked loop are
\* together too short for a step of the clock.
StreakInv ==
  /\ err_streak + faults.left < EPOCH_FIX_STREAK
  /\ ~Clear => err_streak + faults.left + 1 < EPOCH_FIX_STREAK

ClockInv == Undisturbed => GridInv /\ SyncedInv /\ StartInv /\ StreakInv /\ AnchorTrue

\* The plan stays undisturbed, and leaves out the kinds it leaves out.
LEMMA UndisturbedStays ==
  ASSUME TypeOK, [Next]_vars
  PROVE  /\ Undisturbed' <=> Undisturbed
         /\ Undisturbed =>
              /\ faults.synced
              /\ ~Fault("noise") /\ ~Fault("coast") /\ ~Fault("pushed")
  BY PlanStays DEF Undisturbed, Fault, Usual

LEMMA ClockInit == Init /\ QuickLoop => ClockInv
<1> SUFFICES ASSUME Init, QuickLoop, Undisturbed
             PROVE  GridInv /\ SyncedInv /\ StartInv /\ StreakInv /\ AnchorTrue
  BY DEF ClockInv
<1>1. 0 = 0 * SEC /\ BootSec * SEC \in Nat OBVIOUS
<1>2. OnSecond(last_pps_micros) /\ OnSecond(prev_pps_micros)
  BY <1>1 DEF Init, OnSecond
<1>3. GridInv BY <1>1, <1>2 DEF Init, GridInv
<1>4. SyncedInv /\ StartInv /\ AnchorTrue
  BY DEF Init, SyncedInv, StartInv, AnchorTrue, NoAnchor, Pending
<1>5. Unread = {} BY DEF Init, Unread
<1>6. Clear BY <1>5 DEF Clear, Init
<1>7. faults.left < EPOCH_FIX_STREAK /\ faults.left \in Nat
  BY DEF Init, QuickLoop, Undisturbed, FaultPlan
<1>8. StreakInv BY <1>6, <1>7 DEF StreakInv, Init
<1> QED BY <1>3, <1>4, <1>8

\* The receiver's edge, with or without a pulse.
LEMMA ClockEdge ==
  ASSUME TypeOK, Undisturbed, GridInv, SyncedInv, StartInv, StreakInv, AnchorTrue, QuickLoop,
         ReceiverEdge \/ MissedEdge
  PROVE  GridInv' /\ SyncedInv' /\ StartInv' /\ StreakInv' /\ AnchorTrue'
<1>1. /\ now = last_edge + SEC /\ last_edge = rx_sec * SEC /\ ~coasting
      /\ last_edge' = now /\ rx_sec' = rx_sec + 1 /\ now' = now
      /\ UNCHANGED <<heard, coasting, stalled, main>>
  BY DEF ReceiverEdge, MissedEdge, GridInv, NextEdge, Period, TypeOK
<1>2. UNCHANGED <<pc, sats, gps_time_valid, has_gps_time, last_gps_epoch, pps_synced, pps_count,
                  prev_pps_micros, err_streak, err_last, anchor, sys_off, adj>>
  BY <1>1 DEF main, epochs, pulses, nmea_check, clock, served
<1>3. /\ now \in Nat /\ last_edge \in Nat /\ rx_sec \in Nat /\ heard \in Nat
      /\ last_pps_micros \in Nat /\ prev_pps_micros \in Nat /\ isr_anchor_micros \in Nat
  BY DEF TypeOK
<1>4. /\ last_pps_micros <= last_edge /\ isr_anchor_micros = last_pps_micros
      /\ prev_pps_micros <= last_pps_micros /\ 0 < heard /\ heard <= rx_sec
      /\ OnSecond(last_pps_micros) /\ OnSecond(prev_pps_micros)
      /\ pc = "taken" => ~stalled
  BY DEF GridInv
<1>5. now = (rx_sec + 1) * SEC /\ OnSecond(now)
  <2>1. now = (rx_sec + 1) * SEC BY <1>1, <1>3, SecondsAdd
  <2> QED BY <1>3, <2>1 DEF OnSecond
<1>6. \/ /\ last_pps_micros' = now /\ isr_anchor_micros' = now /\ pps_flag' = TRUE
         /\ faults' = faults
      \/ /\ UNCHANGED <<last_pps_micros, isr_anchor_micros, pps_flag>>
         /\ pps_synced /\ faults'.left = faults.left - 1 /\ faults.left \in Nat \ {0}
  <2>1. CASE ReceiverEdge
    <3>1. ~(10 * (now - isr_anchor_micros) < 9 * SEC) BY <1>1, <1>3, <1>4
    <3> QED BY <2>1, <3>1 DEF ReceiverEdge, PpsIsr
  <2>2. CASE MissedEdge
    BY <2>2, FaultCounts DEF MissedEdge, isr, Undisturbed
  <2> QED BY <2>1, <2>2
<1>7. ~(pc = "taken" /\ pps_flag) BY <1>1, <1>3 DEF GridInv
<1>8. GridInv'
  <2>1. /\ ~coasting' /\ last_edge' = rx_sec' * SEC
        /\ last_edge' <= now' /\ now' <= last_edge' + SEC
    BY <1>1, <1>3, <1>5
  <2>2. OnSecond(last_pps_micros)' /\ OnSecond(prev_pps_micros)'
    BY <1>2, <1>4, <1>5, <1>6 DEF OnSecond
  <2>3. /\ prev_pps_micros' <= last_pps_micros' /\ last_pps_micros' <= last_edge'
        /\ isr_anchor_micros' = last_pps_micros'
    BY <1>1, <1>2, <1>3, <1>4, <1>6
  <2>4. 0 < heard' /\ heard' <= rx_sec' /\ (pc' = "taken" => ~stalled')
    BY <1>1, <1>2, <1>3, <1>4
  <2>5. pc' = "taken" /\ pps_flag' =>
          now' = last_edge' /\ last_pps_micros' = last_edge' /\ heard' < rx_sec'
    <3> SUFFICES ASSUME pc' = "taken", pps_flag'
                 PROVE  now' = last_edge' /\ last_pps_micros' = last_edge' /\ heard' < rx_sec'
      OBVIOUS
    <3>1. last_pps_micros' = now BY <1>2, <1>6, <1>7
    <3> QED BY <1>1, <1>3, <1>4, <3>1
  <2> QED BY <2>1, <2>2, <2>3, <2>4, <2>5 DEF GridInv
<1>9. SyncedInv'
  <2>1. Quiet' => Quiet BY <1>2, <1>6 DEF Quiet
  <2>2. Quiet' => last_pps_micros' = last_pps_micros BY <1>6 DEF Quiet
  <2> QED BY <1>2, <2>1, <2>2 DEF SyncedInv
<1>10. StartInv'
  <2> SUFFICES ASSUME ~pps_synced PROVE StartInv'
    BY <1>2 DEF StartInv
  <2>1. /\ last_pps_micros' = now /\ pps_flag' = TRUE BY <1>6
  <2>2. ~stalled /\ last_gps_epoch >= 0 /\ ~Pending
    BY <1>1, <1>3 DEF StartInv
  <2>3. pps_count > 0 =>
          /\ pps_count = 1 /\ sats /\ gps_time_valid /\ last_gps_epoch > 0
          /\ prev_pps_micros = last_edge
          /\ heard = rx_sec => last_gps_epoch = rx_sec
          /\ heard # rx_sec => now - last_edge <= NmeaDelay
    BY <2>2 DEF StartInv
  <2>4. ~(now - last_edge <= NmeaDelay) BY <1>1, <1>3 DEF QuickLoop
  <2>5. Pending' /\ ~(pps_flag' /\ pc' = "taken") BY <1>2, <2>1, <2>2 DEF Pending
  <2>6. pps_count > 0 => prev_pps_micros' = last_edge' - SEC /\ last_gps_epoch' = rx_sec' - 1
    BY <1>1, <1>2, <1>3, <2>3, <2>4
  <2>7. now' = last_edge' /\ last_pps_micros' = last_edge' /\ heard' < rx_sec'
    BY <1>1, <1>3, <1>4, <2>1
  <2> QED BY <1>1, <1>2, <2>2, <2>3, <2>5, <2>6, <2>7 DEF StartInv
<1>11. Clear => Clear'
  <2> SUFFICES ASSUME Clear PROVE Clear'
    OBVIOUS
  <2>1. \A x \in Int : (Late(x)' <=> Late(x)) /\ LateError(x)' = LateError(x)
    BY <1>1 DEF Late, LateError
  <2>2. ~Late(rx_sec + 1) BY <1>3, <1>5 DEF Late
  <2>3. \A x \in Unread' : x \in Int /\ (x = rx_sec + 1 \/ x \in Unread)
    BY <1>1, <1>3, <1>4 DEF Unread
  <2>4. \A x \in Unread' : Late(x) => x \in Unread BY <2>2, <2>3
  <2> QED BY <1>1, <1>2, <2>1, <2>3, <2>4 DEF Clear
<1>12. StreakInv'
  <2>1. faults'.left \in Nat /\ faults'.left <= faults.left /\ err_streak \in Nat
    BY <1>6 DEF TypeOK, FaultPlan
  <2>2. faults.left \in Nat BY DEF TypeOK, FaultPlan
  <2> QED BY <1>2, <1>11, <2>1, <2>2 DEF StreakInv
<1>13. AnchorTrue' BY <1>2 DEF AnchorTrue
<1> QED BY <1>8, <1>9, <1>10, <1>12, <1>13

\* Half a second later is still the same number of rounded seconds.
LEMMA RoundedSeconds ==
  ASSUME NEW k \in Int, NEW r \in Nat, 2 * r < SEC
  PROVE  (k * SEC + r + SEC \div 2) \div SEC = k
<1>1. r + SEC \div 2 \in 0 .. SEC - 1 OBVIOUS
<1>2. k * SEC + r + SEC \div 2 = k * SEC + (r + SEC \div 2) OBVIOUS
<1> QED BY <1>1, <1>2, WholeSeconds

\* A second and less than a half after s, the error stays the same for a tick.
LEMMA LateTick ==
  ASSUME NEW n \in Int, NEW m \in Int, NEW c \in Int, NEW s \in Int, s < c,
         m = n + 1, c * SEC <= n, 2 * (m - c * SEC) < SEC
  PROVE  /\ 10 * (n - s * SEC) > 9 * SEC
         /\ (n - s * SEC + SEC \div 2) \div SEC = c - s
         /\ (m - s * SEC + SEC \div 2) \div SEC = c - s
<1> DEFINE r == n - c * SEC
           h == SEC \div 2
<1>1. c * SEC \in Int /\ s * SEC \in Int BY SecondsAdd
<1>2. r \in Nat /\ 2 * r < SEC /\ r + 1 \in Nat /\ 2 * (r + 1) < SEC BY <1>1
<1>3. (c - s) * SEC = c * SEC - s * SEC /\ (c - s) * SEC \in Int BY SecondsAdd
<1>4. h \in Nat OBVIOUS
<1>5. n - s * SEC + h = (c - s) * SEC + r + h
  <2> HIDE DEF h
  <2> QED BY <1>1, <1>3, <1>4
<1>6. m - s * SEC + h = (c - s) * SEC + (r + 1) + h
  <2> HIDE DEF h
  <2> QED BY <1>1, <1>3, <1>4
<1>7. c - s \in Int OBVIOUS
<1>8. ((c - s) * SEC + r + h) \div SEC = c - s
  <2> HIDE DEF r
  <2> QED BY <1>2, <1>7, RoundedSeconds
<1>9. ((c - s) * SEC + (r + 1) + h) \div SEC = c - s
  <2> HIDE DEF r
  <2> QED BY <1>2, <1>7, RoundedSeconds
<1>10. SEC <= (c - s) * SEC
  <2>1. 1 * SEC <= (c - s) * SEC BY SecondsOrder
  <2> QED BY <2>1
<1>11. 10 * (n - s * SEC) > 9 * SEC
  <2> HIDE DEF h
  <2> QED BY <1>1, <1>2, <1>3, <1>10
<1> QED BY <1>5, <1>6, <1>8, <1>9, <1>11

\* The clock.
LEMMA ClockTick ==
  ASSUME TypeOK, Undisturbed, GridInv, SyncedInv, StartInv, StreakInv, AnchorTrue, QuickLoop,
         Tick
  PROVE  GridInv' /\ SyncedInv' /\ StartInv' /\ StreakInv' /\ AnchorTrue'
<1>1. /\ now' = now + 1 /\ pc = "idle" /\ pc' = "idle" /\ now < NextEdge
      /\ ~stalled => /\ pps_flag => now - last_pps_micros < LoopDelay
                     /\ heard < rx_sec => now - last_edge < NmeaDelay
      /\ UNCHANGED <<last_edge, rx_sec, heard, coasting, stalled, faults, last_pps_micros,
                     isr_anchor_micros, pps_flag, sats, gps_time_valid, has_gps_time,
                     last_gps_epoch, pps_synced, pps_count, prev_pps_micros, err_streak,
                     err_last, anchor, sys_off, adj>>
  BY DEF Tick, receiver, isr, main, epochs, pulses, nmea_check, clock, served
<1>2. /\ now \in Nat /\ last_edge \in Nat /\ rx_sec \in Nat /\ heard \in Nat
      /\ last_pps_micros \in Nat /\ NmeaDelay \in Nat /\ LoopDelay = 0 /\ 2 * NmeaDelay < SEC
  BY DEF TypeOK, QuickLoop
<1>3. ~coasting /\ last_edge = rx_sec * SEC /\ last_edge <= now /\ last_pps_micros <= last_edge
  BY DEF GridInv
<1>4. now < last_edge + SEC BY <1>1, <1>2, <1>3 DEF NextEdge, Period
<1>5. GridInv'
  <2>1. last_edge' <= now' /\ now' <= last_edge' + SEC BY <1>1, <1>2, <1>3, <1>4
  <2> QED BY <1>1, <2>1 DEF GridInv, OnSecond
<1>6. SyncedInv' BY <1>1 DEF SyncedInv, Quiet
<1>7. StartInv'
  <2> SUFFICES ASSUME ~pps_synced PROVE StartInv'
    BY <1>1 DEF StartInv
  <2>1. ~stalled BY DEF StartInv
  <2>2. ~pps_flag BY <1>1, <1>2, <1>3, <2>1
  <2>3. ~Pending /\ ~Pending' BY <1>1, <2>2 DEF Pending
  <2>4. heard # rx_sec => now' - last_edge' <= NmeaDelay
    BY <1>1, <1>2, <2>1 DEF GridInv
  <2> QED BY <1>1, <2>1, <2>3, <2>4 DEF StartInv
<1>8. Clear => Clear'
  <2> SUFFICES ASSUME Clear PROVE Clear'
    OBVIOUS
  <2>0. now' = now + 1 BY <1>1
  <2>1. ~stalled BY DEF Clear
  <2>2. Unread' = Unread BY <1>1 DEF Unread
  <2>3. ASSUME NEW s \in Unread, Late(s)'
        PROVE  Late(s) /\ LateError(s)' = LateError(s)
    <3>1. s \in Int /\ heard < s /\ s <= rx_sec BY <1>2 DEF Unread
    <3>2. 2 * (now + 1 - rx_sec * SEC) < SEC /\ rx_sec * SEC <= now
      BY <1>1, <1>2, <1>3, <2>1, <3>1
    <3>3. s # rx_sec
      <4>1. ~(10 * (now + 1 - rx_sec * SEC) > 9 * SEC) BY <1>2, <1>3, <3>2
      <4>2. 10 * (now' - s * SEC) > 9 * SEC BY <2>3 DEF Late
      <4> QED BY <1>2, <2>0, <4>1, <4>2
    <3>4. now \in Int /\ rx_sec \in Int /\ s < rx_sec BY <1>2, <3>1, <3>3
    <3>5. /\ 10 * (now - s * SEC) > 9 * SEC
          /\ (now - s * SEC + SEC \div 2) \div SEC = rx_sec - s
          /\ (now' - s * SEC + SEC \div 2) \div SEC = rx_sec - s
      <4>1. now' \in Int /\ 2 * (now' - rx_sec * SEC) < SEC BY <2>0, <3>2, <3>4
      <4> QED BY <2>0, <3>1, <3>2, <3>4, <4>1, LateTick
    <3>6. LateError(s) = Int8(rx_sec - s) BY <3>5 DEF LateError
    <3>7. LateError(s)' = Int8(rx_sec - s) BY <3>5 DEF LateError, Int8
    <3> QED BY <3>5, <3>6, <3>7 DEF Late
  <2> QED BY <1>1, <2>2, <2>3 DEF Clear
<1>9. StreakInv' BY <1>1, <1>8 DEF StreakInv
<1>10. AnchorTrue' BY <1>1 DEF AnchorTrue
<1> QED BY <1>5, <1>6, <1>7, <1>9, <1>10

\* The loop is blocked, or free again, or the clock slewed.
LEMMA ClockStall ==
  ASSUME TypeOK, Undisturbed, GridInv, SyncedInv, StartInv, StreakInv, AnchorTrue,
         Stall \/ Resume \/ Slew \/ UNCHANGED vars
  PROVE  GridInv' /\ SyncedInv' /\ StartInv' /\ StreakInv' /\ AnchorTrue'
<1>1. UNCHANGED <<now, last_edge, rx_sec, heard, coasting, last_pps_micros,
                  isr_anchor_micros, pps_flag, pc, sats, gps_time_valid, has_gps_time,
                  last_gps_epoch, pps_synced, pps_count, prev_pps_micros, err_streak,
                  err_last, anchor>>
  BY DEF Stall, Resume, Slew, vars, receiver, isr, main, epochs, pulses, nmea_check, served
<1>2. \/ /\ ~stalled /\ pc = "idle" /\ stalled' /\ pps_synced /\ UNCHANGED clock
         /\ faults'.left = faults.left - 1 /\ faults.left \in Nat \ {0}
      \/ /\ stalled /\ ~stalled' /\ UNCHANGED <<faults, clock>>
      \/ UNCHANGED <<stalled, faults>> /\ (UNCHANGED clock \/ ~pps_synced)
  <2>1. CASE Stall BY <2>1, FaultCounts DEF Stall, Undisturbed, main
  <2>2. CASE Resume BY <2>2 DEF Resume, main
  <2>3. CASE Slew BY <2>3 DEF Slew, SyncedInv
  <2>4. CASE UNCHANGED vars BY <2>4 DEF vars, main
  <2> QED BY <2>1, <2>2, <2>3, <2>4
<1>3. GridInv' BY <1>1, <1>2 DEF GridInv, OnSecond
<1>4. SyncedInv' BY <1>1, <1>2 DEF SyncedInv, Quiet, clock
<1>5. StartInv' BY <1>1, <1>2 DEF StartInv, Pending
<1>6. StreakInv'
  <2>1. stalled => ~Clear BY DEF Clear
  <2>2. stalled' = stalled => (Clear' <=> Clear)
    BY <1>1 DEF Clear, Unread, Late, LateError
  <2>3. err_streak \in Nat /\ faults.left \in Nat BY DEF TypeOK, FaultPlan
  <2>4. \/ faults'.left = faults.left - 1
        \/ ~Clear /\ faults'.left = faults.left
        \/ (Clear' <=> Clear) /\ faults'.left = faults.left
    BY <1>2, <2>1, <2>2
  <2> QED BY <1>1, <2>3, <2>4 DEF StreakInv
<1>7. AnchorTrue' BY <1>1 DEF AnchorTrue
<1> QED BY <1>3, <1>4, <1>5, <1>6, <1>7

\* loop() takes the flag.
LEMMA ClockTake ==
  ASSUME TypeOK, Undisturbed, GridInv, SyncedInv, StartInv, StreakInv, AnchorTrue, LoopTake
  PROVE  GridInv' /\ SyncedInv' /\ StartInv' /\ StreakInv' /\ AnchorTrue'
<1>1. /\ UNCHANGED <<now, last_edge, rx_sec, heard, coasting, stalled, faults, last_pps_micros,
                     isr_anchor_micros, sats, gps_time_valid, has_gps_time, last_gps_epoch,
                     pps_synced, pps_count, prev_pps_micros, err_streak, err_last, anchor,
                     sys_off, adj>>
      /\ pps_flag /\ pps_flag' = FALSE /\ pc' = "taken" /\ ~stalled
  BY DEF LoopTake, receiver, epochs, pulses, nmea_check, clock, served
<1>2. GridInv' BY <1>1 DEF GridInv, OnSecond
<1>3. SyncedInv' BY <1>1 DEF SyncedInv, Quiet
<1>4. StartInv' BY <1>1 DEF StartInv, Pending
<1>5. StreakInv'
  <2>1. Clear' <=> Clear BY <1>1 DEF Clear, Unread, Late, LateError
  <2> QED BY <1>1, <2>1 DEF StreakInv
<1>6. AnchorTrue' BY <1>1 DEF AnchorTrue
<1> QED BY <1>2, <1>3, <1>4, <1>5, <1>6

\* A pulse of a synchronised clock finds it where it should be, and one that
\* synchronises the clock gives it the second that has just begun.
LEMMA PulseIsTrue ==
  ASSUME TypeOK, GridInv, SyncedInv, StartInv, pc = "taken"
  PROVE  /\ CorrectedEpoch \in Int
         /\ pps_synced => /\ CorrectedEpoch * SEC = last_pps_micros /\ Drift = 0
                          /\ CorrectedEpoch > 0
         /\ ~pps_synced /\ pps_count > 0 =>
              /\ CorrectedEpoch * SEC = last_pps_micros /\ CorrectedEpoch > 0
              /\ last_pps_micros = now
<1>1. /\ CorrectedEpoch \in Int
      /\ CorrectedEpoch * SEC = last_gps_epoch * SEC + (last_pps_micros - prev_pps_micros)
      /\ last_gps_epoch <= CorrectedEpoch
  BY EpochGoesWithPulses DEF GridInv
<1>2. /\ last_gps_epoch \in Int /\ last_gps_epoch * SEC \in Int /\ sys_off \in Int
      /\ last_pps_micros \in Int /\ prev_pps_micros \in Int
  BY SecondsAdd DEF TypeOK
<1>3. ASSUME pps_synced
      PROVE  CorrectedEpoch * SEC = last_pps_micros /\ Drift = 0 /\ CorrectedEpoch > 0
  <2>1. last_gps_epoch * SEC = prev_pps_micros /\ sys_off = 0 /\ last_gps_epoch > 0
    BY <1>3 DEF SyncedInv
  <2>2. CorrectedEpoch * SEC = last_pps_micros BY <1>1, <1>2, <2>1
  <2>3. Drift = 0 BY <1>2, <2>1, <2>2 DEF Drift
  <2> QED BY <1>1, <1>2, <2>1, <2>2, <2>3
<1>4. ASSUME ~pps_synced, pps_count > 0
      PROVE  /\ CorrectedEpoch * SEC = last_pps_micros /\ CorrectedEpoch > 0
             /\ last_pps_micros = now
  <2>1. /\ prev_pps_micros = last_edge - SEC /\ last_gps_epoch = rx_sec - 1
        /\ now = last_edge /\ last_pps_micros = last_edge /\ last_gps_epoch > 0
    BY <1>4 DEF StartInv, Pending
  <2>2. last_edge = rx_sec * SEC /\ rx_sec \in Int /\ last_edge \in Int BY DEF GridInv, TypeOK
  <2>3. last_gps_epoch * SEC = last_edge - SEC BY <2>1, <2>2, SecondsAdd
  <2>4. CorrectedEpoch * SEC = last_pps_micros BY <1>1, <1>2, <2>1, <2>2, <2>3
  <2> QED BY <1>1, <1>2, <2>1, <2>4
<1> QED BY <1>1, <1>3, <1>4

LEMMA ClockPulse ==
  ASSUME TypeOK, ResetInv, Undisturbed, GridInv, SyncedInv, StartInv, StreakInv, AnchorTrue,
         ApplyPpsCorrection
  PROVE  GridInv' /\ SyncedInv' /\ StartInv' /\ StreakInv' /\ AnchorTrue'
<1>1. /\ UNCHANGED <<now, last_edge, rx_sec, heard, coasting, stalled, faults, last_pps_micros,
                     isr_anchor_micros, pps_flag, sats, err_streak, err_last>>
      /\ pc = "taken" /\ pc' = "idle"
      /\ prev_pps_micros' = prev_pps_micros \/ prev_pps_micros' = last_pps_micros
  BY DEF ApplyPpsCorrection, PulseIgnored, PulseWithoutFix, PulseFirst, PulseSync, PulseDiverged,
         PulseHardSync, PulseDiscipline, Counting, Applying, receiver, isr, pulses, nmea_check
<1>2. ~stalled /\ Pending BY <1>1 DEF GridInv, Pending
<1>3. /\ now \in Nat /\ last_edge \in Nat /\ rx_sec \in Nat /\ heard \in Nat
      /\ last_pps_micros \in Nat /\ prev_pps_micros \in Nat /\ last_gps_epoch \in Int
      /\ pps_count \in 0 .. 2 /\ sys_off \in Int
  BY DEF TypeOK
<1>4. GridInv'
  <2>1. OnSecond(last_pps_micros)' /\ OnSecond(prev_pps_micros)'
    BY <1>1 DEF GridInv, OnSecond
  <2>2. prev_pps_micros' <= last_pps_micros' BY <1>1, <1>3 DEF GridInv
  <2> QED BY <1>1, <2>1, <2>2 DEF GridInv
<1>5. StreakInv'
  <2>1. Clear' <=> Clear BY <1>1 DEF Clear, Unread, Late, LateError
  <2> QED BY <1>1, <2>1 DEF StreakInv
<1>6. CorrectedEpoch \in Int BY <1>1, PulseIsTrue
<1>7. CASE pps_synced
  <2>1. CorrectedEpoch * SEC = last_pps_micros /\ Drift = 0 /\ CorrectedEpoch > 0
    BY <1>1, <1>7, PulseIsTrue
  <2>2. EpochKnown /\ pps_count = 2
    BY <1>7 DEF EpochKnown, ResetInv, ResetIsComplete, SyncedInv
  <2>3. ~Off /\ ~FarOff BY <2>1 DEF Off, FarOff, Magnitude
  <2>4. PulseWithoutFix \/ PulseDiscipline
    <3>1. ~PulseIgnored BY <2>2 DEF PulseIgnored
    <3>2. ~PulseFirst BY <2>2 DEF PulseFirst
    <3>3. ~PulseSync BY <1>7 DEF PulseSync
    <3>4. ~PulseDiverged /\ ~PulseHardSync BY <2>3 DEF PulseDiverged, PulseHardSync
    <3> QED BY <3>1, <3>2, <3>3, <3>4 DEF ApplyPpsCorrection
  <2>5. CASE PulseWithoutFix
    <3>1. ~pps_synced' /\ anchor' = NoAnchor /\ last_gps_epoch' = 0 /\ pps_count' = 0
      BY <1>7, <2>5 DEF PulseWithoutFix, FullReset
    <3>2. Pending' => now' = last_edge' /\ last_pps_micros' = last_edge' /\ heard' < rx_sec'
      BY <1>1 DEF GridInv, Pending
    <3>3. StartInv' BY <1>1, <1>2, <3>1, <3>2 DEF StartInv
    <3>4. SyncedInv' BY <3>1 DEF SyncedInv
    <3>5. AnchorTrue' BY <3>1 DEF AnchorTrue, NoAnchor
    <3> QED BY <1>4, <1>5, <3>3, <3>4, <3>5
  <2>6. CASE PulseDiscipline
    <3>1. /\ last_gps_epoch' = CorrectedEpoch /\ adj' = -Drift /\ sys_off' = sys_off
          /\ anchor' = [epoch |-> CorrectedEpoch, micros |-> last_pps_micros]
          /\ pps_synced' = pps_synced /\ prev_pps_micros' = last_pps_micros
      BY <2>6 DEF PulseDiscipline, Counting
    <3>2. AnchorTrue' BY <2>1, <3>1 DEF AnchorTrue
    <3>3. sys_off = 0 /\ adj' = 0
      <4>1. adj' + Drift = 0 /\ adj' \in Int
        <5>1. Drift \in Int BY CorrectedEpochType
        <5>2. \A d \in Int : -d + d = 0 /\ -d \in Int OBVIOUS
        <5> QED BY <3>1, <5>1, <5>2
      <4>2. adj' = 0
        <5>1. \A a \in Int, d \in Int : a + d = 0 /\ d = 0 => a = 0 OBVIOUS
        <5>2. Drift = 0 /\ Drift \in Int BY <2>1, CorrectedEpochType
        <5> QED BY <4>1, <5>1, <5>2, Zenon
      <4> QED BY <1>7, <4>2 DEF SyncedInv
    <3>4. SyncedInv' BY <1>1, <2>1, <3>1, <3>3 DEF SyncedInv
    <3>5. StartInv' BY <1>7, <3>1 DEF StartInv
    <3> QED BY <1>4, <1>5, <3>2, <3>4, <3>5
  <2> QED BY <2>4, <2>5, <2>6
<1>8. CASE ~pps_synced
  <2>1. /\ ~stalled /\ last_gps_epoch >= 0 /\ ~pps_flag
        /\ now = last_edge /\ last_pps_micros = last_edge /\ heard < rx_sec
        /\ pps_count > 0 => sats /\ EpochKnown
    BY <1>1, <1>2, <1>3, <1>8 DEF StartInv, EpochKnown
  <2>2. ~Pending' BY <1>1, <2>1 DEF Pending
  <2>3. anchor.epoch = 0 BY <1>8 DEF ResetInv, ResetIsComplete
  <2>4. CASE PulseIgnored \/ PulseWithoutFix
    <3>1. pps_count = 0 BY <1>3, <2>1, <2>4 DEF PulseIgnored, PulseWithoutFix
    <3>2. /\ ~pps_synced' /\ pps_count' = 0 /\ last_gps_epoch' = last_gps_epoch
          /\ anchor' = anchor
      BY <1>8, <2>4, <3>1 DEF PulseIgnored, PulseWithoutFix, epochs, served
    <3>3. StartInv' BY <1>1, <2>1, <2>2, <3>2 DEF StartInv
    <3>4. SyncedInv' /\ AnchorTrue' BY <2>3, <3>2 DEF SyncedInv, AnchorTrue
    <3> QED BY <1>4, <1>5, <3>3, <3>4
  <2>5. CASE PulseFirst
    <3>1. /\ pps_count' = 1 /\ prev_pps_micros' = last_pps_micros
          /\ gps_time_valid' = gps_time_valid /\ last_gps_epoch' = last_gps_epoch
          /\ pps_synced' = pps_synced /\ anchor' = anchor /\ Usable
      BY <2>5 DEF PulseFirst, served
    <3>2. sats /\ gps_time_valid /\ last_gps_epoch > 0
      BY <1>3, <2>1, <3>1 DEF Usable, EpochKnown
    <3>3. now' - last_edge' <= NmeaDelay /\ heard' # rx_sec' BY <1>1, <1>3, <2>1
    <3>4. StartInv' BY <1>1, <2>1, <2>2, <3>1, <3>2, <3>3 DEF StartInv
    <3>5. SyncedInv' /\ AnchorTrue' BY <1>8, <2>3, <3>1 DEF SyncedInv, AnchorTrue
    <3> QED BY <1>4, <1>5, <3>4, <3>5
  <2>6. CASE PulseSync
    <3>1. /\ pps_synced' = TRUE /\ last_gps_epoch' = CorrectedEpoch /\ adj' = 0
          /\ sys_off' = CorrectedEpoch * SEC - now /\ prev_pps_micros' = last_pps_micros
          /\ anchor' = anchor /\ pps_count > 0
      BY <2>6 DEF PulseSync, Counting, SetClock, served
    <3>2. /\ CorrectedEpoch * SEC = last_pps_micros /\ CorrectedEpoch > 0
          /\ last_pps_micros = now
      BY <1>1, <1>8, <3>1, PulseIsTrue
    <3>3. sys_off' = 0 BY <1>3, <3>1, <3>2
    <3>4. SyncedInv' BY <1>1, <3>1, <3>2, <3>3 DEF SyncedInv
    <3>5. StartInv' /\ AnchorTrue' BY <2>3, <3>1 DEF StartInv, AnchorTrue
    <3> QED BY <1>4, <1>5, <3>4, <3>5
  <2> QED BY <1>8, <2>4, <2>5, <2>6
          DEF ApplyPpsCorrection, PulseDiverged, PulseHardSync, PulseDiscipline
<1> QED BY <1>7, <1>8

\* Whole seconds come out of a division.
LEMMA SecondsOut ==
  ASSUME NEW x \in Int, NEW m \in Int
  PROVE  (x + m * SEC) \div SEC = x \div SEC + m
<1> DEFINE q == x \div SEC
           r == x - q * SEC
<1>1. SEC \in Nat \ {0} OBVIOUS
<1>2. q \in Int /\ SEC * q <= x /\ x < SEC * (q + 1) BY <1>1
<1>3. q * SEC \in Int /\ m * SEC \in Int /\ (q + m) * SEC = q * SEC + m * SEC
      /\ (q + 1) * SEC = q * SEC + SEC
  <2> HIDE DEF q
  <2> QED BY <1>2, SecondsAdd
<1>4. r \in 0 .. SEC - 1 /\ x + m * SEC = (q + m) * SEC + r
  <2>1. SEC * q = q * SEC /\ SEC * (q + 1) = (q + 1) * SEC
    <3> HIDE DEF q
    <3> QED BY <1>1, <1>2
  <2> HIDE DEF q
  <2>2. r = x - q * SEC OBVIOUS
  <2> HIDE DEF r
  <2> QED BY <1>1, <1>2, <1>3, <2>1, <2>2
<1>5. ((q + m) * SEC + r) \div SEC = q + m
  <2> HIDE DEF q, r
  <2>1. q + m \in Int BY <1>2
  <2> QED BY <1>4, <2>1, WholeSeconds
<1> QED BY <1>4, <1>5

\* 8 bits tell numbers apart that are closer than 256.
LEMMA Int8Differs ==
  ASSUME NEW y \in Int, NEW m \in 1 .. 255
  PROVE  Int8(y + m) # Int8(y)
  BY SMT DEF Int8

\* A sentence of an earlier second comes late, with an error of its own.
LEMMA OldSentence ==
  ASSUME TypeOK, GridInv, ShortStalls, NEW s \in Unread, s # rx_sec
  PROVE  Late(s) /\ LateError(s) # LateError(rx_sec)
<1>1. /\ s \in Int /\ rx_sec \in Int /\ heard < s /\ s < rx_sec /\ rx_sec - s \in 1 .. 255
      /\ now \in Int /\ rx_sec * SEC <= now
  BY DEF Unread, TypeOK, ShortStalls, GridInv
<1>2. /\ s * SEC \in Int /\ rx_sec * SEC \in Int /\ (rx_sec - s) * SEC \in Int
      /\ (rx_sec - s) * SEC = rx_sec * SEC - s * SEC
  BY <1>1, SecondsAdd
<1>3. 1 * SEC <= (rx_sec - s) * SEC BY <1>1, SecondsOrder
<1>4. Late(s) BY <1>1, <1>2, <1>3 DEF Late
<1> DEFINE h == SEC \div 2
           x == now - rx_sec * SEC + h
<1>5. h \in Int OBVIOUS
<1>6. x \in Int /\ now - s * SEC + h = x + (rx_sec - s) * SEC
  <2> HIDE DEF h
  <2> QED BY <1>1, <1>2, <1>5
<1>7. (x + (rx_sec - s) * SEC) \div SEC = x \div SEC + (rx_sec - s)
  <2> HIDE DEF x
  <2>1. rx_sec - s \in Int BY <1>1
  <2> QED BY <1>6, <2>1, SecondsOut
<1>8. x \div SEC \in Int
  <2> HIDE DEF x
  <2> QED BY <1>6, DivType
<1>9. LateError(s) = Int8(x \div SEC + (rx_sec - s)) BY <1>6, <1>7 DEF LateError
<1>10. LateError(rx_sec) = Int8(x \div SEC) BY DEF LateError
<1>11. Int8(x \div SEC + (rx_sec - s)) # Int8(x \div SEC)
  <2> DEFINE y == x \div SEC
             m == rx_sec - s
  <2>1. y \in Int /\ m \in 1 .. 255 BY <1>1, <1>8
  <2> HIDE DEF y, m
  <2>2. Int8(y + m) # Int8(y) BY <2>1, Int8Differs
  <2> QED BY <2>2 DEF y, m
<1> QED BY <1>4, <1>9, <1>10, <1>11

\* To a right clock only a late sentence is suspect.
LEMMA SuspectIsLate ==
  ASSUME TypeOK, GridInv, SyncedInv, NEW s \in Unread, Suspect(s)
  PROVE  Late(s) /\ EpochError(s) = LateError(s)
<1>1. /\ s \in Int /\ rx_sec \in Int /\ s <= rx_sec /\ now \in Int /\ rx_sec * SEC <= now
      /\ sys_off = 0 /\ EpochError(s) # 0
  BY DEF Unread, TypeOK, GridInv, Suspect, SyncedInv
<1>2. s * SEC \in Int /\ rx_sec * SEC \in Int /\ s * SEC <= rx_sec * SEC
  BY <1>1, SecondsAdd, SecondsOrder
<1>3. sys_off + now - s * SEC = now - s * SEC /\ now - s * SEC >= 0 BY <1>1, <1>2
<1>4. ~(10 * (now - s * SEC) < -SEC) BY <1>1, <1>2, <1>3
<1>5. EpochError(s) = IF Late(s) THEN LateError(s) ELSE 0
  BY <1>3, <1>4 DEF EpochError, Late, LateError
<1> QED BY <1>1, <1>5

\* What is left to read after a sentence.
LEMMA UnreadAfter ==
  ASSUME TypeOK, GridInv, NEW s \in Unread, Hearing(s)
  PROVE  /\ s \in Nat /\ heard < s /\ s <= rx_sec /\ rx_sec' = rx_sec /\ now' = now
         /\ ~stalled /\ ~stalled' /\ pc = "idle" /\ pc' = "idle"
         /\ s = rx_sec => heard' = rx_sec /\ Unread' = {} /\ now > last_edge
         /\ s # rx_sec => heard' = rx_sec - 1 /\ Unread' = {rx_sec} /\ rx_sec \in Unread
<1>1. s \in Nat /\ heard < s /\ s <= rx_sec /\ rx_sec \in Nat /\ heard \in Nat
  BY DEF Unread, TypeOK, GridInv
<1>2. /\ rx_sec' = rx_sec /\ now' = now /\ ~stalled /\ ~stalled' /\ pc = "idle" /\ pc' = "idle"
      /\ heard' = IF s = rx_sec THEN s ELSE rx_sec - 1
      /\ s = rx_sec => now > last_edge
  BY DEF Hearing
<1>3. s = rx_sec => heard' = rx_sec /\ Unread' = {}
  BY <1>1, <1>2 DEF Unread
<1>4. s # rx_sec => heard' = rx_sec - 1 /\ Unread' = {rx_sec} /\ rx_sec \in Unread
  BY <1>1, <1>2 DEF Unread
<1> QED BY <1>1, <1>2, <1>3, <1>4

\* Nothing more to fear stays nothing to fear.
LEMMA ClearStays ==
  ASSUME TypeOK, GridInv, ShortStalls, NEW s \in Unread, Hearing(s), Clear
  PROVE  Clear'
<1>1. CASE s = rx_sec BY <1>1, UnreadAfter DEF Clear
<1>2. CASE s # rx_sec
  <2>1. Late(s) /\ rx_sec \in Unread BY <1>2, OldSentence, UnreadAfter
  <2>2. ~Late(rx_sec) BY <1>2, <2>1 DEF Clear
  <2>3. ~Late(rx_sec)' BY <2>2, UnreadAfter DEF Late
  <2>4. Unread' = {rx_sec} /\ ~stalled' /\ rx_sec' = rx_sec BY <1>2, UnreadAfter
  <2>5. \A t \in Unread' : ~Late(t)'
    <3> TAKE t \in Unread'
    <3>1. t = rx_sec BY <2>4
    <3>2. ~(10 * (now' - rx_sec * SEC) > 9 * SEC) BY <2>2, UnreadAfter DEF Late
    <3> QED BY <3>1, <3>2 DEF Late
  <2> QED BY <2>4, <2>5 DEF Clear
<1> QED BY <1>1, <1>2

\* A sentence makes the streak longer only if a fault or a blocked loop pays for it.
LEMMA StreakSentence ==
  ASSUME TypeOK, GridInv, SyncedInv, StreakInv, ShortStalls,
         NEW s \in Unread, NEW ts \in Int, Hearing(s), EpochSanity(ts),
         faults'.left \in Nat, faults'.left <= faults.left,
         ts = s \/ faults'.left < faults.left
  PROVE  ~MustFix(ts) /\ StreakInv'
<1>1. /\ err_streak \in Nat /\ faults.left \in Nat /\ EPOCH_FIX_STREAK \in Nat
      /\ err_streak + faults.left < EPOCH_FIX_STREAK
      /\ ~Clear => err_streak + faults.left + 1 < EPOCH_FIX_STREAK
  BY DEF TypeOK, FaultPlan, StreakInv
<1>2. Clear => Clear' BY ClearStays
<1>3. Streak(ts) \in Nat \ {0} /\ Streak(ts) <= err_streak + 1
  BY <1>1 DEF Streak
<1>4. /\ err_streak' = IF Suspect(ts) /\ ~MustFix(ts) THEN Streak(ts) ELSE 0
      /\ err_last' = IF Suspect(ts) THEN EpochError(ts) ELSE err_last
  BY DEF EpochSanity
<1>5. CASE ~Suspect(ts)
  <2>1. ~MustFix(ts) /\ err_streak' = 0 BY <1>4, <1>5 DEF MustFix
  <2> QED BY <1>1, <1>2, <2>1 DEF StreakInv
<1>6. CASE Suspect(ts) /\ faults'.left < faults.left
  <2>1. Streak(ts) < EPOCH_FIX_STREAK BY <1>1, <1>3, <1>6
  <2>2. ~MustFix(ts) BY <1>1, <1>3, <2>1 DEF MustFix
  <2>3. err_streak' = Streak(ts) BY <1>4, <1>6, <2>2
  <2>4. err_streak' + faults'.left <= err_streak + faults.left BY <1>1, <1>3, <1>6, <2>3
  <2>5. err_streak' \in Nat BY <1>3, <2>3
  <2>6. StreakInv' BY <1>1, <1>2, <2>4, <2>5 DEF StreakInv
  <2> QED BY <2>2, <2>6
<1>7. CASE Suspect(ts) /\ ts = s
  <2>1. Suspect(s) BY <1>7
  <2>2. Late(s) /\ EpochError(s) = LateError(s) BY <2>1, SuspectIsLate
  <2>3. CASE Clear
    <3>1. err_streak > 0 /\ err_last # EpochError(s) BY <2>2, <2>3 DEF Clear
    <3>2. Streak(ts) = 1 BY <1>7, <3>1 DEF Streak
    <3>3. ~MustFix(ts) BY <1>1, <3>1, <3>2 DEF MustFix
    <3>4. err_streak' = 1 BY <1>4, <1>7, <3>2, <3>3
    <3>5. StreakInv' BY <1>1, <1>2, <2>3, <3>1, <3>4 DEF StreakInv
    <3> QED BY <3>3, <3>5
  <2>4. CASE ~Clear
    <3>1. Streak(ts) < EPOCH_FIX_STREAK BY <1>1, <1>3, <2>4
    <3>2. ~MustFix(ts) BY <1>1, <1>3, <3>1 DEF MustFix
    <3>3. err_streak' = Streak(ts) /\ err_last' = LateError(s) BY <1>4, <1>7, <2>2, <3>2
    <3>4. Clear'
      <4>1. CASE s = rx_sec BY <4>1, UnreadAfter DEF Clear
      <4>2. CASE s # rx_sec
        <5>1. Unread' = {rx_sec} /\ ~stalled' /\ now' = now BY <4>2, UnreadAfter
        <5>2. LateError(s) # LateError(rx_sec) BY <4>2, OldSentence
        <5>3. \A t \in Unread' : err_streak' > 0 /\ err_last' # LateError(t)'
          <6> TAKE t \in Unread'
          <6>1. t = rx_sec BY <5>1
          <6>2. LateError(t)' = LateError(t) BY <5>1 DEF LateError
          <6> QED BY <1>3, <3>3, <5>2, <6>1, <6>2
        <5> QED BY <5>1, <5>3 DEF Clear
      <4> QED BY <4>1, <4>2
    <3>5. err_streak' + faults'.left <= err_streak + 1 + faults.left BY <1>1, <1>3, <3>3
    <3>6. err_streak' \in Nat BY <1>3, <3>3
    <3>7. StreakInv' BY <1>1, <2>4, <3>4, <3>5, <3>6 DEF StreakInv
    <3> QED BY <3>2, <3>7
  <2> QED BY <2>3, <2>4
<1> QED BY <1>5, <1>6, <1>7

\* A sentence, true or false, leaves the clock right; one of an unsynchronised
\* clock is true.
LEMMA ClockSentence ==
  ASSUME TypeOK, ResetInv, ShortStalls,
         GridInv, SyncedInv, StartInv, StreakInv, AnchorTrue,
         NEW s \in Unread, NEW ts \in Int,
         NmeaCoarse(s, ts) \/ NmeaCheck(s, ts) \/ NmeaDiverged(s, ts),
         faults'.left \in Nat, faults'.left <= faults.left,
         ts = s \/ faults'.left < faults.left,
         ~pps_synced => ts = s /\ sats'
  PROVE  GridInv' /\ SyncedInv' /\ StartInv' /\ StreakInv' /\ AnchorTrue'
<1>1. /\ UNCHANGED <<now, last_edge, rx_sec, coasting, stalled, last_pps_micros,
                     isr_anchor_micros, pps_flag, pc, prev_pps_micros>>
      /\ Hearing(s) /\ EpochSanity(ts)
  BY DEF NmeaCoarse, NmeaCheck, NmeaDiverged, Hearing, isr, pulses
<1>2. ~MustFix(ts) /\ StreakInv' BY <1>1, StreakSentence
<1>3. /\ s \in Nat /\ heard < s /\ s <= rx_sec /\ ~stalled /\ ~stalled' /\ pc = "idle"
      /\ s = rx_sec => heard' = rx_sec /\ now > last_edge
      /\ s # rx_sec => heard' = rx_sec - 1
  BY <1>1, UnreadAfter
<1>4. /\ rx_sec \in Nat /\ heard \in Nat /\ last_gps_epoch \in Int /\ sys_off \in Int
      /\ pps_count \in 0 .. 2 /\ now \in Nat /\ last_edge \in Nat /\ 0 < heard
  BY DEF TypeOK, GridInv
<1>5. Step(ts) = 0 /\ adj' = adj
  <2>1. adj' = adj BY <1>1, <1>2 DEF EpochSanity
  <2> QED BY <1>2, <2>1 DEF Step
<1>6. GridInv'
  <2>1. 0 < heard' /\ heard' <= rx_sec' BY <1>1, <1>3, <1>4
  <2> QED BY <1>1, <1>3, <2>1 DEF GridInv, OnSecond
<1>7. CASE NmeaCoarse(s, ts)
  <2>1. /\ ~pps_synced /\ ~pps_synced' /\ pps_count' = pps_count /\ anchor' = anchor
        /\ gps_time_valid' = TRUE /\ ts = s /\ sats'
        /\ last_gps_epoch' = IF pps_flag THEN last_gps_epoch ELSE s
    BY <1>7 DEF NmeaCoarse
  <2>2. Pending' <=> pps_flag BY <1>1, <1>3 DEF Pending
  <2>3. last_gps_epoch >= 0 BY <2>1 DEF StartInv
  <2>4. last_gps_epoch' >= 0 /\ (~pps_flag => last_gps_epoch' > 0)
    BY <1>3, <1>4, <2>1, <2>3
  <2>5. Pending' => now' = last_edge' /\ last_pps_micros' = last_edge' /\ heard' < rx_sec'
    <3> SUFFICES ASSUME pps_flag
                 PROVE  now' = last_edge' /\ last_pps_micros' = last_edge' /\ heard' < rx_sec'
      BY <2>2
    <3>1. now = last_edge /\ last_pps_micros = last_edge BY <2>1 DEF StartInv, Pending
    <3> QED BY <1>1, <1>3, <1>4, <3>1
  <2>6. pps_count > 0 =>
          /\ pps_count = 1 /\ last_gps_epoch > 0
          /\ pps_flag => prev_pps_micros = last_edge - SEC /\ last_gps_epoch = rx_sec - 1
          /\ ~pps_flag =>
               /\ prev_pps_micros = last_edge /\ last_pps_micros = last_edge
               /\ heard # rx_sec => now - last_edge <= NmeaDelay
    BY <1>3, <2>1 DEF StartInv, Pending
  <2>7. ~pps_flag => (heard' = rx_sec' => last_gps_epoch' = rx_sec')
    BY <1>1, <1>3, <1>4, <2>1
  <2>8. heard # rx_sec BY <1>3, <1>4
  <2>9. last_gps_epoch > 0 => last_gps_epoch' > 0 BY <2>1, <2>4
  <2>10. StartInv'
    BY <1>1, <1>3, <2>1, <2>2, <2>4, <2>5, <2>6, <2>7, <2>8, <2>9 DEF StartInv
  <2>11. SyncedInv' /\ AnchorTrue' BY <2>1 DEF SyncedInv, AnchorTrue
  <2> QED BY <1>2, <1>6, <2>10, <2>11
<1>8. CASE NmeaCheck(s, ts)
  <2>1. /\ pps_synced /\ pps_synced' = pps_synced /\ anchor' = anchor
        /\ last_gps_epoch' = last_gps_epoch - 0 /\ sys_off' = sys_off - 0 * SEC
    BY <1>5, <1>8 DEF NmeaCheck, FixedEpoch
  <2>2. last_gps_epoch' = last_gps_epoch /\ sys_off' = sys_off BY <1>4, <2>1
  <2>3. SyncedInv' BY <1>1, <1>5, <2>1, <2>2 DEF SyncedInv, Quiet
  <2>4. StartInv' /\ AnchorTrue' BY <2>1 DEF StartInv, AnchorTrue
  <2> QED BY <1>2, <1>6, <2>3, <2>4
<1>9. CASE NmeaDiverged(s, ts)
  <2>1. /\ ~pps_flag /\ ~pps_synced' /\ anchor' = NoAnchor /\ last_gps_epoch' = 0
        /\ pps_count' = 0
    BY <1>9 DEF NmeaDiverged, Diverged, FullReset
  <2>2. ~Pending' BY <1>1, <1>3, <2>1 DEF Pending
  <2>3. StartInv' BY <1>1, <1>3, <2>1, <2>2 DEF StartInv, Pending
  <2>4. SyncedInv' /\ AnchorTrue' BY <2>1 DEF SyncedInv, AnchorTrue, NoAnchor
  <2> QED BY <1>2, <1>6, <2>3, <2>4
<1> QED BY <1>7, <1>8, <1>9

\* A sentence without a time in it.
LEMMA ClockLostSentence ==
  ASSUME TypeOK, ShortStalls, Undisturbed,
         GridInv, SyncedInv, StartInv, StreakInv, AnchorTrue,
         NEW s \in Unread, NmeaWithoutTime(s)
  PROVE  GridInv' /\ SyncedInv' /\ StartInv' /\ StreakInv' /\ AnchorTrue'
<1>1. /\ UNCHANGED <<now, last_edge, rx_sec, coasting, stalled, last_pps_micros,
                     isr_anchor_micros, pps_flag, pc, prev_pps_micros, pps_synced, anchor,
                     last_gps_epoch, sys_off, adj, err_streak, err_last>>
      /\ Hearing(s)
  BY DEF NmeaWithoutTime, Hearing, isr, pulses, epochs, nmea_check, clock, served
<1>2. pps_synced /\ faults.left \in Nat \ {0} /\ faults'.left = faults.left - 1
  BY FaultCounts DEF NmeaWithoutTime, Undisturbed
<1>3. /\ s \in Nat /\ heard < s /\ s <= rx_sec /\ pc = "idle" /\ ~stalled
      /\ s = rx_sec => heard' = rx_sec
      /\ s # rx_sec => heard' = rx_sec - 1
      /\ rx_sec \in Nat /\ heard \in Nat /\ 0 < heard /\ err_streak \in Nat
  BY <1>1, UnreadAfter DEF TypeOK, GridInv
<1>4. GridInv'
  <2>1. 0 < heard' /\ heard' <= rx_sec' BY <1>1, <1>3
  <2> QED BY <1>1, <1>3, <2>1 DEF GridInv, OnSecond
<1>5. StreakInv'
  <2>1. Clear => Clear' BY <1>1, ClearStays
  <2> QED BY <1>1, <1>2, <1>3, <2>1 DEF StreakInv
<1>6. SyncedInv' /\ StartInv' /\ AnchorTrue'
  BY <1>1, <1>2 DEF SyncedInv, Quiet, StartInv, AnchorTrue
<1> QED BY <1>4, <1>5, <1>6

\* Every step.
LEMMA UndisturbedStep ==
  ASSUME TypeOK, ResetInv, ClockInv, QuickLoop, ShortStalls, [Next]_vars
  PROVE  ClockInv'
<1> SUFFICES ASSUME Undisturbed
             PROVE  GridInv' /\ SyncedInv' /\ StartInv' /\ StreakInv' /\ AnchorTrue'
  BY UndisturbedStays DEF ClockInv
<1>1. GridInv /\ SyncedInv /\ StartInv /\ StreakInv /\ AnchorTrue BY DEF ClockInv
<1>2. faults.synced /\ ~Fault("noise") /\ ~Fault("coast") /\ ~Fault("pushed")
  BY UndisturbedStays
<1>3. CASE Environment
  <2>1. ~Relock BY <1>1 DEF Relock, GridInv
  <2>2. ~NoiseEdge /\ ~StartCoast /\ \A g : ~ClockPushed(g)
    BY <1>2 DEF NoiseEdge, StartCoast, ClockPushed
  <2> QED BY <1>1, <1>3, <2>1, <2>2, ClockEdge, ClockStall, ClockTick DEF Environment
<1>4. CASE LoopTake BY <1>1, <1>4, ClockTake
<1>5. CASE ApplyPpsCorrection BY <1>1, <1>5, ClockPulse
<1>6. ASSUME NEW s \in Unread, NmeaWithoutTime(s)
      PROVE  GridInv' /\ SyncedInv' /\ StartInv' /\ StreakInv' /\ AnchorTrue'
  BY <1>1, <1>6, ClockLostSentence
<1>7. ASSUME NEW s \in Unread, OnUpdate(s, s)
      PROVE  GridInv' /\ SyncedInv' /\ StartInv' /\ StreakInv' /\ AnchorTrue'
  <2>1. NmeaCoarse(s, s) \/ NmeaCheck(s, s) \/ NmeaDiverged(s, s) BY <1>7 DEF OnUpdate
  <2>2. \/ sats' = TRUE /\ faults' = faults
        \/ pps_synced /\ faults.left \in Nat \ {0} /\ faults'.left = faults.left - 1
    BY <1>2, <1>7, FaultCounts DEF OnUpdate
  <2>3. faults.left \in Nat /\ s \in Int BY DEF TypeOK, FaultPlan, Unread
  <2>4. faults'.left \in Nat /\ faults'.left <= faults.left BY <2>2, <2>3
  <2>5. ~pps_synced => sats' BY <2>2
  <2> QED BY <1>1, <2>1, <2>3, <2>4, <2>5, ClockSentence
<1>8. ASSUME NEW s \in Unread, NEW g \in Glitches, OnGlitch(s, s + g)
      PROVE  GridInv' /\ SyncedInv' /\ StartInv' /\ StreakInv' /\ AnchorTrue'
  <2>1. NmeaCoarse(s, s + g) \/ NmeaCheck(s, s + g) \/ NmeaDiverged(s, s + g)
    BY <1>8 DEF OnGlitch
  <2>2. pps_synced /\ faults.left \in Nat \ {0} /\ faults'.left = faults.left - 1
    BY <1>2, <1>8, FaultCounts DEF OnGlitch
  <2>3. s + g \in Int BY DEF TypeOK, Unread
  <2>4. faults'.left \in Nat /\ faults'.left < faults.left BY <2>2
  <2>5. faults'.left <= faults.left BY <2>2
  <2> QED BY <1>1, <2>1, <2>2, <2>3, <2>4, <2>5, ClockSentence
<1>9. CASE UNCHANGED vars BY <1>1, <1>9, ClockStall
<1> QED BY <1>3, <1>4, <1>5, <1>6, <1>7, <1>8, <1>9 DEF Next, MainLoop, EndOfHorizon

LEMMA ClockInvariant ==
  ASSUME QuickLoop
  PROVE  Spec /\ []ShortStalls => []ClockInv
<1>1. Init => ClockInv BY ClockInit
<1>2. TypeOK /\ ResetInv /\ ClockInv /\ ShortStalls /\ [Next]_vars => ClockInv'
  BY UndisturbedStep
<1> QED BY <1>1, <1>2, TypeCorrect, ResetInvariant, PTL DEF Spec

\* Missed pulses, a blocked loop, lost or wrong sentences and a lost fix do not
\* move the epoch counter off the second of the last pulse (EpochStaysTrue).
THEOREM EpochStaysTrueHolds ==
  ASSUME QuickLoop
  PROVE  Spec /\ []ShortStalls => []EpochStaysTrue
<1>1. TypeOK /\ ClockInv => EpochStaysTrue
  <2> SUFFICES ASSUME TypeOK, ClockInv, Undisturbed, pps_synced, Quiet
               PROVE  last_gps_epoch = last_pps_micros \div SEC
    BY DEF EpochStaysTrue, EpochTrue
  <2>1. last_gps_epoch * SEC = last_pps_micros BY DEF ClockInv, SyncedInv
  <2>2. last_gps_epoch \in Int /\ last_pps_micros \in Int /\ 0 \in 0 .. SEC - 1
    BY DEF TypeOK
  <2>3. (last_gps_epoch * SEC + 0) \div SEC = last_gps_epoch BY <2>2, WholeSeconds
  <2>4. last_gps_epoch * SEC + 0 = last_pps_micros BY <2>1, <2>2
  <2> QED BY <2>3, <2>4
<1> QED BY <1>1, ClockInvariant, TypeCorrect, PTL

\* The published pair is of the same second and instant (AnchorStaysTrue).
THEOREM AnchorStaysTrueHolds ==
  ASSUME QuickLoop
  PROVE  Spec /\ []ShortStalls => []AnchorStaysTrue
<1>1. ClockInv => AnchorStaysTrue BY DEF ClockInv, AnchorStaysTrue
<1> QED BY <1>1, ClockInvariant, PTL

-----------------------------------------------------------------------------
(***************************************************************************)
(* A wrong epoch counter does not survive a streak of right sentences.     *)
(*                                                                         *)
(* Each pulse leaves the system clock near the counter, so that a sentence *)
(* names the counter's error; and from one right sentence to the next one  *)
(* pulse comes, which leaves the error what it was.                        *)
(***************************************************************************)

\* A sentence is handled early enough to name the right error, and a coasting
\* receiver's period still rounds to a second.
PromptSentences == 10 * NmeaDelay < 4 * SEC /\ 2 * CoastSlip < SEC

\* The counter never stands at 1970: on_update() takes no year before 2025.
AfterEpoch == pps_synced => last_gps_epoch # 0

\* How far the system clock is from the epoch counter, at the pulse applied last.
Residue == sys_off + prev_pps_micros - last_gps_epoch * SEC

\* What each pulse leaves of it: the drift that is being slewed away, or the delay
\* with which the pulse was handled.
AlignedInv ==
  /\ isr_anchor_micros = last_pps_micros /\ last_pps_micros <= now
  /\ last_edge <= now /\ last_pps_millis <= now
  /\ "pushed" \notin faults.kinds /\ pps_synced =>
       /\ ~Pending => prev_pps_micros = last_pps_micros
       /\ adj = 0 \/ adj = -Residue
       /\ 10 * Residue <= SEC
       /\ -SEC <= 10 * Residue \/ prev_pps_micros - last_pps_millis <= Residue

\* The error every right sentence names, before and after the next pulse.
WrongBy == last_gps_epoch - (IF Pending THEN rx_sec - 1 ELSE rx_sec)

\* While right sentences leave a wrong counter behind, each adds to the streak.
WrongInv ==
  /\ wrong \in Nat
  /\ "pushed" \notin faults.kinds /\ wrong > 0 =>
       /\ wrong < EPOCH_FIX_STREAK
       /\ ~stalled /\ last_pps_micros = last_edge
       /\ heard = rx_sec \/ (heard = rx_sec - 1 /\ now - last_edge <= NmeaDelay)
       /\ ~pps_synced => ~gps_time_valid
       /\ pps_synced =>
            /\ wrong <= err_streak /\ err_last = WrongBy
            /\ ~(pps_flag /\ pc = "taken")
            /\ Pending => heard = rx_sec - 1 /\ prev_pps_micros = last_edge - Period

\* The residue is a number of ticks.
LEMMA ResidueType ==
  ASSUME TypeOK
  PROVE  last_gps_epoch * SEC \in Int /\ Residue \in Int
BY SecondsAdd DEF TypeOK, Residue

\* The ways a pulse may end.
LEMMA PulseEnds ==
  ASSUME TypeOK, ResetInv, AfterEpoch, ApplyPpsCorrection
  PROVE  /\ UNCHANGED <<now, last_edge, rx_sec, heard, coasting, stalled, faults, last_pps_micros,
                        isr_anchor_micros, pps_flag, err_streak, err_last>>
         /\ pc = "taken" /\ pc' = "idle"
         /\ \/ /\ ~pps_synced'
               /\ IF pps_synced THEN gps_time_valid' = FALSE
                                ELSE gps_time_valid' = gps_time_valid
               /\ last_pps_millis' \in {now, last_pps_millis}
            \/ /\ pps_synced' /\ gps_time_valid
               /\ prev_pps_micros' = last_pps_micros /\ last_pps_millis' = now
               /\ last_gps_epoch' = CorrectedEpoch
               /\ \/ sys_off' = CorrectedEpoch * SEC - now /\ adj' = 0
                  \/ sys_off' = sys_off /\ adj' = -Drift /\ ~Off
<1>1. /\ UNCHANGED <<now, last_edge, rx_sec, heard, coasting, stalled, faults, last_pps_micros,
                     isr_anchor_micros, pps_flag, err_streak, err_last>>
      /\ pc = "taken" /\ pc' = "idle"
  BY DEF ApplyPpsCorrection, PulseIgnored, PulseWithoutFix, PulseFirst, PulseSync, PulseDiverged,
         PulseHardSync, PulseDiscipline, Counting, Applying, receiver, isr, nmea_check
<1>2. CASE PulseIgnored
  <2>1. ~pps_synced BY <1>2 DEF PulseIgnored, EpochKnown, ResetInv, ResetIsComplete, AfterEpoch
  <2> QED BY <1>1, <1>2, <2>1 DEF PulseIgnored, epochs, pulses
<1>3. CASE PulseWithoutFix
  BY <1>1, <1>3 DEF PulseWithoutFix, FullReset, epochs
<1>4. CASE PulseFirst
  <2>1. ~pps_synced BY <1>4 DEF PulseFirst, ResetInv, ResetIsComplete
  <2> QED BY <1>1, <1>4, <2>1 DEF PulseFirst
<1>5. CASE PulseDiverged
  BY <1>1, <1>5 DEF PulseDiverged, FullReset, Counting
<1>6. CASE PulseSync \/ PulseHardSync \/ PulseDiscipline
  BY <1>1, <1>6 DEF PulseSync, PulseHardSync, PulseDiscipline, Counting, Usable, EpochKnown,
                    SetClock
<1> QED BY <1>2, <1>3, <1>4, <1>5, <1>6 DEF ApplyPpsCorrection

\* A pulse leaves the clock within a tenth of a second of the counter, or sets it as
\* late as the pulse was handled.
LEMMA AlignedPulse ==
  ASSUME TypeOK, ResetInv, AfterEpoch, AlignedInv, ApplyPpsCorrection
  PROVE  AlignedInv'
<1>1. /\ UNCHANGED <<now, last_edge, faults, last_pps_micros, isr_anchor_micros>>
      /\ last_pps_millis' \in {now, last_pps_millis}
  BY PulseEnds
<1>2. CorrectedEpoch \in Int /\ CorrectedEpoch * SEC \in Int
  BY CorrectedEpochType, SecondsAdd
<1>3. /\ now \in Nat /\ last_pps_micros \in Nat /\ sys_off \in Int /\ last_pps_micros <= now
  BY DEF TypeOK, AlignedInv
<1>4. ASSUME pps_synced'
      PROVE  /\ ~Pending' => prev_pps_micros' = last_pps_micros'
             /\ adj' = 0 \/ adj' = -Residue'
             /\ 10 * Residue' <= SEC
             /\ -SEC <= 10 * Residue' \/ prev_pps_micros' - last_pps_millis' <= Residue'
  <2>1. /\ prev_pps_micros' = last_pps_micros /\ last_pps_millis' = now
        /\ last_gps_epoch' = CorrectedEpoch
    BY <1>4, PulseEnds
  <2>2. Residue' = sys_off' + last_pps_micros - CorrectedEpoch * SEC BY <2>1 DEF Residue
  <2>3. CASE sys_off' = CorrectedEpoch * SEC - now /\ adj' = 0
    <3>1. Residue' = last_pps_micros - now BY <1>2, <1>3, <2>2, <2>3
    <3> QED BY <1>1, <1>3, <2>1, <2>3, <3>1
  <2>4. CASE sys_off' = sys_off /\ adj' = -Drift /\ ~Off
    <3>1. Residue' = Drift /\ Drift \in Int BY <1>2, <1>3, <2>2, <2>4 DEF Drift
    <3>2. ~(10 * (IF Drift < 0 THEN -Drift ELSE Drift) > SEC) BY <2>4 DEF Off, Magnitude
    <3>3. 10 * Drift <= SEC /\ -SEC <= 10 * Drift
      <4> HIDE DEF Drift
      <4> QED BY <3>1, <3>2
    <3> QED BY <1>1, <2>1, <2>4, <3>1, <3>3
  <2> QED BY <1>4, <2>3, <2>4, PulseEnds
<1>5. last_pps_millis' <= now' BY <1>1 DEF AlignedInv, TypeOK
<1> QED BY <1>1, <1>4, <1>5 DEF AlignedInv

\* A sentence steps clock and counter together.
LEMMA AlignedSentence ==
  ASSUME TypeOK, AlignedInv, NEW s, NEW ts \in Int,
         NmeaCoarse(s, ts) \/ NmeaCheck(s, ts) \/ NmeaDiverged(s, ts),
         faults'.kinds = faults.kinds
  PROVE  AlignedInv'
<1>1. UNCHANGED <<now, last_edge, last_pps_micros, isr_anchor_micros, pps_flag, pc,
                  prev_pps_micros, last_pps_millis>>
  BY DEF NmeaCoarse, NmeaCheck, NmeaDiverged, Hearing, isr, pulses
<1>2. ASSUME pps_synced'
      PROVE  pps_synced /\ Residue' = Residue /\ adj' \in {0, adj}
  <2>1. NmeaCheck(s, ts) BY <1>2 DEF NmeaCoarse, NmeaDiverged, FullReset
  <2>2. /\ pps_synced /\ last_gps_epoch' = FixedEpoch(ts) /\ sys_off' = sys_off - Step(ts) * SEC
        /\ adj' \in {0, adj}
    BY <2>1 DEF NmeaCheck, EpochSanity
  <2>3. Step(ts) \in Int BY EpochErrorType DEF Step
  <2>4. /\ last_gps_epoch \in Int /\ sys_off \in Int /\ prev_pps_micros \in Int
    BY DEF TypeOK
  <2>5. /\ FixedEpoch(ts) * SEC = last_gps_epoch * SEC - Step(ts) * SEC
        /\ last_gps_epoch * SEC \in Int /\ Step(ts) * SEC \in Int
    <3>1. FixedEpoch(ts) = last_gps_epoch - Step(ts) BY DEF FixedEpoch
    <3> QED BY <2>3, <2>4, <3>1, SecondsAdd
  <2>6. Residue' = (sys_off - Step(ts) * SEC) + prev_pps_micros - FixedEpoch(ts) * SEC
    BY <1>1, <2>2 DEF Residue
  <2>7. Residue' = Residue BY <2>3, <2>4, <2>5, <2>6 DEF Residue
  <2> QED BY <2>2, <2>7
<1> QED BY <1>1, <1>2 DEF AlignedInv, Pending

\* adjtime() brings the clock nearer.
LEMMA AlignedSlew ==
  ASSUME TypeOK, AlignedInv, Slew
  PROVE  AlignedInv'
<1>1. UNCHANGED <<now, last_edge, faults, last_pps_micros, isr_anchor_micros, pps_flag, pc,
                  pps_synced, last_gps_epoch, prev_pps_micros, last_pps_millis>>
  BY DEF Slew, receiver, isr, epochs, pulses
<1>2. PICK step \in {-1, 1} :
        /\ step = (IF adj > 0 THEN 1 ELSE -1)
        /\ adj # 0 /\ sys_off' = sys_off + step /\ adj' = adj - step
  BY DEF Slew
<1>3. adj \in Int /\ sys_off \in Int /\ prev_pps_micros \in Int BY DEF TypeOK
<1>4. Residue \in Int /\ last_gps_epoch * SEC \in Int BY ResidueType
<1>5. Residue' = Residue + step BY <1>1, <1>2, <1>3, <1>4 DEF Residue
<1>6. prev_pps_micros \in Int /\ last_pps_millis \in Int BY DEF TypeOK
<1>7. ASSUME "pushed" \notin faults.kinds, pps_synced
      PROVE  /\ adj' = 0 \/ adj' = -Residue'
             /\ 10 * Residue' <= SEC
             /\ -SEC <= 10 * Residue' \/ prev_pps_micros - last_pps_millis <= Residue'
  <2>1. /\ adj = -Residue
        /\ 10 * Residue <= SEC
        /\ -SEC <= 10 * Residue \/ prev_pps_micros - last_pps_millis <= Residue
    BY <1>2, <1>7 DEF AlignedInv
  <2>2. adj' = -Residue' BY <1>2, <1>3, <1>4, <1>5, <2>1
  <2>3. CASE step = 1
    <3>1. Residue < 0 BY <1>2, <1>3, <1>4, <2>1, <2>3
    <3> QED BY <1>4, <1>5, <1>6, <2>1, <2>2, <2>3, <3>1
  <2>4. CASE step = -1
    <3>1. Residue > 0 BY <1>2, <1>3, <1>4, <2>1, <2>4
    <3> QED BY <1>4, <1>5, <1>6, <2>1, <2>2, <2>4, <3>1
  <2> QED BY <1>2, <2>3, <2>4
<1> QED BY <1>1, <1>7 DEF AlignedInv, Pending

\* Every step leaves the clock near the counter.
LEMMA AlignedStep ==
  ASSUME TypeOK, ResetInv, AfterEpoch, AlignedInv, [Next]_vars
  PROVE  AlignedInv'
<1>1. faults'.kinds = faults.kinds BY PlanStays
<1>2. CASE ApplyPpsCorrection BY <1>2, AlignedPulse
<1>3. CASE Slew BY <1>3, AlignedSlew
<1>4. ASSUME NEW s \in Unread, OnUpdate(s, s) PROVE AlignedInv'
  <2>1. s \in Int BY DEF TypeOK, Unread
  <2> QED BY <1>1, <1>4, <2>1, AlignedSentence DEF OnUpdate
<1>5. ASSUME NEW s \in Unread, NEW g \in Glitches, OnGlitch(s, s + g) PROVE AlignedInv'
  <2>1. s + g \in Int BY DEF TypeOK, Unread
  <2> QED BY <1>1, <1>5, <2>1, AlignedSentence DEF OnGlitch
<1>6. CASE LoopTake
  BY <1>1, <1>6 DEF LoopTake, AlignedInv, Pending, Residue, receiver, epochs, pulses, clock
<1>7. ASSUME NEW s \in Unread, NmeaWithoutTime(s) PROVE AlignedInv'
  BY <1>1, <1>7
     DEF NmeaWithoutTime, Hearing, AlignedInv, Pending, Residue, isr, epochs, pulses, clock
<1>8. CASE UNCHANGED vars
  BY <1>8 DEF AlignedInv, Pending, Residue, vars, receiver, isr, main, epochs, pulses, clock
<1>9. CASE /\ UNCHANGED main /\ now' = now
           /\ UNCHANGED isr \/ (last_pps_micros' = now /\ isr_anchor_micros' = now /\ pps_flag')
           /\ last_edge' <= now
  <2>1. UNCHANGED <<pc, pps_synced, last_gps_epoch, prev_pps_micros, last_pps_millis, sys_off, adj>>
    BY <1>9 DEF main, epochs, pulses, clock
  <2>2. Residue' = Residue BY <2>1 DEF Residue
  <2>3. \/ UNCHANGED <<last_pps_micros, isr_anchor_micros, pps_flag>>
        \/ last_pps_micros' = now /\ isr_anchor_micros' = now /\ pps_flag'
    BY <1>9 DEF isr
  <2> QED BY <1>1, <1>9, <2>1, <2>2, <2>3 DEF AlignedInv, Pending, TypeOK
<1>10. CASE ReceiverEdge \/ MissedEdge \/ NoiseEdge \/ StartCoast \/ Stall \/ Resume
  <2>1. now \in Nat /\ last_edge <= now BY DEF TypeOK, AlignedInv
  <2> QED BY <1>9, <1>10, <2>1
          DEF ReceiverEdge, MissedEdge, NoiseEdge, StartCoast, Stall, Resume, PpsIsr, receiver
<1>11. CASE Relock
  <2>1. TrueSec * SEC <= now BY DEF TrueSec, TypeOK
  <2> QED BY <1>9, <1>11, <2>1 DEF Relock
<1>12. CASE Tick
  BY <1>1, <1>12
     DEF Tick, AlignedInv, Pending, Residue, TypeOK, receiver, isr, main, epochs, pulses, clock
<1>13. ASSUME NEW g, ClockPushed(g) PROVE AlignedInv'
  BY <1>1, <1>13 DEF ClockPushed, Fault, AlignedInv, receiver, isr, epochs, pulses
<1> QED BY <1>2, <1>3, <1>4, <1>5, <1>6, <1>7, <1>8, <1>10, <1>11, <1>12, <1>13
        DEF Next, Environment, MainLoop, EndOfHorizon

\* A sentence handled while the clock is less than half a second ahead of a wrong
\* counter, or less than a tenth behind it, names the counter's error.
LEMMA NamesError ==
  ASSUME TypeOK, NEW ts \in Int, NEW e \in Int, NEW r \in Int,
         sys_off + now - ts * SEC = e * SEC + r, -SEC < 10 * r, 2 * r < SEC
  PROVE  EpochError(ts) = (IF e = 0 THEN 0 ELSE Int8(e))
<1> DEFINE delta == sys_off + now - ts * SEC
           half  == SEC \div 2
<1>1. e * SEC \in Int /\ half \in Nat /\ delta \in Int /\ delta = e * SEC + r
  BY HalfType, SecondsAdd DEF TypeOK
<1>2. r + half \in 0 .. SEC - 1 /\ half - r \in 0 .. SEC - 1
  OBVIOUS
<1>3. CASE e = 0
  <2>1. ~(10 * delta > 9 * SEC) /\ ~(10 * delta < -SEC) BY <1>1, <1>3
  <2> QED BY <1>3, <2>1 DEF EpochError
<1>4. CASE e > 0
  <2>1. SEC <= e * SEC
    <3>1. 1 <= e /\ 1 * SEC = SEC BY <1>4
    <3> QED BY <3>1, SecondsOrder
  <2>2. 10 * delta > 9 * SEC
    <3> HIDE DEF delta, half
    <3> QED BY <1>1, <2>1
  <2>3. (delta + half) \div SEC = e
    <3>1. delta + half = e * SEC + (r + half)
      <4> HIDE DEF delta, half
      <4> QED BY <1>1
    <3>2. (e * SEC + (r + half)) \div SEC = e
      <4>1. r + half \in 0 .. SEC - 1 BY <1>2
      <4> HIDE DEF half
      <4> QED BY <4>1, WholeSeconds
    <3> QED BY <3>1, <3>2
  <2> QED BY <1>4, <2>2, <2>3 DEF EpochError
<1>5. CASE e < 0
  <2>1. e * SEC <= -SEC
    <3>1. e <= -1 /\ (-1) * SEC = -SEC BY <1>5
    <3>2. e * SEC <= (-1) * SEC BY <3>1, SecondsOrder
    <3> QED BY <3>1, <3>2
  <2>2. 10 * delta < -SEC /\ ~(10 * delta > 9 * SEC)
    <3> HIDE DEF delta, half
    <3> QED BY <1>1, <2>1
  <2>3. (half - delta) \div SEC = -e
    <3>1. half - delta = (-e) * SEC + (half - r)
      <4>1. (-e) * SEC = -(e * SEC) OBVIOUS
      <4> HIDE DEF delta, half
      <4> QED BY <1>1, <4>1
    <3>2. ((-e) * SEC + (half - r)) \div SEC = -e
      <4>1. half - r \in 0 .. SEC - 1 /\ -e \in Int BY <1>2
      <4> HIDE DEF half
      <4> QED BY <4>1, WholeSeconds
    <3> QED BY <3>1, <3>2
  <2>4. -((half - delta) \div SEC) = e BY <2>3
  <2> QED BY <1>5, <2>2, <2>4 DEF EpochError
<1> QED BY <1>3, <1>4, <1>5

\* The 8 bit error that leaves a counter within two seconds of the sentence is the
\* whole error; a smaller one is always whole.
LEMMA Int8Near ==
  ASSUME NEW e \in Int
  PROVE  /\ e - Int8(e) \in -2 .. 2 => Int8(e) = e
         /\ e \in -2 .. 2 => Int8(e) = e
  BY SMT DEF Int8

\* A right sentence that leaves a wrong counter behind names its error, and adds to
\* the streak of those that did.
LEMMA RightStep ==
  ASSUME TypeOK, AlignedInv, PromptSentences, "pushed" \notin faults.kinds,
         NmeaCheck(rx_sec, rx_sec), last_pps_micros = last_edge, ~pps_flag,
         now - last_edge <= NmeaDelay, last_gps_epoch' # rx_sec
  PROVE  /\ last_gps_epoch' = last_gps_epoch /\ err_last' = last_gps_epoch - rx_sec
         /\ err_last = last_gps_epoch - rx_sec => err_streak' = err_streak + 1
         /\ err_streak' \in 1 .. EPOCH_FIX_STREAK - 1
<1> DEFINE e == last_gps_epoch - rx_sec
           r == Residue + (now - last_edge)
<1>1. /\ now \in Nat /\ last_edge \in Nat /\ rx_sec \in Int /\ last_gps_epoch \in Int
      /\ sys_off \in Int /\ prev_pps_micros \in Int /\ last_pps_millis \in Int
      /\ last_gps_epoch * SEC \in Int /\ rx_sec * SEC \in Int /\ Residue \in Int
      /\ NmeaDelay \in Nat /\ err_last \in Int /\ err_streak \in 0 .. EPOCH_FIX_STREAK - 1
  BY ResidueType, SecondsAdd DEF TypeOK
<1>2. /\ pps_synced /\ ~Pending /\ prev_pps_micros = last_edge
      /\ now > last_edge /\ now - last_edge <= NmeaDelay /\ last_pps_millis <= now
      /\ 10 * Residue <= SEC
      /\ -SEC <= 10 * Residue \/ last_edge - last_pps_millis <= Residue
  BY DEF NmeaCheck, Hearing, AlignedInv, Pending
<1>3. -SEC < 10 * r /\ 2 * r < SEC /\ r \in Int
  BY <1>1, <1>2 DEF PromptSentences
<1>4. e \in Int /\ e * SEC = last_gps_epoch * SEC - rx_sec * SEC
  BY <1>1, SecondsAdd
<1>5. sys_off + now - rx_sec * SEC = e * SEC + r
  BY <1>1, <1>2, <1>4 DEF Residue
<1>6. EpochError(rx_sec) = (IF e = 0 THEN 0 ELSE Int8(e))
  <2> HIDE DEF e, r
  <2> QED BY <1>1, <1>3, <1>4, <1>5, NamesError
<1>7. /\ last_gps_epoch' = FixedEpoch(rx_sec) /\ EpochSanity(rx_sec)
      /\ ~Diverged(rx_sec) /\ ~pps_flag
  BY DEF NmeaCheck
<1>8. Int8(e) \in Int BY <1>4, Int8Type
<1>9. EpochError(rx_sec) \in Int /\ Step(rx_sec) \in Int
  BY <1>1, EpochErrorType DEF Step
<1>10. rx_sec - FixedEpoch(rx_sec) \in -2 .. 2
       /\ FixedEpoch(rx_sec) = last_gps_epoch - Step(rx_sec)
  <2>1. FixedEpoch(rx_sec) = last_gps_epoch - Step(rx_sec) BY DEF FixedEpoch
  <2>2. FixedEpoch(rx_sec) \in Int
    <3> HIDE DEF e, r
    <3> QED BY <1>1, <1>9, <2>1
  <2>3. ~(Magnitude(rx_sec - FixedEpoch(rx_sec)) > 2) BY <1>7 DEF Diverged
  <2> HIDE DEF e, r
  <2> QED BY <1>1, <2>1, <2>2, <2>3 DEF Magnitude
<1>11. e # 0 /\ EpochError(rx_sec) = Int8(e)
  <2>1. CASE e = 0
    <3>1. EpochError(rx_sec) = 0 BY <1>6, <2>1
    <3>2. Step(rx_sec) = 0 BY <3>1 DEF Step, MustFix, Suspect
    <3> QED BY <1>1, <1>7, <1>10, <2>1, <3>2
  <2> QED BY <1>6, <2>1
<1>12. ~MustFix(rx_sec)
  <2> SUFFICES ASSUME MustFix(rx_sec) PROVE FALSE OBVIOUS
  <2>1. Step(rx_sec) = Int8(e) BY <1>11 DEF Step
  <2>2. e - Int8(e) \in -2 .. 2 BY <1>1, <1>8, <1>10, <2>1
  <2>3. Int8(e) = e
    <3> HIDE DEF e
    <3> QED BY <1>4, <2>2, Int8Near
  <2> QED BY <1>1, <1>7, <1>10, <2>1, <2>3
<1>13. last_gps_epoch' = last_gps_epoch /\ EpochError(rx_sec) = e
  <2>1. Step(rx_sec) = 0 BY <1>12 DEF Step
  <2>2. e \in -2 .. 2 BY <1>1, <1>10, <2>1
  <2>3. Int8(e) = e
    <3> HIDE DEF e
    <3> QED BY <1>4, <2>2, Int8Near
  <2> QED BY <1>1, <1>7, <1>10, <1>11, <2>1, <2>3
<1>14. Suspect(rx_sec) BY <1>2, <1>11, <1>13 DEF Suspect
<1>15. err_last' = e /\ err_streak' = Streak(rx_sec)
  BY <1>7, <1>12, <1>13, <1>14 DEF EpochSanity
<1>16. Streak(rx_sec) < EPOCH_FIX_STREAK /\ Streak(rx_sec) \in Nat \ {0}
  BY <1>1, <1>12, <1>14, DisciplineAssumption DEF MustFix, Streak
<1>17. err_last = e => Streak(rx_sec) = err_streak + 1
  BY <1>13 DEF Streak
<1> QED BY <1>13, <1>15, <1>16, <1>17, DisciplineAssumption

\* Between two right sentences comes one pulse, and the next right sentence is about it.
LEMMA WrongEdge ==
  ASSUME TypeOK, AlignedInv, WrongInv, PromptSentences, "pushed" \notin faults.kinds,
         wrong > 0, ReceiverEdge, wrong' = wrong
  PROVE  WrongInv'
<1>1. /\ now = last_edge + Period /\ last_edge' = now /\ rx_sec' = rx_sec + 1
      /\ UNCHANGED <<now, heard, coasting, stalled, faults, pc, pps_synced, gps_time_valid,
                     last_gps_epoch, prev_pps_micros, err_streak, err_last>>
  BY DEF ReceiverEdge, NextEdge, main, epochs, pulses, nmea_check
<1>2. Period \in Nat /\ Period >= SEC BY DEF TypeOK, Period
<1>3. /\ now \in Nat /\ last_edge \in Nat /\ rx_sec \in Nat /\ heard \in Nat
      /\ last_gps_epoch \in Int /\ NmeaDelay \in Nat
  BY DEF TypeOK
<1>4. heard = rx_sec
  <2>1. ~(now - last_edge <= NmeaDelay) BY <1>1, <1>2, <1>3 DEF PromptSentences
  <2> QED BY <2>1 DEF WrongInv
<1>5. last_pps_micros' = now /\ pps_flag'
  <2>1. isr_anchor_micros = last_edge BY DEF WrongInv, AlignedInv
  <2>2. ~(10 * (now - isr_anchor_micros) < 9 * SEC) BY <1>1, <1>2, <1>3, <2>1
  <2> QED BY <2>2 DEF ReceiverEdge, PpsIsr
<1>6. ASSUME pps_synced
      PROVE  /\ WrongBy' = WrongBy
             /\ prev_pps_micros' = last_edge' - Period' /\ pc # "taken"
  <2>1. ~Pending BY <1>3, <1>4, <1>6 DEF WrongInv
  <2>2. prev_pps_micros = last_edge BY <1>6, <2>1 DEF AlignedInv, WrongInv
  <2>3. Period' = Period BY <1>1 DEF Period
  <2> QED BY <1>1, <1>2, <1>3, <1>5, <2>1, <2>2, <2>3 DEF WrongBy, Pending
<1> QED BY <1>1, <1>3, <1>4, <1>5, <1>6 DEF WrongInv

\* That pulse is one second after the last and leaves the counter's error what it was.
LEMMA WrongPulse ==
  ASSUME TypeOK, ResetInv, AfterEpoch, AlignedInv, WrongInv, PromptSentences,
         "pushed" \notin faults.kinds, wrong > 0, ApplyPpsCorrection, wrong' = wrong
  PROVE  WrongInv'
<1>1. /\ UNCHANGED <<now, last_edge, rx_sec, heard, coasting, stalled, faults, last_pps_micros,
                     isr_anchor_micros, pps_flag, err_streak, err_last>>
      /\ pc = "taken" /\ pc' = "idle"
  BY PulseEnds
<1>2. CASE ~pps_synced'
  <2>1. ~gps_time_valid' BY <1>2, PulseEnds DEF WrongInv
  <2> QED BY <1>1, <1>2, <2>1 DEF WrongInv
<1>3. CASE pps_synced'
  <2>1. pps_synced /\ last_gps_epoch' = CorrectedEpoch BY <1>3, PulseEnds DEF WrongInv
  <2>2. /\ Pending /\ ~pps_flag /\ prev_pps_micros = last_edge - Period
        /\ last_pps_micros = last_edge /\ heard = rx_sec - 1
    BY <1>1, <2>1 DEF WrongInv, Pending
  <2>3. /\ last_edge \in Nat /\ rx_sec \in Nat /\ last_gps_epoch \in Int /\ SEC \in Nat \ {0}
        /\ CoastSlip \in Nat
    BY DEF TypeOK
  <2>4. Interval = Period /\ Period \in {SEC, SEC + CoastSlip}
    <3>1. Period \in {SEC, SEC + CoastSlip} BY <2>3 DEF Period
    <3> QED BY <2>2, <2>3, <3>1 DEF Interval
  <2>5. (Interval + SEC \div 2) \div SEC = 1
    <3>1. PICK c \in Nat : Interval = 1 * SEC + c /\ 2 * c < SEC
      BY <2>3, <2>4 DEF PromptSentences
    <3> QED BY <3>1, RoundedSeconds
  <2>6. CorrectedEpoch = last_gps_epoch + 1 BY <2>3, <2>5 DEF CorrectedEpoch, ExtraEpochs
  <2>7. ~Pending' /\ WrongBy' = WrongBy
    BY <1>1, <2>1, <2>2, <2>3, <2>6 DEF Pending, WrongBy
  <2> QED BY <1>1, <1>3, <2>1, <2>2, <2>3, <2>7 DEF WrongInv
<1> QED BY <1>2, <1>3

\* Every step keeps what the streak of right sentences rests on.
LEMMA WrongStep ==
  ASSUME TypeOK, ResetInv, AfterEpoch, AlignedInv, WrongInv, PromptSentences,
         [RepairNext]_<<vars, wrong>>
  PROVE  WrongInv'
<1>1. [Next]_vars /\ faults'.kinds = faults.kinds
  BY PlanStays DEF RepairNext
<1>2. wrong' \in {0, wrong, wrong + 1} /\ wrong \in Nat
  BY DEF RepairNext, WrongInv
<1>3. CASE "pushed" \in faults.kinds \/ wrong' = 0
  BY <1>1, <1>2, <1>3 DEF WrongInv
<1> SUFFICES ASSUME "pushed" \notin faults.kinds, wrong' # 0 PROVE WrongInv'
  BY <1>3
<1>4. CASE wrong' = wrong + 1
  <2>1. RightSentence /\ pps_synced' /\ last_gps_epoch' # rx_sec
    BY <1>2, <1>4 DEF RepairNext
  <2>2. heard' # heard /\ heard' = rx_sec /\ faults' = faults /\ coasting' = coasting
    BY <2>1 DEF RightSentence, Sentence
  <2>3. PICK s \in Unread : OnUpdate(s, s)
    <3>1. ~Fault("lost") /\ ~Fault("glitch") /\ coasting' = coasting /\ heard' # heard
      BY <2>2, FaultCounts
    <3>2. ~Environment /\ ~LoopTake /\ ~ApplyPpsCorrection
      BY <3>1, <2>2
         DEF Environment, receiver, main, ReceiverEdge,
             MissedEdge, NoiseEdge, StartCoast, Relock, Stall, Resume, ClockPushed, Tick, Slew,
             LoopTake, ApplyPpsCorrection, PulseIgnored, PulseWithoutFix, PulseFirst, PulseSync,
             PulseDiverged, PulseHardSync, PulseDiscipline, Counting, Applying
    <3>3. \A s : ~NmeaWithoutTime(s) /\ \A ts : ~OnGlitch(s, ts)
      BY <3>1 DEF NmeaWithoutTime, OnGlitch
    <3> QED BY <1>1, <3>1, <3>2, <3>3 DEF Next, MainLoop, EndOfHorizon, vars, receiver
  <2>4. s = rx_sec /\ NmeaCheck(rx_sec, rx_sec)
    <3>1. heard' = (IF s = rx_sec THEN s ELSE rx_sec - 1)
      BY <2>3 DEF OnUpdate, NmeaCoarse, NmeaCheck, NmeaDiverged, Hearing
    <3>2. s = rx_sec BY <2>2, <3>1 DEF TypeOK
    <3> QED BY <2>1, <2>3, <3>2 DEF OnUpdate, NmeaCoarse, NmeaDiverged, FullReset
  <2>5. /\ err_last' = last_gps_epoch' - rx_sec
        /\ wrong > 0 => err_streak' = err_streak + 1
        /\ err_streak' \in 1 .. EPOCH_FIX_STREAK - 1
    <3>1. wrong > 0 => err_last = last_gps_epoch - rx_sec
      BY <2>1, <2>4 DEF WrongInv, WrongBy, Pending, RightSentence, NmeaCheck, Hearing
    <3> QED BY <2>1, <2>4, <3>1, RightStep DEF RightSentence
  <2>6. wrong' <= err_streak' /\ wrong' < EPOCH_FIX_STREAK
    <3>1. wrong > 0 => wrong <= err_streak BY <2>4 DEF WrongInv, NmeaCheck
    <3> QED BY <1>2, <1>4, <2>5, <3>1, DisciplineAssumption DEF TypeOK
  <2>7. /\ UNCHANGED <<now, last_edge, rx_sec, stalled, last_pps_micros, pps_flag, pc>>
        /\ ~stalled /\ last_pps_micros = last_edge /\ ~pps_flag /\ pc = "idle"
    BY <2>1, <2>4 DEF NmeaCheck, Hearing, RightSentence, isr
  <2>8. ~Pending' /\ WrongBy' = last_gps_epoch' - rx_sec
    BY <2>7 DEF Pending, WrongBy
  <2> QED BY <1>2, <1>4, <2>1, <2>2, <2>5, <2>6, <2>7, <2>8 DEF WrongInv
<1>5. CASE wrong' = wrong /\ wrong > 0
  <2>1. faults' = faults /\ ~Relock /\ ~Sentence
    <3>1. CASE UNCHANGED vars
      BY <3>1 DEF Relock, Sentence, vars, receiver
    <3>2. CASE RepairNext
      BY <1>2, <1>5, <3>2 DEF RepairNext
    <3> QED BY <3>1, <3>2
  <2>2. /\ ~stalled /\ wrong < EPOCH_FIX_STREAK
        /\ heard = rx_sec \/ (heard = rx_sec - 1 /\ now - last_edge <= NmeaDelay)
        /\ now \in Nat /\ last_edge \in Nat /\ heard \in Nat /\ rx_sec \in Nat /\ NmeaDelay \in Nat
    BY <1>5 DEF WrongInv, TypeOK
  <2>3. CASE ReceiverEdge BY <1>5, <2>3, WrongEdge
  <2>4. CASE ApplyPpsCorrection BY <1>5, <2>4, WrongPulse
  <2>5. CASE Tick
    <3>1. heard < rx_sec => now - last_edge < NmeaDelay BY <2>2, <2>5 DEF Tick
    <3>2. /\ now' = now + 1
          /\ UNCHANGED <<last_edge, rx_sec, heard, coasting, stalled, faults, pps_flag, pc,
                         last_pps_micros, pps_synced, gps_time_valid, last_gps_epoch,
                         prev_pps_micros, err_streak, err_last>>
      BY <2>5 DEF Tick, receiver, isr, main, epochs, pulses, nmea_check
    <3> QED BY <1>5, <2>2, <3>1, <3>2 DEF WrongInv, WrongBy, Pending, Period
  <2>6. CASE Slew \/ UNCHANGED vars
    <3>1. UNCHANGED <<now, last_edge, rx_sec, heard, coasting, stalled, faults, pps_flag, pc,
                      last_pps_micros, pps_synced, gps_time_valid, last_gps_epoch,
                      prev_pps_micros, err_streak, err_last>>
      BY <2>6 DEF Slew, vars, receiver, isr, main, epochs, pulses, nmea_check
    <3> QED BY <1>5, <3>1 DEF WrongInv, WrongBy, Pending, Period
  <2>7. CASE LoopTake
    <3>1. /\ UNCHANGED <<now, last_edge, rx_sec, heard, coasting, stalled, faults,
                         last_pps_micros, pps_synced, gps_time_valid, last_gps_epoch,
                         prev_pps_micros, err_streak, err_last>>
          /\ pps_flag /\ ~pps_flag' /\ pc' = "taken"
      BY <2>7 DEF LoopTake, receiver, epochs, pulses, nmea_check
    <3> QED BY <1>5, <3>1 DEF WrongInv, WrongBy, Pending, Period
  <2>8. CASE Resume BY <2>2, <2>8 DEF Resume
  <2>9. CASE \E kind : Fault(kind) BY <2>1, <2>9, FaultCounts
  <2>10. ASSUME NEW s \in Unread, NEW ts, Hearing(s) PROVE FALSE
    <3>1. heard' # heard
      <4>1. s \in Nat /\ s > heard /\ s <= rx_sec /\ s \in Int BY <2>2 DEF Unread
      <4>2. heard' = (IF s = rx_sec THEN s ELSE rx_sec - 1) BY <2>10 DEF Hearing
      <4> QED BY <2>2, <4>1, <4>2
    <3>2. coasting' = coasting BY <2>10 DEF Hearing
    <3> QED BY <2>1, <3>1, <3>2 DEF Sentence
  <2>11. ASSUME NEW s \in Unread, NEW ts, OnUpdate(s, ts) \/ OnGlitch(s, ts) \/ NmeaWithoutTime(s)
         PROVE FALSE
    BY <2>10, <2>11 DEF OnUpdate, OnGlitch, NmeaWithoutTime, NmeaCoarse, NmeaCheck, NmeaDiverged
  <2> QED BY <1>1, <2>1, <2>3, <2>4, <2>5, <2>6, <2>7, <2>8, <2>9, <2>11
          DEF Next, Environment, MainLoop, EndOfHorizon, MissedEdge, NoiseEdge, StartCoast, Stall,
              ClockPushed
<1> QED BY <1>2, <1>4, <1>5

\* A wrong epoch counter does not survive a streak of right sentences, for every plan
\* of faults: on_update() steps it, or a reset starts over.  In this model the counter
\* can be 0 while synchronised only in a year that on_update() does not accept.
THEOREM WrongEpochIsRepairedHolds ==
  ASSUME PromptSentences
  PROVE  RepairSpec /\ []AfterEpoch => []WrongEpochIsRepaired
<1>1. RepairInit => Init /\ AlignedInv /\ WrongInv
  <2> SUFFICES ASSUME RepairInit PROVE Init /\ AlignedInv /\ WrongInv
    OBVIOUS
  <2>1. now \in Nat BY TypeInit DEF RepairInit, TypeOK
  <2> QED BY <2>1 DEF RepairInit, Init, AlignedInv, WrongInv
<1>2. [RepairNext]_<<vars, wrong>> => [Next]_vars
  BY DEF RepairNext
<1>3. TypeOK /\ ResetInv /\ AfterEpoch /\ AlignedInv /\ [Next]_vars => AlignedInv'
  BY AlignedStep
<1>4. TypeOK /\ ResetInv /\ AfterEpoch /\ AlignedInv /\ WrongInv /\ [RepairNext]_<<vars, wrong>>
        => WrongInv'
  BY WrongStep
<1>5. WrongInv => WrongEpochIsRepaired
  BY DisciplineAssumption DEF WrongInv, WrongEpochIsRepaired
<1>6. RepairSpec => Spec
  BY <1>1, <1>2, PTL DEF RepairSpec, Spec
<1> QED BY <1>1, <1>2, <1>3, <1>4, <1>5, <1>6, TypeCorrect, ResetInvariant, PTL DEF RepairSpec

-----------------------------------------------------------------------------
(***************************************************************************)
(* A coasting receiver is refused.                                         *)
(*                                                                         *)
(* While the gate is open the counter is late by at most a slip for each   *)
(* bad period counted, so that the pulse after lock is back puts it right. *)
(* While the gate is closed the counter may be wrong by any number of      *)
(* seconds once lock is back; then each good pulse is followed by a        *)
(* sentence that names the error, and the counter is stepped before there  *)
(* are good pulses enough to open the gate.                                *)
(***************************************************************************)

\* The gate tells a coasting receiver's period from a good one, closes before the
\* counter is four tenths of a second out, and takes longer to open than a wrong counter
\* takes to be stepped.
GateCatchesSlip ==
  /\ PPS_PERIOD_TOLERANCE < CoastSlip
  /\ 10 * (PPS_PERIOD_BAD_STREAK * CoastSlip) <= 4 * SEC
  /\ EPOCH_FIX_STREAK < PPS_PERIOD_GOOD_STREAK

\* Lock is lost after the clock was synchronised, and nothing else goes wrong ...
OnlyCoasts == faults.kinds = {"coast"} /\ faults.synced

\* ... and it is lost once.
LostOnce ==
  \A plan \in FaultPlans : plan.synced /\ plan.kinds = {"coast"} => plan.left <= 1

\* How late the pulse applied last was for the second that the counter gave it.
Lead == prev_pps_micros - last_gps_epoch * SEC

\* The receiver's seconds, its pulses and its sentences, all handled in time.
ReceiverInv ==
  /\ faults.left <= 1 /\ ~stalled /\ SEC <= now /\ now <= NextEdge
  /\ Pending => now = last_pps_micros /\ now < NextEdge
  /\ ~(pps_flag /\ pc = "taken")
  /\ heard = rx_sec \/ (heard = rx_sec - 1 /\ now - last_edge <= NmeaDelay)
  /\ heard # rx_sec =>
       /\ Pending => last_pps_micros = last_edge
       /\ \/ last_pps_micros = last_edge
          \/ last_pps_micros <= last_edge /\ 10 * (last_edge - last_pps_micros) < 9 * SEC
  /\ ~coasting => last_edge = rx_sec * SEC
  /\ coasting => pps_synced /\ faults.left = 0
  /\ period_healthy => bad_streak < PPS_PERIOD_BAD_STREAK
  /\ ~period_healthy => faults.left = 0

\* Until the clock is synchronised its counter is set by the sentence before.
WaitInv ==
  ~pps_synced =>
    /\ Pending => last_pps_micros = last_edge /\ heard # rx_sec
    /\ pps_count > 0 =>
         /\ pps_count = 1 /\ sats /\ gps_time_valid /\ last_gps_epoch # 0
         /\ last_pps_micros = last_edge
         /\ Pending => prev_pps_micros = last_edge - SEC /\ last_gps_epoch = rx_sec - 1
         /\ ~Pending => /\ prev_pps_micros = last_edge
                        /\ heard = rx_sec => last_gps_epoch = rx_sec

\* The counter goes with the receiver, right or wrong.
Following ==
  /\ last_pps_micros = last_edge /\ WrongBy = 0
  /\ Pending => /\ heard # rx_sec
                /\ \/ prev_pps_micros = last_pps_micros - SEC
                   \/ coasting /\ prev_pps_micros = last_pps_micros - SEC - CoastSlip

\* A pulse that waits is a true second, or the next one of a coasting receiver.
PulseInv ==
  /\ sats /\ last_pps_millis = prev_pps_micros
  /\ coasting \/ faults.left = 1 => Following
  /\ Pending =>
       \/ last_pps_micros = prev_pps_micros + SEC + CoastSlip
       \/ /\ OnSecond(last_pps_micros) /\ last_pps_micros = last_edge
          /\ heard # rx_sec \/ period_healthy

\* While the gate is open the counter is late by one slip for each bad period.
OpenInv ==
  /\ 0 <= Lead /\ Lead <= bad_streak * CoastSlip
  /\ anchor.epoch # 0 =>
       /\ 0 <= anchor.micros - anchor.epoch * SEC
       /\ anchor.micros - anchor.epoch * SEC < PPS_PERIOD_BAD_STREAK * CoastSlip

\* While it is closed, the good pulses of a wrong counter are matched by sentences
\* that name its error.
ClosedInv ==
  /\ coasting => good_streak = 0 /\ (Pending => prev_pps_micros # last_pps_micros - SEC)
  /\ good_streak > 0 =>
       /\ last_pps_micros = last_edge
       /\ Pending => heard # rx_sec /\ prev_pps_micros = last_pps_micros - SEC
       /\ WrongBy # 0 =>
            IF ~Pending /\ heard # rx_sec
              THEN good_streak <= err_streak + 1 /\ (good_streak > 1 => err_last = WrongBy)
              ELSE good_streak <= err_streak /\ err_last = WrongBy

GateInv ==
  pps_synced => PulseInv /\ (period_healthy => OpenInv) /\ (~period_healthy => ClosedInv)

CoastInv == OnlyCoasts => ReceiverInv /\ WaitInv /\ GateInv

\* Adding up slips.
LEMMA SlipsAdd ==
  ASSUME NEW j \in Nat, NEW k \in Nat
  PROVE  /\ j * CoastSlip \in Nat /\ k * CoastSlip \in Nat
         /\ (k + 1) * CoastSlip = k * CoastSlip + CoastSlip
         /\ j <= k => j * CoastSlip <= k * CoastSlip
<1>1. CoastSlip \in Nat OBVIOUS
<1>2. (k + 1) * CoastSlip = k * CoastSlip + CoastSlip BY <1>1
<1>3. ASSUME j <= k PROVE j * CoastSlip <= k * CoastSlip
  <2>1. PICK d \in Nat : k = j + d BY <1>3
  <2>2. k * CoastSlip = j * CoastSlip + d * CoastSlip BY <1>1, <2>1
  <2>3. d * CoastSlip \in Nat /\ j * CoastSlip \in Nat BY <1>1
  <2> QED BY <2>2, <2>3
<1> QED BY <1>1, <1>2, <1>3

\* The numbers the invariant is about.
LEMMA CoastTypes ==
  ASSUME TypeOK
  PROVE  /\ now \in Nat /\ last_edge \in Nat /\ rx_sec \in Nat /\ heard \in Nat
         /\ last_pps_micros \in Nat /\ prev_pps_micros \in Nat /\ last_pps_millis \in Nat
         /\ last_gps_epoch \in Int /\ last_gps_epoch * SEC \in Int /\ rx_sec * SEC \in Int
         /\ sys_off \in Int /\ adj \in Int /\ Residue \in Int /\ Lead \in Int
         /\ sys_off + prev_pps_micros = last_gps_epoch * SEC + Residue
         /\ prev_pps_micros = last_gps_epoch * SEC + Lead
         /\ bad_streak \in 0 .. PPS_PERIOD_BAD_STREAK /\ good_streak \in 0 .. PPS_PERIOD_GOOD_STREAK
         /\ err_streak \in 0 .. EPOCH_FIX_STREAK - 1 /\ err_last \in Int
         /\ pps_flag \in BOOLEAN /\ pps_synced \in BOOLEAN /\ period_healthy \in BOOLEAN
         /\ faults.left \in Nat
  BY ResidueType, SecondsAdd DEF TypeOK, Residue, Lead, FaultPlan

\* The second that is running.
LEMMA TrueSecond ==
  ASSUME TypeOK
  PROVE  /\ TrueSec \in Nat /\ TrueSec * SEC \in Nat
         /\ TrueSec * SEC <= now /\ now < TrueSec * SEC + SEC
         /\ OnSecond(now) => TrueSec * SEC = now
<1>1. now \in Nat /\ SEC \in Nat \ {0} BY DEF TypeOK
<1>2. TrueSec \in Nat /\ SEC * TrueSec <= now /\ now < SEC * (TrueSec + 1)
  BY <1>1 DEF TrueSec
<1>3. SEC * TrueSec = TrueSec * SEC /\ SEC * (TrueSec + 1) = TrueSec * SEC + SEC
      /\ TrueSec * SEC \in Nat
  BY <1>1, <1>2
<1>4. ASSUME OnSecond(now) PROVE TrueSec * SEC = now
  <2>1. PICK k \in Int : now = k * SEC BY <1>4 DEF OnSecond
  <2>2. 0 \in 0 .. SEC - 1 /\ now = k * SEC + 0 BY <1>1, <2>1
  <2>3. TrueSec = k BY <2>2, WholeSeconds DEF TrueSec
  <2> QED BY <2>1, <2>3
<1> QED BY <1>2, <1>3, <1>4

\* The plan stays what it is, and lock is lost once at most.
LEMMA OnlyCoastsStays ==
  ASSUME TypeOK, [Next]_vars
  PROVE  OnlyCoasts' <=> OnlyCoasts
  BY PlanStays DEF OnlyCoasts

LEMMA OnlyOneFault ==
  ASSUME TypeOK, OnlyCoasts, ReceiverInv, NEW kind, Fault(kind)
  PROVE  kind = "coast" /\ pps_synced /\ faults.left = 1 /\ faults'.left = 0
<1>1. /\ kind \in {"coast"} /\ pps_synced /\ faults.left \in Nat \ {0}
      /\ faults'.left = faults.left - 1 /\ faults.left <= 1
  BY FaultCounts DEF OnlyCoasts, ReceiverInv
<1> QED BY <1>1

\* What the steps that only wait leave as it is.
CoastFrame ==
  UNCHANGED <<last_edge, rx_sec, heard, coasting, stalled, faults, last_pps_micros, pps_synced,
              period_healthy, bad_streak, good_streak, pps_count, sats, gps_time_valid,
              last_gps_epoch, prev_pps_micros, last_pps_millis, anchor, err_streak, err_last>>

\* Time, the slewing of the clock, and loop() on its way to the pulse.
LEMMA CoastWait ==
  ASSUME TypeOK, ReceiverInv, WaitInv, GateInv, QuickLoop,
         Tick \/ Slew \/ LoopTake \/ UNCHANGED vars
  PROVE  ReceiverInv' /\ WaitInv' /\ GateInv'
<1>1. CoastFrame
  BY DEF CoastFrame, Tick, Slew, LoopTake, vars, receiver, isr, main, epochs, pulses, health,
         nmea_check, served
<1>2. CASE Tick
  <2>1. /\ now' = now + 1 /\ now < NextEdge /\ pc = "idle" /\ UNCHANGED <<pc, pps_flag>>
        /\ ~pps_flag
        /\ heard < rx_sec => now - last_edge < NmeaDelay
    <3>1. ~stalled BY DEF ReceiverInv
    <3>2. pps_flag => now - last_pps_micros < LoopDelay /\ now = last_pps_micros
      BY <1>2, <3>1 DEF Tick, ReceiverInv, Pending
    <3> QED BY <1>2, <3>1, <3>2 DEF Tick, QuickLoop, TypeOK, isr, main
  <2>2. ~Pending /\ ~Pending' BY <2>1 DEF Pending
  <2>3. NextEdge' = NextEdge BY <1>1 DEF CoastFrame, NextEdge, Period
  <2>4. /\ now \in Nat /\ last_edge \in Nat /\ heard \in Nat /\ rx_sec \in Nat
        /\ NextEdge \in Nat /\ NmeaDelay \in Nat
    BY DEF TypeOK, NextEdge, Period
  <2>5. heard = rx_sec \/ (heard = rx_sec - 1 /\ now' - last_edge <= NmeaDelay)
    BY <2>1, <2>4 DEF ReceiverInv
  <2>6. SEC <= now' /\ now' <= NextEdge'
    BY <2>1, <2>3, <2>4 DEF ReceiverInv
  <2>7. ReceiverInv' BY <1>1, <2>1, <2>2, <2>5, <2>6 DEF CoastFrame, ReceiverInv
  <2>8. WaitInv' BY <1>1, <2>2 DEF CoastFrame, WaitInv
  <2>9. GateInv'
    BY <1>1, <2>2
       DEF CoastFrame, GateInv, PulseInv, OpenInv, ClosedInv, Following, WrongBy, Lead
  <2> QED BY <2>7, <2>8, <2>9
<1>3. CASE Slew \/ LoopTake \/ UNCHANGED vars
  <2>1. now' = now /\ (Pending' <=> Pending) /\ ~(pps_flag' /\ pc' = "taken")
    BY <1>3 DEF Slew, LoopTake, vars, isr, main, Pending, ReceiverInv
  <2>2. NextEdge' = NextEdge BY <1>1 DEF CoastFrame, NextEdge, Period
  <2>3. ReceiverInv' BY <1>1, <2>1, <2>2 DEF CoastFrame, ReceiverInv
  <2>4. WaitInv' BY <1>1, <2>1 DEF CoastFrame, WaitInv
  <2>5. GateInv'
    BY <1>1, <2>1
       DEF CoastFrame, GateInv, PulseInv, OpenInv, ClosedInv, Following, WrongBy, Lead, OnSecond
  <2> QED BY <2>3, <2>4, <2>5
<1> QED BY <1>2, <1>3

\* What an edge, a loss of lock and its return leave as it is.
LEMMA CoastEnvironmentFrame ==
  ASSUME ReceiverEdge \/ StartCoast \/ Relock
  PROVE  UNCHANGED <<now, stalled, pc, pps_synced, period_healthy, bad_streak, good_streak,
                     pps_count, sats, gps_time_valid, last_gps_epoch, prev_pps_micros,
                     last_pps_millis, anchor, err_streak, err_last>>
  BY DEF ReceiverEdge, StartCoast, Relock, main, epochs, pulses, health, nmea_check, served

\* The receiver's edge.  The pulse of a coasting one is accepted; after lock is back
\* one that follows too soon is not.
LEMMA CoastEdge ==
  ASSUME TypeOK, AlignedInv, OnlyCoasts, ReceiverInv, WaitInv, GateInv, PromptSentences,
         GateCatchesSlip, ReceiverEdge
  PROVE  ReceiverInv' /\ WaitInv' /\ GateInv'
<1>1. /\ now = last_edge + Period /\ last_edge' = now /\ rx_sec' = rx_sec + 1
      /\ UNCHANGED <<now, heard, coasting, stalled, faults, pc, pps_synced, period_healthy,
                     bad_streak, good_streak, pps_count, sats, gps_time_valid, last_gps_epoch,
                     prev_pps_micros, last_pps_millis, anchor, err_streak, err_last>>
  BY CoastEnvironmentFrame DEF ReceiverEdge, NextEdge
<1>2. /\ Period \in Nat /\ Period >= SEC /\ CoastSlip \in Nat /\ NmeaDelay \in Nat
      /\ Period = SEC \/ (coasting /\ Period = SEC + CoastSlip)
      /\ ~coasting => Period = SEC
  BY DEF TypeOK, Period
<1>3. /\ now \in Nat /\ last_edge \in Nat /\ rx_sec \in Nat /\ heard \in Nat
      /\ last_pps_micros \in Nat /\ prev_pps_micros \in Nat /\ last_gps_epoch \in Int
      /\ good_streak \in Nat /\ err_streak \in Nat /\ pps_flag \in BOOLEAN
  BY CoastTypes
<1>4. heard = rx_sec /\ heard' # rx_sec' /\ heard' = rx_sec' - 1
  <2>1. ~(now - last_edge <= NmeaDelay) BY <1>1, <1>2, <1>3 DEF PromptSentences
  <2> QED BY <1>1, <1>3, <2>1 DEF ReceiverInv
<1>5. ~Pending
  <2>1. ~(now < NextEdge) BY <1>1, <1>3 DEF ReceiverEdge, NextEdge
  <2> QED BY <2>1 DEF ReceiverInv
<1>6. isr_anchor_micros = last_pps_micros /\ last_pps_micros <= now BY DEF AlignedInv
<1>7. \/ /\ last_pps_micros' = now /\ pps_flag' = TRUE
      \/ /\ last_pps_micros' = last_pps_micros /\ pps_flag' = pps_flag
         /\ 10 * (now - last_pps_micros) < 9 * SEC
  BY <1>6 DEF ReceiverEdge, PpsIsr, isr
<1>8. last_pps_micros = last_edge => last_pps_micros' = now /\ pps_flag'
  BY <1>1, <1>2, <1>3, <1>7
<1>9. Pending' <=> last_pps_micros' = now /\ pps_flag'
  BY <1>1, <1>5, <1>7 DEF Pending
<1>10. ~coasting => now = rx_sec' * SEC /\ OnSecond(now)
  <2> SUFFICES ASSUME ~coasting PROVE now = rx_sec' * SEC /\ OnSecond(now)
    OBVIOUS
  <2>1. now = rx_sec * SEC + SEC BY <1>1, <1>2 DEF ReceiverInv
  <2>2. now = (rx_sec + 1) * SEC /\ rx_sec + 1 \in Int BY <1>3, <2>1, SecondsAdd
  <2> QED BY <1>1, <2>2 DEF OnSecond
<1>11. ReceiverInv'
  <2>1. SEC <= now' /\ now' < NextEdge' /\ faults'.left <= 1 /\ ~stalled'
    BY <1>1, <1>2, <1>3 DEF ReceiverInv, NextEdge, Period
  <2>2. Pending' => now' = last_pps_micros' BY <1>1, <1>9
  <2>3. ~(pps_flag' /\ pc' = "taken") BY <1>1, <1>5 DEF Pending
  <2>4. now' - last_edge' <= NmeaDelay BY <1>1, <1>2, <1>3
  <2>5. /\ Pending' => last_pps_micros' = last_edge'
        /\ \/ last_pps_micros' = last_edge'
           \/ last_pps_micros' <= last_edge' /\ 10 * (last_edge' - last_pps_micros') < 9 * SEC
    BY <1>1, <1>6, <1>7, <1>9
  <2>6. NextEdge' \in Nat BY <1>1, <1>2, <1>3 DEF NextEdge, Period
  <2>7. now' <= NextEdge' BY <1>1, <1>3, <2>1, <2>6
  <2> QED BY <1>1, <1>4, <1>10, <2>1, <2>2, <2>3, <2>4, <2>5, <2>7 DEF ReceiverInv
<1>12. WaitInv'
  <2> SUFFICES ASSUME ~pps_synced PROVE WaitInv'
    BY <1>1 DEF WaitInv
  <2>1. ~coasting BY DEF ReceiverInv
  <2>2. ASSUME pps_count > 0
        PROVE  /\ pps_count = 1 /\ sats /\ gps_time_valid /\ last_gps_epoch # 0
               /\ last_pps_micros' = last_edge' /\ Pending'
               /\ prev_pps_micros = last_edge' - SEC /\ last_gps_epoch = rx_sec' - 1
    <3>1. /\ pps_count = 1 /\ sats /\ gps_time_valid /\ last_gps_epoch # 0
          /\ last_pps_micros = last_edge /\ prev_pps_micros = last_edge /\ last_gps_epoch = rx_sec
      BY <1>4, <1>5, <2>2 DEF WaitInv
    <3> QED BY <1>1, <1>2, <1>3, <1>8, <1>9, <2>1, <3>1
  <2> QED BY <1>1, <1>4, <1>9, <2>2 DEF WaitInv
<1>13. GateInv'
  <2> SUFFICES ASSUME pps_synced PROVE GateInv'
    BY <1>1 DEF GateInv
  <2>1. prev_pps_micros = last_pps_micros
    BY <1>5 DEF AlignedInv, OnlyCoasts
  <2>2. /\ sats /\ last_pps_millis = prev_pps_micros
        /\ coasting \/ faults.left = 1 => Following
        /\ period_healthy => OpenInv
        /\ ~period_healthy => ClosedInv
    BY DEF GateInv, PulseInv
  <2>3. last_pps_micros = last_edge =>
          /\ Pending' /\ last_pps_micros' = last_edge'
          /\ prev_pps_micros' = last_pps_micros' - Period
    BY <1>1, <1>2, <1>3, <1>8, <1>9, <2>1
  <2>4. Pending' => WrongBy' = WrongBy
    BY <1>1, <1>3, <1>5 DEF WrongBy
  <2>5. coasting \/ faults.left = 1 => Following'
    <3> SUFFICES ASSUME Following PROVE Following'
      BY <2>2
    <3>1. last_pps_micros = last_edge /\ WrongBy = 0 BY DEF Following
    <3> QED BY <1>1, <1>2, <1>3, <1>4, <2>3, <2>4, <3>1 DEF Following
  <2>6. Pending' =>
          \/ last_pps_micros' = prev_pps_micros' + SEC + CoastSlip
          \/ OnSecond(last_pps_micros)' /\ last_pps_micros' = last_edge'
    <3> SUFFICES ASSUME Pending'
                 PROVE  \/ last_pps_micros' = prev_pps_micros' + SEC + CoastSlip
                        \/ OnSecond(last_pps_micros)' /\ last_pps_micros' = last_edge'
      OBVIOUS
    <3>1. CASE ~coasting
      BY <1>1, <1>9, <1>10, <3>1 DEF OnSecond
    <3>2. CASE coasting
      <4>1. Period = SEC + CoastSlip BY <3>2 DEF Period
      <4>2. last_pps_micros = last_edge BY <2>2, <3>2 DEF Following
      <4> QED BY <1>1, <1>3, <1>2, <2>1, <2>3, <4>1, <4>2
    <3> QED BY <3>1, <3>2
  <2>7. PulseInv' BY <1>1, <1>4, <2>2, <2>5, <2>6 DEF PulseInv
  <2>8. OpenInv => OpenInv' BY <1>1 DEF OpenInv, Lead
  <2>9. ~period_healthy => ClosedInv'
    <3> SUFFICES ASSUME ~period_healthy PROVE ClosedInv'
      OBVIOUS
    <3>1. coasting =>
            good_streak' = 0 /\ (Pending' => prev_pps_micros' # last_pps_micros' - SEC)
      <4> SUFFICES ASSUME coasting
                   PROVE  good_streak' = 0 /\ prev_pps_micros' # last_pps_micros' - SEC
        OBVIOUS
      <4>1. last_pps_micros = last_edge /\ good_streak = 0 BY <2>2 DEF Following, ClosedInv
      <4>2. CoastSlip > 0 BY DEF GateCatchesSlip
      <4>3. Period = SEC + CoastSlip BY DEF Period
      <4> QED BY <1>1, <1>2, <1>3, <2>3, <4>1, <4>2, <4>3
    <3>2. ASSUME good_streak > 0
          PROVE  /\ last_pps_micros' = last_edge' /\ Pending'
                 /\ prev_pps_micros' = last_pps_micros' - SEC
                 /\ WrongBy' # 0 => good_streak' <= err_streak' /\ err_last' = WrongBy'
      <4>1. /\ ~coasting /\ last_pps_micros = last_edge
            /\ WrongBy # 0 => good_streak <= err_streak /\ err_last = WrongBy
        BY <1>3, <1>4, <2>2, <3>2 DEF ClosedInv
      <4>2. Period = SEC BY <1>2, <4>1
      <4> QED BY <1>1, <2>3, <2>4, <4>1, <4>2
    <3> QED BY <1>1, <1>3, <1>4, <3>1, <3>2 DEF ClosedInv
  <2> QED BY <1>1, <2>2, <2>7, <2>8, <2>9 DEF GateInv
<1> QED BY <1>11, <1>12, <1>13

\* The receiver loses lock.
LEMMA CoastLoss ==
  ASSUME TypeOK, OnlyCoasts, ReceiverInv, WaitInv, GateInv, StartCoast
  PROVE  ReceiverInv' /\ WaitInv' /\ GateInv'
<1>1. /\ UNCHANGED <<now, stalled, pc, pps_synced, period_healthy, bad_streak, good_streak,
                     pps_count, sats, gps_time_valid, last_gps_epoch, prev_pps_micros,
                     last_pps_millis, anchor, err_streak, err_last, last_edge, rx_sec, heard,
                     last_pps_micros, pps_flag>>
      /\ ~coasting /\ coasting' = TRUE
  BY CoastEnvironmentFrame DEF StartCoast, isr
<1>2. pps_synced /\ faults.left = 1 /\ faults'.left = 0
  BY OnlyOneFault DEF StartCoast
<1>3. /\ now \in Nat /\ last_edge \in Nat /\ CoastSlip \in Nat
      /\ last_pps_micros \in Nat /\ prev_pps_micros \in Nat
  BY CoastTypes
<1>4. NextEdge' = NextEdge + CoastSlip /\ NextEdge \in Nat
  BY <1>1, <1>3 DEF NextEdge, Period
<1>5. Pending' <=> Pending BY <1>1 DEF Pending
<1>6. period_healthy /\ Following BY <1>2 DEF ReceiverInv, GateInv, PulseInv
<1>7. ReceiverInv'
  <2>1. now' <= NextEdge' /\ (Pending' => now' < NextEdge')
    BY <1>1, <1>3, <1>4, <1>5 DEF ReceiverInv
  <2> QED BY <1>1, <1>2, <1>5, <2>1 DEF ReceiverInv
<1>8. WaitInv' BY <1>1, <1>2 DEF WaitInv
<1>9. GateInv'
  <2>1. Following' BY <1>1, <1>5, <1>6 DEF Following, WrongBy
  <2>2. OpenInv' BY <1>1, <1>2, <1>6 DEF GateInv, OpenInv, Lead
  <2> QED BY <1>1, <1>2, <1>5, <1>6, <2>1, <2>2 DEF GateInv, PulseInv, OnSecond
<1> QED BY <1>7, <1>8, <1>9

\* Lock is back: the receiver is in the true second again, and the pulse applied last is
\* as late as it was.
LEMMA CoastReturn ==
  ASSUME TypeOK, OnlyCoasts, ReceiverInv, WaitInv, GateInv, Relock
  PROVE  ReceiverInv' /\ WaitInv' /\ GateInv'
<1>1. /\ UNCHANGED <<now, stalled, faults, pc, pps_synced, period_healthy, bad_streak, good_streak,
                     pps_count, sats, gps_time_valid, last_gps_epoch, prev_pps_micros,
                     last_pps_millis, anchor, err_streak, err_last, last_pps_micros, pps_flag>>
      /\ coasting /\ coasting' = FALSE
      /\ last_edge' = TrueSec * SEC /\ rx_sec' = TrueSec /\ heard' = TrueSec
  BY CoastEnvironmentFrame DEF Relock, isr
<1>2. pps_synced /\ faults.left = 0 BY <1>1 DEF ReceiverInv
<1>3. /\ now \in Nat /\ last_edge \in Nat /\ TrueSec * SEC <= now /\ now < TrueSec * SEC + SEC
      /\ TrueSec * SEC \in Nat /\ (OnSecond(now) => TrueSec * SEC = now)
  BY CoastTypes, TrueSecond
<1>4. now' < NextEdge' BY <1>1, <1>3 DEF NextEdge, Period
<1>5. Pending' <=> Pending BY <1>1 DEF Pending
<1>6. ReceiverInv'
  <2>1. now' <= NextEdge' BY <1>1, <1>3, <1>4 DEF NextEdge, Period
  <2> QED BY <1>1, <1>2, <1>4, <1>5, <2>1 DEF ReceiverInv
<1>7. WaitInv' BY <1>1, <1>2 DEF WaitInv
<1>8. GateInv'
  <2>1. Following BY <1>1, <1>2 DEF GateInv, PulseInv
  <2>2. Pending' =>
          \/ last_pps_micros' = prev_pps_micros' + SEC + CoastSlip
          \/ OnSecond(last_pps_micros)' /\ last_pps_micros' = last_edge' /\ period_healthy'
    <3> SUFFICES ASSUME Pending, last_pps_micros # prev_pps_micros + SEC + CoastSlip
                 PROVE  /\ OnSecond(last_pps_micros)' /\ last_pps_micros' = last_edge'
                        /\ period_healthy'
      BY <1>1, <1>5
    <3>1. OnSecond(last_pps_micros) /\ now = last_pps_micros
      BY <1>2 DEF GateInv, PulseInv, ReceiverInv
    <3>2. prev_pps_micros = last_pps_micros - SEC
      BY <2>1, CoastTypes DEF Following
    <3>3. period_healthy BY <1>1, <1>2, <3>2 DEF GateInv, ClosedInv
    <3> QED BY <1>1, <1>3, <3>1, <3>3 DEF OnSecond
  <2>3. PulseInv' BY <1>1, <1>2, <2>2 DEF GateInv, PulseInv
  <2>4. period_healthy => OpenInv' BY <1>1, <1>2 DEF GateInv, OpenInv, Lead
  <2>5. ~period_healthy => ClosedInv' BY <1>1, <1>2 DEF GateInv, ClosedInv
  <2> QED BY <1>1, <2>3, <2>4, <2>5 DEF GateInv
<1> QED BY <1>6, <1>7, <1>8


\* How the pulse is applied: the clock waits for a second pulse, gets it, starts over, or
\* goes on with the next second.
LEMMA CoastPulseEnds ==
  ASSUME TypeOK, ResetInv, AfterEpoch, ReceiverInv, WaitInv, GateInv, ApplyPpsCorrection
  PROVE  /\ UNCHANGED <<now, last_edge, rx_sec, heard, coasting, stalled, faults, last_pps_micros,
                        sats, err_streak, err_last>>
         /\ Pending /\ ~Pending' /\ ~(pps_flag' /\ pc' = "taken") /\ now = last_pps_micros
         /\ \/ /\ ~pps_synced /\ ~pps_synced' /\ UNCHANGED <<period_healthy, bad_streak>>
               /\ pps_count' > 0 =>
                    /\ pps_count' = 1 /\ sats /\ gps_time_valid' /\ last_gps_epoch' # 0
                    /\ prev_pps_micros' = last_pps_micros
            \/ /\ ~pps_synced /\ pps_synced' /\ pps_count > 0 /\ PeriodCheck /\ sats
               /\ anchor' = anchor /\ last_gps_epoch' = CorrectedEpoch
               /\ prev_pps_micros' = last_pps_micros /\ last_pps_millis' = now
            \/ /\ pps_synced /\ ~pps_synced' /\ FarOff /\ PeriodCheck /\ pps_count' = 0
            \/ /\ pps_synced /\ pps_synced' /\ PeriodCheck /\ sats
               /\ last_gps_epoch' = CorrectedEpoch
               /\ anchor' = IF Off THEN anchor
                                   ELSE [epoch |-> CorrectedEpoch, micros |-> last_pps_micros]
               /\ prev_pps_micros' = last_pps_micros /\ last_pps_millis' = now
<1>1. /\ UNCHANGED <<now, last_edge, rx_sec, heard, coasting, stalled, faults, last_pps_micros,
                     pps_flag, err_streak, err_last>>
      /\ pc = "taken" /\ pc' = "idle"
  BY PulseEnds
<1>2. sats' = sats
  BY DEF ApplyPpsCorrection, PulseIgnored, PulseWithoutFix, PulseFirst, PulseSync, PulseDiverged,
         PulseHardSync, PulseDiscipline, Counting, Applying
<1>3. Pending /\ ~Pending' /\ ~(pps_flag' /\ pc' = "taken") /\ now = last_pps_micros
  BY <1>1 DEF Pending, ReceiverInv
<1>4. pps_synced => EpochKnown /\ sats /\ pps_count > 0
  BY DEF ResetInv, ResetIsComplete, AfterEpoch, EpochKnown, GateInv, PulseInv
<1>5. ~pps_synced /\ pps_count > 0 => EpochKnown /\ sats
  BY DEF WaitInv, EpochKnown
<1>6. CASE PulseIgnored \/ PulseWithoutFix
  <2>1. ~pps_synced /\ ~(pps_count > 0)
    BY <1>4, <1>5, <1>6 DEF PulseIgnored, PulseWithoutFix
  <2> QED BY <1>1, <1>2, <1>3, <1>6, <2>1 DEF PulseIgnored, PulseWithoutFix, epochs, health
<1>7. CASE PulseFirst
  <2>1. ~pps_synced BY <1>4, <1>7 DEF PulseFirst
  <2> QED BY <1>1, <1>2, <1>3, <1>7, <2>1 DEF PulseFirst, Usable, EpochKnown, health
<1>8. CASE PulseSync
  BY <1>1, <1>2, <1>3, <1>8 DEF PulseSync, Counting, Usable, served
<1>9. CASE PulseDiverged
  BY <1>1, <1>2, <1>3, <1>9 DEF PulseDiverged, Counting, FullReset
<1>10. CASE PulseHardSync
  BY <1>1, <1>2, <1>3, <1>10 DEF PulseHardSync, Counting, Usable, served
<1>11. CASE PulseDiscipline
  BY <1>1, <1>2, <1>3, <1>11 DEF PulseDiscipline, Counting, Usable
<1> QED BY <1>6, <1>7, <1>8, <1>9, <1>10, <1>11 DEF ApplyPpsCorrection

\* The pulse after a second, or after the longer one of a coasting receiver, is one
\* second later; only the first is in spec.
LEMMA CoastInterval ==
  ASSUME TypeOK, PromptSentences, GateCatchesSlip,
         last_pps_micros \in {prev_pps_micros + SEC, prev_pps_micros + SEC + CoastSlip}
  PROVE  /\ CorrectedEpoch = last_gps_epoch + 1
         /\ Drift = Residue + (last_pps_micros - prev_pps_micros - SEC)
         /\ InSpec <=> last_pps_micros = prev_pps_micros + SEC
<1>1. /\ last_pps_micros \in Nat /\ prev_pps_micros \in Nat /\ SEC \in Nat \ {0}
      /\ CoastSlip \in Nat /\ last_gps_epoch \in Int /\ sys_off \in Int
      /\ last_gps_epoch * SEC \in Int /\ Residue \in Int /\ PPS_PERIOD_TOLERANCE \in Nat
  BY CoastTypes
<1>2. Interval \in {SEC, SEC + CoastSlip}
      /\ (Interval = SEC <=> last_pps_micros = prev_pps_micros + SEC)
  BY <1>1 DEF Interval
<1>3. (Interval + SEC \div 2) \div SEC = 1
  <2>1. PICK c \in Nat : Interval = 1 * SEC + c /\ 2 * c < SEC
    BY <1>1, <1>2 DEF PromptSentences
  <2> QED BY <2>1, RoundedSeconds
<1>4. ExtraEpochs = 0 BY <1>3 DEF ExtraEpochs
<1>5. CorrectedEpoch = last_gps_epoch + 1 BY <1>1, <1>4 DEF CorrectedEpoch
<1>6. CorrectedEpoch * SEC = last_gps_epoch * SEC + SEC BY <1>1, <1>5, SecondsAdd
<1>7. Drift = Residue + (last_pps_micros - prev_pps_micros - SEC)
  BY <1>1, <1>6 DEF Drift, Residue
<1>8. InSpec <=> Magnitude(Interval - SEC) <= PPS_PERIOD_TOLERANCE
  <2>1. (ExtraEpochs + 1) * SEC = SEC BY <1>1, <1>4
  <2> QED BY <1>4, <2>1 DEF InSpec
<1>9. Magnitude(Interval - SEC) = Interval - SEC
  <2>1. Interval \in Nat /\ Interval >= SEC BY <1>1, <1>2
  <2> QED BY <1>1, <2>1 DEF Magnitude
<1>10. Interval - SEC <= PPS_PERIOD_TOLERANCE <=> Interval = SEC
  <2>1. PPS_PERIOD_TOLERANCE < CoastSlip BY DEF GateCatchesSlip
  <2> QED BY <1>1, <1>2, <2>1
<1> QED BY <1>2, <1>5, <1>7, <1>8, <1>9, <1>10

\* A true second that follows a pulse which was a little late gets its own name.
LEMMA CoastSecond ==
  ASSUME TypeOK, OnSecond(last_pps_micros), 0 <= Lead, 10 * Lead <= 4 * SEC
  PROVE  /\ CorrectedEpoch \in Int /\ CorrectedEpoch * SEC = last_pps_micros
         /\ Drift = Residue - Lead
<1>1. PICK k \in Int : last_pps_micros = k * SEC BY DEF OnSecond
<1>2. /\ last_pps_micros \in Nat /\ prev_pps_micros \in Nat /\ SEC \in Nat \ {0} /\ Lead \in Int
      /\ last_gps_epoch \in Int /\ last_gps_epoch * SEC \in Int /\ k * SEC \in Int
      /\ (k - last_gps_epoch) * SEC = k * SEC - last_gps_epoch * SEC
      /\ k - last_gps_epoch \in Int /\ sys_off \in Int /\ Residue \in Int
  BY CoastTypes, SecondsAdd
<1>3. SEC \div 2 - Lead \in 0 .. SEC - 1
  <2>1. SEC \div 2 \in Int /\ 2 * (SEC \div 2) <= SEC /\ SEC <= 2 * (SEC \div 2) + 1 BY <1>2
  <2> QED BY <1>2, <2>1
<1>4. Interval + SEC \div 2 = (k - last_gps_epoch) * SEC + (SEC \div 2 - Lead)
  <2>1. SEC \div 2 \in Int BY <1>2
  <2>2. Interval = k * SEC - prev_pps_micros BY <1>1 DEF Interval
  <2>3. prev_pps_micros = last_gps_epoch * SEC + Lead BY CoastTypes
  <2> QED BY <1>2, <2>1, <2>2, <2>3
<1>5. (Interval + SEC \div 2) \div SEC = k - last_gps_epoch
  BY <1>2, <1>3, <1>4, WholeSeconds
<1>6. CorrectedEpoch = k BY <1>2, <1>5 DEF CorrectedEpoch, ExtraEpochs
<1>7. Drift = sys_off BY <1>1, <1>2, <1>6 DEF Drift
<1>8. sys_off = Residue - Lead
  <2>1. sys_off + prev_pps_micros = last_gps_epoch * SEC + Residue
        /\ prev_pps_micros = last_gps_epoch * SEC + Lead
    BY CoastTypes
  <2> QED BY <1>2, <2>1
<1> QED BY <1>1, <1>6, <1>7, <1>8

\* The clock is never far from the counter.
LEMMA CoastResidue ==
  ASSUME TypeOK, AlignedInv, OnlyCoasts, pps_synced, PulseInv
  PROVE  Residue \in Int /\ 10 * Residue <= SEC /\ -SEC <= 10 * Residue
<1>1. /\ 10 * Residue <= SEC
      /\ -SEC <= 10 * Residue \/ prev_pps_micros - last_pps_millis <= Residue
  BY DEF AlignedInv, OnlyCoasts
<1>2. prev_pps_micros = last_pps_millis /\ prev_pps_micros \in Nat /\ Residue \in Int
  BY CoastTypes DEF PulseInv
<1> QED BY <1>1, <1>2

\* How the period check counts.
LEMMA CoastCounts ==
  ASSUME TypeOK, PeriodCheck, period_healthy => bad_streak < PPS_PERIOD_BAD_STREAK
  PROVE  /\ InSpec => /\ bad_streak' = 0 /\ good_streak' > 0 /\ good_streak' <= good_streak + 1
                      /\ period_healthy => period_healthy'
                      /\ ~period_healthy /\ period_healthy' =>
                           good_streak' >= PPS_PERIOD_GOOD_STREAK
         /\ ~InSpec => /\ good_streak' = 0 /\ (period_healthy' => period_healthy)
                       /\ period_healthy => bad_streak' = bad_streak + 1
         /\ period_healthy' => bad_streak' < PPS_PERIOD_BAD_STREAK
<1>1. /\ bad_streak \in 0 .. PPS_PERIOD_BAD_STREAK /\ good_streak \in 0 .. PPS_PERIOD_GOOD_STREAK
      /\ PPS_PERIOD_BAD_STREAK \in Nat \ {0} /\ PPS_PERIOD_GOOD_STREAK \in Nat \ {0}
  BY CoastTypes
<1>2. CASE InSpec
  <2>1. /\ bad_streak' = 0 /\ good_streak' = Saturate(good_streak, PPS_PERIOD_GOOD_STREAK)
        /\ period_healthy' = (period_healthy \/ good_streak' >= PPS_PERIOD_GOOD_STREAK)
    BY <1>2 DEF PeriodCheck
  <2>2. bad_streak' < PPS_PERIOD_BAD_STREAK /\ good_streak' > 0 /\ good_streak' <= good_streak + 1
    BY <1>1, <2>1 DEF Saturate
  <2> QED BY <1>2, <2>1, <2>2, Zenon
<1>3. CASE ~InSpec
  BY <1>1, <1>3 DEF PeriodCheck, Saturate
<1> QED BY <1>2, <1>3

\* A pulse while the clock is not synchronised: the second one is right.
LEMMA CoastPulseSyncs ==
  ASSUME TypeOK, ResetInv, AfterEpoch, OnlyCoasts, ReceiverInv, WaitInv, GateInv,
         PromptSentences, GateCatchesSlip, ApplyPpsCorrection, ~pps_synced
  PROVE  ReceiverInv' /\ WaitInv' /\ GateInv'
<1>1. /\ UNCHANGED <<now, last_edge, rx_sec, heard, coasting, stalled, faults, last_pps_micros,
                     sats, err_streak, err_last>>
      /\ Pending /\ ~Pending' /\ ~(pps_flag' /\ pc' = "taken") /\ now = last_pps_micros
  BY CoastPulseEnds
<1>2. ~coasting /\ last_pps_micros = last_edge /\ heard # rx_sec
  BY <1>1 DEF ReceiverInv, WaitInv
<1>3. NextEdge' = NextEdge BY <1>1 DEF NextEdge, Period
<1>4. CASE ~pps_synced'
  <2>1. /\ UNCHANGED <<period_healthy, bad_streak>>
        /\ pps_count' > 0 =>
             /\ pps_count' = 1 /\ sats /\ gps_time_valid' /\ last_gps_epoch' # 0
             /\ prev_pps_micros' = last_pps_micros
    BY <1>4, CoastPulseEnds
  <2>2. ReceiverInv' BY <1>1, <1>2, <1>3, <2>1 DEF ReceiverInv
  <2>3. WaitInv' BY <1>1, <1>2, <2>1 DEF WaitInv
  <2>4. GateInv' BY <1>4 DEF GateInv
  <2> QED BY <2>2, <2>3, <2>4
<1>5. CASE pps_synced'
  <2>1. /\ pps_count > 0 /\ PeriodCheck /\ sats /\ anchor' = anchor
        /\ last_gps_epoch' = CorrectedEpoch
        /\ prev_pps_micros' = last_pps_micros /\ last_pps_millis' = now
    BY <1>5, CoastPulseEnds
  <2>2. prev_pps_micros = last_edge - SEC /\ last_gps_epoch = rx_sec - 1
    BY <1>1, <2>1 DEF WaitInv
  <2>3. /\ last_edge \in Nat /\ rx_sec \in Nat /\ last_edge = rx_sec * SEC /\ CoastSlip \in Nat
        /\ SEC \in Nat
    BY <1>2, CoastTypes DEF ReceiverInv
  <2>4. last_pps_micros = prev_pps_micros + SEC BY <1>2, <2>2, <2>3
  <2>5. last_gps_epoch' = rx_sec /\ InSpec
    <3>1. CorrectedEpoch = last_gps_epoch + 1 /\ InSpec BY <2>4, CoastInterval
    <3> QED BY <2>1, <2>2, <2>3, <3>1
  <2>6. /\ bad_streak' = 0 /\ (period_healthy => period_healthy')
        /\ period_healthy' => bad_streak' < PPS_PERIOD_BAD_STREAK
    <3>1. period_healthy => bad_streak < PPS_PERIOD_BAD_STREAK BY DEF ReceiverInv
    <3> QED BY <2>1, <2>5, <3>1, CoastCounts
  <2>7. WrongBy' = 0 /\ Lead' = 0
    BY <1>1, <1>2, <2>1, <2>3, <2>5 DEF WrongBy, Lead
  <2>8. ReceiverInv' BY <1>1, <1>2, <1>3, <2>6 DEF ReceiverInv
  <2>9. WaitInv' BY <1>5 DEF WaitInv
  <2>10. Following' BY <1>1, <1>2, <2>7 DEF Following
  <2>11. PulseInv' BY <1>1, <2>1, <2>10 DEF PulseInv
  <2>12. OpenInv'
    <3>1. anchor'.epoch = 0 BY <2>1 DEF ResetInv, ResetIsComplete
    <3>2. bad_streak' * CoastSlip = 0 BY <2>3, <2>6
    <3> QED BY <2>7, <3>1, <3>2 DEF OpenInv
  <2>13. ClosedInv' BY <1>1, <1>2, <2>7 DEF ClosedInv
  <2> QED BY <2>8, <2>9, <2>11, <2>12, <2>13 DEF GateInv
<1> QED BY <1>4, <1>5

\* A pulse while the gate is open: a true second puts the counter right, a longer period
\* makes it later by a slip and is counted.
LEMMA CoastPulseOpen ==
  ASSUME TypeOK, ResetInv, AfterEpoch, AlignedInv, OnlyCoasts, ReceiverInv, WaitInv, GateInv,
         PromptSentences, GateCatchesSlip, ApplyPpsCorrection, pps_synced, period_healthy
  PROVE  ReceiverInv' /\ WaitInv' /\ GateInv'
<1>1. /\ UNCHANGED <<now, last_edge, rx_sec, heard, coasting, stalled, faults, last_pps_micros,
                     sats, err_streak, err_last>>
      /\ Pending /\ ~Pending' /\ ~(pps_flag' /\ pc' = "taken") /\ now = last_pps_micros
      /\ NextEdge' = NextEdge
  BY CoastPulseEnds DEF NextEdge, Period
<1>2. PulseInv /\ OpenInv /\ bad_streak < PPS_PERIOD_BAD_STREAK
  BY DEF GateInv, ReceiverInv
<1>3. /\ SEC \in Nat \ {0} /\ CoastSlip \in Nat /\ CoastSlip > 0 /\ 2 * CoastSlip < SEC
      /\ Lead \in Int /\ last_pps_micros \in Nat /\ prev_pps_micros \in Nat
      /\ rx_sec \in Nat /\ last_gps_epoch \in Int /\ last_gps_epoch * SEC \in Int
      /\ bad_streak \in Nat /\ PPS_PERIOD_BAD_STREAK \in Nat
  BY CoastTypes DEF PromptSentences, GateCatchesSlip
<1>4. Residue \in Int /\ 10 * Residue <= SEC /\ -SEC <= 10 * Residue
  BY <1>2, CoastResidue
<1>5. /\ 0 <= Lead /\ Lead <= bad_streak * CoastSlip /\ 10 * Lead <= 4 * SEC
      /\ (bad_streak + 1) * CoastSlip = bad_streak * CoastSlip + CoastSlip
      /\ bad_streak * CoastSlip \in Nat
  <2>1. bad_streak * CoastSlip <= PPS_PERIOD_BAD_STREAK * CoastSlip
        /\ bad_streak * CoastSlip \in Nat /\ PPS_PERIOD_BAD_STREAK * CoastSlip \in Nat
        /\ (bad_streak + 1) * CoastSlip = bad_streak * CoastSlip + CoastSlip
    BY <1>2, <1>3, SlipsAdd
  <2>2. 10 * (PPS_PERIOD_BAD_STREAK * CoastSlip) <= 4 * SEC BY DEF GateCatchesSlip
  <2> QED BY <1>2, <1>3, <2>1, <2>2 DEF OpenInv
<1>6. coasting \/ faults.left = 1 =>
        /\ last_pps_micros = last_edge /\ WrongBy = 0
        /\ last_pps_micros \in {prev_pps_micros + SEC, prev_pps_micros + SEC + CoastSlip}
        /\ ~coasting => last_pps_micros = prev_pps_micros + SEC
  BY <1>1, <1>2, <1>3 DEF PulseInv, Following
<1>7. /\ CorrectedEpoch \in Int /\ Magnitude(Drift) <= 2 * SEC
      /\ \/ /\ last_pps_micros - CorrectedEpoch * SEC = 0
         \/ /\ ~InSpec /\ last_pps_micros = prev_pps_micros + SEC + CoastSlip
            /\ last_pps_micros - CorrectedEpoch * SEC = Lead + CoastSlip
  <2>1. CASE last_pps_micros = prev_pps_micros + SEC + CoastSlip
    <3>1. /\ CorrectedEpoch = last_gps_epoch + 1 /\ ~InSpec
          /\ Drift = Residue + (last_pps_micros - prev_pps_micros - SEC)
      BY <1>3, <2>1, CoastInterval
    <3>2. CorrectedEpoch * SEC = last_gps_epoch * SEC + SEC BY <1>3, <3>1, SecondsAdd
    <3>3. prev_pps_micros = last_gps_epoch * SEC + Lead BY CoastTypes
    <3>4. last_pps_micros - CorrectedEpoch * SEC = Lead + CoastSlip
      BY <1>3, <2>1, <3>2, <3>3
    <3>5. Drift = Residue + CoastSlip BY <1>3, <1>4, <2>1, <3>1
    <3>6. Magnitude(Drift) <= 2 * SEC BY <1>3, <1>4, <3>5 DEF Magnitude
    <3> QED BY <1>3, <2>1, <3>1, <3>4, <3>6
  <2>2. CASE OnSecond(last_pps_micros)
    <3>1. /\ CorrectedEpoch \in Int /\ CorrectedEpoch * SEC = last_pps_micros
          /\ Drift = Residue - Lead
      BY <1>5, <2>2, CoastSecond
    <3>2. Magnitude(Drift) <= 2 * SEC BY <1>3, <1>4, <1>5, <3>1 DEF Magnitude
    <3> QED BY <1>3, <3>1, <3>2
  <2> QED BY <1>1, <1>2, <2>1, <2>2 DEF PulseInv
<1>8. ~FarOff
  <2>1. Magnitude(Drift) \in Int /\ 2 * SEC \in Int
    <3>1. Drift \in Int
      <4>1. sys_off \in Int /\ CorrectedEpoch * SEC \in Int BY <1>7, CoastTypes, SecondsAdd
      <4> QED BY <1>3, <4>1 DEF Drift
    <3> QED BY <1>3, <3>1 DEF Magnitude
  <2> QED BY <1>7, <2>1 DEF FarOff
<1>9. /\ pps_synced' /\ PeriodCheck /\ sats /\ last_gps_epoch' = CorrectedEpoch
      /\ anchor' = IF Off THEN anchor
                          ELSE [epoch |-> CorrectedEpoch, micros |-> last_pps_micros]
      /\ prev_pps_micros' = last_pps_micros /\ last_pps_millis' = now
  BY <1>8, CoastPulseEnds
<1>10. /\ InSpec => bad_streak' = 0 /\ period_healthy'
       /\ ~InSpec => good_streak' = 0 /\ bad_streak' = bad_streak + 1
       /\ period_healthy' => bad_streak' < PPS_PERIOD_BAD_STREAK
  BY <1>2, <1>9, CoastCounts
<1>11. coasting \/ faults.left = 1 => Following'
  <2> SUFFICES ASSUME coasting \/ faults.left = 1 PROVE Following'
    OBVIOUS
  <2>1. CorrectedEpoch = last_gps_epoch + 1 BY <1>6, CoastInterval
  <2>2. WrongBy' = WrongBy BY <1>1, <1>3, <1>9, <2>1 DEF WrongBy
  <2> QED BY <1>1, <1>6, <2>2 DEF Following
<1>12. faults.left = 1 => period_healthy'
  <2> SUFFICES ASSUME faults.left = 1 PROVE period_healthy'
    OBVIOUS
  <2>1. ~coasting BY DEF ReceiverInv
  <2>2. InSpec BY <1>6, <2>1, CoastInterval
  <2> QED BY <1>10, <2>2
<1>13. faults.left \in Nat /\ faults.left <= 1 BY CoastTypes DEF ReceiverInv
<1>14. ReceiverInv'
  <2>1. ~period_healthy' => faults.left = 0 BY <1>12, <1>13
  <2> QED BY <1>1, <1>9, <1>10, <2>1 DEF ReceiverInv
<1>15. WaitInv' BY <1>9 DEF WaitInv
<1>16. PulseInv' BY <1>1, <1>9, <1>11 DEF PulseInv
<1>17. ASSUME period_healthy' PROVE OpenInv'
  <2>1. bad_streak' < PPS_PERIOD_BAD_STREAK BY <1>10, <1>17
  <2>2. Lead' = last_pps_micros - CorrectedEpoch * SEC BY <1>9 DEF Lead
  <2>3. bad_streak' \in Nat /\ CorrectedEpoch * SEC \in Int
    BY <1>3, <1>7, <1>10, SecondsAdd
  <2>4. /\ bad_streak' * CoastSlip \in Nat
        /\ bad_streak' * CoastSlip < PPS_PERIOD_BAD_STREAK * CoastSlip
    <3>1. /\ bad_streak' * CoastSlip \in Nat
          /\ (bad_streak' + 1) * CoastSlip = bad_streak' * CoastSlip + CoastSlip
      BY <2>3, SlipsAdd
    <3>2. /\ (bad_streak' + 1) * CoastSlip <= PPS_PERIOD_BAD_STREAK * CoastSlip
          /\ PPS_PERIOD_BAD_STREAK * CoastSlip \in Nat
      <4>1. bad_streak' + 1 \in Nat /\ bad_streak' + 1 <= PPS_PERIOD_BAD_STREAK
        <5>1. \A b \in Nat, n \in Nat : b < n => b + 1 \in Nat /\ b + 1 <= n
          OBVIOUS
        <5>2. bad_streak' \in Nat /\ PPS_PERIOD_BAD_STREAK \in Nat BY <1>3, <2>3
        <5> QED BY <2>1, <5>1, <5>2
      <4>2. \A j \in Nat, k \in Nat : k * CoastSlip \in Nat
              /\ (j <= k => j * CoastSlip <= k * CoastSlip)
        BY SlipsAdd
      <4> QED BY <1>3, <4>1, <4>2
    <3> QED BY <1>3, <3>1, <3>2
  <2>5. 0 <= Lead' /\ Lead' <= bad_streak' * CoastSlip
    <3>1. CASE last_pps_micros - CorrectedEpoch * SEC = 0
      BY <2>2, <2>4, <3>1
    <3>2. CASE ~InSpec /\ last_pps_micros - CorrectedEpoch * SEC = Lead + CoastSlip
      <4>1. bad_streak' * CoastSlip = bad_streak * CoastSlip + CoastSlip
        BY <1>5, <1>10, <3>2
      <4>2. Lead' = Lead + CoastSlip BY <2>2, <3>2
      <4> QED BY <1>3, <1>5, <4>1, <4>2
    <3> QED BY <1>7, <3>1, <3>2
  <2>6. anchor'.epoch # 0 =>
          /\ 0 <= anchor'.micros - anchor'.epoch * SEC
          /\ anchor'.micros - anchor'.epoch * SEC < PPS_PERIOD_BAD_STREAK * CoastSlip
    <3>1. CASE anchor' = anchor BY <1>2, <3>1 DEF OpenInv
    <3>2. CASE anchor' = [epoch |-> CorrectedEpoch, micros |-> last_pps_micros]
      <4>1. anchor'.micros - anchor'.epoch * SEC = Lead' BY <2>2, <3>2
      <4>2. Lead' \in Int /\ PPS_PERIOD_BAD_STREAK * CoastSlip \in Nat
        BY <1>3, <2>2, <2>3, SlipsAdd
      <4> QED BY <2>4, <2>5, <4>1, <4>2
    <3> QED BY <1>9, <3>1, <3>2
  <2> QED BY <2>5, <2>6 DEF OpenInv
<1>18. ASSUME ~period_healthy' PROVE ClosedInv'
  <2>1. good_streak' = 0 BY <1>10, <1>18
  <2> QED BY <1>1, <2>1 DEF ClosedInv
<1> QED BY <1>14, <1>15, <1>16, <1>17, <1>18 DEF GateInv

\* A pulse while the gate is closed: good ones of a wrong counter leave its error to the
\* sentence that follows, and the one that opens the gate belongs to a right counter.
LEMMA CoastPulseClosed ==
  ASSUME TypeOK, ResetInv, AfterEpoch, AlignedInv, OnlyCoasts, ReceiverInv, WaitInv, GateInv,
         PromptSentences, GateCatchesSlip, ApplyPpsCorrection, pps_synced, ~period_healthy
  PROVE  ReceiverInv' /\ WaitInv' /\ GateInv'
<1>1. /\ UNCHANGED <<now, last_edge, rx_sec, heard, coasting, stalled, faults, last_pps_micros,
                     sats, err_streak, err_last>>
      /\ Pending /\ ~Pending' /\ ~(pps_flag' /\ pc' = "taken") /\ now = last_pps_micros
      /\ NextEdge' = NextEdge
  BY CoastPulseEnds DEF NextEdge, Period
<1>2. PulseInv /\ ClosedInv /\ faults.left = 0
  BY DEF GateInv, ReceiverInv
<1>3. /\ SEC \in Nat \ {0} /\ CoastSlip \in Nat /\ CoastSlip > 0 /\ 2 * CoastSlip < SEC
      /\ last_pps_micros \in Nat /\ prev_pps_micros \in Nat /\ last_edge \in Nat
      /\ rx_sec \in Nat /\ last_gps_epoch \in Int /\ last_gps_epoch * SEC \in Int
      /\ good_streak \in Nat /\ err_streak \in Nat /\ err_streak < EPOCH_FIX_STREAK
      /\ EPOCH_FIX_STREAK < PPS_PERIOD_GOOD_STREAK
      /\ EPOCH_FIX_STREAK \in Nat \ {0} /\ PPS_PERIOD_GOOD_STREAK \in Nat
      /\ CorrectedEpoch \in Int /\ CorrectedEpoch * SEC \in Int
  BY CoastTypes, CorrectedEpochType, SecondsAdd, DisciplineAssumption
     DEF PromptSentences, GateCatchesSlip
<1>4. Residue \in Int /\ 10 * Residue <= SEC /\ -SEC <= 10 * Residue
  BY <1>2, CoastResidue
<1>5. coasting => /\ last_pps_micros = last_edge /\ WrongBy = 0
                  /\ last_pps_micros = prev_pps_micros + SEC + CoastSlip
  BY <1>1, <1>2, <1>3 DEF PulseInv, Following, ClosedInv
<1>6. coasting => /\ ~InSpec /\ CorrectedEpoch = last_gps_epoch + 1 /\ ~FarOff
  <2> SUFFICES ASSUME coasting
               PROVE  ~InSpec /\ CorrectedEpoch = last_gps_epoch + 1 /\ ~FarOff
    OBVIOUS
  <2>1. /\ CorrectedEpoch = last_gps_epoch + 1 /\ ~InSpec
        /\ Drift = Residue + (last_pps_micros - prev_pps_micros - SEC)
    BY <1>3, <1>5, CoastInterval
  <2>2. Drift = Residue + CoastSlip BY <1>3, <1>4, <1>5, <2>1
  <2> QED BY <1>3, <1>4, <2>1, <2>2 DEF FarOff, Magnitude
<1>7. PeriodCheck
  BY CoastPulseEnds
<1>8. bad_streak' < PPS_PERIOD_BAD_STREAK \/ ~period_healthy'
  BY <1>7, CoastCounts
<1>9. CASE ~pps_synced'
  <2>1. pps_count' = 0 /\ FarOff BY <1>9, CoastPulseEnds
  <2>2. ~coasting BY <1>6, <2>1
  <2>3. ReceiverInv' BY <1>1, <1>2, <1>8, <2>2 DEF ReceiverInv
  <2>4. WaitInv' BY <1>1, <2>1 DEF WaitInv
  <2> QED BY <1>9, <2>3, <2>4 DEF GateInv
<1>10. CASE pps_synced'
  <2>1. /\ sats /\ last_gps_epoch' = CorrectedEpoch
        /\ anchor' = IF Off THEN anchor
                            ELSE [epoch |-> CorrectedEpoch, micros |-> last_pps_micros]
        /\ prev_pps_micros' = last_pps_micros /\ last_pps_millis' = now
    BY <1>10, CoastPulseEnds
  <2>2. ReceiverInv' BY <1>1, <1>2, <1>8, <1>10 DEF ReceiverInv
  <2>3. WaitInv' BY <1>10 DEF WaitInv
  <2>4. PulseInv'
    <3>1. coasting => Following'
      <4> SUFFICES ASSUME coasting PROVE Following'
        OBVIOUS
      <4>1. WrongBy' = WrongBy BY <1>1, <1>3, <1>6, <2>1 DEF WrongBy
      <4> QED BY <1>1, <1>5, <4>1 DEF Following
    <3> QED BY <1>1, <1>2, <2>1, <3>1 DEF PulseInv
  <2>5. CASE ~InSpec
    <3>1. good_streak' = 0 /\ ~period_healthy' BY <1>7, <2>5, CoastCounts
    <3>2. ClosedInv' BY <1>1, <3>1 DEF ClosedInv
    <3> QED BY <2>2, <2>3, <2>4, <3>1, <3>2 DEF GateInv
  <2>6. CASE InSpec
    <3>1. /\ bad_streak' = 0 /\ good_streak' > 0 /\ good_streak' <= good_streak + 1
          /\ period_healthy' => good_streak' >= PPS_PERIOD_GOOD_STREAK
      BY <1>7, <2>6, CoastCounts
    <3>2. ~coasting BY <1>6, <2>6
    <3>3. last_pps_micros = last_edge /\ heard # rx_sec /\ good_streak' \in Nat
      <4>1. last_pps_micros # prev_pps_micros + SEC + CoastSlip
        BY <1>3, <2>6, CoastInterval
      <4>2. good_streak' \in Nat BY <1>7, <2>6, <1>3 DEF PeriodCheck, Saturate
      <4> QED BY <1>1, <1>2, <4>1, <4>2 DEF PulseInv
    <3>4. CASE good_streak = 0
      <4>1. good_streak' = 1 /\ ~period_healthy' BY <1>3, <3>1, <3>3, <3>4
      <4>2. ClosedInv' BY <1>1, <1>3, <3>2, <3>3, <4>1 DEF ClosedInv
      <4> QED BY <2>2, <2>3, <2>4, <4>1, <4>2 DEF GateInv
    <3>5. CASE good_streak > 0
      <4>1. last_pps_micros = prev_pps_micros + SEC
        BY <1>1, <1>2, <1>3, <3>5 DEF ClosedInv
      <4>2. CorrectedEpoch = last_gps_epoch + 1 /\ Drift = Residue
        <5>1. /\ CorrectedEpoch = last_gps_epoch + 1
              /\ Drift = Residue + (last_pps_micros - prev_pps_micros - SEC)
          BY <4>1, CoastInterval
        <5> QED BY <1>3, <1>4, <4>1, <5>1
      <4>3. WrongBy' = WrongBy BY <1>1, <1>3, <2>1, <4>2 DEF WrongBy
      <4>4. WrongBy # 0 => good_streak <= err_streak /\ err_last = WrongBy
        BY <1>1, <1>2, <3>3, <3>5 DEF ClosedInv
      <4>5. ClosedInv' BY <1>1, <1>3, <3>1, <3>2, <3>3, <4>3, <4>4 DEF ClosedInv
      <4>6. ASSUME period_healthy' PROVE OpenInv'
        <5>1. WrongBy = 0 BY <1>3, <3>1, <3>3, <4>4, <4>6
        <5>2. CorrectedEpoch = rx_sec /\ last_pps_micros = rx_sec * SEC
          BY <1>1, <1>3, <3>2, <3>3, <4>2, <5>1 DEF WrongBy, ReceiverInv
        <5>3. Lead' = 0 /\ bad_streak' * CoastSlip = 0
          BY <1>3, <2>1, <3>1, <5>2 DEF Lead
        <5>4. ~Off BY <1>3, <1>4, <4>2 DEF Off, Magnitude
        <5>5. anchor' = [epoch |-> rx_sec, micros |-> last_pps_micros]
          BY <2>1, <5>2, <5>4
        <5>6. anchor'.micros - anchor'.epoch * SEC = 0
          BY <1>3, <5>2, <5>5
        <5>7. PPS_PERIOD_BAD_STREAK * CoastSlip > 0
          BY <1>3, DisciplineAssumption
        <5> QED BY <5>3, <5>6, <5>7 DEF OpenInv
      <4> QED BY <2>2, <2>3, <2>4, <4>5, <4>6 DEF GateInv
    <3> QED BY <1>3, <3>4, <3>5
  <2> QED BY <2>5, <2>6
<1> QED BY <1>9, <1>10

\* A pulse.
LEMMA CoastPulse ==
  ASSUME TypeOK, ResetInv, AfterEpoch, AlignedInv, OnlyCoasts, ReceiverInv, WaitInv, GateInv,
         PromptSentences, GateCatchesSlip, ApplyPpsCorrection
  PROVE  ReceiverInv' /\ WaitInv' /\ GateInv'
BY CoastPulseSyncs, CoastPulseOpen, CoastPulseClosed

\* A sentence that finds the clock less than half a second behind it, and not much
\* ahead, finds it right.
LEMMA NamesNoError ==
  ASSUME TypeOK, NEW ts \in Int, NEW delta \in Int, delta = sys_off + now - ts * SEC,
         -SEC < 2 * delta, 10 * delta <= 9 * SEC
  PROVE  EpochError(ts) = 0
<1> DEFINE half == SEC \div 2
<1>1. half \in Int /\ 2 * half <= SEC /\ SEC <= 2 * half + 1 OBVIOUS
<1>2. CASE 10 * delta < -SEC
  <2>1. half - delta \in 0 .. SEC - 1 BY <1>1, <1>2
  <2>2. (half - delta) \div SEC = 0
    <3>1. half - delta = 0 * SEC + (half - delta) BY <1>1
    <3> HIDE DEF half
    <3> QED BY <2>1, <3>1, WholeSeconds
  <2>3. Int8(-((half - delta) \div SEC)) = 0
    <3>1. Int8(0) = 0 BY Int8Near
    <3>2. -((half - delta) \div SEC) = 0 BY <2>2
    <3> QED BY <3>1, <3>2
  <2>4. ~(10 * delta > 9 * SEC) OBVIOUS
  <2> QED BY <1>2, <2>3, <2>4 DEF EpochError
<1>3. CASE ~(10 * delta < -SEC)
  <2>1. ~(10 * delta > 9 * SEC) OBVIOUS
  <2> QED BY <1>3, <2>1 DEF EpochError
<1> QED BY <1>2, <1>3

\* The sentence is that of the second that is running, and its pulse was handled.
LEMMA CoastSentenceFrame ==
  ASSUME TypeOK, OnlyCoasts, ReceiverInv, NEW s \in Unread, OnUpdate(s, s)
  PROVE  /\ UNCHANGED <<now, last_edge, rx_sec, coasting, stalled, faults, last_pps_micros,
                        pps_flag, pc, prev_pps_micros, last_pps_millis, period_healthy,
                        bad_streak, good_streak>>
         /\ s = rx_sec /\ rx_sec > 0 /\ now > last_edge /\ now - last_edge <= NmeaDelay
         /\ heard # rx_sec /\ heard' = rx_sec /\ sats' = TRUE /\ ~Pending /\ ~Pending'
<1>1. Hearing(s) BY DEF OnUpdate, NmeaCoarse, NmeaCheck, NmeaDiverged
<1>2. ~Fault("nofix") BY OnlyOneFault
<1>3. sats' = TRUE /\ faults' = faults BY <1>2 DEF OnUpdate
<1>4. /\ heard \in Nat /\ rx_sec \in Nat /\ last_edge \in Nat /\ now \in Nat
      /\ last_pps_micros \in Nat
  BY CoastTypes
<1>5. s \in Nat /\ s > heard /\ s <= rx_sec BY <1>4 DEF Unread
<1>6. heard # rx_sec /\ s = rx_sec /\ rx_sec > 0 /\ now - last_edge <= NmeaDelay
  BY <1>4, <1>5 DEF ReceiverInv
<1>7. now > last_edge /\ heard' = rx_sec BY <1>1, <1>6 DEF Hearing
<1>8. /\ UNCHANGED <<now, last_edge, rx_sec, coasting, stalled, last_pps_micros, pps_flag, pc,
                     prev_pps_micros, last_pps_millis, period_healthy, bad_streak, good_streak>>
  BY <1>1 DEF Hearing, isr, pulses, health
<1>9. ~Pending
  <2> SUFFICES ASSUME Pending PROVE FALSE
    OBVIOUS
  <2>1. now = last_pps_micros /\ last_pps_micros = last_edge BY <1>6 DEF ReceiverInv
  <2> QED BY <1>4, <1>7, <2>1
<1> QED BY <1>3, <1>6, <1>7, <1>8, <1>9 DEF Pending

\* While the receiver coasts, or the gate is open, the sentence agrees with the clock.
LEMMA CoastAgrees ==
  ASSUME TypeOK, AlignedInv, OnlyCoasts, ReceiverInv, GateInv, PromptSentences,
         GateCatchesSlip, pps_synced, ~Pending, heard # rx_sec,
         now > last_edge, now - last_edge <= NmeaDelay,
         coasting \/ period_healthy
  PROVE  EpochError(rx_sec) = 0 /\ last_gps_epoch - rx_sec \in -2 .. 2
<1>1. /\ now \in Nat /\ last_edge \in Nat /\ rx_sec \in Nat /\ last_gps_epoch \in Int
      /\ last_pps_micros \in Nat /\ prev_pps_micros \in Nat /\ sys_off \in Int
      /\ rx_sec * SEC \in Int /\ last_gps_epoch * SEC \in Int /\ Lead \in Int
      /\ SEC \in Nat \ {0} /\ NmeaDelay \in Nat
      /\ sys_off + prev_pps_micros = last_gps_epoch * SEC + Residue
      /\ prev_pps_micros = last_gps_epoch * SEC + Lead
  BY CoastTypes
<1>2. PulseInv /\ prev_pps_micros = last_pps_micros
  BY DEF GateInv, AlignedInv, OnlyCoasts
<1>3. Residue \in Int /\ 10 * Residue <= SEC /\ -SEC <= 10 * Residue
  BY <1>2, CoastResidue
<1> DEFINE delta == sys_off + now - rx_sec * SEC
<1>4. CASE coasting
  <2>1. last_pps_micros = last_edge /\ last_gps_epoch = rx_sec
    BY <1>1, <1>2, <1>4 DEF PulseInv, Following, WrongBy
  <2>2. delta \in Int /\ delta = Residue + (now - last_edge) BY <1>1, <1>2, <1>3, <2>1
  <2>3. -SEC < 2 * delta /\ 10 * delta <= 9 * SEC
    <3> HIDE DEF delta
    <3> QED BY <1>1, <1>3, <2>2 DEF PromptSentences
  <2>4. EpochError(rx_sec) = 0
    <3>1. delta = sys_off + now - rx_sec * SEC OBVIOUS
    <3> HIDE DEF delta
    <3> QED BY <1>1, <2>2, <2>3, <3>1, NamesNoError
  <2> QED BY <1>1, <2>1, <2>4
<1>5. CASE ~coasting
  <2>1. last_edge = rx_sec * SEC BY <1>5 DEF ReceiverInv
  <2>2. 0 <= Lead /\ 10 * Lead <= 4 * SEC
    <3>1. /\ bad_streak \in Nat /\ PPS_PERIOD_BAD_STREAK \in Nat
          /\ bad_streak <= PPS_PERIOD_BAD_STREAK
      BY CoastTypes
    <3>2. /\ bad_streak * CoastSlip <= PPS_PERIOD_BAD_STREAK * CoastSlip
          /\ bad_streak * CoastSlip \in Nat /\ PPS_PERIOD_BAD_STREAK * CoastSlip \in Nat
      BY <3>1, SlipsAdd
    <3>3. 0 <= Lead /\ Lead <= bad_streak * CoastSlip
      BY <1>5 DEF GateInv, OpenInv
    <3>4. 10 * (PPS_PERIOD_BAD_STREAK * CoastSlip) <= 4 * SEC BY DEF GateCatchesSlip
    <3> QED BY <1>1, <3>2, <3>3, <3>4
  <2>3. delta \in Int /\ delta = (Residue - Lead) + (now - last_edge)
    BY <1>1, <1>3, <2>1
  <2>4. -SEC < 2 * delta /\ 10 * delta <= 9 * SEC
    <3> HIDE DEF delta
    <3> QED BY <1>1, <1>3, <2>2, <2>3 DEF PromptSentences
  <2>5. EpochError(rx_sec) = 0
    <3>1. delta = sys_off + now - rx_sec * SEC OBVIOUS
    <3> HIDE DEF delta
    <3> QED BY <1>1, <2>3, <2>4, <3>1, NamesNoError
  <2>6. last_gps_epoch - rx_sec \in -2 .. 2
    <3>1. last_pps_micros <= last_edge /\ 10 * (last_edge - last_pps_micros) < 9 * SEC
      BY <1>1 DEF ReceiverInv
    <3>2. last_gps_epoch * SEC <= rx_sec * SEC /\ rx_sec * SEC <= last_gps_epoch * SEC + (SEC + SEC)
      BY <1>1, <1>2, <2>1, <2>2, <3>1
    <3>3. (last_gps_epoch + 1 + 1) * SEC = last_gps_epoch * SEC + (SEC + SEC)
      <4>1. /\ (last_gps_epoch + 1) * SEC = last_gps_epoch * SEC + SEC
            /\ (last_gps_epoch + 1 + 1) * SEC = (last_gps_epoch + 1) * SEC + SEC
        BY <1>1, SecondsAdd
      <4> QED BY <1>1, <4>1
    <3>4. last_gps_epoch <= rx_sec /\ rx_sec <= last_gps_epoch + 1 + 1
      <4>1. rx_sec * SEC <= (last_gps_epoch + 1 + 1) * SEC BY <3>2, <3>3
      <4>2. last_gps_epoch + 1 + 1 \in Int /\ rx_sec \in Int BY <1>1
      <4> HIDE DEF delta
      <4> QED BY <1>1, <3>2, <4>1, <4>2, SecondsOrder
    <3> QED BY <1>1, <3>4
  <2> QED BY <2>5, <2>6
<1> QED BY <1>4, <1>5

\* A sentence leaves a right counter as it is and, while the gate is closed, names the
\* error of a wrong one, steps it or starts over.
LEMMA CoastSentence ==
  ASSUME TypeOK, ResetInv, AlignedInv, OnlyCoasts, ReceiverInv, WaitInv, GateInv,
         PromptSentences, GateCatchesSlip, NEW s \in Unread, OnUpdate(s, s)
  PROVE  ReceiverInv' /\ WaitInv' /\ GateInv'
<1>1. /\ UNCHANGED <<now, last_edge, rx_sec, coasting, stalled, faults, last_pps_micros,
                     pps_flag, pc, prev_pps_micros, last_pps_millis, period_healthy,
                     bad_streak, good_streak>>
      /\ s = rx_sec /\ rx_sec > 0 /\ now > last_edge /\ now - last_edge <= NmeaDelay
      /\ heard # rx_sec /\ heard' = rx_sec /\ sats' = TRUE /\ ~Pending /\ ~Pending'
  BY CoastSentenceFrame
<1>2. /\ rx_sec \in Nat /\ last_gps_epoch \in Int /\ good_streak \in Nat /\ err_streak \in Nat
      /\ ~pps_flag
  BY <1>1, CoastTypes DEF Pending
<1>3. NextEdge' = NextEdge BY <1>1 DEF NextEdge, Period
<1>4. (coasting => pps_synced') => ReceiverInv'
  BY <1>1, <1>3 DEF ReceiverInv
<1>5. NmeaCoarse(rx_sec, rx_sec) \/ NmeaCheck(rx_sec, rx_sec) \/ NmeaDiverged(rx_sec, rx_sec)
  BY <1>1 DEF OnUpdate
<1>6. CASE NmeaCoarse(rx_sec, rx_sec)
  <2>1. /\ ~pps_synced /\ ~pps_synced' /\ gps_time_valid' /\ last_gps_epoch' = rx_sec
        /\ pps_count' = pps_count
    BY <1>2, <1>6 DEF NmeaCoarse
  <2>2. ReceiverInv' BY <1>4, <2>1 DEF ReceiverInv
  <2>3. WaitInv' BY <1>1, <1>2, <2>1 DEF WaitInv
  <2> QED BY <2>1, <2>2, <2>3 DEF GateInv
<1>7. CASE NmeaDiverged(rx_sec, rx_sec)
  <2>1. pps_synced /\ ~pps_synced' /\ pps_count' = 0 /\ Diverged(rx_sec)
    BY <1>7 DEF NmeaDiverged, FullReset
  <2>2. ~coasting
    <3> SUFFICES ASSUME coasting PROVE FALSE
      OBVIOUS
    <3>1. EpochError(rx_sec) = 0 /\ last_gps_epoch - rx_sec \in -2 .. 2
      BY <1>1, <2>1, CoastAgrees
    <3>2. FixedEpoch(rx_sec) = last_gps_epoch
      BY <1>2, <3>1 DEF FixedEpoch, Step, MustFix, Suspect
    <3> QED BY <1>2, <2>1, <3>1, <3>2 DEF Diverged, Magnitude
  <2>3. ReceiverInv' BY <1>4, <2>2
  <2>4. WaitInv' BY <1>1, <2>1 DEF WaitInv
  <2> QED BY <2>1, <2>3, <2>4 DEF GateInv
<1>8. CASE NmeaCheck(rx_sec, rx_sec)
  <2>1. /\ pps_synced /\ pps_synced' /\ anchor' = anchor
        /\ last_gps_epoch' = FixedEpoch(rx_sec)
    BY <1>8 DEF NmeaCheck
  <2>2. ReceiverInv' BY <1>4, <2>1
  <2>3. WaitInv' BY <2>1 DEF WaitInv
  <2>4. PulseInv BY <2>1 DEF GateInv
  <2>5. coasting \/ period_healthy => last_gps_epoch' = last_gps_epoch
    <3> SUFFICES ASSUME coasting \/ period_healthy PROVE last_gps_epoch' = last_gps_epoch
      OBVIOUS
    <3>1. EpochError(rx_sec) = 0 BY <1>1, <2>1, CoastAgrees
    <3> QED BY <1>2, <2>1, <3>1 DEF FixedEpoch, Step, MustFix, Suspect
  <2>6. PulseInv'
    <3>1. coasting \/ faults.left = 1 => Following'
      <4> SUFFICES ASSUME coasting \/ faults.left = 1 PROVE Following'
        OBVIOUS
      <4>1. coasting \/ period_healthy BY DEF ReceiverInv
      <4>2. last_gps_epoch' = last_gps_epoch BY <2>5, <4>1
      <4> QED BY <1>1, <2>4, <4>2 DEF PulseInv, Following, WrongBy
    <3> QED BY <1>1, <2>4, <3>1 DEF PulseInv
  <2>7. CASE period_healthy
    <3>1. OpenInv' BY <1>1, <2>1, <2>5, <2>7 DEF GateInv, OpenInv, Lead
    <3> QED BY <1>1, <2>2, <2>3, <2>6, <2>7, <3>1 DEF GateInv
  <2>8. CASE ~period_healthy
    <3>1. ClosedInv BY <2>1, <2>8 DEF GateInv
    <3>2. ASSUME good_streak > 0, last_gps_epoch' # rx_sec
          PROVE  good_streak <= err_streak' /\ err_last' = last_gps_epoch' - rx_sec
      <4>1. last_pps_micros = last_edge BY <3>1, <3>2 DEF ClosedInv
      <4>2. /\ last_gps_epoch' = last_gps_epoch /\ err_last' = last_gps_epoch - rx_sec
            /\ err_last = last_gps_epoch - rx_sec => err_streak' = err_streak + 1
            /\ err_streak' \in 1 .. EPOCH_FIX_STREAK - 1
        BY <1>1, <1>2, <1>8, <3>2, <4>1, RightStep DEF OnlyCoasts
      <4>3. WrongBy = last_gps_epoch - rx_sec BY <1>1 DEF WrongBy
      <4>4. WrongBy # 0 BY <1>2, <3>2, <4>2, <4>3
      <4>5. good_streak <= err_streak + 1 /\ (good_streak > 1 => err_last = WrongBy)
        BY <1>1, <3>1, <3>2, <4>4 DEF ClosedInv
      <4>6. CASE good_streak = 1 BY <4>2, <4>6
      <4>7. CASE good_streak > 1 BY <1>2, <4>2, <4>3, <4>5, <4>7
      <4> QED BY <1>2, <3>2, <4>2, <4>6, <4>7
    <3>3. WrongBy' = last_gps_epoch' - rx_sec BY <1>1 DEF WrongBy
    <3>4. WrongBy' # 0 => last_gps_epoch' # rx_sec BY <1>2, <3>3
    <3>5. ClosedInv' BY <1>1, <3>1, <3>2, <3>3, <3>4 DEF ClosedInv
    <3> QED BY <1>1, <2>2, <2>3, <2>6, <2>8, <3>5 DEF GateInv
  <2> QED BY <2>7, <2>8
<1> QED BY <1>5, <1>6, <1>7, <1>8

\* Where it all begins.
LEMMA CoastInit ==
  ASSUME LostOnce, Init
  PROVE  CoastInv
<1> SUFFICES ASSUME OnlyCoasts PROVE ReceiverInv /\ WaitInv /\ GateInv
  BY DEF CoastInv
<1>1. TypeOK BY TypeInit
<1>2. faults.left <= 1 BY DEF Init, OnlyCoasts, LostOnce
<1>3. /\ now = BootSec * SEC /\ now \in Nat /\ SEC <= now /\ SEC \in Nat
  <2>1. BootSec \in Nat /\ 1 <= BootSec OBVIOUS
  <2>2. 1 * SEC <= BootSec * SEC BY <2>1, SecondsOrder
  <2> QED BY <1>1, <2>2 DEF Init, TypeOK
<1>4. /\ last_edge = now /\ rx_sec = BootSec /\ heard = BootSec /\ ~coasting /\ ~stalled
      /\ ~Pending /\ pc = "idle" /\ ~pps_synced /\ pps_count = 0 /\ period_healthy
      /\ bad_streak = 0
  BY DEF Init, Pending
<1>5. NextEdge = now + SEC BY <1>3, <1>4 DEF NextEdge, Period
<1>6. ReceiverInv BY <1>2, <1>3, <1>4, <1>5, DisciplineAssumption DEF ReceiverInv
<1>7. WaitInv /\ GateInv BY <1>4 DEF WaitInv, GateInv
<1> QED BY <1>6, <1>7

\* No step of a plan with one loss of lock disturbs the invariant.
LEMMA CoastStep ==
  ASSUME TypeOK, ResetInv, AfterEpoch, AlignedInv, CoastInv, QuickLoop, PromptSentences,
         GateCatchesSlip, [Next]_vars
  PROVE  CoastInv'
<1> SUFFICES ASSUME OnlyCoasts PROVE ReceiverInv' /\ WaitInv' /\ GateInv'
  BY OnlyCoastsStays DEF CoastInv
<1>1. ReceiverInv /\ WaitInv /\ GateInv BY DEF CoastInv
<1>2. ASSUME NEW kind, Fault(kind) PROVE kind = "coast"
  BY <1>1, <1>2, OnlyOneFault
<1>3. CASE Tick \/ Slew \/ LoopTake \/ UNCHANGED vars BY <1>1, <1>3, CoastWait
<1>4. CASE ReceiverEdge BY <1>1, <1>4, CoastEdge
<1>5. CASE StartCoast BY <1>1, <1>5, CoastLoss
<1>6. CASE Relock BY <1>1, <1>6, CoastReturn
<1>7. CASE ApplyPpsCorrection BY <1>1, <1>7, CoastPulse
<1>8. ASSUME NEW s \in Unread, OnUpdate(s, s) PROVE ReceiverInv' /\ WaitInv' /\ GateInv'
  BY <1>1, <1>8, CoastSentence
<1>9. ~MissedEdge /\ ~NoiseEdge /\ ~Stall
  BY <1>2 DEF MissedEdge, NoiseEdge, Stall
<1>10. ~Resume BY <1>1 DEF Resume, ReceiverInv
<1>11. ASSUME NEW g, ClockPushed(g) PROVE FALSE
  BY <1>2, <1>11 DEF ClockPushed
<1>12. ASSUME NEW s, NmeaWithoutTime(s) PROVE FALSE
  BY <1>2, <1>12 DEF NmeaWithoutTime
<1>13. ASSUME NEW s, NEW ts, OnGlitch(s, ts) PROVE FALSE
  BY <1>2, <1>13 DEF OnGlitch
<1> QED BY <1>3, <1>4, <1>5, <1>6, <1>7, <1>8, <1>9, <1>10, <1>11, <1>12, <1>13
        DEF Next, Environment, MainLoop, EndOfHorizon

\* A receiver that loses lock is refused before the published pair is further out than
\* the slips the gate tolerates, and is not accepted again, once lock is back, before the
\* counter was put right.  What else the clock withstands leaves the pair true.
THEOREM CoastIsRefusedHolds ==
  ASSUME QuickLoop, PromptSentences, GateCatchesSlip, LostOnce
  PROVE  Spec /\ []ShortStalls /\ []AfterEpoch => [](Undisturbed \/ OnlyCoasts => CoastIsRefused)
<1>1. Init => AlignedInv /\ CoastInv
  <2> SUFFICES ASSUME Init PROVE AlignedInv
    BY CoastInit
  <2>1. now \in Nat BY TypeInit DEF TypeOK
  <2> QED BY <2>1 DEF Init, AlignedInv
<1>2. TypeOK /\ ResetInv /\ AfterEpoch /\ AlignedInv /\ [Next]_vars => AlignedInv'
  BY AlignedStep
<1>3. TypeOK /\ ResetInv /\ AfterEpoch /\ AlignedInv /\ CoastInv /\ [Next]_vars => CoastInv'
  BY CoastStep
<1>4. TypeOK /\ ResetInv /\ CoastInv /\ AnchorStaysTrue =>
        (Undisturbed \/ OnlyCoasts => CoastIsRefused)
  <2> SUFFICES ASSUME TypeOK, ResetInv, CoastInv, AnchorStaysTrue, Undisturbed \/ OnlyCoasts,
                      IsSynchronized, anchor.epoch # 0
               PROVE  Magnitude(anchor.epoch * SEC - anchor.micros)
                        < PPS_PERIOD_BAD_STREAK * CoastSlip
    BY DEF CoastIsRefused
  <2>1. /\ anchor.epoch * SEC \in Int /\ anchor.micros \in Nat
        /\ PPS_PERIOD_BAD_STREAK * CoastSlip \in Nat
    <3>1. anchor.epoch \in Int /\ anchor.micros \in Nat BY DEF TypeOK
    <3> QED BY <3>1, SecondsAdd, SlipsAdd, DisciplineAssumption
  <2>2. CASE Undisturbed
    <3>1. anchor.epoch * SEC = anchor.micros BY <2>2 DEF AnchorStaysTrue, AnchorTrue
    <3>2. PPS_PERIOD_BAD_STREAK * CoastSlip > 0
      BY DisciplineAssumption DEF GateCatchesSlip
    <3> QED BY <2>1, <3>1, <3>2 DEF Magnitude
  <2>3. CASE OnlyCoasts
    <3>1. OpenInv BY <2>3 DEF CoastInv, GateInv, IsSynchronized
    <3> QED BY <2>1, <3>1 DEF OpenInv, Magnitude
  <2> QED BY <2>2, <2>3
<1> QED BY <1>1, <1>2, <1>3, <1>4, TypeCorrect, ResetInvariant, AnchorStaysTrueHolds, PTL DEF Spec

=============================================================================
