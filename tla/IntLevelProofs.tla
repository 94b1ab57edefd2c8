----------------------------- MODULE IntLevelProofs -----------------------------
(***************************************************************************)
(* What the two kinds of upkeep in NTPServer::loop() guarantee.  IntLevel, *)
(* for every length of the delays and any number of turns, resets and      *)
(* failures: a switch that is off stays off, every boot has its window,    *)
(* and a flag that is wrong is not for long.  ArpSend, for any clients,    *)
(* slots and network: replies leave at once, and recent clients do not     *)
(* stay unresolved.                                                        *)
(***************************************************************************)
EXTENDS IntLevel, ArpSend, TLAPS

USE LevelAssumption DEF LevelAssumption

-----------------------------------------------------------------------------
(***************************************************************************)
(* Types.                                                                  *)
(***************************************************************************)

\* The clock stays within its range, and goes up by one until it wraps.
LEMMA ClockWraps ==
  ASSUME NEW t \in Nat
  PROVE  /\ t % RANGE \in 0 .. RANGE - 1
         /\ t < RANGE => t % RANGE = t
<1>1. RANGE \in Nat /\ RANGE > 0 OBVIOUS
<1> QED BY <1>1

LEMMA LevelTypeStep == TypeOK /\ Next => TypeOK'
<1> SUFFICES ASSUME TypeOK, Next PROVE TypeOK'
  OBVIOUS
<1> USE DEF TypeOK, server, device, time, history, used
<1>1. Deadline \in 0 .. RANGE - 1 /\ (millis + 1) % RANGE \in 0 .. RANGE - 1
  BY ClockWraps DEF Deadline
<1>2. Works \/ Fails => UNCHANGED <<turns, resets>> /\ fails' \in 0 .. MaxFails
  BY DEF Works, Fails
<1>3. FollowFlag => wrong' \in Nat
  BY DEF FollowFlag
<1>4. CASE WriteLevel /\ FollowFlag
  <2>1. chip' \in {"none", SHORT, DEFAULT} BY <1>4 DEF WriteLevel, Target
  <2>2. short_wait_effective_' \in BOOLEAN BY <1>4 DEF WriteLevel, NotEffective
  <2>3. pc' \in {"read", "idle"} BY <1>4 DEF WriteLevel, NotEffective
  <2>4. Works \/ Fails BY <1>4 DEF WriteLevel
  <2> QED BY <1>2, <1>3, <1>4, <2>1, <2>2, <2>3, <2>4 DEF WriteLevel
<1>5. CASE ReadLevel /\ FollowFlag
  <2>1. short_wait_effective_' \in BOOLEAN BY <1>5 DEF ReadLevel
  <2>2. Works \/ Fails BY <1>5 DEF ReadLevel
  <2>3. int_level_recheck_ms_' \in 0 .. RANGE - 1 BY <1>1, <1>5 DEF ReadLevel
  <2> QED BY <1>2, <1>3, <1>5, <2>1, <2>2, <2>3 DEF ReadLevel
<1>6. CASE LoopEnables /\ FollowFlag
  BY <1>1, <1>3, <1>6 DEF LoopEnables, SetShortIntWait
<1>7. CASE LoopRechecks /\ FollowFlag
  BY <1>1, <1>3, <1>7 DEF LoopRechecks
<1>8. CASE Check /\ FollowFlag
  <2>1. Works \/ Fails BY <1>8 DEF Check
  <2>2. pc' \in {"idle", "rewrite"} BY <1>8 DEF Check, NotEffective
  <2>3. short_wait_effective_' \in BOOLEAN BY <1>8 DEF Check, NotEffective
  <2> QED BY <1>2, <1>3, <1>8, <2>1, <2>2, <2>3 DEF Check
<1>9. CASE Rewrite /\ FollowFlag
  <2>1. Works \/ Fails BY <1>9 DEF Rewrite
  <2>2. pc' \in {"idle", "reread"} BY <1>9 DEF Rewrite, NotEffective
  <2>3. short_wait_effective_' \in BOOLEAN BY <1>9 DEF Rewrite, NotEffective
  <2>4. chip' \in {chip, SHORT} BY <1>9 DEF Rewrite
  <2> QED BY <1>2, <1>3, <1>9, <2>1, <2>2, <2>3, <2>4 DEF Rewrite
<1>10. CASE Reread /\ FollowFlag
  <2>1. Works \/ Fails BY <1>10 DEF Reread
  <2>2. short_wait_effective_' \in BOOLEAN BY <1>10 DEF Reread
  <2> QED BY <1>2, <1>3, <1>10, <2>1, <2>2 DEF Reread
<1>11. CASE TurnSwitch /\ FollowFlag
  <2>1. by_hand' \in BOOLEAN BY <1>11 DEF TurnSwitch
  <2>2. turns' \in 0 .. MaxTurns BY <1>11 DEF TurnSwitch
  <2>3. /\ pc' = "write" /\ enable' \in BOOLEAN /\ turned_on' \in BOOLEAN
        /\ short_int_wait_policy_' \in BOOLEAN
    BY <1>11 DEF TurnSwitch, SetShortIntWait
  <2> QED BY <1>3, <1>11, <2>1, <2>2, <2>3 DEF TurnSwitch
<1>12. CASE (DriverInit \/ DriverResets) /\ FollowFlag
  BY <1>3, <1>12 DEF DriverInit, DriverResets
<1>13. CASE Tick
  <2>1. booting' \in BOOLEAN BY <1>13 DEF Tick
  <2>2. lag' \in 0 .. MaxLag /\ wrong' \in Nat BY <1>13 DEF Tick
  <2> QED BY <1>1, <1>13, <2>1, <2>2 DEF Tick
<1> QED
  BY <1>4, <1>5, <1>6, <1>7, <1>8, <1>9, <1>10, <1>11, <1>12, <1>13
  DEF Next, MainTask, Others

\* Every variable keeps its type: the deadline wraps with the clock.
THEOREM LevelTypeCorrect == Spec => []TypeOK
<1>1. Init => TypeOK
  <2>1. 0 \in 0 .. RANGE - 1 /\ 0 \in 0 .. MaxLag
    OBVIOUS
  <2>2. 0 \in 0 .. MaxTurns /\ 0 \in 0 .. MaxResets /\ 0 \in 0 .. MaxFails /\ 0 \in Nat
    OBVIOUS
  <2> QED BY <2>1, <2>2, Zenon DEF Init, TypeOK
<1>2. TypeOK /\ [Next]_vars => TypeOK'
  BY LevelTypeStep DEF TypeOK, vars, server, device, time, history, used
<1> QED BY <1>1, <1>2, PTL DEF Spec

-----------------------------------------------------------------------------
(***************************************************************************)
(* Off stays off.                                                          *)
(***************************************************************************)

\* The policy is what the switch was turned to, an access under way carries it,
\* and only a policy that is on keeps the flag up or rewrites the register.
OffInv ==
  /\ short_int_wait_policy_ = turned_on
  /\ pc \in {"write", "read"} => enable = turned_on
  /\ pc \in {"check", "rewrite", "reread"} => turned_on
  /\ pc = "idle" /\ ~turned_on => ~short_wait_effective_

LEMMA OffStep == TypeOK /\ OffInv /\ Next => OffInv'
<1> SUFFICES ASSUME TypeOK, OffInv, Next PROVE OffInv'
  OBVIOUS
<1> USE DEF OffInv, server, device, time, history, used
<1>1. CASE WriteLevel BY <1>1 DEF WriteLevel, NotEffective
<1>2. CASE ReadLevel
  <2>1. ~enable => ~short_wait_effective_' BY <1>2 DEF ReadLevel
  <2>2. pc = "read" /\ pc' = "idle" /\ UNCHANGED <<short_int_wait_policy_, enable, turned_on>>
    BY <1>2 DEF ReadLevel
  <2> QED BY <2>1, <2>2
<1>3. CASE LoopEnables BY <1>3 DEF LoopEnables, EnableDue, SetShortIntWait, TypeOK
<1>4. CASE LoopRechecks BY <1>4 DEF LoopRechecks, CheckDue
<1>5. CASE Check BY <1>5 DEF Check, NotEffective
<1>6. CASE Rewrite BY <1>6 DEF Rewrite, NotEffective
<1>7. CASE Reread BY <1>7 DEF Reread
<1>8. CASE TurnSwitch BY <1>8 DEF TurnSwitch, SetShortIntWait
<1>9. CASE DriverInit \/ DriverResets BY <1>9 DEF DriverInit, DriverResets
<1>10. CASE Tick BY <1>10 DEF Tick
<1> QED
  BY <1>1, <1>2, <1>3, <1>4, <1>5, <1>6, <1>7, <1>8, <1>9, <1>10
  DEF Next, MainTask, Others

\* No step writes the short wait for a switch that is off.
LEMMA OffWritesNothing ==
  ASSUME TypeOK, OffInv, Next, ~turned_on, pc # "write", chip' = SHORT
  PROVE  chip = SHORT
<1> USE DEF OffInv, server, device, time, history, used
<1>1. CASE WriteLevel BY <1>1 DEF WriteLevel
<1>2. CASE Rewrite BY <1>2 DEF Rewrite
<1>3. CASE DriverInit \/ DriverResets
  BY <1>3 DEF DriverInit, DriverResets, SHORT, DEFAULT
<1>4. CASE \/ ReadLevel \/ LoopEnables \/ LoopRechecks \/ Check \/ Reread
           \/ TurnSwitch \/ Tick
  BY <1>4 DEF ReadLevel, LoopEnables, LoopRechecks, Check, Reread, TurnSwitch, Tick
<1> QED BY <1>1, <1>2, <1>3, <1>4 DEF Next, MainTask, Others

\* A switch that was turned off stays off, whatever the driver and the upkeep do.
THEOREM OffIsOff == Spec => OffStaysOff
<1>1. Init => OffInv
  BY DEF Init, OffInv
<1>2. TypeOK /\ OffInv /\ [Next]_vars => OffInv'
  <2>1. OffInv /\ UNCHANGED vars => OffInv'
    BY DEF OffInv, vars, server, history
  <2> QED BY <2>1, OffStep
<1>3. TypeOK /\ OffInv /\ [Next]_vars =>
        [~turned_on /\ pc # "write" =>
           /\ chip' = SHORT => chip = SHORT
           /\ ~turned_on' /\ pc' = "idle" => ~short_wait_effective_']_vars
  <2> SUFFICES ASSUME TypeOK, OffInv, Next, ~turned_on, pc # "write"
               PROVE  /\ chip' = SHORT => chip = SHORT
                      /\ ~turned_on' /\ pc' = "idle" => ~short_wait_effective_'
    OBVIOUS
  <2>1. chip' = SHORT => chip = SHORT BY OffWritesNothing
  <2>2. OffInv' BY OffStep
  <2> QED BY <2>1, <2>2 DEF OffInv
<1> QED BY <1>1, <1>2, <1>3, LevelTypeCorrect, PTL DEF Spec, OffStaysOff

-----------------------------------------------------------------------------
(***************************************************************************)
(* The window after a boot.                                                *)
(***************************************************************************)

\* Without a chip no access succeeds; during the boot delay, without a hand on
\* the switch, none is under way once the chip is there.
BootInv ==
  /\ booting => millis < BOOT_DELAY
  /\ chip = "none" => ~short_wait_effective_ /\ pc \in {"idle", "write"}
  /\ booting /\ ~by_hand =>
       /\ chip # SHORT /\ ~short_wait_effective_
       /\ pc = "idle" \/ (pc = "write" /\ chip = "none")

LEMMA BootStep == TypeOK /\ BootInv /\ Next => BootInv'
<1> SUFFICES ASSUME TypeOK, BootInv, Next PROVE BootInv'
  OBVIOUS
<1> USE DEF BootInv, server, device, time, history, used, SHORT, DEFAULT
<1>1. CASE WriteLevel
  BY <1>1 DEF WriteLevel, NotEffective, Works, Fails, Target, TypeOK
<1>2. CASE ReadLevel BY <1>2 DEF ReadLevel, Works
<1>3. CASE LoopEnables
  BY <1>3 DEF LoopEnables, EnableDue, SetShortIntWait, TypeOK
<1>4. CASE LoopRechecks BY <1>4 DEF LoopRechecks, CheckDue
<1>5. CASE Check BY <1>5 DEF Check, NotEffective
<1>6. CASE Rewrite BY <1>6 DEF Rewrite, NotEffective
<1>7. CASE Reread BY <1>7 DEF Reread
<1>8. CASE TurnSwitch BY <1>8 DEF TurnSwitch, SetShortIntWait
<1>9. CASE DriverInit \/ DriverResets BY <1>9 DEF DriverInit, DriverResets
<1>10. CASE Tick
  <2>1. booting' => millis' < BOOT_DELAY
    <3>1. millis \in Nat /\ millis + 1 \in Nat BY DEF TypeOK
    <3>2. booting' => millis + 1 < BOOT_DELAY BY <1>10 DEF Tick
    <3>3. millis' = (millis + 1) % RANGE BY <1>10 DEF Tick
    <3> QED BY <3>1, <3>2, <3>3, ClockWraps
  <2>2. UNCHANGED <<chip, pc, short_wait_effective_, by_hand>> /\ (booting' => booting)
    BY <1>10 DEF Tick
  <2> QED BY <2>1, <2>2
<1> QED
  BY <1>1, <1>2, <1>3, <1>4, <1>5, <1>6, <1>7, <1>8, <1>9, <1>10
  DEF Next, MainTask, Others

\* Every boot leaves the driver's own value alone for the boot delay.
THEOREM BootsHaveWindow == Spec => []BootWindow
<1>1. Init => BootInv
  BY DEF Init, BootInv, SHORT
<1>2. TypeOK /\ BootInv /\ [Next]_vars => BootInv'
  <2>1. BootInv /\ UNCHANGED vars => BootInv'
    BY DEF BootInv, vars, server, device, time, history
  <2> QED BY <2>1, BootStep
<1>3. BootInv => BootWindow
  BY DEF BootInv, BootWindow
<1> QED BY <1>1, <1>2, <1>3, LevelTypeCorrect, PTL DEF Spec

-----------------------------------------------------------------------------
(***************************************************************************)
(* The recheck.  The deadline and millis() wrap; how long ago the deadline *)
(* was is exact as long as the loop is not later than MaxLag.              *)
(***************************************************************************)

\* What % does to two times and their difference.
LEMMA TimesWrap ==
  ASSUME NEW r \in Nat \ {0}, NEW d \in Int, -r <= d, d < 2 * r
  PROVE  d % r = IF d < 0 THEN d + r ELSE IF d < r THEN d ELSE d - r
  OBVIOUS

\* How long ago the deadline was, as the code's subtraction sees it.
Past == (millis - int_level_recheck_ms_) % RANGE

\* It goes up with the time, and a new deadline is ahead.
LEMMA PastGrows ==
  ASSUME TypeOK, int_level_recheck_ms_' = int_level_recheck_ms_, millis' = (millis + 1) % RANGE
  PROVE  /\ Past \in 0 .. RANGE - 1
         /\ Past' = IF Past + 1 < RANGE THEN Past + 1 ELSE 0
<1> DEFINE D == int_level_recheck_ms_
<1>1. RANGE \in Nat \ {0} /\ D \in 0 .. RANGE - 1 /\ millis \in 0 .. RANGE - 1 BY DEF TypeOK
<1>2. millis' = IF millis + 1 < RANGE THEN millis + 1 ELSE 0
  <2> DEFINE d == millis + 1
  <2>1. d \in Int /\ -RANGE <= d /\ d < 2 * RANGE /\ d >= 0 /\ d <= RANGE BY <1>1
  <2>2. d % RANGE = IF d < 0 THEN d + RANGE ELSE IF d < RANGE THEN d ELSE d - RANGE
    <3> HIDE DEF d
    <3> QED BY <1>1, <2>1, TimesWrap
  <2> QED BY <2>1, <2>2
<1>3. ASSUME NEW t \in 0 .. RANGE - 1
      PROVE  (t - D) % RANGE = IF t < D THEN t - D + RANGE ELSE t - D
  <2> DEFINE d == t - D
  <2>1. d \in Int /\ -RANGE <= d /\ d < RANGE /\ d < 2 * RANGE /\ (d < 0 <=> t < D) BY <1>1
  <2>2. d % RANGE = IF d < 0 THEN d + RANGE ELSE IF d < RANGE THEN d ELSE d - RANGE
    <3> HIDE DEF d
    <3> QED BY <1>1, <2>1, TimesWrap
  <2> QED BY <2>1, <2>2
<1>4. millis' \in 0 .. RANGE - 1 BY <1>1, <1>2
<1>5. Past = (millis - D) % RANGE /\ Past' = (millis' - D) % RANGE BY DEF Past
<1> HIDE DEF D
<1>6. Past = IF millis < D THEN millis - D + RANGE ELSE millis - D BY <1>1, <1>3, <1>5
<1>7. Past' = IF millis' < D THEN millis' - D + RANGE ELSE millis' - D BY <1>3, <1>4, <1>5
<1> QED BY <1>1, <1>2, <1>6, <1>7

\* A deadline that has just been set is RECHECK ahead.
LEMMA PastOfDeadline ==
  ASSUME NEW m \in 0 .. RANGE - 1
  PROVE  (m - ((m + RECHECK) % RANGE)) % RANGE = IF RECHECK = 0 THEN 0 ELSE RANGE - RECHECK
<1>1. RANGE \in Nat \ {0} /\ RECHECK \in Nat /\ RECHECK < RANGE OBVIOUS
<1> DEFINE d == m + RECHECK
           w == d % RANGE
           e == m - w
<1>2. d \in Int /\ -RANGE <= d /\ d < 2 * RANGE /\ d >= 0 BY <1>1
<1>3. w = IF d < 0 THEN d + RANGE ELSE IF d < RANGE THEN d ELSE d - RANGE
  <2> HIDE DEF d
  <2> QED BY <1>1, <1>2, TimesWrap
<1>4. w = IF m + RECHECK < RANGE THEN m + RECHECK ELSE m + RECHECK - RANGE
  <2> HIDE DEF w
  <2> QED BY <1>1, <1>2, <1>3
<1> HIDE DEF w
<1>5. e = IF m + RECHECK < RANGE THEN -RECHECK ELSE RANGE - RECHECK
  BY <1>1, <1>4
<1>6. e \in Int /\ -RANGE <= e /\ e < 2 * RANGE
  BY <1>1, <1>5
<1> HIDE DEF e
<1>7. e % RANGE = IF e < 0 THEN e + RANGE ELSE IF e < RANGE THEN e ELSE e - RANGE
  BY <1>1, <1>6, TimesWrap
<1>8. e % RANGE = IF RECHECK = 0 THEN 0 ELSE RANGE - RECHECK
  BY <1>1, <1>5, <1>7
<1> QED BY <1>8 DEF e, w

\* A flag that is wrong has been so since the last check at most, and the next one
\* comes when its deadline has passed, in time.
RecheckInv ==
  /\ wrong <= RECHECK + MaxLag
  /\ ~Wrong => wrong = 0
  /\ pc \in {"check", "rewrite", "reread"} => int_level_recheck_ms_ = Deadline
  /\ pc = "reread" => wrong = 0
  /\ pc = "idle" /\ short_wait_effective_ =>
       \/ Past <= lag /\ wrong <= RECHECK + Past
       \/ Past >= RANGE - RECHECK /\ wrong <= Past - (RANGE - RECHECK)


\* A step of the main task, of the switch or of the driver: no time passes.
LEMMA RecheckStep == TypeOK /\ TypeOK' /\ RecheckInv /\ (MainTask \/ Others) => RecheckInv'
<1> SUFFICES ASSUME TypeOK, TypeOK', RecheckInv, MainTask \/ Others PROVE RecheckInv'
  OBVIOUS
<1> USE DEF server, device, time, history
<1>1. wrong \in Nat /\ wrong <= RECHECK + MaxLag /\ wrong' = IF Wrong' THEN wrong ELSE 0
  BY DEF MainTask, Others, FollowFlag, TypeOK, RecheckInv
<1>2. wrong' <= RECHECK + MaxLag /\ (~Wrong' => wrong' = 0)
  BY <1>1
<1>3. UNCHANGED <<millis, lag>> \/ (millis' = millis /\ lag' = 0)
  BY DEF MainTask, Others, WriteLevel, ReadLevel, LoopEnables, LoopRechecks, Check, Rewrite,
         Reread, TurnSwitch, DriverInit, DriverResets
<1>4. Deadline' = Deadline BY <1>3 DEF Deadline
<1> DEFINE Soon == \/ Past <= lag /\ wrong <= RECHECK + Past
                   \/ Past >= RANGE - RECHECK /\ wrong <= Past - (RANGE - RECHECK)
<1>5. ASSUME int_level_recheck_ms_' = Deadline, wrong' = 0 PROVE Soon'
  <2>1. Past' = IF RECHECK = 0 THEN 0 ELSE RANGE - RECHECK
    BY <1>3, <1>5, PastOfDeadline DEF Past, Deadline, TypeOK
  <2>2. lag' \in Nat BY DEF TypeOK
  <2> QED BY <1>5, <2>1, <2>2
<1> SUFFICES /\ pc' \in {"check", "rewrite", "reread"} => int_level_recheck_ms_' = Deadline
             /\ pc' = "reread" => wrong' = 0
             /\ pc' = "idle" /\ short_wait_effective_' => Soon'
  BY <1>2, <1>4 DEF RecheckInv
<1> HIDE DEF Soon
<1>6. CASE WriteLevel
  BY <1>6 DEF WriteLevel, NotEffective
<1>7. CASE ReadLevel
  <2>1. short_wait_effective_' => chip' = SHORT BY <1>7 DEF ReadLevel, Target
  <2>2. wrong' = 0 BY <1>1, <2>1 DEF Wrong
  <2>3. short_wait_effective_' => int_level_recheck_ms_' = Deadline BY <1>7 DEF ReadLevel
  <2> QED BY <1>5, <1>7, <2>2, <2>3 DEF ReadLevel
<1>8. CASE LoopEnables \/ TurnSwitch
  BY <1>8 DEF LoopEnables, TurnSwitch, SetShortIntWait
<1>9. CASE LoopRechecks
  BY <1>9 DEF LoopRechecks
<1>10. CASE Check
  <2>1. int_level_recheck_ms_' = Deadline /\ pc' \in {"idle", "rewrite"}
    BY <1>10 DEF Check, NotEffective, RecheckInv
  <2>2. pc' = "idle" => ~Wrong' BY <1>10 DEF Check, NotEffective, StillShort, Wrong
  <2> QED BY <1>1, <1>5, <2>1, <2>2
<1>11. CASE Rewrite
  <2>1. int_level_recheck_ms_' = Deadline /\ pc' \in {"idle", "reread"}
    BY <1>11 DEF Rewrite, NotEffective, RecheckInv
  <2>2. ~Wrong' BY <1>11 DEF Rewrite, NotEffective, Wrong
  <2> QED BY <1>1, <1>5, <2>1, <2>2
<1>12. CASE Reread
  <2>1. int_level_recheck_ms_' = Deadline /\ pc' = "idle" /\ ~Wrong'
    BY <1>12 DEF Reread, RecheckInv, Wrong
  <2> QED BY <1>1, <1>5, <2>1
<1>13. CASE DriverInit \/ DriverResets
  <2>1. UNCHANGED <<pc, short_wait_effective_, int_level_recheck_ms_, millis, lag>>
    BY <1>13 DEF DriverInit, DriverResets
  <2>2. Past' = Past BY <2>1 DEF Past
  <2>3. wrong' = wrong \/ wrong' = 0 BY <1>1
  <2>4. wrong' <= wrong BY <1>1, <2>3
  <2>5. pc = "idle" /\ short_wait_effective_ => Soon BY DEF RecheckInv, Soon
  <2>6. Soon => Soon'
    <3>1. Past \in Int BY DEF Past, TypeOK
    <3>2. wrong' \in Nat BY DEF TypeOK
    <3> QED BY <1>1, <2>1, <2>2, <2>4, <3>1, <3>2 DEF Soon
  <2>7. pc = "reread" => wrong' = 0 BY <1>1, <2>3 DEF RecheckInv
  <2> QED BY <2>1, <2>5, <2>6, <2>7 DEF RecheckInv
<1> QED
  BY <1>6, <1>7, <1>8, <1>9, <1>10, <1>11, <1>12, <1>13 DEF MainTask, Others

\* A tick: the deadline comes nearer, or the loop is later.
LEMMA RecheckTick == TypeOK /\ TypeOK' /\ RecheckInv /\ Tick => RecheckInv'
<1> SUFFICES ASSUME TypeOK, TypeOK', RecheckInv, Tick PROVE RecheckInv'
  OBVIOUS
<1>1. /\ UNCHANGED <<pc, short_wait_effective_, int_level_recheck_ms_, chip>> /\ pc = "idle"
      /\ wrong' = IF Wrong THEN wrong + 1 ELSE 0
      /\ IF EnableDue \/ CheckDue THEN lag < MaxLag /\ lag' = lag + 1 ELSE lag' = 0
  BY DEF Tick, server, device
<1>2. Wrong' = Wrong BY <1>1 DEF Wrong
<1>3. /\ Past \in 0 .. RANGE - 1
      /\ Past' = IF Past + 1 < RANGE THEN Past + 1 ELSE 0
  BY <1>1, PastGrows DEF Tick
<1>4. wrong \in Nat /\ wrong' \in Nat /\ lag \in 0 .. MaxLag /\ lag' \in 0 .. MaxLag
  BY DEF TypeOK
<1>5. CASE ~short_wait_effective_
  <2>1. ~Wrong BY <1>5 DEF Wrong
  <2> QED BY <1>1, <1>2, <1>5, <2>1 DEF RecheckInv
<1>6. CASE short_wait_effective_
  <2>1. wrong' <= wrong + 1 BY <1>1, <1>4
  <2>2. CASE Past <= lag /\ wrong <= RECHECK + Past
    <3>1. Past < RANGE \div 2 BY <1>3, <1>4, <2>2
    <3>2. CheckDue BY <1>6, <3>1 DEF CheckDue, Passed, Past
    <3>3. Past + 1 <= lag' /\ lag' <= MaxLag /\ Past + 1 < RANGE
      BY <1>1, <1>3, <1>4, <2>2, <3>2
    <3>4. Past' <= lag' /\ wrong' <= RECHECK + Past' /\ wrong' <= RECHECK + MaxLag
      BY <1>3, <1>4, <2>1, <2>2, <3>3
    <3> QED BY <1>1, <1>2, <3>4 DEF RecheckInv
  <2>3. CASE Past >= RANGE - RECHECK /\ wrong <= Past - (RANGE - RECHECK)
    <3>1. CASE Past + 1 < RANGE
      <4>1. Past' >= RANGE - RECHECK /\ wrong' <= Past' - (RANGE - RECHECK)
            /\ wrong' <= RECHECK + MaxLag
        BY <1>3, <1>4, <2>1, <2>3, <3>1
      <4> QED BY <1>1, <1>2, <4>1 DEF RecheckInv
    <3>2. CASE Past + 1 >= RANGE
      <4>1. Past' <= lag' /\ wrong' <= RECHECK + Past' /\ wrong' <= RECHECK + MaxLag
        BY <1>3, <1>4, <2>1, <2>3, <3>2
      <4> QED BY <1>1, <1>2, <4>1 DEF RecheckInv
    <3> QED BY <1>3, <3>1, <3>2
  <2> QED BY <1>1, <1>6, <2>2, <2>3 DEF RecheckInv
<1> QED BY <1>5, <1>6

\* The flag that requests are judged by is wrong for a recheck interval and the
\* lag of the loop at most, for every length of the two and wherever millis() wraps.
THEOREM FlagIsRechecked == Spec => []FlagOutlivesLittle
<1>1. Init => RecheckInv
  BY DEF Init, RecheckInv, Wrong
<1>2. TypeOK /\ TypeOK' /\ RecheckInv /\ [Next]_vars => RecheckInv'
  <2>1. RecheckInv /\ UNCHANGED vars => RecheckInv'
    BY DEF RecheckInv, Wrong, Past, Deadline, vars, server, device, time, history
  <2> QED BY <2>1, RecheckStep, RecheckTick DEF Next
<1>3. RecheckInv => FlagOutlivesLittle
  BY DEF RecheckInv, FlagOutlivesLittle
<1> QED BY <1>1, <1>2, <1>3, LevelTypeCorrect, PTL DEF Spec

-----------------------------------------------------------------------------
(***************************************************************************)
(* ARP: types, and the entry a reply is sent by.                           *)
(***************************************************************************)

\* The assumption, constant by constant.
LEMMA ArpBounds ==
  /\ SLOTS \in Nat \ {0} /\ WAIT_MAX \in Nat \ {0} /\ REFRESH \in Nat \ {0}
  /\ Nobody \notin Client /\ Nobody \notin Host /\ Local \subseteq Client
  /\ \A c \in Client \cup {Nobody} : NextHop(c) \in Host \cup {Nobody}
<1>1. SLOTS \in Nat \ {0} /\ WAIT_MAX \in Nat \ {0} /\ REFRESH \in Nat \ {0}
  BY ArpAssumption, Zenon DEF ArpAssumption
<1> QED BY <1>1, ArpAssumption DEF ArpAssumption, Client, Host, NextHop

\* Types.
ArpTypeOK ==
  /\ has_gateway \in BOOLEAN
  /\ cache \in [Host -> {"none", "pending", "stable"}] /\ asked \subseteq Host
  /\ arp_clients \in [0 .. SLOTS - 1 -> Client \cup {Nobody}]
  /\ arp_client_next \in 0 .. SLOTS - 1
  /\ since_refresh \in 0 .. REFRESH /\ slot \in 0 .. SLOTS
  /\ rpc \in {"idle", "look", "query", "wait", "send"} /\ client \in Client \cup {Nobody}
  /\ rpc \in {"look", "query", "wait"} => Hop # Nobody
  /\ gone \in BOOLEAN /\ late \in BOOLEAN
  /\ cold \in [Host -> Nat]

\* The gateway of a build is fixed, and with it who sends by whom.
LEMMA GatewayFixed ==
  ArpNext => has_gateway' = has_gateway /\ \A c : NextHop(c)' = NextHop(c)
<1>1. ArpNext => has_gateway' = has_gateway
  BY DEF ArpNext, Lwip, ArpTick, Answer, GiveUp, Recycle, Expire, RefreshBegins, RefreshSlot,
         Task, Look, AskHop, SleepAndLook, SendTo, Request
<1> QED BY <1>1 DEF NextHop

\* What lwIP does with an entry keeps the types.
LEMMA EntryTypes ==
  ASSUME ArpTypeOK, NEW h \in Host
  PROVE  /\ Query(h) =>
              cache' \in [Host -> {"none", "pending", "stable"}] /\ asked' \subseteq Host
         /\ LoseEntry(h) =>
              cache' \in [Host -> {"none", "pending", "stable"}] /\ gone' \in BOOLEAN
  BY DEF ArpTypeOK, Query, LoseEntry

\* Every variable of ARP keeps its type: steps of lwIP and the network ...
LEMMA LwipTypes == ArpTypeOK /\ Lwip => ArpTypeOK'
<1> SUFFICES ASSUME ArpTypeOK, Lwip PROVE ArpTypeOK'
  OBVIOUS
<1> USE ArpBounds DEF table, task
<1>1. CASE ArpTick
  <2>1. cold' \in [Host -> Nat] BY <1>1 DEF ArpTick, ArpTypeOK
  <2>2. since_refresh' \in 0 .. REFRESH BY <1>1 DEF ArpTick, ArpTypeOK, RefreshDue
  <2> QED BY <1>1, <2>1, <2>2 DEF ArpTick, ArpTypeOK, Hop, NextHop
<1>2. ASSUME NEW h \in Host, Answer(h) PROVE ArpTypeOK'
  <2>1. cache' \in [Host -> {"none", "pending", "stable"}] /\ cold' \in [Host -> Nat]
    BY <1>2 DEF Answer, ArpTypeOK
  <2> QED BY <1>2, <2>1 DEF Answer, ArpTypeOK, Hop, NextHop
<1>3. ASSUME NEW h \in Host, GiveUp(h) PROVE ArpTypeOK'
  <2>1. cold' \in [Host -> Nat] /\ asked' \subseteq Host BY <1>3 DEF GiveUp, ArpTypeOK
  <2>2. cache' \in [Host -> {"none", "pending", "stable"}] /\ gone' \in BOOLEAN
    BY <1>3, EntryTypes DEF GiveUp, ArpTypeOK
  <2> QED BY <1>3, <2>1, <2>2 DEF GiveUp, ArpTypeOK, Hop, NextHop
<1>4. ASSUME NEW h \in Host, Recycle(h) \/ Expire(h) PROVE ArpTypeOK'
  <2>1. cache' \in [Host -> {"none", "pending", "stable"}] /\ gone' \in BOOLEAN
    BY <1>4, EntryTypes DEF Recycle, Expire
  <2> QED BY <1>4, <2>1 DEF Recycle, Expire, ArpTypeOK, Hop, NextHop
<1> QED BY <1>1, <1>2, <1>3, <1>4 DEF Lwip

\* ... and those of the main loop and recv_task_().
LEMMA OthersTypes ==
  ArpTypeOK /\ (RefreshBegins \/ RefreshSlot \/ Task \/ \E c \in Client : Request(c))
    => ArpTypeOK'
<1> SUFFICES ASSUME ArpTypeOK,
                    RefreshBegins \/ RefreshSlot \/ Task \/ \E c \in Client : Request(c)
             PROVE  ArpTypeOK'
  OBVIOUS
<1> USE ArpBounds DEF table, task
<1>1. CASE RefreshBegins
  BY <1>1 DEF RefreshBegins, ArpTypeOK, Hop, NextHop
<1>2. CASE RefreshSlot
  <2>1. slot \in 0 .. SLOTS - 1 /\ slot' \in 0 .. SLOTS BY <1>2 DEF RefreshSlot, ArpTypeOK
  <2>2. cache' \in [Host -> {"none", "pending", "stable"}] /\ asked' \subseteq Host
    <3>1. CASE UNCHANGED <<cache, asked>> BY <3>1 DEF ArpTypeOK
    <3>2. CASE ~UNCHANGED <<cache, asked>>
      <4>1. PICK h \in Host : Query(h)
        <5>1. arp_clients[slot] \in Client \cup {Nobody} BY <2>1 DEF ArpTypeOK
        <5> QED BY <1>2, <3>2, <5>1 DEF RefreshSlot
      <4> QED BY <4>1, EntryTypes
    <3> QED BY <3>1, <3>2
  <2> QED BY <1>2, <2>1, <2>2 DEF RefreshSlot, ArpTypeOK, Hop, NextHop
<1>3. CASE Look
  BY <1>3 DEF Look, ArpTypeOK, Hop, NextHop
<1>4. CASE AskHop
  <2>1. Hop \in Host BY <1>4 DEF AskHop, ArpTypeOK, Hop
  <2>2. cache' \in [Host -> {"none", "pending", "stable"}] /\ asked' \subseteq Host
    BY <1>4, <2>1, EntryTypes DEF AskHop
  <2> QED BY <1>4, <2>2 DEF AskHop, ArpTypeOK, Hop, NextHop
<1>5. CASE SleepAndLook
  <2>1. rpc' \in {"send", "idle", "wait"} /\ rpc = "wait"
    BY <1>5 DEF SleepAndLook, Refused
  <2> QED BY <1>5, <2>1 DEF SleepAndLook, ArpTypeOK, Hop, NextHop
<1>6. CASE SendTo
  <2>1. cache' \in [Host -> {"none", "pending", "stable"}] /\ asked' \subseteq Host
        /\ late' \in BOOLEAN
    <3>1. CASE Hop = Nobody \/ Resolved(Hop) BY <1>6, <3>1 DEF SendTo, ArpTypeOK
    <3>2. CASE ~(Hop = Nobody \/ Resolved(Hop))
      <4>1. Hop \in Host /\ Query(Hop) BY <1>6, <3>2 DEF SendTo, ArpTypeOK, Hop
      <4>2. late' \in BOOLEAN BY <1>6, <3>2 DEF SendTo, ArpTypeOK
      <4> QED BY <4>1, <4>2, EntryTypes
    <3> QED BY <3>1, <3>2
  <2> QED BY <1>6, <2>1 DEF SendTo, ArpTypeOK, Hop, NextHop
<1>7. ASSUME NEW c \in Client, Request(c) PROVE ArpTypeOK'
  <2>1. /\ arp_clients' \in [0 .. SLOTS - 1 -> Client \cup {Nobody}]
        /\ arp_client_next' \in 0 .. SLOTS - 1
    <3>1. CASE \E i \in 0 .. SLOTS - 1 : arp_clients[i] = c
      BY <1>7, <3>1 DEF Request, NoteArpClient, ArpTypeOK
    <3>2. CASE ~\E i \in 0 .. SLOTS - 1 : arp_clients[i] = c
      <4>1. /\ arp_clients' = [arp_clients EXCEPT ![arp_client_next] = c]
            /\ arp_client_next' = (arp_client_next + 1) % SLOTS
        BY <1>7, <3>2 DEF Request, NoteArpClient
      <4>2. arp_client_next + 1 \in Nat BY DEF ArpTypeOK
      <4>3. (arp_client_next + 1) % SLOTS \in 0 .. SLOTS - 1 BY <4>2
      <4> QED BY <4>1, <4>3 DEF ArpTypeOK
    <3> QED BY <3>1, <3>2
  <2>2. cold' \in [Host -> Nat] BY <1>7 DEF Request, ArpTypeOK
  <2>3. Hop' = NextHop(c) BY <1>7 DEF Request, Hop, NextHop
  <2> QED BY <1>7, <2>1, <2>2, <2>3 DEF Request, ArpTypeOK
<1> QED BY <1>1, <1>2, <1>3, <1>4, <1>5, <1>6, <1>7 DEF Task

\* The types of ARP.
LEMMA ArpTypes == ArpSpec => []ArpTypeOK
<1>1. ArpInit => ArpTypeOK
  <2> SUFFICES ASSUME ArpInit PROVE ArpTypeOK
    OBVIOUS
  <2>1. 0 \in 0 .. SLOTS - 1 /\ SLOTS \in 0 .. SLOTS /\ REFRESH \in 0 .. REFRESH
    BY ArpBounds
  <2> QED BY <2>1 DEF ArpInit, ArpTypeOK
<1>2. ArpTypeOK /\ UNCHANGED arpVars => ArpTypeOK'
  BY DEF ArpTypeOK, arpVars, table, task, Hop, NextHop
<1>3. ArpTypeOK /\ [ArpNext]_arpVars => ArpTypeOK'
  BY <1>2, LwipTypes, OthersTypes DEF ArpNext
<1> QED BY <1>1, <1>3, PTL DEF ArpSpec

\* What a reply is sent by is resolved, or was lost since it was found.
AtOnceInv ==
  /\ rpc = "send" /\ Hop # Nobody /\ ~gone => Resolved(Hop)
  /\ ~late

\* Only the loss of an entry makes it unresolved, and that is noted.
LEMMA AtOnceStep == ArpTypeOK /\ AtOnceInv /\ [ArpNext]_arpVars => AtOnceInv'
<1> SUFFICES ASSUME ArpTypeOK, AtOnceInv, [ArpNext]_arpVars PROVE AtOnceInv'
  OBVIOUS
<1> USE DEF AtOnceInv, Resolved, table, task
<1>1. UNCHANGED client => Hop' = Hop
  BY GatewayFixed DEF arpVars, Hop, NextHop, task
<1>2. rpc \in {"send", "look", "query", "wait"} /\ Hop # Nobody => Hop \in Host
  BY ArpBounds DEF ArpTypeOK, Hop
<1>3. CASE ArpTick BY <1>1, <1>3 DEF ArpTick
<1>4. ASSUME NEW h \in Host, Answer(h) PROVE AtOnceInv'
  BY <1>1, <1>2, <1>4 DEF Answer, ArpTypeOK
<1>5. ASSUME NEW h \in Host, GiveUp(h) \/ Recycle(h) \/ Expire(h) PROVE AtOnceInv'
  <2>1. UNCHANGED <<rpc, client, late>> BY <1>5 DEF GiveUp, Recycle, Expire
  <2>2. \/ UNCHANGED <<cache, gone>>
        \/ LoseEntry(h)
    BY <1>5 DEF GiveUp, Recycle, Expire
  <2> QED BY <1>1, <1>2, <2>1, <2>2 DEF LoseEntry, ArpTypeOK
<1>6. CASE RefreshBegins BY <1>1, <1>6 DEF RefreshBegins
<1>7. CASE RefreshSlot
  <2>1. \/ UNCHANGED cache
        \/ \E h : cache' = [cache EXCEPT ![h] = IF @ = "none" THEN "pending" ELSE @]
    BY <1>7 DEF RefreshSlot, Query
  <2>2. \A k \in Host : Resolved(k) => Resolved(k)'
    BY <2>1 DEF ArpTypeOK
  <2> QED BY <1>1, <1>2, <1>7, <2>2 DEF RefreshSlot
<1>8. CASE Look BY <1>1, <1>8 DEF Look
<1>9. CASE AskHop BY <1>1, <1>9 DEF AskHop
<1>10. CASE SleepAndLook BY <1>1, <1>10 DEF SleepAndLook, Refused
<1>11. CASE SendTo BY <1>11 DEF SendTo
<1>12. ASSUME NEW c \in Client, Request(c) PROVE AtOnceInv'
  <2>1. Hop' = NextHop(c) BY <1>12 DEF Request, Hop, NextHop
  <2> QED BY <1>12, <2>1 DEF Request
<1>13. CASE UNCHANGED arpVars BY <1>1, <1>13 DEF arpVars
<1> QED
  BY <1>3, <1>4, <1>5, <1>6, <1>7, <1>8, <1>9, <1>10, <1>11, <1>12, <1>13
  DEF ArpNext, Lwip, Task

\* A reply never waits behind an ARP exchange, for any clients and any network.
THEOREM RepliesLeaveAtOnce == ArpSpec => []LeavesAtOnce
<1>1. ArpInit => AtOnceInv
  BY DEF ArpInit, AtOnceInv
<1>2. AtOnceInv => LeavesAtOnce
  BY DEF AtOnceInv, LeavesAtOnce
<1> QED BY <1>1, <1>2, AtOnceStep, ArpTypes, PTL DEF ArpSpec

-----------------------------------------------------------------------------
(***************************************************************************)
(* Recent clients.  A refresh goes through the slots while recv_task_()    *)
(* overwrites them: a next hop that only slots behind the refresh are left *)
(* to name has been asked for by the request that wrote them.              *)
(***************************************************************************)

\* The next hop of slot i.
HopOf(i) == IF arp_clients[i] = Nobody THEN Nobody ELSE NextHop(arp_clients[i])
\* recv_task_() is about to look for h.
Asking(h) == rpc \in {"look", "query"} /\ Hop = h
\* h has been resolved since the last refresh, or is being asked for.
Fresh(h) == h \in asked \/ cold[h] <= since_refresh
\* The refresh will, and it did, come by a slot of h.
ToCome(h) == \E i \in slot .. SLOTS - 1 : HopOf(i) = h
Visited(h) == \E i \in 0 .. slot - 1 : HopOf(i) = h

\* What the refresh has come by is fresh, or about to be asked for twice.
ColdInv ==
  /\ slot < SLOTS => since_refresh = 0
  /\ \A h \in Host :
       /\ cold[h] <= REFRESH
       /\ Resolved(h) \/ ~Tracked(arp_clients, h) => cold[h] = 0
       /\ Visited(h) => Fresh(h) \/ (Asking(h) /\ ToCome(h))

\* A tracked host is behind the refresh or ahead of it.
LEMMA TrackedHops ==
  ASSUME ArpTypeOK, NEW h \in Host
  PROVE  /\ Tracked(arp_clients, h) <=> \E i \in 0 .. SLOTS - 1 : HopOf(i) = h
         /\ Tracked(arp_clients, h) => Visited(h) \/ ToCome(h)
         /\ slot = SLOTS => ~ToCome(h)
<1>1. Tracked(arp_clients, h) <=> \E i \in 0 .. SLOTS - 1 : HopOf(i) = h
  BY ArpBounds DEF ArpTypeOK, Tracked, HopOf
<1>2. slot \in 0 .. SLOTS /\ SLOTS \in Nat
  BY ArpBounds DEF ArpTypeOK
<1>3. \A i \in 0 .. SLOTS - 1 : i \in 0 .. slot - 1 \/ i \in slot .. SLOTS - 1
  BY <1>2
<1> QED BY <1>1, <1>2, <1>3 DEF Visited, ToCome

\* A step that changes neither table nor refresh and cools nobody down.
LEMMA ColdSame ==
  ASSUME ArpTypeOK, ColdInv, has_gateway' = has_gateway,
         UNCHANGED <<arp_clients, slot, since_refresh>>,
         \A h \in Host : /\ cold'[h] = cold[h] \/ cold'[h] = 0
                         /\ Resolved(h)' => Resolved(h) \/ cold'[h] = 0
                         /\ h \in asked => h \in asked' \/ cold'[h] = 0
                         /\ Asking(h) => Asking(h)' \/ h \in asked' \/ cold'[h] = 0
  PROVE  ColdInv'
<1>1. \A i : HopOf(i)' = HopOf(i)
  BY DEF HopOf, NextHop
<1>2. \A h : Visited(h)' = Visited(h) /\ ToCome(h)' = ToCome(h)
             /\ Tracked(arp_clients, h)' = Tracked(arp_clients, h)
  BY <1>1 DEF Visited, ToCome, Tracked, NextHop
<1>3. since_refresh \in Nat /\ REFRESH \in Nat /\ \A h \in Host : cold[h] \in Nat
  BY ArpBounds DEF ArpTypeOK
<1>4. ASSUME NEW h \in Host
      PROVE  /\ cold'[h] <= REFRESH
             /\ Resolved(h)' \/ ~Tracked(arp_clients, h)' => cold'[h] = 0
             /\ Visited(h)' => Fresh(h)' \/ (Asking(h)' /\ ToCome(h)')
  <2>1. cold'[h] <= REFRESH BY <1>3 DEF ColdInv
  <2>2. Resolved(h)' \/ ~Tracked(arp_clients, h)' => cold'[h] = 0
    BY <1>2 DEF ColdInv
  <2>3. cold'[h] = 0 => Fresh(h)' BY <1>3 DEF Fresh
  <2>4. Fresh(h) => Fresh(h)' BY <2>3 DEF Fresh
  <2>5. h \in asked' => Fresh(h)' BY DEF Fresh
  <2> QED BY <1>2, <2>1, <2>2, <2>3, <2>4, <2>5 DEF ColdInv
<1> QED BY <1>4 DEF ColdInv

\* A tick, between two refreshes: everybody tracked is fresh.
LEMMA ColdTick == ArpTypeOK /\ ColdInv /\ ArpTick => ColdInv'
<1> SUFFICES ASSUME ArpTypeOK, ColdInv, ArpTick PROVE ColdInv'
  OBVIOUS
<1>1. \A h \in Host : Visited(h)' = Visited(h)
             /\ Tracked(arp_clients, h)' = Tracked(arp_clients, h)
             /\ Resolved(h)' = Resolved(h)
  BY DEF ArpTick, Visited, Tracked, HopOf, NextHop, Resolved
<1>2. /\ since_refresh \in Nat /\ since_refresh' = since_refresh + 1 /\ since_refresh < REFRESH
      /\ slot = SLOTS /\ slot' = slot /\ asked = {}
      /\ REFRESH \in Nat /\ SLOTS \in Nat
  BY ArpBounds DEF ArpTypeOK, ArpTick, RefreshDue
<1>3. ASSUME NEW h \in Host
      PROVE  /\ cold'[h] <= REFRESH
             /\ Resolved(h)' \/ ~Tracked(arp_clients, h)' => cold'[h] = 0
             /\ Visited(h)' => Fresh(h)'
  <2>1. cold'[h] = IF Resolved(h) \/ ~Tracked(arp_clients, h) THEN 0
                   ELSE IF cold[h] <= REFRESH THEN cold[h] + 1 ELSE cold[h]
    BY DEF ArpTick
  <2>2. Tracked(arp_clients, h) => Visited(h)
    BY <1>2, TrackedHops
  <2>3. Tracked(arp_clients, h) => cold[h] <= since_refresh
    BY <1>2, <2>2, TrackedHops DEF ColdInv, Fresh
  <2>4. cold[h] \in Nat /\ cold[h] <= REFRESH BY DEF ArpTypeOK, ColdInv
  <2>5. cold'[h] <= since_refresh'
    BY <1>2, <2>1, <2>3, <2>4
  <2> QED BY <1>1, <1>2, <2>1, <2>5, <2>4 DEF Fresh
<1> QED BY <1>2, <1>3 DEF ColdInv

\* lwIP and the network: an answer, or none, ends what a host was asked.
LEMMA ColdLwip ==
  ASSUME ArpTypeOK, ColdInv, NEW h \in Host, Answer(h) \/ GiveUp(h) \/ Recycle(h) \/ Expire(h)
  PROVE  ColdInv'
<1>1. UNCHANGED <<has_gateway, arp_clients, slot, since_refresh, rpc, client>>
  BY DEF Answer, GiveUp, Recycle, Expire, table, task
<1>2. \A k : Asking(k)' = Asking(k) BY <1>1 DEF Asking, Hop, NextHop
<1>3. ASSUME NEW k \in Host
      PROVE  /\ cold'[k] = cold[k] \/ cold'[k] = 0
             /\ Resolved(k)' => Resolved(k) \/ cold'[k] = 0
             /\ k \in asked => k \in asked' \/ cold'[k] = 0
  BY <1>3 DEF Answer, GiveUp, Recycle, Expire, LoseEntry, ArpTypeOK, Resolved
<1> QED BY <1>1, <1>2, <1>3, ColdSame

\* The task that looks for its next hop finds it, or asks for it.
LEMMA ColdTask == ArpTypeOK /\ ColdInv /\ Task => ColdInv'
<1> SUFFICES ASSUME ArpTypeOK, ColdInv, Task PROVE ColdInv'
  OBVIOUS
<1>1. UNCHANGED <<has_gateway, arp_clients, slot, since_refresh, cold>>
  BY DEF Task, Look, AskHop, SleepAndLook, SendTo, table
<1>2. ASSUME NEW k \in Host
      PROVE  /\ Resolved(k)' => Resolved(k)
             /\ k \in asked => k \in asked'
             /\ Asking(k) => Asking(k)' \/ k \in asked' \/ cold'[k] = 0
  <2>1. CASE Look
    <3>1. UNCHANGED <<cache, asked, client>>
          /\ rpc' = IF Resolved(Hop) THEN "send" ELSE "query"
      BY <2>1 DEF Look
    <3>2. Hop' = Hop BY <1>1, <3>1 DEF Hop, NextHop
    <3>3. Resolved(k) => cold'[k] = 0 BY <1>1 DEF ColdInv
    <3> QED BY <3>1, <3>2, <3>3 DEF Asking, Resolved
  <2>2. CASE AskHop
    <3>1. Query(Hop) BY <2>2 DEF AskHop
    <3> QED BY <3>1 DEF Query, Asking, Resolved, ArpTypeOK
  <2>3. CASE SleepAndLook
    <3>1. UNCHANGED <<cache, asked>> /\ rpc = "wait" BY <2>3 DEF SleepAndLook
    <3> QED BY <3>1 DEF Asking, Resolved
  <2>4. CASE SendTo
    <3>1. rpc = "send" /\ (UNCHANGED <<cache, asked>> \/ Query(Hop)) BY <2>4 DEF SendTo
    <3> QED BY <3>1 DEF Query, Asking, Resolved, ArpTypeOK
  <2> QED BY <2>1, <2>2, <2>3, <2>4 DEF Task
<1> QED BY <1>1, <1>2, ColdSame

\* A refresh that begins has come by nobody yet.
LEMMA ColdBegins == ArpTypeOK /\ ColdInv /\ RefreshBegins => ColdInv'
<1> SUFFICES ASSUME ArpTypeOK, ColdInv, RefreshBegins PROVE ColdInv'
  OBVIOUS
<1>1. since_refresh' = 0 /\ slot' = 0 /\ UNCHANGED <<arp_clients, has_gateway, cache, cold>>
  BY DEF RefreshBegins
<1>2. \A h : ~Visited(h)' BY <1>1 DEF Visited
<1>3. \A h : Tracked(arp_clients, h)' = Tracked(arp_clients, h) /\ Resolved(h)' = Resolved(h)
  BY <1>1 DEF Tracked, NextHop, Resolved
<1> QED BY <1>1, <1>2, <1>3 DEF ColdInv

\* The slot it comes by is fresh, or asked for.
LEMMA ColdSlot == ArpTypeOK /\ ColdInv /\ RefreshSlot => ColdInv'
<1> SUFFICES ASSUME ArpTypeOK, ColdInv, RefreshSlot PROVE ColdInv'
  OBVIOUS
<1>1. /\ slot \in Nat /\ slot < SLOTS /\ slot' = slot + 1 /\ SLOTS \in Nat
      /\ UNCHANGED <<has_gateway, arp_clients, since_refresh, rpc, client, cold>>
  BY ArpBounds DEF RefreshSlot, ArpTypeOK, task
<1>2. \A i : HopOf(i)' = HopOf(i)
  BY <1>1 DEF HopOf, NextHop
<1>3. \A h : Tracked(arp_clients, h)' = Tracked(arp_clients, h) /\ Asking(h)' = Asking(h)
  BY <1>1 DEF Tracked, NextHop, Asking, Hop
<1>4. IF HopOf(slot) # Nobody /\ ~Resolved(HopOf(slot)) THEN Query(HopOf(slot))
      ELSE UNCHANGED <<cache, asked>>
  BY DEF RefreshSlot, HopOf
<1>5. since_refresh = 0 BY <1>1 DEF ColdInv
<1>6. ASSUME NEW h \in Host
      PROVE  /\ Resolved(h)' => Resolved(h)
             /\ Fresh(h) => Fresh(h)'
             /\ HopOf(slot) = h => Fresh(h)'
  <2>1. h # Nobody BY ArpBounds
  <2>2. CASE HopOf(slot) = Nobody \/ Resolved(HopOf(slot))
    <3>1. UNCHANGED <<cache, asked>> BY <1>4, <2>2
    <3>2. HopOf(slot) = h => cold[h] = 0 BY <2>1, <2>2 DEF ColdInv
    <3> QED BY <1>1, <1>5, <3>1, <3>2 DEF Fresh, Resolved
  <2>3. CASE Query(HopOf(slot))
    BY <1>1, <2>3 DEF Fresh, Query, Resolved, ArpTypeOK
  <2> QED BY <1>4, <2>2, <2>3
<1>7. ASSUME NEW h \in Host
      PROVE  /\ Visited(h)' => Visited(h) \/ HopOf(slot) = h
             /\ ToCome(h) => ToCome(h)' \/ HopOf(slot) = h
  <2>1. \A i \in 0 .. slot' - 1 : i \in 0 .. slot - 1 \/ i = slot BY <1>1
  <2>2. \A i \in slot .. SLOTS - 1 : i = slot \/ i \in slot' .. SLOTS - 1 BY <1>1
  <2> QED BY <1>2, <2>1, <2>2 DEF Visited, ToCome
<1> QED BY <1>1, <1>3, <1>5, <1>6, <1>7 DEF ColdInv

\* A request that overwrites a slot asks for its own next hop before the next one
\* overwrites another.
LEMMA ColdRequest == ASSUME ArpTypeOK, ColdInv, NEW c \in Client, Request(c) PROVE ColdInv'
<1>1. /\ UNCHANGED <<has_gateway, cache, asked, since_refresh, slot>>
      /\ rpc = "idle" /\ client' = c
      /\ rpc' = IF NextHop(c) = Nobody THEN "send" ELSE "look"
  BY DEF Request
<1>2. Hop' = NextHop(c) /\ \A d : NextHop(d)' = NextHop(d)
  BY <1>1 DEF Hop, NextHop
<1>3. \A h \in Host : cold'[h] = IF Tracked(arp_clients', h) THEN cold[h] ELSE 0
  BY DEF Request
<1>4. \A h : Tracked(arp_clients, h)' <=> Tracked(arp_clients', h)
  BY <1>2 DEF Tracked
<1>5. /\ since_refresh \in Nat /\ slot \in 0 .. SLOTS /\ SLOTS \in Nat /\ REFRESH \in Nat
      /\ \A h \in Host : cold[h] \in Nat
  BY ArpBounds DEF ArpTypeOK
<1>6. \A h \in Host : Fresh(h) => Fresh(h)'
  BY <1>1, <1>3, <1>5 DEF Fresh
<1>7. \A h \in Host : Visited(h) => Fresh(h)
  BY <1>1 DEF ColdInv, Asking
<1>8. \A i \in 0 .. SLOTS - 1 : HopOf(i)' = HopOf(i) \/ HopOf(i)' = NextHop(c)
  <2>1. \A i \in 0 .. SLOTS - 1 : arp_clients'[i] = arp_clients[i] \/ arp_clients'[i] = c
    BY DEF Request, NoteArpClient, ArpTypeOK
  <2> QED BY <1>2, <2>1, ArpBounds DEF HopOf
<1>9. ASSUME NEW h \in Host, Visited(h)' PROVE Fresh(h)' \/ (Asking(h)' /\ ToCome(h)')
  <2>1. CASE Visited(h) BY <1>6, <1>7, <2>1
  <2>2. CASE ~Visited(h)
    <3>1. NextHop(c) = h
      <4>1. PICK i \in 0 .. slot - 1 : HopOf(i)' = h BY <1>1, <1>9 DEF Visited
      <4>2. i \in 0 .. SLOTS - 1 BY <1>5, <4>1
      <4> QED BY <1>8, <2>2, <4>1, <4>2 DEF Visited
    <3>2. Asking(h)' BY <1>1, <1>2, <3>1, ArpBounds DEF Asking
    <3>3. CASE ToCome(h)
      <4>1. PICK k \in slot .. SLOTS - 1 : HopOf(k) = h BY <3>3 DEF ToCome
      <4>2. k \in 0 .. SLOTS - 1 BY <1>5, <4>1
      <4>3. HopOf(k)' = h BY <1>8, <3>1, <4>1, <4>2
      <4>4. ToCome(h)' BY <1>1, <4>1, <4>3 DEF ToCome
      <4> QED BY <3>2, <4>4
    <3>4. CASE ~ToCome(h)
      <4>1. ~Tracked(arp_clients, h) BY <2>2, <3>4, TrackedHops
      <4>2. cold[h] = 0 BY <4>1 DEF ColdInv
      <4> QED BY <1>5, <1>6, <4>2 DEF Fresh
    <3> QED BY <3>3, <3>4
  <2> QED BY <2>1, <2>2
<1>10. ASSUME NEW h \in Host
       PROVE  /\ cold'[h] <= REFRESH
              /\ (Resolved(h)' \/ ~Tracked(arp_clients, h)' => cold'[h] = 0)
  BY <1>1, <1>3, <1>4, <1>5 DEF ColdInv, Resolved
<1> QED BY <1>1, <1>9, <1>10 DEF ColdInv

\* A recent client whose next hop answers is not unresolved for longer than one
\* refresh interval, for any number of clients, slots and gateways, and however
\* requests and refreshes interleave.
THEOREM ClientsNotColdForLong == ArpSpec => []ColdNotLong
<1>1. ArpInit => ColdInv
  <2> SUFFICES ASSUME ArpInit PROVE ColdInv
    OBVIOUS
  <2>1. REFRESH \in Nat /\ slot = SLOTS /\ SLOTS \in Nat BY ArpBounds DEF ArpInit
  <2>2. \A h \in Host : cold[h] = 0 /\ Fresh(h) BY <2>1 DEF ArpInit, Fresh
  <2> QED BY <2>1, <2>2 DEF ColdInv
<1>2. ArpTypeOK /\ ColdInv /\ [ArpNext]_arpVars => ColdInv'
  <2>1. ArpTypeOK /\ ColdInv /\ UNCHANGED arpVars => ColdInv'
    <3> SUFFICES ASSUME ArpTypeOK, ColdInv, UNCHANGED arpVars PROVE ColdInv'
      OBVIOUS
    <3>1. UNCHANGED <<has_gateway, arp_clients, slot, since_refresh, cold, cache, asked, rpc,
                     client>>
      BY DEF arpVars, table, task
    <3>2. \A h : Asking(h)' = Asking(h) /\ Resolved(h)' = Resolved(h)
      BY <3>1 DEF Asking, Hop, NextHop, Resolved
    <3> QED BY <3>1, <3>2, ColdSame
  <2> QED BY <2>1, ColdTick, ColdLwip, ColdTask, ColdBegins, ColdSlot, ColdRequest
     DEF ArpNext, Lwip
<1>3. ColdInv => ColdNotLong
  BY DEF ColdInv, ColdNotLong
<1> QED BY <1>1, <1>2, <1>3, ArpTypes, PTL DEF ArpSpec
=============================================================================
