-------------------------------- MODULE IntLevel --------------------------------
(***************************************************************************)
(* The W5500's interrupt wait, INTLEVEL: components/ntp_server, the switch *)
(* "W5500 Short Interrupt Wait" and its upkeep in NTPServer::loop().       *)
(*                                                                         *)
(* All of it runs in the main task, but each access to the register waits  *)
(* for the SPI lock, and the Ethernet driver may re-initialise the chip    *)
(* between any two of them.  short_wait_effective_ is what recv_task_()    *)
(* judges requests by: RxStamp's switch of that name.                      *)
(*                                                                         *)
(* millis() wraps; time is counted in ticks of a clock that does, too.     *)
(***************************************************************************)
EXTENDS Integers

CONSTANTS
  RANGE,        \* millis() is an uint32_t: 2^32 milliseconds in the code
  BOOT_DELAY,   \* SHORT_INT_WAIT_BOOT_DELAY_MS
  RECHECK,      \* INT_LEVEL_RECHECK_MS
  MaxLag,       \* the main loop may be this late
  MaxTurns,     \* bound on turns of the switch
  MaxResets,    \* bound on re-initialisations of the chip
  MaxFails      \* bound on SPI accesses that fail

ASSUME LevelAssumption ==
  /\ RANGE \in Nat /\ BOOT_DELAY \in Nat \ {0} /\ RECHECK \in Nat /\ MaxLag \in Nat
  /\ BOOT_DELAY < RANGE
  /\ RECHECK + MaxLag < RANGE \div 2
  /\ MaxTurns \in Nat /\ MaxResets \in Nat /\ MaxFails \in Nat

SHORT   == "0x0FFF"     \* W5500_INT_LEVEL_SHORT
DEFAULT == "0xFFFF"     \* W5500_INT_LEVEL_DEFAULT, and what the driver writes

VARIABLES
  pc,                     \* where the main task is in an access to the register
  millis,
  short_int_wait_policy_,
  short_wait_effective_,
  int_level_recheck_ms_,
  enable,                 \* argument of set_short_int_wait()
  driver_int_level,       \* g_driver_int_level: "none" before the driver wrote it
  chip,                   \* the register
  lag,                    \* ticks the loop is late
  turned_on,              \* history: what the switch was last turned to
  by_hand,                \* history: it was turned after the chip was there
  booting,                \* history: BOOT_DELAY has not passed yet
  wrong,                  \* history: ticks for which the flag has not been true
  turns, resets, fails    \* used up of the bounds

server  == <<short_int_wait_policy_, short_wait_effective_, int_level_recheck_ms_, enable>>
device  == <<driver_int_level, chip>>
time    == <<millis, lag, booting>>
history == <<turned_on, by_hand>>
used    == <<turns, resets, fails>>
vars    == <<pc, server, device, time, wrong, history, used>>

Init ==
  /\ pc = "idle" /\ millis = 0 /\ lag = 0
  /\ short_int_wait_policy_ = TRUE /\ short_wait_effective_ = FALSE
  /\ int_level_recheck_ms_ = 0 /\ enable = TRUE
  /\ driver_int_level = "none" /\ chip = "none"
  /\ turned_on = TRUE /\ by_hand = FALSE /\ booting = TRUE /\ wrong = 0
  /\ turns = 0 /\ resets = 0 /\ fails = 0

\* Mutated form: the deadline does not wrap.
Deadline_Wide == millis + RECHECK
Deadline == (millis + RECHECK) % RANGE

\* static_cast<int32_t>(millis() - t) >= 0
Passed(t) == (millis - t) % RANGE < RANGE \div 2

\* An access to the register works, or fails: always, if the driver has not set
\* up the bus yet.
Works == chip # "none" /\ UNCHANGED used
Fails ==
  /\ chip = "none" \/ fails < MaxFails
  /\ fails' = IF chip = "none" THEN fails ELSE fails + 1
  /\ UNCHANGED <<turns, resets>>

-----------------------------------------------------------------------------
(***************************************************************************)
(* set_short_int_wait()                                                    *)
(***************************************************************************)

\* Mutated form: the policy is not noted.
SetShortIntWait_NoPolicy(e) ==
  /\ enable' = e
  /\ pc' = "write" /\ UNCHANGED short_int_wait_policy_
\* Its beginning: the policy is what was asked for, whatever becomes of it.
SetShortIntWait(e) ==
  /\ enable' = e
  /\ pc' = "write" /\ short_int_wait_policy_' = e

\* The value to write.
Target ==
  IF enable THEN SHORT
  ELSE IF driver_int_level = "none" THEN DEFAULT ELSE driver_int_level

NotEffective == pc' = "idle" /\ short_wait_effective_' = FALSE

WriteLevel ==
  /\ pc = "write"
  /\ \/ /\ Works /\ chip' = Target
        /\ pc' = "read" /\ UNCHANGED short_wait_effective_
     \/ Fails /\ NotEffective /\ UNCHANGED chip
  /\ UNCHANGED <<short_int_wait_policy_, int_level_recheck_ms_, enable,
                 driver_int_level, time, history>>

\* The flag is what was read back.
ReadLevel ==
  /\ pc = "read"
  /\ pc' = "idle"
  /\ \/ Works /\ short_wait_effective_' = (enable /\ chip = Target)
     \/ Fails /\ short_wait_effective_' = FALSE
  /\ int_level_recheck_ms_' = IF short_wait_effective_' THEN Deadline
                              ELSE int_level_recheck_ms_
  /\ UNCHANGED <<short_int_wait_policy_, enable, device, time, history>>

\* The switch: at boot, before the chip is there, or later by hand.
TurnSwitch ==
  /\ pc = "idle" /\ turns < MaxTurns
  /\ turns' = turns + 1
  /\ \E e \in BOOLEAN : SetShortIntWait(e) /\ turned_on' = e
  /\ by_hand' = (chip # "none")
  /\ UNCHANGED <<short_wait_effective_, int_level_recheck_ms_, device, time, resets, fails>>

-----------------------------------------------------------------------------
(***************************************************************************)
(* loop()                                                                  *)
(***************************************************************************)

\* Mutated form: without waiting for the boot delay.
EnableDue_AtOnce ==
  /\ short_int_wait_policy_ /\ ~short_wait_effective_
  /\ driver_int_level # "none" /\ Passed(int_level_recheck_ms_)
\* The deferred enabling, and every retry of it.
EnableDue ==
  /\ short_int_wait_policy_ /\ ~short_wait_effective_
  /\ millis >= BOOT_DELAY
  /\ driver_int_level # "none"
  /\ Passed(int_level_recheck_ms_)

LoopEnables ==
  /\ pc = "idle" /\ EnableDue
  /\ int_level_recheck_ms_' = Deadline
  /\ lag' = 0
  /\ SetShortIntWait(TRUE)
  /\ UNCHANGED <<short_wait_effective_, device, millis, booting, history, used>>

CheckDue == short_wait_effective_ /\ Passed(int_level_recheck_ms_)

LoopRechecks ==
  /\ pc = "idle" /\ CheckDue
  /\ pc' = "check"
  /\ int_level_recheck_ms_' = Deadline
  /\ lag' = 0
  /\ UNCHANGED <<short_int_wait_policy_, short_wait_effective_, enable, device, millis,
                 booting, history, used>>

\* Mutated form: any value that was read will do.
StillShort_AnyValue(v) == v # "none"
\* int_level_still_short()
StillShort(v) == v = SHORT

Check ==
  /\ pc = "check"
  /\ \/ /\ Works /\ StillShort(chip)
        /\ pc' = "idle" /\ UNCHANGED short_wait_effective_
     \/ /\ Fails \/ (Works /\ ~StillShort(chip))
        /\ IF short_int_wait_policy_
           THEN pc' = "rewrite" /\ UNCHANGED short_wait_effective_
           ELSE NotEffective
  /\ UNCHANGED <<short_int_wait_policy_, int_level_recheck_ms_, enable, device, time,
                 history>>

Rewrite ==
  /\ pc = "rewrite"
  /\ \/ Works /\ chip' = SHORT /\ pc' = "reread" /\ UNCHANGED short_wait_effective_
     \/ Fails /\ NotEffective /\ UNCHANGED chip
  /\ UNCHANGED <<short_int_wait_policy_, int_level_recheck_ms_, enable,
                 driver_int_level, time, history>>

\* Mutated form: a driver that has the last word is left to itself.
Reread_GivesUp ==
  /\ pc = "reread"
  /\ pc' = "idle"
  /\ \/ Works /\ short_wait_effective_' = (chip = SHORT)
     \/ Fails /\ short_wait_effective_' = FALSE
  /\ short_int_wait_policy_' = short_wait_effective_'
  /\ UNCHANGED <<int_level_recheck_ms_, enable, device, time, history>>
Reread ==
  /\ pc = "reread"
  /\ pc' = "idle"
  /\ \/ Works /\ short_wait_effective_' = (chip = SHORT)
     \/ Fails /\ short_wait_effective_' = FALSE
  /\ UNCHANGED <<short_int_wait_policy_, int_level_recheck_ms_, enable, device, time,
                 history>>

-----------------------------------------------------------------------------
(***************************************************************************)
(* The driver and time.                                                    *)
(***************************************************************************)

\* The driver is installed, by the main task, and writes its default ...
DriverInit ==
  /\ pc = "idle" /\ chip = "none"
  /\ chip' = DEFAULT /\ driver_int_level' = DEFAULT
  /\ UNCHANGED <<pc, server, time, history, used>>

\* ... and again when it re-initialises the chip, at any moment.
DriverResets ==
  /\ chip # "none" /\ resets < MaxResets
  /\ resets' = resets + 1
  /\ chip' = DEFAULT /\ driver_int_level' = DEFAULT
  /\ UNCHANGED <<pc, server, time, history, turns, fails>>

Wrong == short_wait_effective_ /\ chip # SHORT

\* Accesses take less than a tick; a loop that has something to do gets to it
\* within MaxLag.
Tick ==
  /\ pc = "idle"
  /\ IF EnableDue \/ CheckDue THEN lag < MaxLag /\ lag' = lag + 1 ELSE lag' = 0
  /\ millis' = (millis + 1) % RANGE
  /\ booting' = (booting /\ millis + 1 < BOOT_DELAY)
  /\ wrong' = IF Wrong THEN wrong + 1 ELSE 0
  /\ UNCHANGED <<pc, server, device, history, used>>

-----------------------------------------------------------------------------
\* The history of the flag: between ticks it can only come true.
FollowFlag == wrong' = IF Wrong' THEN wrong ELSE 0

MainTask ==
  /\ \/ WriteLevel \/ ReadLevel
     \/ LoopEnables \/ LoopRechecks \/ Check \/ Rewrite \/ Reread
  /\ FollowFlag

Others == (TurnSwitch \/ DriverInit \/ DriverResets) /\ FollowFlag

Next == MainTask \/ Others \/ Tick

Spec == Init /\ [][Next]_vars

\* Time goes on, and so does the main loop.
FairSpec == Spec /\ WF_vars(MainTask) /\ WF_vars(Tick)

-----------------------------------------------------------------------------
(***************************************************************************)
(* Properties.                                                             *)
(***************************************************************************)

\* Types of all variables.
TypeOK ==
  /\ pc \in {"idle", "write", "read", "check", "rewrite", "reread"}
  /\ millis \in 0 .. RANGE - 1 /\ int_level_recheck_ms_ \in 0 .. RANGE - 1
  /\ short_int_wait_policy_ \in BOOLEAN /\ short_wait_effective_ \in BOOLEAN
  /\ enable \in BOOLEAN
  /\ driver_int_level \in {"none", DEFAULT} /\ chip \in {"none", SHORT, DEFAULT}
  /\ lag \in 0 .. MaxLag /\ wrong \in Nat
  /\ turned_on \in BOOLEAN /\ by_hand \in BOOLEAN /\ booting \in BOOLEAN
  /\ turns \in 0 .. MaxTurns /\ resets \in 0 .. MaxResets /\ fails \in 0 .. MaxFails

\* The flag that recv_task_() relaxes its rule by outlives the register's value
\* by a recheck interval at most, however the driver's resets, failing accesses
\* and the wrap of millis() fall.
FlagOutlivesLittle == wrong <= RECHECK + MaxLag

\* A switch that was turned off stays off: the upkeep neither writes the short
\* wait on its own nor leaves the flag up.
OffStaysOff ==
  [][~turned_on /\ pc # "write" =>
       /\ chip' = SHORT => chip = SHORT
       /\ ~turned_on' /\ pc' = "idle" => ~short_wait_effective_']_vars

\* Every boot keeps the driver's own value for the boot delay, unless somebody
\* turns the switch by hand.
BootWindow == booting /\ ~by_hand => chip # SHORT

\* A switch that stays on over a chip that is there ends up with the short wait,
\* whatever was reset or failed before, and wherever millis() stands.
ShortAgain ==
  <>[](turned_on /\ chip # "none") => <>[](chip = SHORT /\ short_wait_effective_)
=============================================================================
