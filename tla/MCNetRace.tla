------------------------------- MODULE MCNetRace -------------------------------
(***************************************************************************)
(* NetRecorder with what a frame that races a roll of the ring costs.      *)
(***************************************************************************)
EXTENDS NetRecorder

VARIABLE lost_to_race    \* history: the earlier frames forgotten when such a frame was counted

\* Its time was read before the newest bin began, by another task's later time.
Races(w) == held[w] # -1 /\ g_net_cur_start_us # 0 /\ held[w] < cur_at

RaceInit == NetInit /\ lost_to_race = {}

RaceNext ==
  \/ SwitchOn /\ UNCHANGED lost_to_race
  \/ SwitchOff /\ UNCHANGED lost_to_race
  \/ NetTick /\ UNCHANGED lost_to_race
  \/ \E w \in Task :
       \/ ReadTime(w) /\ UNCHANGED lost_to_race
       \/ /\ Record(w)
          /\ lost_to_race' = IF Races(w) THEN {t \in recorded \ recorded' : t < held[w]} ELSE {}

RaceSpec == RaceInit /\ [][RaceNext]_<<netVars, lost_to_race>>

\* "a frame racing the roll may land in the neighbouring bin" (w5500_custom_spi.h):
\* the frames before it, in that bin and the others, are not touched by it.
RacingFrameLandsNearby == lost_to_race = {}
=============================================================================
