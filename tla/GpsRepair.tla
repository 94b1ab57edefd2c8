------------------------------- MODULE GpsRepair -------------------------------
(***************************************************************************)
(* GpsPpsTime with a history variable: how many right sentences in a row   *)
(* left a wrong epoch counter behind.                                      *)
(***************************************************************************)
EXTENDS GpsPpsTime

VARIABLE wrong

\* A sentence was handled by this step, and one that was right, in time, and
\* about the second whose pulse was the last one accepted and applied in time.
Sentence == heard' # heard /\ coasting' = coasting
RightSentence ==
  /\ Sentence /\ faults' = faults
  /\ heard' = rx_sec /\ now - last_edge <= NmeaDelay
  /\ last_pps_micros = last_edge
  /\ ~pps_flag /\ last_pps_millis - last_edge \in 0 .. LoopDelay

RepairInit == Init /\ wrong = 0

RepairNext ==
  /\ Next
  /\ wrong' =
       IF RightSentence /\ pps_synced' /\ last_gps_epoch' # rx_sec THEN wrong + 1
       ELSE IF Sentence \/ faults' # faults \/ Relock THEN 0
       ELSE wrong

RepairSpec == RepairInit /\ [][RepairNext]_<<vars, wrong>>

\* However a sentence, a pulse or a blocked loop made it wrong, the epoch counter
\* does not survive EPOCH_FIX_STREAK right sentences: on_update() steps it or
\* starts over.  (A second time source that sets the clock in between can make
\* the sentences name two different errors, and the streak begins again.)
WrongEpochIsRepaired ==
  "pushed" \notin faults.kinds => wrong < EPOCH_FIX_STREAK
=============================================================================
