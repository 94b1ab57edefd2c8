-------------------------------- MODULE MCReply --------------------------------
(***************************************************************************)
(* Two parts of a reply for TLC: the serving path, and the estimates its   *)
(* T3 is predicted with.  They share no state, and one of them runs alone. *)
(***************************************************************************)
EXTENDS MCNtpServe, Estimators

VARIABLE part

\* The part that does not run has one initial state.
MCInit ==
  /\ part \in {"serve", "estimators"} /\ ServeInit /\ EstInit
  /\ part # "estimators" => path = CHOOSE p \in Paths : TRUE
  /\ part # "serve" => faults = CHOOSE f \in FaultPlans : TRUE

\* Bound: requests come once pulses are counted, since the clock is not
\* synchronised before.  When the loop may be blocked, only one comes, and not
\* before both faults have begun.
RequestBound ==
  /\ pps_count > 0
  /\ "stall" \in faults.kinds => requests = 0 /\ faults.left = 0

MCNext ==
  /\ \/ part = "serve" /\ ServeNext /\ UNCHANGED estVars
     \/ part = "estimators" /\ EstNext /\ UNCHANGED allvars
  /\ requests' # requests => RequestBound
  /\ UNCHANGED part

MCSpec == MCInit /\ [][MCNext]_<<part, allvars, estVars>>
=============================================================================
