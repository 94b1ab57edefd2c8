-------------------------------- MODULE MCW5500 --------------------------------
(***************************************************************************)
(* Three parts of the W5500 wrapper for TLC: the stamps of received frames,*)
(* the way of a reply out, and the network recorder.  They share no state  *)
(* here, and one of them runs alone.                                       *)
(***************************************************************************)
EXTENDS MCRxStamp, SendPath, NetRecorder

VARIABLE part

\* The parts that do not run have one initial state.
MCInit ==
  /\ part \in {"stamp", "path", "recorder"} /\ Init /\ PathInit /\ NetInit
  /\ part # "stamp" => switch = CHOOSE s \in Switches : TRUE
  /\ part # "path" => ~patch_fn

MCNext ==
  /\ \/ part = "stamp" /\ Next /\ UNCHANGED <<spvars, netVars>>
     \/ part = "path" /\ PathNext /\ UNCHANGED <<rxvars, netVars>>
     \/ part = "recorder" /\ NetNext /\ UNCHANGED <<rxvars, spvars>>
  /\ UNCHANGED part

MCSpec == MCInit /\ [][MCNext]_<<part, rxvars, spvars, netVars>>
=============================================================================
