------------------------------ MODULE MCSeqlocks ------------------------------
(***************************************************************************)
(* The three seqlocks for TLC: the anchor, and the two rings of slots.     *)
(* They share no state: one is chosen at the beginning and runs alone.     *)
(***************************************************************************)
EXTENDS AnchorSeqlock, SlotRing

VARIABLE part

MCInit == part \in {"anchor", "rings"} /\ Init /\ RingInit

MCNext ==
  /\ \/ part = "anchor" /\ Next /\ UNCHANGED ringVars
     \/ part = "rings" /\ RingNext /\ UNCHANGED vars
  /\ UNCHANGED part

MCSpec == MCInit /\ [][MCNext]_<<part, vars, ringVars>> /\ Fairness
=============================================================================
