------------------------------ MODULE MCIntLevel ------------------------------
(***************************************************************************)
(* Two kinds of upkeep in NTPServer::loop(), for TLC: the interrupt wait,  *)
(* and the ARP entries recv_task_() sends by.  They share no state, and    *)
(* one of them runs alone.                                                 *)
(***************************************************************************)
EXTENDS IntLevel, ArpSend

VARIABLE part

MCInit == part \in {"level", "arp"} /\ Init /\ ArpInit

MCNext ==
  /\ \/ part = "level" /\ Next /\ UNCHANGED arpVars
     \/ part = "arp" /\ ArpNext /\ UNCHANGED vars
  /\ UNCHANGED part

\* The fairness of FairSpec and ArpFairness, each for its own part.
MCSpec ==
  /\ MCInit /\ [][MCNext]_<<part, vars, arpVars>>
  /\ WF_vars(part = "level" /\ MainTask) /\ WF_vars(part = "level" /\ Tick)
  /\ WF_arpVars(part = "arp" /\ Task)
=============================================================================
