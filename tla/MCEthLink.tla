------------------------------- MODULE MCEthLink -------------------------------
(***************************************************************************)
(* Three parts of the Ethernet component for TLC: the connection of an     *)
(* ESP32 build, its JL1101 PHY, and the connection of an RP2040 build.     *)
(* They share no state, and one of them runs alone.                        *)
(***************************************************************************)
EXTENDS EthLink, Jl1101, EthPoll

VARIABLE part

\* Enabled at boot or later; DHCP or a static address; an IPv6 address to wait
\* for or not: every two of these options in every combination.
MCConfigs ==
  {[enable_on_boot |-> b, manual_ip |-> m, min_ipv6 |-> IF b = m THEN 0 ELSE 1] :
     b \in BOOLEAN, m \in BOOLEAN}

\* The parts that do not run have one initial state.
MCInit ==
  /\ part \in {"link", "phy", "poll"} /\ Init /\ PhyInit /\ PollInit
  /\ part # "link" => config = CHOOSE c \in Configs : TRUE
  /\ part # "poll" => now = 0 /\ detects

MCNext ==
  /\ \/ part = "link" /\ Next /\ UNCHANGED <<phyVars, pollVars>>
     \/ part = "phy" /\ PhyNext /\ UNCHANGED <<vars, pollVars>>
     \/ part = "poll" /\ PollNext /\ UNCHANGED <<vars, phyVars>>
  /\ UNCHANGED part

\* The fairness of FairSpec.
MCSpec ==
  /\ MCInit /\ [][MCNext]_<<part, vars, phyVars, pollVars>>
  /\ WF_vars(part = "link" /\ EnablePendingLoop) /\ WF_vars(part = "link" /\ Loop)
  /\ WF_vars(part = "link" /\ EventTask) /\ WF_vars(part = "link" /\ link /\ Lease)
=============================================================================
