------------------------------ MODULE MCNtpServe ------------------------------
(* NtpServe for TLC. *)
EXTENDS NtpServe

\* A sentence one second late or early.
MCGlitches == {-1, 1}

\* A lost fix, or a loop blocked and a fix lost, while the clock is synchronised;
\* no fault at all.
MCServePlans ==
  {[kinds |-> {"nofix"}, left |-> 1, synced |-> TRUE],
   [kinds |-> {"stall", "nofix"}, left |-> 2, synced |-> TRUE]}
MCNoPlans == {[kinds |-> {}, left |-> 0, synced |-> TRUE]}

\* Clients are interchangeable.
Symmetry == Permutations(Client)
=============================================================================
