---------------------------- MODULE MCGpsPpsTime ----------------------------
(* GpsPpsTime for TLC. *)
EXTENDS GpsPpsTime

\* A sentence one second late or early, and one beyond the divergence limit.
MCGlitches == {-1, 1, 3}

Plan(kinds, left, synced) == [kinds |-> kinds, left |-> left, synced |-> synced]

MCPlans ==
  {Plan(Usual, 3, FALSE), Plan(Usual, 2, TRUE),
   Plan({"noise", "missed", "pushed"}, 4, TRUE)}

\* A receiver that coasts, or any one other fault.
MCCoastPlans ==
  {Plan({"coast"}, 1, TRUE),
   Plan({"missed", "stall", "nofix", "lost", "noise", "pushed"}, 1, TRUE)}
MCStallPlans == {Plan({"stall"}, 1, FALSE)}

=============================================================================
