----------------------------- MODULE MCGpsRepair -----------------------------
(* GpsRepair for TLC. *)
EXTENDS GpsRepair, MCGpsPpsTime
=============================================================================
