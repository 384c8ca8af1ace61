---------------------------- MODULE MC_Telemetry ----------------------------
(***************************************************************************)
(* One aircraft of the scenario and one weapon are the least for which a   *)
(* list is swapped while a frame holds the old one; three frames are the   *)
(* least in which the weapon is released, seen and removed.                *)
(***************************************************************************)
EXTENDS Telemetry
=============================================================================
