--------------------------- MODULE MC_Actuation ---------------------------
(* Both who may decide: three episodes of a training process, and one of the *)
(* tree, long enough for a full roll, for one that times out, and for what   *)
(* is decided after either to reach the surfaces.                            *)
EXTENDS Actuation
===========================================================================
