---------------------------- MODULE MC_Dashboard ----------------------------
(***************************************************************************)
(* Three speeds: 1/2x, 1x and 2x.  The two ends of the ladder, slow motion *)
(* and fast-forward are all there; the real ladder has more of the same.   *)
(***************************************************************************)
EXTENDS Dashboard

MCLadder == <<1, 2, 4>>
=============================================================================
