-------------------------- MODULE MC_ClockStation --------------------------
(***************************************************************************)
(* Two threads drive the clock.  With RealTime = 2 the arguments 1, 2 and 3 *)
(* are 1/2x, 1x and 3/2x (which the integer slot rounds to 2x); 0 and 10   *)
(* (5x, above MaxScale here) are outside the range and so rejected.        *)
(***************************************************************************)
EXTENDS ClockStation
============================================================================
