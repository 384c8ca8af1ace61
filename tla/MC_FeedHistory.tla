--------------------------- MODULE MC_FeedHistory ---------------------------
(***************************************************************************)
(* Two slots for three names that messages want: falcon has an alarm with  *)
(* two thresholds, wing reports the steps of its altitude, and bandit has  *)
(* only the periodic message it shares with wing.  A hold of two cycles    *)
(* has one in which it is begun and not over; an interval of four is least *)
(* in which both thresholds of the alarm can fire again and be deferred;   *)
(* with a step of two a value may have moved by less than that.            *)
(***************************************************************************)
EXTENDS FeedHistory, TLC

CONSTANTS falcon, wing, bandit, alarm, moved, telemetry, low, sinking, altitude

MCPlayers == (alarm :> {falcon}) @@ (moved :> {wing}) @@ (telemetry :> {wing, bandit})
MCWhen    == (alarm :> {low, sinking}) @@ (moved :> {altitude}) @@ (telemetry :> {})
MCEvery   == (alarm :> 4) @@ (moved :> 0) @@ (telemetry :> 1)
MCHold    == (low :> 2) @@ (sinking :> 0)
MCBy      == altitude :> 2
=============================================================================
