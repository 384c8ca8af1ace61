------------------------------- MODULE TcGate -------------------------------
(***************************************************************************)
(* What the rest of the program is entitled to expect from the clock: the  *)
(* time-critical thread is either inside tcFrame() or outside it, and the  *)
(* answer TRUE of waitForTcQuiesced() is final -- it is only given while   *)
(* the thread is outside, and no frame begins after it.                    *)
(* xclock/ClockStation.hpp states this promise; ClockStation implements it *)
(* with two atomics and no join.                                           *)
(***************************************************************************)
VARIABLES
  inFrame,   \* the T/C thread is executing tcFrame()
  quiesced   \* some caller was told that the thread is idle

vars == <<inFrame, quiesced>>

Init == inFrame = FALSE /\ quiesced = FALSE

BeginFrame == ~inFrame /\ ~quiesced /\ inFrame' = TRUE /\ UNCHANGED quiesced

EndFrame == inFrame /\ inFrame' = FALSE /\ UNCHANGED quiesced

Confirm == ~inFrame /\ quiesced' = TRUE /\ UNCHANGED inFrame

Next == BeginFrame \/ EndFrame \/ Confirm

Spec == Init /\ [][Next]_vars
=============================================================================
