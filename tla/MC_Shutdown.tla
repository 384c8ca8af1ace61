---------------------------- MODULE MC_Shutdown ----------------------------
(***************************************************************************)
(* Two pool threads (numTcThreads = 3) are the least for which one can be  *)
(* last, and two phases the least for which a signal of one phase can be   *)
(* taken for another's.                                                    *)
(***************************************************************************)
EXTENDS Shutdown
============================================================================
