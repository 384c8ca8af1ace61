----------------------------- MODULE MC_SyncPool -----------------------------
(* The T/C pool with two threads beside its driver and its four phases, the   *)
(* background pool with one thread beside its own, lists of one to four       *)
(* players: shares of two, of one and of none.                                *)
EXTENDS SyncPool

MCReq == [q \in Pools |-> IF q = "tc" THEN 3 ELSE 2]
MCPhases == [q \in Pools |-> IF q = "tc" THEN 4 ELSE 1]
MCLists == {<<"a", "b", "c", "d">>, <<"a">>}
=============================================================================
