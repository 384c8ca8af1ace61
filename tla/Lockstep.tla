------------------------------ MODULE Lockstep ------------------------------
(* What a frame promises, for each pool that runs frames: it takes the list  *)
(* of players once, goes through its phases in order, updates every player   *)
(* of that list exactly once in each, and begins a phase when the phase      *)
(* before is over for all. No threads, no signals, no shares.                *)
EXTENDS Integers, Sequences

CONSTANTS Pools,     \* what runs frames
          Phases,    \* Phases[q]: phases of a frame of q
          Lists,     \* lists of players
          NoList

VARIABLES held,      \* held[q]: the list of the frame in progress
          phase,     \* phase[q]: its phase
          served     \* served[q][k]: updates of the k'th player in that phase

lockVars == <<held, phase, served>>

LInit ==
  /\ held   = [q \in Pools |-> NoList]
  /\ phase  = [q \in Pools |-> 0]
  /\ served = [q \in Pools |-> <<>>]

NobodyYet(list) == [k \in DOMAIN list |-> 0]

Begin(q, list) ==
  /\ held[q] = NoList
  /\ held' = [held EXCEPT ![q] = list]
  /\ phase' = [phase EXCEPT ![q] = 0]
  /\ served' = [served EXCEPT ![q] = NobodyYet(list)]

Update(q) ==
  /\ held[q] # NoList
  /\ \E k \in DOMAIN held[q] : served[q][k] = 0 /\ served' = [served EXCEPT ![q][k] = 1]
  /\ UNCHANGED <<held, phase>>

EndPhase(q) ==
  /\ held[q] # NoList
  /\ \A k \in DOMAIN held[q] : served[q][k] = 1
  /\ \/ /\ phase[q] + 1 < Phases[q]
        /\ phase' = [phase EXCEPT ![q] = @ + 1]
        /\ UNCHANGED held
     \/ /\ phase[q] + 1 = Phases[q]
        /\ held' = [held EXCEPT ![q] = NoList]
        /\ phase' = [phase EXCEPT ![q] = 0]
  /\ served' = [served EXCEPT ![q] = NobodyYet(held[q])]

LNext == \E q \in Pools : (\E list \in Lists : Begin(q, list)) \/ Update(q) \/ EndPhase(q)

LockstepSpec == LInit /\ [][LNext]_lockVars
=============================================================================
