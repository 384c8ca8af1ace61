--------------------------- MODULE SquadronFrame ---------------------------
(* What a frame of the squadron promises: every aircraft takes the alert of *)
(* the frame before, decides, and is left with the nearest of the alerts    *)
(* sent to it. No threads, no phases and no order.                          *)
EXTENDS TacticalAlert

CONSTANTS Worlds,      \* what may be perceived in a frame
          MayCrash,    \* aircraft that may hit the ground
          Arbitrated   \* aircraft whose tree sits under a UbfArbiter

VARIABLES staged, current, hold, timer, label, up
frameVars == <<staged, current, hold, timer, label, up>>

SInit ==
  /\ staged  = [p \in Pilots |-> NoAlert]
  /\ current = [p \in Pilots |-> NoAlert]
  /\ hold    = [p \in Pilots |-> 0]
  /\ timer   = [p \in Pilots |-> 0]
  /\ label   = [p \in Pilots |-> "PATROL"]
  /\ up      = Pilots

\* One frame, for what is perceived in it and the aircraft it crashes.
SFrame(seen, crashed) ==
  LET flying    == up \ crashed
      senders   == {p \in flying : label'[p] = "EVADE"}
      Offers(r) == {[sender |-> q, range |-> seen.sees[q]] :
                      q \in {q \in senders \ {r} : Accepts(r, q, seen)}}
  IN /\ up' = flying
     /\ current' = [p \in Pilots |-> IF p \in flying THEN Promoted(staged[p], current[p], hold[p])
                                                     ELSE current[p]]
     /\ hold'    = [p \in Pilots |-> IF p \in flying THEN HoldAfter(staged[p], hold[p]) ELSE hold[p]]
     /\ timer'   = [p \in Pilots |-> IF p \in flying THEN ThreatUpdate(timer[p], seen.sees[p])
                                                     ELSE timer[p]]
     /\ label'   = [p \in Pilots |->
                      IF p \in flying
                      THEN Decision(p \in seen.overruled, timer'[p], seen.sees[p], current'[p])
                      ELSE label[p]]
     /\ staged'  = [p \in Pilots |-> IF p \in flying THEN Nearest(Offers(p)) ELSE staged[p]]

\* RESET_EVENT: the datalinks are cleared and the aircraft are whole again. It
\* reaches a behaviour only through the agent that holds it directly.
SReset ==
  /\ staged'  = [p \in Pilots |-> NoAlert]
  /\ current' = [p \in Pilots |-> NoAlert]
  /\ hold'    = [p \in Pilots |-> 0]
  /\ timer'   = [p \in Pilots |-> IF p \in Arbitrated THEN timer[p] ELSE 0]
  /\ up'      = Pilots
  /\ UNCHANGED label

SNext == SReset \/ \E w \in Worlds, c \in SUBSET (up \cap MayCrash) : SFrame(w, c)
SSpec == SInit /\ [][SNext]_frameVars
=============================================================================
