---------------------------- MODULE FeedHistory ----------------------------
(***************************************************************************)
(* MessageFeed with what a reader of the file could know: for how long a   *)
(* player has been on the tripping side of a threshold, how long a match   *)
(* has waited to be written, and the values sampled and last written.      *)
(* Presence is what counts: who leaves starts anew.                        *)
(***************************************************************************)
EXTENDS MessageFeed

VARIABLES
  held,     \* cycles the field of a threshold has been "on", up to its hold
  waiting,  \* cycles since the oldest match of a message not yet written
  seen,     \* the field of a MsgChanged, as sampled in this cycle
  shown     \* its value when the message was last emitted

historyVars == <<held, waiting, seen, shown>>
feedVars    == <<vars, historyVars>>

Nobody ==
  [held    |-> [c \in Thresholds |-> [n \in Names |-> 0]],
   waiting |-> [m \in Messages |-> [n \in Names |-> 0]],
   seen    |-> [c \in Changes |-> [n \in Names |-> [has |-> FALSE, v |-> 0]]],
   shown   |-> [c \in Changes |-> [n \in Names |-> 0]]]

FInit ==
  /\ Init
  /\ held = Nobody.held
  /\ waiting = Nobody.waiting
  /\ seen = Nobody.seen
  /\ shown = Nobody.shown

HeldAfter(n, c, level) ==
  IF level = Invalid THEN held[c][n]
  ELSE IF level # "on" THEN 0
  ELSE IF held[c][n] < Hold[c] THEN held[c][n] + 1 ELSE held[c][n]

WaitingAfter(n, m, emitted, wants) ==
  IF m \in emitted THEN 0
  ELSE IF waiting[m][n] > 0 THEN waiting[m][n] + 1
  ELSE IF wants THEN 1 ELSE 0

FVisit(n) ==
  \/ VisitIgnored(n) /\ UNCHANGED historyVars
  \/ \E level \in [Asked(n) \cap Thresholds -> Levels \cup {Invalid}],
        x \in [Asked(n) \cap Changes -> Reading] :
       LET emitted == Emitted(n, level, x)
           valid   == {c \in Asked(n) \cap Changes : x[c].has}
           written == valid \cap UNION {When[m] : m \in emitted}
       IN  /\ VisitPlayer(n, level, x)
           /\ held' = [c \in Thresholds |-> [held[c] EXCEPT ![n] =
                IF c \in Asked(n) THEN HeldAfter(n, c, level[c]) ELSE @]]
           /\ waiting' = [m \in Messages |-> [waiting[m] EXCEPT ![n] =
                IF m \in WantedBy(n)
                THEN WaitingAfter(n, m, emitted, Wants(n, m, level, x)) ELSE @]]
           /\ seen' = [c \in Changes |->
                IF c \in valid THEN [seen[c] EXCEPT ![n] = x[c]] ELSE seen[c]]
           /\ shown' = [c \in Changes |->
                IF c \in written THEN [shown[c] EXCEPT ![n] = x[c].v] ELSE shown[c]]

\* Whoever was not in the list is forgotten.
Forget(f, nobody) ==
  [k \in DOMAIN f |-> [n \in Names |-> IF n \in presentNow THEN f[k][n] ELSE nobody[k][n]]]

FEndCycle ==
  /\ EndCycle
  /\ held' = Forget(held, Nobody.held)
  /\ waiting' = Forget(waiting, Nobody.waiting)
  /\ seen' = Nobody.seen
  /\ shown' = Forget(shown, Nobody.shown)

FReset ==
  /\ Reset \/ ResetFails
  /\ held' = Nobody.held
  /\ waiting' = Nobody.waiting
  /\ seen' = Nobody.seen
  /\ shown' = Nobody.shown

FNext ==
  \/ FReset
  \/ \E n \in Names : FVisit(n)
  \/ FEndCycle
  \/ Stop /\ UNCHANGED historyVars

FSpec == FInit /\ [][FNext]_feedVars
-----------------------------------------------------------------------------
Here(n)     == playerSlots[n] \in Slots
Armed(c, n) == Here(n) /\ schmitt[c][playerSlots[n]].active

\* A threshold arms only after hold cycles in a row beyond the trip value, in
\* this presence of the player: no transient, and nothing of who had left,
\* counts (xmsg/README.md:138-140, "segundos continuos do lado ligado").
ArmedOnlyIfHeld ==
  [][\A c \in Thresholds, n \in Names :
       ~Armed(c, n) /\ Armed(c, n)' => held'[c][n] >= Hold[c]]_feedVars

\* What is deferred waits less than every (EmitGate.hpp:17-18), whatever else
\* the message and the other conditions did meanwhile.
LatencyIsBounded ==
  \A m \in Messages, n \in Names : waiting[m][n] > 0 => waiting[m][n] < Every[m]

\* Who reads the file of a MsgChanged without every knows the value of every
\* player that is there to less than by (xmsg/README.md:37-39), however slowly
\* it moved. Of a message with more conditions to less than twice that: what
\* another condition makes it write is not what the MsgChanged measures from.
Step(c) == IF By[c] > 0 THEN By[c] ELSE 1
ReaderIsCurrent ==
  \A m \in Messages \ MatchAll, n \in Names :
    \A c \in When[m] \cap Changes :
      Every[m] = 0 /\ seen[c][n].has
      => Distance(seen[c][n].v, shown[c][n])
           < IF When[m] = {c} THEN Step(c) ELSE 2 * Step(c) - 1
=============================================================================
