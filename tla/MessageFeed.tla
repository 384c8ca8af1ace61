---------------------------- MODULE MessageFeed ----------------------------
(***************************************************************************)
(* libs/xmsg: MsgFeed samples the players in Station::updateData(), asks   *)
(* every MsgReport whether it has something to say of each of them and     *)
(* writes what they say to a file.                                         *)
(*                                                                         *)
(* A message is due when its conditions fire; EmitGate then spaces the     *)
(* emissions.  Conditions and gates keep their state per slot, the index   *)
(* MsgFeed gives to the name of a player.                                  *)
(*                                                                         *)
(* Time is counted in cycles of updateData(): dt does not change during a  *)
(* run, and reached() makes the sums of it exact.  A threshold splits the  *)
(* values of its field in three: "on" is beyond the trip value, "off" on   *)
(* the other side of the clear value, "band" in between.  A MsgRate is a   *)
(* threshold whose field is the rate, invalid until the window is ready.   *)
(* One thread does all this but the shutdown.  There is one sink; a        *)
(* configuration with an error in it never gets ready.  The counters shown *)
(* in msgHealth, the text of a record and its limit, and the filter of the *)
(* sink are left out.                                                      *)
(***************************************************************************)
EXTENDS Integers, FiniteSets

CONSTANTS
  Names,       \* players that may ever be in the list
  MaxPlayers,  \* maxPlayers: slots
  Messages,
  Players,     \* of each message: the names it is about
  When,        \* of each message: its conditions, none if it is periodic
  MatchAll,    \* the messages with match: all
  Every,       \* of each message: cycles between two emissions, 0 if unlimited
  Thresholds,  \* conditions MsgThreshold and MsgRate
  Hold,        \* of each threshold, in cycles
  Changes,     \* conditions MsgChanged
  By,          \* of each of them
  Values,      \* values their fields take
  HealthEvery, \* cycles between two msgHealth, 0 if never
  FlushEvery   \* cycles between two flushes of the file

Conditions == Thresholds \cup Changes

ASSUME FeedAssumption ==
  /\ MaxPlayers \in Nat
  /\ Players \in [Messages -> SUBSET Names]
  /\ When \in [Messages -> SUBSET Conditions]
  /\ Every \in [Messages -> Nat]
  /\ Hold \in [Thresholds -> Nat]
  /\ By \in [Changes -> Nat]
  /\ Values \subseteq Int
  /\ HealthEvery \in Nat /\ FlushEvery \in Nat \ {0}

\* The conditions of two messages are different objects, each of one class.
ASSUME OwnConditions ==
  /\ \A m, o \in Messages : m # o => When[m] \cap When[o] = {}
  /\ Thresholds \cap Changes = {}

VARIABLES
  ready,
  playerSlots, \* of each name: its slot, -(slot+1) while it is absent
  nextSlot,
  presentNow,
  schmitt,     \* of each threshold and slot
  deadband,    \* of each MsgChanged and slot
  gate,        \* of each message and slot
  sinceHealth,
  opened,      \* the file of the sink
  sinceFlush,
  unflushed,   \* cycles since the oldest record not yet flushed, 0 if none
  out          \* messages written by the last step, with the player

slotVars  == <<playerSlots, nextSlot, presentNow>>
stateVars == <<schmitt, deadband, gate>>
sinkVars  == <<opened, sinceFlush, unflushed>>
vars      == <<ready, slotVars, stateVars, sinceHealth, sinkVars, out>>

Slots  == 0 .. MaxPlayers - 1
NoSlot == MaxPlayers              \* not in the map

Levels  == {"off", "band", "on"}
Invalid == "invalid"              \* the group of the field has no data
Reading == {[has |-> TRUE, v |-> v] : v \in Values} \cup {[has |-> FALSE, v |-> 0]}

-----------------------------------------------------------------------------
(* The rules (libs/xmsg/rules).                                            *)

SchmittStates == [active : BOOLEAN, candidate : BOOLEAN, timer : Nat]
Calm == [active |-> FALSE, candidate |-> FALSE, timer |-> 0]

\* While active only the clear value disarms.
Raw(s, level) == level = "on" \/ (s.active /\ level = "band")

SchmittUpdate(s, level, hold) ==
  LET timer == (IF s.candidate THEN s.timer ELSE 0) + 1
  IN  IF level = Invalid THEN s
      ELSE IF ~Raw(s, level) THEN Calm
      ELSE IF s.active THEN s
      ELSE IF timer >= hold THEN [Calm EXCEPT !.active = TRUE]
      ELSE [active |-> FALSE, candidate |-> TRUE, timer |-> timer]

\* The rising edge, all that update() returns.
Edge(s, level, hold) == ~s.active /\ SchmittUpdate(s, level, hold).active

Distance(a, b) == IF a < b THEN b - a ELSE a - b

\* has and last are has_ and lastEmitted_.
Deadbands == [has : BOOLEAN, last : Values \cup {0}]
Blank == [has |-> FALSE, last |-> 0]

Moved(d, x, by) ==
  x.has /\ (d.has => Distance(x.v, d.last) >= (IF by > 0 THEN by ELSE 1))

\* Mutant: the reference follows every sample.
DeadbandUpdate_Follows(d, x, by) == IF x.has THEN [has |-> TRUE, last |-> x.v] ELSE d

DeadbandUpdate(d, x, by) == IF Moved(d, x, by) THEN [has |-> TRUE, last |-> x.v] ELSE d

\* sinceLast_ is only compared with the interval: it need not grow beyond it.
Gates == [since : Nat, pending : BOOLEAN]
Overdue(every) == [since |-> every, pending |-> FALSE]

Opens(g, wants, every) == (g.pending \/ wants) /\ g.since + 1 >= every

\* Mutant: sinceLast_ restarts when something is deferred.
GateUpdate_Restarts(g, wants, every) ==
  IF Opens(g, wants, every) THEN [since |-> 0, pending |-> FALSE]
  ELSE IF wants THEN [since |-> 0, pending |-> TRUE]
  ELSE [since |-> IF g.since < every THEN g.since + 1 ELSE every, pending |-> g.pending]

GateUpdate(g, wants, every) ==
  IF Opens(g, wants, every) THEN [since |-> 0, pending |-> FALSE]
  ELSE [since   |-> IF g.since < every THEN g.since + 1 ELSE every,
        pending |-> g.pending \/ wants]
-----------------------------------------------------------------------------
(* Slots.                                                                  *)

Absent(n) == playerSlots[n] < 0
Known(n)  == playerSlots[n] # NoSlot

\* Mutant: a new name takes the count of the players that are there.
SlotOf_Present(n) ==
  IF Absent(n) THEN -playerSlots[n] - 1
  ELSE IF Known(n) THEN playerSlots[n]
  ELSE Cardinality({o \in Names : playerSlots[o] \in Slots})

\* slotFor(), which numbers a name the first time.
SlotOf(n) ==
  IF Absent(n) THEN -playerSlots[n] - 1
  ELSE IF Known(n) THEN playerSlots[n] ELSE nextSlot

\* Mutant: resetSlot() forgets the conditions.
SchmittOf_Kept(n, c) == IF Known(n) THEN schmitt[c][SlotOf(n)] ELSE Calm

\* What a visit finds: resetSlot() has run if the player had been absent.
SchmittOf(n, c)  == IF Absent(n) THEN Calm ELSE schmitt[c][SlotOf(n)]
DeadbandOf(n, c) == IF Absent(n) THEN Blank ELSE deadband[c][SlotOf(n)]
GateOf(n, m)     == IF Absent(n) THEN Overdue(Every[m]) ELSE gate[m][SlotOf(n)]

WantedBy(n) == {m \in Messages : n \in Players[m]}
Asked(n)    == UNION {When[m] : m \in WantedBy(n)}

Fires(n, c, level, x) ==
  IF c \in Thresholds THEN Edge(SchmittOf(n, c), level[c], Hold[c])
  ELSE Moved(DeadbandOf(n, c), x[c], By[c])

\* A message without conditions is periodic.
Wants(n, m, level, x) ==
  \/ When[m] = {}
  \/ m \in MatchAll /\ \A c \in When[m] : Fires(n, c, level, x)
  \/ m \notin MatchAll /\ \E c \in When[m] : Fires(n, c, level, x)

Emitted(n, level, x) ==
  {m \in WantedBy(n) : Opens(GateOf(n, m), Wants(n, m, level, x), Every[m])}
-----------------------------------------------------------------------------
Initial ==
  [schmitt  |-> [c \in Thresholds |-> [s \in Slots |-> Calm]],
   deadband |-> [c \in Changes |-> [s \in Slots |-> Blank]],
   gate     |-> [m \in Messages |-> [s \in Slots |-> Overdue(Every[m])]]]

Init ==
  /\ ready = FALSE
  /\ playerSlots = [n \in Names |-> NoSlot]
  /\ nextSlot = 0
  /\ presentNow = {}
  /\ schmitt = Initial.schmitt
  /\ deadband = Initial.deadband
  /\ gate = Initial.gate
  /\ sinceHealth = 0
  /\ opened = FALSE
  /\ sinceFlush = 0
  /\ unflushed = 0
  /\ out = {}

\* Mutant: write() postpones the flush.
Write_Postpones(lines) ==
  /\ out' = IF opened THEN lines ELSE {}
  /\ unflushed' = IF opened /\ lines # {} /\ unflushed = 0 THEN 1 ELSE unflushed
  /\ sinceFlush' = IF lines # {} THEN 0 ELSE sinceFlush

\* MsgFileSink::write(): nothing is written to a file that is not open.
Write(lines) ==
  /\ out' = IF opened THEN lines ELSE {}
  /\ unflushed' = IF opened /\ lines # {} /\ unflushed = 0 THEN 1 ELSE unflushed
  /\ UNCHANGED sinceFlush

\* reset(), between two cycles, when the file is open or can be opened.
Reset ==
  /\ presentNow = {}
  /\ ready' = TRUE
  /\ playerSlots' = [n \in Names |-> NoSlot]
  /\ nextSlot' = 0
  /\ schmitt' = Initial.schmitt
  /\ deadband' = Initial.deadband
  /\ gate' = Initial.gate
  /\ sinceHealth' = 0
  /\ opened' = TRUE
  /\ sinceFlush' = IF opened THEN sinceFlush ELSE 0
  /\ out' = {}
  /\ UNCHANGED <<presentNow, unflushed>>

\* reset(): the file cannot be opened, and no message is prepared.
ResetFails ==
  /\ presentNow = {}
  /\ ~opened
  /\ ready' = FALSE
  /\ playerSlots' = [n \in Names |-> NoSlot]
  /\ nextSlot' = 0
  /\ sinceHealth' = 0
  /\ out' = {}
  /\ UNCHANGED <<presentNow, stateVars, sinkVars>>

\* A player of the list that no message is about, or that finds no free slot.
VisitIgnored(n) ==
  /\ ready
  /\ n \notin presentNow
  /\ WantedBy(n) = {} \/ (~Known(n) /\ nextSlot >= MaxPlayers)
  /\ presentNow' = presentNow \cup {n}
  /\ out' = {}
  /\ UNCHANGED <<ready, playerSlots, nextSlot, stateVars, sinceHealth, sinkVars>>

\* A player of the list in its slot: every message about it evaluates all its
\* conditions, then its gate.
VisitPlayer(n, level, x) ==
  LET s == SlotOf(n)
  IN  /\ ready
      /\ n \notin presentNow
      /\ WantedBy(n) # {}
      /\ Known(n) \/ nextSlot < MaxPlayers
      /\ presentNow' = presentNow \cup {n}
      /\ playerSlots' = [playerSlots EXCEPT ![n] = s]
      /\ nextSlot' = IF Known(n) THEN nextSlot ELSE nextSlot + 1
      /\ schmitt' = [c \in Thresholds |-> [schmitt[c] EXCEPT ![s] =
           IF c \in Asked(n) THEN SchmittUpdate(SchmittOf(n, c), level[c], Hold[c])
           ELSE SchmittOf(n, c)]]
      /\ deadband' = [c \in Changes |-> [deadband[c] EXCEPT ![s] =
           IF c \in Asked(n) THEN DeadbandUpdate(DeadbandOf(n, c), x[c], By[c])
           ELSE DeadbandOf(n, c)]]
      /\ gate' = [m \in Messages |-> [gate[m] EXCEPT ![s] =
           IF m \in WantedBy(n)
           THEN GateUpdate(GateOf(n, m), Wants(n, m, level, x), Every[m])
           ELSE GateOf(n, m)]]
      /\ Write(Emitted(n, level, x) \X {n})
      /\ UNCHANGED <<ready, sinceHealth, opened>>

\* Who has a slot and was not in the list is marked absent.
MarkAbsent ==
  playerSlots' = [n \in Names |->
    IF playerSlots[n] \in Slots /\ n \notin presentNow
    THEN -(playerSlots[n] + 1) ELSE playerSlots[n]]

HealthDue == HealthEvery > 0 /\ sinceHealth + 1 >= HealthEvery

\* The end of updateData(): the health message, then MsgFileSink::tick().
EndCycle ==
  /\ ready
  /\ presentNow' = {}
  /\ MarkAbsent
  /\ sinceHealth' = IF HealthDue \/ HealthEvery = 0 THEN 0 ELSE sinceHealth + 1
  /\ out' = {}
  /\ IF ~opened THEN UNCHANGED <<sinceFlush, unflushed>>
     ELSE IF sinceFlush + 1 >= FlushEvery THEN sinceFlush' = 0 /\ unflushed' = 0
     ELSE /\ sinceFlush' = sinceFlush + 1
          /\ unflushed' = IF unflushed > 0 THEN unflushed + 1
                          ELSE IF HealthDue THEN 2 ELSE 0
  /\ UNCHANGED <<ready, nextSlot, stateVars, opened>>

\* shutdownNotification(), on the thread of the event.
Stop ==
  /\ opened
  /\ opened' = FALSE
  /\ unflushed' = 0
  /\ out' = {}
  /\ UNCHANGED <<ready, slotVars, stateVars, sinceHealth, sinceFlush>>

Visit(n) ==
  \/ VisitIgnored(n)
  \/ \E level \in [Asked(n) \cap Thresholds -> Levels \cup {Invalid}],
        x \in [Asked(n) \cap Changes -> Reading] : VisitPlayer(n, level, x)

Next == Reset \/ ResetFails \/ (\E n \in Names : Visit(n)) \/ EndCycle \/ Stop

Spec == Init /\ [][Next]_vars
-----------------------------------------------------------------------------
Last(k) == IF k > 0 THEN k - 1 ELSE 0

\* Types; what counts towards a hold, an interval or a flush stays below it.
TypeOK ==
  /\ ready \in BOOLEAN /\ opened \in BOOLEAN
  /\ playerSlots \in [Names -> -MaxPlayers .. MaxPlayers]
  /\ nextSlot \in 0 .. MaxPlayers
  /\ presentNow \subseteq Names
  /\ schmitt \in [Thresholds -> [Slots -> SchmittStates]]
  /\ \A c \in Thresholds, s \in Slots : schmitt[c][s].timer <= Last(Hold[c])
  /\ deadband \in [Changes -> [Slots -> Deadbands]]
  /\ gate \in [Messages -> [Slots -> Gates]]
  /\ \A m \in Messages, s \in Slots : gate[m][s].since <= Every[m]
  /\ sinceHealth \in 0 .. Last(HealthEvery)
  /\ sinceFlush \in 0 .. FlushEvery - 1
  /\ unflushed \in Nat
  /\ out \subseteq Messages \X Names

\* The state of a player is its own: no slot serves two names, whoever came,
\* left or returned (MsgFeed.cpp:196, "indice estavel por NOME de player").
SlotsAreDistinct ==
  \A n, o \in Names : Known(n) /\ Known(o) /\ n # o => SlotOf(n) # SlotOf(o)

\* A crash loses at most the records of the last flushEvery, however many
\* messages are written, and an orderly stop none.
LossIsBounded == unflushed <= FlushEvery /\ (~opened => unflushed = 0)

=============================================================================
