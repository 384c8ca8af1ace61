------------------------- MODULE FeedHistory_proofs -------------------------
(***************************************************************************)
(* What the feed promises for every list of messages, any number of        *)
(* players and slots, and every interval.                                  *)
(*                                                                         *)
(* None of it is inductive by itself.  A new slot is only new because      *)
(* every slot given so far is below nextSlot (SlotInv); the age of the     *)
(* oldest record grows with sinceFlush, which is what the flush looks at   *)
(* (FlushInv); who waits is there, its gate is pending, and has been       *)
(* counting for at least as long (WaitInv); a threshold that is counting   *)
(* has counted no more than the field was held, and what a message last    *)
(* showed is near what its deadband measures from (RuleInv, TellInv).      *)
(* That a visit to one player leaves the others so needs SlotsAreDistinct. *)
(***************************************************************************)
EXTENDS FeedHistory, TLAPS

Encoded == {k \in Int : -MaxPlayers <= k /\ k <= MaxPlayers}

SlotTypes ==
  /\ playerSlots \in [Names -> Encoded]
  /\ nextSlot \in Nat /\ nextSlot <= MaxPlayers

\* A slot that was given is below nextSlot, whether or not its player is there.
GivenBelowNext == \A n \in Names : Known(n) => SlotOf(n) \in Nat /\ SlotOf(n) < nextSlot

SlotInv == SlotTypes /\ GivenBelowNext /\ SlotsAreDistinct

FlushTypes ==
  /\ sinceFlush \in Nat /\ sinceFlush < FlushEvery
  /\ unflushed \in Nat

\* The oldest record is not older than the last flush.
AgeFollowsFlush == unflushed <= sinceFlush + 1 /\ (~opened => unflushed = 0)

FlushInv == FlushTypes /\ AgeFollowsFlush

GateOK(g, every) ==
  /\ g.since \in Nat /\ g.since <= every
  /\ g.pending => g.since < every

GatesOK == \A m \in Messages, s \in Slots : GateOK(gate[m][s], Every[m])

GateShape == gate \in [Messages -> [Slots -> Gates]]

WaitOK(w, g) == w > 0 => g.pending /\ w <= g.since

Waits ==
  /\ waiting \in [Messages -> [Names -> Nat]]
  /\ \A m \in Messages, n \in Names :
       waiting[m][n] > 0 => Here(n) /\ WaitOK(waiting[m][n], gate[m][playerSlots[n]])

WaitInv == SlotInv /\ GateShape /\ GatesOK /\ Waits

\* The rules of a slot nobody was given are as reset() left them.
Fresh ==
  ready => \A s \in Slots : s >= nextSlot => /\ \A c \in Thresholds : schmitt[c][s] = Calm
                                             /\ \A c \in Changes : deadband[c][s] = Blank

\* A threshold that is counting has counted no more than the field was held.
CountOK(st, k) == ~st.active /\ st.candidate => st.timer <= k

RuleInv ==
  /\ SlotInv /\ Fresh
  /\ schmitt \in [Thresholds -> [Slots -> SchmittStates]]
  /\ deadband \in [Changes -> [Slots -> Deadbands]]
  /\ held \in [Thresholds -> [Names -> Nat]]
  /\ \A c \in Thresholds, n \in Names :
       Here(n) => CountOK(schmitt[c][playerSlots[n]], held[c][n])

\* The conditions of the messages that are written as soon as they are due.
Told(m) == When[m] \cap Changes
Prompt == {m \in Messages \ MatchAll : Every[m] = 0}

\* The record last written is near what the deadband measures from, or the same
\* when nothing else makes the message write; the sample is near it too.
ShownOK(m, c, d, v) ==
  d.has => /\ Distance(d.last, v) < Step(c)
           /\ When[m] = {c} => d.last = v

TellInv ==
  /\ WaitInv /\ RuleInv
  /\ shown \in [Changes -> [Names -> Int]]
  /\ seen \in [Changes -> [Names -> Reading]]
  /\ \A m \in Prompt, n \in Names : \A c \in Told(m) :
       /\ Here(n) => ShownOK(m, c, deadband[c][playerSlots[n]], shown[c][n])
       /\ seen[c][n].has => /\ n \in presentNow /\ Here(n)
                            /\ deadband[c][playerSlots[n]].has
                            /\ Distance(seen[c][n].v, deadband[c][playerSlots[n]].last) < Step(c)

-----------------------------------------------------------------------------
(* Slots.                                                                  *)

\* Nobody has a slot when the feed is built.
LEMMA InitSlotInv == Init => SlotInv
<1> SUFFICES ASSUME Init PROVE SlotInv
  OBVIOUS
<1>1. MaxPlayers \in Nat
  BY FeedAssumption DEF FeedAssumption
<1>2. \A n \in Names : playerSlots[n] = MaxPlayers
  BY DEF Init, NoSlot
<1>3. SlotTypes
  BY <1>1 DEF Init, SlotTypes, Encoded, NoSlot
<1> QED
  BY <1>2, <1>3 DEF SlotInv, GivenBelowNext, SlotsAreDistinct, Known, NoSlot

\* A visit gives the player its own slot, back or for the first time.
LEMMA VisitSlotInv ==
  ASSUME SlotInv, NEW n \in Names, Known(n) \/ nextSlot < MaxPlayers,
         playerSlots' = [playerSlots EXCEPT ![n] = SlotOf(n)],
         nextSlot' = IF Known(n) THEN nextSlot ELSE nextSlot + 1
  PROVE  SlotInv'
<1>1. MaxPlayers \in Nat
  BY FeedAssumption DEF FeedAssumption
<1>2. SlotOf(n) \in Nat /\ SlotOf(n) < nextSlot' /\ nextSlot' <= MaxPlayers /\ nextSlot' \in Nat
  <2>1. CASE Known(n)
    BY <1>1, <2>1 DEF SlotInv, SlotTypes, GivenBelowNext
  <2>2. CASE ~Known(n)
    BY <1>1, <2>2 DEF SlotInv, SlotTypes, SlotOf, Known, Absent, NoSlot
  <2> QED
    BY <2>1, <2>2
<1>3. playerSlots'[n] = SlotOf(n) /\ \A o \in Names \ {n} : playerSlots'[o] = playerSlots[o]
  BY DEF SlotInv, SlotTypes
<1>4. SlotOf(n)' = SlotOf(n) /\ Known(n)'
  BY <1>1, <1>2, <1>3 DEF SlotOf, Absent, Known, NoSlot
<1>5. \A o \in Names \ {n} : Known(o)' = Known(o)
  BY <1>3 DEF Known, NoSlot
<1>6. \A o \in Names \ {n} : Known(o) => SlotOf(o)' = SlotOf(o)
  BY <1>3, <1>5 DEF SlotOf, Absent, Known, NoSlot
<1>7. SlotTypes'
  BY <1>1, <1>2 DEF SlotInv, SlotTypes, Encoded
<1>8. GivenBelowNext'
  <2> SUFFICES ASSUME NEW o \in Names, Known(o)' PROVE SlotOf(o)' \in Nat /\ SlotOf(o)' < nextSlot'
    BY DEF GivenBelowNext
  <2>1. CASE o = n
    BY <1>2, <1>4, <2>1
  <2>2. CASE o # n
    BY <1>1, <1>5, <1>6, <2>2 DEF SlotInv, SlotTypes, GivenBelowNext
  <2> QED
    BY <2>1, <2>2
<1>9. SlotsAreDistinct'
  <2> SUFFICES ASSUME NEW a \in Names, NEW b \in Names, Known(a)', Known(b)', a # b
               PROVE  SlotOf(a)' # SlotOf(b)'
    BY DEF SlotsAreDistinct
  <2>1. ASSUME NEW o \in Names \ {n}, Known(o)' PROVE SlotOf(o)' # SlotOf(n)
    <3>1. CASE Known(n)
      BY <1>5, <1>6, <2>1, <3>1 DEF SlotInv, SlotsAreDistinct
    <3>2. CASE ~Known(n)
      <4>1. SlotOf(n) = nextSlot
        BY <1>1, <3>2 DEF SlotOf, Known, Absent, NoSlot
      <4>2. SlotOf(o)' \in Nat /\ SlotOf(o)' < nextSlot
        BY <1>5, <1>6, <2>1 DEF SlotInv, GivenBelowNext
      <4> QED
        BY <4>1, <4>2 DEF SlotInv, SlotTypes
    <3> QED
      BY <3>1, <3>2
  <2>2. CASE a = n
    BY <1>4, <2>1, <2>2
  <2>3. CASE b = n
    BY <1>4, <2>1, <2>3
  <2>4. CASE a # n /\ b # n
    BY <1>5, <1>6, <2>4 DEF SlotInv, SlotsAreDistinct
  <2> QED
    BY <2>2, <2>3, <2>4
<1> QED
  BY <1>7, <1>8, <1>9 DEF SlotInv

\* Marking who is absent, and every step that leaves the map alone, keeps slots.
LEMMA MarkSlotInv ==
  ASSUME SlotInv, UNCHANGED nextSlot, MarkAbsent
  PROVE  SlotInv'
<1>1. MaxPlayers \in Nat
  BY FeedAssumption DEF FeedAssumption
<1>2. \A n \in Names : playerSlots[n] \in Encoded
  BY DEF SlotInv, SlotTypes
<1>3. \A n \in Names : Known(n)' = Known(n) /\ SlotOf(n)' = SlotOf(n) /\ playerSlots'[n] \in Encoded
  <2> SUFFICES ASSUME NEW n \in Names
               PROVE  Known(n)' = Known(n) /\ SlotOf(n)' = SlotOf(n) /\ playerSlots'[n] \in Encoded
    OBVIOUS
  <2>1. CASE playerSlots[n] \in Slots /\ n \notin presentNow
    <3>1. playerSlots'[n] = -(playerSlots[n] + 1) /\ playerSlots[n] \in 0 .. MaxPlayers - 1
      BY <2>1 DEF MarkAbsent, Slots
    <3> QED
      BY <1>1, <3>1 DEF Known, SlotOf, Absent, NoSlot, Encoded
  <2>2. CASE ~(playerSlots[n] \in Slots /\ n \notin presentNow)
    <3>1. playerSlots'[n] = playerSlots[n]
      BY <2>2 DEF MarkAbsent
    <3> QED
      BY <1>2, <3>1 DEF Known, SlotOf, Absent, NoSlot
  <2> QED
    BY <2>1, <2>2
<1>4. SlotTypes'
  BY <1>3 DEF SlotInv, SlotTypes, MarkAbsent
<1> QED
  BY <1>3, <1>4 DEF SlotInv, GivenBelowNext, SlotsAreDistinct

\* reset() takes every slot away.
LEMMA ClearSlotInv ==
  ASSUME playerSlots' = [n \in Names |-> NoSlot], nextSlot' = 0
  PROVE  SlotInv'
<1>1. MaxPlayers \in Nat
  BY FeedAssumption DEF FeedAssumption
<1>2. \A n \in Names : ~Known(n)'
  BY DEF Known
<1>3. SlotTypes'
  BY <1>1 DEF SlotTypes, Encoded, NoSlot
<1> QED
  BY <1>2, <1>3 DEF SlotInv, GivenBelowNext, SlotsAreDistinct

\* No step gives a slot twice.
LEMMA SlotInvStep == SlotInv /\ [Next]_vars => SlotInv'
<1> SUFFICES ASSUME SlotInv, [Next]_vars PROVE SlotInv'
  OBVIOUS
<1>1. ASSUME UNCHANGED <<playerSlots, nextSlot>> PROVE SlotInv'
  BY <1>1 DEF SlotInv, SlotTypes, GivenBelowNext, SlotsAreDistinct, Known, SlotOf, Absent
<1>2. CASE Reset
  BY <1>2, ClearSlotInv DEF Reset
<1>3. CASE ResetFails
  BY <1>3, ClearSlotInv DEF ResetFails
<1>4. ASSUME NEW n \in Names, VisitIgnored(n) PROVE SlotInv'
  BY <1>1, <1>4 DEF VisitIgnored
<1>5. ASSUME NEW n \in Names, NEW level, NEW x, VisitPlayer(n, level, x) PROVE SlotInv'
  BY <1>5, VisitSlotInv DEF VisitPlayer
<1>6. CASE EndCycle
  BY <1>6, MarkSlotInv DEF EndCycle
<1>7. CASE Stop
  BY <1>1, <1>7 DEF Stop, slotVars
<1>8. CASE UNCHANGED vars
  BY <1>1, <1>8 DEF vars, slotVars
<1> QED
  BY <1>2, <1>3, <1>4, <1>5, <1>6, <1>7, <1>8 DEF Next, Visit

\* No slot serves two names, for any number of names and slots: the thresholds,
\* deadbands and gates of a player are never mixed with another's
\* (MsgFeed.cpp:203-223, 327-330).
THEOREM SlotsAreOwn == Spec => []SlotsAreDistinct
<1>1. SlotInv => SlotsAreDistinct
  BY DEF SlotInv
<1> QED
  BY <1>1, InitSlotInv, SlotInvStep, PTL DEF Spec

-----------------------------------------------------------------------------
(* The file.                                                               *)

\* Nothing is owed to the disk when the feed is built.
LEMMA InitFlushInv == Init => FlushInv
<1> SUFFICES ASSUME Init PROVE FlushInv
  OBVIOUS
<1>1. opened = FALSE /\ sinceFlush = 0 /\ unflushed = 0
  BY DEF Init
<1>2. FlushEvery \in Nat /\ FlushEvery > 0
  BY FeedAssumption DEF FeedAssumption
<1> QED
  BY <1>1, <1>2 DEF FlushInv, FlushTypes, AgeFollowsFlush

\* Writes, flushes and the close keep the age of the oldest record below the
\* time since the last flush.
LEMMA FlushInvStep == FlushInv /\ [Next]_vars => FlushInv'
<1> SUFFICES ASSUME FlushInv, [Next]_vars PROVE FlushInv'
  OBVIOUS
<1>0. FlushEvery \in Nat /\ FlushEvery > 0
  BY FeedAssumption DEF FeedAssumption
<1>1. ASSUME UNCHANGED sinkVars PROVE FlushInv'
  BY <1>1 DEF sinkVars, FlushInv, FlushTypes, AgeFollowsFlush
<1>2. CASE Reset
  <2>1. opened' = TRUE /\ unflushed' = unflushed /\ sinceFlush' = (IF opened THEN sinceFlush ELSE 0)
    BY <1>2 DEF Reset
  <2>2. FlushTypes'
    BY <1>0, <2>1 DEF FlushInv, FlushTypes
  <2> QED
    BY <2>1, <2>2 DEF FlushInv, FlushTypes, AgeFollowsFlush
<1>3. CASE ResetFails
  BY <1>1, <1>3 DEF ResetFails
<1>4. ASSUME NEW n \in Names, VisitIgnored(n) PROVE FlushInv'
  BY <1>1, <1>4 DEF VisitIgnored
<1>5. ASSUME NEW n \in Names, NEW level, NEW x, VisitPlayer(n, level, x) PROVE FlushInv'
  <2>1. opened' = opened /\ sinceFlush' = sinceFlush
    BY <1>5 DEF VisitPlayer, Write
  <2>2. unflushed' = unflushed \/ (opened /\ unflushed' = 1)
    BY <1>5 DEF VisitPlayer, Write
  <2> QED
    BY <2>1, <2>2 DEF FlushInv, FlushTypes, AgeFollowsFlush
<1>6. CASE EndCycle
  <2>1. opened' = opened
    BY <1>6 DEF EndCycle
  <2>2. CASE ~opened
    BY <1>1, <1>6, <2>1, <2>2 DEF EndCycle, sinkVars
  <2>3. CASE opened /\ sinceFlush + 1 >= FlushEvery
    <3>1. sinceFlush' = 0 /\ unflushed' = 0
      BY <1>6, <2>3 DEF EndCycle
    <3> QED
      BY <1>0, <2>1, <3>1 DEF FlushInv, FlushTypes, AgeFollowsFlush
  <2>4. CASE opened /\ ~(sinceFlush + 1 >= FlushEvery)
    <3>1. sinceFlush' = sinceFlush + 1
      BY <1>6, <2>4 DEF EndCycle
    <3>2. unflushed' = unflushed + 1 \/ unflushed' = 2 \/ unflushed' = 0
      BY <1>6, <2>4 DEF EndCycle
    <3> QED
      BY <1>0, <2>1, <2>4, <3>1, <3>2 DEF FlushInv, FlushTypes, AgeFollowsFlush
  <2> QED
    BY <2>2, <2>3, <2>4
<1>7. CASE Stop
  <2>1. opened' = FALSE /\ unflushed' = 0 /\ sinceFlush' = sinceFlush
    BY <1>7 DEF Stop
  <2> QED
    BY <2>1 DEF FlushInv, FlushTypes, AgeFollowsFlush
<1>8. CASE UNCHANGED vars
  BY <1>1, <1>8 DEF vars
<1> QED
  BY <1>2, <1>3, <1>4, <1>5, <1>6, <1>7, <1>8 DEF Next, Visit

\* A crash never loses more than the records of the last flushEvery cycles, for
\* any interval and any messages (MsgFileSink.cpp:79-106).
THEOREM LossBounded == Spec => []LossIsBounded
<1>1. FlushInv => LossIsBounded
  BY FeedAssumption DEF FeedAssumption, FlushInv, FlushTypes, AgeFollowsFlush, LossIsBounded
<1> QED
  BY <1>1, InitFlushInv, FlushInvStep, PTL DEF Spec

-----------------------------------------------------------------------------
(* One gate.                                                               *)

\* A gate that has waited long enough opens at the next cycle.
LEMMA GateKeepsOK ==
  ASSUME NEW g \in Gates, NEW wants \in BOOLEAN, NEW every \in Nat, GateOK(g, every)
  PROVE  GateOK(GateUpdate(g, wants, every), every)
<1> DEFINE h == GateUpdate(g, wants, every)
<1>1. CASE Opens(g, wants, every)
  <2>1. h = [since |-> 0, pending |-> FALSE]
    BY <1>1 DEF GateUpdate
  <2> QED
    BY <2>1 DEF GateOK
<1>2. CASE ~Opens(g, wants, every)
  <2>1. h = [since   |-> IF g.since < every THEN g.since + 1 ELSE every,
             pending |-> g.pending \/ wants]
    BY <1>2 DEF GateUpdate
  <2>2. h.since = (IF g.since < every THEN g.since + 1 ELSE every)
    BY <2>1
  <2>3. h.pending => g.pending \/ wants
    BY <2>1
  <2>4. h.since \in Nat /\ h.since <= every
    BY <2>2 DEF GateOK
  <2>5. ASSUME h.pending PROVE h.since < every
    BY <1>2, <2>2, <2>3, <2>5 DEF Opens, GateOK
  <2> QED
    BY <2>4, <2>5 DEF GateOK
<1> QED
  BY <1>1, <1>2

\* A gate is updated to a gate.
LEMMA GateKeepsShape ==
  ASSUME NEW g \in Gates, NEW wants \in BOOLEAN, NEW every \in Nat
  PROVE  GateUpdate(g, wants, every) \in Gates
<1>1. g.since \in Nat /\ g.pending \in BOOLEAN
  BY DEF Gates
<1>2. (IF g.since < every THEN g.since + 1 ELSE every) \in Nat
  BY <1>1
<1>3. (g.pending \/ wants) \in BOOLEAN
  BY <1>1
<1>4. CASE Opens(g, wants, every)
  BY <1>4 DEF GateUpdate, Gates
<1>5. CASE ~Opens(g, wants, every)
  BY <1>2, <1>3, <1>5, Zenon DEF GateUpdate, Gates
<1> QED
  BY <1>4, <1>5

\* The wait and the gate of a player advance together, or end together.
LEMMA WaitFollowsGate ==
  ASSUME NEW g \in Gates, NEW wants \in BOOLEAN, NEW every \in Nat, NEW w \in Nat,
         GateOK(g, every), WaitOK(w, g), ~Opens(g, wants, every),
         NEW v, v = IF w > 0 THEN w + 1 ELSE IF wants THEN 1 ELSE 0
  PROVE  WaitOK(v, GateUpdate(g, wants, every))
<1> DEFINE h == GateUpdate(g, wants, every)
<1>0. g.since \in Nat /\ g.since <= every /\ (g.pending => g.since < every)
  BY DEF GateOK
<1>1. h = [since   |-> IF g.since < every THEN g.since + 1 ELSE every,
           pending |-> g.pending \/ wants]
  BY DEF GateUpdate
<1> HIDE DEF h
<1> SUFFICES WaitOK(v, h)
  BY DEF h
<1>2. h.since = (IF g.since < every THEN g.since + 1 ELSE every)
  BY <1>1
<1>3. h.pending = (g.pending \/ wants)
  BY <1>1, Zenon
<1>4. CASE w > 0
  <2>1. g.pending /\ w <= g.since
    BY <1>4 DEF WaitOK
  <2>2. ~(g.since + 1 >= every)
    BY <2>1, Zenon DEF Opens
  <2>3. h.since = g.since + 1
    BY <1>0, <1>2, <2>2
  <2>4. h.pending
    BY <1>3, <2>1, Zenon
  <2>5. v = w + 1
    BY <1>4
  <2> QED
    BY <1>0, <2>1, <2>3, <2>4, <2>5 DEF WaitOK
<1>5. CASE ~(w > 0) /\ wants
  <2>1. ~(g.since + 1 >= every)
    BY <1>5, Zenon DEF Opens
  <2>2. h.since = g.since + 1
    BY <1>0, <1>2, <2>1
  <2>3. h.pending
    BY <1>3, <1>5, Zenon
  <2>4. v = 1
    BY <1>5
  <2> QED
    BY <1>0, <2>2, <2>3, <2>4 DEF WaitOK
<1>6. CASE ~(w > 0) /\ ~wants
  BY <1>6 DEF WaitOK
<1> QED
  BY <1>4, <1>5, <1>6
-----------------------------------------------------------------------------
(* The feed.                                                               *)

\* Nobody waits when the feed is built or reset.
LEMMA FreshWaits ==
  ASSUME gate' = Initial.gate, waiting' = Nobody.waiting
  PROVE  GateShape' /\ GatesOK' /\ Waits'
<1>1. Every \in [Messages -> Nat]
  BY FeedAssumption DEF FeedAssumption
<1>2. gate' = [m \in Messages |-> [s \in Slots |-> Overdue(Every[m])]]
  BY DEF Initial
<1>3. waiting' = [m \in Messages |-> [n \in Names |-> 0]]
  BY DEF Nobody
<1>4. GateShape'
  BY <1>1, <1>2 DEF GateShape, Overdue, Gates
<1>5. GatesOK'
  BY <1>1, <1>2 DEF GatesOK, GateOK, Overdue
<1>6. Waits'
  BY <1>3 DEF Waits
<1> QED
  BY <1>4, <1>5, <1>6

\* What a visit finds in its slot is a gate that counts.
LEMMA FoundGate ==
  ASSUME WaitInv, NEW n \in Names, NEW m \in Messages, SlotOf(n) \in Slots
  PROVE  GateOf(n, m) \in Gates /\ GateOK(GateOf(n, m), Every[m])
<1>1. Every[m] \in Nat
  BY FeedAssumption DEF FeedAssumption
<1>2. CASE Absent(n)
  <2>1. GateOf(n, m) = [since |-> Every[m], pending |-> FALSE]
    BY <1>2 DEF GateOf, Overdue
  <2> QED
    BY <1>1, <2>1 DEF Gates, GateOK
<1>3. CASE ~Absent(n)
  <2>1. GateOf(n, m) = gate[m][SlotOf(n)]
    BY <1>3 DEF GateOf
  <2>2. gate[m][SlotOf(n)] \in Gates
    BY DEF WaitInv, GateShape
  <2>3. GateOK(gate[m][SlotOf(n)], Every[m])
    BY DEF WaitInv, GatesOK
  <2> QED
    BY <2>1, <2>2, <2>3
<1> QED
  BY <1>2, <1>3

\* Who waits has been found there, and its gate is the one of its slot.
LEMMA FoundWait ==
  ASSUME WaitInv, NEW n \in Names, NEW m \in Messages
  PROVE  waiting[m][n] \in Nat /\ WaitOK(waiting[m][n], GateOf(n, m))
<1>1. waiting[m][n] \in Nat
  BY DEF WaitInv, Waits
<1>2. CASE waiting[m][n] > 0
  <2>1. Here(n) /\ WaitOK(waiting[m][n], gate[m][playerSlots[n]])
    BY <1>2 DEF WaitInv, Waits
  <2>2. MaxPlayers \in Nat
    BY FeedAssumption DEF FeedAssumption
  <2>3. ~Absent(n) /\ SlotOf(n) = playerSlots[n]
    BY <2>1, <2>2 DEF Here, Slots, Absent, SlotOf, Known, NoSlot
  <2> QED
    BY <1>1, <2>1, <2>3 DEF GateOf
<1>3. CASE ~(waiting[m][n] > 0)
  BY <1>1, <1>3 DEF WaitOK
<1> QED
  BY <1>2, <1>3

\* A visit to a player: its own gates and waits advance, and those of the others
\* stay, because its slot is its own.
LEMMA VisitWaits ==
  ASSUME WaitInv, SlotInv', NEW n \in Names, NEW level, NEW x, VisitPlayer(n, level, x),
         waiting' = [m \in Messages |-> [waiting[m] EXCEPT ![n] =
           IF m \in WantedBy(n)
           THEN WaitingAfter(n, m, Emitted(n, level, x), Wants(n, m, level, x)) ELSE @]]
  PROVE  GateShape' /\ GatesOK' /\ Waits'
<1> DEFINE s == SlotOf(n)
           new(m) == IF m \in WantedBy(n)
                     THEN GateUpdate(GateOf(n, m), Wants(n, m, level, x), Every[m])
                     ELSE GateOf(n, m)
           wait(m) == IF m \in WantedBy(n)
                      THEN WaitingAfter(n, m, Emitted(n, level, x), Wants(n, m, level, x))
                      ELSE waiting[m][n]
<1>1. MaxPlayers \in Nat /\ Every \in [Messages -> Nat]
  BY FeedAssumption DEF FeedAssumption
<1>2. playerSlots' = [playerSlots EXCEPT ![n] = s]
  BY DEF VisitPlayer
<1>3. s \in Slots
  <2>1. CASE Known(n)
    <3>1. s \in Nat /\ s < nextSlot /\ nextSlot \in Nat /\ nextSlot <= MaxPlayers
      BY <2>1 DEF WaitInv, SlotInv, SlotTypes, GivenBelowNext
    <3> HIDE DEF s
    <3> QED
      BY <1>1, <3>1 DEF Slots
  <2>2. CASE ~Known(n)
    <3>1. s = nextSlot
      BY <1>1, <2>2 DEF SlotOf, Known, Absent, NoSlot
    <3>2. nextSlot \in Nat /\ nextSlot < MaxPlayers
      BY <2>2 DEF VisitPlayer, WaitInv, SlotInv, SlotTypes
    <3> HIDE DEF s
    <3> QED
      BY <1>1, <3>1, <3>2 DEF Slots
  <2> QED
    BY <2>1, <2>2
<1>4. playerSlots'[n] = s /\ \A o \in Names \ {n} : playerSlots'[o] = playerSlots[o]
  BY <1>2 DEF WaitInv, SlotInv, SlotTypes
<1>5. \A m \in Messages : gate'[m] = [gate[m] EXCEPT ![s] = new(m)]
  BY DEF VisitPlayer
<1>6. \A m \in Messages : Wants(n, m, level, x) \in BOOLEAN
  BY DEF Wants
<1>7. \A m \in Messages : new(m) \in Gates /\ GateOK(new(m), Every[m])
  <2> SUFFICES ASSUME NEW m \in Messages PROVE new(m) \in Gates /\ GateOK(new(m), Every[m])
    OBVIOUS
  <2>1. GateOf(n, m) \in Gates /\ GateOK(GateOf(n, m), Every[m])
    BY <1>3, FoundGate
  <2>2. Every[m] \in Nat
    BY <1>1
  <2>3. GateUpdate(GateOf(n, m), Wants(n, m, level, x), Every[m]) \in Gates
    BY <1>6, <2>1, <2>2, GateKeepsShape
  <2>4. GateOK(GateUpdate(GateOf(n, m), Wants(n, m, level, x), Every[m]), Every[m])
    BY <1>6, <2>1, <2>2, GateKeepsOK
  <2> QED
    BY <2>1, <2>3, <2>4
<1>8. \A m \in Messages : wait(m) \in Nat /\ WaitOK(wait(m), new(m))
  <2> SUFFICES ASSUME NEW m \in Messages PROVE wait(m) \in Nat /\ WaitOK(wait(m), new(m))
    OBVIOUS
  <2> DEFINE g == GateOf(n, m)
             wants == Wants(n, m, level, x)
             w == waiting[m][n]
  <2>1. g \in Gates /\ GateOK(g, Every[m]) /\ Every[m] \in Nat /\ wants \in BOOLEAN
    BY <1>1, <1>3, <1>6, FoundGate
  <2>2. w \in Nat /\ WaitOK(w, g)
    BY FoundWait
  <2>3. CASE m \notin WantedBy(n)
    BY <2>2, <2>3
  <2>4. CASE m \in WantedBy(n) /\ Opens(g, wants, Every[m])
    <3>1. m \in Emitted(n, level, x)
      BY <2>4 DEF Emitted
    <3>2. wait(m) = 0
      BY <2>4, <3>1 DEF WaitingAfter
    <3> HIDE DEF wait, new
    <3> QED
      BY <3>2 DEF WaitOK
  <2>5. CASE m \in WantedBy(n) /\ ~Opens(g, wants, Every[m])
    <3>1. m \notin Emitted(n, level, x)
      BY <2>5 DEF Emitted
    <3>2. wait(m) = (IF w > 0 THEN w + 1 ELSE IF wants THEN 1 ELSE 0)
      BY <2>5, <3>1 DEF WaitingAfter
    <3>3. new(m) = GateUpdate(g, wants, Every[m])
      BY <2>5
    <3> HIDE DEF wait, new, g, wants, w
    <3>4. wait(m) \in Nat
      BY <2>2, <3>2
    <3>5. WaitOK(wait(m), GateUpdate(g, wants, Every[m]))
      BY <2>1, <2>2, <2>5, <3>2, WaitFollowsGate
    <3> QED
      BY <3>3, <3>4, <3>5
  <2> QED
    BY <2>3, <2>4, <2>5
<1>9. \A m \in Messages : waiting'[m] = [waiting[m] EXCEPT ![n] = wait(m)]
  OBVIOUS
<1> HIDE DEF new, wait
<1>10. GateShape'
  <2>1. gate' = [m \in Messages |-> [gate[m] EXCEPT ![s] = new(m)]]
    BY DEF VisitPlayer, new
  <2> QED
    BY <1>3, <1>7, <2>1 DEF WaitInv, GateShape
<1>11. \A m \in Messages : gate'[m][s] = new(m)
  BY <1>3, <1>5 DEF WaitInv, GateShape
<1>12. \A m \in Messages, r \in Slots \ {s} : gate'[m][r] = gate[m][r]
  <2> SUFFICES ASSUME NEW m \in Messages, NEW r \in Slots \ {s} PROVE gate'[m][r] = gate[m][r]
    OBVIOUS
  <2>1. gate[m] \in [Slots -> Gates]
    BY DEF WaitInv, GateShape
  <2> HIDE DEF s
  <2> QED
    BY <1>5, <2>1
<1>13. GatesOK'
  BY <1>7, <1>11, <1>12 DEF WaitInv, GatesOK
<1>14. waiting' \in [Messages -> [Names -> Nat]]
  <2>1. waiting' = [m \in Messages |-> [waiting[m] EXCEPT ![n] = wait(m)]]
    BY DEF wait
  <2> QED
    BY <1>8, <2>1 DEF WaitInv, Waits
<1>15. ASSUME NEW m \in Messages, NEW o \in Names, waiting'[m][o] > 0
       PROVE  Here(o)' /\ WaitOK(waiting'[m][o], gate'[m][playerSlots'[o]])
  <2>1. CASE o = n
    <3>1. waiting'[m][o] = wait(m)
      BY <1>9, <2>1 DEF WaitInv, Waits
    <3> QED
      BY <1>3, <1>4, <1>8, <1>11, <2>1, <3>1 DEF Here
  <2>2. CASE o # n
    <3>1. waiting'[m][o] = waiting[m][o]
      BY <1>9, <2>2 DEF WaitInv, Waits
    <3>2. Here(o) /\ WaitOK(waiting[m][o], gate[m][playerSlots[o]])
      BY <1>15, <3>1 DEF WaitInv, Waits
    <3>3. playerSlots'[o] = playerSlots[o] /\ playerSlots[o] \in Slots
      BY <1>4, <2>2, <3>2 DEF Here
    <3>4. playerSlots'[o] # s
      <4>1. Known(o)' /\ Known(n)' /\ SlotOf(o)' = playerSlots'[o] /\ SlotOf(n)' = s
        BY <1>1, <1>3, <1>4, <3>3 DEF Known, SlotOf, Absent, Slots, NoSlot
      <4> QED
        BY <2>2, <4>1 DEF SlotInv, SlotsAreDistinct
    <3> QED
      BY <1>12, <3>1, <3>2, <3>3, <3>4 DEF Here
  <2> QED
    BY <2>1, <2>2
<1>16. Waits'
  BY <1>14, <1>15 DEF Waits
<1> QED
  BY <1>10, <1>13, <1>16

\* The end of a cycle forgets those who were not in the list, and nobody else.
LEMMA EndWaits ==
  ASSUME WaitInv, EndCycle, waiting' = Forget(waiting, Nobody.waiting)
  PROVE  GateShape' /\ GatesOK' /\ Waits'
<1>1. gate' = gate
  BY DEF EndCycle, stateVars
<1>2. GateShape' /\ GatesOK'
  BY <1>1 DEF WaitInv, GateShape, GatesOK
<1>3. waiting' = [m \in Messages |-> [n \in Names |->
                    IF n \in presentNow THEN waiting[m][n] ELSE 0]]
  BY DEF Forget, Nobody, WaitInv, Waits
<1>4. waiting' \in [Messages -> [Names -> Nat]]
  BY <1>3 DEF WaitInv, Waits
<1>5. ASSUME NEW m \in Messages, NEW n \in Names, waiting'[m][n] > 0
      PROVE  Here(n)' /\ WaitOK(waiting'[m][n], gate'[m][playerSlots'[n]])
  <2>1. n \in presentNow /\ waiting'[m][n] = waiting[m][n]
    BY <1>3, <1>5
  <2>2. playerSlots'[n] = playerSlots[n]
    BY <2>1 DEF EndCycle, MarkAbsent
  <2>3. Here(n) /\ WaitOK(waiting[m][n], gate[m][playerSlots[n]])
    BY <1>5, <2>1 DEF WaitInv, Waits
  <2> QED
    BY <1>1, <2>1, <2>2, <2>3 DEF Here
<1> QED
  BY <1>2, <1>4, <1>5 DEF Waits

\* Every step of the feed keeps gates and waits together.
LEMMA WaitInvStep == WaitInv /\ [FNext]_feedVars => WaitInv'
<1> SUFFICES ASSUME WaitInv, [FNext]_feedVars PROVE WaitInv'
  OBVIOUS
<1>1. [Next]_vars
  BY DEF FNext, FReset, FVisit, FEndCycle, Next, Visit, feedVars
<1>2. SlotInv'
  BY <1>1, SlotInvStep DEF WaitInv
<1>3. ASSUME UNCHANGED <<gate, waiting>>, \A n \in Names : Here(n) => playerSlots'[n] = playerSlots[n]
      PROVE  WaitInv'
  <2>1. GateShape' /\ GatesOK'
    BY <1>3 DEF WaitInv, GateShape, GatesOK
  <2>2. Waits'
    BY <1>3 DEF WaitInv, Waits, Here
  <2> QED
    BY <1>2, <2>1, <2>2 DEF WaitInv
<1>4. CASE Reset /\ waiting' = Nobody.waiting
  BY <1>2, <1>4, FreshWaits DEF Reset, WaitInv
<1>5. CASE ResetFails /\ waiting' = Nobody.waiting
  <2>1. gate' = gate
    BY <1>5 DEF ResetFails, stateVars
  <2>2. GateShape' /\ GatesOK'
    BY <2>1 DEF WaitInv, GateShape, GatesOK
  <2>3. waiting' = [m \in Messages |-> [n \in Names |-> 0]]
    BY <1>5 DEF Nobody
  <2>4. Waits'
    BY <2>3 DEF Waits
  <2> QED
    BY <1>2, <2>2, <2>4 DEF WaitInv
<1>6. ASSUME NEW n \in Names, VisitIgnored(n), UNCHANGED historyVars PROVE WaitInv'
  BY <1>3, <1>6 DEF VisitIgnored, stateVars, historyVars
<1>7. ASSUME NEW n \in Names, NEW level, NEW x, VisitPlayer(n, level, x),
             waiting' = [m \in Messages |-> [waiting[m] EXCEPT ![n] =
               IF m \in WantedBy(n)
               THEN WaitingAfter(n, m, Emitted(n, level, x), Wants(n, m, level, x)) ELSE @]]
      PROVE  WaitInv'
  BY <1>2, <1>7, VisitWaits DEF WaitInv
<1>8. CASE FEndCycle
  BY <1>2, <1>8, EndWaits DEF FEndCycle, WaitInv
<1>9. CASE Stop /\ UNCHANGED historyVars
  BY <1>3, <1>9 DEF Stop, stateVars, slotVars, historyVars
<1>10. CASE UNCHANGED feedVars
  BY <1>3, <1>10 DEF feedVars, vars, slotVars, stateVars, historyVars
<1>11. ASSUME NEW n \in Names, FVisit(n) PROVE WaitInv'
  BY <1>6, <1>7, <1>11 DEF FVisit
<1>12. CASE FReset
  BY <1>4, <1>5, <1>12 DEF FReset
<1> QED
  BY <1>8, <1>9, <1>10, <1>11, <1>12 DEF FNext

\* Nobody waits, and no slot is given, when the feed is built.
LEMMA InitWaitInv == FInit => WaitInv
<1> SUFFICES ASSUME FInit PROVE WaitInv
  OBVIOUS
<1>1. Every \in [Messages -> Nat]
  BY FeedAssumption DEF FeedAssumption
<1>2. gate = [m \in Messages |-> [s \in Slots |-> Overdue(Every[m])]]
  BY DEF FInit, Init, Initial
<1>3. waiting = [m \in Messages |-> [n \in Names |-> 0]]
  BY DEF FInit, Nobody
<1>4. GateShape
  BY <1>1, <1>2 DEF GateShape, Overdue, Gates
<1>5. GatesOK
  BY <1>1, <1>2 DEF GatesOK, GateOK, Overdue
<1>6. Waits
  BY <1>3 DEF Waits
<1> QED
  BY <1>4, <1>5, <1>6, InitSlotInv DEF FInit, WaitInv

\* A deferred event waits less than every, for any interval and whatever comes,
\* goes or fires meanwhile (EmitGate.cpp:25-46, MsgFeed.cpp:285-330).
THEOREM LatencyBounded == FSpec => []LatencyIsBounded
<1>1. WaitInv => LatencyIsBounded
  <2> SUFFICES ASSUME WaitInv, NEW m \in Messages, NEW n \in Names, waiting[m][n] > 0
               PROVE  waiting[m][n] < Every[m]
    BY DEF LatencyIsBounded
  <2>1. Here(n) /\ WaitOK(waiting[m][n], gate[m][playerSlots[n]]) /\ waiting[m][n] \in Nat
    BY DEF WaitInv, Waits
  <2>2. GateOK(gate[m][playerSlots[n]], Every[m])
    BY <2>1 DEF WaitInv, GatesOK, Here
  <2>3. Every[m] \in Nat
    BY FeedAssumption DEF FeedAssumption
  <2> QED
    BY <2>1, <2>2, <2>3 DEF WaitOK, GateOK
<1> QED
  BY <1>1, InitWaitInv, WaitInvStep, PTL DEF FSpec

-----------------------------------------------------------------------------
(* One threshold and one deadband.                                         *)

\* A threshold counts with the field, and arms only when both are over.
LEMMA SchmittCounts ==
  ASSUME NEW st \in SchmittStates, NEW k \in Nat, NEW hold \in Nat, NEW level, CountOK(st, k),
         NEW new, new = SchmittUpdate(st, level, hold),
         NEW j, j = IF level = Invalid THEN k
                    ELSE IF level # "on" THEN 0
                    ELSE IF k < hold THEN k + 1 ELSE k
  PROVE  /\ new \in SchmittStates /\ j \in Nat /\ CountOK(new, j)
         /\ ~st.active /\ new.active => j >= hold
<1> DEFINE timer == (IF st.candidate THEN st.timer ELSE 0) + 1
<1>1. st.timer \in Nat /\ st.active \in BOOLEAN /\ st.candidate \in BOOLEAN
  BY DEF SchmittStates
<1>2. timer \in Nat /\ (~st.active => timer <= k + 1)
  BY <1>1 DEF CountOK
<1>3. Calm \in SchmittStates /\ [Calm EXCEPT !.active = TRUE] \in SchmittStates
  BY DEF Calm, SchmittStates
<1>4. CASE level = Invalid
  BY <1>4 DEF SchmittUpdate
<1>5. CASE level # Invalid /\ ~Raw(st, level)
  <2>1. new = Calm /\ level # "on"
    BY <1>5 DEF SchmittUpdate, Raw
  <2> QED
    BY <1>3, <1>5, <2>1 DEF Calm, CountOK
<1>6. CASE level # Invalid /\ Raw(st, level) /\ st.active
  <2>1. new = st
    BY <1>6 DEF SchmittUpdate
  <2> QED
    BY <1>6, <2>1 DEF CountOK
<1>7. CASE level # Invalid /\ Raw(st, level) /\ ~st.active
  <2>1. level = "on" /\ j = IF k < hold THEN k + 1 ELSE k
    BY <1>7 DEF Raw
  <2>2. CASE timer >= hold
    <3>1. new = [Calm EXCEPT !.active = TRUE]
      BY <1>7, <2>2 DEF SchmittUpdate
    <3>2. new.active
      BY <3>1 DEF Calm
    <3> HIDE DEF timer
    <3>3. j \in Nat /\ j >= hold
      BY <1>2, <1>7, <2>1, <2>2
    <3>4. new \in SchmittStates /\ CountOK(new, j)
      BY <1>3, <3>1, <3>2 DEF CountOK
    <3> QED
      BY <3>3, <3>4
  <2>3. CASE ~(timer >= hold)
    <3>1. new = [active |-> FALSE, candidate |-> TRUE, timer |-> timer]
      BY <1>7, <2>3 DEF SchmittUpdate
    <3> HIDE DEF timer
    <3>2. new \in SchmittStates
      BY <1>2, <3>1 DEF SchmittStates
    <3> QED
      BY <1>2, <1>7, <2>1, <2>3, <3>1, <3>2 DEF CountOK
  <2> QED
    BY <2>2, <2>3
<1> QED
  BY <1>4, <1>5, <1>6, <1>7

\* What is sampled and what is kept of it are numbers.
LEMMA ValuesRead ==
  ASSUME NEW d \in Deadbands, NEW x \in Reading
  PROVE  x.v \in Int /\ d.last \in Int /\ x.v \in Values \cup {0}
<1>1. d.last \in Values \cup {0}
  BY DEF Deadbands
<1>2. x.v \in Values \cup {0}
  <2>1. CASE \E v \in Values : x = [has |-> TRUE, v |-> v]
    BY <2>1
  <2>2. CASE x = [has |-> FALSE, v |-> 0]
    BY <2>2
  <2>3. x \in {[has |-> TRUE, v |-> v] : v \in Values} \/ x = [has |-> FALSE, v |-> 0]
    BY DEF Reading
  <2> QED
    BY <2>1, <2>2, <2>3
<1>3. \A i \in Values \cup {0} : i \in Int
  BY FeedAssumption DEF FeedAssumption
<1> QED
  BY <1>1, <1>2, <1>3

\* A deadband is updated to a deadband, which a value is near after it was read.
LEMMA DeadbandNear ==
  ASSUME NEW d \in Deadbands, NEW c \in Changes, NEW x \in Reading,
         NEW e, e = DeadbandUpdate(d, x, By[c])
  PROVE  /\ e \in Deadbands
         /\ ~x.has => e = d
         /\ x.has /\ Moved(d, x, By[c]) => e.has /\ e.last = x.v
         /\ x.has /\ ~Moved(d, x, By[c]) => e = d /\ d.has /\ Distance(x.v, d.last) < Step(c)
         /\ x.has => Distance(x.v, e.last) < Step(c)
<1>1. Step(c) \in Nat \ {0} /\ Values \subseteq Int
  BY FeedAssumption DEF FeedAssumption, Step
<1>2. x.v \in Int /\ d.last \in Int /\ x.v \in Values \cup {0}
  BY ValuesRead
<1>3. Distance(x.v, d.last) \in Nat /\ Distance(x.v, x.v) = 0
  BY <1>2 DEF Distance
<1>4. Moved(d, x, By[c]) <=> x.has /\ (d.has => Distance(x.v, d.last) >= Step(c))
  BY DEF Moved, Step
<1>5. CASE Moved(d, x, By[c])
  <2>1. e = [has |-> TRUE, last |-> x.v] /\ x.has
    BY <1>4, <1>5 DEF DeadbandUpdate
  <2>2. e \in Deadbands /\ e.has /\ e.last = x.v
    BY <1>2, <2>1 DEF Deadbands
  <2> QED
    BY <1>1, <1>3, <1>5, <2>1, <2>2
<1>6. CASE ~Moved(d, x, By[c])
  <2>1. e = d
    BY <1>6 DEF DeadbandUpdate
  <2>2. x.has => d.has /\ Distance(x.v, d.last) < Step(c)
    BY <1>1, <1>3, <1>4, <1>6
  <2> QED
    BY <1>6, <2>1, <2>2
<1> QED
  BY <1>5, <1>6

-----------------------------------------------------------------------------
(* What a visit finds.                                                     *)

\* A visit to a player finds or gives a slot that is nobody else's.
LEMMA VisitSlot ==
  ASSUME SlotInv, NEW n \in Names, Known(n) \/ nextSlot < MaxPlayers
  PROVE  /\ SlotOf(n) \in Slots
         /\ ~Known(n) => SlotOf(n) = nextSlot /\ ~Absent(n)
         /\ Here(n) => SlotOf(n) = playerSlots[n] /\ ~Absent(n)
         /\ Known(n) /\ ~Absent(n) => Here(n)
         /\ \A o \in Names \ {n} : Here(o) => playerSlots[o] # SlotOf(n)
<1>1. MaxPlayers \in Nat /\ nextSlot \in Nat /\ nextSlot <= MaxPlayers
  BY FeedAssumption DEF FeedAssumption, SlotInv, SlotTypes
<1>2. \A o \in Names : playerSlots[o] \in Encoded
  BY DEF SlotInv, SlotTypes
<1>3. ~Known(n) => SlotOf(n) = nextSlot /\ ~Absent(n)
  BY <1>1 DEF SlotOf, Known, Absent, NoSlot
<1>4. \A o \in Names : Here(o) => Known(o) /\ SlotOf(o) = playerSlots[o] /\ ~Absent(o)
  BY <1>1 DEF Here, Slots, Absent, SlotOf, Known, NoSlot
<1>5. SlotOf(n) \in Slots
  <2>1. CASE Known(n)
    BY <1>1, <2>1 DEF SlotInv, GivenBelowNext, Slots
  <2>2. CASE ~Known(n)
    BY <1>1, <1>3, <2>2 DEF Slots
  <2> QED
    BY <2>1, <2>2
<1>6. Known(n) /\ ~Absent(n) => Here(n)
  BY <1>1, <1>2 DEF Known, Absent, NoSlot, Here, Slots, Encoded
<1>7. ASSUME NEW o \in Names \ {n}, Here(o) PROVE playerSlots[o] # SlotOf(n)
  <2>1. Known(o) /\ SlotOf(o) = playerSlots[o]
    BY <1>4, <1>7
  <2>2. CASE Known(n)
    BY <2>1, <2>2 DEF SlotInv, SlotsAreDistinct
  <2>3. CASE ~Known(n)
    BY <1>1, <1>3, <2>1, <2>3 DEF SlotInv, GivenBelowNext
  <2> QED
    BY <2>2, <2>3
<1> QED
  BY <1>3, <1>4, <1>5, <1>6, <1>7

LEMMA FoundRules ==
  ASSUME RuleInv, ready, NEW n \in Names, Known(n) \/ nextSlot < MaxPlayers
  PROVE  /\ \A c \in Thresholds :
              /\ SchmittOf(n, c) \in SchmittStates
              /\ CountOK(SchmittOf(n, c), held[c][n])
              /\ Here(n) => SchmittOf(n, c) = schmitt[c][playerSlots[n]]
              /\ ~Here(n) => SchmittOf(n, c) = Calm
         /\ \A c \in Changes :
              /\ DeadbandOf(n, c) \in Deadbands
              /\ Here(n) => DeadbandOf(n, c) = deadband[c][playerSlots[n]]
              /\ ~Here(n) => DeadbandOf(n, c) = Blank
<1>1. /\ SlotOf(n) \in Slots
      /\ ~Known(n) => SlotOf(n) = nextSlot /\ ~Absent(n)
      /\ Here(n) => SlotOf(n) = playerSlots[n] /\ ~Absent(n)
      /\ Known(n) /\ ~Absent(n) => Here(n)
  BY VisitSlot DEF RuleInv
<1>2. nextSlot \in Nat
  BY DEF RuleInv, SlotInv, SlotTypes
<1>3. Calm \in SchmittStates /\ Blank \in Deadbands
  BY DEF Calm, SchmittStates, Blank, Deadbands
<1>4. ASSUME NEW c \in Thresholds
      PROVE  /\ SchmittOf(n, c) \in SchmittStates
             /\ CountOK(SchmittOf(n, c), held[c][n])
             /\ Here(n) => SchmittOf(n, c) = schmitt[c][playerSlots[n]]
             /\ ~Here(n) => SchmittOf(n, c) = Calm
  <2>1. CASE Here(n)
    BY <1>1, <2>1 DEF SchmittOf, RuleInv
  <2>2. CASE ~Here(n)
    <3>1. SchmittOf(n, c) = Calm
      BY <1>1, <1>2, <2>2 DEF SchmittOf, RuleInv, Fresh
    <3> QED
      BY <1>3, <2>2, <3>1 DEF CountOK, Calm
  <2> QED
    BY <2>1, <2>2
<1>5. ASSUME NEW c \in Changes
      PROVE  /\ DeadbandOf(n, c) \in Deadbands
             /\ Here(n) => DeadbandOf(n, c) = deadband[c][playerSlots[n]]
             /\ ~Here(n) => DeadbandOf(n, c) = Blank
  <2>1. CASE Here(n)
    BY <1>1, <2>1 DEF DeadbandOf, RuleInv
  <2>2. CASE ~Here(n)
    <3>1. DeadbandOf(n, c) = Blank
      BY <1>1, <1>2, <2>2 DEF DeadbandOf, RuleInv, Fresh
    <3> QED
      BY <1>3, <2>2, <3>1
  <2> QED
    BY <2>1, <2>2
<1> QED
  BY <1>4, <1>5

\* A visit to a player: its own rules advance, the others' stay.
LEMMA VisitRules ==
  ASSUME RuleInv, SlotInv', NEW n \in Names, NEW level,
         NEW x \in [Asked(n) \cap Changes -> Reading], VisitPlayer(n, level, x),
         held' = [c \in Thresholds |-> [held[c] EXCEPT ![n] =
           IF c \in Asked(n) THEN HeldAfter(n, c, level[c]) ELSE @]]
  PROVE  /\ RuleInv'
         /\ \A c \in Thresholds, o \in Names : ~Armed(c, o) /\ Armed(c, o)' => held'[c][o] >= Hold[c]
         /\ playerSlots'[n] = SlotOf(n) /\ SlotOf(n) \in Slots /\ Here(n)'
         /\ \A o \in Names \ {n} : /\ playerSlots'[o] = playerSlots[o]
                                   /\ Here(o)' => /\ Here(o)
                                                  /\ \A c \in Changes : deadband'[c][playerSlots[o]] = deadband[c][playerSlots[o]]
         /\ \A c \in Changes : deadband'[c][SlotOf(n)] =
              IF c \in Asked(n) THEN DeadbandUpdate(DeadbandOf(n, c), x[c], By[c]) ELSE DeadbandOf(n, c)
<1> DEFINE s == SlotOf(n)
           st(c) == IF c \in Asked(n) THEN SchmittUpdate(SchmittOf(n, c), level[c], Hold[c])
                    ELSE SchmittOf(n, c)
           db(c) == IF c \in Asked(n) THEN DeadbandUpdate(DeadbandOf(n, c), x[c], By[c])
                    ELSE DeadbandOf(n, c)
           hd(c) == IF c \in Asked(n) THEN HeldAfter(n, c, level[c]) ELSE held[c][n]
<1>1. /\ ready /\ ready' = ready /\ (Known(n) \/ nextSlot < MaxPlayers)
      /\ nextSlot' = IF Known(n) THEN nextSlot ELSE nextSlot + 1
      /\ playerSlots' = [playerSlots EXCEPT ![n] = s]
      /\ schmitt' = [c \in Thresholds |-> [schmitt[c] EXCEPT ![s] = st(c)]]
      /\ deadband' = [c \in Changes |-> [deadband[c] EXCEPT ![s] = db(c)]]
  BY DEF VisitPlayer
<1>2. /\ s \in Slots
      /\ ~Known(n) => s = nextSlot /\ ~Absent(n)
      /\ \A o \in Names \ {n} : Here(o) => playerSlots[o] # s
  BY <1>1, VisitSlot DEF RuleInv
<1>3. playerSlots'[n] = s /\ \A o \in Names \ {n} : playerSlots'[o] = playerSlots[o]
  BY <1>1 DEF RuleInv, SlotInv, SlotTypes
<1>4. ASSUME NEW c \in Thresholds
      PROVE  /\ st(c) \in SchmittStates /\ hd(c) \in Nat /\ CountOK(st(c), hd(c))
             /\ ~SchmittOf(n, c).active /\ st(c).active => hd(c) >= Hold[c]
  <2>1. SchmittOf(n, c) \in SchmittStates /\ CountOK(SchmittOf(n, c), held[c][n])
    BY <1>1, FoundRules
  <2>2. held[c][n] \in Nat /\ Hold[c] \in Nat
    BY FeedAssumption DEF FeedAssumption, RuleInv
  <2>3. CASE c \notin Asked(n)
    BY <2>1, <2>2, <2>3
  <2>4. CASE c \in Asked(n)
    <3>1. hd(c) = IF level[c] = Invalid THEN held[c][n]
                  ELSE IF level[c] # "on" THEN 0
                  ELSE IF held[c][n] < Hold[c] THEN held[c][n] + 1 ELSE held[c][n]
      BY <2>4 DEF HeldAfter
    <3>2. st(c) = SchmittUpdate(SchmittOf(n, c), level[c], Hold[c])
      BY <2>4
    <3> HIDE DEF st, hd
    <3> QED
      BY <2>1, <2>2, <3>1, <3>2, SchmittCounts
  <2> QED
    BY <2>3, <2>4
<1>5. ASSUME NEW c \in Changes PROVE db(c) \in Deadbands
  <2>1. DeadbandOf(n, c) \in Deadbands
    BY <1>1, FoundRules
  <2>2. CASE c \in Asked(n)
    <3>1. x[c] \in Reading
      BY <2>2
    <3> QED
      BY <2>1, <2>2, <3>1, DeadbandNear
  <2> QED
    BY <2>1, <2>2
<1>6. \A c \in Thresholds : held'[c] = [held[c] EXCEPT ![n] = hd(c)]
  OBVIOUS
<1>7. \A c \in Thresholds, o \in Names : held'[c][o] = IF o = n THEN hd(c) ELSE held[c][o]
  BY <1>6 DEF RuleInv
<1> HIDE DEF s, st, db, hd
<1>8. \A c \in Thresholds, r \in Slots : schmitt'[c][r] = IF r = s THEN st(c) ELSE schmitt[c][r]
  BY <1>1, <1>2 DEF RuleInv
<1>9. \A c \in Changes, r \in Slots : deadband'[c][r] = IF r = s THEN db(c) ELSE deadband[c][r]
  BY <1>1, <1>2 DEF RuleInv
<1>10. schmitt' \in [Thresholds -> [Slots -> SchmittStates]]
  BY <1>1, <1>2, <1>4 DEF RuleInv
<1>11. deadband' \in [Changes -> [Slots -> Deadbands]]
  BY <1>1, <1>2, <1>5 DEF RuleInv
<1>12. held' \in [Thresholds -> [Names -> Nat]]
  <2>1. held' = [c \in Thresholds |-> [held[c] EXCEPT ![n] = hd(c)]]
    BY DEF hd
  <2> QED
    BY <1>4, <2>1 DEF RuleInv
<1>13. Fresh'
  <2> SUFFICES ASSUME NEW r \in Slots, r >= nextSlot'
               PROVE  r # s /\ r >= nextSlot
    BY <1>1, <1>8, <1>9 DEF RuleInv, Fresh
  <2>1. r \in Int /\ nextSlot \in Nat
    BY FeedAssumption DEF FeedAssumption, Slots, RuleInv, SlotInv, SlotTypes
  <2>2. CASE Known(n)
    BY <1>1, <2>1, <2>2 DEF RuleInv, SlotInv, GivenBelowNext, s
  <2>3. CASE ~Known(n)
    BY <1>1, <1>2, <2>1, <2>3
  <2> QED
    BY <2>2, <2>3
<1>14. ASSUME NEW o \in Names \ {n}, Here(o)'
       PROVE  /\ Here(o) /\ playerSlots'[o] = playerSlots[o] /\ playerSlots[o] \in Slots \ {s}
              /\ \A c \in Thresholds : schmitt'[c][playerSlots[o]] = schmitt[c][playerSlots[o]]
              /\ \A c \in Changes : deadband'[c][playerSlots[o]] = deadband[c][playerSlots[o]]
  <2>1. playerSlots'[o] = playerSlots[o] /\ Here(o)
    BY <1>3, <1>14 DEF Here
  <2>2. playerSlots[o] \in Slots /\ playerSlots[o] # s
    BY <1>2, <2>1 DEF Here
  <2> QED
    BY <1>8, <1>9, <2>1, <2>2
<1>15. \A c \in Thresholds, o \in Names :
         Here(o)' => CountOK(schmitt'[c][playerSlots'[o]], held'[c][o])
  <2> SUFFICES ASSUME NEW c \in Thresholds, NEW o \in Names, Here(o)'
               PROVE  CountOK(schmitt'[c][playerSlots'[o]], held'[c][o])
    OBVIOUS
  <2>1. CASE o = n
    BY <1>2, <1>3, <1>4, <1>7, <1>8, <2>1
  <2>2. CASE o # n
    BY <1>7, <1>14, <2>2 DEF RuleInv
  <2> QED
    BY <2>1, <2>2
<1>16. RuleInv'
  BY <1>10, <1>11, <1>12, <1>13, <1>15 DEF RuleInv
<1>17. ASSUME NEW c \in Thresholds, NEW o \in Names, ~Armed(c, o), Armed(c, o)'
       PROVE  held'[c][o] >= Hold[c]
  <2>1. CASE o = n
    <3>1. st(c).active
      BY <1>2, <1>3, <1>8, <1>17, <2>1 DEF Armed
    <3>2. ~SchmittOf(n, c).active
      BY <1>1, <1>17, <2>1, FoundRules DEF Armed, Calm
    <3> QED
      BY <1>4, <1>7, <2>1, <3>1, <3>2
  <2>2. CASE o # n
    BY <1>14, <1>17, <2>2 DEF Armed
  <2> QED
    BY <2>1, <2>2
<1>18. \A c \in Changes : deadband'[c][s] = db(c)
  BY <1>2, <1>9
<1>19. Here(n)'
  BY <1>2, <1>3 DEF Here
<1> QED
  BY <1>2, <1>3, <1>14, <1>16, <1>17, <1>18, <1>19 DEF s, db

\* A sample of a message that is told at once: it is near what the deadband now
\* measures from, and so is what was last written.
LEMMA VisitTells ==
  ASSUME WaitInv, RuleInv, ready, NEW n \in Names, NEW level,
         NEW x \in [Asked(n) \cap Changes -> Reading], Known(n) \/ nextSlot < MaxPlayers,
         NEW m \in Prompt, NEW c \in Told(m), c \in Asked(n),
         NEW v \in Int, ShownOK(m, c, DeadbandOf(n, c), v),
         NEW w, w = IF x[c].has /\ (\E o \in Emitted(n, level, x) : c \in When[o]) THEN x[c].v ELSE v
  PROVE  LET e == DeadbandUpdate(DeadbandOf(n, c), x[c], By[c])
         IN  /\ ShownOK(m, c, e, w)
             /\ x[c].has => e.has /\ Distance(x[c].v, e.last) < Step(c)
<1> DEFINE d == DeadbandOf(n, c)
           e == DeadbandUpdate(d, x[c], By[c])
<1>1. /\ c \in Changes /\ c \in When[m] /\ m \in Messages /\ m \notin MatchAll /\ Every[m] = 0
      /\ x[c] \in Reading
  BY DEF Told, Prompt
<1>2. \A o \in Messages : c \in When[o] => o = m
  BY <1>1, OwnConditions DEF OwnConditions
<1>3. m \in WantedBy(n)
  BY <1>2 DEF Asked, WantedBy
<1>4. ~GateOf(n, m).pending /\ GateOf(n, m).since \in Nat
  <2>1. SlotOf(n) \in Slots
    BY VisitSlot DEF WaitInv
  <2>2. GateOK(GateOf(n, m), Every[m])
    BY <1>1, <2>1, FoundGate
  <2> QED
    BY <1>1, <2>2 DEF GateOK
<1>5. m \in Emitted(n, level, x) <=> Wants(n, m, level, x)
  BY <1>1, <1>3, <1>4 DEF Emitted, Opens
<1>6. (\E o \in Emitted(n, level, x) : c \in When[o]) <=> Wants(n, m, level, x)
  BY <1>1, <1>2, <1>5 DEF Emitted, WantedBy
<1>7. Fires(n, c, level, x) <=> Moved(d, x[c], By[c])
  <2>1. c \in Thresholds => FALSE
    BY <1>1, OwnConditions DEF OwnConditions
  <2> QED
    BY <2>1 DEF Fires
<1>8. Moved(d, x[c], By[c]) => Wants(n, m, level, x)
  BY <1>1, <1>7 DEF Wants
<1>9. When[m] = {c} /\ ~Moved(d, x[c], By[c]) => ~Wants(n, m, level, x)
  BY <1>1, <1>7 DEF Wants
<1>10. d \in Deadbands
  BY <1>1, FoundRules
<1>11. /\ e \in Deadbands
       /\ ~x[c].has => e = d
       /\ x[c].has /\ Moved(d, x[c], By[c]) => e.has /\ e.last = x[c].v
       /\ x[c].has /\ ~Moved(d, x[c], By[c]) => e = d /\ d.has /\ Distance(x[c].v, d.last) < Step(c)
       /\ x[c].has => Distance(x[c].v, e.last) < Step(c)
  BY <1>1, <1>10, DeadbandNear
<1> HIDE DEF d, e
<1> SUFFICES ShownOK(m, c, e, w) /\ (x[c].has => e.has /\ Distance(x[c].v, e.last) < Step(c))
  BY DEF d, e
<1>12. x[c].has => e.has /\ Distance(x[c].v, e.last) < Step(c)
  BY <1>11
<1>13. CASE ~x[c].has
  BY <1>11, <1>12, <1>13 DEF d
<1>14. CASE x[c].has /\ Wants(n, m, level, x)
  <2>1. w = x[c].v
    BY <1>6, <1>14
  <2>2. x[c].v \in Int /\ e.last \in Int
    BY <1>1, <1>11, ValuesRead
  <2>3. Distance(e.last, x[c].v) = Distance(x[c].v, e.last)
    BY <2>2 DEF Distance
  <2>4. When[m] = {c} => e.last = x[c].v
    BY <1>9, <1>11, <1>14
  <2> QED
    BY <1>12, <1>14, <2>1, <2>3, <2>4 DEF ShownOK
<1>15. CASE x[c].has /\ ~Wants(n, m, level, x)
  <2>1. w = v /\ e = d
    BY <1>6, <1>8, <1>11, <1>15
  <2> QED
    BY <1>12, <2>1 DEF d
<1> QED
  BY <1>13, <1>14, <1>15

-----------------------------------------------------------------------------
(* Every step keeps the rules.                                             *)

ArmsWhenHeld == \A c \in Thresholds, n \in Names : ~Armed(c, n) /\ Armed(c, n)' => held'[c][n] >= Hold[c]

\* A step that leaves the rules of those who stay alone.
LEMMA RulesStay ==
  ASSUME RuleInv, SlotInv', UNCHANGED <<ready, nextSlot, schmitt, deadband>>,
         \A n \in Names : Here(n)' => Here(n) /\ playerSlots'[n] = playerSlots[n],
         held' \in [Thresholds -> [Names -> Nat]],
         \A c \in Thresholds, n \in Names : Here(n)' => held'[c][n] = held[c][n]
  PROVE  RuleInv' /\ ArmsWhenHeld
<1>1. Fresh'
  BY DEF RuleInv, Fresh
<1>2. \A c \in Thresholds, n \in Names :
        Here(n)' => CountOK(schmitt'[c][playerSlots'[n]], held'[c][n])
  BY DEF RuleInv
<1>3. ArmsWhenHeld
  BY DEF ArmsWhenHeld, Armed
<1> QED
  BY <1>1, <1>2, <1>3 DEF RuleInv

\* The end of a cycle takes the slot from those who were not in the list.
LEMMA EndStays ==
  ASSUME SlotInv, EndCycle, NEW n \in Names, Here(n)'
  PROVE  Here(n) /\ playerSlots'[n] = playerSlots[n] /\ n \in presentNow
<1>1. MaxPlayers \in Nat
  BY FeedAssumption DEF FeedAssumption
<1>2. playerSlots'[n] = IF playerSlots[n] \in Slots /\ n \notin presentNow
                        THEN -(playerSlots[n] + 1) ELSE playerSlots[n]
  BY DEF EndCycle, MarkAbsent
<1>3. ~(playerSlots[n] \in Slots /\ n \notin presentNow)
  BY <1>1, <1>2 DEF Here, Slots
<1> QED
  BY <1>2, <1>3 DEF Here

\* Nobody is there, and the rules are as new, after a reset.
LEMMA NobodyHere ==
  ASSUME playerSlots' = [n \in Names |-> NoSlot]
  PROVE  \A n \in Names : ~Here(n)'
BY FeedAssumption DEF FeedAssumption, Here, NoSlot, Slots

LEMMA InitRuleInv == FInit => RuleInv
<1> SUFFICES ASSUME FInit PROVE RuleInv
  OBVIOUS
<1>1. \A n \in Names : ~Here(n)
  BY FeedAssumption DEF FeedAssumption, FInit, Init, Here, NoSlot, Slots
<1>2. Calm \in SchmittStates /\ Blank \in Deadbands
  BY DEF Calm, SchmittStates, Blank, Deadbands
<1>3. /\ schmitt = [c \in Thresholds |-> [s \in Slots |-> Calm]]
      /\ deadband = [c \in Changes |-> [s \in Slots |-> Blank]]
      /\ held = [c \in Thresholds |-> [n \in Names |-> 0]]
  BY DEF FInit, Init, Initial, Nobody
<1>4. Fresh
  BY <1>3 DEF Fresh
<1> QED
  BY <1>1, <1>2, <1>3, <1>4, InitSlotInv DEF FInit, RuleInv

LEMMA RuleInvStep == RuleInv /\ [FNext]_feedVars => RuleInv' /\ ArmsWhenHeld
<1> SUFFICES ASSUME RuleInv, [FNext]_feedVars PROVE RuleInv' /\ ArmsWhenHeld
  OBVIOUS
<1>1. [Next]_vars
  BY DEF FNext, FReset, FVisit, FEndCycle, Next, Visit, feedVars
<1>2. SlotInv'
  BY <1>1, SlotInvStep DEF RuleInv
<1>3. held \in [Thresholds -> [Names -> Nat]]
  BY DEF RuleInv
<1>4. CASE UNCHANGED <<ready, playerSlots, nextSlot, schmitt, deadband, held>>
  BY <1>2, <1>3, <1>4, RulesStay DEF Here
<1>5. CASE FReset
  <2>1. /\ playerSlots' = [n \in Names |-> NoSlot]
        /\ held' = [c \in Thresholds |-> [n \in Names |-> 0]]
    BY <1>5 DEF FReset, Reset, ResetFails, Nobody
  <2>2. \A n \in Names : ~Here(n)'
    BY <2>1, NobodyHere
  <2>3. ArmsWhenHeld
    BY <2>2 DEF ArmsWhenHeld, Armed
  <2>4. CASE Reset
    <3>1. /\ schmitt' = [c \in Thresholds |-> [s \in Slots |-> Calm]]
          /\ deadband' = [c \in Changes |-> [s \in Slots |-> Blank]]
      BY <2>4 DEF Reset, Initial
    <3>2. Calm \in SchmittStates /\ Blank \in Deadbands
      BY DEF Calm, SchmittStates, Blank, Deadbands
    <3>3. Fresh'
      BY <3>1 DEF Fresh
    <3> QED
      BY <1>2, <2>1, <2>2, <2>3, <3>1, <3>2, <3>3 DEF RuleInv
  <2>5. CASE ResetFails
    <3>1. UNCHANGED <<schmitt, deadband>> /\ Fresh'
      BY <2>5 DEF ResetFails, stateVars, Fresh
    <3> QED
      BY <1>2, <2>1, <2>2, <2>3, <3>1 DEF RuleInv
  <2> QED
    BY <1>5, <2>4, <2>5 DEF FReset
<1>6. ASSUME NEW n \in Names, FVisit(n) PROVE RuleInv' /\ ArmsWhenHeld
  <2>1. CASE VisitIgnored(n) /\ UNCHANGED historyVars
    BY <1>4, <2>1 DEF VisitIgnored, stateVars, historyVars
  <2>2. CASE ~(VisitIgnored(n) /\ UNCHANGED historyVars)
    <3>1. PICK level \in [Asked(n) \cap Thresholds -> Levels \cup {Invalid}],
               x \in [Asked(n) \cap Changes -> Reading] :
            /\ VisitPlayer(n, level, x)
            /\ held' = [c \in Thresholds |-> [held[c] EXCEPT ![n] =
                 IF c \in Asked(n) THEN HeldAfter(n, c, level[c]) ELSE @]]
      BY <1>6, <2>2 DEF FVisit
    <3> QED
      BY <1>2, <3>1, VisitRules DEF ArmsWhenHeld
  <2> QED
    BY <2>1, <2>2
<1>7. CASE FEndCycle
  <2>1. UNCHANGED <<ready, nextSlot, schmitt, deadband>>
    BY <1>7 DEF FEndCycle, EndCycle, stateVars
  <2>2. \A n \in Names : Here(n)' => Here(n) /\ playerSlots'[n] = playerSlots[n] /\ n \in presentNow
    BY <1>7, EndStays DEF FEndCycle, RuleInv
  <2>3. held' = [c \in Thresholds |-> [n \in Names |-> IF n \in presentNow THEN held[c][n] ELSE 0]]
    BY <1>3, <1>7 DEF FEndCycle, Forget, Nobody
  <2>4. held' \in [Thresholds -> [Names -> Nat]]
    BY <1>3, <2>3
  <2>5. \A c \in Thresholds, n \in Names : Here(n)' => held'[c][n] = held[c][n]
    BY <2>2, <2>3
  <2> QED
    BY <1>2, <2>1, <2>2, <2>4, <2>5, RulesStay
<1>8. CASE Stop /\ UNCHANGED historyVars
  BY <1>4, <1>8 DEF Stop, slotVars, stateVars, historyVars
<1>9. CASE UNCHANGED feedVars
  BY <1>4, <1>9 DEF feedVars, vars, slotVars, stateVars, historyVars
<1> QED
  BY <1>5, <1>6, <1>7, <1>8, <1>9 DEF FNext

\* A threshold arms only after hold cycles in a row beyond the trip value, in
\* this presence of the player (Schmitt.cpp:52-89, MsgReport.cpp:285-291), for
\* any holds, messages, players and slots.
THEOREM ArmedIsHeld == FSpec => ArmedOnlyIfHeld
<1>1. RuleInv /\ [FNext]_feedVars => [ArmsWhenHeld]_feedVars
  BY RuleInvStep
<1> QED
  BY <1>1, InitRuleInv, RuleInvStep, PTL DEF FSpec, ArmedOnlyIfHeld, ArmsWhenHeld

-----------------------------------------------------------------------------
(* What the reader of the file knows.                                      *)

LEMMA InitTellInv == FInit => TellInv
<1> SUFFICES ASSUME FInit PROVE TellInv
  OBVIOUS
<1>1. \A n \in Names : ~Here(n)
  BY FeedAssumption DEF FeedAssumption, FInit, Init, Here, NoSlot, Slots
<1>2. /\ shown = [c \in Changes |-> [n \in Names |-> 0]]
      /\ seen = [c \in Changes |-> [n \in Names |-> [has |-> FALSE, v |-> 0]]]
  BY DEF FInit, Nobody
<1>3. [has |-> FALSE, v |-> 0] \in Reading
  BY DEF Reading
<1>4. \A c \in Changes, n \in Names : ~seen[c][n].has
  BY <1>2
<1> QED
  BY <1>1, <1>2, <1>3, <1>4, InitWaitInv, InitRuleInv DEF TellInv, Told

\* Nobody has been sampled, and whoever is there was shown what he was.
LEMMA TellsStay ==
  ASSUME TellInv, WaitInv', RuleInv', UNCHANGED deadband,
         \A n \in Names : Here(n)' => Here(n) /\ playerSlots'[n] = playerSlots[n],
         shown' \in [Changes -> [Names -> Int]],
         \A c \in Changes, n \in Names : Here(n)' => shown'[c][n] = shown[c][n],
         seen' \in [Changes -> [Names -> Reading]],
         \A c \in Changes, n \in Names :
           seen'[c][n].has => seen'[c][n] = seen[c][n] /\ n \in presentNow' /\ Here(n)'
  PROVE  TellInv'
<1> SUFFICES ASSUME NEW m \in Prompt, NEW n \in Names, NEW c \in Told(m)
             PROVE  /\ Here(n)' => ShownOK(m, c, deadband'[c][playerSlots'[n]], shown'[c][n])
                    /\ seen'[c][n].has => /\ n \in presentNow' /\ Here(n)'
                                          /\ deadband'[c][playerSlots'[n]].has
                                          /\ Distance(seen'[c][n].v, deadband'[c][playerSlots'[n]].last) < Step(c)
  BY DEF TellInv
<1>1. c \in Changes
  BY DEF Told
<1>2. /\ Here(n) => ShownOK(m, c, deadband[c][playerSlots[n]], shown[c][n])
      /\ seen[c][n].has => /\ deadband[c][playerSlots[n]].has
                           /\ Distance(seen[c][n].v, deadband[c][playerSlots[n]].last) < Step(c)
  BY DEF TellInv
<1> QED
  BY <1>1, <1>2

\* What a visit samples and what it writes of it.
Sampled(n, x) == {c \in Asked(n) \cap Changes : x[c].has}
Written(n, level, x) == Sampled(n, x) \cap UNION {When[m] : m \in Emitted(n, level, x)}
Samples(n, level, x) ==
  /\ VisitPlayer(n, level, x)
  /\ held' = [c \in Thresholds |-> [held[c] EXCEPT ![n] =
       IF c \in Asked(n) THEN HeldAfter(n, c, level[c]) ELSE @]]
  /\ seen' = [c \in Changes |->
       IF c \in Sampled(n, x) THEN [seen[c] EXCEPT ![n] = x[c]] ELSE seen[c]]
  /\ shown' = [c \in Changes |->
       IF c \in Written(n, level, x) THEN [shown[c] EXCEPT ![n] = x[c].v] ELSE shown[c]]

LEMMA VisitTellInv ==
  ASSUME TellInv, WaitInv', NEW n \in Names, NEW level,
         NEW x \in [Asked(n) \cap Changes -> Reading], Samples(n, level, x)
  PROVE  TellInv'
<1> DEFINE s == SlotOf(n)
           valid == Sampled(n, x)
           written == Written(n, level, x)
<1>0. /\ VisitPlayer(n, level, x)
      /\ held' = [c \in Thresholds |-> [held[c] EXCEPT ![n] =
           IF c \in Asked(n) THEN HeldAfter(n, c, level[c]) ELSE @]]
      /\ seen' = [c \in Changes |->
           IF c \in valid THEN [seen[c] EXCEPT ![n] = x[c]] ELSE seen[c]]
      /\ shown' = [c \in Changes |->
           IF c \in written THEN [shown[c] EXCEPT ![n] = x[c].v] ELSE shown[c]]
      /\ valid = {c \in Asked(n) \cap Changes : x[c].has}
      /\ written = valid \cap UNION {When[m] : m \in Emitted(n, level, x)}
  BY DEF Samples, Sampled, Written
<1> HIDE DEF valid, written
<1>1. WaitInv /\ RuleInv /\ SlotInv'
  BY DEF TellInv, WaitInv
<1>2. /\ RuleInv' /\ playerSlots'[n] = s /\ s \in Slots /\ Here(n)'
      /\ \A o \in Names \ {n} : /\ playerSlots'[o] = playerSlots[o]
                                /\ Here(o)' => /\ Here(o)
                                               /\ \A c \in Changes : deadband'[c][playerSlots[o]] = deadband[c][playerSlots[o]]
      /\ \A c \in Changes : deadband'[c][s] =
           IF c \in Asked(n) THEN DeadbandUpdate(DeadbandOf(n, c), x[c], By[c]) ELSE DeadbandOf(n, c)
  BY <1>0, <1>1, VisitRules
<1>3. ready /\ (Known(n) \/ nextSlot < MaxPlayers) /\ n \notin presentNow /\ presentNow' = presentNow \cup {n}
  BY <1>0 DEF VisitPlayer
<1>4. \A c \in Changes, o \in Names :
        /\ seen'[c][o] = IF o = n /\ c \in valid THEN x[c] ELSE seen[c][o]
        /\ shown'[c][o] = IF o = n /\ c \in written THEN x[c].v ELSE shown[c][o]
  BY <1>0 DEF TellInv
<1>5. \A c \in valid : c \in Asked(n) /\ x[c] \in Reading /\ x[c].v \in Int /\ x[c].has
  BY <1>0, <1>1, <1>3, ValuesRead, FoundRules
<1>6. seen' \in [Changes -> [Names -> Reading]]
  BY <1>0, <1>5 DEF TellInv
<1>7. shown' \in [Changes -> [Names -> Int]]
  BY <1>0, <1>5 DEF TellInv
<1> HIDE DEF s
<1>8. ASSUME NEW m \in Prompt, NEW c \in Told(m)
      PROVE  /\ ShownOK(m, c, deadband'[c][s], shown'[c][n])
             /\ seen'[c][n].has => /\ deadband'[c][s].has
                                   /\ Distance(seen'[c][n].v, deadband'[c][s].last) < Step(c)
  <2>1. c \in Changes /\ shown[c][n] \in Int
    BY DEF Told, TellInv
  <2>2. ~seen[c][n].has
    BY <1>3, <1>8 DEF TellInv
  <2>3. ShownOK(m, c, DeadbandOf(n, c), shown[c][n])
    <3>1. Here(n) => ShownOK(m, c, deadband[c][playerSlots[n]], shown[c][n])
      BY <1>8 DEF TellInv
    <3>2. /\ Here(n) => DeadbandOf(n, c) = deadband[c][playerSlots[n]]
          /\ ~Here(n) => DeadbandOf(n, c) = Blank
      BY <1>1, <1>3, <2>1, FoundRules
    <3>3. ~Blank.has
      BY DEF Blank
    <3> QED
      BY <3>1, <3>2, <3>3 DEF ShownOK
  <2>4. CASE c \notin Asked(n)
    BY <1>0, <1>2, <1>4, <1>5, <2>1, <2>2, <2>3, <2>4
  <2>5. CASE c \in Asked(n)
    <3> DEFINE e == DeadbandUpdate(DeadbandOf(n, c), x[c], By[c])
               w == IF x[c].has /\ (\E o \in Emitted(n, level, x) : c \in When[o])
                    THEN x[c].v ELSE shown[c][n]
    <3>1. /\ ShownOK(m, c, e, w)
          /\ x[c].has => e.has /\ Distance(x[c].v, e.last) < Step(c)
      BY <1>1, <1>3, <1>8, <2>1, <2>3, <2>5, VisitTells
    <3>2. deadband'[c][s] = e
      BY <1>2, <2>1, <2>5
    <3>3. c \in valid <=> x[c].has
      BY <1>0, <2>1, <2>5
    <3>4. shown'[c][n] = w
      BY <1>0, <1>4, <2>1, <3>3
    <3> HIDE DEF e, w
    <3>5. seen'[c][n].has => x[c].has /\ seen'[c][n] = x[c]
      BY <1>4, <2>1, <2>2, <3>3
    <3> QED
      BY <3>1, <3>2, <3>4, <3>5
  <2> QED
    BY <2>4, <2>5
<1>9. ASSUME NEW m \in Prompt, NEW c \in Told(m), NEW o \in Names \ {n}
      PROVE  /\ Here(o)' => ShownOK(m, c, deadband'[c][playerSlots'[o]], shown'[c][o])
             /\ seen'[c][o].has => /\ o \in presentNow' /\ Here(o)'
                                   /\ deadband'[c][playerSlots'[o]].has
                                   /\ Distance(seen'[c][o].v, deadband'[c][playerSlots'[o]].last) < Step(c)
  <2>1. c \in Changes
    BY DEF Told
  <2>2. /\ Here(o) => ShownOK(m, c, deadband[c][playerSlots[o]], shown[c][o])
        /\ seen[c][o].has => /\ o \in presentNow /\ Here(o)
                             /\ deadband[c][playerSlots[o]].has
                             /\ Distance(seen[c][o].v, deadband[c][playerSlots[o]].last) < Step(c)
    BY <1>9 DEF TellInv
  <2>3. seen'[c][o] = seen[c][o] /\ shown'[c][o] = shown[c][o] /\ playerSlots'[o] = playerSlots[o]
    BY <1>2, <1>4, <2>1
  <2>4. Here(o)' <=> Here(o)
    BY <2>3 DEF Here
  <2> QED
    BY <1>2, <1>3, <2>1, <2>2, <2>3, <2>4
<1> QED
  BY <1>1, <1>2, <1>3, <1>6, <1>7, <1>8, <1>9 DEF TellInv, Prompt, Told

LEMMA TellInvStep == TellInv /\ [FNext]_feedVars => TellInv'
<1> SUFFICES ASSUME TellInv, [FNext]_feedVars PROVE TellInv'
  OBVIOUS
<1>1. WaitInv' /\ RuleInv'
  BY WaitInvStep, RuleInvStep DEF TellInv
<1>2. /\ shown \in [Changes -> [Names -> Int]] /\ seen \in [Changes -> [Names -> Reading]]
  BY DEF TellInv
<1>3. /\ Nobody.seen \in [Changes -> [Names -> Reading]]
      /\ \A c \in Changes, n \in Names : ~Nobody.seen[c][n].has
  BY DEF Nobody, Reading
<1>4. CASE /\ UNCHANGED <<playerSlots, deadband, seen, shown>> /\ presentNow \subseteq presentNow'
  <2>1. \A n \in Names : Here(n)' <=> Here(n)
    BY <1>4 DEF Here
  <2>2. TellInv => TellInv'
    <3> SUFFICES ASSUME NEW m \in Prompt, NEW n \in Names, NEW c \in Told(m)
                 PROVE  /\ Here(n)' => ShownOK(m, c, deadband'[c][playerSlots'[n]], shown'[c][n])
                        /\ seen'[c][n].has => /\ n \in presentNow' /\ Here(n)'
                                              /\ deadband'[c][playerSlots'[n]].has
                                              /\ Distance(seen'[c][n].v, deadband'[c][playerSlots'[n]].last) < Step(c)
      BY <1>1, <1>2, <1>4 DEF TellInv
    <3> QED
      BY <1>4, <2>1 DEF TellInv
  <2> QED
    BY <2>2
<1>5. CASE FReset
  <2>1. playerSlots' = [n \in Names |-> NoSlot] /\ seen' = Nobody.seen /\ shown' = Nobody.shown
    BY <1>5 DEF FReset, Reset, ResetFails
  <2>2. \A n \in Names : ~Here(n)'
    BY <2>1, NobodyHere
  <2>3. shown' \in [Changes -> [Names -> Int]]
    BY <2>1 DEF Nobody
  <2> QED
    BY <1>1, <1>3, <2>1, <2>2, <2>3 DEF TellInv, Told
<1>6. ASSUME NEW n \in Names, FVisit(n) PROVE TellInv'
  <2>1. CASE VisitIgnored(n) /\ UNCHANGED historyVars
    BY <1>4, <2>1 DEF VisitIgnored, stateVars, historyVars
  <2>2. CASE ~(VisitIgnored(n) /\ UNCHANGED historyVars)
    <3>1. PICK level \in [Asked(n) \cap Thresholds -> Levels \cup {Invalid}],
               x \in [Asked(n) \cap Changes -> Reading] : Samples(n, level, x)
      BY <1>6, <2>2 DEF FVisit, Samples, Sampled, Written
    <3> QED
      BY <1>1, <3>1, VisitTellInv
  <2> QED
    BY <2>1, <2>2
<1>7. CASE FEndCycle
  <2>1. UNCHANGED deadband /\ seen' = Nobody.seen
    BY <1>7 DEF FEndCycle, EndCycle, stateVars
  <2>2. \A n \in Names : Here(n)' => Here(n) /\ playerSlots'[n] = playerSlots[n] /\ n \in presentNow
    BY <1>7, EndStays DEF FEndCycle, TellInv, RuleInv
  <2>3. shown' = [c \in Changes |-> [n \in Names |-> IF n \in presentNow THEN shown[c][n] ELSE 0]]
    BY <1>2, <1>7 DEF FEndCycle, Forget, Nobody
  <2>4. shown' \in [Changes -> [Names -> Int]]
    BY <1>2, <2>3
  <2>5. \A c \in Changes, n \in Names : Here(n)' => shown'[c][n] = shown[c][n]
    BY <2>2, <2>3
  <2> QED
    BY <1>1, <1>3, <2>1, <2>2, <2>4, <2>5, TellsStay
<1>8. CASE Stop /\ UNCHANGED historyVars
  BY <1>4, <1>8 DEF Stop, slotVars, stateVars, historyVars
<1>9. CASE UNCHANGED feedVars
  BY <1>4, <1>9 DEF feedVars, vars, slotVars, stateVars, historyVars
<1> QED
  BY <1>5, <1>6, <1>7, <1>8, <1>9 DEF FNext

\* Who reads the file of a MsgChanged without every knows each value to less
\* than by, or twice that when other conditions write the message too
\* (Deadband.cpp:21-38, MsgReport.cpp:239-263), for any messages and values.
THEOREM ReaderKnows == FSpec => []ReaderIsCurrent
<1>1. TellInv => ReaderIsCurrent
  <2> SUFFICES ASSUME TellInv, NEW m \in Messages \ MatchAll, NEW n \in Names,
                      NEW c \in When[m] \cap Changes, Every[m] = 0, seen[c][n].has
               PROVE  Distance(seen[c][n].v, shown[c][n])
                        < IF When[m] = {c} THEN Step(c) ELSE 2 * Step(c) - 1
    BY DEF ReaderIsCurrent
  <2> DEFINE d == deadband[c][playerSlots[n]]
  <2>1. m \in Prompt /\ c \in Told(m) /\ c \in Changes
    BY DEF Prompt, Told
  <2>2. Here(n) /\ d.has /\ Distance(seen[c][n].v, d.last) < Step(c) /\ ShownOK(m, c, d, shown[c][n])
    BY <2>1 DEF TellInv
  <2>3. d \in Deadbands /\ seen[c][n] \in Reading /\ shown[c][n] \in Int
    BY <2>1, <2>2 DEF TellInv, RuleInv, Here
  <2>4. d.last \in Int /\ seen[c][n].v \in Int
    BY <2>3, ValuesRead
  <2>5. Step(c) \in Nat \ {0}
    BY <2>1, FeedAssumption DEF FeedAssumption, Step
  <2> HIDE DEF d
  <2>6. Distance(d.last, shown[c][n]) < Step(c) /\ (When[m] = {c} => d.last = shown[c][n])
    BY <2>2 DEF ShownOK
  <2> QED
    BY <2>2, <2>3, <2>4, <2>5, <2>6 DEF Distance
<1> QED
  BY <1>1, InitTellInv, TellInvStep, PTL DEF FSpec
=============================================================================
