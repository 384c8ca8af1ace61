-------------------------- MODULE Squadron_proofs --------------------------
(***************************************************************************)
(* The squadron for any number of aircraft and threads, any sides, ranges, *)
(* times and worlds.                                                       *)
(*                                                                         *)
(* The fusion of the alerts does not depend on the order they arrive in.   *)
(* FrameInv says of every aircraft how far the frame in progress has come: *)
(* what its thread has already done is what the frame of the synchronous   *)
(* specification does to it, what is left is as the last frame ended, and  *)
(* the alert staged with a receiver is the nearest of those delivered so   *)
(* far.  When everybody is done that is the synchronous frame.  What the   *)
(* counters of frames have to do with the datalink and the hysteresis      *)
(* (HistoryInv) then is a matter of whole frames.                          *)
(***************************************************************************)
EXTENDS Squadron, TLAPS

Beats(a, S) == \A b \in S \ {a} : Closer(a, b)
HasNearest(S) == S = {} \/ \E a \in S : Beats(a, S)

Alerts == Alert \cup {NoAlert}

Types ==
  /\ world \in World
  /\ staged \in [Pilots -> Alerts] /\ current \in [Pilots -> Alerts]
  /\ hold \in [Pilots -> Nat] /\ timer \in [Pilots -> Nat]
  /\ label \in [Pilots -> Labels] /\ up \in SUBSET Pilots

\* The share of a thread, and who in it had his turn in this phase.
Owns(t, p) == p % NumThreads = t % NumThreads
DoneIn(idx, p) == \E t \in Threads : Owns(t, p) /\ p < idx[t]
Done(p) == DoneIn(index, p)

\* Each thread is at a player of its share.
Shared(idx) == idx \in [Threads -> Nat] /\ \A t \in Threads : idx[t] > 0 /\ Owns(t, idx[t])

\* What a whole frame makes of p.
NewCurrent(p) == Promoted(last.staged[p], last.current[p], last.hold[p])
NewHold(p)    == HoldAfter(last.staged[p], last.hold[p])
NewTimer(p)   == ThreatUpdate(last.timer[p], world.sees[p])
NewLabel(p)   == Decision(p \in world.overruled, NewTimer(p), world.sees[p], NewCurrent(p))

Decided(p) == Done(p) \/ \E t \in Threads : index[t] = p /\ walk[t] # 0
Delivered(q, r) == Done(q) \/ \E t \in Threads : index[t] = q /\ walk[t] > r
Senders(r) == {q \in up \ {r} : Accepts(r, q, world) /\ NewLabel(q) = "EVADE" /\ Delivered(q, r)}
AlertOf(q) == [sender |-> q, range |-> world.sees[q]]
Sent(r) == {AlertOf(q) : q \in Senders(r)}

ShareInv ==
  /\ Shared(index) /\ walk \in [Threads -> Nat]
  /\ \A t \in Threads : walk[t] # 0 =>
       /\ phase = "process" /\ running
       /\ index[t] \in up /\ walk[t] \in Pilots
       /\ NewLabel(index[t]) = "EVADE"

\* Between frames, and in a frozen one, everything is as the last frame left it.
Kept == ~running => Snapshot = last /\ phase \in {"idle", "receive", "process"}
Idle == phase = "idle" => ~running /\ index = [t \in Threads |-> t]
Flying ==
  running => /\ phase \in {"receive", "process"}
             /\ world \in Worlds
             /\ up \subseteq last.up /\ last.up \ up \subseteq MayCrash

Untouched(p) == current[p] = last.current[p] /\ hold[p] = last.hold[p] /\ staged[p] = last.staged[p]
Undecided(p) == timer[p] = last.timer[p] /\ label[p] = last.label[p]
Received(p) == current[p] = NewCurrent(p) /\ hold[p] = NewHold(p)

Receiving ==
  running /\ phase = "receive" =>
    \A p \in Pilots :
      /\ Undecided(p)
      /\ p \in up /\ Done(p) => Received(p) /\ staged[p] = NoAlert
      /\ ~(p \in up /\ Done(p)) => Untouched(p)

Processing ==
  running /\ phase = "process" =>
    \A p \in Pilots :
      /\ p \notin up => Untouched(p) /\ Undecided(p)
      /\ p \in up => Received(p) /\ HasNearest(Sent(p)) /\ staged[p] = Nearest(Sent(p))
      /\ p \in up /\ Decided(p) => timer[p] = NewTimer(p) /\ label[p] = NewLabel(p)
      /\ p \in up /\ ~Decided(p) => Undecided(p)

FrameInv == Types /\ ShareInv /\ Kept /\ Idle /\ Flying /\ Receiving /\ Processing

\* Between frames: what the counters say of the alerts and of the hysteresis.
HoldFollows(p) ==
  /\ last.staged[p] # NoAlert <=> heard[p] = 0
  /\ heard[p] \in 1 .. HoldTime => last.current[p] # NoAlert /\ last.hold[p] = HoldTime - heard[p] + 1
  /\ heard[p] > HoldTime => last.current[p] = NoAlert /\ last.hold[p] = 0
SenderSaw(p) ==
  /\ last.staged[p] # NoAlert => saw[last.staged[p].sender] <= heard[p]
  /\ last.current[p] # NoAlert /\ last.staged[p] = NoAlert => saw[last.current[p].sender] <= heard[p]
TimerFollows(p) ==
  /\ last.timer[p] >= EvadeHold - saw[p]
  /\ last.label[p] = "SUPPORT" => saw[p] >= EvadeHold

LastTypes ==
  /\ last.staged \in [Pilots -> Alerts] /\ last.current \in [Pilots -> Alerts]
  /\ last.hold \in [Pilots -> Nat] /\ last.timer \in [Pilots -> Nat]
  /\ last.label \in [Pilots -> Labels] /\ last.up \in SUBSET Pilots
  /\ heard \in [Pilots -> 0 .. LongAgo] /\ saw \in [Pilots -> 0 .. LongAgo]

HistoryInv == LastTypes /\ \A p \in last.up : HoldFollows(p) /\ SenderSaw(p) /\ TimerFollows(p)

-----------------------------------------------------------------------------
(* The fusion of the alerts.                                               *)

\* The order of the fusion is strict and total on the alerts.
LEMMA CloserIsTotal ==
  ASSUME NEW a \in Alert, NEW b \in Alert, a # b
  PROVE  /\ Closer(a, b) \/ Closer(b, a)
         /\ ~(Closer(a, b) /\ Closer(b, a))
<1>1. a.range # b.range \/ a.sender # b.sender
  BY DEF Alert
<1>2. /\ a.range \in Int /\ b.range \in Int
      /\ a.sender \in Int /\ b.sender \in Int
  BY AlertAssumption DEF AlertAssumption, Alert, Ranges, Pilots
<1> QED
  BY <1>1, <1>2, SMT DEF Closer

LEMMA CloserIsTransitive ==
  ASSUME NEW a \in Alert, NEW b \in Alert, NEW c \in Alert,
         Closer(a, b), Closer(b, c)
  PROVE  Closer(a, c)
<1>1. /\ a.range \in Int /\ b.range \in Int /\ c.range \in Int
      /\ a.sender \in Int /\ b.sender \in Int /\ c.sender \in Int
  BY AlertAssumption DEF AlertAssumption, Alert, Ranges, Pilots
<1> QED
  BY <1>1, SMT DEF Closer

\* The alert that beats the others is the one Nearest chooses.
LEMMA NearestIsTheOneThatBeats ==
  ASSUME NEW S \in SUBSET Alert, NEW a \in S, Beats(a, S)
  PROVE  Nearest(S) = a
<1>1. PICK n \in S : Nearest(S) = n /\ Beats(n, S)
  BY DEF Nearest, Beats
<1>2. CASE n # a
  <2>1. Closer(n, a) /\ Closer(a, n)
    BY <1>1, <1>2 DEF Beats
  <2> QED
    BY <2>1, <1>2, CloserIsTotal
<1> QED
  BY <1>1, <1>2

\* Fusing one more alert into the nearest of the alerts received so far gives
\* the nearest of them all: what AlertDatalink stages is a function of the set
\* of the alerts and not of the order the threads delivered them in
\* (AlertDatalink.cpp:134-140, "FUSAO COMUTATIVA").
THEOREM FusionIsNearest ==
  ASSUME NEW S \in SUBSET Alert, NEW new \in Alert,
         HasNearest(S)
  PROVE  /\ Fuse(Nearest(S), new) = Nearest(S \cup {new})
         /\ HasNearest(S \cup {new})
<1> DEFINE T == S \cup {new}
<1>1. CASE S = {}
  <2>1. new \in T /\ Beats(new, T)
    BY <1>1 DEF Beats
  <2>2. Nearest(T) = new
    BY <2>1, NearestIsTheOneThatBeats
  <2> QED
    BY <1>1, <2>1, <2>2 DEF Fuse, Nearest, HasNearest
<1>2. CASE S # {}
  <2>1. PICK a \in S : Beats(a, S)
    BY <1>2 DEF HasNearest
  <2>2. Nearest(S) = a
    BY <2>1, NearestIsTheOneThatBeats
  <2>3. a # NoAlert
    BY AlertAssumption DEF AlertAssumption, Alert, NoAlert, Ranges, Pilots
  <2>4. CASE a = new
    <3>1. T = S
      BY <2>4
    <3>2. Fuse(a, new) = a
      BY <2>4 DEF Fuse
    <3> QED
      BY <2>1, <2>2, <3>1, <3>2
  <2>5. CASE a # new /\ Closer(a, new)
    <3>1. ~Closer(new, a)
      BY <2>5, CloserIsTotal
    <3>2. Beats(a, T)
      BY <2>1, <2>5 DEF Beats
    <3>3. Nearest(T) = a
      BY <3>2, NearestIsTheOneThatBeats
    <3>4. Fuse(a, new) = a
      BY <2>3, <3>1 DEF Fuse
    <3> QED
      BY <2>2, <3>2, <3>3, <3>4 DEF HasNearest
  <2>6. CASE a # new /\ Closer(new, a)
    <3>1. Beats(new, T)
      <4> SUFFICES ASSUME NEW b \in S, b # new
                   PROVE  Closer(new, b)
        BY DEF Beats
      <4>1. CASE b = a
        BY <2>6, <4>1
      <4>2. CASE b # a
        <5>1. Closer(a, b)
          BY <2>1, <4>2 DEF Beats
        <5> QED
          BY <2>6, <5>1, CloserIsTransitive
      <4> QED
        BY <4>1, <4>2
    <3>2. Nearest(T) = new
      BY <3>1, NearestIsTheOneThatBeats
    <3>3. Fuse(a, new) = new
      BY <2>6 DEF Fuse
    <3> QED
      BY <2>2, <3>1, <3>2, <3>3 DEF HasNearest
  <2> QED
    BY <2>4, <2>5, <2>6, CloserIsTotal DEF HasNearest
<1> QED
  BY <1>1, <1>2

-----------------------------------------------------------------------------
(* Shares.                                                                 *)

\* Every number is in the share of one thread, and the numbers of the first
\* turn are in different ones.
LEMMA Remainders ==
  ASSUME NEW n \in Nat \ {0}
  PROVE  /\ \A k \in Nat : \E w \in 1 .. n : k % n = w % n
         /\ \A v, w \in 1 .. n : v % n = w % n => v = w
<1>1. \A w \in 0 .. (n - 1) : w % n = w
  OBVIOUS
<1>2. n % n = 0
  OBVIOUS
<1>3. \A k \in Nat : k % n \in 0 .. (n - 1)
  OBVIOUS
<1>4. ASSUME NEW k \in Nat PROVE \E w \in 1 .. n : k % n = w % n
  <2>1. CASE k % n = 0
    BY <1>2, <2>1
  <2>2. CASE k % n # 0
    BY <1>1, <1>3, <2>2
  <2> QED
    BY <2>1, <2>2
<1>5. ASSUME NEW v \in 1 .. n, NEW w \in 1 .. n, v % n = w % n PROVE v = w
  BY <1>1, <1>2, <1>5
<1> QED
  BY <1>4, <1>5

\* The number after i of the same share is i + n, and none lies between.
LEMMA ShareStep ==
  ASSUME NEW n \in Nat \ {0}, NEW i \in Nat, NEW p \in Nat
  PROVE  /\ (i + n) % n = i % n
         /\ p % n = i % n /\ p > i => p >= i + n
<1>1. \A k \in Nat : /\ k = n * (k \div n) + (k % n)
                     /\ k \div n \in Int /\ k % n \in 0 .. (n - 1)
  OBVIOUS
<1>2. (i + n) % n = i % n
  <2> DEFINE a == (i + n) \div n
             b == i \div n
  <2>1. a \in Int /\ b \in Int
    BY <1>1
  <2>2. n * a + ((i + n) % n) = n * b + (i % n) + n
    BY <1>1
  <2>3. ~(a > b + 1) /\ ~(a < b + 1)
    BY <1>1, <2>1, <2>2
  <2>4. a = b + 1
    BY <2>1, <2>3
  <2>5. n * a = n * b + n
    BY <2>1, <2>4
  <2> QED
    BY <1>1, <2>2, <2>4, <2>5
<1>3. ASSUME p % n = i % n, p > i PROVE p >= i + n
  <2> DEFINE a == p \div n
             b == i \div n
  <2>1. a \in Int /\ b \in Int
    BY <1>1
  <2>2. a > b
    BY <1>1, <1>3
  <2> QED
    BY <1>1, <1>3, <2>1, <2>2
<1> QED
  BY <1>2, <1>3

\* Nobody is done when a phase begins, all are when every thread is past the end.
LEMMA ShareEnds ==
  /\ \A p \in Pilots : ~DoneIn([t \in Threads |-> t], p)
  /\ \A t \in Threads : Owns(t, t)
  /\ \A idx \in [Threads -> Nat] :
       (\A t \in Threads : idx[t] > NumPilots) => \A p \in Pilots : DoneIn(idx, p)
<1>1. NumThreads \in Nat \ {0} /\ NumPilots \in Nat
  BY AlertAssumption, SquadronAssumption DEF AlertAssumption, SquadronAssumption
<1>2. ASSUME NEW p \in Pilots, NEW t \in Threads, Owns(t, p), p < t PROVE FALSE
  <2>1. p \in 1 .. NumThreads /\ t \in 1 .. NumThreads
    BY <1>1, <1>2 DEF Pilots, Threads
  <2>2. \A v, w \in 1 .. NumThreads : v % NumThreads = w % NumThreads => v = w
    BY <1>1, Remainders
  <2>3. p = t
    BY <1>2, <2>1, <2>2 DEF Owns
  <2> QED
    BY <1>2, <2>1, <2>3
<1>3. ASSUME NEW idx \in [Threads -> Nat], \A t \in Threads : idx[t] > NumPilots, NEW p \in Pilots
      PROVE  DoneIn(idx, p)
  <2>1. p \in Nat /\ p <= NumPilots
    BY <1>1 DEF Pilots
  <2>2. PICK t \in Threads : Owns(t, p)
    BY <1>1, <2>1, Remainders DEF Owns, Threads
  <2>3. idx[t] \in Nat
    OBVIOUS
  <2> QED
    BY <1>1, <1>3, <2>1, <2>2, <2>3 DEF DoneIn
<1> QED
  BY <1>2, <1>3 DEF DoneIn, Owns

\* A thread that goes on has done the player it was on, and no other.
LEMMA ShareAdvances ==
  ASSUME NEW idx, Shared(idx), NEW t \in Threads, NEW new,
         new = [idx EXCEPT ![t] = @ + NumThreads]
  PROVE  /\ Shared(new)
         /\ ~DoneIn(idx, idx[t])
         /\ \A p \in Pilots : DoneIn(new, p) <=> DoneIn(idx, p) \/ p = idx[t]
         /\ \A u \in Threads : idx[u] = idx[t] => u = t
         /\ \A u \in Threads \ {t} : new[u] = idx[u]
<1>1. NumThreads \in Nat \ {0} /\ Pilots \subseteq Nat
  BY AlertAssumption, SquadronAssumption DEF AlertAssumption, SquadronAssumption, Pilots
<1>2. idx[t] \in Nat /\ idx[t] > 0 /\ idx[t] % NumThreads = t % NumThreads
  BY DEF Shared, Owns
<1>3. new[t] = idx[t] + NumThreads /\ (\A u \in Threads \ {t} : new[u] = idx[u])
      /\ new \in [Threads -> Nat]
  BY <1>1, <1>2 DEF Shared
<1>4. ASSUME NEW u \in Threads, NEW p, Owns(u, p), Owns(t, p) PROVE u = t
  BY <1>1, <1>4, Remainders DEF Owns, Threads
<1>5. Owns(t, new[t]) /\ new[t] > 0
  <2>1. (idx[t] + NumThreads) % NumThreads = idx[t] % NumThreads
    BY <1>1, <1>2, ShareStep
  <2> QED
    BY <1>1, <1>2, <1>3, <2>1 DEF Owns
<1>6. ~DoneIn(idx, idx[t])
  <2> SUFFICES ASSUME NEW u \in Threads, Owns(u, idx[t]), idx[t] < idx[u] PROVE FALSE
    BY DEF DoneIn
  <2>1. u = t
    BY <1>2, <1>4 DEF Owns
  <2> QED
    BY <1>2, <2>1
<1>7. ASSUME NEW p \in Pilots PROVE DoneIn(new, p) <=> DoneIn(idx, p) \/ p = idx[t]
  <2>1. ASSUME Owns(t, p) PROVE p < new[t] <=> p < idx[t] \/ p = idx[t]
    <3>1. p > idx[t] => p >= idx[t] + NumThreads
      BY <1>1, <1>2, <2>1, ShareStep DEF Owns
    <3> QED
      BY <1>1, <1>2, <1>3, <3>1
  <2>2. p = idx[t] => Owns(t, p)
    BY <1>2 DEF Owns
  <2> QED
    BY <1>3, <2>1, <2>2 DEF DoneIn
<1> QED
  BY <1>2, <1>3, <1>4, <1>5, <1>6, <1>7 DEF Shared, Owns

-----------------------------------------------------------------------------
(* Types and values of the operators.                                      *)

LEMMA OperatorTypes ==
  /\ NoAlert \in Alerts /\ Nothing \in World
  /\ \A a, b \in Alerts, n \in Nat : /\ Promoted(a, b, n) \in Alerts /\ HoldAfter(a, n) \in Nat
                                     /\ Fuse(a, b) \in Alerts
  /\ \A n \in Nat, c \in Ranges, a \in Alerts, o \in BOOLEAN :
       ThreatUpdate(n, c) \in Nat /\ Decision(o, n, c, a) \in Labels
<1>1. HoldTime \in Nat /\ EvadeHold \in Nat /\ 0 \in 0 .. MaxRange
  BY AlertAssumption DEF AlertAssumption
<1>2. NoAlert \in Alerts
  BY DEF Alerts
<1>3. Nothing \in World
  BY <1>1 DEF Nothing, World
<1>4. ASSUME NEW a \in Alerts, NEW b \in Alerts, NEW n \in Nat
      PROVE  Promoted(a, b, n) \in Alerts /\ HoldAfter(a, n) \in Nat /\ Fuse(a, b) \in Alerts
  BY <1>1, <1>2 DEF Promoted, HoldAfter, Fuse
<1>5. ASSUME NEW n \in Nat, NEW c \in Ranges, NEW a \in Alerts, NEW o \in BOOLEAN
      PROVE  ThreatUpdate(n, c) \in Nat /\ Decision(o, n, c, a) \in Labels
  BY <1>1 DEF ThreatUpdate, Decision, Labels
<1> QED
  BY <1>2, <1>3, <1>4, <1>5

LEMMA AlertTypes ==
  ASSUME world \in World, up \in SUBSET Pilots
  PROVE  /\ \A q \in Pilots : AlertOf(q) \in Alert
         /\ \A r : Sent(r) \subseteq Alert
         /\ \A q \in Pilots : world.sees[q] \in Ranges
<1>1. \A q \in Pilots : world.sees[q] \in Ranges
  BY DEF World, Ranges
<1>2. \A q \in Pilots : AlertOf(q) \in Alert
  BY <1>1 DEF AlertOf, Alert
<1> QED
  BY <1>1, <1>2 DEF Sent, Senders

\* What a whole frame makes of the aircraft depends on the last one and on
\* what is perceived alone.
LEMMA SameFrame ==
  ASSUME UNCHANGED <<last, world>>
  PROVE  /\ \A p : /\ NewCurrent(p)' = NewCurrent(p) /\ NewHold(p)' = NewHold(p)
                   /\ NewTimer(p)' = NewTimer(p) /\ NewLabel(p)' = NewLabel(p)
         /\ \A p : AlertOf(p)' = AlertOf(p)
BY DEF NewCurrent, NewHold, NewTimer, NewLabel, AlertOf

\* While nobody's alert goes anywhere new, what was sent stays what it is.
LEMMA SameSent ==
  ASSUME UNCHANGED <<last, world, up>>, NEW r,
         \A q \in up : NewLabel(q) = "EVADE" => (Delivered(q, r)' <=> Delivered(q, r))
  PROVE  Sent(r)' = Sent(r)
<1>1. Senders(r)' = Senders(r)
  BY SameFrame DEF Senders
<1> QED
  BY <1>1, SameFrame DEF Sent

-----------------------------------------------------------------------------
(* Every step keeps FrameInv.                                              *)

LEMMA InitFrame == Init => FrameInv
<1> SUFFICES ASSUME Init PROVE FrameInv
  OBVIOUS
<1> USE DEF Init
<1>1. Types
  BY OperatorTypes DEF Types, Labels
<1>2. Threads \subseteq Nat \ {0} /\ \A t \in Threads : Owns(t, t)
  BY ShareEnds DEF Threads
<1>3. ShareInv
  BY <1>2 DEF ShareInv, Shared
<1>4. Kept /\ Idle /\ Flying /\ Receiving /\ Processing
  BY DEF Kept, Idle, Flying, Receiving, Processing
<1> QED
  BY <1>1, <1>3, <1>4 DEF FrameInv

LEMMA BeginFrameKeeps == FrameInv /\ BeginFrame => FrameInv'
<1> SUFFICES ASSUME FrameInv, BeginFrame PROVE FrameInv'
  OBVIOUS
<1> USE DEF BeginFrame, FrameInv, threadVars, history
<1>1. Snapshot = last /\ index = [t \in Threads |-> t] /\ ~running
  BY DEF Kept, Idle
<1>2. /\ last.staged = staged /\ last.current = current /\ last.hold = hold
      /\ last.timer = timer /\ last.label = label /\ last.up = up
  BY <1>1 DEF Snapshot
<1>3. Types'
  BY SquadronAssumption DEF SquadronAssumption, Types
<1>4. \A t \in Threads : walk[t] = 0
  BY DEF ShareInv
<1>5. ShareInv'
  BY <1>4 DEF ShareInv, Shared, Owns
<1>6. Kept' /\ Idle' /\ Flying' /\ Processing'
  BY <1>2 DEF Kept, Idle, Flying, Processing
<1>7. Receiving'
  BY <1>1, <1>2, ShareEnds DEF Receiving, Undecided, Untouched, Done
<1> QED
  BY <1>3, <1>5, <1>6, <1>7

LEMMA BeginFrozenFrameKeeps == FrameInv /\ BeginFrozenFrame => FrameInv'
<1> SUFFICES ASSUME FrameInv, BeginFrozenFrame PROVE FrameInv'
  OBVIOUS
<1> USE DEF BeginFrozenFrame, FrameInv, threadVars, modelVars, history
<1>1. Types'
  BY DEF Types
<1>2. \A t \in Threads : walk[t] = 0
  BY DEF ShareInv
<1>3. ShareInv'
  BY <1>2 DEF ShareInv, Shared, Owns
<1>4. Kept'
  BY DEF Kept, Idle, Snapshot
<1>5. Idle' /\ Flying' /\ Receiving' /\ Processing'
  BY DEF Idle, Flying, Receiving, Processing
<1> QED
  BY <1>1, <1>3, <1>4, <1>5

LEMMA ReceiveKeeps ==
  ASSUME FrameInv, NEW t \in Threads, Receive(t)
  PROVE  FrameInv'
<1> DEFINE p == index[t]
<1> USE DEF Receive, FrameInv, history, Own, Advance
<1>1. /\ phase = "receive" /\ p \in Pilots /\ UNCHANGED <<phase, running, world, walk, timer, label, up, last>>
      /\ index' = [index EXCEPT ![t] = @ + NumThreads]
  OBVIOUS
<1>2. /\ Shared(index') /\ ~Done(p)
      /\ \A q \in Pilots : Done(q)' <=> Done(q) \/ q = p
  BY <1>1, ShareAdvances DEF ShareInv, Done
<1>3. \A q : NewCurrent(q)' = NewCurrent(q) /\ NewHold(q)' = NewHold(q)
  BY <1>1, SameFrame
<1>4. ShareInv'
  BY <1>1, <1>2, SameFrame DEF ShareInv
<1>5. Idle' /\ Flying' /\ Processing'
  BY <1>1 DEF Idle, Flying, Processing
<1>6. CASE ~Acts(t)
  <2>1. UNCHANGED <<current, hold, staged>>
    BY <1>6
  <2>2. Types' /\ Kept'
    BY <1>1, <2>1 DEF Types, Kept, Snapshot
  <2>3. Receiving'
    BY <1>1, <1>2, <1>3, <1>6, <2>1 DEF Acts, Receiving, Undecided, Untouched, Received
  <2> QED
    BY <1>4, <1>5, <2>2, <2>3
<1>7. CASE Acts(t)
  <2>1. /\ current' = [current EXCEPT ![p] = Promoted(staged[p], current[p], hold[p])]
        /\ hold'    = [hold EXCEPT ![p] = HoldAfter(staged[p], hold[p])]
        /\ staged'  = [staged EXCEPT ![p] = NoAlert]
        /\ running /\ p \in up
    BY <1>7 DEF Acts
  <2>2. Promoted(staged[p], current[p], hold[p]) \in Alerts /\ HoldAfter(staged[p], hold[p]) \in Nat
    BY <1>1, OperatorTypes DEF Types
  <2>3. Types'
    BY <1>1, <2>1, <2>2, OperatorTypes DEF Types
  <2>4. Kept'
    BY <1>1, <2>1 DEF Kept
  <2>5. Untouched(p)
    BY <1>1, <1>2, <2>1 DEF Receiving
  <2>6. current'[p] = NewCurrent(p) /\ hold'[p] = NewHold(p) /\ staged'[p] = NoAlert
    BY <1>1, <2>1, <2>5 DEF Types, Untouched, NewCurrent, NewHold
  <2>7. \A q \in Pilots \ {p} : current'[q] = current[q] /\ hold'[q] = hold[q] /\ staged'[q] = staged[q]
    BY <2>1 DEF Types
  <2>8. ASSUME NEW q \in Pilots
        PROVE  /\ Undecided(q)'
               /\ (q \in up /\ Done(q) => Received(q) /\ staged[q] = NoAlert)'
               /\ (~(q \in up /\ Done(q)) => Untouched(q))'
    <3>1. Undecided(q)'
      BY <1>1, <2>1 DEF Receiving, Undecided
    <3>2. CASE q = p
      BY <1>1, <1>2, <1>3, <2>1, <2>6, <3>1, <3>2 DEF Received
    <3>3. CASE q # p
      BY <1>1, <1>2, <1>3, <2>1, <2>7, <3>1, <3>3 DEF Receiving, Received, Untouched
    <3> QED
      BY <3>2, <3>3
  <2>9. Receiving'
    BY <2>8 DEF Receiving
  <2> QED
    BY <1>4, <1>5, <2>3, <2>4, <2>9
<1> QED
  BY <1>6, <1>7

LEMMA EndReceiveKeeps == FrameInv /\ EndReceive => FrameInv'
<1> SUFFICES ASSUME FrameInv, EndReceive PROVE FrameInv'
  OBVIOUS
<1> USE DEF EndReceive, FrameInv, modelVars, history
<1>1. Types' /\ Idle' /\ Flying' /\ Receiving' /\ Kept'
  BY DEF Types, Idle, Flying, Receiving, Kept, Snapshot
<1>2. \A t \in Threads : walk[t] = 0
  BY DEF ShareInv
<1>3. Threads \subseteq Nat \ {0} /\ \A t \in Threads : Owns(t, t)
  BY ShareEnds DEF Threads
<1>4. ShareInv'
  BY <1>2, <1>3 DEF ShareInv, Shared, Owns
<1>5. \A p \in Pilots : ~Done(p)'
  BY ShareEnds DEF Done
<1>6. \A p \in Pilots : Done(p)
  BY ShareEnds DEF Done, PhaseDone, ShareInv, Shared
<1>7. ASSUME NEW p \in Pilots PROVE ~Decided(p)' /\ Sent(p)' = {}
  <2>1. ~Decided(p)'
    BY <1>2, <1>5, <1>7 DEF Decided
  <2>2. \A q \in Pilots : ~Delivered(q, p)'
    BY <1>2, <1>5, <1>7 DEF Delivered, Pilots
  <2>3. Senders(p)' = {}
    BY <2>2 DEF Senders, Types
  <2> QED
    BY <2>1, <2>3 DEF Sent
<1>8. Nearest({}) = NoAlert /\ HasNearest({})
  BY DEF Nearest, HasNearest
<1>9. \A p : NewCurrent(p)' = NewCurrent(p) /\ NewHold(p)' = NewHold(p)
  BY SameFrame
<1>10. Processing'
  <2> SUFFICES ASSUME running, NEW p \in Pilots
               PROVE  /\ Undecided(p)' /\ ~Decided(p)'
                      /\ (p \notin up => Untouched(p))'
                      /\ (p \in up => Received(p) /\ HasNearest(Sent(p)) /\ staged[p] = Nearest(Sent(p)))'
    BY DEF Processing
  <2>1. /\ Undecided(p) /\ (p \in up => Received(p) /\ staged[p] = NoAlert)
        /\ (p \notin up => Untouched(p))
    BY <1>6 DEF Receiving
  <2>2. Undecided(p)' /\ ~Decided(p)' /\ (p \notin up => Untouched(p))'
    BY <1>7, <2>1 DEF Undecided, Untouched
  <2>3. HasNearest(Sent(p))' /\ Nearest(Sent(p))' = NoAlert
    BY <1>7, <1>8 DEF HasNearest, Nearest, Beats
  <2> QED
    BY <1>9, <2>1, <2>2, <2>3 DEF Received
<1> QED
  BY <1>1, <1>4, <1>10

LEMMA DecideKeeps ==
  ASSUME FrameInv, NEW t \in Threads, Decide(t)
  PROVE  FrameInv'
<1> DEFINE p == index[t]
           new == [index EXCEPT ![t] = @ + NumThreads]
<1> USE DEF FrameInv
<1>1. /\ phase = "process" /\ p \in Pilots /\ walk[t] = 0
      /\ UNCHANGED <<phase, running, world, staged, current, hold, up, last>>
  BY DEF Decide, history, Own
<1>2. /\ ~Done(p)
      /\ \A q \in Pilots : DoneIn(new, q) <=> Done(q) \/ q = p
      /\ \A u \in Threads : index[u] = p => u = t
      /\ \A u \in Threads \ {t} : new[u] = index[u]
      /\ Shared(new)
  BY <1>1, ShareAdvances DEF ShareInv, Done
<1>3. \A q : /\ NewCurrent(q)' = NewCurrent(q) /\ NewHold(q)' = NewHold(q)
             /\ NewTimer(q)' = NewTimer(q) /\ NewLabel(q)' = NewLabel(q)
  BY <1>1, SameFrame
<1>4. Idle' /\ Flying' /\ Receiving'
  BY <1>1 DEF Idle, Flying, Receiving
<1>5. CASE ~Acts(t)
  <2>1. UNCHANGED <<timer, label, walk>> /\ index' = new
    BY <1>5 DEF Decide, Own, Advance
  <2>2. Types' /\ Kept'
    BY <1>1, <2>1 DEF Types, Kept, Snapshot
  <2>3. ShareInv'
    BY <1>1, <1>2, <1>3, <2>1 DEF ShareInv
  <2>4. CASE ~running
    BY <1>1, <1>4, <2>2, <2>3, <2>4 DEF Processing
  <2>5. CASE running
    <3>1. p \notin up
      BY <1>5, <2>5 DEF Acts, Own
    <3>2. \A q \in Pilots : Done(q)' <=> Done(q) \/ q = p
      BY <1>2, <2>1 DEF Done
    <3>3. \A q \in up : Decided(q)' <=> Decided(q)
      BY <1>1, <1>2, <2>1, <3>1, <3>2 DEF Decided, Types
    <3>4. \A r, q \in Pilots : q \in up => (Delivered(q, r)' <=> Delivered(q, r))
      BY <1>1, <1>2, <2>1, <3>1, <3>2 DEF Delivered, Types, Pilots
    <3>5. \A r \in Pilots : Sent(r)' = Sent(r)
      BY <1>1, <3>4, SameSent DEF Types
    <3>6. Processing'
      BY <1>1, <1>3, <2>1, <2>5, <3>3, <3>5
      DEF Processing, Untouched, Undecided, Received, HasNearest
    <3> QED
      BY <1>4, <2>2, <2>3, <3>6
  <2> QED
    BY <2>4, <2>5
<1>6. CASE Acts(t)
  <2>1. /\ timer' = [timer EXCEPT ![p] = After(p)]
        /\ label' = [label EXCEPT ![p] = Choice(p)]
        /\ Execute(t, p) /\ running /\ p \in up
    BY <1>6 DEF Decide, Acts, Own
  <2>2. ~Decided(p)
    BY <1>1, <1>2 DEF Decided
  <2>3. After(p) = NewTimer(p) /\ Choice(p) = NewLabel(p)
    BY <1>1, <2>1, <2>2
    DEF Processing, After, Choice, Overruled, NewTimer, NewLabel, Received, Undecided
  <2>4. After(p) \in Nat /\ Choice(p) \in Labels
    <3>1. timer[p] \in Nat /\ current[p] \in Alerts /\ Overruled(p) \in BOOLEAN
      BY <1>1 DEF Types, Overruled
    <3>2. world.sees[p] \in Ranges
      BY <1>1, AlertTypes DEF Types
    <3>3. After(p) \in Nat
      BY <3>1, <3>2, OperatorTypes DEF After
    <3> QED
      BY <3>1, <3>2, <3>3, OperatorTypes DEF Choice
  <2>5. Types'
    BY <1>1, <2>1, <2>4 DEF Types
  <2>6. Kept'
    BY <1>1, <2>1 DEF Kept
  <2>7. \A q \in Pilots : /\ timer'[q] = IF q = p THEN NewTimer(q) ELSE timer[q]
                          /\ label'[q] = IF q = p THEN NewLabel(q) ELSE label[q]
    BY <2>1, <2>3 DEF Types
  <2>8. /\ ShareInv'
        /\ \A q \in Pilots : Decided(q)' <=> Decided(q) \/ q = p
        /\ \A r, q \in Pilots : NewLabel(q) = "EVADE" => (Delivered(q, r)' <=> Delivered(q, r))
    <3>1. CASE NewLabel(p) = "EVADE"
      <4>1. index' = index /\ walk' = [walk EXCEPT ![t] = 1]
        BY <2>1, <2>3, <3>1 DEF Execute
      <4>2. 1 \in Pilots
        BY <1>1, AlertAssumption DEF Pilots, AlertAssumption
      <4>3. walk'[t] = 1 /\ \A u \in Threads \ {t} : walk'[u] = walk[u]
        BY <4>1 DEF ShareInv
      <4>4. ShareInv'
        <5>1. walk' \in [Threads -> Nat]
          BY <4>1 DEF ShareInv
        <5> QED
          BY <1>1, <1>3, <2>1, <3>1, <4>1, <4>2, <4>3, <5>1 DEF ShareInv, Shared, Owns
      <4>5. \A q \in Pilots : Done(q)' <=> Done(q)
        BY <4>1 DEF Done
      <4>6. \A q \in Pilots : Decided(q)' <=> Decided(q) \/ q = p
        BY <4>1, <4>3, <4>5 DEF Decided
      <4>7. \A r, q \in Pilots : Delivered(q, r)' <=> Delivered(q, r)
        <5> SUFFICES ASSUME NEW r \in Pilots, NEW q \in Pilots
                     PROVE  Delivered(q, r)' <=> Delivered(q, r)
          OBVIOUS
        <5>1. \A u \in Threads : walk'[u] > r <=> walk[u] > r
          BY <1>1, <4>3 DEF Pilots
        <5> QED
          BY <4>1, <4>5, <5>1 DEF Delivered
      <4> QED
        BY <4>4, <4>6, <4>7
    <3>2. CASE NewLabel(p) # "EVADE"
      <4>1. index' = new /\ walk' = walk
        BY <2>1, <2>3, <3>2 DEF Execute, Advance
      <4>2. ShareInv'
        BY <1>1, <1>2, <1>3, <4>1 DEF ShareInv
      <4>3. \A q \in Pilots : Done(q)' <=> Done(q) \/ q = p
        BY <1>2, <4>1 DEF Done
      <4>4. \A q \in Pilots : Decided(q)' <=> Decided(q) \/ q = p
        BY <1>1, <1>2, <4>1, <4>3 DEF Decided
      <4>5. \A r, q \in Pilots : q # p => (Delivered(q, r)' <=> Delivered(q, r))
        BY <1>1, <1>2, <4>1, <4>3 DEF Delivered, Pilots
      <4> QED
        BY <3>2, <4>2, <4>4, <4>5
    <3> QED
      BY <3>1, <3>2
  <2>9. \A r \in Pilots : Sent(r)' = Sent(r)
    <3>1. UNCHANGED <<last, world, up>> /\ up \subseteq Pilots
      BY <1>1 DEF Types
    <3> QED
      BY <2>8, <3>1, SameSent
  <2>10. Processing'
    <3> SUFFICES ASSUME NEW q \in Pilots
                 PROVE  /\ (q \notin up => Untouched(q) /\ Undecided(q))'
                        /\ (q \in up => Received(q) /\ HasNearest(Sent(q)) /\ staged[q] = Nearest(Sent(q)))'
                        /\ (q \in up /\ Decided(q) => timer[q] = NewTimer(q) /\ label[q] = NewLabel(q))'
                        /\ (q \in up /\ ~Decided(q) => Undecided(q))'
      BY DEF Processing
    <3>1. /\ q \notin up => Untouched(q) /\ Undecided(q)
          /\ q \in up => Received(q) /\ HasNearest(Sent(q)) /\ staged[q] = Nearest(Sent(q))
          /\ q \in up /\ Decided(q) => timer[q] = NewTimer(q) /\ label[q] = NewLabel(q)
          /\ q \in up /\ ~Decided(q) => Undecided(q)
      BY <1>1, <2>1 DEF Processing
    <3>2. (q \in up => Received(q) /\ HasNearest(Sent(q)) /\ staged[q] = Nearest(Sent(q)))'
      BY <1>1, <1>3, <2>9, <3>1 DEF Received, HasNearest
    <3>3. (q \notin up => Untouched(q) /\ Undecided(q))'
      BY <1>1, <2>1, <2>7, <3>1 DEF Untouched, Undecided
    <3>4. (q \in up /\ Decided(q) => timer[q] = NewTimer(q) /\ label[q] = NewLabel(q))'
      BY <1>1, <1>3, <2>7, <2>8, <3>1
    <3>5. (q \in up /\ ~Decided(q) => Undecided(q))'
      BY <1>1, <2>7, <2>8, <3>1 DEF Undecided
    <3> QED
      BY <3>2, <3>3, <3>4, <3>5
  <2> QED
    BY <1>4, <2>5, <2>6, <2>8, <2>10
<1> QED
  BY <1>5, <1>6

LEMMA DeliverKeeps ==
  ASSUME FrameInv, NEW t \in Threads, Deliver(t)
  PROVE  FrameInv'
<1> DEFINE s == index[t]
           r == walk[t]
           new == [index EXCEPT ![t] = @ + NumThreads]
           goes == r # s /\ r \in up /\ Accepts(r, s, world)
<1> USE DEF FrameInv
<1>1. /\ phase = "process" /\ running /\ s \in up /\ s \in Pilots /\ r \in Pilots /\ r # 0
      /\ NewLabel(s) = "EVADE"
      /\ UNCHANGED <<phase, running, world, current, hold, timer, label, up, last>>
  BY DEF Deliver, history, Own, ShareInv, Types
<1>2. /\ ~Done(s)
      /\ \A q \in Pilots : DoneIn(new, q) <=> Done(q) \/ q = s
      /\ \A u \in Threads : index[u] = s => u = t
      /\ \A u \in Threads \ {t} : new[u] = index[u]
      /\ Shared(new)
  BY ShareAdvances DEF ShareInv, Done
<1>3. /\ \A q : /\ NewCurrent(q)' = NewCurrent(q) /\ NewHold(q)' = NewHold(q)
                /\ NewTimer(q)' = NewTimer(q) /\ NewLabel(q)' = NewLabel(q)
      /\ \A q : AlertOf(q)' = AlertOf(q)
  BY <1>1, SameFrame
<1>4. Idle' /\ Flying' /\ Receiving' /\ Kept'
  BY <1>1 DEF Idle, Flying, Receiving, Kept
<1>5. staged' = IF goes THEN [staged EXCEPT ![r] = Fuse(staged[r], AlertOf(s))] ELSE staged
  BY DEF Deliver, Own, AlertOf
<1>6. AlertOf(s) \in Alert
  BY <1>1, AlertTypes DEF Types
<1>7. Types'
  <2>1. goes => Fuse(staged[r], AlertOf(s)) \in Alerts
    BY <1>1, <1>6, OperatorTypes DEF Types, Alerts
  <2> QED
    BY <1>1, <1>5, <2>1 DEF Types
<1>8. /\ ShareInv'
      /\ \A q \in Pilots : Decided(q)' <=> Decided(q)
      /\ \A x, q \in Pilots : Delivered(q, x)' <=> Delivered(q, x) \/ (q = s /\ x = r)
  <2>0. NumPilots \in Nat
    BY AlertAssumption DEF AlertAssumption
  <2>1. CASE r = NumPilots
    <3>1. index' = new /\ walk' = [walk EXCEPT ![t] = 0]
      BY <2>1 DEF Deliver, Advance
    <3>2. /\ walk'[t] = 0 /\ \A u \in Threads \ {t} : walk'[u] = walk[u]
          /\ walk' \in [Threads -> Nat]
      BY <3>1 DEF ShareInv
    <3>3. ShareInv'
      BY <1>1, <1>2, <1>3, <3>1, <3>2 DEF ShareInv
    <3>4. \A q \in Pilots : Done(q)' <=> Done(q) \/ q = s
      BY <1>2, <3>1 DEF Done
    <3>5. \A q \in Pilots : Decided(q)' <=> Decided(q)
      BY <1>1, <1>2, <3>1, <3>2, <3>4 DEF Decided
    <3>6. ASSUME NEW x \in Pilots, NEW q \in Pilots
          PROVE  Delivered(q, x)' <=> Delivered(q, x) \/ (q = s /\ x = r)
      <4>1. x \in Nat /\ x <= NumPilots /\ ~(0 > x)
        BY <2>0 DEF Pilots
      <4>2. CASE q = s
        <5>1. Delivered(q, x) <=> r > x
          BY <1>2, <4>2 DEF Delivered
        <5>2. r > x \/ x = r
          BY <2>0, <2>1, <4>1
        <5> QED
          BY <3>4, <4>2, <5>1, <5>2 DEF Delivered
      <4>3. CASE q # s
        BY <1>2, <3>1, <3>2, <3>4, <4>1, <4>3 DEF Delivered
      <4> QED
        BY <4>2, <4>3
    <3> QED
      BY <3>3, <3>5, <3>6
  <2>2. CASE r # NumPilots
    <3>1. index' = index /\ walk' = [walk EXCEPT ![t] = r + 1]
      BY <2>2 DEF Deliver
    <3>2. r \in Nat /\ r + 1 \in Pilots
      BY <1>1, <2>0, <2>2 DEF Pilots
    <3>3. /\ walk'[t] = r + 1 /\ \A u \in Threads \ {t} : walk'[u] = walk[u]
          /\ walk' \in [Threads -> Nat]
      BY <3>1, <3>2 DEF ShareInv
    <3>4. ShareInv'
      BY <1>1, <1>3, <3>1, <3>2, <3>3 DEF ShareInv, Shared, Owns
    <3>5. \A q \in Pilots : Done(q)' <=> Done(q)
      BY <3>1 DEF Done
    <3>6. \A q \in Pilots : Decided(q)' <=> Decided(q)
      <4>1. walk'[t] # 0
        BY <3>2, <3>3
      <4> QED
        BY <1>1, <3>1, <3>3, <3>5, <4>1 DEF Decided
    <3>7. ASSUME NEW x \in Pilots, NEW q \in Pilots
          PROVE  Delivered(q, x)' <=> Delivered(q, x) \/ (q = s /\ x = r)
      <4>1. walk'[t] > x <=> walk[t] > x \/ x = r
        BY <3>2, <3>3 DEF Pilots
      <4> QED
        BY <1>2, <3>1, <3>3, <3>5, <4>1 DEF Delivered
    <3> QED
      BY <3>4, <3>6, <3>7
  <2> QED
    BY <2>1, <2>2
<1>9. \A x \in Pilots : x # r \/ ~goes => staged'[x] = staged[x]
  BY <1>5 DEF Types
<1>10. ASSUME NEW x \in up
       PROVE  (HasNearest(Sent(x)) /\ staged[x] = Nearest(Sent(x)))'
  <2>1. HasNearest(Sent(x)) /\ staged[x] = Nearest(Sent(x)) /\ x \in Pilots
    BY <1>1, <1>10 DEF Processing, Types
  <2>2. CASE x = r /\ goes
    <3>1. Senders(x)' = Senders(x) \cup {s}
      BY <1>1, <1>3, <1>8, <2>2 DEF Senders, Types
    <3>2. Sent(x)' = Sent(x) \cup {AlertOf(s)}
      BY <1>3, <3>1 DEF Sent
    <3>3. /\ Fuse(Nearest(Sent(x)), AlertOf(s)) = Nearest(Sent(x)')
          /\ HasNearest(Sent(x)')
      BY <1>6, <2>1, <3>2, AlertTypes, FusionIsNearest DEF Types
    <3>4. staged'[x] = Fuse(staged[x], AlertOf(s))
      BY <1>5, <2>1, <2>2 DEF Types
    <3> QED
      BY <2>1, <3>3, <3>4 DEF HasNearest, Nearest, Beats
  <2>3. CASE ~(x = r /\ goes)
    <3>1. Senders(x)' = Senders(x)
      BY <1>1, <1>3, <1>8, <1>10, <2>3 DEF Senders, Types
    <3>2. Sent(x)' = Sent(x)
      BY <1>3, <3>1 DEF Sent
    <3> QED
      BY <1>9, <2>1, <2>3, <3>2 DEF HasNearest
  <2> QED
    BY <2>2, <2>3
<1>11. Processing'
  <2> SUFFICES ASSUME NEW q \in Pilots
               PROVE  /\ (q \notin up => Untouched(q) /\ Undecided(q))'
                      /\ (q \in up => Received(q))'
                      /\ (q \in up /\ Decided(q) => timer[q] = NewTimer(q) /\ label[q] = NewLabel(q))'
                      /\ (q \in up /\ ~Decided(q) => Undecided(q))'
    BY <1>1, <1>10 DEF Processing
  <2>1. /\ q \notin up => Untouched(q) /\ Undecided(q)
        /\ q \in up => Received(q)
        /\ q \in up /\ Decided(q) => timer[q] = NewTimer(q) /\ label[q] = NewLabel(q)
        /\ q \in up /\ ~Decided(q) => Undecided(q)
    BY <1>1 DEF Processing
  <2>2. q \notin up => staged'[q] = staged[q]
    BY <1>9
  <2> QED
    BY <1>1, <1>3, <1>8, <2>1, <2>2 DEF Untouched, Undecided, Received
<1> QED
  BY <1>4, <1>7, <1>8, <1>11

LEMMA EndFrameKeeps == FrameInv /\ EndFrame => FrameInv'
<1> SUFFICES ASSUME FrameInv, EndFrame PROVE FrameInv'
  OBVIOUS
<1> USE DEF EndFrame, FrameInv, modelVars
<1>1. Types'
  BY OperatorTypes DEF Types
<1>2. \A t \in Threads : walk[t] = 0
  <2> SUFFICES ASSUME NEW t \in Threads, walk[t] # 0 PROVE FALSE
    OBVIOUS
  <2>1. index[t] \in Pilots
    BY DEF ShareInv, Types
  <2> QED
    BY <2>1, AlertAssumption DEF PhaseDone, Pilots, AlertAssumption
<1>3. Threads \subseteq Nat \ {0} /\ \A t \in Threads : Owns(t, t)
  BY ShareEnds DEF Threads
<1>4. ShareInv'
  BY <1>2, <1>3 DEF ShareInv, Shared, Owns
<1>5. Kept' /\ Idle' /\ Flying' /\ Receiving' /\ Processing'
  BY DEF Kept, Idle, Flying, Receiving, Processing, Snapshot
<1> QED
  BY <1>1, <1>4, <1>5

LEMMA ResetKeeps == FrameInv /\ Reset => FrameInv'
<1> SUFFICES ASSUME FrameInv, Reset PROVE FrameInv'
  OBVIOUS
<1> USE DEF Reset, FrameInv, threadVars
<1>1. ~running /\ Snapshot = last /\ UNCHANGED <<phase, running, world, index, walk, label>>
  BY DEF Idle, Kept
<1>2. Types'
  BY OperatorTypes DEF Types, TimersAfterReset
<1>3. \A t \in Threads : walk[t] = 0
  BY DEF ShareInv
<1>4. ShareInv'
  BY <1>1, <1>3 DEF ShareInv, Shared, Owns
<1>5. last' = Snapshot'
  BY <1>1 DEF Snapshot
<1>6. Kept' /\ Idle' /\ Flying' /\ Receiving' /\ Processing'
  BY <1>1, <1>5 DEF Kept, Idle, Flying, Receiving, Processing
<1> QED
  BY <1>2, <1>4, <1>6

LEMMA StutterKeeps == FrameInv /\ UNCHANGED vars => FrameInv'
<1> SUFFICES ASSUME FrameInv, UNCHANGED vars PROVE FrameInv'
  OBVIOUS
<1> USE DEF vars, threadVars, modelVars, history
<1>1. /\ \A p : /\ NewCurrent(p)' = NewCurrent(p) /\ NewHold(p)' = NewHold(p)
                /\ NewTimer(p)' = NewTimer(p) /\ NewLabel(p)' = NewLabel(p)
      /\ \A p : Done(p)' <=> Done(p)
      /\ \A p : Decided(p)' <=> Decided(p)
  BY SameFrame DEF Done, DoneIn, Decided
<1>2. \A r : Sent(r)' = Sent(r)
  BY SameSent DEF Delivered, Done, DoneIn
<1>3. Types' /\ ShareInv' /\ Kept' /\ Idle' /\ Flying'
  BY <1>1 DEF FrameInv, Types, ShareInv, Shared, Owns, Kept, Idle, Flying, Snapshot
<1>4. Receiving'
  BY <1>1 DEF FrameInv, Receiving, Undecided, Untouched, Received
<1>5. Processing'
  BY <1>1, <1>2 DEF FrameInv, Processing, Undecided, Untouched, Received, HasNearest
<1> QED
  BY <1>3, <1>4, <1>5 DEF FrameInv

\* In every reachable state each aircraft is where the frame in progress has
\* brought it: what its thread has done is what a whole frame does to it, the
\* rest is as the last frame left it, and the alert staged with a receiver is
\* the nearest of those delivered so far (Simulation.cpp, updateTC(), the
\* phases of the T/C threads; AlertDatalink.cpp).
THEOREM FrameFollows == Spec => []FrameInv
<1>1. Init => FrameInv
  BY InitFrame
<1>2. FrameInv /\ [Next]_vars => FrameInv'
  <2> SUFFICES ASSUME FrameInv, [Next]_vars PROVE FrameInv'
    OBVIOUS
  <2>1. CASE BeginFrame
    BY <2>1, BeginFrameKeeps
  <2>2. CASE BeginFrozenFrame
    BY <2>2, BeginFrozenFrameKeeps
  <2>3. CASE EndReceive
    BY <2>3, EndReceiveKeeps
  <2>4. CASE EndFrame
    BY <2>4, EndFrameKeeps
  <2>5. CASE Reset
    BY <2>5, ResetKeeps
  <2>6. ASSUME NEW t \in Threads, ThreadNext(t) PROVE FrameInv'
    BY <2>6, ReceiveKeeps, DecideKeeps, DeliverKeeps DEF ThreadNext
  <2>7. CASE UNCHANGED vars
    BY <2>7, StutterKeeps
  <2> QED
    BY <2>1, <2>2, <2>3, <2>4, <2>5, <2>6, <2>7 DEF Next
<1> QED
  BY <1>1, <1>2, PTL DEF Spec

-----------------------------------------------------------------------------
(* The frame of the threads is the synchronous one.                        *)

LEMMA SyncOperators ==
  /\ \A S : Sync!Nearest(S) = Nearest(S)
  /\ \A a, b, n : /\ Sync!Promoted(a, b, n) = Promoted(a, b, n)
                  /\ Sync!HoldAfter(a, n) = HoldAfter(a, n)
  /\ \A n, c : Sync!ThreatUpdate(n, c) = ThreatUpdate(n, c)
  /\ \A o, n, c, a : Sync!Decision(o, n, c, a) = Decision(o, n, c, a)
  /\ \A r, q, w : Sync!Accepts(r, q, w) <=> Accepts(r, q, w)
  /\ Sync!Pilots = Pilots /\ Sync!NoAlert = NoAlert
<1>1. \A S : Sync!Nearest(S) = Nearest(S)
  BY DEF Sync!Nearest, Nearest, Sync!NoAlert, NoAlert, Sync!Closer, Closer
<1>2. \A a, b, n : /\ Sync!Promoted(a, b, n) = Promoted(a, b, n)
                   /\ Sync!HoldAfter(a, n) = HoldAfter(a, n)
  BY DEF Sync!Promoted, Promoted, Sync!HoldAfter, HoldAfter, Sync!NoAlert, NoAlert
<1>3. \A n, c : Sync!ThreatUpdate(n, c) = ThreatUpdate(n, c)
  BY DEF Sync!ThreatUpdate, ThreatUpdate
<1>4. \A o, n, c, a : Sync!Decision(o, n, c, a) = Decision(o, n, c, a)
  BY DEF Sync!Decision, Decision, Sync!NoAlert, NoAlert
<1>5. \A r, q, w : Sync!Accepts(r, q, w) <=> Accepts(r, q, w)
  BY DEF Sync!Accepts, Accepts
<1>6. Sync!Pilots = Pilots /\ Sync!NoAlert = NoAlert
  BY DEF Sync!Pilots, Pilots, Sync!NoAlert, NoAlert
<1> QED
  BY <1>1, <1>2, <1>3, <1>4, <1>5, <1>6

\* At the end of a frame in which the world went on everyone has had his turn.
LEMMA EndOfFrame ==
  ASSUME FrameInv, EndFrame, running, NEW p \in Pilots
  PROVE  /\ p \notin up => Untouched(p) /\ Undecided(p)
         /\ p \in up => /\ Received(p) /\ timer[p] = NewTimer(p) /\ label[p] = NewLabel(p)
                        /\ staged[p] = Nearest(Sent(p))
                        /\ Senders(p) = {q \in up \ {p} : Accepts(p, q, world) /\ label[q] = "EVADE"}
<1> USE DEF FrameInv, EndFrame
<1>1. \A q \in Pilots : Done(q)
  BY ShareEnds DEF Done, PhaseDone, ShareInv, Shared
<1>2. \A q \in Pilots : Decided(q) /\ Delivered(q, p)
  BY <1>1 DEF Decided, Delivered
<1>3. \A q \in up : label[q] = NewLabel(q)
  BY <1>2 DEF Processing, Types
<1>4. Senders(p) = {q \in up \ {p} : Accepts(p, q, world) /\ label[q] = "EVADE"}
  BY <1>2, <1>3 DEF Senders, Types
<1> QED
  BY <1>2, <1>4 DEF Processing

LEMMA EndFrameIsSync ==
  ASSUME FrameInv, EndFrame, running
  PROVE  Sync!SFrame(world, last.up \ up)
<1> DEFINE crashed == last.up \ up
<1>1. up \subseteq Pilots /\ up = last.up \ crashed
  BY DEF FrameInv, Types, Flying
<1>2. last'.up = up /\ last'.current = current /\ last'.hold = hold
      /\ last'.timer = timer /\ last'.label = label /\ last'.staged = staged
  BY DEF EndFrame, Snapshot
<1> DEFINE senders   == {p \in up : last'.label[p] = "EVADE"}
           Offers(r) == {[sender |-> q, range |-> world.sees[q]] :
                           q \in {q \in senders \ {r} : Accepts(r, q, world)}}
<1>3. ASSUME NEW p \in up PROVE Offers(p) = Sent(p)
  <2>1. Senders(p) = {q \in senders \ {p} : Accepts(p, q, world)}
    BY <1>1, <1>2, <1>3, EndOfFrame
  <2> QED
    BY <2>1 DEF Sent, AlertOf
<1>4. \A p \in Pilots : /\ p \notin up => Untouched(p) /\ Undecided(p)
                        /\ p \in up => /\ Received(p) /\ timer[p] = NewTimer(p) /\ label[p] = NewLabel(p)
                                       /\ staged[p] = Nearest(Offers(p))
  BY <1>3, EndOfFrame
<1>5. current = [p \in Pilots |-> IF p \in up THEN Promoted(last.staged[p], last.current[p], last.hold[p])
                                              ELSE last.current[p]]
  BY <1>4 DEF FrameInv, Types, Received, NewCurrent, Untouched
<1>6. hold = [p \in Pilots |-> IF p \in up THEN HoldAfter(last.staged[p], last.hold[p])
                                           ELSE last.hold[p]]
  BY <1>4 DEF FrameInv, Types, Received, NewHold, Untouched
<1>7. timer = [p \in Pilots |-> IF p \in up THEN ThreatUpdate(last.timer[p], world.sees[p])
                                            ELSE last.timer[p]]
  BY <1>4 DEF FrameInv, Types, NewTimer, Undecided
<1>8. label = [p \in Pilots |-> IF p \in up
                                THEN Decision(p \in world.overruled, timer[p], world.sees[p], current[p])
                                ELSE last.label[p]]
  BY <1>4 DEF FrameInv, Types, NewLabel, Received, Undecided
<1>9. staged = [p \in Pilots |-> IF p \in up THEN Nearest(Offers(p)) ELSE last.staged[p]]
  BY <1>4 DEF FrameInv, Types, Untouched
<1> HIDE DEF senders, Offers, crashed
<1> QED
  BY <1>1, <1>2, <1>5, <1>6, <1>7, <1>8, <1>9, SyncOperators
  DEF Sync!SFrame, crashed, Offers, senders

LEMMA ResetIsSync == FrameInv /\ Reset => Sync!SReset
<1> SUFFICES ASSUME FrameInv, Reset PROVE Sync!SReset
  OBVIOUS
<1>1. last = Snapshot
  BY DEF FrameInv, Idle, Kept, Reset
<1>2. last'.staged = staged' /\ last'.current = current' /\ last'.hold = hold'
      /\ last'.timer = timer' /\ last'.label = last.label /\ last'.up = up' /\ last.timer = timer
  BY <1>1 DEF Snapshot, Reset
<1> QED
  BY <1>2, SyncOperators DEF Reset, TimersAfterReset, Sync!SReset

\* The frame the threads compute, for any number of them and in any order of
\* their steps, is the frame of the synchronous specification, and a frame of
\* a frozen simulation changes nothing: the result does not depend on the
\* number of threads nor on which alert arrives first (README.md:113,
\* AlertDatalink.hpp:70-77).
THEOREM FrameImplementsSync == Spec => SyncSpec
<1>1. Init => Sync!SInit
  BY SyncOperators DEF Init, Snapshot, Sync!SInit
<1>2. FrameInv /\ [Next]_vars => [Sync!SNext]_(Sync!frameVars)
  <2> SUFFICES ASSUME FrameInv, [Next]_vars PROVE Sync!SNext \/ UNCHANGED Sync!frameVars
    OBVIOUS
  <2>1. CASE EndFrame
    <3>1. CASE running
      <4>1. world \in Worlds /\ last.up \ up \in SUBSET (last.up \cap MayCrash)
        BY <3>1 DEF FrameInv, Flying
      <4> QED
        BY <2>1, <3>1, <4>1, EndFrameIsSync DEF Sync!SNext
    <3>2. CASE ~running
      BY <2>1, <3>2 DEF EndFrame, FrameInv, Kept, Sync!frameVars
    <3> QED
      BY <3>1, <3>2
  <2>2. CASE Reset
    BY <2>2, ResetIsSync DEF Sync!SNext
  <2>3. CASE BeginFrame \/ BeginFrozenFrame \/ EndReceive \/ UNCHANGED vars
    BY <2>3 DEF BeginFrame, BeginFrozenFrame, EndReceive, vars, history, Sync!frameVars
  <2>4. CASE \E t \in Threads : ThreadNext(t)
    BY <2>4 DEF ThreadNext, Receive, Decide, Deliver, history, Sync!frameVars
  <2> QED
    BY <2>1, <2>2, <2>3, <2>4 DEF Next
<1> QED
  BY <1>1, <1>2, FrameFollows, PTL DEF Spec, SyncSpec, Sync!SSpec

-----------------------------------------------------------------------------
(* The counters of frames.                                                 *)

LEMMA Ageing ==
  /\ LongAgo \in Nat /\ LongAgo > HoldTime /\ LongAgo > EvadeHold
  /\ \A n \in 0 .. LongAgo : Older(n) \in 1 .. LongAgo
  /\ \A m, n \in 0 .. LongAgo : m <= n => Older(m) <= Older(n)
  /\ \A n \in 0 .. LongAgo : Older(n) = n + 1 \/ (n = LongAgo /\ Older(n) = n)
BY AlertAssumption DEF AlertAssumption, LongAgo, Older

\* The datalink after a whole frame: an alert of the frame is 0 frames old, one
\* accepted before is a frame older.
LEMMA HoldAges ==
  ASSUME NEW st \in Alerts, NEW cur \in Alerts, NEW h \in Nat, NEW n \in 0 .. LongAgo,
         st # NoAlert <=> n = 0,
         n \in 1 .. HoldTime => cur # NoAlert /\ h = HoldTime - n + 1,
         n > HoldTime => cur = NoAlert /\ h = 0
  PROVE  LET c == Promoted(st, cur, h)
             k == HoldAfter(st, h)
             m == Older(n)
         IN /\ m \in 1 .. HoldTime => c # NoAlert /\ k = HoldTime - m + 1
            /\ m > HoldTime => c = NoAlert /\ k = 0
<1>1. HoldTime \in Nat \ {0}
  BY AlertAssumption DEF AlertAssumption
<1>2. CASE n = 0
  BY <1>1, <1>2, Ageing DEF Promoted, HoldAfter
<1>3. CASE n \in 1 .. HoldTime
  BY <1>1, <1>3, Ageing DEF Promoted, HoldAfter
<1>4. CASE n > HoldTime
  BY <1>1, <1>4, Ageing DEF Promoted, HoldAfter
<1> QED
  BY <1>1, <1>2, <1>3, <1>4

\* The hysteresis after a whole frame: it holds what is left of EvadeHold since
\* the contact was seen, and there is no support before it is over.
LEMMA TimerAges ==
  ASSUME NEW t \in Nat, NEW c \in Ranges, NEW n \in 0 .. LongAgo, NEW a, NEW o \in BOOLEAN,
         t >= EvadeHold - n
  PROVE  LET u == ThreatUpdate(t, c)
             m == IF c # 0 THEN 0 ELSE Older(n)
         IN u >= EvadeHold - m /\ (Decision(o, u, c, a) = "SUPPORT" => m >= EvadeHold)
<1>1. EvadeHold \in Nat \ {0}
  BY AlertAssumption DEF AlertAssumption
<1> DEFINE u == ThreatUpdate(t, c)
           m == IF c # 0 THEN 0 ELSE Older(n)
<1>2. u \in Nat /\ m \in Nat /\ u >= EvadeHold - m
  BY <1>1, Ageing DEF ThreatUpdate
<1>3. Decision(o, u, c, a) = "SUPPORT" => u = 0
  BY <1>2 DEF Decision
<1>4. u = 0 => m >= EvadeHold
  BY <1>1, <1>2
<1> QED
  BY <1>2, <1>3, <1>4

\* An alert of the frame was sent by somebody who saw the contact in it.
LEMMA StagedIsSent ==
  ASSUME FrameInv, EndFrame, running, NEW p \in up, staged[p] # NoAlert
  PROVE  staged[p].sender \in up /\ world.sees[staged[p].sender] # 0
<1>1. p \in Pilots /\ HasNearest(Sent(p)) /\ staged[p] = Nearest(Sent(p))
  BY DEF FrameInv, Types, Processing, EndFrame
<1>2. Sent(p) # {}
  BY <1>1 DEF Nearest
<1>3. staged[p] \in Sent(p)
  <2>1. PICK a \in Sent(p) : Beats(a, Sent(p))
    BY <1>1, <1>2 DEF HasNearest
  <2> QED
    BY <1>1, <2>1, NearestIsTheOneThatBeats, AlertTypes DEF FrameInv, Types
<1>4. PICK q \in Senders(p) : staged[p] = AlertOf(q)
  BY <1>3 DEF Sent
<1>5. q \in up /\ NewLabel(q) = "EVADE"
  BY <1>4 DEF Senders
<1>6. world.sees[q] # 0
  BY <1>5 DEF NewLabel, Decision
<1> QED
  BY <1>4, <1>5, <1>6 DEF AlertOf

LEMMA InitHistory == Init => HistoryInv
<1> SUFFICES ASSUME Init PROVE HistoryInv
  OBVIOUS
<1> USE DEF Init, Snapshot
<1>1. LastTypes
  BY OperatorTypes, Ageing DEF LastTypes, Labels
<1>2. HoldTime \in Nat /\ EvadeHold \in Nat
  BY AlertAssumption DEF AlertAssumption
<1>3. ASSUME NEW p \in last.up PROVE HoldFollows(p) /\ SenderSaw(p) /\ TimerFollows(p)
  BY <1>2, <1>3, Ageing DEF HoldFollows, SenderSaw, TimerFollows
<1> QED
  BY <1>1, <1>3 DEF HistoryInv

LEMMA EndFrameKeepsHistory ==
  ASSUME FrameInv, HistoryInv, EndFrame, running
  PROVE  HistoryInv'
<1> USE DEF FrameInv
<1>1. last'.up = up /\ last'.current = current /\ last'.hold = hold
      /\ last'.timer = timer /\ last'.label = label /\ last'.staged = staged
  BY DEF EndFrame, Snapshot
<1>2. /\ heard' = [p \in Pilots |-> IF staged[p] # NoAlert THEN 0 ELSE Older(heard[p])]
      /\ saw'   = [p \in Pilots |-> IF p \in up /\ world.sees[p] # 0 THEN 0 ELSE Older(saw[p])]
  BY DEF EndFrame
<1>3. LastTypes
  BY DEF HistoryInv
<1>4. LastTypes'
  <2>1. heard' \in [Pilots -> 0 .. LongAgo] /\ saw' \in [Pilots -> 0 .. LongAgo]
    BY <1>2, <1>3, Ageing DEF LastTypes
  <2> QED
    BY <1>1, <2>1 DEF LastTypes, Types
<1>5. ASSUME NEW p \in up PROVE (HoldFollows(p) /\ SenderSaw(p) /\ TimerFollows(p))'
  <2>1. p \in Pilots /\ HoldFollows(p) /\ SenderSaw(p) /\ TimerFollows(p)
    BY <1>5 DEF Types, Flying, HistoryInv
  <2>2. /\ last.staged[p] \in Alerts /\ last.current[p] \in Alerts /\ last.hold[p] \in Nat
        /\ last.timer[p] \in Nat /\ heard[p] \in 0 .. LongAgo /\ saw[p] \in 0 .. LongAgo
    BY <1>3, <2>1 DEF LastTypes
  <2>3. /\ current[p] = Promoted(last.staged[p], last.current[p], last.hold[p])
        /\ hold[p] = HoldAfter(last.staged[p], last.hold[p])
        /\ timer[p] = ThreatUpdate(last.timer[p], world.sees[p])
        /\ label[p] = Decision(p \in world.overruled, timer[p], world.sees[p], current[p])
    BY <2>1, <1>5, EndOfFrame DEF Received, NewCurrent, NewHold, NewTimer, NewLabel
  <2>4. HoldFollows(p)'
    <3>1. LET m == Older(heard[p])
          IN /\ m \in 1 .. HoldTime => current[p] # NoAlert /\ hold[p] = HoldTime - m + 1
             /\ m > HoldTime => current[p] = NoAlert /\ hold[p] = 0
      BY <2>1, <2>2, <2>3, HoldAges DEF HoldFollows
    <3>2. Older(heard[p]) # 0 /\ ~(0 \in 1 .. HoldTime) /\ ~(0 > HoldTime)
      BY <2>2, Ageing, AlertAssumption DEF AlertAssumption
    <3>3. heard'[p] = IF staged[p] # NoAlert THEN 0 ELSE Older(heard[p])
      BY <1>2, <2>1
    <3>4. CASE staged[p] # NoAlert
      BY <1>1, <3>2, <3>3, <3>4 DEF HoldFollows
    <3>5. CASE staged[p] = NoAlert
      BY <1>1, <3>1, <3>2, <3>3, <3>5 DEF HoldFollows
    <3> QED
      BY <3>4, <3>5
  <2>5. SenderSaw(p)'
    <3>1. ASSUME staged[p] # NoAlert PROVE saw'[staged[p].sender] <= heard'[p]
      <4>1. /\ staged[p].sender \in up /\ staged[p].sender \in Pilots
            /\ world.sees[staged[p].sender] # 0
        BY <1>5, <3>1, StagedIsSent DEF Types
      <4>2. saw'[staged[p].sender] = 0 /\ heard'[p] = 0
        BY <1>2, <2>1, <3>1, <4>1
      <4> QED
        BY <4>2
    <3>2. ASSUME current[p] # NoAlert, staged[p] = NoAlert
          PROVE  saw'[current[p].sender] <= heard'[p]
      <4>1. /\ current[p] = last.staged[p] \/ (current[p] = last.current[p] /\ last.staged[p] = NoAlert)
            /\ current[p] \in Alert
        BY <2>2, <2>3, <3>2 DEF Promoted, Alerts
      <4> DEFINE q == current[p].sender
      <4>2. q \in Pilots /\ saw[q] <= heard[p]
        BY <2>1, <3>2, <4>1 DEF SenderSaw, Alert
      <4>3. saw[q] \in 0 .. LongAgo
        BY <1>3, <4>2 DEF LastTypes
      <4>4. heard'[p] = Older(heard[p]) /\ saw'[q] = IF q \in up /\ world.sees[q] # 0 THEN 0 ELSE Older(saw[q])
        BY <1>2, <2>1, <3>2, <4>2
      <4> HIDE DEF q
      <4>5. Older(saw[q]) <= Older(heard[p]) /\ 0 <= Older(heard[p])
        BY <2>2, <4>2, <4>3, Ageing
      <4>6. saw'[q] <= heard'[p]
        BY <4>4, <4>5
      <4> QED
        BY <4>6 DEF q
    <3> QED
      BY <1>1, <3>1, <3>2 DEF SenderSaw
  <2>6. TimerFollows(p)'
    <3>1. world.sees[p] \in Ranges
      BY <2>1, AlertTypes DEF Types
    <3>2. saw'[p] = IF world.sees[p] # 0 THEN 0 ELSE Older(saw[p])
      BY <1>2, <1>5, <2>1
    <3>3. /\ timer[p] >= EvadeHold - saw'[p]
          /\ label[p] = "SUPPORT" => saw'[p] >= EvadeHold
      <4> DEFINE o == p \in world.overruled
      <4>1. o \in BOOLEAN /\ last.timer[p] >= EvadeHold - saw[p]
        BY <2>1 DEF TimerFollows
      <4> HIDE DEF o
      <4>2. LET u == ThreatUpdate(last.timer[p], world.sees[p])
                m == IF world.sees[p] # 0 THEN 0 ELSE Older(saw[p])
            IN u >= EvadeHold - m /\ (Decision(o, u, world.sees[p], current[p]) = "SUPPORT" => m >= EvadeHold)
        BY <2>2, <3>1, <4>1, TimerAges
      <4> QED
        BY <2>3, <3>2, <4>2 DEF o
    <3> QED
      BY <1>1, <3>3 DEF TimerFollows
  <2> QED
    BY <2>4, <2>5, <2>6
<1> QED
  BY <1>1, <1>4, <1>5 DEF HistoryInv

LEMMA ResetKeepsHistory == FrameInv /\ HistoryInv /\ Reset => HistoryInv'
<1> SUFFICES ASSUME FrameInv, HistoryInv, Reset PROVE HistoryInv'
  OBVIOUS
<1>1. last = Snapshot
  BY DEF FrameInv, Idle, Kept, Reset
<1>2. last'.staged = staged' /\ last'.current = current' /\ last'.hold = hold'
      /\ last'.timer = timer' /\ last'.label = label /\ last'.up = up'
  BY <1>1 DEF Snapshot, Reset
<1>3. LastTypes'
  BY <1>2, OperatorTypes, Ageing DEF FrameInv, Types, LastTypes, Reset, TimersAfterReset
<1>4. HoldTime \in Nat /\ EvadeHold \in Nat
  BY AlertAssumption DEF AlertAssumption
<1>5. ASSUME NEW p \in Pilots PROVE (HoldFollows(p) /\ SenderSaw(p) /\ TimerFollows(p))'
  <2>1. heard'[p] = LongAgo /\ saw'[p] = LongAgo /\ timer'[p] \in Nat
    BY <1>2, <1>3 DEF Reset, LastTypes
  <2>2. staged'[p] = NoAlert /\ current'[p] = NoAlert /\ hold'[p] = 0
    BY DEF Reset
  <2> QED
    BY <1>2, <1>4, <2>1, <2>2, Ageing DEF HoldFollows, SenderSaw, TimerFollows
<1> QED
  BY <1>2, <1>3, <1>5 DEF HistoryInv, Reset

LEMMA SameHistory == HistoryInv /\ UNCHANGED history => HistoryInv'
BY DEF HistoryInv, LastTypes, HoldFollows, SenderSaw, TimerFollows, history

\* Between frames the counters of frames say how the datalink and the
\* hysteresis of every flying aircraft stand.
LEMMA HistoryFollows == Spec => []HistoryInv
<1>1. FrameInv /\ HistoryInv /\ [Next]_vars => HistoryInv'
  <2> SUFFICES ASSUME FrameInv, HistoryInv, [Next]_vars PROVE HistoryInv'
    OBVIOUS
  <2>1. CASE EndFrame /\ running
    BY <2>1, EndFrameKeepsHistory
  <2>2. CASE EndFrame /\ ~running
    BY <2>2, SameHistory DEF EndFrame, FrameInv, Kept, history
  <2>3. CASE Reset
    BY <2>3, ResetKeepsHistory
  <2>4. CASE BeginFrame \/ BeginFrozenFrame \/ EndReceive \/ UNCHANGED vars
    BY <2>4, SameHistory DEF BeginFrame, BeginFrozenFrame, EndReceive, vars, history
  <2>5. CASE \E t \in Threads : ThreadNext(t)
    BY <2>5, SameHistory DEF ThreadNext, Receive, Decide, Deliver, history
  <2> QED
    BY <2>1, <2>2, <2>3, <2>4, <2>5 DEF Next
<1> QED
  BY <1>1, InitHistory, FrameFollows, PTL DEF Spec

LEMMA BetweenFrames ==
  ASSUME FrameInv, HistoryInv, phase = "idle", NEW p \in up
  PROVE  /\ HoldFollows(p) /\ SenderSaw(p) /\ TimerFollows(p)
         /\ last.staged = staged /\ last.current = current /\ last.label = label
BY DEF FrameInv, Idle, Kept, Snapshot, HistoryInv

\* An alert is held for exactly HoldTime frames, from the frame after the one
\* it was sent in (AlertDatalink::receive()).
THEOREM AlertIsHeld == Spec => []AlertLastsItsHold
<1>1. FrameInv /\ HistoryInv => AlertLastsItsHold
  BY BetweenFrames DEF AlertLastsItsHold, HoldFollows
<1> QED
  BY <1>1, FrameFollows, HistoryFollows, PTL

\* The sender of an alert saw the contact itself, no longer ago than the alert
\* is old (ReportAndEvadeAction.cpp:44-47).
THEOREM NobodyPassesItOn == Spec => []NobodyRelays
<1>1. FrameInv /\ HistoryInv => NobodyRelays
  BY BetweenFrames DEF NobodyRelays, SenderSaw
<1> QED
  BY <1>1, FrameFollows, HistoryFollows, PTL

\* An aircraft supports an alert only when its own contact is EvadeHold frames
\* old (flight_tree.xml, ThreatPolicy::update()).
THEOREM SupportWaitsForCalm == Spec => []SupportsOnlyWhenCalm
<1>1. FrameInv /\ HistoryInv => SupportsOnlyWhenCalm
  BY BetweenFrames DEF SupportsOnlyWhenCalm, TimerFollows
<1> QED
  BY <1>1, FrameFollows, HistoryFollows, PTL
=============================================================================
