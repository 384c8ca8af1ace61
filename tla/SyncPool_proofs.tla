--------------------------- MODULE SyncPool_proofs ---------------------------
(***************************************************************************)
(* What the pools promise for any number of threads, phases and players.   *)
(*                                                                         *)
(* The invariant says where the baton of each pool thread is.  A thread is *)
(* live from its start to its join; only then is a signal up or the thread *)
(* at work, and then exactly one of the three: it is to start, it works,   *)
(* it is done.  With it goes what is served: nothing of the share of a     *)
(* thread that has not begun, all of the share of one that is done.        *)
(***************************************************************************)
EXTENDS SyncPool, TLAPS

Live(q, w) ==
  \/ pc[q] = "start" /\ w < next[q]
  \/ pc[q] = "share"
  \/ pc[q] = "join" /\ next[q] <= w

Baton(q, w) ==
  \/ startSig[q][w] = "unlocked" /\ doneSig[q][w] # "unlocked" /\ thread[q][w] # "working"
  \/ startSig[q][w] = "locked" /\ doneSig[q][w] = "locked" /\ thread[q][w] = "working"
  \/ startSig[q][w] = "locked" /\ doneSig[q][w] = "unlocked" /\ thread[q][w] = "waiting"

Published(q, w) ==
  /\ thread[q][w] \in {"none", "failed", "spawned"} => startSig[q][w] = "null" /\ doneSig[q][w] = "null"
  /\ thread[q][w] = "halfway" => startSig[q][w] # "null" /\ doneSig[q][w] = "null"
  /\ thread[q][w] \in {"waiting", "working"} => startSig[q][w] # "null" /\ doneSig[q][w] # "null"

Hand(q, w) ==
  /\ Published(q, w)
  /\ Live(q, w) => Baton(q, w) /\ given[q][w] = held[q]
  /\ ~Live(q, w) => /\ startSig[q][w] # "unlocked" /\ doneSig[q][w] # "unlocked"
                    /\ thread[q][w] # "working"
  /\ pc[q] = "join" /\ w < next[q] => thread[q][w] = "waiting"

Steady(q) ==
  /\ held[q] = NoList <=> pc[q] = "idle"
  /\ pc[q] # "idle" => created
  /\ ~created => \A w \in Pool(q) : thread[q][w] = "none"
  /\ q \in warm => \A w \in Pool(q) : thread[q][w] \in {"waiting", "working"}

Before(q, w) ==
  \/ pc[q] = "start" /\ w >= next[q]
  \/ w # Req[q] /\ Live(q, w) /\ startSig[q][w] = "unlocked"

During(q, w) ==
  \/ w = Req[q] /\ pc[q] = "share"
  \/ w # Req[q] /\ thread[q][w] = "working"

\* What a thread has served of its share.
ShareServed(q, w) ==
  /\ During(q, w) => todo[q][w] \subseteq Share(q, w, held[q])
  /\ \A k \in Share(q, w, held[q]) :
       /\ Before(q, w) => served[q][k] = 0
       /\ During(q, w) => served[q][k] = IF k \in todo[q][w] THEN 0 ELSE 1
       /\ ~Before(q, w) /\ ~During(q, w) => served[q][k] = 1

ServedInv == \A q \in Pools : pc[q] # "idle" => \A w \in Threads(q) : ShareServed(q, w)

HandInv ==
  /\ \A q \in Pools : Steady(q) /\ \A w \in Pool(q) : Hand(q, w)
  /\ CrashOnlyInFirstPhase

-----------------------------------------------------------------------------
(* Shares.                                                                 *)

\* The remainders of 1 .. n by n are all different, and there is no other.
LEMMA Remainders ==
  ASSUME NEW n \in Nat \ {0}
  PROVE  /\ \A k \in Nat : \E w \in 1 .. n : k % n = w % n
         /\ \A v, w \in 1 .. n : v % n = w % n => v = w
<1>1. \A w \in 0 .. (n - 1) : w % n = w
  OBVIOUS
<1>2. n % n = 0
  OBVIOUS
<1>3. \A k \in Nat : k % n \in 0 .. (n - 1)
  OBVIOUS
<1>4. ASSUME NEW k \in Nat PROVE \E w \in 1 .. n : k % n = w % n
  <2>1. CASE k % n = 0
    BY <1>2, <2>1
  <2>2. CASE k % n # 0
    BY <1>1, <1>3, <2>2
  <2> QED
    BY <2>1, <2>2
<1>5. ASSUME NEW v \in 1 .. n, NEW w \in 1 .. n, v % n = w % n PROVE v = w
  BY <1>1, <1>2, <1>5
<1> QED
  BY <1>4, <1>5

\* Every player of a list is in the share of one thread,
LEMMA SharesCover ==
  ASSUME NEW q \in Pools, NEW list \in Lists, NEW k \in DOMAIN list
  PROVE  \E w \in Threads(q) : k \in Share(q, w, list)
<1>1. Req[q] \in Nat \ {0} /\ k \in Nat
  BY SyncPoolAssumption DEF SyncPoolAssumption
<1> QED
  BY <1>1, Remainders DEF Share, Threads

\* and of one only.
LEMMA SharesDisjoint ==
  ASSUME NEW q \in Pools, NEW list \in Lists, NEW v \in Threads(q), NEW w \in Threads(q),
         NEW k \in Share(q, v, list), k \in Share(q, w, list)
  PROVE  v = w
<1>1. Req[q] \in Nat \ {0}
  BY SyncPoolAssumption DEF SyncPoolAssumption
<1> QED
  BY <1>1, Remainders DEF Share, Threads

\* A share is a set of positions.
LEMMA ShareType ==
  ASSUME NEW q \in Pools, NEW list \in Lists, NEW w
  PROVE  Share(q, w, list) \subseteq DOMAIN list /\ Share(q, w, list) \subseteq Nat
  BY SyncPoolAssumption DEF SyncPoolAssumption, Share

-----------------------------------------------------------------------------
(* Types.                                                                  *)

\* A step that sets one entry of a table of threads leaves the other entries.
LEMMA Nested ==
  ASSUME NEW f, DOMAIN f = Pools, NEW q \in Pools, NEW w, NEW e, NEW g,
         g = [f EXCEPT ![q][w] = e]
  PROVE  /\ DOMAIN g = Pools
         /\ \A p \in Pools \ {q} : g[p] = f[p]
         /\ g[q] = [f[q] EXCEPT ![w] = e]
  OBVIOUS

\* One more update of one player is still a count for each.
LEMMA Bumped ==
  ASSUME NEW D, NEW f \in [D -> Nat], NEW k
  PROVE  [f EXCEPT ![k] = @ + 1] \in [D -> Nat]
<1>1. CASE k \in D
  <2>1. f[k] + 1 \in Nat
    BY <1>1
  <2> QED
    BY <2>1
<1>2. CASE k \notin D
  BY <1>2
<1> QED
  BY <1>1, <1>2

LEMMA PoolTable ==
  ASSUME NEW f, DOMAIN f = Pools, NEW R, \A p \in Pools : f[p] \in [Pool(p) -> R],
         NEW q \in Pools, NEW w \in Pool(q), NEW e \in R, NEW g,
         g = f \/ g = [f EXCEPT ![q][w] = e]
  PROVE  DOMAIN g = Pools /\ \A p \in Pools : g[p] \in [Pool(p) -> R]
<1>1. CASE g = f
  BY <1>1
<1>2. CASE g = [f EXCEPT ![q][w] = e]
  <2>1. /\ DOMAIN g = Pools
        /\ \A p \in Pools \ {q} : g[p] = f[p]
        /\ g[q] = [f[q] EXCEPT ![w] = e]
    BY <1>2, Nested
  <2>2. g[q] \in [Pool(q) -> R]
    BY <2>1
  <2> QED
    BY <2>1, <2>2
<1> QED
  BY <1>1, <1>2

LEMMA ThreadTable ==
  ASSUME NEW f, DOMAIN f = Pools, NEW R, \A p \in Pools : f[p] \in [Threads(p) -> R],
         NEW q \in Pools, NEW w \in Threads(q), NEW e \in R, NEW g,
         g = f \/ g = [f EXCEPT ![q][w] = e]
  PROVE  DOMAIN g = Pools /\ \A p \in Pools : g[p] \in [Threads(p) -> R]
<1>1. CASE g = f
  BY <1>1
<1>2. CASE g = [f EXCEPT ![q][w] = e]
  <2>1. /\ DOMAIN g = Pools
        /\ \A p \in Pools \ {q} : g[p] = f[p]
        /\ g[q] = [f[q] EXCEPT ![w] = e]
    BY <1>2, Nested
  <2>2. g[q] \in [Threads(q) -> R]
    BY <2>1
  <2> QED
    BY <2>1, <2>2
<1> QED
  BY <1>1, <1>2

\* Before a reset everything has its type,
LEMMA InitType == Init => TypeOK
<1> SUFFICES ASSUME Init PROVE TypeOK
  OBVIOUS
<1>1. /\ \A q \in Pools : 1 \in Threads(q) /\ 0 < Phases[q]
      /\ 1 \in Nat /\ 0 \in Nat
  BY SyncPoolAssumption DEF SyncPoolAssumption, Threads
<1>2. ASSUME NEW q \in Pools
      PROVE  /\ thread[q] \in [Pool(q) -> {"none", "failed", "spawned", "halfway", "waiting", "working"}]
             /\ startSig[q] \in [Pool(q) -> Signals]
             /\ doneSig[q] \in [Pool(q) -> Signals]
             /\ given[q] \in [Pool(q) -> Lists \cup {NoList}]
             /\ todo[q] \in [Threads(q) -> SUBSET Nat]
             /\ held[q] = NoList
  BY <1>2 DEF Init, Signals
<1>3. next \in [Pools -> Nat] /\ \A q \in Pools : next[q] = 1
  BY <1>1 DEF Init
<1>4. phase \in [Pools -> Nat] /\ \A q \in Pools : phase[q] = 0
  BY <1>1 DEF Init
<1>5. /\ Pools = DOMAIN thread /\ Pools = DOMAIN startSig /\ Pools = DOMAIN doneSig
      /\ Pools = DOMAIN given /\ Pools = DOMAIN todo /\ Pools = DOMAIN served
  BY DEF Init
<1>6. players \in Lists /\ created \in BOOLEAN /\ crashed \in BOOLEAN /\ warm \subseteq Pools
  BY DEF Init
<1>7. /\ pc \in [Pools -> {"idle", "start", "share", "join"}]
      /\ held \in [Pools -> Lists \cup {NoList}]
  BY DEF Init
<1>8. \A q \in Pools : held[q] # NoList => served[q] \in [DOMAIN held[q] -> Nat]
  BY <1>2
<1> QED
  BY <1>1, <1>2, <1>3, <1>4, <1>5, <1>6, <1>7, <1>8 DEF TypeOK

\* A frame in progress holds a list; a thread whose signal is up, or that works, has it.
LEMMA Holding ==
  ASSUME TypeOK, HandInv, NEW q \in Pools
  PROVE  /\ pc[q] # "idle" => held[q] \in Lists /\ held[q] # NoList
         /\ \A w \in Pool(q) :
              startSig[q][w] = "unlocked" \/ thread[q][w] = "working" =>
                pc[q] # "idle" /\ given[q][w] = held[q] /\ given[q][w] \in Lists
<1>1. pc[q] # "idle" => held[q] # NoList /\ held[q] \in Lists
  BY DEF HandInv, Steady, TypeOK
<1>2. ASSUME NEW w \in Pool(q), startSig[q][w] = "unlocked" \/ thread[q][w] = "working"
      PROVE  pc[q] # "idle" /\ given[q][w] = held[q]
  <2>1. Hand(q, w)
    BY DEF HandInv
  <2>2. Live(q, w)
    BY <1>2, <2>1 DEF Hand
  <2> QED
    BY <2>1, <2>2 DEF Hand, Live
<1> QED
  BY <1>1, <1>2

\* a step of a pool thread keeps it,
LEMMA ThreadType ==
  ASSUME TypeOK, HandInv, NEW q \in Pools, NEW w \in Pool(q), ThreadNext(q, w)
  PROVE  TypeOK'
<1> DEFINE Statuses == {"none", "failed", "spawned", "halfway", "waiting", "working"}
<1>1. w \in Threads(q)
  BY SyncPoolAssumption DEF SyncPoolAssumption, Threads, Pool
<1>2. /\ thread[q] \in [Pool(q) -> Statuses]
      /\ startSig[q] \in [Pool(q) -> Signals] /\ doneSig[q] \in [Pool(q) -> Signals]
      /\ todo[q] \in [Threads(q) -> SUBSET Nat]
      /\ DOMAIN thread = Pools /\ DOMAIN startSig = Pools /\ DOMAIN doneSig = Pools
      /\ DOMAIN todo = Pools /\ DOMAIN served = Pools
  BY DEF TypeOK
<1>3. /\ DOMAIN thread' = Pools
      /\ \A p \in Pools : thread'[p] \in [Pool(p) -> Statuses]
  <2>1. thread' = thread \/ \E s \in Statuses : thread' = [thread EXCEPT ![q][w] = s]
    BY DEF ThreadNext, CreateStart, CreateDone, Start, Work, Complete, threadVars
  <2>2. DOMAIN thread = Pools /\ \A p \in Pools : thread[p] \in [Pool(p) -> Statuses]
    BY DEF TypeOK
  <2>3. PICK s \in Statuses : thread' = thread \/ thread' = [thread EXCEPT ![q][w] = s]
    BY <2>1 DEF Signals
  <2> HIDE DEF Statuses
  <2> QED
    BY <2>2, <2>3, PoolTable
<1>4. /\ DOMAIN startSig' = Pools
      /\ \A p \in Pools : startSig'[p] \in [Pool(p) -> Signals]
  <2>1. startSig' = startSig \/ \E s \in Signals : startSig' = [startSig EXCEPT ![q][w] = s]
    BY DEF ThreadNext, CreateStart, CreateDone, Start, Work, Complete, threadVars, Signals
  <2>2. DOMAIN startSig = Pools /\ \A p \in Pools : startSig[p] \in [Pool(p) -> Signals]
    BY DEF TypeOK
  <2>3. PICK s \in Signals : startSig' = startSig \/ startSig' = [startSig EXCEPT ![q][w] = s]
    BY <2>1 DEF Signals
  <2> HIDE DEF Statuses
  <2> QED
    BY <2>2, <2>3, PoolTable
<1>5. /\ DOMAIN doneSig' = Pools
      /\ \A p \in Pools : doneSig'[p] \in [Pool(p) -> Signals]
  <2>1. doneSig' = doneSig \/ \E s \in Signals : doneSig' = [doneSig EXCEPT ![q][w] = s]
    BY DEF ThreadNext, CreateStart, CreateDone, Start, Work, Complete, threadVars, Signals
  <2>2. DOMAIN doneSig = Pools /\ \A p \in Pools : doneSig[p] \in [Pool(p) -> Signals]
    BY DEF TypeOK
  <2>3. PICK s \in Signals : doneSig' = doneSig \/ doneSig' = [doneSig EXCEPT ![q][w] = s]
    BY <2>1 DEF Signals
  <2> HIDE DEF Statuses
  <2> QED
    BY <2>2, <2>3, PoolTable
<1>6. /\ DOMAIN todo' = Pools
      /\ \A p \in Pools : todo'[p] \in [Threads(p) -> SUBSET Nat]
  <2>1. todo' = todo \/ \E t \in SUBSET Nat : todo' = [todo EXCEPT ![q][w] = t]
    <3>1. CASE Start(q, w)
      <4>1. given[q][w] \in Lists
        <5>1. \A v \in Pool(q) : startSig[q][v] = "unlocked" => given[q][v] \in Lists
          BY Holding
        <5> QED
          BY <3>1, <5>1 DEF Start
      <4>2. Share(q, w, given[q][w]) \in SUBSET Nat
        BY <4>1, ShareType
      <4> QED
        BY <3>1, <4>2 DEF Start
    <3>2. CASE Work(q, w)
      BY <1>1, <1>2, <3>2 DEF Work, UpdateOne
    <3> QED
      BY <3>1, <3>2 DEF ThreadNext, CreateStart, CreateDone, Complete
  <2>2. DOMAIN todo = Pools /\ \A p \in Pools : todo[p] \in [Threads(p) -> SUBSET Nat]
    BY DEF TypeOK
  <2>3. PICK t \in SUBSET Nat : todo' = todo \/ todo' = [todo EXCEPT ![q][w] = t]
    BY <2>1
  <2> QED
    BY <1>1, <2>2, <2>3, ThreadTable
<1>7. /\ DOMAIN served' = Pools
      /\ \A p \in Pools : held[p] # NoList => served'[p] \in [DOMAIN held[p] -> Nat]
  <2>1. served' = served \/ \E k \in todo[q][w] : served' = [served EXCEPT ![q][k] = @ + 1]
    BY DEF ThreadNext, CreateStart, CreateDone, Start, Work, UpdateOne, Complete
  <2>2. CASE served' = served
    BY <2>2 DEF TypeOK
  <2>3. ASSUME NEW k \in todo[q][w], served' = [served EXCEPT ![q][k] = @ + 1]
        PROVE  \A p \in Pools : held[p] # NoList => served'[p] \in [DOMAIN held[p] -> Nat]
    <3>1. \A p \in Pools \ {q} : served'[p] = served[p]
      BY <1>2, <2>3
    <3>2. ASSUME held[q] # NoList PROVE served'[q] \in [DOMAIN held[q] -> Nat]
      <4>1. served[q] \in [DOMAIN held[q] -> Nat]
        BY <3>2 DEF TypeOK
      <4>2. served'[q] = [served[q] EXCEPT ![k] = @ + 1]
        BY <1>2, <2>3
      <4> QED
        BY <4>1, <4>2, Bumped
    <3> QED
      BY <3>1, <3>2 DEF TypeOK
  <2> QED
    BY <1>2, <2>1, <2>2, <2>3
<1>8. UNCHANGED <<players, created, crashed, pc, next, phase, held, warm>>
      /\ UNCHANGED given
  BY DEF ThreadNext, driverVars, CreateStart, CreateDone, Start, Work, Complete, threadVars
<1> HIDE DEF Statuses
<1>9. /\ players' \in Lists
      /\ created' \in BOOLEAN /\ crashed' \in BOOLEAN
      /\ pc' \in [Pools -> {"idle", "start", "share", "join"}]
      /\ next' \in [Pools -> Nat] /\ \A p \in Pools : next'[p] \in Threads(p)
      /\ phase' \in [Pools -> Nat] /\ \A p \in Pools : phase'[p] < Phases[p]
      /\ held' \in [Pools -> Lists \cup {NoList}]
      /\ Pools = DOMAIN given' /\ warm' \subseteq Pools
      /\ \A p \in Pools : given'[p] \in [Pool(p) -> Lists \cup {NoList}]
  BY <1>8 DEF TypeOK
<1>10. \A p \in Pools : held'[p] # NoList => served'[p] \in [DOMAIN held'[p] -> Nat]
  BY <1>7, <1>8
<1> QED
  BY <1>3, <1>4, <1>5, <1>6, <1>7, <1>9, <1>10 DEF TypeOK, Statuses

\* and so does a step of the driver.
LEMMA DriverType ==
  ASSUME TypeOK, HandInv, NEW q \in Pools, DriverNext(q)
  PROVE  TypeOK'
<1> DEFINE Counters == {"idle", "start", "share", "join"}
<1> DEFINE Rest == /\ created' \in BOOLEAN /\ crashed' \in BOOLEAN
                   /\ pc' \in [Pools -> Counters]
                   /\ warm' \subseteq Pools /\ UNCHANGED thread
<1>1. /\ Req[q] \in Nat \ {0} /\ Req[q] \in Threads(q) /\ 1 \in Threads(q)
      /\ Phases[q] \in Nat \ {0}
      /\ \A w \in Pool(q) : w \in Threads(q) /\ w + 1 \in Threads(q)
      /\ \A p \in Pools : Threads(p) \subseteq Nat
  BY SyncPoolAssumption DEF SyncPoolAssumption, Threads, Pool
<1>2. Rest
  <2>1. created' \in BOOLEAN /\ crashed' \in BOOLEAN
    BY DEF DriverNext, FrameNext, BeginFrame, StartOne, TakeShare, OwnShare, EndShare, JoinOne,
           EndPhase, TypeOK
  <2>2. pc' = pc \/ \E c \in Counters : pc' = [pc EXCEPT ![q] = c]
    BY DEF DriverNext, FrameNext, BeginFrame, StartOne, TakeShare, OwnShare, EndShare, JoinOne,
           EndPhase, driverVars
  <2>3. pc' \in [Pools -> Counters]
    BY <2>2 DEF TypeOK
  <2>4. warm' \subseteq Pools
    BY DEF DriverNext, FrameNext, BeginFrame, StartOne, TakeShare, OwnShare, EndShare, JoinOne,
           EndPhase, TypeOK
  <2>5. UNCHANGED thread
    BY DEF DriverNext, FrameNext, BeginFrame, StartOne, TakeShare, OwnShare, EndShare, JoinOne,
           EndPhase, threadVars
  <2> QED
    BY <2>1, <2>3, <2>4, <2>5
<1>3. players' \in Lists
  BY DEF DriverNext, FrameNext, BeginFrame, StartOne, TakeShare, OwnShare, EndShare, JoinOne,
         EndPhase, TypeOK
<1>4. next' \in [Pools -> Nat] /\ \A p \in Pools : next'[p] \in Threads(p)
  <2>1. next' = next \/ \E n \in Threads(q) : next' = [next EXCEPT ![q] = n]
    BY <1>1 DEF DriverNext, FrameNext, BeginFrame, StartOne, TakeShare, OwnShare, EndShare,
                JoinOne, EndPhase, driverVars
  <2> QED
    BY <1>1, <2>1 DEF TypeOK
<1>5. phase' \in [Pools -> Nat] /\ \A p \in Pools : phase'[p] < Phases[p]
  <2>1. phase' = phase \/ \E n \in Nat : n < Phases[q] /\ phase' = [phase EXCEPT ![q] = n]
    <3>1. CASE EndPhase(q)
      <4>1. phase[q] \in Nat
        BY DEF TypeOK
      <4> QED
        BY <1>1, <3>1, <4>1 DEF EndPhase
    <3> QED
      BY <1>1, <3>1 DEF DriverNext, FrameNext, BeginFrame, StartOne, TakeShare, OwnShare,
                        EndShare, JoinOne, driverVars
  <2> QED
    BY <2>1 DEF TypeOK
<1>6. /\ DOMAIN startSig' = Pools
      /\ \A p \in Pools : startSig'[p] \in [Pool(p) -> Signals]
  <2>1. DOMAIN startSig = Pools /\ \A p \in Pools : startSig[p] \in [Pool(p) -> Signals]
    BY DEF TypeOK
  <2>2. startSig' = startSig \/
          (next[q] \in Pool(q) /\ startSig' = [startSig EXCEPT ![q][next[q]] = "unlocked"])
    <3>1. CASE StartOne(q)
      BY <3>1 DEF StartOne
    <3>2. ASSUME ~StartOne(q) PROVE startSig' = startSig
      BY <3>2 DEF DriverNext, FrameNext, BeginFrame, TakeShare, OwnShare,
                  EndShare, JoinOne, EndPhase, threadVars
    <3> QED
      BY <3>1, <3>2
  <2>3. "unlocked" \in Signals
    BY DEF Signals
  <2> QED
    BY <2>1, <2>2, <2>3, PoolTable
<1>7. /\ DOMAIN doneSig' = Pools
      /\ \A p \in Pools : doneSig'[p] \in [Pool(p) -> Signals]
  <2>1. DOMAIN doneSig = Pools /\ \A p \in Pools : doneSig[p] \in [Pool(p) -> Signals]
    BY DEF TypeOK
  <2>2. doneSig' = doneSig \/
          (next[q] \in Pool(q) /\ doneSig' = [doneSig EXCEPT ![q][next[q]] = "locked"])
    <3>1. CASE JoinOne(q)
      BY <3>1 DEF JoinOne
    <3>2. ASSUME ~JoinOne(q) PROVE doneSig' = doneSig
      BY <3>2 DEF DriverNext, FrameNext, BeginFrame, StartOne, TakeShare,
                  OwnShare, EndShare, EndPhase, threadVars
    <3> QED
      BY <3>1, <3>2
  <2>3. "locked" \in Signals
    BY DEF Signals
  <2> QED
    BY <2>1, <2>2, <2>3, PoolTable
<1>8. /\ DOMAIN given' = Pools
      /\ \A p \in Pools : given'[p] \in [Pool(p) -> Lists \cup {NoList}]
  <2>1. DOMAIN given = Pools /\ \A p \in Pools : given[p] \in [Pool(p) -> Lists \cup {NoList}]
    BY DEF TypeOK
  <2>2. given' = given \/
          (next[q] \in Pool(q) /\ given' = [given EXCEPT ![q][next[q]] = held[q]])
    <3>1. CASE StartOne(q)
      BY <3>1 DEF StartOne
    <3>2. ASSUME ~StartOne(q) PROVE given' = given
      BY <3>2 DEF DriverNext, FrameNext, BeginFrame, TakeShare, OwnShare,
                  EndShare, JoinOne, EndPhase, threadVars
    <3> QED
      BY <3>1, <3>2
  <2>3. held[q] \in Lists \cup {NoList}
    BY DEF TypeOK
  <2> QED
    BY <2>1, <2>2, <2>3, PoolTable
<1>9. /\ DOMAIN todo' = Pools
      /\ \A p \in Pools : todo'[p] \in [Threads(p) -> SUBSET Nat]
  <2>1. DOMAIN todo = Pools /\ \A p \in Pools : todo[p] \in [Threads(p) -> SUBSET Nat]
    BY DEF TypeOK
  <2>2. todo' = todo \/ \E t \in SUBSET Nat : todo' = [todo EXCEPT ![q][Req[q]] = t]
    <3>1. CASE TakeShare(q)
      <4>1. held[q] \in Lists
        BY <3>1, Holding DEF TakeShare
      <4>2. Share(q, Req[q], held[q]) \in SUBSET Nat
        BY <4>1, ShareType
      <4> QED
        BY <3>1, <4>2 DEF TakeShare
    <3>2. CASE OwnShare(q)
      BY <1>1, <2>1, <3>2 DEF OwnShare, UpdateOne
    <3> QED
      BY <3>1, <3>2 DEF DriverNext, FrameNext, BeginFrame, StartOne, EndShare, JoinOne, EndPhase
  <2>3. PICK t \in SUBSET Nat : todo' = todo \/ todo' = [todo EXCEPT ![q][Req[q]] = t]
    BY <2>2
  <2> QED
    BY <1>1, <2>1, <2>3, ThreadTable
<1>10. /\ held' \in [Pools -> Lists \cup {NoList}]
       /\ DOMAIN served' = Pools
       /\ \A p \in Pools : held'[p] # NoList => served'[p] \in [DOMAIN held'[p] -> Nat]
  <2>1. /\ held \in [Pools -> Lists \cup {NoList}] /\ DOMAIN served = Pools
        /\ \A p \in Pools : held[p] # NoList => served[p] \in [DOMAIN held[p] -> Nat]
    BY DEF TypeOK
  <2>2. CASE UNCHANGED held /\ served' = served
    BY <2>1, <2>2
  <2>3. CASE UNCHANGED held /\ \E k \in todo[q][Req[q]] : served' = [served EXCEPT ![q][k] = @ + 1]
    <3>1. PICK k \in todo[q][Req[q]] : served' = [served EXCEPT ![q][k] = @ + 1]
      BY <2>3
    <3>2. /\ DOMAIN served' = Pools
          /\ \A p \in Pools \ {q} : served'[p] = served[p]
          /\ served'[q] = [served[q] EXCEPT ![k] = @ + 1]
      BY <2>1, <3>1
    <3>3. ASSUME held[q] # NoList PROVE served'[q] \in [DOMAIN held[q] -> Nat]
      BY <2>1, <3>2, <3>3, Bumped
    <3> QED
      BY <2>1, <2>3, <3>2, <3>3
  <2>4. CASE \E list \in Lists \cup {NoList} :
               /\ held' = [held EXCEPT ![q] = list]
               /\ \E base \in Lists : /\ served' = [served EXCEPT ![q] = NobodyYet(base)]
                                      /\ list # NoList => list = base
    BY <2>1, <2>4 DEF NobodyYet
  <2>5. CASE EndPhase(q)
    <3>1. held[q] \in Lists /\ held[q] # NoList
      BY <2>5, Holding DEF EndPhase
    <3>2. \/ held' = [held EXCEPT ![q] = held[q]]
          \/ held' = [held EXCEPT ![q] = NoList]
      BY <2>1, <2>5 DEF EndPhase
    <3> QED
      <4>1. served' = [served EXCEPT ![q] = NobodyYet(held[q])]
        BY <2>5 DEF EndPhase
      <4>2. \E list \in {held[q], NoList} :
              held' = [held EXCEPT ![q] = list] /\ (list # NoList => list = held[q])
        BY <3>2
      <4> QED
        BY <2>4, <3>1, <4>1, <4>2
  <2>6. CASE BeginFrame(q)
    BY <1>3, <2>4, <2>6 DEF BeginFrame
  <2> QED
    BY <2>2, <2>3, <2>5, <2>6 DEF DriverNext, FrameNext, StartOne, TakeShare, OwnShare,
                                  UpdateOne, EndShare, JoinOne, driverVars
<1>11. /\ DOMAIN thread' = Pools
       /\ \A p \in Pools : thread'[p] \in
            [Pool(p) -> {"none", "failed", "spawned", "halfway", "waiting", "working"}]
  BY <1>2 DEF TypeOK
<1> QED
  BY <1>2, <1>3, <1>4, <1>5, <1>6, <1>7, <1>8, <1>9, <1>10, <1>11 DEF TypeOK

\* So does a reset,
LEMMA ResetType ==
  ASSUME TypeOK, Reset
  PROVE  TypeOK'
<1>1. /\ DOMAIN thread' = Pools
      /\ \A p \in Pools : thread'[p] \in
           [Pool(p) -> {"none", "failed", "spawned", "halfway", "waiting", "working"}]
  <2>1. CASE created
    BY <2>1 DEF Reset, CreatePools, TypeOK
  <2>2. CASE ~created
    <3>1. PICK refused \in SUBSET PoolThreads :
            thread' = [p \in Pools |-> [w \in Pool(p) |->
                         IF <<p, w>> \in refused THEN "failed" ELSE "spawned"]]
      BY <2>2 DEF Reset, CreatePools
    <3> QED
      BY <3>1
  <2> QED
    BY <2>1, <2>2
<1>2. /\ players' \in Lists /\ created' \in BOOLEAN
      /\ UNCHANGED <<crashed, pc, next, phase, held, startSig, doneSig, given, todo, served, warm>>
  BY DEF Reset, CreatePools, driverVars
<1> QED
  BY <1>1, <1>2 DEF TypeOK

\* and so, trivially, does nothing at all.
LEMMA StutterType == TypeOK /\ UNCHANGED vars => TypeOK'
  BY DEF vars, driverVars, threadVars, TypeOK

-----------------------------------------------------------------------------
(* The baton.                                                              *)

LEMMA InitHand == Init => HandInv
<1> SUFFICES ASSUME Init PROVE HandInv
  OBVIOUS
<1>1. ASSUME NEW q \in Pools PROVE Steady(q)
  BY DEF Init, Steady
<1>2. ASSUME NEW q \in Pools, NEW w \in Pool(q) PROVE Hand(q, w)
  BY DEF Init, Hand, Live, Published
<1>3. CrashOnlyInFirstPhase
  BY DEF Init, CrashOnlyInFirstPhase
<1> QED
  BY <1>1, <1>2, <1>3 DEF HandInv

\* A reset between frames makes threads only when there are none.
LEMMA ResetHand ==
  ASSUME TypeOK, HandInv, Reset
  PROVE  HandInv'
<1>1. /\ UNCHANGED <<crashed, pc, next, phase, held, startSig, doneSig, given, todo, served, warm>>
      /\ created' = TRUE
      /\ \A p \in Pools : pc[p] = "idle"
      /\ ~crashed
  BY DEF Reset, CreatePools, driverVars
<1>2. CASE created
  <2>1. UNCHANGED thread
    BY <1>2 DEF Reset, CreatePools
  <2> QED
    BY <1>1, <1>2, <2>1 DEF HandInv, Steady, Hand, Live, Published, Baton, CrashOnlyInFirstPhase
<1>3. CASE ~created
  <2>1. PICK refused \in SUBSET PoolThreads :
          thread' = [p \in Pools |-> [w \in Pool(p) |->
                       IF <<p, w>> \in refused THEN "failed" ELSE "spawned"]]
    BY <1>3 DEF Reset, CreatePools
  <2>2. \A p \in Pools : \A w \in Pool(p) :
          thread'[p][w] \in {"failed", "spawned"} /\ thread[p][w] = "none"
    BY <1>3, <2>1 DEF HandInv, Steady
  <2>3. ASSUME NEW p \in Pools PROVE Steady(p)'
    BY <1>1, <1>3, <2>2 DEF HandInv, Steady
  <2>4. ASSUME NEW p \in Pools, NEW w \in Pool(p) PROVE Hand(p, w)'
    BY <1>1, <2>2 DEF HandInv, Hand, Live, Published
  <2> QED
    BY <1>1, <2>3, <2>4 DEF HandInv, CrashOnlyInFirstPhase
<1> QED
  BY <1>2, <1>3

\* A step of a pool thread is about its own entries.
LEMMA ThreadFrame ==
  ASSUME TypeOK, NEW q \in Pools, NEW w \in Pool(q), ThreadNext(q, w)
  PROVE  /\ UNCHANGED <<players, created, crashed, pc, next, phase, held, warm, given>>
         /\ \A p \in Pools : \A v \in Pool(p) :
              p # q \/ v # w => /\ thread'[p][v] = thread[p][v]
                                /\ startSig'[p][v] = startSig[p][v]
                                /\ doneSig'[p][v] = doneSig[p][v]
         /\ ~crashed
<1>1. UNCHANGED <<players, created, crashed, pc, next, phase, held, warm, given>> /\ ~crashed
  BY DEF ThreadNext, driverVars, CreateStart, CreateDone, Start, Work, Complete, threadVars
<1>2. DOMAIN thread = Pools /\ DOMAIN startSig = Pools /\ DOMAIN doneSig = Pools
  BY DEF TypeOK
<1>3. \A p \in Pools : /\ DOMAIN thread[p] = Pool(p) /\ DOMAIN startSig[p] = Pool(p)
                       /\ DOMAIN doneSig[p] = Pool(p)
  BY DEF TypeOK
<1>4. thread' = thread \/ \E s : thread' = [thread EXCEPT ![q][w] = s]
  BY DEF ThreadNext, CreateStart, CreateDone, Start, Work, Complete, threadVars
<1>5. startSig' = startSig \/ \E s : startSig' = [startSig EXCEPT ![q][w] = s]
  BY DEF ThreadNext, CreateStart, CreateDone, Start, Work, Complete, threadVars
<1>6. doneSig' = doneSig \/ \E s : doneSig' = [doneSig EXCEPT ![q][w] = s]
  BY DEF ThreadNext, CreateStart, CreateDone, Start, Work, Complete, threadVars
<1>7. \A p \in Pools : \A v \in Pool(p) : p # q \/ v # w => thread'[p][v] = thread[p][v]
  BY <1>2, <1>3, <1>4
<1>8. \A p \in Pools : \A v \in Pool(p) : p # q \/ v # w => startSig'[p][v] = startSig[p][v]
  BY <1>2, <1>3, <1>5
<1>9. \A p \in Pools : \A v \in Pool(p) : p # q \/ v # w => doneSig'[p][v] = doneSig[p][v]
  BY <1>2, <1>3, <1>6
<1> QED
  BY <1>1, <1>7, <1>8, <1>9

\* A thread publishes its signals before it waits, takes its start and gives its end.
LEMMA ThreadHand ==
  ASSUME TypeOK, HandInv, NEW q \in Pools, NEW w \in Pool(q), ThreadNext(q, w)
  PROVE  HandInv'
<1>1. /\ UNCHANGED <<players, created, crashed, pc, next, phase, held, warm, given>>
      /\ \A p \in Pools : \A v \in Pool(p) :
           p # q \/ v # w => /\ thread'[p][v] = thread[p][v]
                             /\ startSig'[p][v] = startSig[p][v]
                             /\ doneSig'[p][v] = doneSig[p][v]
      /\ ~crashed
  BY ThreadFrame
<1>2. Hand(q, w) /\ Steady(q)
  BY DEF HandInv
<1>3. DOMAIN thread = Pools /\ DOMAIN startSig = Pools /\ DOMAIN doneSig = Pools
      /\ DOMAIN thread[q] = Pool(q) /\ DOMAIN startSig[q] = Pool(q) /\ DOMAIN doneSig[q] = Pool(q)
      /\ w \in Nat /\ next[q] \in Nat
  BY SyncPoolAssumption DEF TypeOK, SyncPoolAssumption, Pool
<1>4. Live(q, w)' <=> Live(q, w)
  BY <1>1 DEF Live
<1>5. /\ Hand(q, w)'
      /\ thread[q][w] # "none"
      /\ thread[q][w] \in {"waiting", "working"} => thread'[q][w] \in {"waiting", "working"}
  <2>1. CASE CreateStart(q, w)
    <3>1. /\ thread[q][w] = "spawned" /\ thread'[q][w] = "halfway"
          /\ startSig'[q][w] = "locked" /\ doneSig'[q][w] = doneSig[q][w]
      BY <1>3, <2>1 DEF CreateStart
    <3> QED
      BY <1>1, <1>2, <1>4, <3>1 DEF Hand, Published, Baton
  <2>2. CASE CreateDone(q, w)
    <3>1. /\ thread[q][w] = "halfway" /\ thread'[q][w] = "waiting"
          /\ doneSig'[q][w] = "locked" /\ startSig'[q][w] = startSig[q][w]
      BY <1>3, <2>2 DEF CreateDone
    <3> QED
      BY <1>1, <1>2, <1>4, <3>1 DEF Hand, Published, Baton
  <2>3. CASE Start(q, w)
    <3>1. /\ thread[q][w] = "waiting" /\ thread'[q][w] = "working"
          /\ startSig[q][w] = "unlocked" /\ startSig'[q][w] = "locked"
          /\ doneSig'[q][w] = doneSig[q][w]
      BY <1>3, <2>3 DEF Start
    <3>2. doneSig[q][w] = "locked"
      <4>1. doneSig[q][w] \in {"null", "locked", "unlocked"}
        BY DEF TypeOK, Signals
      <4> QED
        BY <1>2, <3>1, <4>1 DEF Hand, Published, Baton
    <3> QED
      BY <1>1, <1>2, <1>3, <1>4, <3>1, <3>2 DEF Hand, Published, Baton, Live
  <2>4. CASE Work(q, w)
    <3>1. UNCHANGED <<thread, startSig, doneSig>> /\ thread[q][w] = "working"
      BY <2>4 DEF Work, threadVars
    <3> QED
      BY <1>1, <1>2, <1>4, <3>1 DEF Hand, Published, Baton
  <2>5. CASE Complete(q, w)
    <3>1. /\ thread[q][w] = "working" /\ thread'[q][w] = "waiting"
          /\ doneSig'[q][w] = "unlocked" /\ startSig'[q][w] = startSig[q][w]
      BY <1>3, <2>5 DEF Complete
    <3> QED
      BY <1>1, <1>2, <1>4, <3>1 DEF Hand, Published, Baton
  <2> QED
    BY <2>1, <2>2, <2>3, <2>4, <2>5 DEF ThreadNext, CreateStart, CreateDone, Start, Work, Complete
<1>6. ASSUME NEW p \in Pools, NEW v \in Pool(p), p # q \/ v # w PROVE Hand(p, v)'
  BY <1>1, <1>6 DEF HandInv, Hand, Live, Published, Baton
<1>7. ASSUME NEW p \in Pools PROVE Steady(p)'
  <2>1. Steady(p)
    BY DEF HandInv
  <2>2. ~created' => \A v \in Pool(p) : thread'[p][v] = "none"
    BY <1>1, <1>2, <1>5, <2>1 DEF Steady
  <2>3. p \in warm' => \A v \in Pool(p) : thread'[p][v] \in {"waiting", "working"}
    BY <1>1, <1>2, <1>5, <2>1 DEF Steady
  <2> QED
    BY <1>1, <2>1, <2>2, <2>3 DEF Steady
<1> QED
  BY <1>1, <1>5, <1>6, <1>7 DEF HandInv, CrashOnlyInFirstPhase

\* What a step of a driver leaves alone.
LEMMA DriverFrame ==
  ASSUME TypeOK, NEW q \in Pools, DriverNext(q)
  PROVE  /\ UNCHANGED <<created, thread>> /\ ~crashed
         /\ \A p \in Pools \ {q} :
              /\ pc'[p] = pc[p] /\ next'[p] = next[p] /\ phase'[p] = phase[p] /\ held'[p] = held[p]
              /\ startSig'[p] = startSig[p] /\ doneSig'[p] = doneSig[p] /\ given'[p] = given[p]
              /\ p \in warm' <=> p \in warm
<1>1. UNCHANGED <<created, thread>> /\ ~crashed
  BY DEF DriverNext, FrameNext, BeginFrame, StartOne, TakeShare, OwnShare, EndShare, JoinOne,
         EndPhase, threadVars
<1>2. \A p \in Pools \ {q} : pc'[p] = pc[p] /\ next'[p] = next[p]
  BY DEF TypeOK, DriverNext, FrameNext, BeginFrame, StartOne, TakeShare, OwnShare, EndShare,
         JoinOne, EndPhase, driverVars
<1>3. \A p \in Pools \ {q} : phase'[p] = phase[p] /\ held'[p] = held[p]
  BY DEF TypeOK, DriverNext, FrameNext, BeginFrame, StartOne, TakeShare, OwnShare, EndShare,
         JoinOne, EndPhase, driverVars
<1>4. \A p \in Pools \ {q} : startSig'[p] = startSig[p] /\ doneSig'[p] = doneSig[p] /\ given'[p] = given[p]
  BY DEF TypeOK, DriverNext, FrameNext, BeginFrame, StartOne, TakeShare, OwnShare, EndShare,
         JoinOne, EndPhase, threadVars
<1>5. \A p \in Pools \ {q} : p \in warm' <=> p \in warm
  BY DEF DriverNext, FrameNext, BeginFrame, StartOne, TakeShare, OwnShare, EndShare,
         JoinOne, EndPhase
<1> QED
  BY <1>1, <1>2, <1>3, <1>4, <1>5

\* The driver gives the baton of each thread and takes it back.
LEMMA DriverHand ==
  ASSUME TypeOK, HandInv, NEW q \in Pools, DriverNext(q)
  PROVE  HandInv'
<1>1. /\ UNCHANGED <<created, thread>> /\ ~crashed
      /\ \A p \in Pools \ {q} :
           /\ pc'[p] = pc[p] /\ next'[p] = next[p] /\ phase'[p] = phase[p] /\ held'[p] = held[p]
           /\ startSig'[p] = startSig[p] /\ doneSig'[p] = doneSig[p] /\ given'[p] = given[p]
           /\ p \in warm' <=> p \in warm
  BY DriverFrame
<1>2. Steady(q) /\ (\A v \in Pool(q) : Hand(q, v)) /\ CrashOnlyInFirstPhase
  BY DEF HandInv
<1>3. /\ q \in DOMAIN pc /\ q \in DOMAIN next /\ q \in DOMAIN held /\ q \in DOMAIN startSig
      /\ q \in DOMAIN doneSig /\ q \in DOMAIN given
      /\ DOMAIN startSig[q] = Pool(q) /\ DOMAIN doneSig[q] = Pool(q) /\ DOMAIN given[q] = Pool(q)
      /\ next[q] \in Nat /\ Req[q] \in Nat \ {0}
      /\ \A v \in Pool(q) : v \in Nat /\ v >= 1 /\ v < Req[q]
  BY SyncPoolAssumption DEF SyncPoolAssumption, TypeOK, Pool
<1>4. \A v \in Pool(q) : /\ startSig[q][v] \in {"null", "locked", "unlocked"}
                         /\ doneSig[q][v] \in {"null", "locked", "unlocked"}
  BY DEF TypeOK, Signals
<1>5. \A p \in Pools \ {q} : Steady(p)' /\ \A v \in Pool(p) : Hand(p, v)'
  <2>1. ASSUME NEW p \in Pools \ {q} PROVE Steady(p)'
    BY <1>1 DEF HandInv, Steady
  <2>2. ASSUME NEW p \in Pools \ {q}, NEW v \in Pool(p) PROVE Hand(p, v)'
    BY <1>1 DEF HandInv, Hand, Live, Published, Baton
  <2> QED
    BY <2>1, <2>2
<1>6. Steady(q)' /\ (\A v \in Pool(q) : Hand(q, v)') /\ CrashOnlyInFirstPhase'
  <2>1. CASE BeginFrame(q)
    <3>1. /\ pc[q] = "idle" /\ pc'[q] = "start" /\ next'[q] = 1 /\ created
          /\ held'[q] = players' /\ UNCHANGED <<crashed, startSig, doneSig, given, warm>>
      BY <1>3, <2>1 DEF BeginFrame, threadVars
    <3>2. players' # NoList
      BY <2>1, SyncPoolAssumption DEF BeginFrame, TypeOK, SyncPoolAssumption
    <3>3. Steady(q)'
      BY <1>1, <1>2, <3>1, <3>2 DEF Steady
    <3>4. ASSUME NEW v \in Pool(q) PROVE Hand(q, v)'
      BY <1>1, <1>2, <1>3, <3>1 DEF Hand, Live, Published
    <3> QED
      BY <1>1, <3>1, <3>3, <3>4 DEF CrashOnlyInFirstPhase
  <2>2. CASE StartOne(q)
    <3>0. PICK w \in Pool(q) : w = next[q]
      BY <2>2 DEF StartOne
    <3>1. /\ pc[q] = "start" /\ w = next[q]
          /\ UNCHANGED <<pc, held, doneSig, warm>>
          /\ given'[q][w] = held[q]
          /\ \A v \in Pool(q) : v # w => given'[q][v] = given[q][v] /\ startSig'[q][v] = startSig[q][v]
      BY <1>3, <2>2, <3>0 DEF StartOne
    <3>2. \/ startSig[q][w] # "null" /\ startSig'[q][w] = "unlocked" /\ next'[q] = w + 1 /\ UNCHANGED crashed
          \/ startSig[q][w] = "null" /\ crashed' = TRUE /\ UNCHANGED <<startSig, next>>
      BY <1>3, <2>2, <3>0 DEF StartOne
    <3>3. Steady(q)'
      BY <1>1, <1>2, <3>1 DEF Steady
    <3>4. ASSUME NEW v \in Pool(q), v # w PROVE Hand(q, v)'
      BY <1>1, <1>2, <1>3, <3>1, <3>2, <3>4 DEF Hand, Live, Published, Baton
    <3>5. Hand(q, w)'
      <4>1. /\ Published(q, w) /\ startSig[q][w] # "unlocked" /\ doneSig[q][w] # "unlocked"
            /\ thread[q][w] # "working"
        <5>1. Hand(q, w) /\ ~Live(q, w)
          BY <1>2, <1>3, <3>1 DEF Live
        <5> QED
          BY <5>1 DEF Hand
      <4>2. CASE startSig[q][w] # "null"
        BY <1>1, <1>3, <3>1, <3>2, <4>1, <4>2 DEF Hand, Live, Published, Baton
      <4>3. CASE startSig[q][w] = "null"
        BY <1>1, <1>3, <3>1, <3>2, <4>1, <4>3 DEF Hand, Live, Published
      <4> QED
        BY <4>2, <4>3
    <3>6. CrashOnlyInFirstPhase'
      <4>1. CASE ~crashed'
        BY <4>1 DEF CrashOnlyInFirstPhase
      <4>2. CASE crashed'
        <5>1. startSig[q][w] = "null" /\ startSig'[q][w] = "null"
          BY <1>1, <3>2, <4>2
        <5>2. Hand(q, w) /\ Steady(q)
          BY <1>2, <3>1
        <5>3. q \notin warm
          BY <3>1, <5>1, <5>2 DEF Steady, Hand, Published
        <5>4. q \notin warm' /\ w \in Pool(q) /\ "null" \in {startSig'[q][w], doneSig'[q][w]}
          BY <3>1, <5>1, <5>3
        <5> QED
          BY <5>4 DEF CrashOnlyInFirstPhase
      <4> QED
        BY <4>1, <4>2
    <3>7. \A v \in Pool(q) : Hand(q, v)'
      BY <3>4, <3>5
    <3> QED
      BY <3>3, <3>6, <3>7
  <2>3. CASE TakeShare(q)
    <3>1. /\ pc[q] = "start" /\ pc'[q] = "share" /\ next[q] = Req[q]
          /\ UNCHANGED <<crashed, held, startSig, doneSig, given, warm>>
      BY <1>3, <2>3 DEF TakeShare, threadVars
    <3>2. ASSUME NEW v \in Pool(q) PROVE Hand(q, v)'
      BY <1>1, <1>2, <1>3, <3>1 DEF Hand, Live, Published, Baton
    <3> QED
      BY <1>1, <1>2, <3>1, <3>2 DEF CrashOnlyInFirstPhase, Steady
  <2>4. CASE OwnShare(q)
    <3>1. UNCHANGED <<crashed, pc, next, held, startSig, doneSig, given, warm>>
      BY <2>4 DEF OwnShare, driverVars, threadVars
    <3>2. ASSUME NEW v \in Pool(q) PROVE Hand(q, v)'
      BY <1>1, <1>2, <3>1 DEF Hand, Live, Published, Baton
    <3> QED
      BY <1>1, <1>2, <3>1, <3>2 DEF CrashOnlyInFirstPhase, Steady
  <2>5. CASE EndShare(q)
    <3>1. /\ pc[q] = "share" /\ pc'[q] = "join" /\ next'[q] = 1
          /\ UNCHANGED <<crashed, held, startSig, doneSig, given, warm>>
      BY <1>3, <2>5 DEF EndShare, threadVars
    <3>2. ASSUME NEW v \in Pool(q) PROVE Hand(q, v)'
      BY <1>1, <1>2, <1>3, <3>1 DEF Hand, Live, Published, Baton
    <3> QED
      BY <1>1, <1>2, <3>1, <3>2 DEF CrashOnlyInFirstPhase, Steady
  <2>6. CASE JoinOne(q)
    <3>0. PICK w \in Pool(q) : w = next[q]
      BY <2>6 DEF JoinOne
    <3>1. /\ pc[q] = "join" /\ w = next[q]
          /\ UNCHANGED <<pc, held, startSig, given, warm>>
          /\ \A v \in Pool(q) : v # w => doneSig'[q][v] = doneSig[q][v]
      BY <1>3, <2>6, <3>0 DEF JoinOne
    <3>2. \/ doneSig[q][w] = "unlocked" /\ doneSig'[q][w] = "locked" /\ next'[q] = w + 1 /\ UNCHANGED crashed
          \/ doneSig[q][w] = "null" /\ crashed' = TRUE /\ UNCHANGED <<doneSig, next>>
      BY <1>3, <2>6, <3>0 DEF JoinOne
    <3>3. Steady(q)'
      BY <1>1, <1>2, <3>1 DEF Steady
    <3>4. ASSUME NEW v \in Pool(q), v # w PROVE Hand(q, v)'
      BY <1>1, <1>2, <1>3, <3>1, <3>2, <3>4 DEF Hand, Live, Published, Baton
    <3>5. Hand(q, w)'
      <4>1. Hand(q, w) /\ Live(q, w)
        BY <1>2, <1>3, <3>1 DEF Live
      <4>2. CASE doneSig[q][w] = "unlocked"
        <5>1. startSig[q][w] = "locked" /\ thread[q][w] = "waiting"
          BY <4>1, <4>2 DEF Hand, Baton
        <5>2. doneSig'[q][w] = "locked" /\ next'[q] = w + 1
          BY <3>2, <4>2
        <5>3. ~Live(q, w)'
          BY <1>3, <3>1, <5>2 DEF Live
        <5>4. Published(q, w)'
          BY <1>1, <3>1, <4>1, <5>1, <5>2 DEF Hand, Published
        <5> QED
          BY <1>1, <1>3, <3>1, <5>1, <5>2, <5>3, <5>4 DEF Hand
      <4>3. CASE doneSig[q][w] = "null"
        BY <1>1, <1>3, <3>1, <3>2, <4>1, <4>3 DEF Hand, Live, Published, Baton
      <4> QED
        BY <3>2, <4>2, <4>3
    <3>6. CrashOnlyInFirstPhase'
      <4>1. CASE ~crashed'
        BY <4>1 DEF CrashOnlyInFirstPhase
      <4>2. CASE crashed'
        <5>1. doneSig[q][w] = "null" /\ doneSig'[q][w] = "null"
          BY <1>1, <3>2, <4>2
        <5>2. Hand(q, w) /\ Steady(q)
          BY <1>2, <3>1
        <5>3. q \notin warm
          BY <3>1, <5>1, <5>2 DEF Steady, Hand, Published
        <5>4. q \notin warm' /\ w \in Pool(q) /\ "null" \in {startSig'[q][w], doneSig'[q][w]}
          BY <3>1, <5>1, <5>3
        <5> QED
          BY <5>4 DEF CrashOnlyInFirstPhase
      <4> QED
        BY <4>1, <4>2
    <3>7. \A v \in Pool(q) : Hand(q, v)'
      BY <3>4, <3>5
    <3> QED
      BY <3>3, <3>6, <3>7
  <2>7. CASE EndPhase(q)
    <3>1. /\ pc[q] = "join" /\ next[q] = Req[q] /\ next'[q] = 1
          /\ \/ pc'[q] = "start" /\ held'[q] = held[q]
             \/ pc'[q] = "idle" /\ held'[q] = NoList
          /\ UNCHANGED <<crashed, startSig, doneSig, given>> /\ warm' = warm \cup {q}
      BY <1>3, <2>7 DEF EndPhase, threadVars
    <3>2. \A v \in Pool(q) : thread[q][v] = "waiting"
      BY <1>2, <1>3, <3>1 DEF Hand
    <3>3. ASSUME NEW v \in Pool(q) PROVE Hand(q, v)'
      BY <1>1, <1>2, <1>3, <3>1 DEF Hand, Live, Published
    <3>4. Steady(q)'
      BY <1>1, <1>2, <3>1, <3>2 DEF Steady
    <3> QED
      BY <1>1, <3>1, <3>3, <3>4 DEF CrashOnlyInFirstPhase
  <2> QED
    BY <2>1, <2>2, <2>3, <2>4, <2>5, <2>6, <2>7 DEF DriverNext, FrameNext
<1> QED
  BY <1>5, <1>6 DEF HandInv

-----------------------------------------------------------------------------
(* Types and baton, together.                                              *)

LEMMA HandStep == TypeOK /\ HandInv /\ [Next]_vars => TypeOK' /\ HandInv'
<1> SUFFICES ASSUME TypeOK, HandInv, [Next]_vars PROVE TypeOK' /\ HandInv'
  OBVIOUS
<1>1. CASE Reset
  BY <1>1, ResetType, ResetHand
<1>2. CASE \E q \in Pools : DriverNext(q)
  BY <1>2, DriverType, DriverHand
<1>3. CASE \E q \in Pools : \E w \in Pool(q) : ThreadNext(q, w)
  BY <1>3, ThreadType, ThreadHand
<1>4. CASE UNCHANGED vars
  <2>1. TypeOK'
    BY <1>4, StutterType
  <2>2. HandInv'
    BY <1>4 DEF vars, driverVars, threadVars, HandInv, Steady, Hand, Live, Published, Baton,
                CrashOnlyInFirstPhase
  <2> QED
    BY <2>1, <2>2
<1> QED
  BY <1>1, <1>2, <1>3, <1>4 DEF Next

\* For any pools, every variable keeps its type.
THEOREM TypeCorrect == Spec => []TypeOK
<1>1. Init => TypeOK /\ HandInv
  BY InitType, InitHand
<1> QED
  BY <1>1, HandStep, PTL DEF Spec

\* Only the very first phase of a pool can meet a signal that is not there yet.
THEOREM CrashesEarly == Spec => []CrashOnlyInFirstPhase
<1>1. Init => TypeOK /\ HandInv
  BY InitType, InitHand
<1>2. HandInv => CrashOnlyInFirstPhase
  BY DEF HandInv
<1> QED
  BY <1>1, <1>2, HandStep, PTL DEF Spec

\* Whoever updates players walks the list the frame holds.
THEOREM ReadsHeldList == Spec => []UpdatesReadHeldList
<1>1. Init => TypeOK /\ HandInv
  BY InitType, InitHand
<1>2. TypeOK /\ HandInv => UpdatesReadHeldList
  <2> SUFFICES ASSUME TypeOK, HandInv, NEW q \in Pools, NEW w \in Pool(q), thread[q][w] = "working"
               PROVE  held[q] # NoList /\ given[q][w] = held[q]
    BY DEF UpdatesReadHeldList
  <2>1. pc[q] # "idle" => held[q] # NoList
    BY Holding
  <2>2. \A v \in Pool(q) : thread[q][v] = "working" => pc[q] # "idle" /\ given[q][v] = held[q]
    BY Holding
  <2> QED
    BY <2>1, <2>2
<1> QED
  BY <1>1, <1>2, HandStep, PTL DEF Spec

-----------------------------------------------------------------------------
(* What is served.                                                         *)

\* The numbers of a pool's threads.
LEMMA Numbers ==
  ASSUME NEW q \in Pools
  PROVE  /\ Req[q] \in Nat \ {0} /\ Req[q] \in Threads(q) /\ Req[q] \notin Pool(q)
         /\ \A v \in Threads(q) : v \in Nat /\ v >= 1 /\ v <= Req[q]
         /\ \A v \in Threads(q) : v # Req[q] => v \in Pool(q) /\ v < Req[q]
         /\ Pool(q) \subseteq Threads(q)
  BY SyncPoolAssumption DEF SyncPoolAssumption, Threads, Pool

\* One update by a thread at work: of one player, who has not had one in this phase.
LEMMA UpdateServed ==
  ASSUME TypeOK, HandInv, ServedInv, NEW q \in Pools, NEW w \in Threads(q),
         pc[q] # "idle", During(q, w), UpdateOne(q, w)
  PROVE  /\ \E k \in DOMAIN held[q] : served[q][k] = 0 /\ served' = [served EXCEPT ![q][k] = 1]
         /\ \A p \in Pools \ {q} : served'[p] = served[p] /\ todo'[p] = todo[p]
         /\ todo'[q][w] \subseteq Share(q, w, held[q])
         /\ \A k \in Share(q, w, held[q]) : served'[q][k] = IF k \in todo'[q][w] THEN 0 ELSE 1
         /\ \A v \in Threads(q) \ {w} :
              todo'[q][v] = todo[q][v] /\ \A k \in Share(q, v, held[q]) : served'[q][k] = served[q][k]
<1>1. PICK k \in todo[q][w] : /\ todo' = [todo EXCEPT ![q][w] = @ \ {k}]
                              /\ served' = [served EXCEPT ![q][k] = @ + 1]
  BY DEF UpdateOne
<1>2. held[q] \in Lists /\ held[q] # NoList
  BY Holding
<1>3. /\ DOMAIN served = Pools /\ DOMAIN todo = Pools /\ DOMAIN todo[q] = Threads(q)
      /\ served[q] \in [DOMAIN held[q] -> Nat]
  BY <1>2 DEF TypeOK
<1>4. ShareServed(q, w)
  BY DEF ServedInv
<1>5. k \in Share(q, w, held[q]) /\ served[q][k] = 0
  BY <1>4 DEF ShareServed
<1>6. \A v \in Threads(q) : Share(q, v, held[q]) \subseteq DOMAIN held[q]
  BY <1>2, ShareType
<1>7. k \in DOMAIN held[q]
  BY <1>5, <1>6
<1>8. /\ \A p \in Pools \ {q} : served'[p] = served[p] /\ todo'[p] = todo[p]
      /\ todo'[q][w] = todo[q][w] \ {k}
      /\ \A v \in Threads(q) \ {w} : todo'[q][v] = todo[q][v]
  BY <1>1, <1>3
<1>9. served'[q] = [served[q] EXCEPT ![k] = 1]
  <2>1. served'[q] = [served[q] EXCEPT ![k] = served[q][k] + 1]
    BY <1>1, <1>3
  <2>2. served[q][k] + 1 = 1
    BY <1>5
  <2> QED
    BY <2>1, <2>2
<1>10. served'[q][k] = 1 /\ \A j \in DOMAIN held[q] : j # k => served'[q][j] = served[q][j]
  BY <1>3, <1>7, <1>9
<1>11. served' = [served EXCEPT ![q][k] = 1]
  <2>1. served' = [served EXCEPT ![q] = [served[q] EXCEPT ![k] = served[q][k] + 1]]
    BY <1>1
  <2>2. served[q][k] + 1 = 1
    BY <1>5
  <2> QED
    BY <2>1, <2>2
<1>12. ASSUME NEW j \in Share(q, w, held[q]) PROVE served'[q][j] = IF j \in todo'[q][w] THEN 0 ELSE 1
  <2>1. served[q][j] = IF j \in todo[q][w] THEN 0 ELSE 1
    BY <1>4 DEF ShareServed
  <2> QED
    BY <1>6, <1>8, <1>10, <2>1
<1>13. ASSUME NEW v \in Threads(q) \ {w}, NEW j \in Share(q, v, held[q])
       PROVE  served'[q][j] = served[q][j]
  <2>1. j # k
    BY <1>2, <1>5, SharesDisjoint
  <2> QED
    BY <1>6, <1>10, <2>1
<1>14. todo'[q][w] \subseteq Share(q, w, held[q])
  BY <1>4, <1>8 DEF ShareServed
<1> QED
  BY <1>5, <1>7, <1>8, <1>11, <1>12, <1>13, <1>14

\* What is served in a pool hangs on nothing of the others.
LEMMA OtherServed ==
  ASSUME ServedInv, NEW p \in Pools,
         pc'[p] = pc[p], next'[p] = next[p], held'[p] = held[p], served'[p] = served[p],
         todo'[p] = todo[p],
         \A v \in Pool(p) : thread'[p][v] = thread[p][v] /\ startSig'[p][v] = startSig[p][v]
  PROVE  pc'[p] # "idle" => \A v \in Threads(p) : ShareServed(p, v)'
<1> SUFFICES ASSUME pc[p] # "idle", NEW v \in Threads(p) PROVE ShareServed(p, v)'
  OBVIOUS
<1>1. ShareServed(p, v)
  BY DEF ServedInv
<1>2. v # Req[p] => v \in Pool(p)
  BY Numbers
<1>3. Share(p, v, held'[p]) = Share(p, v, held[p])
  OBVIOUS
<1>4. (Before(p, v)' <=> Before(p, v)) /\ (During(p, v)' <=> During(p, v))
  BY <1>2 DEF Before, During, Live
<1> QED
  BY <1>1, <1>3, <1>4 DEF ShareServed

\* A thread whose place in the order is what it was, and its share.
LEMMA SameServed ==
  ASSUME NEW q \in Pools, NEW v \in Threads(q), ShareServed(q, v),
         held'[q] = held[q], todo'[q][v] = todo[q][v],
         \A k \in Share(q, v, held[q]) : served'[q][k] = served[q][k],
         Before(q, v)' <=> Before(q, v), During(q, v)' <=> During(q, v)
  PROVE  ShareServed(q, v)'
  BY DEF ShareServed

LEMMA ThreadServed ==
  ASSUME TypeOK, HandInv, ServedInv, NEW q \in Pools, NEW w \in Pool(q), ThreadNext(q, w)
  PROVE  ServedInv'
<1>1. /\ UNCHANGED <<pc, next, held, given>>
      /\ \A p \in Pools : \A v \in Pool(p) :
           p # q \/ v # w => thread'[p][v] = thread[p][v] /\ startSig'[p][v] = startSig[p][v]
  BY ThreadFrame
<1>2. Hand(q, w) /\ Steady(q)
  BY DEF HandInv
<1>3. /\ w \in Threads(q) /\ w # Req[q] /\ w \in Nat /\ next[q] \in Nat
      /\ DOMAIN thread = Pools /\ DOMAIN thread[q] = Pool(q) /\ DOMAIN startSig = Pools
      /\ DOMAIN startSig[q] = Pool(q) /\ DOMAIN todo = Pools /\ DOMAIN todo[q] = Threads(q)
      /\ DOMAIN served = Pools
  BY Numbers DEF TypeOK
<1>4. Live(q, w)' <=> Live(q, w)
  BY <1>1 DEF Live
<1>5. \A p \in Pools \ {q} : served'[p] = served[p] /\ todo'[p] = todo[p]
  BY <1>3 DEF ThreadNext, CreateStart, CreateDone, Start, Work, UpdateOne, Complete
<1>6. ASSUME NEW p \in Pools \ {q}, pc'[p] # "idle", NEW v \in Threads(p) PROVE ShareServed(p, v)'
  BY <1>1, <1>5, <1>6, OtherServed
<1>7. ASSUME pc[q] # "idle", NEW v \in Threads(q) \ {w}
      PROVE  (Before(q, v)' <=> Before(q, v)) /\ (During(q, v)' <=> During(q, v))
  <2>1. v # Req[q] => v \in Pool(q)
    BY Numbers
  <2> QED
    BY <1>1, <2>1 DEF Before, During, Live
<1>8. ASSUME pc[q] # "idle", UNCHANGED served, NEW v \in Threads(q) \ {w} PROVE ShareServed(q, v)'
  <2>1. todo'[q][v] = todo[q][v]
    BY <1>3, <1>8 DEF ThreadNext, CreateStart, CreateDone, Start, Work, UpdateOne, Complete
  <2>2. ShareServed(q, v)
    BY <1>8 DEF ServedInv
  <2> QED
    BY <1>1, <1>7, <1>8, <2>1, <2>2, SameServed
<1>9. ASSUME pc[q] # "idle" PROVE \A v \in Threads(q) : ShareServed(q, v)'
  <2>1. ShareServed(q, w)
    BY <1>3, <1>9 DEF ServedInv
  <2>2. CASE CreateStart(q, w) \/ CreateDone(q, w)
    <3>1. UNCHANGED <<todo, served>>
      BY <2>2 DEF CreateStart, CreateDone
    <3>2. thread[q][w] # "working" /\ thread'[q][w] # "working"
      BY <1>3, <2>2 DEF CreateStart, CreateDone
    <3>3. Live(q, w) => (startSig'[q][w] = "unlocked" <=> startSig[q][w] = "unlocked")
      <4>1. CASE CreateStart(q, w)
        BY <1>2, <1>3, <4>1 DEF CreateStart, Hand, Published, Baton
      <4>2. CASE CreateDone(q, w)
        BY <4>2 DEF CreateDone
      <4> QED
        BY <2>2, <4>1, <4>2
    <3>4. (Before(q, w)' <=> Before(q, w)) /\ (During(q, w)' <=> During(q, w))
      BY <1>1, <1>3, <1>4, <3>2, <3>3 DEF Before, During
    <3>5. ShareServed(q, w)'
      BY <1>1, <1>3, <2>1, <3>1, <3>4, SameServed
    <3> QED
      BY <1>8, <1>9, <3>1, <3>5
  <2>3. CASE Start(q, w)
    <3>1. /\ UNCHANGED served /\ todo'[q][w] = Share(q, w, given[q][w])
          /\ startSig[q][w] = "unlocked" /\ startSig'[q][w] = "locked" /\ thread'[q][w] = "working"
      BY <1>3, <2>3 DEF Start
    <3>2. Live(q, w) /\ given[q][w] = held[q]
      BY <1>2, <3>1 DEF Hand
    <3>3. \A k \in Share(q, w, held[q]) : served[q][k] = 0
      BY <1>3, <2>1, <3>1, <3>2 DEF ShareServed, Before
    <3>4. ~Before(q, w)' /\ During(q, w)'
      BY <1>1, <1>3, <3>1, <3>2 DEF Before, During, Live
    <3>5. ShareServed(q, w)'
      BY <1>1, <3>1, <3>2, <3>3, <3>4 DEF ShareServed
    <3> QED
      BY <1>8, <1>9, <3>1, <3>5
  <2>4. CASE Work(q, w)
    <3>1. UNCHANGED <<thread, startSig>> /\ thread[q][w] = "working" /\ UpdateOne(q, w)
      BY <2>4 DEF Work, threadVars
    <3>2. During(q, w)
      BY <1>3, <3>1 DEF During
    <3>3. /\ todo'[q][w] \subseteq Share(q, w, held[q])
          /\ \A k \in Share(q, w, held[q]) : served'[q][k] = IF k \in todo'[q][w] THEN 0 ELSE 1
          /\ \A v \in Threads(q) \ {w} :
               todo'[q][v] = todo[q][v] /\ \A k \in Share(q, v, held[q]) : served'[q][k] = served[q][k]
      BY <1>3, <1>9, <3>1, <3>2, UpdateServed
    <3>4. Live(q, w) /\ startSig[q][w] # "unlocked"
      BY <1>2, <3>1 DEF Hand, Baton
    <3>5. ~Before(q, w)' /\ During(q, w)'
      BY <1>1, <1>3, <1>4, <3>1, <3>4 DEF Before, During, Live
    <3>6. ShareServed(q, w)'
      BY <1>1, <3>3, <3>5 DEF ShareServed
    <3>7. ASSUME NEW v \in Threads(q) \ {w} PROVE ShareServed(q, v)'
      <4>1. ShareServed(q, v)
        BY <1>9 DEF ServedInv
      <4> QED
        BY <1>1, <1>7, <1>9, <3>3, <4>1, SameServed
    <3> QED
      BY <3>6, <3>7
  <2>5. CASE Complete(q, w)
    <3>1. /\ UNCHANGED <<todo, served, startSig>> /\ todo[q][w] = {}
          /\ thread[q][w] = "working" /\ thread'[q][w] = "waiting"
      BY <1>3, <2>5 DEF Complete
    <3>2. Live(q, w) /\ startSig[q][w] # "unlocked"
      BY <1>2, <3>1 DEF Hand, Baton
    <3>3. \A k \in Share(q, w, held[q]) : served[q][k] = 1
      <4>1. During(q, w)
        BY <1>3, <3>1 DEF During
      <4> QED
        BY <2>1, <3>1, <4>1 DEF ShareServed
    <3>4. ~Before(q, w)' /\ ~During(q, w)'
      BY <1>1, <1>3, <1>4, <3>1, <3>2 DEF Before, During, Live
    <3>5. ShareServed(q, w)'
      BY <1>1, <3>1, <3>3, <3>4 DEF ShareServed
    <3> QED
      BY <1>8, <1>9, <3>1, <3>5
  <2> QED
    BY <2>2, <2>3, <2>4, <2>5 DEF ThreadNext
<1> QED
  BY <1>1, <1>6, <1>9 DEF ServedInv

\* A phase begins with nobody served and every thread before its start.
LEMMA FreshPhase ==
  ASSUME TypeOK, NEW q \in Pools, NEW list \in Lists,
         pc'[q] = "start", next'[q] = 1, held'[q] = list, served'[q] = NobodyYet(list),
         \A v \in Pool(q) : thread'[q][v] # "working"
  PROVE  \A v \in Threads(q) : ShareServed(q, v)'
<1> TAKE v \in Threads(q)
<1>1. Before(q, v)'
  BY Numbers DEF Before
<1>2. ~During(q, v)'
  BY Numbers DEF During
<1>3. \A k \in Share(q, v, list) : served'[q][k] = 0
  BY ShareType DEF NobodyYet
<1> QED
  BY <1>1, <1>2, <1>3 DEF ShareServed

LEMMA DriverServed ==
  ASSUME TypeOK, HandInv, ServedInv, NEW q \in Pools, DriverNext(q)
  PROVE  ServedInv'
<1>1. /\ UNCHANGED thread
      /\ \A p \in Pools \ {q} :
           /\ pc'[p] = pc[p] /\ next'[p] = next[p] /\ held'[p] = held[p] /\ startSig'[p] = startSig[p]
  BY DriverFrame
<1>2. Steady(q) /\ \A v \in Pool(q) : Hand(q, v)
  BY DEF HandInv
<1>3. /\ q \in DOMAIN pc /\ q \in DOMAIN next /\ q \in DOMAIN held /\ q \in DOMAIN startSig
      /\ DOMAIN startSig[q] = Pool(q) /\ DOMAIN todo = Pools /\ DOMAIN todo[q] = Threads(q)
      /\ DOMAIN served = Pools /\ next[q] \in Nat /\ next[q] <= Req[q]
  BY Numbers DEF TypeOK
<1>4. /\ Req[q] \in Nat \ {0} /\ Req[q] \in Threads(q) /\ Req[q] \notin Pool(q)
      /\ \A v \in Threads(q) : v \in Nat /\ v >= 1 /\ v <= Req[q]
      /\ \A v \in Threads(q) : v # Req[q] => v \in Pool(q) /\ v < Req[q]
  BY Numbers
<1>5. \A p \in Pools \ {q} : served'[p] = served[p] /\ todo'[p] = todo[p]
  BY <1>3 DEF DriverNext, FrameNext, BeginFrame, StartOne, TakeShare, OwnShare, UpdateOne,
              EndShare, JoinOne, EndPhase
<1>6. ASSUME NEW p \in Pools \ {q}, pc'[p] # "idle", NEW v \in Threads(p) PROVE ShareServed(p, v)'
  BY <1>1, <1>5, <1>6, OtherServed
<1>7. ASSUME pc'[q] # "idle" PROVE \A v \in Threads(q) : ShareServed(q, v)'
  <2>1. CASE BeginFrame(q)
    <3>1. /\ pc[q] = "idle" /\ pc'[q] = "start" /\ next'[q] = 1 /\ held'[q] = players'
          /\ served'[q] = NobodyYet(players')
      BY <1>3, <2>1 DEF BeginFrame
    <3>2. players' \in Lists
      BY <2>1 DEF BeginFrame, TypeOK
    <3>3. \A v \in Pool(q) : thread'[q][v] # "working"
      BY <1>1, <1>2, <3>1 DEF Hand, Live
    <3> QED
      BY <3>1, <3>2, <3>3, FreshPhase
  <2>2. CASE StartOne(q)
    <3>1. PICK w \in Pool(q) : w = next[q]
      BY <2>2 DEF StartOne
    <3>2. /\ pc[q] = "start" /\ UNCHANGED <<pc, held, todo, served>>
          /\ \A v \in Pool(q) : v # w => startSig'[q][v] = startSig[q][v]
          /\ \/ startSig'[q][w] = "unlocked" /\ next'[q] = w + 1
             \/ startSig'[q][w] = startSig[q][w] /\ next'[q] = next[q]
      BY <1>3, <2>2, <3>1 DEF StartOne
    <3> TAKE v \in Threads(q)
    <3>3. ShareServed(q, v)
      BY <3>2 DEF ServedInv
    <3>4. During(q, v)' <=> During(q, v)
      BY <1>1, <3>2 DEF During
    <3>5. Before(q, v)' <=> Before(q, v)
      BY <1>1, <1>3, <1>4, <3>1, <3>2 DEF Before, Live, Pool
    <3> QED
      BY <3>2, <3>3, <3>4, <3>5, SameServed
  <2>3. CASE TakeShare(q)
    <3>1. /\ pc[q] = "start" /\ pc'[q] = "share" /\ next[q] = Req[q]
          /\ UNCHANGED <<next, held, served, startSig>>
          /\ todo'[q][Req[q]] = Share(q, Req[q], held[q])
          /\ \A v \in Threads(q) : v # Req[q] => todo'[q][v] = todo[q][v]
      BY <1>3, <1>4, <2>3 DEF TakeShare, threadVars
    <3>2. ShareServed(q, Req[q])'
      <4>1. ShareServed(q, Req[q])
        BY <1>4, <3>1 DEF ServedInv
      <4>2. Before(q, Req[q])
        BY <1>4, <3>1 DEF Before
      <4>3. ~Before(q, Req[q])' /\ During(q, Req[q])'
        BY <3>1 DEF Before, During
      <4> QED
        BY <3>1, <4>1, <4>2, <4>3 DEF ShareServed
    <3>3. ASSUME NEW v \in Threads(q), v # Req[q] PROVE ShareServed(q, v)'
      <4>1. ShareServed(q, v)
        BY <3>1 DEF ServedInv
      <4>2. (Before(q, v)' <=> Before(q, v)) /\ (During(q, v)' <=> During(q, v))
        BY <1>1, <1>4, <3>1, <3>3 DEF Before, During, Live
      <4> QED
        BY <3>1, <3>3, <4>1, <4>2, SameServed
    <3> QED
      BY <3>2, <3>3
  <2>4. CASE OwnShare(q)
    <3>1. pc[q] = "share" /\ UpdateOne(q, Req[q]) /\ UNCHANGED <<pc, next, held, startSig>>
      BY <2>4 DEF OwnShare, driverVars, threadVars
    <3>2. During(q, Req[q])
      BY <3>1 DEF During
    <3>3. /\ todo'[q][Req[q]] \subseteq Share(q, Req[q], held[q])
          /\ \A k \in Share(q, Req[q], held[q]) : served'[q][k] = IF k \in todo'[q][Req[q]] THEN 0 ELSE 1
          /\ \A v \in Threads(q) \ {Req[q]} :
               todo'[q][v] = todo[q][v] /\ \A k \in Share(q, v, held[q]) : served'[q][k] = served[q][k]
      BY <1>4, <3>1, <3>2, UpdateServed
    <3>4. \A v \in Threads(q) : (Before(q, v)' <=> Before(q, v)) /\ (During(q, v)' <=> During(q, v))
      BY <1>1, <3>1 DEF Before, During, Live
    <3>5. ~Before(q, Req[q])
      BY <3>1 DEF Before
    <3>6. ShareServed(q, Req[q])'
      BY <1>4, <3>1, <3>2, <3>3, <3>4, <3>5 DEF ShareServed
    <3>7. ASSUME NEW v \in Threads(q) \ {Req[q]} PROVE ShareServed(q, v)'
      <4>1. ShareServed(q, v)
        BY <3>1 DEF ServedInv
      <4> QED
        BY <3>1, <3>3, <3>4, <4>1, SameServed
    <3> QED
      BY <3>6, <3>7
  <2>5. CASE EndShare(q)
    <3>1. /\ pc[q] = "share" /\ pc'[q] = "join" /\ next'[q] = 1 /\ todo[q][Req[q]] = {}
          /\ UNCHANGED <<held, todo, served, startSig>>
      BY <1>3, <2>5 DEF EndShare, threadVars
    <3>2. ShareServed(q, Req[q])'
      <4>1. ShareServed(q, Req[q])
        BY <1>4, <3>1 DEF ServedInv
      <4>2. During(q, Req[q])
        BY <3>1 DEF During
      <4>3. ~Before(q, Req[q])' /\ ~During(q, Req[q])'
        BY <3>1 DEF Before, During
      <4> QED
        BY <3>1, <4>1, <4>2, <4>3 DEF ShareServed
    <3>3. ASSUME NEW v \in Threads(q), v # Req[q] PROVE ShareServed(q, v)'
      <4>1. ShareServed(q, v)
        BY <3>1 DEF ServedInv
      <4>2. (Before(q, v)' <=> Before(q, v)) /\ (During(q, v)' <=> During(q, v))
        BY <1>1, <1>4, <3>1, <3>3 DEF Before, During, Live
      <4> QED
        BY <3>1, <3>3, <4>1, <4>2, SameServed
    <3> QED
      BY <3>2, <3>3
  <2>6. CASE JoinOne(q)
    <3>1. PICK w \in Pool(q) : w = next[q]
      BY <2>6 DEF JoinOne
    <3>2. /\ pc[q] = "join" /\ UNCHANGED <<pc, held, todo, served, startSig>>
          /\ \/ doneSig[q][w] = "unlocked" /\ next'[q] = w + 1
             \/ next'[q] = next[q]
      BY <1>3, <2>6, <3>1 DEF JoinOne
    <3>3. doneSig[q][w] = "unlocked" => startSig[q][w] = "locked"
      BY <1>2, <3>1 DEF Hand, Baton
    <3> TAKE v \in Threads(q)
    <3>4. ShareServed(q, v)
      BY <3>2 DEF ServedInv
    <3>5. During(q, v)' <=> During(q, v)
      BY <1>1, <3>2 DEF During
    <3>6. Before(q, v)' <=> Before(q, v)
      BY <1>1, <1>3, <1>4, <3>1, <3>2, <3>3 DEF Before, Live
    <3> QED
      BY <3>2, <3>4, <3>5, <3>6, SameServed
  <2>7. CASE EndPhase(q)
    <3>1. /\ pc[q] = "join" /\ next[q] = Req[q] /\ next'[q] = 1
          /\ pc'[q] = "start" /\ held'[q] = held[q] /\ served'[q] = NobodyYet(held[q])
      BY <1>3, <1>7, <2>7 DEF EndPhase
    <3>2. \A v \in Pool(q) : thread'[q][v] # "working"
      BY <1>1, <1>2, <1>4, <3>1 DEF Hand, Pool
    <3>3. held[q] \in Lists
      BY <3>1, Holding
    <3> QED
      BY <3>1, <3>2, <3>3, FreshPhase
  <2> QED
    BY <2>1, <2>2, <2>3, <2>4, <2>5, <2>6, <2>7 DEF DriverNext, FrameNext
<1> QED
  BY <1>1, <1>6, <1>7 DEF ServedInv

LEMMA ServedStep ==
  ASSUME TypeOK, HandInv, ServedInv, [Next]_vars
  PROVE  ServedInv'
<1>1. CASE Reset
  <2>1. \A p \in Pools : pc'[p] = "idle"
    BY <1>1 DEF Reset, driverVars
  <2> QED
    BY <2>1 DEF ServedInv
<1>2. CASE \E q \in Pools : DriverNext(q)
  BY <1>2, DriverServed
<1>3. CASE \E q \in Pools : \E w \in Pool(q) : ThreadNext(q, w)
  BY <1>3, ThreadServed
<1>4. CASE UNCHANGED vars
  <2>1. /\ UNCHANGED <<pc, next, held, thread, startSig, todo, served>>
    BY <1>4 DEF vars, driverVars, threadVars
  <2>2. ASSUME NEW p \in Pools, pc'[p] # "idle", NEW v \in Threads(p) PROVE ShareServed(p, v)'
    BY <2>1, <2>2, OtherServed
  <2> QED
    BY <2>2 DEF ServedInv
<1> QED
  BY <1>1, <1>2, <1>3, <1>4 DEF Next

-----------------------------------------------------------------------------
(* Lockstep.                                                               *)

\* At the end of a phase everybody has been served.
LEMMA AllServed ==
  ASSUME TypeOK, HandInv, ServedInv, NEW q \in Pools, pc[q] = "join", next[q] = Req[q]
  PROVE  \A k \in DOMAIN held[q] : served[q][k] = 1
<1> SUFFICES ASSUME NEW k \in DOMAIN held[q] PROVE served[q][k] = 1
  OBVIOUS
<1>1. held[q] \in Lists
  BY Holding
<1>2. PICK v \in Threads(q) : k \in Share(q, v, held[q])
  BY <1>1, SharesCover
<1>3. ShareServed(q, v)
  BY DEF ServedInv
<1>4. ~Before(q, v) /\ ~During(q, v)
  <2>1. v # Req[q] => v \in Pool(q) /\ v < next[q] /\ v \in Nat /\ next[q] \in Nat
    BY Numbers
  <2>2. v # Req[q] => Hand(q, v)
    BY <2>1 DEF HandInv
  <2> QED
    BY <2>1, <2>2 DEF Before, During, Live, Hand
<1> QED
  BY <1>2, <1>3, <1>4 DEF ShareServed

LEMMA LockstepStep ==
  ASSUME TypeOK, HandInv, ServedInv, [Next]_vars
  PROVE  [Frame!LNext]_(Frame!lockVars)
<1> USE DEF Frame!lockVars
<1>1. CASE Reset \/ UNCHANGED vars
  BY <1>1 DEF Reset, vars, driverVars
<1>2. ASSUME NEW q \in Pools, NEW w \in Pool(q), ThreadNext(q, w)
      PROVE  [Frame!LNext]_(Frame!lockVars)
  <2>1. UNCHANGED <<held, phase>>
    BY <1>2 DEF ThreadNext, driverVars
  <2>2. CASE Work(q, w)
    <3>1. thread[q][w] = "working" /\ UpdateOne(q, w)
      BY <2>2 DEF Work
    <3>2. w \in Threads(q) /\ w # Req[q]
      BY Numbers
    <3>3. \A v \in Pool(q) : thread[q][v] = "working" => pc[q] # "idle"
      BY Holding
    <3>4. pc[q] # "idle" /\ During(q, w)
      BY <3>1, <3>2, <3>3 DEF During
    <3>5. \E k \in DOMAIN held[q] : served[q][k] = 0 /\ served' = [served EXCEPT ![q][k] = 1]
      BY <3>1, <3>2, <3>4, UpdateServed
    <3>6. held[q] # NoList
      BY <3>4, Holding
    <3> QED
      BY <2>1, <3>5, <3>6 DEF Frame!LNext, Frame!Update
  <2>3. CASE ~Work(q, w)
    BY <1>2, <2>1, <2>3 DEF ThreadNext, CreateStart, CreateDone, Start, Complete
  <2> QED
    BY <2>2, <2>3
<1>3. ASSUME NEW q \in Pools, DriverNext(q)
      PROVE  [Frame!LNext]_(Frame!lockVars)
  <2>1. CASE BeginFrame(q)
    <3>1. held[q] = NoList
      BY <2>1 DEF BeginFrame, HandInv, Steady
    <3>2. players' \in Lists
      BY <2>1 DEF BeginFrame, TypeOK
    <3>3. NobodyYet(players') = Frame!NobodyYet(players')
      BY DEF NobodyYet, Frame!NobodyYet
    <3>4. Frame!Begin(q, players')
      BY <2>1, <3>1, <3>3 DEF BeginFrame, Frame!Begin
    <3> QED
      BY <3>2, <3>4 DEF Frame!LNext
  <2>2. CASE OwnShare(q)
    <3>1. pc[q] = "share" /\ UpdateOne(q, Req[q]) /\ UNCHANGED <<held, phase>>
      BY <2>2 DEF OwnShare, driverVars
    <3>2. Req[q] \in Threads(q)
      BY Numbers
    <3>3. pc[q] # "idle" /\ During(q, Req[q])
      BY <3>1 DEF During
    <3>4. \E k \in DOMAIN held[q] : served[q][k] = 0 /\ served' = [served EXCEPT ![q][k] = 1]
      BY <3>1, <3>2, <3>3, UpdateServed
    <3>5. held[q] # NoList
      BY <3>3, Holding
    <3> QED
      BY <3>1, <3>4, <3>5 DEF Frame!LNext, Frame!Update
  <2>3. CASE EndPhase(q)
    <3>1. pc[q] = "join" /\ next[q] = Req[q]
      BY <2>3 DEF EndPhase
    <3>2. \A k \in DOMAIN held[q] : served[q][k] = 1
      BY <3>1, AllServed
    <3>3. held[q] # NoList
      BY <3>1, Holding
    <3>4. NobodyYet(held[q]) = Frame!NobodyYet(held[q])
      BY DEF NobodyYet, Frame!NobodyYet
    <3>5. Frame!EndPhase(q)
      BY <2>3, <3>2, <3>3, <3>4 DEF EndPhase, Frame!EndPhase
    <3> QED
      BY <3>5 DEF Frame!LNext
  <2>4. CASE StartOne(q) \/ TakeShare(q) \/ EndShare(q) \/ JoinOne(q)
    BY <2>4 DEF StartOne, TakeShare, EndShare, JoinOne
  <2> QED
    BY <1>3, <2>1, <2>2, <2>3, <2>4 DEF DriverNext, FrameNext
<1> QED
  BY <1>1, <1>2, <1>3 DEF Next

\* Signals, shares and threads make frames in lockstep: every player of the
\* frame's list is updated once in each phase, whatever the threads do.
THEOREM ImplementsLockstep == Spec => InLockstep
<1>1. Init => TypeOK /\ HandInv
  BY InitType, InitHand
<1>2. Init => ServedInv
  BY DEF Init, ServedInv
<1>3. Init => Frame!LInit
  BY DEF Init, Frame!LInit
<1>4. TypeOK /\ HandInv /\ ServedInv /\ [Next]_vars => ServedInv'
  BY ServedStep
<1>5. TypeOK /\ HandInv /\ ServedInv /\ [Next]_vars => [Frame!LNext]_(Frame!lockVars)
  BY LockstepStep
<1> QED
  BY <1>1, <1>2, <1>3, <1>4, <1>5, HandStep, PTL DEF Spec, InLockstep, Frame!LockstepSpec
=============================================================================
