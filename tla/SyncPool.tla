------------------------------ MODULE SyncPool ------------------------------
(***************************************************************************)
(* The pools of SyncThreads a Simulation hands its players to: the T/C one *)
(* (updateTC(), four phases) and the background one (updateData(), one).   *)
(* RESET_EVENT creates them; the thread that runs the frames -- main for   *)
(* the priming frame, the T/C or the background thread afterwards -- is    *)
(* the driver: it starts every pool thread, does the last share itself and *)
(* waits for all.  The background loop may swap the list of players at any *)
(* time; a frame keeps the list it began with.                             *)
(*                                                                         *)
(* A signal is a mutex used as a binary semaphore: "null" until the thread *)
(* itself has created it, for start() does not wait for the thread, nor    *)
(* does createThread() look at what pthread_create() answered.  To signal  *)
(* or wait on a null one is undefined; in this build it is a fault, and    *)
(* the process ends.  A player's update is one step.  The end of the pool  *)
(* is in Shutdown.                                                         *)
(***************************************************************************)
EXTENDS Integers, Sequences

CONSTANTS
  Pools,      \* the pools of the Simulation
  Req,        \* Req[q]: reqTcThreads, reqBgThreads; the driver is the last
  Phases,     \* Phases[q]: phases of a frame
  Lists,      \* lists of players the Simulation may have
  NoList,
  Swappers    \* pools whose driver swaps the list: the background one

ASSUME SyncPoolAssumption ==
  /\ Req \in [Pools -> Nat \ {0}]
  /\ Phases \in [Pools -> Nat \ {0}]
  /\ \A list \in Lists : Len(list) \in Nat /\ DOMAIN list = 1 .. Len(list)
  /\ NoList \notin Lists
  /\ Swappers \subseteq Pools

Threads(q) == 1 .. Req[q]
Pool(q) == 1 .. (Req[q] - 1)
PoolThreads == UNION {{q} \X Pool(q) : q \in Pools}

VARIABLES
  players,    \* players: the current list
  created,    \* RESET_EVENT was sent: the pools were made
  crashed,    \* a null signal was used
  pc,         \* pc[q]: the driver: "idle", "start", "share", "join"
  next,       \* next[q]: pool thread to start or to wait for
  phase,      \* phase[q]: phase of the frame in progress
  held,       \* held[q]: currentPlayerList
  thread,     \* thread[q][w]: "none", "failed", "spawned", "halfway", "waiting", "working"
  startSig,   \* startSig[q][w]: "null", "locked", "unlocked"
  doneSig,    \* doneSig[q][w]: the same of completedSig
  given,      \* given[q][w]: pl0
  todo,       \* todo[q][w]: positions of its list w still has to update
  served,     \* history: served[q][k], updates of the k'th player in this phase
  warm        \* history: pools that have completed a phase

driverVars == <<pc, next, phase, held>>
threadVars == <<thread, startSig, doneSig, given>>
vars == <<players, created, crashed, driverVars, threadVars, todo, served, warm>>

-----------------------------------------------------------------------------
Share_PoolSize(q, w, list) ==
  LET n == IF Req[q] = 1 THEN 1 ELSE Req[q] - 1 IN {k \in DOMAIN list : k % n = w % n}

\* updateTcPlayerList(), updateBgPlayerList(): every Req[q]'th player from the
\* w'th. The driver, with w = Req[q], has the multiples.
Share(q, w, list) == {k \in DOMAIN list : k % Req[q] = w % Req[q]}

Init ==
  /\ players \in Lists
  /\ created = FALSE /\ crashed = FALSE
  /\ pc    = [q \in Pools |-> "idle"]
  /\ next  = [q \in Pools |-> 1]
  /\ phase = [q \in Pools |-> 0]
  /\ held  = [q \in Pools |-> NoList]
  /\ thread   = [q \in Pools |-> [w \in Pool(q) |-> "none"]]
  /\ startSig = [q \in Pools |-> [w \in Pool(q) |-> "null"]]
  /\ doneSig  = [q \in Pools |-> [w \in Pool(q) |-> "null"]]
  /\ given    = [q \in Pools |-> [w \in Pool(q) |-> NoList]]
  /\ todo     = [q \in Pools |-> [w \in Threads(q) |-> {}]]
  /\ served   = [q \in Pools |-> <<>>]
  /\ warm     = {}

CreatePools_Again ==
  /\ \E refused \in SUBSET PoolThreads :
       thread' = [q \in Pools |-> [w \in Pool(q) |->
                    IF <<q, w>> \in refused THEN "failed" ELSE "spawned"]]
  /\ startSig' = [q \in Pools |-> [w \in Pool(q) |-> "null"]]
  /\ doneSig'  = [q \in Pools |-> [w \in Pool(q) |-> "null"]]
  /\ UNCHANGED given

\* The first reset makes every thread of both pools; pthread_create() may have
\* refused some, which nobody notices.
CreatePools ==
  /\ IF created THEN UNCHANGED thread
     ELSE \E refused \in SUBSET PoolThreads :
            thread' = [q \in Pools |-> [w \in Pool(q) |->
                         IF <<q, w>> \in refused THEN "failed" ELSE "spawned"]]
  /\ UNCHANGED <<startSig, doneSig, given>>

\* Simulation::reset(), between frames: the list is rebuilt.
Reset ==
  /\ ~crashed
  /\ \A q \in Pools : pc[q] = "idle"
  /\ created' = TRUE
  /\ players' \in Lists
  /\ CreatePools
  /\ UNCHANGED <<crashed, driverVars, todo, served, warm>>

-----------------------------------------------------------------------------
(* A pool thread.                                                          *)

\* configThread(): createSignals(), one signal after the other.
CreateStart(q, w) ==
  /\ thread[q][w] = "spawned"
  /\ startSig' = [startSig EXCEPT ![q][w] = "locked"]
  /\ thread' = [thread EXCEPT ![q][w] = "halfway"]
  /\ UNCHANGED <<doneSig, given, todo, served>>

CreateDone(q, w) ==
  /\ thread[q][w] = "halfway"
  /\ doneSig' = [doneSig EXCEPT ![q][w] = "locked"]
  /\ thread' = [thread EXCEPT ![q][w] = "waiting"]
  /\ UNCHANGED <<startSig, given, todo, served>>

Start_KeepsSignal(q, w) ==
  /\ thread[q][w] = "waiting"
  /\ startSig[q][w] = "unlocked"
  /\ thread' = [thread EXCEPT ![q][w] = "working"]
  /\ todo' = [todo EXCEPT ![q][w] = Share(q, w, given[q][w])]
  /\ UNCHANGED <<startSig, doneSig, given, served>>

\* waitForStart() returns, userFunc() begins.
Start(q, w) ==
  /\ thread[q][w] = "waiting"
  /\ startSig[q][w] = "unlocked"
  /\ startSig' = [startSig EXCEPT ![q][w] = "locked"]
  /\ thread' = [thread EXCEPT ![q][w] = "working"]
  /\ todo' = [todo EXCEPT ![q][w] = Share(q, w, given[q][w])]
  /\ UNCHANGED <<doneSig, given, served>>

\* The next player of a share, in the order of the list.
UpdateOne(q, w) ==
  \E k \in todo[q][w] :
    /\ \A j \in todo[q][w] : k <= j
    /\ todo' = [todo EXCEPT ![q][w] = @ \ {k}]
    /\ served' = [served EXCEPT ![q][k] = @ + 1]

Work(q, w) ==
  /\ thread[q][w] = "working"
  /\ UpdateOne(q, w)
  /\ UNCHANGED threadVars

Complete_Silent(q, w) ==
  /\ thread[q][w] = "working"
  /\ todo[q][w] = {}
  /\ thread' = [thread EXCEPT ![q][w] = "waiting"]
  /\ UNCHANGED <<startSig, doneSig, given, todo, served>>

\* signalCompleted(), and back to the loop.
Complete(q, w) ==
  /\ thread[q][w] = "working"
  /\ todo[q][w] = {}
  /\ doneSig' = [doneSig EXCEPT ![q][w] = "unlocked"]
  /\ thread' = [thread EXCEPT ![q][w] = "waiting"]
  /\ UNCHANGED <<startSig, given, todo, served>>

ThreadNext(q, w) ==
  /\ ~crashed
  /\ CreateStart(q, w) \/ CreateDone(q, w) \/ Start(q, w) \/ Work(q, w) \/ Complete(q, w)
  /\ UNCHANGED <<players, created, crashed, driverVars, warm>>

-----------------------------------------------------------------------------
(* The driver.                                                             *)

NobodyYet(list) == [k \in DOMAIN list |-> 0]

\* A frame begins. In the background the list may be swapped just before.
BeginFrame(q) ==
  /\ created
  /\ pc[q] = "idle"
  /\ players' \in IF q \in Swappers THEN Lists ELSE {players}
  /\ held' = [held EXCEPT ![q] = players']
  /\ phase' = [phase EXCEPT ![q] = 0]
  /\ next' = [next EXCEPT ![q] = 1]
  /\ pc' = [pc EXCEPT ![q] = "start"]
  /\ served' = [served EXCEPT ![q] = NobodyYet(players')]
  /\ UNCHANGED <<crashed, threadVars, todo, warm>>

\* start0() of one thread: its list, then its signal.
StartOne(q) ==
  LET w == next[q] IN
  /\ pc[q] = "start"
  /\ w \in Pool(q)
  /\ given' = [given EXCEPT ![q][w] = held[q]]
  /\ \/ /\ startSig[q][w] # "null"
        /\ startSig' = [startSig EXCEPT ![q][w] = "unlocked"]
        /\ next' = [next EXCEPT ![q] = w + 1]
        /\ UNCHANGED crashed
     \/ /\ startSig[q][w] = "null"
        /\ crashed' = TRUE
        /\ UNCHANGED <<startSig, next>>
  /\ UNCHANGED <<players, pc, phase, held, thread, doneSig, todo, served, warm>>

\* All are started: the driver takes the last share,
TakeShare(q) ==
  /\ pc[q] = "start"
  /\ next[q] = Req[q]
  /\ todo' = [todo EXCEPT ![q][Req[q]] = Share(q, Req[q], held[q])]
  /\ pc' = [pc EXCEPT ![q] = "share"]
  /\ UNCHANGED <<players, crashed, next, phase, held, threadVars, served, warm>>

\* updates it player by player,
OwnShare(q) ==
  /\ pc[q] = "share"
  /\ UpdateOne(q, Req[q])
  /\ UNCHANGED <<players, crashed, driverVars, threadVars, warm>>

\* and waits for the others: waitForAllCompleted().
EndShare(q) ==
  /\ pc[q] = "share"
  /\ todo[q][Req[q]] = {}
  /\ pc' = [pc EXCEPT ![q] = "join"]
  /\ next' = [next EXCEPT ![q] = 1]
  /\ UNCHANGED <<players, crashed, phase, held, threadVars, todo, served, warm>>

JoinOne(q) ==
  LET w == next[q] IN
  /\ pc[q] = "join"
  /\ w \in Pool(q)
  /\ \/ /\ doneSig[q][w] = "unlocked"
        /\ doneSig' = [doneSig EXCEPT ![q][w] = "locked"]
        /\ next' = [next EXCEPT ![q] = w + 1]
        /\ UNCHANGED crashed
     \/ /\ doneSig[q][w] = "null"
        /\ crashed' = TRUE
        /\ UNCHANGED <<doneSig, next>>
  /\ UNCHANGED <<players, pc, phase, held, thread, startSig, given, todo, served, warm>>

\* The next phase, or the end of the frame.
EndPhase(q) ==
  /\ pc[q] = "join"
  /\ next[q] = Req[q]
  /\ \/ /\ phase[q] + 1 < Phases[q]
        /\ phase' = [phase EXCEPT ![q] = @ + 1]
        /\ pc' = [pc EXCEPT ![q] = "start"]
        /\ UNCHANGED held
     \/ /\ phase[q] + 1 = Phases[q]
        /\ phase' = [phase EXCEPT ![q] = 0]
        /\ pc' = [pc EXCEPT ![q] = "idle"]
        /\ held' = [held EXCEPT ![q] = NoList]
  /\ next' = [next EXCEPT ![q] = 1]
  /\ served' = [served EXCEPT ![q] = NobodyYet(held[q])]
  /\ warm' = warm \cup {q}
  /\ UNCHANGED <<players, crashed, threadVars, todo>>

FrameNext(q) ==
  /\ ~crashed
  /\ StartOne(q) \/ TakeShare(q) \/ OwnShare(q) \/ EndShare(q) \/ JoinOne(q) \/ EndPhase(q)
  /\ UNCHANGED created

DriverNext(q) ==
  \/ FrameNext(q)
  \/ ~crashed /\ BeginFrame(q) /\ UNCHANGED created

Next ==
  \/ Reset
  \/ \E q \in Pools : DriverNext(q) \/ \E w \in Pool(q) : ThreadNext(q, w)

\* Threads that exist run; a frame in progress goes on. Nothing obliges a frame
\* to begin.
Fairness ==
  \A q \in Pools : WF_vars(FrameNext(q)) /\ \A w \in Pool(q) : WF_vars(ThreadNext(q, w))

Spec == Init /\ [][Next]_vars /\ Fairness

-----------------------------------------------------------------------------
Signals == {"null", "locked", "unlocked"}

\* Every variable keeps its type.
TypeOK ==
  /\ players \in Lists
  /\ created \in BOOLEAN /\ crashed \in BOOLEAN
  /\ pc \in [Pools -> {"idle", "start", "share", "join"}]
  /\ next \in [Pools -> Nat] /\ \A q \in Pools : next[q] \in Threads(q)
  /\ phase \in [Pools -> Nat] /\ \A q \in Pools : phase[q] < Phases[q]
  /\ held \in [Pools -> Lists \cup {NoList}]
  /\ Pools = DOMAIN thread /\ Pools = DOMAIN startSig /\ Pools = DOMAIN doneSig
  /\ Pools = DOMAIN given /\ Pools = DOMAIN todo /\ Pools = DOMAIN served
  /\ \A q \in Pools :
       /\ thread[q] \in [Pool(q) -> {"none", "failed", "spawned", "halfway", "waiting", "working"}]
       /\ startSig[q] \in [Pool(q) -> Signals]
       /\ doneSig[q] \in [Pool(q) -> Signals]
       /\ given[q] \in [Pool(q) -> Lists \cup {NoList}]
       /\ todo[q] \in [Threads(q) -> SUBSET Nat]
       /\ held[q] # NoList => served[q] \in [DOMAIN held[q] -> Nat]
  /\ warm \subseteq Pools

\* A frame that meets a thread without signals faults; it can only be a pool's
\* very first phase. The wait at its end proves that every thread was ready.
CrashOnlyInFirstPhase ==
  crashed => \E q \in Pools : /\ q \notin warm
                              /\ \E w \in Pool(q) : "null" \in {startSig[q][w], doneSig[q][w]}

\* Whoever updates players walks a list that the frame holds a reference of,
\* although the list of the Simulation may have been swapped meanwhile: start0()
\* hands over a bare pointer, and a signal left over from another phase would
\* send a thread through a list that is gone.
UpdatesReadHeldList ==
  \A q \in Pools : \A w \in Pool(q) :
    thread[q][w] = "working" => held[q] # NoList /\ given[q][w] = held[q]

\* Every player of the list once per phase, by whatever thread, phase by phase.
Frame == INSTANCE Lockstep
InLockstep == Frame!LockstepSpec

\* A frame that has begun ends, unless the process did: signal and wait are
\* never crossed between the driver and a thread.
FramesEnd == \A q \in Pools : pc[q] # "idle" ~> (pc[q] = "idle" \/ crashed)
=============================================================================
