------------------------------ MODULE Shutdown ------------------------------
(***************************************************************************)
(* How a run ends: src/node/Run.cpp and app/src/app/Shutdown.cpp, with the *)
(* parts of the framework they have to work around -- Station and          *)
(* Simulation::shutdownNotification(), the periodic time-critical (T/C)    *)
(* thread and the pool of SyncThreads it hands the player list to.         *)
(*                                                                         *)
(* The main thread silences the T/C thread, drains the recorder, sends     *)
(* SHUTDOWN_EVENT and drops its references of the Station.  The T/C thread *)
(* owns a reference of the Station and every pool thread one of the        *)
(* Simulation, so who runs the destructors depends on who is last.         *)
(*                                                                         *)
(* The start and completed signals are mutexes used as binary semaphores:  *)
(* TRUE is "unlocked".  The speed is 1x by now (Run.cpp:54): one frame per *)
(* period.  The watchdog's _Exit() only cuts a behaviour short and is left *)
(* out.                                                                    *)
(***************************************************************************)
EXTENDS Integers, FiniteSets

CONSTANTS
  PoolSize,      \* pool threads of the Simulation: numTcThreads - 1
  Phases,        \* bound: phases of a frame (4 in the code)
  QueueBound     \* bound: records waiting in the recorder's queue

ASSUME ShutdownAssumption ==
  /\ PoolSize \in Nat
  /\ Phases \in Nat \ {0}
  /\ QueueBound \in Nat \ {0}

Pool == 1 .. PoolSize

VARIABLES
  slow,         \* never changes: a slow machine, on which a bounded wait of
                \* main may run out although what it waits for is still to come
  running,      \* g_running, cleared by the signal handler
  tcStop,       \* ClockStation: tcStopRequested_
  idleTicks,    \* ClockStation: tcIdleTicks_, saturated at 2
  confirmed,    \* waitForTcQuiesced() returned true
  mainPc,
  wakeNext,     \* main: next pool thread to be woken by the shutdown
  refs,         \* references of the Station
  target,       \* main: the count esperaRefCount() waits for
  stShutdown,   \* Station: isShutdown()
  simShutdown,  \* Simulation: isShutdown()
  tcPc,
  phase,
  tcNext,       \* T/C: next pool thread to start or to wait for
  startSig,
  doneSig,
  poolPc,
  queue,        \* records waiting to be written
  recorderOpen  \* the output handlers have not been shut down

mainVars == <<mainPc, wakeNext, target, confirmed>>
tcVars   == <<tcPc, phase, tcNext>>
poolVars == <<startSig, doneSig, poolPc>>
flagVars == <<running, tcStop, stShutdown, simShutdown>>
recVars  == <<queue, recorderOpen>>
stepVars == <<mainVars, tcVars, poolVars, flagVars, recVars, idleTicks, refs>>
vars == <<stepVars, slow>>

InFrame == tcPc \in {"start", "own", "join", "record"}

\* After the second of settling (Run.cpp:105) every thread has its reference.
Init ==
  /\ slow \in BOOLEAN
  /\ running = TRUE /\ tcStop = FALSE /\ stShutdown = FALSE /\ simShutdown = FALSE
  /\ idleTicks = 0 /\ confirmed = FALSE
  /\ mainPc = "loop" /\ wakeNext = 1 /\ target = 0
  /\ refs = 2
  /\ tcPc = "test" /\ phase = 1 /\ tcNext = 1
  /\ startSig = [w \in Pool |-> FALSE] /\ doneSig = [w \in Pool |-> FALSE]
  /\ poolPc = [w \in Pool |-> "waitStart"]
  /\ queue = 0 /\ recorderOpen = TRUE

-----------------------------------------------------------------------------
(* The T/C thread.                                                         *)

\* Mutant: the idle tick is counted but the frame is run all the same.
TcPeriod_NoReturn ==
  /\ tcPc = "test"
  /\ tcPc' = IF stShutdown THEN "unref" ELSE "start"
  /\ idleTicks' = IF ~stShutdown /\ tcStop /\ idleTicks < 2 THEN idleTicks + 1
                  ELSE idleTicks
  /\ phase' = 1 /\ tcNext' = 1
  /\ UNCHANGED <<mainVars, poolVars, flagVars, recVars, refs>>

\* while (!isShutdown()): leave the loop, count an idle tick, or begin a frame.
TcPeriod ==
  /\ tcPc = "test"
  /\ tcPc' = IF stShutdown THEN "unref" ELSE IF tcStop THEN "test" ELSE "start"
  /\ idleTicks' = IF ~stShutdown /\ tcStop /\ idleTicks < 2 THEN idleTicks + 1
                  ELSE idleTicks
  /\ phase' = 1 /\ tcNext' = 1
  /\ UNCHANGED <<mainVars, poolVars, flagVars, recVars, refs>>

\* start0(): hand the phase to the pool, one thread after the other.
TcStartPool ==
  /\ tcPc = "start"
  /\ IF tcNext \in Pool
     THEN /\ startSig' = [startSig EXCEPT ![tcNext] = TRUE]
          /\ tcNext' = tcNext + 1
          /\ UNCHANGED tcPc
     ELSE /\ tcPc' = "own"
          /\ UNCHANGED <<startSig, tcNext>>
  /\ UNCHANGED <<mainVars, phase, doneSig, poolPc, flagVars, recVars,
                 idleTicks, refs>>

\* The T/C thread is the last thread of the pool: it does its own share.
TcOwnShare ==
  /\ tcPc = "own"
  /\ tcPc' = "join" /\ tcNext' = 1
  /\ UNCHANGED <<mainVars, phase, poolVars, flagVars, recVars, idleTicks, refs>>

\* waitForAllCompleted(): blocks on one pool thread after the other.
TcJoinOne ==
  /\ tcPc = "join"
  /\ tcNext \in Pool
  /\ doneSig[tcNext]
  /\ doneSig' = [doneSig EXCEPT ![tcNext] = FALSE]
  /\ tcNext' = tcNext + 1
  /\ UNCHANGED <<mainVars, tcPc, phase, startSig, poolPc, flagVars, recVars,
                 idleTicks, refs>>

TcPhaseEnd ==
  /\ tcPc = "join"
  /\ tcNext \notin Pool
  /\ tcNext' = 1
  /\ IF phase < Phases THEN tcPc' = "start" /\ phase' = phase + 1
     ELSE tcPc' = "record" /\ UNCHANGED phase
  /\ UNCHANGED <<mainVars, poolVars, flagVars, recVars, idleTicks, refs>>

\* The frame's records go to the recorder's queue, which nobody bounds.
TcRecord ==
  /\ tcPc = "record"
  /\ tcPc' = "test"
  /\ queue' = IF queue < QueueBound THEN queue + 1 ELSE queue
  /\ UNCHANGED <<mainVars, phase, tcNext, poolVars, flagVars, recorderOpen,
                 idleTicks, refs>>

\* parent->unref() of the thread function: maybe the last one.
TcUnref ==
  /\ tcPc = "unref"
  /\ tcPc' = "gone"
  /\ refs' = refs - 1
  /\ UNCHANGED <<mainVars, phase, tcNext, poolVars, flagVars, recVars, idleTicks>>

TcNext == TcPeriod \/ TcStartPool \/ TcOwnShare \/ TcJoinOne \/ TcPhaseEnd
          \/ TcRecord \/ TcUnref

-----------------------------------------------------------------------------
(* A thread of the pool: SyncThread::mainThreadFunc().                     *)

PoolTest(w) ==
  /\ poolPc[w] = "test"
  /\ poolPc' = [poolPc EXCEPT ![w] = IF simShutdown THEN "unref" ELSE "waitStart"]
  /\ UNCHANGED <<mainVars, tcVars, startSig, doneSig, flagVars, recVars,
                 idleTicks, refs>>

PoolStart(w) ==
  /\ poolPc[w] = "waitStart"
  /\ startSig[w]
  /\ startSig' = [startSig EXCEPT ![w] = FALSE]
  /\ poolPc' = [poolPc EXCEPT ![w] = "test2"]
  /\ UNCHANGED <<mainVars, tcVars, doneSig, flagVars, recVars, idleTicks, refs>>

\* "Just in case we've been shutdown while we were waiting."
PoolTestAgain(w) ==
  /\ poolPc[w] = "test2"
  /\ poolPc' = [poolPc EXCEPT ![w] = IF simShutdown THEN "last" ELSE "work"]
  /\ UNCHANGED <<mainVars, tcVars, startSig, doneSig, flagVars, recVars,
                 idleTicks, refs>>

PoolComplete(w) ==
  /\ poolPc[w] \in {"work", "last"}
  /\ doneSig' = [doneSig EXCEPT ![w] = TRUE]
  /\ poolPc' = [poolPc EXCEPT ![w] = IF poolPc[w] = "work" THEN "test" ELSE "unref"]
  /\ UNCHANGED <<mainVars, tcVars, startSig, flagVars, recVars, idleTicks, refs>>

\* parent->unref() on the Simulation, which may be its last reference.
PoolUnref(w) ==
  /\ poolPc[w] = "unref"
  /\ poolPc' = [poolPc EXCEPT ![w] = "gone"]
  /\ UNCHANGED <<mainVars, tcVars, startSig, doneSig, flagVars, recVars,
                 idleTicks, refs>>

PoolNext(w) == PoolTest(w) \/ PoolStart(w) \/ PoolTestAgain(w) \/ PoolComplete(w)
               \/ PoolUnref(w)

-----------------------------------------------------------------------------
(* The main thread.                                                        *)

Signal ==
  /\ running
  /\ running' = FALSE
  /\ UNCHANGED <<mainVars, tcVars, poolVars, tcStop, stShutdown, simShutdown,
                 recVars, idleTicks, refs>>

\* One turn of the 10 Hz loop: updateData() empties the recorder's queue.
MainLoop ==
  /\ mainPc = "loop"
  /\ IF running THEN queue' = 0 /\ UNCHANGED mainPc
     ELSE mainPc' = "stop" /\ UNCHANGED queue
  /\ UNCHANGED <<wakeNext, target, confirmed, tcVars, poolVars, flagVars,
                 recorderOpen, idleTicks, refs>>

\* quiesceTimeCritical(): requestTcStop() ...
MainAskStop ==
  /\ mainPc = "stop"
  /\ mainPc' = "wait"
  /\ tcStop' = TRUE
  /\ UNCHANGED <<wakeNext, target, confirmed, tcVars, poolVars, running,
                 stShutdown, simShutdown, recVars, idleTicks, refs>>

\* ... and waitForTcQuiesced(), whose failure is only logged.
MainWaitIdle ==
  /\ mainPc = "wait"
  /\ \/ idleTicks >= 2 /\ confirmed' = TRUE
     \/ slow /\ UNCHANGED confirmed
  /\ mainPc' = "drain"
  /\ UNCHANGED <<wakeNext, target, tcVars, poolVars, flagVars, recVars,
                 idleTicks, refs>>

\* The last updateData(): processQueue() takes records until there is none.
MainDrain ==
  /\ mainPc = "drain"
  /\ IF queue > 0 THEN queue' = queue - 1 /\ UNCHANGED mainPc
     ELSE mainPc' = "ref" /\ UNCHANGED queue
  /\ UNCHANGED <<wakeNext, target, confirmed, tcVars, poolVars, flagVars,
                 recorderOpen, idleTicks, refs>>

\* shutdownStation(): the extra reference.
MainExtraRef ==
  /\ mainPc = "ref"
  /\ mainPc' = "sim"
  /\ refs' = refs + 1
  /\ UNCHANGED <<wakeNext, target, confirmed, tcVars, poolVars, flagVars, recVars,
                 idleTicks>>

\* SHUTDOWN_EVENT: the Simulation marks itself first ...
MainSimFlag ==
  /\ mainPc = "sim"
  /\ mainPc' = "players"
  /\ simShutdown' = TRUE
  /\ UNCHANGED <<wakeNext, target, confirmed, tcVars, poolVars, running, tcStop,
                 stShutdown, recVars, idleTicks, refs>>

\* ... then shuts its players down ...
MainPlayers ==
  /\ mainPc = "players"
  /\ mainPc' = "wake"
  /\ UNCHANGED <<wakeNext, target, confirmed, tcVars, poolVars, flagVars, recVars,
                 idleTicks, refs>>

\* Mutant: the pool is left asleep.
MainWakePool_Asleep ==
  /\ mainPc = "wake"
  /\ mainPc' = "flag"
  /\ UNCHANGED <<wakeNext, target, confirmed, tcVars, poolVars, flagVars, recVars,
                 idleTicks, refs>>

\* ... and wakes the pool so that it sees the mark.
MainWakePool ==
  /\ mainPc = "wake"
  /\ IF wakeNext \in Pool
     THEN /\ startSig' = [startSig EXCEPT ![wakeNext] = TRUE]
          /\ wakeNext' = wakeNext + 1
          /\ UNCHANGED mainPc
     ELSE mainPc' = "flag" /\ UNCHANGED <<startSig, wakeNext>>
  /\ UNCHANGED <<target, confirmed, tcVars, doneSig, poolPc, flagVars, recVars,
                 idleTicks, refs>>

\* The Station's own mark, which is what ends the T/C loop.
MainStationFlag ==
  /\ mainPc = "flag"
  /\ mainPc' = "recorder"
  /\ stShutdown' = TRUE
  /\ UNCHANGED <<wakeNext, target, confirmed, tcVars, poolVars, running, tcStop,
                 simShutdown, recVars, idleTicks, refs>>

\* DataRecorder: flush the queue, with an END_OF_DATA record of its own at the
\* end of it, then shut the output handlers down.
MainCloseRecorder ==
  /\ mainPc = "recorder"
  /\ IF queue > 0 THEN queue' = queue - 1 /\ UNCHANGED <<mainPc, recorderOpen>>
     ELSE mainPc' = "target" /\ recorderOpen' = FALSE /\ UNCHANGED queue
  /\ UNCHANGED <<wakeNext, target, confirmed, tcVars, poolVars, flagVars,
                 idleTicks, refs>>

\* alvo = getRefCount() - 1, read after the T/C thread was told to leave.
MainTarget ==
  /\ mainPc = "target"
  /\ mainPc' = "waitRef"
  /\ target' = refs - 1
  /\ UNCHANGED <<wakeNext, confirmed, tcVars, poolVars, flagVars, recVars,
                 idleTicks, refs>>

\* Mutant: a hopeful sleep in place of the wait for the T/C thread's release.
MainRefReached_Hope ==
  /\ mainPc = "waitRef"
  /\ mainPc' = "unrefExtra"
  /\ UNCHANGED <<wakeNext, target, confirmed, tcVars, poolVars, flagVars, recVars,
                 idleTicks, refs>>

MainRefReached ==
  /\ mainPc = "waitRef"
  /\ refs <= target
  /\ mainPc' = "unrefExtra"
  /\ UNCHANGED <<wakeNext, target, confirmed, tcVars, poolVars, flagVars, recVars,
                 idleTicks, refs>>

\* The wait runs out, because the machine is slow or because the reference it
\* waits for was dropped before it began: the Station is left alive.
MainRefTimeout ==
  /\ mainPc = "waitRef"
  /\ slow \/ tcPc = "gone"
  /\ refs > target
  /\ mainPc' = "leaked"
  /\ UNCHANGED <<wakeNext, target, confirmed, tcVars, poolVars, flagVars, recVars,
                 idleTicks, refs>>

MainUnrefExtra ==
  /\ mainPc = "unrefExtra"
  /\ mainPc' = "unrefApp"
  /\ refs' = refs - 1
  /\ UNCHANGED <<wakeNext, target, confirmed, tcVars, poolVars, flagVars, recVars,
                 idleTicks>>

MainUnrefApp ==
  /\ mainPc = "unrefApp"
  /\ mainPc' = "done"
  /\ refs' = refs - 1
  /\ UNCHANGED <<wakeNext, target, confirmed, tcVars, poolVars, flagVars, recVars,
                 idleTicks>>

MainNext ==
  \/ MainLoop \/ MainAskStop \/ MainWaitIdle \/ MainDrain \/ MainExtraRef
  \/ MainSimFlag \/ MainPlayers \/ MainWakePool \/ MainStationFlag
  \/ MainCloseRecorder \/ MainTarget \/ MainRefReached \/ MainRefTimeout
  \/ MainUnrefExtra \/ MainUnrefApp

Next ==
  /\ Signal \/ MainNext \/ TcNext \/ \E w \in Pool : PoolNext(w)
  /\ UNCHANGED slow

Spec == Init /\ [][Next]_vars

\* Every thread runs; whether the user ever ends the run is left open.
FairSpec ==
  /\ Spec
  /\ WF_stepVars(MainNext)
  /\ WF_stepVars(TcNext)
  /\ \A w \in Pool : WF_stepVars(PoolNext(w))
-----------------------------------------------------------------------------
(* Properties.                                                             *)

\* The Station is destroyed by the main thread, with the T/C thread out of its
\* loop (Shutdown.cpp:93-97), also when a wait runs out.
StationDestroyedByMain ==
  [][refs # 0 /\ refs' = 0 => mainPc = "unrefApp" /\ tcPc = "gone"]_vars

\* Once idleness was confirmed, players are shut down while neither the T/C
\* thread nor the pool is touching them (Run.cpp:30-37).
PlayersShutDownAlone ==
  confirmed /\ mainPc = "players" => ~InFrame /\ \A w \in Pool : poolPc[w] # "work"

\* Once idleness was confirmed, the recorder is closed with every record written
\* and none comes after ("drenagem final, produtora ja calada", Run.cpp:121).
NothingUnrecorded == confirmed /\ ~recorderOpen => queue = 0

\* With waits long enough nobody is left behind: main returns, the T/C thread
\* and every pool thread leave (Run.cpp:30-37 tells of the mutual wait this
\* avoids).
EverybodyLeaves ==
  ~running /\ ~slow ~> /\ mainPc \in {"done", "leaked"}
              /\ tcPc = "gone"
              /\ \A w \in Pool : poolPc[w] = "gone"

\* "a thread de tempo critico nao soltou a referencia da Station"
\* (Shutdown.cpp:147): the Station is only given up while the thread holds it.
LeakedOnlyIfHeld == [][MainRefTimeout => tcPc # "gone"]_vars
=============================================================================
