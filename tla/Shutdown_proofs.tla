-------------------------- MODULE Shutdown_proofs --------------------------
(***************************************************************************)
(* The end of a run for any number of pool threads, phases and records.    *)
(*                                                                         *)
(* None of the properties is inductive.  Each rests on what one of the     *)
(* synchronisations of the code establishes:                               *)
(*   QuietInv   an idle tick is only counted outside of a frame, and none  *)
(*              begins after it (ClockStation);                            *)
(*   SignalInv  until main wakes the pool, a pool thread is signalled, at  *)
(*              work, or has completed, one of them at a time and only     *)
(*              while the T/C thread has the phase open (SyncThread);      *)
(*   RefInv     the count of references is what main and the T/C thread    *)
(*              hold between them, and main only lets go of its own after  *)
(*              the T/C thread did (shutdownStation()).                    *)
(***************************************************************************)
EXTENDS Shutdown, TLAPS

MainPcs == {"loop", "stop", "wait", "drain", "ref", "sim", "players", "wake", "flag",
            "recorder", "target", "waitRef", "unrefExtra", "unrefApp", "done", "leaked"}
TcPcs   == {"test", "start", "own", "join", "record", "unref", "gone"}
PoolPcs == {"test", "waitStart", "test2", "work", "last", "unref", "gone"}

TypeOK ==
  /\ slow \in BOOLEAN /\ running \in BOOLEAN /\ tcStop \in BOOLEAN
  /\ stShutdown \in BOOLEAN /\ simShutdown \in BOOLEAN
  /\ confirmed \in BOOLEAN /\ recorderOpen \in BOOLEAN
  /\ idleTicks \in 0 .. 2
  /\ mainPc \in MainPcs /\ wakeNext \in 1 .. PoolSize + 1
  /\ refs \in Int /\ target \in Int
  /\ tcPc \in TcPcs /\ phase \in 1 .. Phases /\ tcNext \in 1 .. PoolSize + 1
  /\ startSig \in [Pool -> BOOLEAN] /\ doneSig \in [Pool -> BOOLEAN]
  /\ poolPc \in [Pool -> PoolPcs]
  /\ queue \in 0 .. QueueBound

\* What an idle tick proves of the T/C thread.
QuietInv ==
  /\ idleTicks >= 1 => tcStop /\ ~InFrame
  /\ confirmed => idleTicks >= 2

\* The T/C thread has handed the phase to w and not yet collected it.
Given(w) == \/ tcPc = "start" /\ w < tcNext
            \/ tcPc = "own"
            \/ tcPc = "join" /\ w >= tcNext

Busy(w) == poolPc[w] \in {"test2", "work", "last"}

\* Main has not yet begun to wake the pool for the shutdown.
BeforeWake == mainPc \in {"loop", "stop", "wait", "drain", "ref", "sim", "players"}

SignalInv ==
  BeforeWake => \A w \in Pool :
    /\ startSig[w] \/ doneSig[w] \/ Busy(w) => Given(w)
    /\ ~(startSig[w] /\ doneSig[w]) /\ ~(startSig[w] /\ Busy(w)) /\ ~(doneSig[w] /\ Busy(w))

\* The recorder is closed at the end, with its queue empty.
RecorderInv ==
  /\ ~recorderOpen => mainPc \in {"target", "waitRef", "unrefExtra", "unrefApp", "done", "leaked"}
  /\ confirmed /\ ~recorderOpen => queue = 0

\* References held by main and by the T/C thread.
MainRefs == CASE mainPc \in {"loop", "stop", "wait", "drain", "ref", "unrefApp"} -> 1
              [] mainPc = "done" -> 0
              [] OTHER -> 2
TcRefs == IF tcPc = "gone" THEN 0 ELSE 1

RefInv ==
  /\ refs = MainRefs + TcRefs
  /\ mainPc = "waitRef" => target = 2 \/ (target = 1 /\ tcPc = "gone")
  /\ mainPc \in {"unrefExtra", "unrefApp", "done"} => tcPc = "gone"

ShutdownInv == TypeOK /\ QuietInv /\ SignalInv /\ RecorderInv /\ RefInv

-----------------------------------------------------------------------------
LEMMA InitHolds == Init => ShutdownInv
<1> SUFFICES ASSUME Init PROVE ShutdownInv
  OBVIOUS
<1> USE ShutdownAssumption DEF ShutdownAssumption, Init
<1>1. TypeOK
  <2>1. 1 \in 1 .. PoolSize + 1 /\ 1 \in 1 .. Phases /\ 0 \in 0 .. 2 /\ 0 \in 0 .. QueueBound
    OBVIOUS
  <2>2. /\ startSig \in [Pool -> BOOLEAN] /\ doneSig \in [Pool -> BOOLEAN]
        /\ poolPc \in [Pool -> PoolPcs]
    BY DEF PoolPcs
  <2>3. mainPc \in MainPcs /\ tcPc \in TcPcs
    BY DEF MainPcs, TcPcs
  <2>4. /\ slow \in BOOLEAN /\ running \in BOOLEAN /\ tcStop \in BOOLEAN
        /\ stShutdown \in BOOLEAN /\ simShutdown \in BOOLEAN
        /\ confirmed \in BOOLEAN /\ recorderOpen \in BOOLEAN
    OBVIOUS
  <2>5. /\ wakeNext \in 1 .. PoolSize + 1 /\ tcNext \in 1 .. PoolSize + 1
        /\ phase \in 1 .. Phases /\ idleTicks \in 0 .. 2 /\ queue \in 0 .. QueueBound
        /\ refs \in Int /\ target \in Int
    BY <2>1
  <2> HIDE DEF Init
  <2> QED
    BY <2>2, <2>3, <2>4, <2>5 DEF TypeOK
<1>2. QuietInv /\ SignalInv /\ RecorderInv
  BY DEF QuietInv, SignalInv, RecorderInv, Busy
<1>3. RefInv
  BY DEF RefInv, MainRefs, TcRefs
<1> QED
  BY <1>1, <1>2, <1>3 DEF ShutdownInv

\* A step of the T/C thread.
LEMMA TcKeeps == ShutdownInv /\ TcNext /\ UNCHANGED slow => ShutdownInv'
<1> SUFFICES ASSUME ShutdownInv, TcNext, UNCHANGED slow PROVE ShutdownInv'
  OBVIOUS
<1> USE ShutdownAssumption DEF ShutdownAssumption, ShutdownInv, mainVars, poolVars, flagVars, recVars
<1>1. CASE TcPeriod
  <2> USE <1>1 DEF TcPeriod
  <2>1. TypeOK'
    <3>1. tcPc' \in TcPcs
      BY DEF TcPcs
    <3>2. idleTicks' \in 0 .. 2 /\ phase' \in 1 .. Phases /\ tcNext' \in 1 .. PoolSize + 1
      BY DEF TypeOK
    <3> QED
      BY <3>1, <3>2 DEF TypeOK
  <2>2. QuietInv'
    BY DEF TypeOK, QuietInv, InFrame
  <2>3. SignalInv'
    BY DEF SignalInv, BeforeWake, Given, Busy, Pool
  <2>4. RecorderInv' /\ RefInv'
    BY DEF RecorderInv, RefInv, MainRefs, TcRefs
  <2> QED
    BY <2>1, <2>2, <2>3, <2>4
<1>2. CASE TcStartPool
  <2> USE <1>2 DEF TcStartPool
  <2>1. TypeOK'
    <3>1. tcPc' \in TcPcs
      BY DEF TypeOK, TcPcs
    <3>2. tcNext' \in 1 .. PoolSize + 1
      BY DEF TypeOK, Pool
    <3>3. startSig' \in [Pool -> BOOLEAN]
      BY DEF TypeOK
    <3> QED
      BY <3>1, <3>2, <3>3 DEF TypeOK
  <2>2. QuietInv' /\ RecorderInv' /\ RefInv'
    BY DEF QuietInv, InFrame, RecorderInv, RefInv, MainRefs, TcRefs
  <2>3. SignalInv'
    BY DEF TypeOK, SignalInv, BeforeWake, Given, Busy, Pool
  <2> QED
    BY <2>1, <2>2, <2>3
<1>3. CASE TcOwnShare
  <2> USE <1>3 DEF TcOwnShare
  <2>1. TypeOK'
    BY DEF TypeOK, TcPcs
  <2>2. QuietInv' /\ RecorderInv' /\ RefInv'
    BY DEF QuietInv, InFrame, RecorderInv, RefInv, MainRefs, TcRefs
  <2>3. SignalInv'
    BY DEF SignalInv, BeforeWake, Given, Busy, Pool
  <2> QED
    BY <2>1, <2>2, <2>3
<1>4. CASE TcJoinOne
  <2> USE <1>4 DEF TcJoinOne
  <2>1. TypeOK'
    BY DEF TypeOK, Pool
  <2>2. QuietInv' /\ RecorderInv' /\ RefInv'
    BY DEF QuietInv, InFrame, RecorderInv, RefInv, MainRefs, TcRefs
  <2>3. SignalInv'
    BY DEF TypeOK, SignalInv, BeforeWake, Given, Busy, Pool
  <2> QED
    BY <2>1, <2>2, <2>3
<1>5. CASE TcPhaseEnd
  <2> USE <1>5 DEF TcPhaseEnd
  <2>1. TypeOK'
    BY DEF TypeOK, TcPcs
  <2>2. QuietInv' /\ RecorderInv' /\ RefInv'
    BY DEF QuietInv, InFrame, RecorderInv, RefInv, MainRefs, TcRefs
  <2>3. SignalInv'
    BY DEF TypeOK, SignalInv, BeforeWake, Given, Busy, Pool
  <2> QED
    BY <2>1, <2>2, <2>3
<1>6. CASE TcRecord
  <2> USE <1>6 DEF TcRecord
  <2>1. TypeOK'
    BY DEF TypeOK, TcPcs
  <2>2. QuietInv' /\ RefInv'
    BY DEF QuietInv, InFrame, RefInv, MainRefs, TcRefs
  <2>3. RecorderInv'
    BY DEF TypeOK, QuietInv, InFrame, RecorderInv
  <2>4. SignalInv'
    BY DEF SignalInv, BeforeWake, Given, Busy
  <2> QED
    BY <2>1, <2>2, <2>3, <2>4
<1>7. CASE TcUnref
  <2> USE <1>7 DEF TcUnref
  <2>1. TypeOK'
    BY DEF TypeOK, TcPcs
  <2>2. QuietInv' /\ RecorderInv'
    BY DEF QuietInv, InFrame, RecorderInv
  <2>3. RefInv'
    BY DEF TypeOK, RefInv, MainRefs, TcRefs
  <2>4. SignalInv'
    BY DEF SignalInv, BeforeWake, Given, Busy
  <2> QED
    BY <2>1, <2>2, <2>3, <2>4
<1> QED
  BY <1>1, <1>2, <1>3, <1>4, <1>5, <1>6, <1>7 DEF TcNext

\* A step of a pool thread.
LEMMA PoolKeeps ==
  ASSUME ShutdownInv, NEW w \in Pool, PoolNext(w), UNCHANGED slow
  PROVE  ShutdownInv'
<1> USE DEF ShutdownInv, mainVars, tcVars, flagVars, recVars
<1>1. UNCHANGED <<mainVars, tcVars, flagVars, recVars, idleTicks, refs>>
  BY DEF PoolNext, PoolTest, PoolStart, PoolTestAgain, PoolComplete, PoolUnref
<1>2. TypeOK'
  BY <1>1 DEF TypeOK, PoolPcs, PoolNext, PoolTest, PoolStart, PoolTestAgain, PoolComplete, PoolUnref
<1>3. QuietInv' /\ RecorderInv' /\ RefInv'
  BY <1>1 DEF QuietInv, InFrame, RecorderInv, RefInv, MainRefs, TcRefs
<1>4. \A v \in Pool : Given(v)' = Given(v)
  BY <1>1 DEF Given
<1>5. BeforeWake' = BeforeWake
  BY <1>1 DEF BeforeWake
<1>6. \A v \in Pool \ {w} : startSig'[v] = startSig[v] /\ doneSig'[v] = doneSig[v] /\ poolPc'[v] = poolPc[v]
  BY DEF TypeOK, PoolNext, PoolTest, PoolStart, PoolTestAgain, PoolComplete, PoolUnref
<1>7. SignalInv'
  <2> SUFFICES ASSUME BeforeWake
               PROVE  /\ startSig'[w] \/ doneSig'[w] \/ Busy(w)' => Given(w)
                      /\ ~(startSig'[w] /\ doneSig'[w]) /\ ~(startSig'[w] /\ Busy(w)') /\ ~(doneSig'[w] /\ Busy(w)')
    BY <1>4, <1>5, <1>6 DEF SignalInv, Busy
  <2>1. CASE PoolTest(w)
    BY <2>1 DEF TypeOK, SignalInv, Busy, PoolTest
  <2>2. CASE PoolStart(w)
    BY <2>2 DEF TypeOK, SignalInv, Busy, PoolStart
  <2>3. CASE PoolTestAgain(w)
    BY <2>3 DEF TypeOK, SignalInv, Busy, PoolTestAgain
  <2>4. CASE PoolComplete(w)
    BY <2>4 DEF TypeOK, SignalInv, Busy, PoolComplete
  <2>5. CASE PoolUnref(w)
    BY <2>5 DEF TypeOK, SignalInv, Busy, PoolUnref
  <2> QED
    BY <2>1, <2>2, <2>3, <2>4, <2>5 DEF PoolNext
<1> QED
  BY <1>2, <1>3, <1>7

\* A step of the main thread.
LEMMA MainKeeps == ShutdownInv /\ MainNext /\ UNCHANGED slow => ShutdownInv'
<1> SUFFICES ASSUME ShutdownInv, MainNext, UNCHANGED slow PROVE ShutdownInv'
  OBVIOUS
<1> USE ShutdownAssumption
    DEF ShutdownAssumption, ShutdownInv, tcVars, poolVars, flagVars, recVars,
        MainLoop, MainAskStop, MainWaitIdle, MainDrain, MainExtraRef, MainSimFlag, MainPlayers,
        MainWakePool, MainStationFlag, MainCloseRecorder, MainTarget, MainRefReached,
        MainRefTimeout, MainUnrefExtra, MainUnrefApp
<1>1. TypeOK'
  <2>1. mainPc' \in MainPcs
    BY DEF MainPcs, MainNext, TypeOK
  <2>2. queue' \in 0 .. QueueBound
    BY DEF TypeOK, MainNext
  <2>3. wakeNext' \in 1 .. PoolSize + 1
    BY DEF TypeOK, MainNext, Pool
  <2>4. startSig' \in [Pool -> BOOLEAN]
    <3>1. CASE MainWakePool
      <4> HIDE DEF MainWakePool
      <4>1. startSig' = startSig \/ startSig' = [startSig EXCEPT ![wakeNext] = TRUE]
        BY <3>1 DEF MainWakePool
      <4> QED
        BY <4>1 DEF TypeOK
    <3>2. CASE ~MainWakePool
      <4>1. startSig' = startSig
        BY <3>2 DEF MainNext
      <4> QED
        BY <4>1 DEF TypeOK
    <3> QED
      BY <3>1, <3>2
  <2>5. refs' \in Int /\ target' \in Int
    BY DEF TypeOK, MainNext
  <2>6. tcStop' \in BOOLEAN /\ stShutdown' \in BOOLEAN /\ simShutdown' \in BOOLEAN
        /\ confirmed' \in BOOLEAN /\ recorderOpen' \in BOOLEAN
    BY DEF TypeOK, MainNext
  <2>7. UNCHANGED <<slow, running, idleTicks, tcPc, phase, tcNext, doneSig, poolPc>>
    BY DEF MainNext
  <2> QED
    BY <2>1, <2>2, <2>3, <2>4, <2>5, <2>6, <2>7 DEF TypeOK
<1>2. QuietInv'
  BY DEF QuietInv, InFrame, MainNext
<1>3. SignalInv'
  BY DEF SignalInv, BeforeWake, Given, Busy, MainNext
<1>4. RecorderInv'
  BY DEF TypeOK, RecorderInv, MainNext
<1>5. RefInv'
  BY DEF TypeOK, RefInv, MainRefs, TcRefs, MainNext
<1> QED
  BY <1>1, <1>2, <1>3, <1>4, <1>5

\* Nobody but the user raises the signal.
LEMMA SignalKeeps == ShutdownInv /\ Signal /\ UNCHANGED slow => ShutdownInv'
<1> SUFFICES ASSUME ShutdownInv, Signal, UNCHANGED slow PROVE ShutdownInv'
  OBVIOUS
<1> USE DEF ShutdownInv, Signal, mainVars, tcVars, poolVars, recVars
<1>1. TypeOK'
  BY DEF TypeOK
<1>2. QuietInv' /\ SignalInv' /\ RecorderInv' /\ RefInv'
  BY DEF QuietInv, InFrame, SignalInv, BeforeWake, Given, Busy, RecorderInv, RefInv, MainRefs, TcRefs
<1> QED
  BY <1>1, <1>2

LEMMA StutterKeeps == ShutdownInv /\ UNCHANGED vars => ShutdownInv'
<1> SUFFICES ASSUME ShutdownInv, UNCHANGED vars PROVE ShutdownInv'
  OBVIOUS
<1> USE DEF ShutdownInv, vars, stepVars, mainVars, tcVars, poolVars, flagVars, recVars
<1>1. TypeOK'
  BY DEF TypeOK
<1>2. QuietInv' /\ SignalInv' /\ RecorderInv' /\ RefInv'
  BY DEF QuietInv, InFrame, SignalInv, BeforeWake, Given, Busy, RecorderInv, RefInv, MainRefs, TcRefs
<1> QED
  BY <1>1, <1>2

LEMMA StepKeeps == ShutdownInv /\ [Next]_vars => ShutdownInv'
  BY SignalKeeps, MainKeeps, TcKeeps, PoolKeeps, StutterKeeps DEF Next

LEMMA InvariantHolds == Spec => []ShutdownInv
<1>1. Init => ShutdownInv
  BY InitHolds
<1>2. ShutdownInv /\ [Next]_vars => ShutdownInv'
  BY StepKeeps
<1> QED
  BY <1>1, <1>2, PTL DEF Spec

-----------------------------------------------------------------------------
\* Every variable keeps its type; in particular no signal, thread or record is
\* ever addressed that does not exist.
THEOREM TypeCorrect == Spec => []TypeOK
<1>1. ShutdownInv => TypeOK
  BY DEF ShutdownInv
<1> QED
  BY <1>1, InvariantHolds, PTL

\* quiesceTimeCritical() before shutdownStation() (Run.cpp:30-37, 105-128): once
\* two idle ticks were seen, no thread of the framework is inside a player when
\* main shuts the players down -- for any number of threads and phases.
THEOREM PlayersAlone == Spec => []PlayersShutDownAlone
<1>1. ShutdownInv => PlayersShutDownAlone
  <2> SUFFICES ASSUME ShutdownInv, confirmed, mainPc = "players"
               PROVE  ~InFrame /\ \A w \in Pool : poolPc[w] # "work"
    BY DEF PlayersShutDownAlone
  <2>1. ~InFrame
    BY DEF ShutdownInv, TypeOK, QuietInv
  <2>2. \A w \in Pool : ~Given(w)
    BY <2>1 DEF Given, InFrame
  <2> QED
    BY <2>1, <2>2 DEF ShutdownInv, SignalInv, BeforeWake, Busy
<1> QED
  BY <1>1, InvariantHolds, PTL

\* The last drain of the recorder is final (Run.cpp:121): with idleness
\* confirmed no record is queued after the output handlers were shut down.
THEOREM AllRecorded == Spec => []NothingUnrecorded
<1>1. ShutdownInv => NothingUnrecorded
  BY DEF ShutdownInv, RecorderInv, NothingUnrecorded
<1> QED
  BY <1>1, InvariantHolds, PTL

\* shutdownStation() (Shutdown.cpp:93-157): the last reference of the Station is
\* dropped by the main thread, after the T/C thread has left its function.
\* Proved with no fairness and for both kinds of machine: also when a bounded
\* wait ran out.
THEOREM DestroyedByMain == Spec => StationDestroyedByMain
<1>1. ShutdownInv /\ [Next]_vars
      => [refs # 0 /\ refs' = 0 => mainPc = "unrefApp" /\ tcPc = "gone"]_vars
  <2> SUFFICES ASSUME ShutdownInv, Next, refs # 0, refs' = 0
               PROVE  mainPc = "unrefApp" /\ tcPc = "gone"
    BY DEF vars, stepVars
  <2> USE DEF ShutdownInv, RefInv, MainRefs, TcRefs
  <2>1. CASE Signal
    BY <2>1 DEF Signal
  <2>2. CASE MainNext
    BY <2>2 DEF MainNext, MainLoop, MainAskStop, MainWaitIdle, MainDrain, MainExtraRef,
        MainSimFlag, MainPlayers, MainWakePool, MainStationFlag, MainCloseRecorder,
        MainTarget, MainRefReached, MainRefTimeout, MainUnrefExtra, MainUnrefApp
  <2>3. CASE TcNext
    BY <2>3 DEF TcNext, TcPeriod, TcStartPool, TcOwnShare, TcJoinOne, TcPhaseEnd,
        TcRecord, TcUnref
  <2>4. CASE \E w \in Pool : PoolNext(w)
    BY <2>4 DEF PoolNext, PoolTest, PoolStart, PoolTestAgain, PoolComplete, PoolUnref
  <2> QED
    BY <2>1, <2>2, <2>3, <2>4 DEF Next
<1> QED
  BY <1>1, InvariantHolds, PTL DEF Spec, StationDestroyedByMain
=============================================================================
