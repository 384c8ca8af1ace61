---------------------------- MODULE ClockStation ----------------------------
(***************************************************************************)
(* libs/xclock/ClockStation: speed, pause, manual step and safe stop of    *)
(* the simulated clock.                                                    *)
(*                                                                         *)
(* Clients are the threads that call the public API (the interface thread  *)
(* and the background loop of the dashboard, the main thread of the        *)
(* headless runner).  The time-critical (T/C) thread of the framework is   *)
(* the only one that enters processTimeCriticalTasks().  Nothing is locked:*)
(* every shared field is an atomic (or a plain flag of the framework), so  *)
(* one action is one access to one shared field.                           *)
(*                                                                         *)
(* Time scales are integers in units of 1/RealTime: RealTime is 1x, a      *)
(* smaller value is slow motion.                                           *)
(***************************************************************************)
EXTENDS Integers

CONSTANTS
  Clients,      \* threads that call the public API
  RealTime,     \* how many units make 1x
  ScaleInputs,  \* arguments callers pass to setTimeScale()
  MinScale,     \* kMinTimeScale
  MaxScale,     \* kMaxTimeScale
  StepBound,    \* bound: manual steps pending at any time
  IdleBound     \* bound: tcIdleTicks_ saturates here

ASSUME ScaleAssumption ==
  /\ RealTime \in Nat \ {0}
  /\ MinScale \in Nat \ {0}
  /\ MaxScale \in Nat
  /\ MinScale <= RealTime /\ RealTime <= MaxScale
  /\ ScaleInputs \subseteq Nat

ASSUME BoundAssumption == StepBound \in Nat /\ IdleBound \in Nat /\ IdleBound >= 2

VARIABLES
  slowFactor,       \* 1x (RealTime) unless slow motion is on
  fastForwardRate,  \* native counter: frames per T/C period
  frozen,           \* freeze flag of the Simulation
  stepRequests,     \* manual steps waiting for the T/C thread
  tcStopRequested,
  tcIdleTicks,
  quiesced,         \* waitForTcQuiesced() has returned true to somebody
  call,             \* the point of the API each client is at
  argRate,          \* local: the rate setTimeScale() is about to write
  argFlag,          \* local: the flag setPaused() is about to write
  tcPc,             \* control point of the T/C thread
  tcMode,           \* branch of processTimeCriticalTasks() the frame is in
  tcLeft,           \* manual steps drained and not yet run
  tcIter,           \* loop counter of the native batch
  tcDt,             \* dt of the current frame
  tcDt0             \* dt after the freeze test of Simulation::updateTC()

clockVars == <<slowFactor, fastForwardRate, frozen, stepRequests,
               tcStopRequested, tcIdleTicks, quiesced>>
callVars  == <<call, argRate, argFlag>>
tcVars    == <<tcPc, tcMode, tcLeft, tcIter, tcDt, tcDt0>>
vars      == <<clockVars, callVars, tcVars>>

TcPoints == {"idle", "pausedTest", "drain", "manual", "scaleTest",
             "native", "slow", "frame"}
TcModes  == {"none", "manual", "native", "slow"}

\* (unsigned)(scale + 0.5): the native slot is an integer, 1.5x becomes 2x.
Rounded(s) == (2 * s + RealTime) \div (2 * RealTime)

Accepted(s) == MinScale <= s /\ s <= MaxScale

\* getTimeScale(): below 1x slowFactor rules, from 1x up the native counter.
TimeScale == IF slowFactor < RealTime THEN slowFactor
             ELSE fastForwardRate * RealTime

FlagsOK ==
  /\ frozen \in BOOLEAN
  /\ tcStopRequested \in BOOLEAN
  /\ quiesced \in BOOLEAN
  /\ argFlag \in [Clients -> BOOLEAN]

FieldsOK ==
  /\ slowFactor \in 1 .. RealTime
  /\ fastForwardRate \in Nat
  /\ stepRequests \in Nat
  /\ tcIdleTicks \in Nat
  /\ call \in [Clients -> {"none", "rate", "discard", "freeze"}]
  /\ argRate \in [Clients -> Nat]
  /\ tcPc \in TcPoints
  /\ tcMode \in TcModes
  /\ tcLeft \in Nat
  /\ tcIter \in Nat
  /\ tcDt \in Nat
  /\ tcDt0 \in Nat

TypeOK == FlagsOK /\ FieldsOK

Init ==
  /\ slowFactor = RealTime
  /\ fastForwardRate = 1
  /\ frozen = FALSE
  /\ stepRequests = 0
  /\ tcStopRequested = FALSE
  /\ tcIdleTicks = 0
  /\ quiesced = FALSE
  /\ call = [c \in Clients |-> "none"]
  /\ argRate = [c \in Clients |-> 0]
  /\ argFlag = [c \in Clients |-> FALSE]
  /\ tcPc = "idle"
  /\ tcMode = "none"
  /\ tcLeft = 0
  /\ tcIter = 0
  /\ tcDt = 0
  /\ tcDt0 = 0

-----------------------------------------------------------------------------
(* The public API.                                                         *)

\* Mutant: slowFactor keeps the argument also from 1x up.
SetTimeScale_KeepsFactor(c, s) ==
  /\ call[c] = "none"
  /\ Accepted(s)
  /\ slowFactor' = s
  /\ argRate' = [argRate EXCEPT ![c] = IF s >= RealTime THEN Rounded(s) ELSE 1]
  /\ call' = [call EXCEPT ![c] = "rate"]
  /\ UNCHANGED <<fastForwardRate, frozen, stepRequests, tcStopRequested,
                 tcIdleTicks, quiesced, argFlag, tcVars>>

\* setTimeScale(s): slowFactor is written first ...
SetTimeScale(c, s) ==
  /\ call[c] = "none"
  /\ Accepted(s)
  /\ slowFactor' = IF s >= RealTime THEN RealTime ELSE s
  /\ argRate' = [argRate EXCEPT ![c] = IF s >= RealTime THEN Rounded(s) ELSE 1]
  /\ call' = [call EXCEPT ![c] = "rate"]
  /\ UNCHANGED <<fastForwardRate, frozen, stepRequests, tcStopRequested,
                 tcIdleTicks, quiesced, argFlag, tcVars>>

\* ... and setFastForwardRate() is a second, separate write.
WriteRate(c) ==
  /\ call[c] = "rate"
  /\ fastForwardRate' = argRate[c]
  /\ call' = [call EXCEPT ![c] = "none"]
  /\ argRate' = [argRate EXCEPT ![c] = 0]
  /\ UNCHANGED <<slowFactor, frozen, stepRequests, tcStopRequested,
                 tcIdleTicks, quiesced, argFlag, tcVars>>

\* setPaused(flag)
SetPaused(c, flag) ==
  /\ call[c] = "none"
  /\ argFlag' = [argFlag EXCEPT ![c] = flag]
  /\ call' = [call EXCEPT ![c] = "discard"]
  /\ UNCHANGED <<clockVars, argRate, tcVars>>

\* togglePaused(): setPaused(!isPaused()), the flag is read here.
TogglePaused(c) == SetPaused(c, ~frozen)

\* Mutant: unpausing keeps pending steps.
DiscardSteps_Keeps(c) ==
  /\ call[c] = "discard"
  /\ call' = [call EXCEPT ![c] = "freeze"]
  /\ UNCHANGED <<clockVars, argRate, argFlag, tcVars>>

\* Unpausing throws pending steps away before it lifts the freeze.
DiscardSteps(c) ==
  /\ call[c] = "discard"
  /\ stepRequests' = IF argFlag[c] THEN stepRequests ELSE 0
  /\ call' = [call EXCEPT ![c] = "freeze"]
  /\ UNCHANGED <<slowFactor, fastForwardRate, frozen, tcStopRequested,
                 tcIdleTicks, quiesced, argRate, argFlag, tcVars>>

WriteFreeze(c) ==
  /\ call[c] = "freeze"
  /\ frozen' = argFlag[c]
  /\ call' = [call EXCEPT ![c] = "none"]
  /\ argFlag' = [argFlag EXCEPT ![c] = FALSE]
  /\ UNCHANGED <<slowFactor, fastForwardRate, stepRequests, tcStopRequested,
                 tcIdleTicks, quiesced, argRate, tcVars>>

\* requestStep(): one atomic add, whatever the state of the clock.
RequestStep(c) ==
  /\ call[c] = "none"
  /\ stepRequests < StepBound
  /\ stepRequests' = stepRequests + 1
  /\ UNCHANGED <<slowFactor, fastForwardRate, frozen, tcStopRequested,
                 tcIdleTicks, quiesced, callVars, tcVars>>

RequestTcStop(c) ==
  /\ call[c] = "none"
  /\ tcStopRequested' = TRUE
  /\ UNCHANGED <<slowFactor, fastForwardRate, frozen, stepRequests,
                 tcIdleTicks, quiesced, callVars, tcVars>>

\* Mutant: the answer is TRUE even when the wait ran out.
WaitForTcQuiesced_TimeoutIsYes(c) ==
  /\ call[c] = "none"
  /\ tcStopRequested
  /\ quiesced' = TRUE
  /\ UNCHANGED <<slowFactor, fastForwardRate, frozen, stepRequests,
                 tcStopRequested, tcIdleTicks, callVars, tcVars>>

\* waitForTcQuiesced() polls until it has seen two idle ticks.  A timeout
\* returns false and changes nothing.
WaitForTcQuiesced(c) ==
  /\ call[c] = "none"
  /\ tcIdleTicks >= 2
  /\ quiesced' = TRUE
  /\ UNCHANGED <<slowFactor, fastForwardRate, frozen, stepRequests,
                 tcStopRequested, tcIdleTicks, callVars, tcVars>>

\* The writes a call already begun still has to make.
FinishCall(c) == WriteRate(c) \/ DiscardSteps(c) \/ WriteFreeze(c)

ClientNext(c) ==
  \/ \E s \in ScaleInputs : SetTimeScale(c, s)
  \/ \E flag \in BOOLEAN : SetPaused(c, flag)
  \/ TogglePaused(c)
  \/ RequestStep(c)
  \/ RequestTcStop(c)
  \/ WaitForTcQuiesced(c)
  \/ FinishCall(c)

-----------------------------------------------------------------------------
(* processTimeCriticalTasks(), entered once per period by the T/C thread.  *)

\* Mutant: the pause is tested before the stop request.
TcIdleTick_PauseFirst ==
  /\ tcPc = "idle"
  /\ tcStopRequested /\ ~frozen
  /\ tcIdleTicks' = IF tcIdleTicks < IdleBound THEN tcIdleTicks + 1 ELSE tcIdleTicks
  /\ UNCHANGED <<slowFactor, fastForwardRate, frozen, stepRequests,
                 tcStopRequested, quiesced, callVars, tcVars>>

\* The stop request is tested before anything else, so the proof of
\* idleness is also given while the simulation is paused.
TcIdleTick ==
  /\ tcPc = "idle"
  /\ tcStopRequested
  /\ tcIdleTicks' = IF tcIdleTicks < IdleBound THEN tcIdleTicks + 1 ELSE tcIdleTicks
  /\ UNCHANGED <<slowFactor, fastForwardRate, frozen, stepRequests,
                 tcStopRequested, quiesced, callVars, tcVars>>

\* Mutant: the idle tick does not return, the frame path follows it.
TcEnter_NoReturn ==
  /\ tcPc = "idle"
  /\ tcPc' = "pausedTest"
  /\ UNCHANGED <<clockVars, callVars, tcMode, tcLeft, tcIter, tcDt, tcDt0>>

TcEnter ==
  /\ tcPc = "idle"
  /\ ~tcStopRequested
  /\ tcPc' = "pausedTest"
  /\ UNCHANGED <<clockVars, callVars, tcMode, tcLeft, tcIter, tcDt, tcDt0>>

TcPausedTest ==
  /\ tcPc = "pausedTest"
  /\ tcPc' = IF frozen THEN "drain" ELSE "scaleTest"
  /\ UNCHANGED <<clockVars, callVars, tcMode, tcLeft, tcIter, tcDt, tcDt0>>

\* Mutant: a load in place of the exchange.
TcDrain_Load ==
  /\ tcPc = "drain"
  /\ tcLeft' = stepRequests
  /\ tcPc' = "manual"
  /\ UNCHANGED <<clockVars, callVars, tcMode, tcIter, tcDt, tcDt0>>

\* Manual steps: everything pending is taken by one exchange.
TcDrain ==
  /\ tcPc = "drain"
  /\ tcLeft' = stepRequests
  /\ stepRequests' = 0
  /\ tcPc' = "manual"
  /\ UNCHANGED <<slowFactor, fastForwardRate, frozen, tcStopRequested,
                 tcIdleTicks, quiesced, callVars, tcMode, tcIter, tcDt, tcDt0>>

TcScaleTest ==
  /\ tcPc = "scaleTest"
  /\ tcPc' = IF slowFactor >= RealTime THEN "native" ELSE "slow"
  /\ UNCHANGED <<clockVars, callVars, tcMode, tcLeft, tcIter, tcDt, tcDt0>>

\* tcFrame(dt) up to the freeze test of Simulation::updateTC(): execTime has
\* advanced by dt, the world will advance by dt0.
BeginFrame(mode, dt) ==
  /\ tcPc' = "frame"
  /\ tcMode' = mode
  /\ tcDt' = dt
  /\ tcDt0' = IF frozen THEN 0 ELSE dt

TcManualStep ==
  /\ tcPc = "manual"
  /\ tcLeft > 0
  /\ tcLeft' = tcLeft - 1
  /\ BeginFrame("manual", RealTime)
  /\ UNCHANGED <<clockVars, callVars, tcIter>>

TcManualDone ==
  /\ tcPc = "manual"
  /\ tcLeft = 0
  /\ tcPc' = "idle"
  /\ UNCHANGED <<clockVars, callVars, tcMode, tcLeft, tcIter, tcDt, tcDt0>>

\* The native loop reads the rate again on every turn.
TcNativeFrame ==
  /\ tcPc = "native"
  /\ tcIter < fastForwardRate
  /\ tcIter' = tcIter + 1
  /\ BeginFrame("native", RealTime)
  /\ UNCHANGED <<clockVars, callVars, tcLeft>>

TcNativeDone ==
  /\ tcPc = "native"
  /\ tcIter >= fastForwardRate
  /\ tcPc' = "idle"
  /\ tcIter' = 0
  /\ UNCHANGED <<clockVars, callVars, tcMode, tcLeft, tcDt, tcDt0>>

\* Slow motion: slowFactor is read a second time, after TcScaleTest.
TcSlowFrame ==
  /\ tcPc = "slow"
  /\ BeginFrame("slow", slowFactor)
  /\ UNCHANGED <<clockVars, callVars, tcLeft, tcIter>>

TcEndFrame ==
  /\ tcPc = "frame"
  /\ tcPc' = IF tcMode = "slow" THEN "idle" ELSE tcMode
  /\ tcMode' = "none"
  /\ tcDt' = 0
  /\ tcDt0' = 0
  /\ UNCHANGED <<clockVars, callVars, tcLeft, tcIter>>

TcNext ==
  \/ TcIdleTick \/ TcEnter \/ TcPausedTest \/ TcDrain \/ TcScaleTest
  \/ TcManualStep \/ TcManualDone \/ TcNativeFrame \/ TcNativeDone
  \/ TcSlowFrame \/ TcEndFrame

Next == TcNext \/ \E c \in Clients : ClientNext(c)

Spec == Init /\ [][Next]_vars

\* The T/C thread is periodic, and a call once begun runs to its end.  Which
\* calls are made, and whether any is made at all, is left to the callers.
FairSpec ==
  /\ Spec
  /\ WF_vars(TcNext)
  /\ \A c \in Clients : WF_vars(FinishCall(c))

-----------------------------------------------------------------------------
(* Properties.                                                             *)

\* The positive answer of waitForTcQuiesced() is final: from then on the T/C
\* thread is outside processTimeCriticalTasks()'s frame paths for ever
\* (ClockStation.cpp:111-113 argues that one tick already proves it).
QuiesceIsProof == quiesced => tcPc = "idle"

\* The integration step is shortened by slow motion and never stretched, even
\* when setTimeScale() runs between the two reads of slowFactor
\* (ClockStation.hpp:36-37).
StepNeverStretched == tcPc = "frame" => 0 < tcDt /\ tcDt <= RealTime

\* A stop request is always confirmed: paused, in slow motion or in the middle
\* of a fast-forward batch, two idle ticks eventually follow
\* (ClockStation.cpp:145-149).
StopIsConfirmed == tcStopRequested ~> tcIdleTicks >= 2

\* A manual step asked for while paused is consumed by the T/C thread, unless
\* the simulation is resumed or stopped first (ClockStation.hpp:90-110).
StepsAreServed ==
  (frozen /\ stepRequests > 0) ~> (stepRequests = 0 \/ ~frozen \/ tcStopRequested)

\* The clock implements the gate the shutdown sequence relies on.
Gate == INSTANCE TcGate WITH inFrame <- tcPc = "frame"
GateSpec == Gate!Spec
=============================================================================
