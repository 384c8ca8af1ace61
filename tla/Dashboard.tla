----------------------------- MODULE Dashboard -----------------------------
(***************************************************************************)
(* The interactive runner of app/: the interface thread and the background *)
(* loop share one clock (ClockStation) and one breakpoint                  *)
(* (BreakpointController, guarded by bpMutex).  Reaching the breakpoint    *)
(* pauses the simulation and, if it was armed in fast mode, gives back the *)
(* speed the user had chosen.                                              *)
(*                                                                         *)
(* A key press or a sample of the background loop decides what to do in    *)
(* one step -- under bpMutex where the code locks it -- and leaves the     *)
(* calls it still has to make in todo; the clock's own steps interleave    *)
(* with them.                                                              *)
(***************************************************************************)
EXTENDS ClockStation, Sequences

CONSTANTS
  UI,             \* the interface thread
  Sim,            \* the background loop ("simThread")
  Ladder,         \* SpeedLadder: the speeds the user can choose, ascending
  RealTimeIndex,  \* the place of 1x in the ladder
  Keys,           \* what the user may ask for in this run
  MayChangeMode   \* whether an armed breakpoint may be armed again in the
                  \* other mode

AllKeys == {"accelerate", "decelerate", "realTime", "pause", "step", "arm",
            "cancel", "quit"}

\* A speed the clock keeps as it is: from 1x up only whole ones (1x, 2x, 4x ...).
Kept(s) == s >= RealTime => Rounded(s) * RealTime = s

ASSUME DashboardAssumption ==
  /\ Clients = {UI, Sim} /\ UI # Sim /\ "free" \notin Clients
  /\ Ladder \in Seq(ScaleInputs) /\ RealTimeIndex \in DOMAIN Ladder
  /\ Ladder[RealTimeIndex] = RealTime
  /\ \A i \in DOMAIN Ladder : Accepted(Ladder[i]) /\ Kept(Ladder[i])
  /\ Keys \subseteq AllKeys
  /\ MayChangeMode \in BOOLEAN

VARIABLES
  todo,          \* the calls each thread still has to make, in order
  ladderIndex,
  armed,
  fastMode,
  restoreScale,  \* the speed to give back
  hit,           \* the breakpoint was reached ("PAUSADO" on the screen)
  bpMutex,       \* who holds it, or "free"
  fastRun,       \* fastRunToBreakpoint: the background loop does not sleep
  simRuns,       \* the background loop has not been joined
  stale          \* history: some pending manual step was pending while the
                 \* simulation was seen running

bpVars   == <<armed, fastMode, restoreScale, hit>>
dashVars == <<todo, ladderIndex, bpVars, bpMutex, fastRun, simRuns>>
allVars  == <<vars, dashVars, stale>>

Call(op) == <<[op |-> op, arg |-> 0]>>

CallScale(s) == <<[op |-> "scale", arg |-> s]>>

MaxSpeed == Ladder[Len(Ladder)]

Busy(c) == todo[c] # <<>> \/ call[c] # "none"

Quiet == \A c \in Clients : ~Busy(c)

\* The ladder is seeded from the clock: 1x.
DInit ==
  /\ Init
  /\ stale = FALSE
  /\ todo = [c \in Clients |-> <<>>]
  /\ ladderIndex = RealTimeIndex
  /\ armed = FALSE /\ fastMode = FALSE /\ restoreScale = RealTime /\ hit = FALSE
  /\ bpMutex = "free"
  /\ fastRun = FALSE
  /\ simRuns = TRUE

-----------------------------------------------------------------------------
(* The interface thread.  It takes a key when it is done with the last one.*)

Press(key) == key \in Keys /\ ~Busy(UI) /\ simRuns

Do(calls) == todo' = [todo EXCEPT ![UI] = calls]

\* Mutant: the speed keys do not ask whether a breakpoint is armed.
SpeedKeysFree_Always == TRUE

\* isBreakpointArmedNow(): locks bpMutex to look.
SpeedKeysFree == bpMutex = "free" /\ ~armed

Accelerate ==
  /\ Press("accelerate") /\ SpeedKeysFree
  /\ ladderIndex < Len(Ladder)
  /\ ladderIndex' = ladderIndex + 1
  /\ Do(CallScale(Ladder[ladderIndex + 1]))
  /\ UNCHANGED <<vars, bpVars, bpMutex, fastRun, simRuns>>

Decelerate ==
  /\ Press("decelerate") /\ SpeedKeysFree
  /\ ladderIndex > 1
  /\ ladderIndex' = ladderIndex - 1
  /\ Do(CallScale(Ladder[ladderIndex - 1]))
  /\ UNCHANGED <<vars, bpVars, bpMutex, fastRun, simRuns>>

ToRealTime ==
  /\ Press("realTime") /\ SpeedKeysFree
  /\ ladderIndex' = RealTimeIndex
  /\ Do(Call("resume") \o CallScale(RealTime))
  /\ UNCHANGED <<vars, bpVars, bpMutex, fastRun, simRuns>>

TogglePause ==
  /\ Press("pause")
  /\ Do(Call("toggle"))
  /\ UNCHANGED <<vars, ladderIndex, bpVars, bpMutex, fastRun, simRuns>>

\* doCompStep(): pause first, if it is running.
ManualStep ==
  /\ Press("step")
  /\ stepRequests < StepBound
  /\ Do(IF frozen THEN Call("step") ELSE Call("pause") \o Call("step"))
  /\ UNCHANGED <<vars, ladderIndex, bpVars, bpMutex, fastRun, simRuns>>

\* Mutant: every arm() captures the speed to give back.
Arm_Recaptures(fast) ==
  /\ armed' = TRUE /\ fastMode' = fast /\ hit' = FALSE
  /\ restoreScale' = TimeScale

\* BreakpointController::arm(): the speed to give back is captured once.
Arm(fast) ==
  /\ armed' = TRUE /\ fastMode' = fast /\ hit' = FALSE
  /\ restoreScale' = IF armed THEN restoreScale ELSE TimeScale

\* doArmBreakpoint(): the mutex is released before fastRunToBreakpoint is set
\* and the simulation resumed.
ArmBreakpoint(fast) ==
  /\ Press("arm") /\ bpMutex = "free"
  /\ armed => fast = fastMode \/ MayChangeMode
  /\ Arm(fast)
  /\ bpMutex' = UI
  /\ Do((IF fast THEN CallScale(MaxSpeed) ELSE <<>>)
        \o Call("unlock")
        \o Call(IF fast THEN "fastOn" ELSE "fastOff")
        \o Call("resume"))
  /\ UNCHANGED <<vars, ladderIndex, fastRun, simRuns>>

CancelBreakpoint ==
  /\ Press("cancel") /\ bpMutex = "free"
  /\ armed' = FALSE
  /\ bpMutex' = UI
  /\ Do((IF armed /\ fastMode THEN CallScale(restoreScale) ELSE <<>>)
        \o Call("fastOff") \o Call("unlock"))
  /\ UNCHANGED <<vars, ladderIndex, fastMode, restoreScale, hit, fastRun, simRuns>>

\* The end of the run: silence the T/C thread, then join the background loop.
Quit ==
  /\ Press("quit")
  /\ Do(CallScale(RealTime) \o Call("stop") \o Call("wait") \o Call("join"))
  /\ UNCHANGED <<vars, ladderIndex, bpVars, bpMutex, fastRun, simRuns>>

UiNext ==
  \/ Accelerate \/ Decelerate \/ ToRealTime \/ TogglePause \/ ManualStep
  \/ \E fast \in BOOLEAN : ArmBreakpoint(fast)
  \/ CancelBreakpoint \/ Quit

-----------------------------------------------------------------------------
(* The background loop.                                                    *)

\* The check of the breakpoint that ends a sample, when the target leaf is the
\* active one: everything up to "unlock" happens under bpMutex.
BreakpointHit ==
  /\ ~Busy(Sim) /\ simRuns
  /\ bpMutex = "free"
  /\ armed
  /\ armed' = FALSE /\ hit' = TRUE
  /\ bpMutex' = Sim
  /\ todo' = [todo EXCEPT ![Sim] =
                (IF fastMode THEN CallScale(restoreScale) ELSE <<>>)
                \o Call("pause") \o Call("fastOff") \o Call("unlock")]
  /\ UNCHANGED <<vars, ladderIndex, fastMode, restoreScale, fastRun, simRuns>>

-----------------------------------------------------------------------------
(* Both threads: the next call of the list.                                *)

\* A call into the clock.
DoClock(c, h) ==
  /\ \/ h.op = "scale"  /\ SetTimeScale(c, h.arg)
     \/ h.op = "pause"  /\ SetPaused(c, TRUE)
     \/ h.op = "resume" /\ SetPaused(c, FALSE)
     \/ h.op = "toggle" /\ TogglePaused(c)
     \/ h.op = "step"   /\ RequestStep(c)
     \/ h.op = "stop"   /\ RequestTcStop(c)
     \/ h.op = "wait"   /\ (WaitForTcQuiesced(c) \/ UNCHANGED vars)
  /\ UNCHANGED <<bpMutex, fastRun, simRuns>>

\* A write to the dashboard's own state.
DoOwn(c, h) ==
  /\ \/ h.op = "unlock" /\ bpMutex' = "free" /\ UNCHANGED <<fastRun, simRuns>>
     \/ h.op \in {"fastOn", "fastOff"} /\ fastRun' = (h.op = "fastOn")
        /\ UNCHANGED <<bpMutex, simRuns>>
     \/ h.op = "join" /\ ~Busy(Sim) /\ simRuns' = FALSE
        /\ UNCHANGED <<bpMutex, fastRun>>
  /\ UNCHANGED vars

DoNext(c) ==
  /\ todo[c] # <<>> /\ call[c] = "none"
  /\ DoClock(c, Head(todo[c])) \/ DoOwn(c, Head(todo[c]))
  /\ todo' = [todo EXCEPT ![c] = Tail(todo[c])]
  /\ UNCHANGED <<ladderIndex, bpVars>>

ClockStep == (TcNext \/ \E c \in Clients : FinishCall(c)) /\ UNCHANGED dashVars

DNext ==
  /\ UiNext \/ BreakpointHit \/ (\E c \in Clients : DoNext(c)) \/ ClockStep
  /\ stale' = (stepRequests' > 0 /\ (stale \/ ~frozen'))

DSpec == DInit /\ [][DNext]_allVars

-----------------------------------------------------------------------------
(* Properties.                                                             *)

\* Until the run ends, the two writes of setTimeScale() of one thread are never
\* interleaved with the other's: the speed keys are refused while a breakpoint
\* is armed, and its own writes are made under bpMutex (DashboardLoop.cpp:394-400).
OneSpeedWriter ==
  ~tcStopRequested /\ call[UI] = "rate" /\ call[Sim] = "rate"
    => \E i \in DOMAIN todo[UI] : todo[UI][i].op = "stop"

\* When nobody is in the middle of a call and no breakpoint is armed, the clock
\* runs at the speed the ladder shows: whatever was armed, reached, armed again
\* or cancelled, the user's speed came back (BreakpointController.cpp:11-16).
LadderMatchesClock ==
  Quiet /\ ~armed /\ simRuns => TimeScale = Ladder[ladderIndex]

\* In the dashboard the clock's manual steps never outlive the pause they were
\* asked for in, although the clock alone does not ensure it (ClockStation.cpp:74-77).
NoPhantomStepHere == [][TcDrain => ~stale]_allVars

=============================================================================
