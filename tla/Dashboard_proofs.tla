-------------------------- MODULE Dashboard_proofs --------------------------
(***************************************************************************)
(* What the clock promises whoever calls it, and what the dashboard built  *)
(* on it promises, for every set of clients, every range of scales, every  *)
(* ladder of speeds and every bound.                                       *)
(*                                                                         *)
(* The clock.  TypeOK is not inductive: leaving a frame resumes the branch *)
(* it was begun from, so the branch must be known while the frame runs.    *)
(* QuiesceIsProof is not inductive either: nothing in it forbids a frame   *)
(* to begin after the answer was given.  Stopped is the missing link --    *)
(* the first idle tick is only counted with the stop request set and the   *)
(* thread outside the frame paths, and both remain so.                     *)
(*                                                                         *)
(* The dashboard.  Its properties speak of moments at rest or of two calls *)
(* that must not meet; what is kept in between is what the lists of calls  *)
(* still to be made look like (ListInv), who holds bpMutex while a speed   *)
(* is on its way (MutexInv), that a step is only asked for in a pause      *)
(* (PauseInv), and which speed the clock is being brought to (SpeedInv).   *)
(***************************************************************************)
EXTENDS Dashboard, SequenceTheorems, TLAPS

FrameHasMode == tcPc = "frame" => tcMode # "none"

FieldsInv == FieldsOK /\ FrameHasMode

TypeInv == FlagsOK /\ FieldsInv

Stopped == tcIdleTicks > 0 => tcStopRequested /\ tcPc = "idle"

Confirmed == quiesced => tcIdleTicks >= 2

QuiesceInv == Stopped /\ Confirmed

-----------------------------------------------------------------------------
(* The clock: types, the flags and the other fields apart.                 *)

\* The flags are Booleans when the clock is built,
LEMMA InitFlags == Init => FlagsOK
  BY DEF Init, FlagsOK

\* and no call and no step of the T/C thread makes one anything else.
LEMMA FlagsStep == FlagsOK /\ [Next]_vars => FlagsOK'
<1> SUFFICES ASSUME FlagsOK, [Next]_vars PROVE FlagsOK'
  OBVIOUS
<1> USE DEF FlagsOK
<1>1. ASSUME NEW c \in Clients, ClientNext(c) PROVE FlagsOK'
  <2>1. CASE \E s \in ScaleInputs : SetTimeScale(c, s)
    BY <2>1 DEF SetTimeScale
  <2>2. CASE \E flag \in BOOLEAN : SetPaused(c, flag)
    BY <2>2 DEF SetPaused, clockVars
  <2>3. CASE TogglePaused(c)
    BY <2>3 DEF TogglePaused, SetPaused, clockVars
  <2>4. CASE RequestStep(c)
    BY <2>4 DEF RequestStep, callVars
  <2>5. CASE RequestTcStop(c)
    BY <2>5 DEF RequestTcStop, callVars
  <2>6. CASE WaitForTcQuiesced(c)
    BY <2>6 DEF WaitForTcQuiesced, callVars
  <2>7. CASE WriteRate(c)
    BY <2>7 DEF WriteRate
  <2>8. CASE DiscardSteps(c)
    BY <2>8 DEF DiscardSteps
  <2>9. CASE WriteFreeze(c)
    BY <2>9 DEF WriteFreeze
  <2> QED
    BY <1>1, <2>1, <2>2, <2>3, <2>4, <2>5, <2>6, <2>7, <2>8, <2>9
       DEF ClientNext, FinishCall
<1>2. CASE TcNext
  BY <1>2 DEF TcNext, TcIdleTick, TcEnter, TcPausedTest, TcDrain, TcScaleTest,
              TcManualStep, TcManualDone, TcNativeFrame, TcNativeDone,
              TcSlowFrame, TcEndFrame, clockVars, callVars
<1>3. CASE UNCHANGED vars
  BY <1>3 DEF vars, clockVars, callVars
<1> QED
  BY <1>1, <1>2, <1>3 DEF Next

\* The other fields start within their types.
LEMMA InitFields == Init => FieldsInv
  BY ScaleAssumption
     DEF Init, FieldsInv, FieldsOK, FrameHasMode, TcPoints, TcModes, ScaleAssumption

\* setTimeScale() rounds any scale to a whole number of frames per period.
LEMMA RoundedIsNat == ASSUME NEW s \in Nat PROVE Rounded(s) \in Nat
  BY ScaleAssumption DEF Rounded, ScaleAssumption

\* No call of the API takes a field out of its type, setTimeScale() included.
LEMMA ClientFields ==
  ASSUME FieldsInv, NEW c \in Clients, ClientNext(c)
  PROVE  FieldsInv'
<1> USE DEF FieldsInv, FieldsOK, FrameHasMode
<1>1. CASE \E s \in ScaleInputs : SetTimeScale(c, s)
  <2>1. PICK s \in ScaleInputs : SetTimeScale(c, s)
    BY <1>1
  <2>2. s \in Nat /\ MinScale <= s
    BY <2>1, ScaleAssumption DEF SetTimeScale, Accepted, ScaleAssumption
  <2>3. Rounded(s) \in Nat
    BY <2>2, RoundedIsNat
  <2>4. slowFactor' \in 1 .. RealTime
    BY <2>1, <2>2, ScaleAssumption DEF SetTimeScale, ScaleAssumption
  <2> QED
    BY <2>1, <2>3, <2>4 DEF SetTimeScale, tcVars
<1>2. CASE \E flag \in BOOLEAN : SetPaused(c, flag)
  BY <1>2 DEF SetPaused, clockVars, tcVars
<1>3. CASE TogglePaused(c)
  BY <1>3 DEF TogglePaused, SetPaused, clockVars, tcVars
<1>4. CASE RequestStep(c)
  BY <1>4 DEF RequestStep, callVars, tcVars
<1>5. CASE RequestTcStop(c)
  BY <1>5 DEF RequestTcStop, callVars, tcVars
<1>6. CASE WaitForTcQuiesced(c)
  BY <1>6 DEF WaitForTcQuiesced, callVars, tcVars
<1>7. CASE WriteRate(c)
  BY <1>7 DEF WriteRate, tcVars
<1>8. CASE DiscardSteps(c)
  BY <1>8 DEF DiscardSteps, tcVars
<1>9. CASE WriteFreeze(c)
  BY <1>9 DEF WriteFreeze, tcVars
<1> QED
  BY <1>1, <1>2, <1>3, <1>4, <1>5, <1>6, <1>7, <1>8, <1>9 DEF ClientNext, FinishCall

\* Neither does a step of the T/C thread.
LEMMA TcFields ==
  ASSUME FieldsInv, TcNext
  PROVE  FieldsInv'
<1> USE ScaleAssumption
    DEF ScaleAssumption, FieldsInv, FieldsOK, FrameHasMode,
        TcPoints, TcModes, clockVars, callVars
<1>1. CASE TcIdleTick    BY <1>1 DEF TcIdleTick, tcVars
<1>2. CASE TcEnter       BY <1>2 DEF TcEnter
<1>3. CASE TcPausedTest  BY <1>3 DEF TcPausedTest
<1>4. CASE TcDrain       BY <1>4 DEF TcDrain
<1>5. CASE TcScaleTest   BY <1>5 DEF TcScaleTest
<1>6. CASE TcManualStep  BY <1>6 DEF TcManualStep, BeginFrame
<1>7. CASE TcManualDone  BY <1>7 DEF TcManualDone
<1>8. CASE TcNativeFrame BY <1>8 DEF TcNativeFrame, BeginFrame
<1>9. CASE TcNativeDone  BY <1>9 DEF TcNativeDone
<1>10. CASE TcSlowFrame  BY <1>10 DEF TcSlowFrame, BeginFrame
<1>11. CASE TcEndFrame   BY <1>11 DEF TcEndFrame
<1> QED
  BY <1>1, <1>2, <1>3, <1>4, <1>5, <1>6, <1>7, <1>8, <1>9, <1>10, <1>11 DEF TcNext

\* No step, of a caller or of the T/C thread, takes one out of its type.
LEMMA FieldsStep == FieldsInv /\ [Next]_vars => FieldsInv'
<1> SUFFICES ASSUME FieldsInv, [Next]_vars PROVE FieldsInv'
  OBVIOUS
<1>1. CASE TcNext
  BY <1>1, TcFields
<1>2. CASE \E c \in Clients : ClientNext(c)
  BY <1>2, ClientFields
<1>3. CASE UNCHANGED vars
  BY <1>3 DEF FieldsInv, FieldsOK, FrameHasMode, vars, clockVars, callVars, tcVars
<1> QED
  BY <1>1, <1>2, <1>3 DEF Next

\* The types, with the mode of the frame in progress, are an invariant.
LEMMA TypeInvHolds == Spec => []TypeInv
<1>1. Spec => []FlagsOK
  BY InitFlags, FlagsStep, PTL DEF Spec
<1>2. Spec => []FieldsInv
  BY InitFields, FieldsStep, PTL DEF Spec
<1> QED
  BY <1>1, <1>2, PTL DEF TypeInv

\* Every field keeps its type whatever is asked of the API; in particular the
\* factor of slow motion never leaves ]0, 1x] (ClockStation.cpp:50-62).
THEOREM TypeCorrect == Spec => []TypeOK
<1>1. TypeInv => TypeOK
  BY DEF TypeInv, FieldsInv, TypeOK
<1> QED
  BY <1>1, TypeInvHolds, PTL

-----------------------------------------------------------------------------
(* The stop request and its confirmation.                                  *)

\* Nothing is confirmed when the clock is built.
LEMMA InitQuiesceInv == Init => QuiesceInv
  BY DEF Init, QuiesceInv, Stopped, Confirmed

\* Among the calls, only requestTcStop() and the positive answer matter, and
\* no call lowers a stop request.
LEMMA ClientQuiesceInv ==
  ASSUME QuiesceInv, NEW c \in Clients, ClientNext(c)
  PROVE  QuiesceInv'
<1> USE DEF QuiesceInv, Stopped, Confirmed
<1>1. CASE RequestTcStop(c)
  BY <1>1 DEF RequestTcStop, tcVars
<1>2. CASE WaitForTcQuiesced(c)
  BY <1>2 DEF WaitForTcQuiesced, tcVars
<1>3. CASE ~(RequestTcStop(c) \/ WaitForTcQuiesced(c))
  <2>1. UNCHANGED <<tcStopRequested, tcIdleTicks, quiesced, tcPc>>
    BY <1>3 DEF ClientNext, FinishCall, SetTimeScale, SetPaused, TogglePaused,
                RequestStep, WriteRate, DiscardSteps, WriteFreeze, clockVars, tcVars
  <2> QED BY <2>1
<1> QED
  BY <1>1, <1>2, <1>3

\* Once an idle tick was counted the T/C thread can only count more of them.
LEMMA TcQuiesceInv ==
  ASSUME TypeInv, QuiesceInv, TcNext
  PROVE  QuiesceInv'
<1> USE DEF QuiesceInv, Stopped, Confirmed
<1>1. CASE TcIdleTick
  BY <1>1, BoundAssumption
     DEF TcIdleTick, tcVars, TypeInv, FieldsInv, FieldsOK, BoundAssumption
<1>2. CASE TcEnter
  BY <1>2 DEF TcEnter, clockVars
<1>3. CASE ~(TcIdleTick \/ TcEnter)
  <2>1. tcPc # "idle"
    BY <1>3 DEF TcNext, TcPausedTest, TcDrain, TcScaleTest, TcManualStep,
                TcManualDone, TcNativeFrame, TcNativeDone, TcSlowFrame, TcEndFrame
  <2>2. UNCHANGED <<tcStopRequested, tcIdleTicks, quiesced>>
    BY <1>3 DEF TcNext, TcPausedTest, TcDrain, TcScaleTest, TcManualStep,
                TcManualDone, TcNativeFrame, TcNativeDone, TcSlowFrame, TcEndFrame,
                clockVars
  <2> QED BY <2>1, <2>2
<1> QED
  BY <1>1, <1>2, <1>3

\* No step of anyone undoes the link between idle ticks and the answer.
LEMMA QuiesceInvStep == TypeInv /\ QuiesceInv /\ [Next]_vars => QuiesceInv'
<1> SUFFICES ASSUME TypeInv, QuiesceInv, [Next]_vars PROVE QuiesceInv'
  OBVIOUS
<1>1. CASE TcNext
  BY <1>1, TcQuiesceInv
<1>2. CASE \E c \in Clients : ClientNext(c)
  BY <1>2, ClientQuiesceInv
<1>3. CASE UNCHANGED vars
  BY <1>3 DEF QuiesceInv, Stopped, Confirmed, vars, clockVars, tcVars
<1> QED
  BY <1>1, <1>2, <1>3 DEF Next

\* Idle ticks are counted with the stop requested and the thread at rest.
LEMMA QuiesceInvHolds == Spec => []QuiesceInv
  BY InitQuiesceInv, QuiesceInvStep, TypeInvHolds, PTL DEF Spec

\* The positive answer of waitForTcQuiesced() is final: whoever got it may tear
\* the simulation down, no frame is in progress and none begins any more
\* (ClockStation.cpp:105-123).
THEOREM QuiesceSafe == Spec => []QuiesceIsProof
<1>1. TypeInv /\ QuiesceInv => QuiesceIsProof
  BY DEF TypeInv, FieldsInv, FieldsOK, QuiesceInv, Stopped, Confirmed, QuiesceIsProof
<1> QED
  BY <1>1, TypeInvHolds, QuiesceInvHolds, PTL

-----------------------------------------------------------------------------
(* The integration step.                                                   *)

\* No write of the factor or of the rate, and no read of them, stretches a step.
LEMMA StepStep == TypeInv /\ StepNeverStretched /\ [Next]_vars => StepNeverStretched'
<1> SUFFICES ASSUME TypeInv, StepNeverStretched, [Next]_vars
             PROVE  StepNeverStretched'
  OBVIOUS
<1> USE DEF StepNeverStretched
<1>1. CASE TcManualStep \/ TcNativeFrame
  BY <1>1, ScaleAssumption
     DEF TcManualStep, TcNativeFrame, BeginFrame, ScaleAssumption
<1>2. CASE TcSlowFrame
  BY <1>2, ScaleAssumption
     DEF TcSlowFrame, BeginFrame, ScaleAssumption, TypeInv, FieldsInv, FieldsOK
<1>3. CASE TcEndFrame
  BY <1>3 DEF TcEndFrame, TypeInv, FieldsInv, FieldsOK, FrameHasMode, TcModes
<1>4. CASE TcIdleTick \/ TcEnter \/ TcPausedTest \/ TcDrain \/ TcScaleTest
           \/ TcManualDone \/ TcNativeDone
  BY <1>4 DEF TcIdleTick, TcEnter, TcPausedTest, TcDrain, TcScaleTest,
              TcManualDone, TcNativeDone, tcVars
<1>5. CASE \E c \in Clients : ClientNext(c)
  BY <1>5 DEF ClientNext, FinishCall, SetTimeScale, SetPaused, TogglePaused,
              RequestStep, RequestTcStop, WaitForTcQuiesced, WriteRate,
              DiscardSteps, WriteFreeze, tcVars
<1>6. CASE UNCHANGED vars
  BY <1>6 DEF vars, tcVars
<1> QED
  BY <1>1, <1>2, <1>3, <1>4, <1>5, <1>6 DEF Next, TcNext

\* Slow motion shortens the integration step and nothing stretches it, even when
\* the scale changes between the two reads of slowFactor
\* (ClockStation.cpp:165-173): accuracy is never traded for speed.
THEOREM StepBounded == Spec => []StepNeverStretched
<1>1. Init => StepNeverStretched
  BY DEF Init, StepNeverStretched
<1> QED
  BY <1>1, StepStep, TypeInvHolds, PTL DEF Spec

-----------------------------------------------------------------------------
(* The clock implements the abstract gate.                                 *)

\* Every step of the clock is a step of the gate or a stutter of it.
LEMMA GateStep == TypeInv /\ QuiesceInv /\ [Next]_vars => [Gate!Next]_(Gate!vars)
<1> SUFFICES ASSUME TypeInv, QuiesceInv, [Next]_vars
             PROVE  [Gate!Next]_(Gate!vars)
  OBVIOUS
<1> USE DEF Gate!vars, Gate!Next, Gate!BeginFrame, Gate!EndFrame, Gate!Confirm
<1>1. CASE TcManualStep \/ TcNativeFrame \/ TcSlowFrame
  <2>1. tcPc # "idle" /\ tcPc # "frame" /\ tcPc' = "frame" /\ UNCHANGED quiesced
    BY <1>1 DEF TcManualStep, TcNativeFrame, TcSlowFrame, BeginFrame, clockVars
  <2>2. ~quiesced
    BY <2>1 DEF TypeInv, FieldsInv, FieldsOK, QuiesceInv, Stopped, Confirmed
  <2> QED BY <2>1, <2>2
<1>2. CASE TcEndFrame
  BY <1>2 DEF TcEndFrame, clockVars, TypeInv, FieldsInv, FieldsOK, FrameHasMode, TcModes
<1>3. CASE TcIdleTick \/ TcEnter \/ TcPausedTest \/ TcDrain \/ TcScaleTest
           \/ TcManualDone \/ TcNativeDone
  BY <1>3 DEF TcIdleTick, TcEnter, TcPausedTest, TcDrain, TcScaleTest,
              TcManualDone, TcNativeDone, clockVars, tcVars
<1>4. CASE \E c \in Clients : WaitForTcQuiesced(c)
  <2>1. tcPc = "idle" /\ quiesced' = TRUE /\ tcPc' = tcPc
    BY <1>4 DEF WaitForTcQuiesced, tcVars, TypeInv, FieldsInv, FieldsOK, QuiesceInv, Stopped
  <2> QED BY <2>1
<1>5. CASE \E c \in Clients : ClientNext(c) /\ ~WaitForTcQuiesced(c)
  BY <1>5 DEF ClientNext, FinishCall, SetTimeScale, SetPaused, TogglePaused,
              RequestStep, RequestTcStop, WriteRate, DiscardSteps, WriteFreeze,
              clockVars, tcVars
<1>6. CASE UNCHANGED vars
  BY <1>6 DEF vars, clockVars, tcVars
<1> QED
  BY <1>1, <1>2, <1>3, <1>4, <1>5, <1>6 DEF Next, TcNext

\* ClockStation implements TcGate: two atomics and a thread that tests one of
\* them at the top of its period give the promise the shutdown relies on.
THEOREM GateRefined == Spec => GateSpec
<1>1. Init => Gate!Init
  BY DEF Init, Gate!Init
<1> QED
  BY <1>1, GateStep, TypeInvHolds, QuiesceInvHolds, PTL
     DEF Spec, GateSpec, Gate!Spec

-----------------------------------------------------------------------------
(* The dashboard.  Speeds are always those of the ladder.                  *)

Speeds == {Ladder[i] : i \in DOMAIN Ladder}

Ops == [op  : {"scale", "pause", "resume", "toggle", "step", "stop", "wait", "unlock",
               "fastOn", "fastOff", "join"},
        arg : Speeds \cup {0}]

\* The list u asks for an operation k; it asks for no speed but s.
Asks(u, k) == \E i \in DOMAIN u : u[i].op = k

AsksOnly(u, s) == \A i \in DOMAIN u : u[i].op = "scale" => u[i].arg = s

\* What is still to be done for a key: the speed is set before the mutex is
\* released and before the stop, a step comes last and after a pause only, the
\* join comes last.
UiShape(u) ==
  /\ \A i \in DOMAIN u : u[i].op = "scale" => u[i].arg \in Speeds
  /\ \A i, j \in DOMAIN u : i < j =>
       /\ u[i].op = "unlock" => u[j].op \notin {"scale", "unlock"}
       /\ u[i].op = "stop" => u[j].op # "scale"
       /\ u[i].op \notin {"join", "step"}
       /\ u[j].op = "step" => u[i].op = "pause"

\* What is still to be done for a hit: everything up to the release of the mutex.
SimShape(v) ==
  \A i \in DOMAIN v : /\ v[i].op \in {"scale", "pause", "fastOff", "unlock"}
                      /\ v[i].op = "scale" => v[i].arg \in Speeds
                      /\ v[i].op = "unlock" <=> i = Len(v)

\* c has still to write a speed, or one half of it.
Speeding(c) == Asks(todo[c], "scale") \/ call[c] = "rate"

\* The teardown has begun.
Ending == ~simRuns \/ Asks(todo[UI], "join")

DashTypeOK ==
  /\ todo \in [Clients -> Seq(Ops)]
  /\ ladderIndex \in DOMAIN Ladder /\ restoreScale \in Speeds
  /\ armed \in BOOLEAN /\ fastMode \in BOOLEAN /\ hit \in BOOLEAN
  /\ bpMutex \in {"free", UI, Sim} /\ fastRun \in BOOLEAN /\ simRuns \in BOOLEAN

ListInv == UiShape(todo[UI]) /\ SimShape(todo[Sim])

\* Who writes a speed holds bpMutex, or no breakpoint can be reached meanwhile.
MutexInv ==
  /\ bpMutex = UI <=> Asks(todo[UI], "unlock")
  /\ bpMutex = Sim <=> todo[Sim] # <<>>
  /\ call[Sim] # "none" => todo[Sim] # <<>>
  /\ Speeding(UI) /\ ~Ending => bpMutex = UI \/ (bpMutex = "free" /\ ~armed)
  /\ Speeding(UI) /\ Ending => Asks(todo[UI], "stop")
  /\ ~simRuns => todo[UI] = <<>> /\ call[UI] = "none"

\* A step is only pending while the simulation is paused.
PauseInv ==
  /\ call[Sim] \in {"discard", "freeze"} => argFlag[Sim]
  /\ stepRequests > 0 => frozen /\ (call[UI] = "freeze" => argFlag[UI])
  /\ todo[UI] # <<>> /\ todo[UI][1].op = "step"
       => \/ call[UI] = "none" /\ frozen
          \/ call[UI] \in {"discard", "freeze"} /\ argFlag[UI]
  /\ ~stale

\* What setTimeScale(s) writes.
Factor(s) == IF s >= RealTime THEN RealTime ELSE s
Rate(s)   == IF s >= RealTime THEN Rounded(s) ELSE 1

\* The clock runs at s, or is being brought there.
Heading(s) ==
  /\ \A c \in Clients : AsksOnly(todo[c], s)
  /\ \A c \in Clients : call[c] = "rate" => slowFactor = Factor(s) /\ argRate[c] = Rate(s)
  /\ (\A c \in Clients : ~Speeding(c)) => slowFactor = Factor(s) /\ fastForwardRate = Rate(s)

\* The speed the user should see.
Target == IF armed /\ fastMode THEN MaxSpeed ELSE Ladder[ladderIndex]

SpeedInv ==
  ~Ending => \E s \in Speeds :
    /\ Heading(s)
    /\ ~MayChangeMode => s = Target /\ (armed => restoreScale = Ladder[ladderIndex])

DashInv == DashTypeOK /\ ListInv /\ MutexInv /\ PauseInv /\ SpeedInv

-----------------------------------------------------------------------------
(* Lists of calls.                                                         *)

\* Every speed of the ladder is one callers may ask for, and one the clock keeps.
LEMMA SpeedsKept ==
  /\ Speeds \subseteq ScaleInputs /\ Speeds \subseteq Nat
  /\ RealTime \in Speeds /\ MaxSpeed \in Speeds
  /\ \A s \in Speeds : s > 0 /\ Kept(s)
<1>1. Ladder \in Seq(ScaleInputs) /\ RealTimeIndex \in DOMAIN Ladder
      /\ Ladder[RealTimeIndex] = RealTime
  BY DashboardAssumption DEF DashboardAssumption
<1>2. DOMAIN Ladder = 1 .. Len(Ladder) /\ Len(Ladder) \in Nat
      /\ Len(Ladder) \in DOMAIN Ladder
  BY <1>1
<1>3. \A i \in DOMAIN Ladder : Ladder[i] \in ScaleInputs
  BY <1>1
<1>4. \A i \in DOMAIN Ladder : Ladder[i] \in Nat /\ Ladder[i] > 0
  <2>1. \A i \in DOMAIN Ladder : Accepted(Ladder[i])
    BY DashboardAssumption DEF DashboardAssumption
  <2>2. MinScale \in Nat \ {0} /\ ScaleInputs \subseteq Nat
    BY ScaleAssumption DEF ScaleAssumption
  <2>3. \A s \in Nat : Accepted(s) => s > 0
    BY <2>2 DEF Accepted
  <2>4. \A i \in DOMAIN Ladder : Ladder[i] \in Nat
    BY <1>3, <2>2
  <2> QED BY <2>1, <2>3, <2>4
<1>5. \A i \in DOMAIN Ladder : Kept(Ladder[i])
  BY DashboardAssumption DEF DashboardAssumption
<1> QED
  BY <1>1, <1>2, <1>3, <1>4, <1>5 DEF Speeds, MaxSpeed

\* What a list still asks for when its first call was made.
LEMMA TailOf ==
  ASSUME NEW u \in Seq(Ops), u # <<>>
  PROVE  /\ Head(u) = u[1] /\ u[1] \in Ops /\ 1 \in DOMAIN u
         /\ Tail(u) \in Seq(Ops) /\ Len(Tail(u)) = Len(u) - 1
         /\ DOMAIN u = 1 .. Len(u) /\ DOMAIN Tail(u) = 1 .. (Len(u) - 1)
         /\ Len(u) \in Nat \ {0}
         /\ \A i \in DOMAIN Tail(u) : i + 1 \in DOMAIN u /\ Tail(u)[i] = u[i + 1]
<1>1. Len(u) \in Nat \ {0} /\ DOMAIN u = 1 .. Len(u)
  BY EmptySeq
<1>2. Tail(u) \in Seq(Ops) /\ Len(Tail(u)) = Len(u) - 1 /\ Head(u) = u[1]
      /\ \A i \in 1 .. Len(Tail(u)) : Tail(u)[i] = u[i + 1]
  BY HeadTailProperties
<1>3. DOMAIN Tail(u) = 1 .. (Len(u) - 1)
  BY <1>2
<1>4. u[1] \in Ops /\ 1 \in DOMAIN u
  BY <1>1
<1> QED
  BY <1>1, <1>2, <1>3, <1>4

\* It asks for the first call and for what the rest asks for.
LEMMA TailAsks ==
  ASSUME NEW u \in Seq(Ops), u # <<>>
  PROVE  /\ \A k : Asks(u, k) <=> u[1].op = k \/ Asks(Tail(u), k)
         /\ \A s : AsksOnly(u, s) => AsksOnly(Tail(u), s)
<1>1. \A k : Asks(Tail(u), k) => Asks(u, k)
  BY TailOf DEF Asks
<1>2. \A k : Asks(u, k) => u[1].op = k \/ Asks(Tail(u), k)
  <2> SUFFICES ASSUME NEW k, NEW i \in DOMAIN u, u[i].op = k, i # 1
               PROVE  Asks(Tail(u), k)
    BY DEF Asks
  <2>1. i - 1 \in DOMAIN Tail(u) /\ (i - 1) + 1 = i
    BY TailOf
  <2>2. Tail(u)[i - 1] = u[i]
    BY <2>1, TailOf
  <2> QED BY <2>1, <2>2 DEF Asks
<1>3. \A k : u[1].op = k => Asks(u, k)
  BY TailOf DEF Asks
<1>4. \A s : AsksOnly(u, s) => AsksOnly(Tail(u), s)
  BY TailOf DEF AsksOnly
<1> QED BY <1>1, <1>2, <1>3, <1>4

\* The list of a key keeps its shape call after call.
LEMMA TailUiShape ==
  ASSUME NEW u \in Seq(Ops), u # <<>>, UiShape(u)
  PROVE  /\ UiShape(Tail(u))
         /\ u[1].op = "scale" => u[1].arg \in Speeds
         /\ u[1].op = "unlock" => ~Asks(Tail(u), "scale") /\ ~Asks(Tail(u), "unlock")
         /\ u[1].op = "stop" => ~Asks(Tail(u), "scale")
         /\ u[1].op \in {"join", "step"} => Tail(u) = <<>>
         /\ Tail(u) # <<>> /\ Tail(u)[1].op = "step" => u[1].op = "pause"
<1>1. UiShape(Tail(u))
  <2>1. \A i \in DOMAIN Tail(u) : Tail(u)[i].op = "scale" => Tail(u)[i].arg \in Speeds
    BY TailOf DEF UiShape
  <2>2. ASSUME NEW i \in DOMAIN Tail(u), NEW j \in DOMAIN Tail(u), i < j
        PROVE  /\ i + 1 \in DOMAIN u /\ j + 1 \in DOMAIN u /\ i + 1 < j + 1
               /\ Tail(u)[i] = u[i + 1] /\ Tail(u)[j] = u[j + 1]
    BY <2>2, TailOf
  <2> QED BY <2>1, <2>2 DEF UiShape
<1>2. \A i \in DOMAIN Tail(u) :
        /\ Tail(u)[i] = u[i + 1] /\ i + 1 \in DOMAIN u /\ 1 \in DOMAIN u /\ 1 < i + 1
  BY TailOf
<1>3. u[1].op = "unlock" => ~Asks(Tail(u), "scale") /\ ~Asks(Tail(u), "unlock")
  BY <1>2 DEF UiShape, Asks
<1>4. u[1].op = "stop" => ~Asks(Tail(u), "scale")
  BY <1>2 DEF UiShape, Asks
<1>5. DOMAIN Tail(u) = {} <=> Tail(u) = <<>>
  BY TailOf, EmptySeq
<1>6. Tail(u) # <<>> => 1 \in DOMAIN Tail(u)
  BY TailOf, EmptySeq
<1>7. u[1].op \in {"join", "step"} => Tail(u) = <<>>
  BY <1>2, <1>6 DEF UiShape
<1>8. Tail(u) # <<>> /\ Tail(u)[1].op = "step" => u[1].op = "pause"
  BY <1>2, <1>6 DEF UiShape
<1>9. u[1].op = "scale" => u[1].arg \in Speeds
  BY TailOf DEF UiShape
<1> QED BY <1>1, <1>3, <1>4, <1>7, <1>8, <1>9

\* So does the list of a hit, which ends with the release of the mutex.
LEMMA TailSimShape ==
  ASSUME NEW v \in Seq(Ops), v # <<>>, SimShape(v)
  PROVE  /\ SimShape(Tail(v))
         /\ v[1].op \in {"scale", "pause", "fastOff", "unlock"}
         /\ v[1].op = "scale" => v[1].arg \in Speeds
         /\ v[1].op = "unlock" <=> Tail(v) = <<>>
<1>1. SimShape(Tail(v))
  <2> SUFFICES ASSUME NEW i \in DOMAIN Tail(v)
               PROVE  /\ Tail(v)[i].op \in {"scale", "pause", "fastOff", "unlock"}
                      /\ Tail(v)[i].op = "scale" => Tail(v)[i].arg \in Speeds
                      /\ Tail(v)[i].op = "unlock" <=> i = Len(Tail(v))
    BY DEF SimShape
  <2>1. i + 1 \in DOMAIN v /\ Tail(v)[i] = v[i + 1]
    BY TailOf
  <2>2. i = Len(Tail(v)) <=> i + 1 = Len(v)
    BY TailOf
  <2> QED BY <2>1, <2>2 DEF SimShape
<1>2. 1 = Len(v) <=> Tail(v) = <<>>
  <2>1. Tail(v) \in Seq(Ops) /\ Len(Tail(v)) = Len(v) - 1 /\ Len(v) \in Nat
    BY TailOf
  <2>2. Tail(v) = <<>> <=> Len(Tail(v)) = 0
    BY <2>1, EmptySeq
  <2> QED BY <2>1, <2>2
<1> QED
  BY <1>1, <1>2, TailOf DEF SimShape

\* One more call at the end of a list.
LEMMA Appended ==
  ASSUME NEW u \in Seq(Ops), NEW x \in Ops
  PROVE  /\ u \o <<x>> \in Seq(Ops) /\ Len(u \o <<x>>) = Len(u) + 1
         /\ Len(u) \in Nat /\ DOMAIN u = 1 .. Len(u)
         /\ DOMAIN (u \o <<x>>) = 1 .. (Len(u) + 1)
         /\ \A i \in DOMAIN u : (u \o <<x>>)[i] = u[i]
         /\ (u \o <<x>>)[Len(u) + 1] = x
<1>1. <<x>> \in Seq(Ops) /\ Len(<<x>>) = 1 /\ <<x>>[1] = x
  OBVIOUS
<1>2. Len(u) \in Nat /\ DOMAIN u = 1 .. Len(u)
  OBVIOUS
<1>3. /\ u \o <<x>> \in Seq(Ops) /\ Len(u \o <<x>>) = Len(u) + 1
      /\ \A i \in 1 .. Len(u) + 1 :
           (u \o <<x>>)[i] = IF i <= Len(u) THEN u[i] ELSE <<x>>[i - Len(u)]
  BY <1>1, ConcatProperties
<1>4. DOMAIN (u \o <<x>>) = 1 .. (Len(u) + 1)
  BY <1>2, <1>3
<1>5. \A i \in DOMAIN u : (u \o <<x>>)[i] = u[i]
  BY <1>2, <1>3
<1>6. (u \o <<x>>)[Len(u) + 1] = <<x>>[1]
  BY <1>2, <1>3
<1> QED
  BY <1>1, <1>2, <1>3, <1>4, <1>5, <1>6

\* What the longer list asks for,
LEMMA AppendedAsks ==
  ASSUME NEW u \in Seq(Ops), NEW x \in Ops
  PROVE  /\ \A k : Asks(u \o <<x>>, k) <=> Asks(u, k) \/ x.op = k
         /\ \A s : AsksOnly(u \o <<x>>, s)
                   <=> AsksOnly(u, s) /\ (x.op = "scale" => x.arg = s)
<1> DEFINE w == u \o <<x>>
<1> HIDE DEF w
<1>1. /\ DOMAIN u = 1 .. Len(u) /\ Len(u) \in Nat
      /\ DOMAIN w = 1 .. (Len(u) + 1)
      /\ \A i \in DOMAIN u : w[i] = u[i]
      /\ w[Len(u) + 1] = x
  BY Appended DEF w
<1>2. Len(u) + 1 \in DOMAIN w /\ \A i \in DOMAIN w : i \in DOMAIN u \/ i = Len(u) + 1
  BY <1>1
<1>3. DOMAIN u \subseteq DOMAIN w
  BY <1>1
<1>4. \A k : Asks(w, k) <=> Asks(u, k) \/ x.op = k
  BY <1>1, <1>2, <1>3 DEF Asks
<1>5. \A s : AsksOnly(w, s) <=> AsksOnly(u, s) /\ (x.op = "scale" => x.arg = s)
  BY <1>1, <1>2, <1>3 DEF AsksOnly
<1> QED BY <1>4, <1>5 DEF w

\* and when it is the list of a key
LEMMA AppendedUiShape ==
  ASSUME NEW u \in Seq(Ops), NEW x \in Ops, UiShape(u),
         x.op = "scale" => x.arg \in Speeds,
         x.op = "scale" => ~Asks(u, "unlock") /\ ~Asks(u, "stop"),
         x.op = "unlock" => ~Asks(u, "unlock"),
         ~Asks(u, "join"), ~Asks(u, "step"),
         x.op = "step" => \A i \in DOMAIN u : u[i].op = "pause"
  PROVE  UiShape(u \o <<x>>)
<1> DEFINE w == u \o <<x>>
<1> HIDE DEF w
<1>1. /\ DOMAIN u = 1 .. Len(u) /\ Len(u) \in Nat
      /\ DOMAIN w = 1 .. (Len(u) + 1)
      /\ \A i \in DOMAIN u : w[i] = u[i]
      /\ w[Len(u) + 1] = x
  BY Appended DEF w
<1>2. \A i \in DOMAIN w : w[i].op = "scale" => w[i].arg \in Speeds
  <2>1. \A i \in DOMAIN w : i \in DOMAIN u \/ i = Len(u) + 1
    BY <1>1
  <2> QED BY <1>1, <2>1 DEF UiShape
<1>3. ASSUME NEW i \in DOMAIN w, NEW j \in DOMAIN w, i < j
      PROVE  /\ w[i].op = "unlock" => w[j].op \notin {"scale", "unlock"}
             /\ w[i].op = "stop" => w[j].op # "scale"
             /\ w[i].op \notin {"join", "step"}
             /\ w[j].op = "step" => w[i].op = "pause"
  <2>1. i \in DOMAIN u /\ w[i] = u[i]
    BY <1>1, <1>3
  <2>2. CASE j \in DOMAIN u
    BY <2>1, <2>2, <1>1, <1>3 DEF UiShape
  <2>3. CASE j = Len(u) + 1
    BY <2>1, <2>3, <1>1 DEF Asks
  <2> QED BY <2>2, <2>3, <1>1
<1> QED BY <1>2, <1>3 DEF UiShape, w

\* u is the list of a key: it asks for the operations K, and for the speed s.
IsKeyList(u, K, s) ==
  /\ u \in Seq(Ops) /\ UiShape(u) /\ AsksOnly(u, s)
  /\ \A k : Asks(u, k) <=> k \in K

\* The shortest ones,
LEMMA ShortLists ==
  /\ \A s : IsKeyList(<<>>, {}, s)
  /\ \A s \in Speeds : IsKeyList(CallScale(s), {"scale"}, s)
  /\ \A f \in {"resume", "toggle", "step", "pause", "fastOff"}, s \in Speeds :
       IsKeyList(Call(f), {f}, s)
<1>1. \A s : IsKeyList(<<>>, {}, s)
  BY DEF IsKeyList, UiShape, Asks, AsksOnly
<1>2. ASSUME NEW x \in Ops, NEW s \in Speeds, x.op = "scale" => x.arg = s
      PROVE  IsKeyList(<<x>>, {x.op}, s)
  <2>1. <<x>> \in Seq(Ops) /\ DOMAIN <<x>> = {1} /\ <<x>>[1] = x
    OBVIOUS
  <2> QED BY <1>2, <2>1 DEF IsKeyList, UiShape, Asks, AsksOnly
<1>3. ASSUME NEW s \in Speeds PROVE IsKeyList(CallScale(s), {"scale"}, s)
  <2>1. [op |-> "scale", arg |-> s] \in Ops
    BY DEF Ops
  <2> QED BY <2>1, <1>2 DEF CallScale
<1>4. ASSUME NEW f \in {"resume", "toggle", "step", "pause", "fastOff"}, NEW s \in Speeds
      PROVE  IsKeyList(Call(f), {f}, s)
  <2>1. [op |-> f, arg |-> 0] \in Ops /\ [op |-> f, arg |-> 0].op = f /\ f # "scale"
    BY DEF Ops
  <2>2. IsKeyList(<<[op |-> f, arg |-> 0]>>, {[op |-> f, arg |-> 0].op}, s)
    BY <2>1, <1>2
  <2> QED BY <2>1, <2>2 DEF Call
<1> QED BY <1>1, <1>3, <1>4

\* and how a longer one is put together.
LEMMA LongerList ==
  ASSUME NEW u, NEW K, NEW s, IsKeyList(u, K, s),
         NEW f \in {"pause", "resume", "step", "stop", "wait", "unlock", "fastOn",
                    "fastOff", "join"},
         "join" \notin K, "step" \notin K,
         f = "unlock" => "unlock" \notin K,
         f = "step" => K = {"pause"}
  PROVE  IsKeyList(u \o Call(f), K \cup {f}, s)
<1> DEFINE x == [op |-> f, arg |-> 0]
<1>1. x \in Ops /\ x.op = f /\ Call(f) = <<x>> /\ f # "scale"
  BY DEF Ops, Call
<1>2. u \in Seq(Ops) /\ UiShape(u) /\ AsksOnly(u, s) /\ \A k : Asks(u, k) <=> k \in K
  BY DEF IsKeyList
<1> HIDE DEF x
<1>3. f = "step" => \A i \in DOMAIN u : u[i].op = "pause"
  BY <1>2 DEF Asks
<1>4. UiShape(u \o <<x>>)
  BY <1>1, <1>2, <1>3, AppendedUiShape
<1>5. u \o <<x>> \in Seq(Ops)
  BY <1>1, <1>2, Appended
<1>6. AsksOnly(u \o <<x>>, s) /\ \A k : Asks(u \o <<x>>, k) <=> k \in K \cup {f}
  BY <1>1, <1>2, AppendedAsks
<1> QED BY <1>1, <1>4, <1>5, <1>6 DEF IsKeyList

\* The list of each key.
LEMMA KeyLists ==
  ASSUME NEW s \in Speeds
  PROVE  /\ IsKeyList(Call("resume") \o CallScale(s), {"resume", "scale"}, s)
         /\ IsKeyList(Call("pause") \o Call("step"), {"pause", "step"}, s)
         /\ \A f \in {"fastOn", "fastOff"} :
              /\ IsKeyList(<<>> \o Call("unlock") \o Call(f) \o Call("resume"),
                           {"unlock", f, "resume"}, s)
              /\ IsKeyList(CallScale(s) \o Call("unlock") \o Call(f) \o Call("resume"),
                           {"scale", "unlock", f, "resume"}, s)
         /\ IsKeyList(<<>> \o Call("fastOff") \o Call("unlock"), {"fastOff", "unlock"}, s)
         /\ IsKeyList(CallScale(s) \o Call("fastOff") \o Call("unlock"),
                      {"scale", "fastOff", "unlock"}, s)
         /\ IsKeyList(CallScale(s) \o Call("stop") \o Call("wait") \o Call("join"),
                      {"scale", "stop", "wait", "join"}, s)
<1>1. IsKeyList(Call("resume") \o CallScale(s), {"resume", "scale"}, s)
  <2> DEFINE u == Call("resume")
             x == [op |-> "scale", arg |-> s]
  <2>1. IsKeyList(u, {"resume"}, s)
    BY ShortLists
  <2>2. x \in Ops /\ x.op = "scale" /\ x.arg = s /\ CallScale(s) = <<x>>
    BY DEF Ops, CallScale
  <2> HIDE DEF u, x
  <2>3. u \in Seq(Ops) /\ UiShape(u) /\ AsksOnly(u, s)
        /\ \A k : Asks(u, k) <=> k \in {"resume"}
    BY <2>1 DEF IsKeyList
  <2>4. UiShape(u \o <<x>>)
    BY <2>2, <2>3, AppendedUiShape
  <2>5. u \o <<x>> \in Seq(Ops)
    BY <2>2, <2>3, Appended
  <2>6. AsksOnly(u \o <<x>>, s) /\ \A k : Asks(u \o <<x>>, k) <=> k \in {"resume", "scale"}
    BY <2>2, <2>3, AppendedAsks
  <2>7. IsKeyList(u \o CallScale(s), {"resume", "scale"}, s)
    BY <2>2, <2>4, <2>5, <2>6 DEF IsKeyList
  <2> QED BY <2>7 DEF u
<1>2. IsKeyList(Call("pause") \o Call("step"), {"pause", "step"}, s)
  <2>1. IsKeyList(Call("pause"), {"pause"}, s)
    BY ShortLists
  <2>2. IsKeyList(Call("pause") \o Call("step"), {"pause"} \cup {"step"}, s)
    BY <2>1, LongerList
  <2>3. {"pause"} \cup {"step"} = {"pause", "step"}
    OBVIOUS
  <2> QED BY <2>2, <2>3
<1>3. ASSUME NEW u, NEW K \in SUBSET {"scale"}, IsKeyList(u, K, s)
      PROVE  /\ \A f \in {"fastOn", "fastOff"} :
                  IsKeyList(u \o Call("unlock") \o Call(f) \o Call("resume"),
                            K \cup {"unlock"} \cup {f} \cup {"resume"}, s)
             /\ IsKeyList(u \o Call("fastOff") \o Call("unlock"),
                          K \cup {"fastOff"} \cup {"unlock"}, s)
             /\ IsKeyList(u \o Call("stop") \o Call("wait") \o Call("join"),
                          K \cup {"stop"} \cup {"wait"} \cup {"join"}, s)
  <2>1. IsKeyList(u \o Call("unlock"), K \cup {"unlock"}, s)
    BY <1>3, LongerList
  <2>2. ASSUME NEW f \in {"fastOn", "fastOff"}
        PROVE  IsKeyList(u \o Call("unlock") \o Call(f) \o Call("resume"),
                         K \cup {"unlock"} \cup {f} \cup {"resume"}, s)
    <3>1. IsKeyList(u \o Call("unlock") \o Call(f), K \cup {"unlock"} \cup {f}, s)
      BY <2>1, LongerList
    <3> QED BY <3>1, LongerList
  <2>3. IsKeyList(u \o Call("fastOff"), K \cup {"fastOff"}, s)
    BY <1>3, LongerList
  <2>4. IsKeyList(u \o Call("fastOff") \o Call("unlock"),
                  K \cup {"fastOff"} \cup {"unlock"}, s)
    BY <2>3, LongerList
  <2>5. IsKeyList(u \o Call("stop"), K \cup {"stop"}, s)
    BY <1>3, LongerList
  <2>6. IsKeyList(u \o Call("stop") \o Call("wait"), K \cup {"stop"} \cup {"wait"}, s)
    BY <2>5, LongerList
  <2>7. IsKeyList(u \o Call("stop") \o Call("wait") \o Call("join"),
                  K \cup {"stop"} \cup {"wait"} \cup {"join"}, s)
    BY <2>6, LongerList
  <2> QED BY <2>2, <2>4, <2>7
<1>4. IsKeyList(<<>>, {}, s) /\ IsKeyList(CallScale(s), {"scale"}, s)
  BY ShortLists
<1>5. /\ {} \cup {"fastOff"} \cup {"unlock"} = {"fastOff", "unlock"}
      /\ {"scale"} \cup {"fastOff"} \cup {"unlock"} = {"scale", "fastOff", "unlock"}
      /\ {"scale"} \cup {"stop"} \cup {"wait"} \cup {"join"}
           = {"scale", "stop", "wait", "join"}
      /\ \A f : /\ {} \cup {"unlock"} \cup {f} \cup {"resume"} = {"unlock", f, "resume"}
                /\ {"scale"} \cup {"unlock"} \cup {f} \cup {"resume"}
                     = {"scale", "unlock", f, "resume"}
  OBVIOUS
<1>6. /\ \A f \in {"fastOn", "fastOff"} :
           IsKeyList(<<>> \o Call("unlock") \o Call(f) \o Call("resume"),
                     {} \cup {"unlock"} \cup {f} \cup {"resume"}, s)
      /\ IsKeyList(<<>> \o Call("fastOff") \o Call("unlock"),
                   {} \cup {"fastOff"} \cup {"unlock"}, s)
  BY <1>3, <1>4
<1>7. /\ \A f \in {"fastOn", "fastOff"} :
           IsKeyList(CallScale(s) \o Call("unlock") \o Call(f) \o Call("resume"),
                     {"scale"} \cup {"unlock"} \cup {f} \cup {"resume"}, s)
      /\ IsKeyList(CallScale(s) \o Call("fastOff") \o Call("unlock"),
                   {"scale"} \cup {"fastOff"} \cup {"unlock"}, s)
      /\ IsKeyList(CallScale(s) \o Call("stop") \o Call("wait") \o Call("join"),
                   {"scale"} \cup {"stop"} \cup {"wait"} \cup {"join"}, s)
  BY <1>3, <1>4
<1> QED
  BY <1>1, <1>2, <1>5, <1>6, <1>7

\* The list of a hit: it ends with the release of the mutex.
LEMMA HitLists ==
  ASSUME NEW s \in Speeds
  PROVE  /\ LET v == <<>> \o Call("pause") \o Call("fastOff") \o Call("unlock")
            IN  v \in Seq(Ops) /\ SimShape(v) /\ AsksOnly(v, s) /\ v # <<>>
                /\ ~Asks(v, "scale")
         /\ LET v == CallScale(s) \o Call("pause") \o Call("fastOff") \o Call("unlock")
            IN  v \in Seq(Ops) /\ SimShape(v) /\ AsksOnly(v, s) /\ v # <<>>
                /\ Asks(v, "scale")
<1>1. ASSUME NEW u, NEW K \in SUBSET {"scale"}, IsKeyList(u, K, s)
      PROVE  LET v == u \o Call("pause") \o Call("fastOff") \o Call("unlock")
             IN  v \in Seq(Ops) /\ SimShape(v) /\ AsksOnly(v, s) /\ v # <<>>
                 /\ (Asks(v, "scale") <=> "scale" \in K)
  <2> DEFINE b == u \o Call("pause") \o Call("fastOff")
             x == [op |-> "unlock", arg |-> 0]
             v == b \o <<x>>
             L == K \cup {"pause"} \cup {"fastOff"}
  <2>1. IsKeyList(u \o Call("pause"), K \cup {"pause"}, s)
    BY <1>1, LongerList
  <2>2. IsKeyList(b, L, s)
    BY <2>1, LongerList
  <2>3. x \in Ops /\ x.op = "unlock" /\ Call("unlock") = <<x>>
    BY DEF Ops, Call
  <2>4. "scale" \in L <=> "scale" \in K
    OBVIOUS
  <2>5. L \subseteq {"scale", "pause", "fastOff"}
    OBVIOUS
  <2> HIDE DEF b, x, v, L
  <2>6. b \in Seq(Ops) /\ UiShape(b) /\ AsksOnly(b, s) /\ \A k : Asks(b, k) <=> k \in L
    BY <2>2 DEF IsKeyList
  <2>7. /\ v \in Seq(Ops) /\ Len(v) = Len(b) + 1 /\ Len(b) \in Nat
        /\ DOMAIN b = 1 .. Len(b) /\ DOMAIN v = 1 .. (Len(b) + 1)
        /\ \A i \in DOMAIN b : v[i] = b[i]
        /\ v[Len(b) + 1] = x
    BY <2>3, <2>6, Appended DEF v
  <2>8. AsksOnly(v, s) /\ (Asks(v, "scale") <=> "scale" \in L)
    BY <2>3, <2>6, AppendedAsks DEF v
  <2>9. v # <<>>
    BY <2>7, EmptySeq
  <2>10. \A i \in DOMAIN b : b[i].op \in L /\ (b[i].op = "scale" => b[i].arg \in Speeds)
    BY <2>6 DEF Asks, UiShape
  <2>11. ASSUME NEW i \in DOMAIN v
         PROVE  /\ v[i].op \in {"scale", "pause", "fastOff", "unlock"}
                /\ v[i].op = "scale" => v[i].arg \in Speeds
                /\ v[i].op = "unlock" <=> i = Len(v)
    <3>1. CASE i \in DOMAIN b
      <4>1. v[i] = b[i] /\ i # Len(v)
        BY <2>7, <3>1
      <4> QED BY <4>1, <3>1, <2>5, <2>10
    <3>2. CASE i = Len(b) + 1
      BY <2>3, <2>7, <3>2
    <3> QED BY <3>1, <3>2, <2>7
  <2>12. SimShape(v)
    BY <2>11 DEF SimShape
  <2> QED BY <2>3, <2>4, <2>7, <2>8, <2>9, <2>12 DEF v, b
<1>2. IsKeyList(<<>>, {}, s) /\ IsKeyList(CallScale(s), {"scale"}, s)
  BY ShortLists
<1>3. {} \in SUBSET {"scale"} /\ {"scale"} \in SUBSET {"scale"} /\ "scale" \in {"scale"}
      /\ "scale" \notin {}
  OBVIOUS
<1> QED BY <1>1, <1>2, <1>3

-----------------------------------------------------------------------------
(* A key or a hit starts a list of calls.                                  *)

\* What every step of the dashboard records.
StaleStep == stale' = (stepRequests' > 0 /\ (stale \/ ~frozen'))

\* Who is idle is not in the middle of a speed.
LEMMA IdleIsNotSpeeding ==
  ASSUME NEW c \in Clients, ~Busy(c)
  PROVE  ~Speeding(c) /\ todo[c] = <<>> /\ call[c] = "none"
<1>1. todo[c] = <<>> /\ call[c] = "none"
  BY DEF Busy
<1>2. ~Asks(<<>>, "scale")
  BY DEF Asks
<1> QED BY <1>1, <1>2 DEF Speeding

\* The two threads.
LEMMA TwoThreads ==
  Clients = {UI, Sim} /\ UI # Sim /\ UI # "free" /\ Sim # "free"
  BY DashboardAssumption DEF DashboardAssumption

\* A key is taken by a thread at rest, before the end.
LEMMA PressedAtRest ==
  ASSUME ~Busy(UI), simRuns
  PROVE  ~Ending
<1>1. todo[UI] = <<>> /\ ~Asks(<<>>, "join")
  BY TwoThreads, IdleIsNotSpeeding DEF Asks
<1> QED BY <1>1 DEF Ending

\* The lists, the mutex and the pending steps are in order after a key.
LEMMA KeyStep ==
  ASSUME DashTypeOK, ListInv, MutexInv, PauseInv, FieldsOK, ~Busy(UI), simRuns, StaleStep,
         NEW u, NEW K, NEW s, IsKeyList(u, K, s), Do(u), UNCHANGED <<vars, simRuns>>,
         bpMutex' = IF "unlock" \in K THEN UI ELSE bpMutex,
         "unlock" \in K => bpMutex = "free",
         "scale" \in K => "unlock" \in K \/ "join" \in K \/ (bpMutex = "free" /\ ~armed'),
         "join" \in K => "stop" \in K,
         u # <<>> /\ u[1].op = "step" => frozen
  PROVE  ListInv' /\ MutexInv' /\ PauseInv' /\ todo' \in [Clients -> Seq(Ops)]
<1>1. u \in Seq(Ops) /\ UiShape(u) /\ \A k : Asks(u, k) <=> k \in K
  BY DEF IsKeyList
<1>2. todo' = [todo EXCEPT ![UI] = u] /\ todo \in [Clients -> Seq(Ops)]
  BY DEF Do, DashTypeOK
<1>3. todo'[UI] = u /\ todo'[Sim] = todo[Sim]
  BY <1>2, TwoThreads
<1>4. UNCHANGED <<call, argFlag, frozen, stepRequests>>
  BY DEF vars, clockVars, callVars
<1>5. todo[UI] = <<>> /\ call[UI] = "none" /\ ~Speeding(UI)
  BY TwoThreads, IdleIsNotSpeeding
<1>6. ~Asks(<<>>, "unlock")
  BY DEF Asks
<1>7. ListInv'
  BY <1>1, <1>3 DEF ListInv
<1>8. MutexInv'
  <2>1. Speeding(UI)' <=> "scale" \in K
    BY <1>1, <1>3, <1>4, <1>5 DEF Speeding
  <2>2. Ending' <=> "join" \in K
    BY <1>1, <1>3 DEF Ending
  <2>3. (bpMutex = UI <=> Asks(todo[UI], "unlock"))' /\ (bpMutex = Sim <=> todo[Sim] # <<>>)'
    BY <1>1, <1>3, <1>5, <1>6, TwoThreads DEF MutexInv
  <2>4. (call[Sim] # "none" => todo[Sim] # <<>>)'
    BY <1>3, <1>4 DEF MutexInv
  <2>5. (Speeding(UI) /\ ~Ending => bpMutex = UI \/ (bpMutex = "free" /\ ~armed))'
    BY <2>1, <2>2
  <2>6. (Speeding(UI) /\ Ending => Asks(todo[UI], "stop"))'
    BY <2>1, <2>2, <1>1, <1>3
  <2> QED BY <2>3, <2>4, <2>5, <2>6 DEF MutexInv
<1>9. PauseInv'
  BY <1>3, <1>4, <1>5 DEF PauseInv, StaleStep
<1>10. todo' \in [Clients -> Seq(Ops)]
  BY <1>1, <1>2
<1> QED BY <1>7, <1>8, <1>9, <1>10

\* A list without a speed leaves the clock heading where it was; a list with
\* one, begun while the background loop is at rest, gives it a new heading.
LEMMA KeyHeading ==
  ASSUME DashTypeOK, MutexInv, ~Busy(UI),
         NEW u, NEW K, NEW s, IsKeyList(u, K, s), Do(u), UNCHANGED vars,
         "scale" \notin K => Heading(s),
         "scale" \in K => bpMutex = "free"
  PROVE  Heading(s)'
<1>1. u \in Seq(Ops) /\ AsksOnly(u, s) /\ \A k : Asks(u, k) <=> k \in K
  BY DEF IsKeyList
<1>2. todo' = [todo EXCEPT ![UI] = u] /\ todo \in [Clients -> Seq(Ops)]
  BY DEF Do, DashTypeOK
<1>3. todo'[UI] = u /\ todo'[Sim] = todo[Sim]
  BY <1>2, TwoThreads
<1>4. UNCHANGED <<call, argRate, slowFactor, fastForwardRate>>
  BY DEF vars, clockVars, callVars
<1>5. todo[UI] = <<>> /\ call[UI] = "none" /\ ~Speeding(UI)
  BY TwoThreads, IdleIsNotSpeeding
<1>6. Speeding(UI)' <=> "scale" \in K
  BY <1>1, <1>3, <1>4, <1>5 DEF Speeding
<1>7. CASE "scale" \in K
  <2>1. todo[Sim] = <<>> /\ call[Sim] = "none"
    BY <1>7, TwoThreads DEF MutexInv
  <2>2. AsksOnly(<<>>, s)
    BY DEF AsksOnly
  <2>3. \A c \in Clients : AsksOnly(todo'[c], s) /\ call'[c] # "rate"
    BY <1>1, <1>3, <1>4, <1>5, <2>1, <2>2, TwoThreads
  <2> QED BY <2>3, <1>6, <1>7, TwoThreads DEF Heading
<1>8. CASE "scale" \notin K
  <2>1. Speeding(Sim)' <=> Speeding(Sim)
    BY <1>3, <1>4 DEF Speeding
  <2>2. \A c \in Clients : AsksOnly(todo'[c], s)
    BY <1>1, <1>3, <1>8, TwoThreads DEF Heading
  <2>3. (\A c \in Clients : ~Speeding(c)) <=> ~Speeding(Sim)
    BY <1>5, TwoThreads
  <2>4. (\A c \in Clients : ~Speeding(c))' <=> ~Speeding(Sim)'
    BY <1>6, <1>8, TwoThreads
  <2> QED BY <1>4, <1>8, <2>1, <2>2, <2>3, <2>4 DEF Heading, Factor, Rate
<1> QED BY <1>7, <1>8

\* When nobody has a speed to write, the clock runs at the one it headed for.
LEMMA Arrived ==
  ASSUME NEW s \in Speeds, Heading(s), \A c \in Clients : ~Speeding(c)
  PROVE  TimeScale = s
<1>1. slowFactor = Factor(s) /\ fastForwardRate = Rate(s)
  BY DEF Heading
<1>2. s \in Nat /\ RealTime \in Nat /\ Kept(s)
  BY SpeedsKept, ScaleAssumption DEF ScaleAssumption
<1>3. CASE s >= RealTime
  BY <1>1, <1>2, <1>3 DEF Factor, Rate, TimeScale, Kept
<1>4. CASE s < RealTime
  BY <1>1, <1>2, <1>4 DEF Factor, TimeScale
<1> QED BY <1>2, <1>3, <1>4

\* At rest, with the mutex free, the clock runs at the speed it should.
LEMMA AtRest ==
  ASSUME DashInv, ~Busy(UI), simRuns, bpMutex = "free"
  PROVE  /\ TimeScale \in Speeds /\ Heading(TimeScale)
         /\ ~MayChangeMode => /\ TimeScale = Target
                              /\ armed => restoreScale = Ladder[ladderIndex]
<1>1. \A c \in Clients : ~Speeding(c)
  <2>1. ~Speeding(UI)
    BY TwoThreads, IdleIsNotSpeeding
  <2>2. todo[Sim] = <<>> /\ call[Sim] = "none"
    BY TwoThreads DEF DashInv, MutexInv
  <2>3. ~Asks(<<>>, "scale")
    BY DEF Asks
  <2> QED BY <2>1, <2>2, <2>3, TwoThreads DEF Speeding
<1>2. PICK s \in Speeds :
        /\ Heading(s)
        /\ ~MayChangeMode => s = Target /\ (armed => restoreScale = Ladder[ladderIndex])
  BY PressedAtRest DEF DashInv, SpeedInv
<1>3. TimeScale = s
  BY <1>1, <1>2, Arrived
<1> QED BY <1>2, <1>3

\* The speed keys move along the ladder: no breakpoint is armed or being reached.
LEMMA SpeedKeySteps ==
  ASSUME DashInv, TypeInv, StaleStep, Accelerate \/ Decelerate \/ ToRealTime
  PROVE  DashInv'
<1>1. ladderIndex' \in DOMAIN Ladder
  <2>1. Ladder \in Seq(ScaleInputs) /\ RealTimeIndex \in DOMAIN Ladder
        /\ ladderIndex \in DOMAIN Ladder
    BY DashboardAssumption DEF DashboardAssumption, DashInv, DashTypeOK
  <2>2. Len(Ladder) \in Nat /\ DOMAIN Ladder = 1 .. Len(Ladder)
    BY <2>1
  <2> QED BY <2>1, <2>2 DEF Accelerate, Decelerate, ToRealTime
<1>2. PICK s \in Speeds : s = Ladder[ladderIndex']
  BY <1>1 DEF Speeds
<1>3. ~Busy(UI) /\ simRuns /\ bpMutex = "free" /\ ~armed
      /\ UNCHANGED <<vars, bpVars, bpMutex, fastRun, simRuns>>
  BY DEF Accelerate, Decelerate, ToRealTime, Press, SpeedKeysFree
<1>4. PICK u, K : /\ IsKeyList(u, K, s) /\ Do(u) /\ "scale" \in K
                  /\ K \subseteq {"resume", "scale"}
                  /\ ~(u # <<>> /\ u[1].op = "step")
  <2>1. CASE Accelerate \/ Decelerate
    <3>1. Do(CallScale(s))
      BY <1>2, <2>1 DEF Accelerate, Decelerate
    <3>2. IsKeyList(CallScale(s), {"scale"}, s) /\ CallScale(s)[1].op = "scale"
      BY <1>2, ShortLists DEF CallScale
    <3> QED BY <3>1, <3>2
  <2>2. CASE ToRealTime
    <3> DEFINE u == Call("resume") \o CallScale(s)
    <3>1. s = RealTime
      BY <1>2, <2>2, DashboardAssumption DEF ToRealTime, DashboardAssumption
    <3>2. Do(u)
      BY <2>2, <3>1 DEF ToRealTime
    <3>3. IsKeyList(u, {"resume", "scale"}, s)
      BY <1>2, KeyLists
    <3> HIDE DEF u
    <3>4. ~(u # <<>> /\ u[1].op = "step")
      <4>1. ~Asks(u, "step") /\ u \in Seq(Ops)
        BY <3>3 DEF IsKeyList
      <4>2. u # <<>> => 1 \in DOMAIN u
        BY <4>1, TailOf
      <4> QED BY <4>1, <4>2 DEF Asks
    <3> QED BY <3>2, <3>3, <3>4
  <2> QED BY <2>1, <2>2
<1>5. ~armed' /\ "unlock" \notin K /\ "join" \notin K
  BY <1>3, <1>4 DEF bpVars
<1>6. ListInv' /\ MutexInv' /\ PauseInv' /\ todo' \in [Clients -> Seq(Ops)]
  <2>1. FieldsOK
    BY DEF TypeInv, FieldsInv
  <2> QED BY <1>3, <1>4, <1>5, <2>1, KeyStep DEF DashInv
<1>7. Heading(s)'
  BY <1>3, <1>4, KeyHeading DEF DashInv
<1>8. SpeedInv'
  <2>1. (\E t \in Speeds :
           /\ Heading(t)
           /\ ~MayChangeMode => t = Target /\ (armed => restoreScale = Ladder[ladderIndex]))'
    BY <1>2, <1>5, <1>7 DEF Target
  <2> QED BY <2>1 DEF SpeedInv
<1>9. DashTypeOK'
  BY <1>1, <1>3, <1>6 DEF DashInv, DashTypeOK, bpVars
<1> QED BY <1>6, <1>8, <1>9 DEF DashInv

\* Pausing and stepping leave the speed alone; a step is asked for in a pause.
LEMMA PauseKeySteps ==
  ASSUME DashInv, TypeInv, StaleStep, TogglePause \/ ManualStep
  PROVE  DashInv'
<1>1. ~Busy(UI) /\ simRuns /\ UNCHANGED <<vars, ladderIndex, bpVars, bpMutex, fastRun, simRuns>>
  BY DEF TogglePause, ManualStep, Press
<1>2. PICK s \in Speeds :
        /\ Heading(s)
        /\ ~MayChangeMode => s = Target /\ (armed => restoreScale = Ladder[ladderIndex])
  BY <1>1, PressedAtRest DEF DashInv, SpeedInv
<1>3. PICK u, K : /\ IsKeyList(u, K, s) /\ Do(u) /\ K \subseteq {"toggle", "pause", "step"}
                  /\ u # <<>> /\ u[1].op = "step" => frozen
  <2>1. CASE TogglePause
    <3>1. Do(Call("toggle")) /\ IsKeyList(Call("toggle"), {"toggle"}, s)
          /\ Call("toggle")[1].op = "toggle"
      BY <2>1, ShortLists DEF TogglePause, Call
    <3> QED BY <3>1
  <2>2. CASE ManualStep /\ frozen
    <3>1. Do(Call("step")) /\ IsKeyList(Call("step"), {"step"}, s)
      BY <2>2, ShortLists DEF ManualStep
    <3> QED BY <3>1, <2>2
  <2>3. CASE ManualStep /\ ~frozen
    <3> DEFINE u == Call("pause") \o Call("step")
    <3>1. Do(u) /\ IsKeyList(u, {"pause", "step"}, s)
      BY <2>3, KeyLists DEF ManualStep
    <3> HIDE DEF u
    <3>2. u # <<>> => u[1].op = "pause"
      <4>1. u \in Seq(Ops) /\ UiShape(u) /\ Asks(u, "pause")
        BY <3>1 DEF IsKeyList
      <4>2. PICK i \in DOMAIN u : u[i].op = "pause"
        BY <4>1 DEF Asks
      <4>3. i \in Nat /\ 1 <= i /\ 1 \in DOMAIN u
        BY <4>1
      <4>4. i # 1 => u[1].op # "step"
        BY <4>1, <4>3 DEF UiShape
      <4>5. u[1].op \in {"pause", "step"}
        BY <3>1, <4>3 DEF IsKeyList, Asks
      <4> QED BY <4>2, <4>4, <4>5
    <3> QED BY <3>1, <3>2
  <2> QED BY <2>1, <2>2, <2>3
<1>4. "scale" \notin K /\ "unlock" \notin K /\ "join" \notin K
  BY <1>3
<1>5. ListInv' /\ MutexInv' /\ PauseInv' /\ todo' \in [Clients -> Seq(Ops)]
  <2>1. FieldsOK
    BY DEF TypeInv, FieldsInv
  <2> QED BY <1>1, <1>3, <1>4, <2>1, KeyStep DEF DashInv
<1>6. Heading(s)'
  BY <1>1, <1>2, <1>3, <1>4, KeyHeading DEF DashInv
<1>7. SpeedInv'
  <2>1. (\E t \in Speeds :
           /\ Heading(t)
           /\ ~MayChangeMode => t = Target /\ (armed => restoreScale = Ladder[ladderIndex]))'
    BY <1>1, <1>2, <1>6 DEF Target, bpVars
  <2> QED BY <2>1 DEF SpeedInv
<1>8. DashTypeOK'
  BY <1>1, <1>5 DEF DashInv, DashTypeOK, bpVars
<1> QED BY <1>5, <1>7, <1>8 DEF DashInv

\* Arming captures the speed of a clock at rest, and only the first time.
LEMMA ArmSteps ==
  ASSUME DashInv, TypeInv, StaleStep, NEW fast \in BOOLEAN, ArmBreakpoint(fast)
  PROVE  DashInv'
<1>1. /\ ~Busy(UI) /\ simRuns /\ bpMutex = "free" /\ bpMutex' = UI /\ armed' = TRUE
      /\ fastMode' = fast /\ hit' = FALSE
      /\ restoreScale' = (IF armed THEN restoreScale ELSE TimeScale)
      /\ armed => fast = fastMode \/ MayChangeMode
      /\ UNCHANGED <<vars, ladderIndex, fastRun, simRuns>>
  BY DEF ArmBreakpoint, Press, Arm
<1>2. /\ TimeScale \in Speeds /\ Heading(TimeScale)
      /\ ~MayChangeMode => /\ TimeScale = Target
                           /\ armed => restoreScale = Ladder[ladderIndex]
  BY <1>1, AtRest
<1>3. PICK s \in Speeds : s = IF fast THEN MaxSpeed ELSE TimeScale
  BY <1>2, SpeedsKept
<1>4. PICK u, K : /\ IsKeyList(u, K, s) /\ Do(u) /\ "unlock" \in K /\ "join" \notin K
                  /\ "step" \notin K /\ ("scale" \in K <=> fast)
  <2>1. CASE fast
    <3> DEFINE v == CallScale(s) \o Call("unlock") \o Call("fastOn") \o Call("resume")
    <3>1. Do(v)
      BY <1>3, <2>1 DEF ArmBreakpoint
    <3>2. IsKeyList(v, {"scale", "unlock", "fastOn", "resume"}, s)
      BY KeyLists
    <3> HIDE DEF v
    <3> QED BY <2>1, <3>1, <3>2
  <2>2. CASE ~fast
    <3> DEFINE v == <<>> \o Call("unlock") \o Call("fastOff") \o Call("resume")
    <3>1. Do(v)
      BY <2>2 DEF ArmBreakpoint
    <3>2. IsKeyList(v, {"unlock", "fastOff", "resume"}, s)
      BY KeyLists
    <3> HIDE DEF v
    <3> QED BY <2>2, <3>1, <3>2
  <2> QED BY <2>1, <2>2
<1>5. u # <<>> /\ u[1].op = "step" => frozen
  BY <1>4, TailOf DEF IsKeyList, Asks
<1>6. ListInv' /\ MutexInv' /\ PauseInv' /\ todo' \in [Clients -> Seq(Ops)]
  <2>1. FieldsOK
    BY DEF TypeInv, FieldsInv
  <2>2. bpMutex' = IF "unlock" \in K THEN UI ELSE bpMutex
    BY <1>1, <1>4
  <2>3. DashTypeOK /\ ListInv /\ MutexInv /\ PauseInv
    BY DEF DashInv
  <2>4. ~Busy(UI) /\ simRuns /\ bpMutex = "free" /\ UNCHANGED <<vars, simRuns>>
    BY <1>1
  <2>5. "unlock" \in K => bpMutex = "free"
    BY <1>1
  <2>6. "scale" \in K => "unlock" \in K \/ "join" \in K \/ (bpMutex = "free" /\ ~armed')
    BY <1>4
  <2>7. "join" \in K => "stop" \in K
    BY <1>4
  <2> QED BY <1>4, <1>5, <2>1, <2>2, <2>3, <2>4, <2>5, <2>6, <2>7, KeyStep
<1>7. Heading(s)'
  <2>1. "scale" \notin K => Heading(s)
    BY <1>2, <1>3, <1>4
  <2> QED BY <1>1, <1>4, <2>1, KeyHeading DEF DashInv
<1>8. SpeedInv'
  <2>1. ~MayChangeMode => s = Target' /\ restoreScale' = Ladder[ladderIndex]
    <3> SUFFICES ASSUME ~MayChangeMode PROVE s = Target' /\ restoreScale' = Ladder[ladderIndex]
      OBVIOUS
    <3>1. armed => (fast <=> fastMode)
      BY <1>1
    <3>2. Target' = IF fast THEN MaxSpeed ELSE Ladder[ladderIndex]
      BY <1>1 DEF Target, MaxSpeed
    <3>3. TimeScale = Target /\ (armed => restoreScale = Ladder[ladderIndex])
      BY <1>2
    <3>4. ~fast => Target = Ladder[ladderIndex]
      BY <3>1 DEF Target
    <3>5. ~armed => Target = Ladder[ladderIndex]
      BY DEF Target
    <3>6. restoreScale' = IF armed THEN restoreScale ELSE TimeScale
      BY <1>1
    <3> QED BY <1>3, <3>2, <3>3, <3>4, <3>5, <3>6
  <2>2. (\E t \in Speeds :
           /\ Heading(t)
           /\ ~MayChangeMode => t = Target /\ (armed => restoreScale = Ladder[ladderIndex]))'
    BY <1>1, <1>7, <2>1
  <2> QED BY <2>2 DEF SpeedInv
<1>9. DashTypeOK'
  BY <1>1, <1>2, <1>6, TwoThreads DEF DashInv, DashTypeOK
<1> QED BY <1>6, <1>8, <1>9 DEF DashInv

\* Cancelling gives the captured speed back, and only if the clock was raised.
LEMMA CancelSteps ==
  ASSUME DashInv, TypeInv, StaleStep, CancelBreakpoint
  PROVE  DashInv'
<1>1. /\ ~Busy(UI) /\ simRuns /\ bpMutex = "free" /\ bpMutex' = UI /\ armed' = FALSE
      /\ UNCHANGED <<vars, ladderIndex, fastMode, restoreScale, hit, fastRun, simRuns>>
  BY DEF CancelBreakpoint, Press
<1>2. TimeScale \in Speeds /\ Heading(TimeScale)
  BY <1>1, AtRest
<1>3. PICK s \in Speeds : s = IF armed /\ fastMode THEN restoreScale ELSE TimeScale
  BY <1>2 DEF DashInv, DashTypeOK
<1>4. PICK u, K : /\ IsKeyList(u, K, s) /\ Do(u) /\ "unlock" \in K /\ "join" \notin K
                  /\ "step" \notin K /\ ("scale" \in K => armed /\ fastMode)
                  /\ (armed /\ fastMode => "scale" \in K)
  <2>1. CASE armed /\ fastMode
    <3> DEFINE v == CallScale(s) \o Call("fastOff") \o Call("unlock")
    <3>1. Do(v)
      BY <1>3, <2>1 DEF CancelBreakpoint
    <3>2. IsKeyList(v, {"scale", "fastOff", "unlock"}, s)
      BY KeyLists
    <3> HIDE DEF v
    <3> QED BY <2>1, <3>1, <3>2
  <2>2. CASE ~(armed /\ fastMode)
    <3> DEFINE v == <<>> \o Call("fastOff") \o Call("unlock")
    <3>1. Do(v)
      BY <2>2 DEF CancelBreakpoint
    <3>2. IsKeyList(v, {"fastOff", "unlock"}, s)
      BY KeyLists
    <3> HIDE DEF v
    <3> QED BY <2>2, <3>1, <3>2
  <2> QED BY <2>1, <2>2
<1>5. u # <<>> /\ u[1].op = "step" => frozen
  BY <1>4, TailOf DEF IsKeyList, Asks
<1>6. ListInv' /\ MutexInv' /\ PauseInv' /\ todo' \in [Clients -> Seq(Ops)]
  <2>1. FieldsOK
    BY DEF TypeInv, FieldsInv
  <2>2. bpMutex' = IF "unlock" \in K THEN UI ELSE bpMutex
    BY <1>1, <1>4
  <2>3. DashTypeOK /\ ListInv /\ MutexInv /\ PauseInv
    BY DEF DashInv
  <2>4. ~Busy(UI) /\ simRuns /\ bpMutex = "free" /\ UNCHANGED <<vars, simRuns>>
    BY <1>1
  <2> QED BY <1>4, <1>5, <2>1, <2>2, <2>3, <2>4, KeyStep
<1>7. Heading(s)'
  <2>1. "scale" \notin K => Heading(s)
    BY <1>2, <1>3, <1>4
  <2> QED BY <1>1, <1>4, <2>1, KeyHeading DEF DashInv
<1>8. SpeedInv'
  <2>1. ~MayChangeMode => s = Target'
    <3>1. Target' = Ladder[ladderIndex]
      BY <1>1 DEF Target, MaxSpeed
    <3>2. ~MayChangeMode => TimeScale = Target /\ (armed => restoreScale = Ladder[ladderIndex])
      BY <1>1, AtRest
    <3> QED BY <1>3, <3>1, <3>2 DEF Target
  <2>2. (\E t \in Speeds :
           /\ Heading(t)
           /\ ~MayChangeMode => t = Target /\ (armed => restoreScale = Ladder[ladderIndex]))'
    BY <1>1, <1>7, <2>1
  <2> QED BY <2>2 DEF SpeedInv
<1>9. DashTypeOK'
  BY <1>1, <1>6, TwoThreads DEF DashInv, DashTypeOK
<1> QED BY <1>6, <1>8, <1>9 DEF DashInv

\* The end of the run: from here on the speed belongs to the teardown.
LEMMA QuitSteps ==
  ASSUME DashInv, TypeInv, StaleStep, Quit
  PROVE  DashInv'
<1>1. ~Busy(UI) /\ simRuns /\ UNCHANGED <<vars, ladderIndex, bpVars, bpMutex, fastRun, simRuns>>
  BY DEF Quit, Press
<1>2. PICK u, K : IsKeyList(u, K, RealTime) /\ Do(u) /\ K = {"scale", "stop", "wait", "join"}
  BY SpeedsKept, KeyLists DEF Quit
<1>3. u # <<>> /\ u[1].op = "step" => frozen
  BY <1>2, TailOf DEF IsKeyList, Asks
<1>4. ListInv' /\ MutexInv' /\ PauseInv' /\ todo' \in [Clients -> Seq(Ops)]
  <2>1. FieldsOK
    BY DEF TypeInv, FieldsInv
  <2>2. bpMutex' = IF "unlock" \in K THEN UI ELSE bpMutex
    BY <1>1, <1>2
  <2>3. "unlock" \notin K /\ "join" \in K /\ "stop" \in K
    BY <1>2
  <2>4. ~Busy(UI) /\ simRuns /\ UNCHANGED <<vars, simRuns>>
    BY <1>1
  <2>5. DashTypeOK /\ ListInv /\ MutexInv /\ PauseInv
    BY DEF DashInv
  <2>6. IsKeyList(u, K, RealTime) /\ Do(u)
    BY <1>2
  <2> QED BY <1>3, <2>1, <2>2, <2>3, <2>4, <2>5, <2>6, KeyStep
<1>5. Ending'
  <2>1. todo'[UI] = u /\ Asks(u, "join")
    BY <1>2, TwoThreads DEF Do, IsKeyList, DashInv, DashTypeOK
  <2> QED BY <2>1 DEF Ending
<1>6. DashTypeOK'
  BY <1>1, <1>4 DEF DashInv, DashTypeOK, bpVars
<1> QED BY <1>4, <1>5, <1>6 DEF DashInv, SpeedInv

\* A hit is only seen while nobody of the interface is setting a speed; it gives
\* the captured speed back under the mutex.
LEMMA HitSteps ==
  ASSUME DashInv, TypeInv, StaleStep, BreakpointHit
  PROVE  DashInv'
<1>1. /\ ~Busy(Sim) /\ simRuns /\ bpMutex = "free" /\ armed /\ armed' = FALSE /\ hit' = TRUE
      /\ bpMutex' = Sim
      /\ UNCHANGED <<vars, ladderIndex, fastMode, restoreScale, fastRun, simRuns>>
  BY DEF BreakpointHit
<1>2. todo[Sim] = <<>> /\ call[Sim] = "none" /\ ~Speeding(Sim)
  BY <1>1, TwoThreads, IdleIsNotSpeeding
<1>3. restoreScale \in Speeds /\ todo \in [Clients -> Seq(Ops)]
  BY DEF DashInv, DashTypeOK
<1>4. PICK v : /\ todo' = [todo EXCEPT ![Sim] = v]
               /\ v \in Seq(Ops) /\ SimShape(v) /\ v # <<>>
               /\ fastMode => AsksOnly(v, restoreScale) /\ Asks(v, "scale")
               /\ ~fastMode => ~Asks(v, "scale")
  <2>1. CASE fastMode
    <3> DEFINE v == CallScale(restoreScale) \o Call("pause") \o Call("fastOff") \o Call("unlock")
    <3>1. todo' = [todo EXCEPT ![Sim] = v]
      BY <2>1 DEF BreakpointHit
    <3>2. /\ v \in Seq(Ops) /\ SimShape(v) /\ v # <<>> /\ AsksOnly(v, restoreScale)
          /\ Asks(v, "scale")
      BY <1>3, HitLists
    <3> HIDE DEF v
    <3> QED BY <2>1, <3>1, <3>2
  <2>2. CASE ~fastMode
    <3> DEFINE v == <<>> \o Call("pause") \o Call("fastOff") \o Call("unlock")
    <3>1. todo' = [todo EXCEPT ![Sim] = v]
      BY <2>2 DEF BreakpointHit
    <3>2. v \in Seq(Ops) /\ SimShape(v) /\ v # <<>> /\ ~Asks(v, "scale")
      BY <1>3, HitLists
    <3> HIDE DEF v
    <3> QED BY <2>2, <3>1, <3>2
  <2> QED BY <2>1, <2>2
<1>5. todo'[Sim] = v /\ todo'[UI] = todo[UI]
  BY <1>3, <1>4, TwoThreads
<1>6. UNCHANGED <<call, argRate, argFlag, frozen, stepRequests, slowFactor, fastForwardRate>>
  BY <1>1 DEF vars, clockVars, callVars
<1>7. (Speeding(UI)' <=> Speeding(UI)) /\ (Ending' <=> Ending)
  BY <1>1, <1>5, <1>6 DEF Speeding, Ending
<1>8. ListInv'
  BY <1>4, <1>5 DEF DashInv, ListInv
<1>9. MutexInv'
  <2>1. (bpMutex = UI <=> Asks(todo[UI], "unlock"))' /\ (bpMutex = Sim <=> todo[Sim] # <<>>)'
    BY <1>1, <1>4, <1>5, TwoThreads DEF DashInv, MutexInv
  <2>2. (call[Sim] # "none" => todo[Sim] # <<>>)'
    BY <1>4, <1>5
  <2>3. Speeding(UI) => Ending
    BY <1>1, TwoThreads DEF DashInv, MutexInv
  <2>4. Speeding(UI) /\ Ending => Asks(todo[UI], "stop")
    BY DEF DashInv, MutexInv
  <2> QED BY <1>1, <1>5, <1>7, <2>1, <2>2, <2>3, <2>4 DEF MutexInv
<1>10. PauseInv'
  BY <1>5, <1>6 DEF DashInv, PauseInv, StaleStep
<1>11. SpeedInv'
  <2> SUFFICES ASSUME ~Ending
               PROVE  (\E t \in Speeds :
                         /\ Heading(t)
                         /\ ~MayChangeMode
                              => t = Target /\ (armed => restoreScale = Ladder[ladderIndex]))'
    BY <1>7 DEF SpeedInv
  <2>1. PICK s \in Speeds :
          /\ Heading(s)
          /\ ~MayChangeMode => s = Target /\ (armed => restoreScale = Ladder[ladderIndex])
    BY DEF DashInv, SpeedInv
  <2>2. ~Speeding(UI)
    BY <1>1, TwoThreads DEF DashInv, MutexInv
  <2>3. Target' = Ladder[ladderIndex]
    BY <1>1 DEF Target, MaxSpeed
  <2>4. CASE fastMode
    <3>1. PICK t \in Speeds : t = restoreScale
      BY <1>3
    <3>2. Heading(t)'
      <4>1. AsksOnly(todo'[UI], t)
        BY <1>5, <2>2 DEF Speeding, Asks, AsksOnly
      <4>2. AsksOnly(todo'[Sim], t) /\ Asks(todo'[Sim], "scale")
        BY <1>4, <1>5, <2>4, <3>1
      <4>3. \A c \in Clients : call'[c] # "rate"
        BY <1>2, <1>6, <2>2, TwoThreads DEF Speeding
      <4> QED BY <4>1, <4>2, <4>3, TwoThreads DEF Heading, Speeding
    <3>3. ~MayChangeMode => t = Target'
      BY <1>1, <2>1, <2>3, <3>1
    <3> QED BY <1>1, <3>2, <3>3
  <2>5. CASE ~fastMode
    <3>1. Heading(s)'
      <4>1. \A c \in Clients : AsksOnly(todo'[c], s)
        <5>1. AsksOnly(v, s)
          BY <1>4, <2>5 DEF Asks, AsksOnly
        <5> QED BY <1>5, <2>1, <5>1, TwoThreads DEF Heading
      <4>2. \A c \in Clients : ~Speeding(c)
        BY <1>2, <2>2, TwoThreads
      <4>3. slowFactor = Factor(s) /\ fastForwardRate = Rate(s)
        BY <2>1, <4>2 DEF Heading
      <4>4. \A c \in Clients : call'[c] # "rate"
        BY <1>6, <4>2 DEF Speeding
      <4> QED BY <1>6, <4>1, <4>3, <4>4 DEF Heading, Factor, Rate
    <3>2. ~MayChangeMode => s = Target'
      BY <1>1, <2>1, <2>3, <2>5 DEF Target
    <3> QED BY <1>1, <3>1, <3>2
  <2> QED BY <2>4, <2>5
<1>12. DashTypeOK'
  BY <1>1, <1>3, <1>4, TwoThreads DEF DashInv, DashTypeOK
<1> QED BY <1>8, <1>9, <1>10, <1>11, <1>12 DEF DashInv

-----------------------------------------------------------------------------
(* A thread makes the next call of its list.                               *)

\* What a call does before it returns or comes to its second write.
LEMMA CallEffects ==
  ASSUME TypeInv, fastRun \in BOOLEAN, NEW c \in Clients, NEW h, call[c] = "none",
         DoClock(c, h) \/ DoOwn(c, h)
  PROVE  /\ \A d \in Clients : d # c => call'[d] = call[d] /\ argFlag'[d] = argFlag[d]
         /\ UNCHANGED <<frozen, fastForwardRate>> /\ fastRun' \in BOOLEAN
         /\ h.op = "scale" => /\ slowFactor' = Factor(h.arg) /\ call'[c] = "rate"
                              /\ argRate' = [argRate EXCEPT ![c] = Rate(h.arg)]
         /\ h.op # "scale" => UNCHANGED <<slowFactor, argRate>> /\ call'[c] # "rate"
         /\ h.op = "pause" => call'[c] = "discard" /\ argFlag'[c]
         /\ h.op \notin {"scale", "pause", "resume", "toggle"} => call'[c] = "none"
         /\ call'[c] # "freeze"
         /\ h.op # "step" => UNCHANGED stepRequests
         /\ h.op = "unlock" => bpMutex' = "free"
         /\ h.op # "unlock" => UNCHANGED bpMutex
         /\ h.op = "join" => simRuns' = FALSE
         /\ h.op # "join" => UNCHANGED simRuns
<1> USE DEF TypeInv, FlagsOK, FieldsInv, FieldsOK, vars, clockVars, callVars, tcVars
<1>1. CASE h.op = "scale" /\ SetTimeScale(c, h.arg) /\ UNCHANGED <<bpMutex, fastRun, simRuns>>
  BY <1>1 DEF SetTimeScale, Factor, Rate
<1>2. CASE h.op = "pause" /\ SetPaused(c, TRUE) /\ UNCHANGED <<bpMutex, fastRun, simRuns>>
  BY <1>2 DEF SetPaused
<1>3. CASE h.op = "resume" /\ SetPaused(c, FALSE) /\ UNCHANGED <<bpMutex, fastRun, simRuns>>
  BY <1>3 DEF SetPaused
<1>4. CASE h.op = "toggle" /\ TogglePaused(c) /\ UNCHANGED <<bpMutex, fastRun, simRuns>>
  BY <1>4 DEF TogglePaused, SetPaused
<1>5. CASE h.op = "step" /\ RequestStep(c) /\ UNCHANGED <<bpMutex, fastRun, simRuns>>
  BY <1>5 DEF RequestStep
<1>6. CASE h.op = "stop" /\ RequestTcStop(c) /\ UNCHANGED <<bpMutex, fastRun, simRuns>>
  BY <1>6 DEF RequestTcStop
<1>7. CASE /\ h.op = "wait" /\ (WaitForTcQuiesced(c) \/ UNCHANGED vars)
           /\ UNCHANGED <<bpMutex, fastRun, simRuns>>
  BY <1>7 DEF WaitForTcQuiesced
<1>8. CASE DoOwn(c, h)
  BY <1>8 DEF DoOwn
<1> QED
  BY <1>1, <1>2, <1>3, <1>4, <1>5, <1>6, <1>7, <1>8 DEF DoClock

\* The list it leaves.
LEMMA NextCall ==
  ASSUME DashInv, TypeInv, NEW c \in Clients, DoNext(c)
  PROVE  /\ todo[c] \in Seq(Ops) /\ todo[c] # <<>> /\ Head(todo[c]) = todo[c][1]
         /\ todo[c][1] \in Ops /\ call[c] = "none"
         /\ DoClock(c, todo[c][1]) \/ DoOwn(c, todo[c][1])
         /\ todo' \in [Clients -> Seq(Ops)] /\ todo'[c] = Tail(todo[c])
         /\ \A d \in Clients : d # c => todo'[d] = todo[d]
         /\ UNCHANGED <<ladderIndex, armed, fastMode, restoreScale, hit>>
<1>1. todo[c] \in Seq(Ops) /\ todo[c] # <<>> /\ todo \in [Clients -> Seq(Ops)]
  BY DEF DoNext, DashInv, DashTypeOK
<1>2. Head(todo[c]) = todo[c][1] /\ todo[c][1] \in Ops /\ Tail(todo[c]) \in Seq(Ops)
  BY <1>1, TailOf
<1>3. /\ call[c] = "none" /\ (DoClock(c, todo[c][1]) \/ DoOwn(c, todo[c][1]))
      /\ todo' = [todo EXCEPT ![c] = Tail(todo[c])]
      /\ UNCHANGED <<ladderIndex, armed, fastMode, restoreScale, hit>>
  BY <1>2 DEF DoNext, bpVars
<1> QED BY <1>1, <1>2, <1>3

\* Types and lists stay in order.
LEMMA NextLists ==
  ASSUME DashInv, TypeInv, NEW c \in Clients, DoNext(c)
  PROVE  DashTypeOK' /\ ListInv'
<1>1. fastRun \in BOOLEAN
  BY DEF DashInv, DashTypeOK
<1>2. fastRun' \in BOOLEAN /\ bpMutex' \in {"free", UI, Sim} /\ simRuns' \in BOOLEAN
  BY <1>1, NextCall, CallEffects DEF DashInv, DashTypeOK
<1>3. DashTypeOK'
  BY <1>2, NextCall DEF DashInv, DashTypeOK
<1>4. UiShape(todo[UI]) /\ SimShape(todo[Sim])
  BY DEF DashInv, ListInv
<1>5. CASE c = UI
  <2>1. UiShape(Tail(todo[UI]))
    BY <1>4, <1>5, NextCall, TailUiShape
  <2> QED BY <1>3, <1>4, <1>5, <2>1, NextCall, TwoThreads DEF ListInv
<1>6. CASE c = Sim
  <2>1. SimShape(Tail(todo[Sim]))
    BY <1>4, <1>6, NextCall, TailSimShape
  <2> QED BY <1>3, <1>4, <1>6, <2>1, NextCall, TwoThreads DEF ListInv
<1> QED BY <1>5, <1>6, TwoThreads


\* The mutex is released when nothing is left to write under it.
LEMMA NextMutex ==
  ASSUME DashInv, TypeInv, NEW c \in Clients, DoNext(c)
  PROVE  MutexInv'
<1>h. PICK h : h = todo[c][1]
  OBVIOUS
<1>op. PICK op : op = h.op
  OBVIOUS
<1>call. call[c] = "none" /\ (DoClock(c, h) \/ DoOwn(c, h))
  BY <1>h, NextCall
<1>1. MutexInv /\ UiShape(todo[UI]) /\ SimShape(todo[Sim]) /\ fastRun \in BOOLEAN
  BY DEF DashInv, ListInv, DashTypeOK
<1>2. /\ \A d \in Clients : d # c => call'[d] = call[d] /\ todo'[d] = todo[d]
      /\ todo'[c] = Tail(todo[c]) /\ todo[c] \in Seq(Ops) /\ todo[c] # <<>>
      /\ armed' = armed /\ call[c] = "none"
  BY <1>1, NextCall, CallEffects
<1>3. /\ op = "scale" => call'[c] = "rate"
      /\ op # "scale" => call'[c] # "rate"
      /\ op \notin {"scale", "pause", "resume", "toggle"} => call'[c] = "none"
      /\ op = "unlock" => bpMutex' = "free"
      /\ op # "unlock" => bpMutex' = bpMutex
      /\ op = "join" => simRuns' = FALSE
      /\ op # "join" => simRuns' = simRuns
  BY <1>1, <1>op, <1>call, CallEffects
<1>4. \A k : Asks(todo[c], k) <=> op = k \/ Asks(todo'[c], k)
  BY <1>h, <1>op, <1>2, TailAsks
<1>5. CASE c = UI
  <2>1. /\ op = "unlock" => ~Asks(todo'[UI], "scale") /\ ~Asks(todo'[UI], "unlock")
        /\ op = "stop" => ~Asks(todo'[UI], "scale")
        /\ op = "join" => todo'[UI] = <<>>
    BY <1>h, <1>op, <1>1, <1>2, <1>5, TailUiShape
  <2>2. todo'[Sim] = todo[Sim] /\ call'[Sim] = call[Sim]
    BY <1>2, <1>5, TwoThreads
  <2>3. (bpMutex = UI <=> Asks(todo[UI], "unlock"))'
    BY <1>1, <1>3, <1>4, <1>5, <2>1, TwoThreads DEF MutexInv
  <2>4. (bpMutex = Sim <=> todo[Sim] # <<>>)' /\ (call[Sim] # "none" => todo[Sim] # <<>>)'
    BY <1>1, <1>3, <1>4, <1>5, <2>2, TwoThreads DEF MutexInv
  <2>5. Ending' <=> Ending
    <3>1. simRuns
      BY <1>1, <1>2, <1>5 DEF MutexInv
    <3>2. op = "join" => Ending /\ Ending'
      BY <1>3, <1>4, <1>5 DEF Ending
    <3>3. op # "join" => (Ending' <=> Ending)
      BY <1>3, <1>4, <1>5 DEF Ending
    <3> QED BY <3>2, <3>3
  <2>6. Speeding(UI)' => Speeding(UI) /\ op \notin {"unlock", "stop", "join"}
    <3>1. call[UI] = "none" /\ (call'[UI] = "rate" <=> op = "scale")
      BY <1>2, <1>3, <1>5
    <3>2. op = "join" => ~Asks(todo'[UI], "scale")
      BY <2>1 DEF Asks
    <3> QED BY <1>4, <1>5, <2>1, <3>1, <3>2 DEF Speeding
  <2>7. (Speeding(UI) /\ ~Ending => bpMutex = UI \/ (bpMutex = "free" /\ ~armed))'
    BY <1>1, <1>2, <1>3, <2>5, <2>6 DEF MutexInv
  <2>8. (Speeding(UI) /\ Ending => Asks(todo[UI], "stop"))'
    BY <1>1, <1>4, <1>5, <2>5, <2>6 DEF MutexInv
  <2>9. (~simRuns => todo[UI] = <<>> /\ call[UI] = "none")'
    BY <1>1, <1>2, <1>3, <1>5, <2>1 DEF MutexInv
  <2> QED BY <2>3, <2>4, <2>7, <2>8, <2>9 DEF MutexInv
<1>6. CASE c = Sim
  <2>1. /\ op \in {"scale", "pause", "fastOff", "unlock"}
        /\ op = "unlock" <=> todo'[Sim] = <<>>
    BY <1>h, <1>op, <1>1, <1>2, <1>6, TailSimShape
  <2>2. todo'[UI] = todo[UI] /\ call'[UI] = call[UI] /\ simRuns' = simRuns
    BY <1>2, <1>3, <1>6, <2>1, TwoThreads
  <2>3. bpMutex = Sim
    BY <1>1, <1>2, <1>6 DEF MutexInv
  <2>4. (Ending' <=> Ending) /\ (Speeding(UI)' <=> Speeding(UI))
    BY <2>2 DEF Ending, Speeding
  <2>5. (bpMutex = UI <=> Asks(todo[UI], "unlock"))'
    BY <1>1, <1>3, <2>2, <2>3, TwoThreads DEF MutexInv
  <2>6. (bpMutex = Sim <=> todo[Sim] # <<>>)' /\ (call[Sim] # "none" => todo[Sim] # <<>>)'
    BY <1>3, <1>6, <2>1, <2>3, TwoThreads
  <2>7. (Speeding(UI) /\ ~Ending => bpMutex = UI \/ (bpMutex = "free" /\ ~armed))'
    BY <1>1, <2>3, <2>4, TwoThreads DEF MutexInv
  <2> QED BY <1>1, <2>2, <2>4, <2>5, <2>6, <2>7 DEF MutexInv
<1> QED BY <1>5, <1>6, TwoThreads

\* A step is only asked for in a pause, and only the interface ends a pause.
LEMMA NextPause ==
  ASSUME DashInv, TypeInv, StaleStep, NEW c \in Clients, DoNext(c)
  PROVE  PauseInv'
<1>h. PICK h : h = todo[c][1]
  OBVIOUS
<1>op. PICK op : op = h.op
  OBVIOUS
<1>call. call[c] = "none" /\ (DoClock(c, h) \/ DoOwn(c, h))
  BY <1>h, NextCall
<1>1. PauseInv /\ UiShape(todo[UI]) /\ SimShape(todo[Sim]) /\ fastRun \in BOOLEAN
  BY DEF DashInv, ListInv, DashTypeOK
<1>2. /\ \A d \in Clients : d # c => /\ call'[d] = call[d] /\ todo'[d] = todo[d]
                                     /\ argFlag'[d] = argFlag[d]
      /\ todo'[c] = Tail(todo[c]) /\ todo[c] \in Seq(Ops) /\ todo[c] # <<>>
      /\ call[c] = "none" /\ frozen' = frozen
  BY <1>1, NextCall, CallEffects
<1>3. /\ op = "pause" => call'[c] = "discard" /\ argFlag'[c]
      /\ op \notin {"scale", "pause", "resume", "toggle"} => call'[c] = "none"
      /\ op # "scale" => call'[c] # "rate"
      /\ op = "scale" => call'[c] = "rate"
      /\ call'[c] # "freeze"
      /\ op # "step" => stepRequests' = stepRequests
  BY <1>1, <1>op, <1>call, CallEffects
<1>4. CASE c = UI
  <2>1. /\ op = "step" => todo'[UI] = <<>>
        /\ todo'[UI] # <<>> /\ todo'[UI][1].op = "step" => op = "pause"
    BY <1>h, <1>op, <1>1, <1>2, <1>4, TailUiShape
  <2>2. op = "step" => frozen
    BY <1>h, <1>op, <1>1, <1>2, <1>4 DEF PauseInv
  <2>3. stepRequests' > 0 => frozen'
    BY <1>1, <1>2, <1>3, <2>2 DEF PauseInv
  <2>4. (call[Sim] \in {"discard", "freeze"} => argFlag[Sim])'
    BY <1>1, <1>2, <1>4, TwoThreads DEF PauseInv
  <2>5. (todo[UI] # <<>> /\ todo[UI][1].op = "step"
           => \/ call[UI] = "none" /\ frozen
              \/ call[UI] \in {"discard", "freeze"} /\ argFlag[UI])'
    BY <1>3, <1>4, <2>1
  <2> QED BY <1>1, <1>3, <1>4, <2>3, <2>4, <2>5 DEF PauseInv, StaleStep
<1>5. CASE c = Sim
  <2>1. op \in {"scale", "pause", "fastOff", "unlock"}
    BY <1>h, <1>op, <1>1, <1>2, <1>5, TailSimShape
  <2>2. /\ todo'[UI] = todo[UI] /\ call'[UI] = call[UI] /\ argFlag'[UI] = argFlag[UI]
        /\ stepRequests' = stepRequests
    BY <1>2, <1>3, <1>5, <2>1, TwoThreads
  <2>3. (call[Sim] \in {"discard", "freeze"} => argFlag[Sim])'
    BY <1>3, <1>5, <2>1
  <2> QED BY <1>1, <1>2, <2>2, <2>3 DEF PauseInv, StaleStep
<1> QED BY <1>4, <1>5, TwoThreads

\* The clock goes on heading where it was.
LEMMA NextSpeed ==
  ASSUME DashInv, TypeInv, NEW c \in Clients, DoNext(c)
  PROVE  SpeedInv'
<1>h. PICK h : h = todo[c][1]
  OBVIOUS
<1>op. PICK op : op = h.op
  OBVIOUS
<1>call. call[c] = "none" /\ (DoClock(c, h) \/ DoOwn(c, h))
  BY <1>h, NextCall
<1>1. fastRun \in BOOLEAN /\ MutexInv
  BY DEF DashInv, DashTypeOK
<1>2. /\ \A d \in Clients : d # c => call'[d] = call[d] /\ todo'[d] = todo[d]
      /\ todo'[c] = Tail(todo[c]) /\ todo[c] \in Seq(Ops) /\ todo[c] # <<>>
      /\ call[c] = "none" /\ fastForwardRate' = fastForwardRate
      /\ UNCHANGED <<ladderIndex, armed, fastMode, restoreScale>>
  BY <1>1, NextCall, CallEffects
<1>3. /\ op = "scale" => /\ slowFactor' = Factor(h.arg) /\ call'[c] = "rate"
                         /\ argRate' = [argRate EXCEPT ![c] = Rate(h.arg)]
      /\ op # "scale" => slowFactor' = slowFactor /\ argRate' = argRate /\ call'[c] # "rate"
      /\ op = "join" => simRuns' = FALSE
      /\ op # "join" => simRuns' = simRuns
  BY <1>1, <1>op, <1>call, CallEffects
<1>4. /\ \A k : Asks(todo[c], k) <=> op = k \/ Asks(todo'[c], k)
      /\ \A s : AsksOnly(todo[c], s) => AsksOnly(todo'[c], s)
      /\ \A s : AsksOnly(todo[c], s) /\ op = "scale" => h.arg = s
  <2>1. 1 \in DOMAIN todo[c]
    BY <1>2, TailOf
  <2>2. \A s : AsksOnly(todo[c], s) /\ op = "scale" => h.arg = s
    BY <1>h, <1>op, <2>1 DEF AsksOnly
  <2>3. \A k : Asks(todo[c], k) <=> op = k \/ Asks(todo'[c], k)
    BY <1>h, <1>op, <1>2, TailAsks
  <2>4. \A s : AsksOnly(todo[c], s) => AsksOnly(todo'[c], s)
    BY <1>2, TailAsks
  <2> QED BY <2>2, <2>3, <2>4
<1>5. argRate \in [Clients -> Nat]
  BY DEF TypeInv, FieldsInv, FieldsOK
<1>6. ~Ending' => ~Ending /\ op # "join"
  <2>1. op = "join" => Ending'
    BY <1>3 DEF Ending
  <2>2. op # "join" => (Asks(todo[UI], "join") <=> Asks(todo'[UI], "join"))
    BY <1>2, <1>4, TwoThreads
  <2> QED BY <1>3, <2>1, <2>2 DEF Ending
<1> SUFFICES ASSUME ~Ending
             PROVE  (\E t \in Speeds :
                       /\ Heading(t)
                       /\ ~MayChangeMode
                            => t = Target /\ (armed => restoreScale = Ladder[ladderIndex]))'
  BY <1>6 DEF SpeedInv
<1>7. PICK s \in Speeds :
        /\ Heading(s)
        /\ ~MayChangeMode => s = Target /\ (armed => restoreScale = Ladder[ladderIndex])
  BY DEF DashInv, SpeedInv
<1>8. \A d \in Clients : AsksOnly(todo'[d], s)
  BY <1>2, <1>4, <1>7 DEF Heading
<1>9. Heading(s)'
  <2>1. CASE op = "scale"
    <3>1. h.arg = s
      BY <1>4, <1>7, <2>1 DEF Heading
    <3>2. slowFactor' = Factor(s) /\ call'[c] = "rate" /\ argRate' = [argRate EXCEPT ![c] = Rate(s)]
      BY <1>3, <2>1, <3>1
    <3>3. ASSUME NEW d \in Clients, call'[d] = "rate"
          PROVE  slowFactor' = Factor(s) /\ argRate'[d] = Rate(s)
      BY <1>2, <1>5, <1>7, <3>2, <3>3 DEF Heading
    <3>4. Speeding(c)'
      BY <3>2 DEF Speeding
    <3> QED BY <1>8, <3>3, <3>4 DEF Heading, Factor, Rate
  <2>2. CASE op # "scale"
    <3>1. slowFactor' = slowFactor /\ argRate' = argRate
      BY <1>3, <2>2
    <3>2. \A d \in Clients : call'[d] = "rate" <=> call[d] = "rate"
      BY <1>2, <1>3, <2>2
    <3>3. \A d \in Clients : Asks(todo'[d], "scale") <=> Asks(todo[d], "scale")
      BY <1>2, <1>4, <2>2
    <3>4. \A d \in Clients : Speeding(d)' <=> Speeding(d)
      BY <3>2, <3>3 DEF Speeding
    <3> QED BY <1>2, <1>7, <1>8, <3>1, <3>2, <3>4 DEF Heading, Factor, Rate
  <2> QED BY <2>1, <2>2
<1>10. Target' = Target
  BY <1>2 DEF Target, MaxSpeed
<1> QED BY <1>2, <1>7, <1>9, <1>10

\* Any call made leaves everything in order.
LEMMA NextSteps ==
  ASSUME DashInv, TypeInv, StaleStep, NEW c \in Clients, DoNext(c)
  PROVE  DashInv'
  BY NextLists, NextMutex, NextPause, NextSpeed DEF DashInv

-----------------------------------------------------------------------------
(* The clock's own steps.                                                  *)

\* The T/C thread only takes pending steps away.
LEMMA TcSteps ==
  ASSUME DashInv, TypeInv, StaleStep, TcNext, UNCHANGED dashVars
  PROVE  DashInv'
<1>1. UNCHANGED <<call, argRate, argFlag, slowFactor, fastForwardRate, frozen>>
  BY DEF TcNext, TcIdleTick, TcEnter, TcPausedTest, TcDrain, TcScaleTest,
         TcManualStep, TcManualDone, TcNativeFrame, TcNativeDone,
         TcSlowFrame, TcEndFrame, clockVars, callVars
<1>2. stepRequests' = stepRequests \/ stepRequests' = 0
  BY DEF TcNext, TcIdleTick, TcEnter, TcPausedTest, TcDrain, TcScaleTest,
         TcManualStep, TcManualDone, TcNativeFrame, TcNativeDone,
         TcSlowFrame, TcEndFrame, clockVars
<1>3. UNCHANGED <<todo, ladderIndex, armed, fastMode, restoreScale, hit, bpMutex, fastRun, simRuns>>
  BY DEF dashVars, bpVars
<1>4. DashTypeOK' /\ ListInv' /\ MutexInv'
  BY <1>1, <1>3 DEF DashInv, DashTypeOK, ListInv, MutexInv, Speeding, Ending
<1>5. PauseInv'
  <2>1. stepRequests' > 0 => stepRequests > 0
    BY <1>2
  <2>2. stepRequests' > 0 => frozen' /\ (call'[UI] = "freeze" => argFlag'[UI])
    BY <1>1, <2>1 DEF DashInv, PauseInv
  <2>3. ~stale'
    BY <2>2 DEF DashInv, PauseInv, StaleStep
  <2> QED BY <1>1, <1>3, <2>2, <2>3 DEF DashInv, PauseInv
<1>6. SpeedInv'
  BY <1>1, <1>3 DEF DashInv, SpeedInv, Heading, Speeding, Ending, Target, Factor, Rate, MaxSpeed
<1> QED BY <1>4, <1>5, <1>6 DEF DashInv

\* The second write of setTimeScale() brings the clock where it was heading.
LEMMA RateSteps ==
  ASSUME DashInv, TypeInv, StaleStep, NEW c \in Clients, WriteRate(c), UNCHANGED dashVars
  PROVE  DashInv'
<1>1. /\ call \in [Clients -> {"none", "rate", "discard", "freeze"}]
      /\ argRate \in [Clients -> Nat]
  BY DEF TypeInv, FieldsInv, FieldsOK
<1>2. /\ call[c] = "rate" /\ call' = [call EXCEPT ![c] = "none"]
      /\ fastForwardRate' = argRate[c] /\ argRate' = [argRate EXCEPT ![c] = 0]
      /\ UNCHANGED <<slowFactor, frozen, stepRequests, argFlag>>
  BY DEF WriteRate
<1>3. UNCHANGED <<todo, ladderIndex, armed, fastMode, restoreScale, hit, bpMutex, fastRun, simRuns>>
  BY DEF dashVars, bpVars
<1>4. call'[c] = "none" /\ \A d \in Clients : d # c => call'[d] = call[d] /\ argRate'[d] = argRate[d]
  BY <1>1, <1>2
<1>5. DashTypeOK' /\ ListInv'
  BY <1>3 DEF DashInv, DashTypeOK, ListInv
<1>6. MutexInv'
  <2>1. (Ending' <=> Ending) /\ (Speeding(UI)' => Speeding(UI))
    BY <1>2, <1>3, <1>4, TwoThreads DEF Ending, Speeding
  <2>2. (call'[UI] = "none" \/ call'[UI] = call[UI]) /\ (call'[Sim] = "none" \/ call'[Sim] = call[Sim])
    BY <1>4, TwoThreads
  <2> QED BY <1>3, <2>1, <2>2 DEF DashInv, MutexInv
<1>7. PauseInv'
  <2>1. call[UI] # "none" /\ call'[UI] = "none" => call[UI] = "rate"
    BY <1>2, <1>4, TwoThreads
  <2>2. (call'[UI] = "none" \/ call'[UI] = call[UI]) /\ (call'[Sim] = "none" \/ call'[Sim] = call[Sim])
    BY <1>4, TwoThreads
  <2> QED BY <1>2, <1>3, <2>1, <2>2 DEF DashInv, PauseInv, StaleStep
<1>8. SpeedInv'
  <2> SUFFICES ASSUME ~Ending
               PROVE  (\E t \in Speeds :
                         /\ Heading(t)
                         /\ ~MayChangeMode
                              => t = Target /\ (armed => restoreScale = Ladder[ladderIndex]))'
    BY <1>3 DEF SpeedInv, Ending
  <2>1. PICK s \in Speeds :
          /\ Heading(s)
          /\ ~MayChangeMode => s = Target /\ (armed => restoreScale = Ladder[ladderIndex])
    BY DEF DashInv, SpeedInv
  <2>2. slowFactor = Factor(s) /\ argRate[c] = Rate(s)
    BY <1>2, <2>1 DEF Heading
  <2>3. \A d \in Clients : call'[d] = "rate" => argRate'[d] = Rate(s)
    BY <1>4, <2>1 DEF Heading
  <2>4. \A d \in Clients : AsksOnly(todo'[d], s)
    BY <1>3, <2>1 DEF Heading
  <2>5. Heading(s)'
    BY <1>2, <2>2, <2>3, <2>4 DEF Heading, Factor, Rate
  <2>6. Target' = Target
    BY <1>3 DEF Target, MaxSpeed
  <2> QED BY <1>3, <2>1, <2>5, <2>6
<1> QED BY <1>5, <1>6, <1>7, <1>8 DEF DashInv

\* Ending a pause throws the pending steps away before the freeze is lifted.
LEMMA FreezeSteps ==
  ASSUME DashInv, TypeInv, StaleStep, NEW c \in Clients, DiscardSteps(c) \/ WriteFreeze(c),
         UNCHANGED dashVars
  PROVE  DashInv'
<1>1. /\ call \in [Clients -> {"none", "rate", "discard", "freeze"}]
      /\ argFlag \in [Clients -> BOOLEAN] /\ frozen \in BOOLEAN
  BY DEF TypeInv, FlagsOK, FieldsInv, FieldsOK
<1>2. /\ call[c] \in {"discard", "freeze"} /\ call'[c] \in {"none", "freeze"}
      /\ \A d \in Clients : d # c => call'[d] = call[d] /\ argFlag'[d] = argFlag[d]
      /\ UNCHANGED <<slowFactor, fastForwardRate, argRate>>
  BY <1>1 DEF DiscardSteps, WriteFreeze
<1>3. UNCHANGED <<todo, ladderIndex, armed, fastMode, restoreScale, hit, bpMutex, fastRun, simRuns>>
  BY DEF dashVars, bpVars
<1>4. \A d \in Clients : call'[d] = "rate" <=> call[d] = "rate"
  BY <1>2
<1>5. \A d \in Clients : Speeding(d)' <=> Speeding(d)
  BY <1>3, <1>4 DEF Speeding
<1>6. Ending' <=> Ending
  BY <1>3 DEF Ending
<1>7. DashTypeOK' /\ ListInv'
  BY <1>3 DEF DashInv, DashTypeOK, ListInv
<1>8. MutexInv'
  <2>1. call'[Sim] # "none" => call[Sim] # "none"
    BY <1>2, TwoThreads
  <2>2. call[UI] = "none" => call'[UI] = "none"
    BY <1>2, TwoThreads
  <2> QED BY <1>3, <1>5, <1>6, <2>1, <2>2, TwoThreads DEF DashInv, MutexInv
<1>9. PauseInv'
  <2>1. CASE DiscardSteps(c)
    <3>1. /\ call'[c] = "freeze" /\ argFlag' = argFlag /\ frozen' = frozen
          /\ stepRequests' = IF argFlag[c] THEN stepRequests ELSE 0
      BY <1>1, <2>1 DEF DiscardSteps
    <3>2. call[c] = "discard"
      BY <2>1 DEF DiscardSteps
    <3>3. stepRequests' > 0 => stepRequests > 0 /\ argFlag[c]
      BY <3>1
    <3>4. stepRequests' > 0 => frozen' /\ (call'[UI] = "freeze" => argFlag'[UI])
      BY <1>2, <3>1, <3>3, TwoThreads DEF DashInv, PauseInv
    <3>5. ~stale'
      BY <3>4 DEF DashInv, PauseInv, StaleStep
    <3>6. (call[Sim] \in {"discard", "freeze"} => argFlag[Sim])'
      BY <1>2, <3>1, <3>2, TwoThreads DEF DashInv, PauseInv
    <3>7. (todo[UI] # <<>> /\ todo[UI][1].op = "step"
             => \/ call[UI] = "none" /\ frozen
                \/ call[UI] \in {"discard", "freeze"} /\ argFlag[UI])'
      BY <1>2, <1>3, <3>1, <3>2, TwoThreads DEF DashInv, PauseInv
    <3> QED BY <3>4, <3>5, <3>6, <3>7 DEF PauseInv
  <2>2. CASE WriteFreeze(c)
    <3>1. /\ call[c] = "freeze" /\ call'[c] = "none" /\ frozen' = argFlag[c]
          /\ stepRequests' = stepRequests
      BY <1>1, <2>2 DEF WriteFreeze
    <3> QED BY <1>1, <1>2, <1>3, <3>1, TwoThreads DEF DashInv, PauseInv, StaleStep
  <2> QED BY <2>1, <2>2
<1>10. SpeedInv'
  <2>1. \A s : Heading(s) => Heading(s)'
    BY <1>2, <1>3, <1>4, <1>5 DEF Heading, Factor, Rate
  <2> QED BY <1>3, <1>6, <2>1 DEF DashInv, SpeedInv, Target, MaxSpeed
<1> QED BY <1>7, <1>8, <1>9, <1>10 DEF DashInv

-----------------------------------------------------------------------------
(* What the dashboard promises.                                            *)

\* The dashboard starts with nobody doing anything, at 1x.
LEMMA InitDash == DInit => DashInv
<1> SUFFICES ASSUME DInit PROVE DashInv
  OBVIOUS
<1>1. /\ todo = [c \in Clients |-> <<>>] /\ call = [c \in Clients |-> "none"]
      /\ todo[UI] = <<>> /\ todo[Sim] = <<>> /\ call[UI] = "none" /\ call[Sim] = "none"
  BY TwoThreads DEF DInit, Init
<1>2. \A k, s : ~Asks(<<>>, k) /\ AsksOnly(<<>>, s)
  BY DEF Asks, AsksOnly
<1>3. \A c \in Clients : ~Speeding(c) /\ todo[c] = <<>> /\ call[c] = "none"
  BY <1>1, <1>2 DEF Speeding
<1>4. DashTypeOK
  <2>1. ladderIndex \in DOMAIN Ladder /\ restoreScale \in Speeds
    BY SpeedsKept, DashboardAssumption DEF DInit, DashboardAssumption
  <2>2. <<>> \in Seq(Ops)
    OBVIOUS
  <2>3. todo \in [Clients -> Seq(Ops)]
    BY <1>1, <2>2
  <2>4. /\ armed \in BOOLEAN /\ fastMode \in BOOLEAN /\ hit \in BOOLEAN
        /\ bpMutex \in {"free", UI, Sim} /\ fastRun \in BOOLEAN /\ simRuns \in BOOLEAN
    BY DEF DInit
  <2> QED BY <2>1, <2>3, <2>4 DEF DashTypeOK
<1>5. ListInv
  BY <1>1 DEF ListInv, UiShape, SimShape
<1>6. MutexInv
  BY <1>1, <1>2, <1>3, TwoThreads DEF MutexInv, DInit
<1>7. PauseInv
  BY <1>1 DEF PauseInv, DInit, Init
<1>8. SpeedInv
  <2>1. Rate(RealTime) = 1
    <3>1. RealTime \in Nat \ {0} /\ Kept(RealTime) /\ Rounded(RealTime) \in Nat
      BY SpeedsKept, ScaleAssumption, RoundedIsNat DEF ScaleAssumption
    <3>2. Rounded(RealTime) * RealTime = RealTime
      BY <3>1 DEF Kept
    <3>3. \A r \in Nat : r * RealTime = RealTime => r = 1
      BY <3>1
    <3> QED BY <3>1, <3>2, <3>3 DEF Rate
  <2>2. Factor(RealTime) = RealTime
    BY DEF Factor
  <2>3. Heading(RealTime)
    BY <1>2, <1>3, <2>1, <2>2 DEF Heading, DInit, Init
  <2>4. RealTime = Target /\ ~armed
    BY DashboardAssumption DEF Target, DInit, DashboardAssumption
  <2> QED BY <2>3, <2>4, SpeedsKept DEF SpeedInv
<1> QED BY <1>4, <1>5, <1>6, <1>7, <1>8 DEF DashInv

\* Every step keeps it so.
LEMMA DashStep == TypeInv /\ DashInv /\ [DNext]_allVars => DashInv'
<1> SUFFICES ASSUME TypeInv, DashInv, [DNext]_allVars PROVE DashInv'
  OBVIOUS
<1>1. CASE DNext
  <2>1. StaleStep
    BY <1>1 DEF DNext, StaleStep
  <2>2. CASE UiNext
    <3>1. CASE Accelerate \/ Decelerate \/ ToRealTime
      BY <2>1, <3>1, SpeedKeySteps
    <3>2. CASE TogglePause \/ ManualStep
      BY <2>1, <3>2, PauseKeySteps
    <3>3. CASE \E fast \in BOOLEAN : ArmBreakpoint(fast)
      BY <2>1, <3>3, ArmSteps
    <3>4. CASE CancelBreakpoint
      BY <2>1, <3>4, CancelSteps
    <3>5. CASE Quit
      BY <2>1, <3>5, QuitSteps
    <3> QED BY <2>2, <3>1, <3>2, <3>3, <3>4, <3>5 DEF UiNext
  <2>3. CASE BreakpointHit
    BY <2>1, <2>3, HitSteps
  <2>4. CASE \E c \in Clients : DoNext(c)
    BY <2>1, <2>4, NextSteps
  <2>5. CASE ClockStep
    <3>1. CASE TcNext
      BY <2>1, <2>5, <3>1, TcSteps DEF ClockStep
    <3>2. ASSUME NEW c \in Clients, FinishCall(c) PROVE DashInv'
      <4>1. UNCHANGED dashVars
        BY <2>5 DEF ClockStep
      <4> QED BY <2>1, <3>2, <4>1, RateSteps, FreezeSteps DEF FinishCall
    <3> QED BY <2>5, <3>1, <3>2 DEF ClockStep
  <2> QED BY <1>1, <2>2, <2>3, <2>4, <2>5 DEF DNext
<1>2. CASE UNCHANGED allVars
  <2>1. UNCHANGED <<todo, ladderIndex, armed, fastMode, restoreScale, hit, bpMutex, fastRun,
                    simRuns, stale, call, argRate, argFlag, slowFactor, fastForwardRate,
                    frozen, stepRequests>>
    BY <1>2 DEF allVars, vars, clockVars, callVars, dashVars, bpVars
  <2>2. DashTypeOK' /\ ListInv' /\ MutexInv' /\ PauseInv'
    BY <2>1 DEF DashInv, DashTypeOK, ListInv, MutexInv, PauseInv, Speeding, Ending
  <2>3. SpeedInv'
    BY <2>1 DEF DashInv, SpeedInv, Heading, Speeding, Ending, Target, Factor, Rate, MaxSpeed
  <2> QED BY <2>2, <2>3 DEF DashInv
<1> QED BY <1>1, <1>2

\* The threads of the dashboard ask the clock for nothing a client may not ask.
LEMMA ClockUse == TypeInv /\ DashInv /\ [DNext]_allVars => [Next]_vars
<1> SUFFICES ASSUME TypeInv, DashInv, DNext PROVE [Next]_vars
  BY DEF allVars
<1>1. CASE UiNext \/ BreakpointHit
  BY <1>1 DEF UiNext, Accelerate, Decelerate, ToRealTime, TogglePause, ManualStep,
              ArmBreakpoint, CancelBreakpoint, Quit, BreakpointHit
<1>2. ASSUME NEW c \in Clients, DoNext(c) PROVE [Next]_vars
  <2>1. PICK h : h = todo[c][1]
    OBVIOUS
  <2>2. /\ todo[c] \in Seq(Ops) /\ todo[c] # <<>>
        /\ DoClock(c, h) \/ DoOwn(c, h)
    BY <1>2, <2>1, NextCall
  <2>3. h.op = "scale" => h.arg \in ScaleInputs
    <3>1. h.op = "scale" => h.arg \in Speeds
      <4>1. CASE c = UI
        BY <2>1, <2>2, <4>1, TailUiShape DEF DashInv, ListInv
      <4>2. CASE c = Sim
        BY <2>1, <2>2, <4>2, TailSimShape DEF DashInv, ListInv
      <4> QED BY <4>1, <4>2, TwoThreads
    <3> QED BY <3>1, SpeedsKept
  <2>4. CASE DoOwn(c, h)
    BY <2>4 DEF DoOwn
  <2>5. CASE DoClock(c, h)
    <3>1. ClientNext(c) \/ UNCHANGED vars
      BY <2>3, <2>5 DEF DoClock, ClientNext
    <3> QED BY <3>1 DEF Next
  <2> QED BY <2>2, <2>4, <2>5
<1>3. CASE ClockStep
  BY <1>3 DEF ClockStep, Next, ClientNext
<1> QED BY <1>1, <1>2, <1>3 DEF DNext

\* The types of the clock and the invariant of the dashboard together.
LEMMA DashInvHolds == DSpec => [](TypeInv /\ DashInv)
<1>1. DInit => TypeInv /\ DashInv
  BY InitDash, InitFlags, InitFields DEF DInit, TypeInv
<1>2. TypeInv /\ DashInv /\ [DNext]_allVars => (TypeInv /\ DashInv)'
  <2>1. TypeInv /\ DashInv /\ [DNext]_allVars => [Next]_vars
    BY ClockUse
  <2>2. TypeInv /\ [Next]_vars => TypeInv'
    BY FlagsStep, FieldsStep DEF TypeInv
  <2> QED BY <2>1, <2>2, DashStep
<1> QED BY <1>1, <1>2, PTL DEF DSpec

\* The dashboard uses the clock as the clock may be used: with two threads, their
\* lists of calls and the breakpoint's mutex in between, every behaviour of it is
\* one of ClockStation, so all that is proved of the clock holds in it.
THEOREM DashboardUsesClock == DSpec => Spec
<1>1. DInit => Init
  BY DEF DInit
<1> QED BY <1>1, ClockUse, DashInvHolds, PTL DEF DSpec, Spec

\* Whatever the keys and the hits, the lists hold calls that exist, the ladder is
\* never left at either end, and the speed to give back is one of the ladder
\* (SpeedLadder.cpp:9-12, BreakpointController.cpp:8-27).
THEOREM DashTypeCorrect == DSpec => []DashTypeOK
<1>1. DashInv => DashTypeOK
  BY DEF DashInv
<1> QED BY <1>1, DashInvHolds, PTL

\* Until the end of the run two threads are never both between the two writes of
\* setTimeScale() (DashboardLoop.cpp:394-400): who writes holds bpMutex, or the
\* breakpoint is not armed and cannot be reached.
THEOREM OneWriter == DSpec => []OneSpeedWriter
<1>1. DashInv => OneSpeedWriter
  <2> SUFFICES ASSUME DashInv, call[UI] = "rate", call[Sim] = "rate"
               PROVE  \E i \in DOMAIN todo[UI] : todo[UI][i].op = "stop"
    BY DEF OneSpeedWriter
  <2>1. Speeding(UI) /\ bpMutex = Sim
    BY DEF DashInv, MutexInv, Speeding
  <2>2. Ending
    BY <2>1, TwoThreads DEF DashInv, MutexInv
  <2> QED BY <2>1, <2>2 DEF DashInv, MutexInv, Asks
<1> QED BY <1>1, DashInvHolds, PTL

\* Where an armed breakpoint is not armed again in the other mode, the user's
\* speed always comes back (BreakpointController.cpp:11-16).
THEOREM SpeedComesBack ==
  ASSUME ~MayChangeMode PROVE DSpec => []LadderMatchesClock
<1>1. DashInv => LadderMatchesClock
  <2> SUFFICES ASSUME DashInv, Quiet, ~armed, simRuns
               PROVE  TimeScale = Ladder[ladderIndex]
    BY DEF LadderMatchesClock
  <2>1. \A c \in Clients : ~Busy(c) /\ ~Speeding(c)
    BY IdleIsNotSpeeding DEF Quiet
  <2>2. ~Ending
    BY <2>1, PressedAtRest, TwoThreads
  <2>3. PICK s \in Speeds : Heading(s) /\ s = Target
    BY <2>2 DEF DashInv, SpeedInv
  <2>4. TimeScale = s
    BY <2>1, <2>3, Arrived
  <2> QED BY <2>3, <2>4 DEF Target
<1> QED BY <1>1, DashInvHolds, PTL

\* In the dashboard no manual step outlives the pause it was asked for in: a step
\* comes after the pause it needs, from the only thread that can end that pause
\* (ClockStation.cpp:74-77 does not ensure it for any two callers).
THEOREM NoStepOutlivesPause == DSpec => NoPhantomStepHere
<1>1. DashInv => ~stale
  BY DEF DashInv, PauseInv
<1>2. DashInv => [TcDrain => ~stale]_allVars
  BY <1>1
<1> QED BY <1>2, DashInvHolds, PTL DEF NoPhantomStepHere
=============================================================================
