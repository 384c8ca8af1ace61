# Verification of POC-MIXR

TLA+ models, TLC runs and TLAPS proofs for this repository: a C++ simulation
built around MIXR (a real-time simulation framework) and BehaviorTree.CPP, in
which aircraft loaded from plugins fly a scenario, watched from a terminal
dashboard or run without one.

The definitions are translated from the source; `PROJECT.json` gives, for every
definition, the file and the lines it stands for. Paths below are relative to
`src/` (so the repository's own `src/` directory shows as `src/src/`).

Contents: [the system](#the-system), [what is hard](#what-is-hard),
[modules](#modules-and-the-code), [runs](#what-the-runs-check),
[bounds](#bounds), [fairness](#fairness), [proofs](#what-is-proved),
[disagreements](#where-the-code-and-its-words-disagree),
[what is left out](#what-is-not-modelled), [plan](#plan).

## The system

### Threads

| Thread | Code | Does |
|---|---|---|
| main | `src/src/node/Run.cpp`, `app/src/app/Shutdown.cpp` | starts the run, waits for the signal, tears the Station down |
| interface (FTXUI) | `app/src/app/Dashboard*.cpp` | keys, breakpoint, speed; in the dashboard it is also the one that tears down |
| background loop (`simThread`) | `app/src/app/DashboardLoop.cpp:257` | 10 Hz: identities, `Station::updateData()`, radar beams, breakpoint check |
| time-critical (T/C) | `StationTcPeriodicThread` of MIXR | 50 Hz: `processTimeCriticalTasks()`, one or more `tcFrame()` |
| pool | `SimulationTcSyncThread` of MIXR | shares of the player list, phase by phase, between two binary semaphores each |

`src/rl` and the `-deterministic` mode have no T/C thread: the caller runs
`tcFrame()` and `updateData()` in turn.

A frame has four phases (0 dynamics, 1 transmit, 2 receive, 3 process). In each
phase the pool threads take every `n`-th player and the T/C thread waits for all
of them: within a phase the players are concurrent, between phases there is a
barrier.

### Components

State, operations, interactions, and what makes each correct.

**ClockStation** (`libs/xclock`). State: `slowFactor`, the framework's
fast-forward counter and freeze flag, pending manual steps, the stop request,
the count of idle ticks; all atomics, no lock. Operations: `setTimeScale`,
`setPaused`, `togglePaused`, `requestStep`, `requestTcStop`,
`waitForTcQuiesced`, called by any thread; `processTimeCriticalTasks` by the
T/C thread alone. Correct when: a positive `waitForTcQuiesced()` is final; the
integration step is never longer than 1x; a stop request is always confirmed;
a manual step asked for in a pause is taken.

**End of a run** (`src/node/Run.cpp`, `app/Shutdown.cpp`). Stops the clock,
drains the recorder, sends `SHUTDOWN_EVENT` down the Station (Simulation,
players, pool, recorder), then drops references. Correct when: players are not
shut down under a running frame, no record is lost, main runs the destructors
with the T/C thread gone, and nobody waits for ever.

**T/C thread and pools** (vendored, `simulation/`, `base/threads/`). State: per
pool thread a start and a completed semaphore that the thread itself creates, the
player list it was handed; the list a frame holds; `isShutdown()` flags of Station
and Simulation, references taken by the thread functions. Operations: creation at
the first `reset()`, a phase of a frame, the swap of the list, the exit. Correct
when: every player of a frame's list is updated once in every phase, no phase
begins before the last is over, nobody walks a list that was released, no signal
is used before it exists.

**Dashboard** (`app/src/app/Dashboard*.cpp`, `BreakpointController.cpp`). Speed
ladder, breakpoint with its saved speed under `bpMutex`, two threads that write
the clock. Correct when: the user's speed comes back whatever was armed, hit,
armed again or cancelled; a hit leaves the run paused.

**Telemetry** (`libs/xtacview`). The T/C thread fills the recorder's queue, the
background loop drains it into an `.acmi` file and a socket client. State: the
identity cache, the shared `declared` set, a known set per sink. Correct when:
a reader never sees an object after its removal, nor without an identity, nor
time running back.

**Message feed** (`libs/xmsg`). Samples every player at each `updateData()`;
thresholds with hysteresis and hold, dead bands, rates, a gate that spaces
emissions; state per *slot*, the number a player's name is given. Correct when:
no slot is shared or inherited, nothing is deferred past its interval, a
threshold arms only on a sustained value, a crash loses a bounded tail.

**Tactical alerts of the A-4** (`models/players/air/A-4`). An aircraft that sees
an intruder evades and sends an alert; the others converge on it for `holdTime`.
State: the staged and current alert of each `AlertDatalink`, the hysteresis of
`ThreatPolicy`. Delivery happens on the *sender's* pool thread while the
receiver's thread decides. Correct when: the result of a frame does not depend
on the threads, an alert lasts exactly its time, nobody relays, and evading and
supporting do not alternate.

**Agents, arbiter, actuation** (A-4 `src/ubf/`, MIXR `base/ubf/`, `Autopilot`,
`JSBSimModel`). Snapshot, tree tick, vote, `FlightAction::execute()`, then the
stages a decision passes on its way to the surfaces: autopilot, dynamics model,
JSBSim; what `RESET_EVENT` reaches of each. Correct when: decisions fly whole, in
order and with a fixed delay; what an episode left behind is flown no longer than
it takes to pass; a stick given for a manoeuvre is taken back.

**Slow rolls** (A-4 `AerobaticPlan`). Countdown, integrated turn, timeout. Correct
when: a roll ends after a full circle, or at its timeout, and not before.

**Bridge to a training process** (`libs/xrlbridge`, `src/rl`). A pending command
and a published observation in globals; `reset()` and `step()` of the Python
module run frames by hand. Correct when: the observation returned is of the frame
that was run.

**Plugin registry** (`libs/xplugin`). State: names with their plugin, loaded
modules, the framework's factory, the seal. Operations: `loadModule()` with its
refusals, run by the parser when a `PluginLoader` form closes; sealing at the end
of the file; probes by `plugininfo`. Correct when: a name has one maker for ever,
a loaded plugin is never inert, a repeated load is harmless.

**Python and ONNX** (`libs/xpyembed`, `libs/xinfer`), **board, log, joystick, terrain, tracks, random streams**
(`libs/x*`), **scenario editor** (`src/ui`), **demonstrations** (`src/poc`),
**other models**: see [what is not modelled](#what-is-not-modelled).

### How they interact

    keys ──► Dashboard ──calls──► ClockStation ◄──reads── T/C thread ──► frame
               │   ▲ bpMutex          ▲                      │  start/done  │
               ▼   │                  │ stop, wait           ▼              ▼
          background loop         shutdown (main)        pool threads   alerts between
               │                      │                      │          aircraft
               ├─ updateData ─► MsgFeed ─► file              │ samples
               └─ drain ◄──────── recorder queue ◄───────────┘
                     └─► TacviewOutput ─► .acmi file, socket client

    training process ──command──► xrlbridge ──► arbiter ──► FlightAction
          ▲                           │        tree ──┘          │ phase 3
          └──────observation──────────┘                          ▼
                              JSBSim ◄─phase 0── JSBSimModel ◄── Autopilot

    scenario ──► parser ──► PluginLoader ──► registry ◄── chain of factories

## What is hard

`PROJECT.json` lists thirty-nine hazards at their lines, with the property that
would catch each, or the reason there is none. They come in eight kinds:

* **two writes taken for one**: `setTimeScale()` writes a factor and a rate, and
  the T/C thread reads the factor twice (`ClockStation.cpp:55,165,173`); arming a
  breakpoint locks, the resume that follows does not (`DashboardFleetTab.cpp:95`);
* **proofs of idleness without a join**: two idle ticks stand for "no frame will
  ever begin" (`ClockStation.cpp:119`), a reference count for "the thread left";
* **lists and sets that outlive what they describe**: the frame's old player
  list, `declared` shared by two sinks, slots of players that left;
* **order of delivery**: alerts reach a datalink in the order of the scheduler;
* **state that survives a restart of the episode**, below an arbiter;
* **waiting on each other**: the T/C thread on a pool thread that has left;
* **something used before it exists**: the signals of a pool thread, created by
  the thread itself, which nobody waits for (`SyncThread.cpp:28`);
* **a chain of stages, each with a memory of its own**: a command passes three
  holders before it is flown, and a reset reaches the first of them only.

## Modules and the code

| Module | Models | Extends |
|---|---|---|
| `TcGate` | abstract: a confirmed gate in front of `tcFrame()` | |
| `ClockStation` | `libs/xclock/ClockStation` | |
| `Shutdown` | `Run.cpp`, `Shutdown.cpp`, T/C thread, pool, references, recorder queue | |
| `Dashboard` | speed keys, breakpoint, quit | `ClockStation` |
| `Telemetry` | `TacviewOutput`, `RealtimeTelemetryServer`, the player list and queue that feed them | |
| `MessageFeed` | `libs/xmsg` | |
| `FeedHistory` | `MessageFeed` with what a reader of the file could know | `MessageFeed` |
| `TacticalAlert` | pure: fusion, ageing, hysteresis, choice of the tree | |
| `NameOwners` | abstract: write-once, then frozen, ownership of names | |
| `Plugins` | `libs/xplugin`, the parser and the three kinds of program around it | |
| `Lockstep` | abstract: frames in phases, every player once in each | |
| `SyncPool` | T/C and background pool: creation, hand-over, shares, barrier, swap of the list | |
| `AerobaticPlan` | pure: the plan of slow rolls | |
| `Actuation` | decision, autopilot, dynamics model, JSBSim; `reset()` and `step()` of the bridge | `AerobaticPlan` |
| `SquadronFrame` | abstract: one frame of the squadron as a single step | `TacticalAlert` |
| `Squadron` | the frame as the threads run it | `TacticalAlert` |
| `*_proofs` | theorems (`Dashboard_proofs`: of the clock and of the dashboard over it; `FeedHistory_proofs`: of `MessageFeed` and its history; `Squadron_proofs`: of `TacticalAlert` and the squadron) | the module and `TLAPS` |
| `MC_*` | instances for TLC | the module |

**ClockStation.** One action is one access to one shared field, because nothing
is locked. `call[c]` is the point of the API a client is at: `SetTimeScale` then
`WriteRate`; `SetPaused`, `DiscardSteps` (which acts only when resuming), `WriteFreeze`.
`tcPc` walks `processTimeCriticalTasks()`: `TcIdleTick` (stop requested),
`TcEnter`, `TcPausedTest`, `TcDrain` and `TcManualStep`, `TcScaleTest`, then
`TcSlowFrame` or the native loop, which reads the rate on every turn. `tcDt` is
the step a frame was begun with, `tcDt0` what the freeze test of
`Simulation::updateTC()` left of it. Time scales are integers in units of 1/`RealTime`.

**Shutdown.** `mainPc` is the line main is at. Semaphores are the code's mutexes,
TRUE meaning unlocked. `slow` never changes: it chooses once whether bounded
waits may run out. `refs` counts references of the Station; pool threads hold
the Simulation's. The speed is 1x by then (`Run.cpp:54`), so one frame per period.

**Dashboard.** A key decides in one step, under `bpMutex` where the code holds
it, and leaves in `todo` the calls still to be made; these interleave with the
clock's own steps and with the background loop. Composes with `ClockStation` by
extending it: the clock's actions are the calls.

**Telemetry.** One action per record, per player sampled, per beam, per client
accepted. `shown` is what the reader of each sink was told of an object.
`concurrent` chooses once between the dashboard (T/C thread) and the
deterministic runner (none); without it the background loop takes the frame's
steps itself.

**MessageFeed.** One action per player visited and one at the end of the cycle.
Time is counted in cycles. A threshold sees its field as on, band or off, or
invalid; a dead band sees values. `playerSlots[n]` is the code's encoding:
the slot, `-(slot+1)` when absent. `FeedHistory` adds history variables and
restricts nothing.

**Squadron.** Phases 2 and 3, where aircraft meet; phases 0 and 1 are what
`BeginFrame` chooses (who is seen, who is within range, who crashed).
`index[t]` and `walk[t]` are the loops of `updateTcPlayerList()` and of
`broadcastAlert()`. Each datalink has its mutex, so one delivery is one step.
`SquadronFrame` has neither threads nor phases nor order.

**SyncPool.** One action per access to a signal and one per player updated. The
driver (main for the priming frame, then the T/C or the background thread) is
`pc[q]`: `StartOne` hands a thread its list and its signal, `TakeShare` and
`OwnShare` do the last share, `JoinOne` waits. A thread goes `spawned`, `halfway`
(start signal created), `waiting`, `working`; `failed` when `pthread_create()` refused it, which
`createThread()` does not look at. A signal is `null`, `locked` or `unlocked`;
using a null one sets `crashed`, which stands for the fault of this build. The
driver of a pool in `Swappers` may change the list of the Simulation before each of
its frames, whatever the other pool is doing; a frame keeps the one it began with. How a pool ends is in `Shutdown`. `Lockstep` has neither threads nor signals nor shares.

**Plugins.** One action per form of a scenario and one per module loaded:
`OpenBlock` is the closing of a `PluginLoader` form, whose modules `LoadNext`
loads one by one; `BuildForm` is any other form, made by the chain of factories.
`LoadModule` keeps the order of the code: seal, resolution, file already loaded,
guards, registration of all names at once. `die()` ends the process. The program
never changes: `station` calls the parser once and leaves at an error, `training`
survives it and may try again, `plugininfo` has no factory of its own.

**Actuation.** A decision is the moment, episode and frame, it was taken at, and
the stages hold moments: `pilot` (phase 3 of a frame), `model` (pushed by the
autopilot before the next decision), `fdm` (written after JSBSim's `Run()`),
`flown` (what `Run()` found). `PlayerFrame` is one frame of the four. What it
abstracts: `heading` stands for the commanded heading, `rest` for altitude and
velocity, which are always on hold; the bank is in quarters of a turn and moves by
one at most per tick, far more than an A-4 does; a player is not frozen, the
priming frame does not crash; other modes of the autopilot and the joystick are
not used by these scenarios. JSBSim is external: the model relies on it
keeping what it was last given, which `RunIC()` does not touch.

## What the runs check

Runs that pass, with the distinct states TLC finds (`feed` takes two to three
minutes, the others less than one):

| Run | States | Shows |
|---|---|---|
| `clock` | 52,920 | two callers in any order against the T/C thread: `QuiesceIsProof`, `StepNeverStretched`, `StopIsConfirmed`, `StepsAreServed`; `GateSpec` (refinement of `TcGate`) |
| `shutdown` | 40,470 | fast and slow machines: `PlayersShutDownAlone`, `NothingUnrecorded`, `StationDestroyedByMain`, `EverybodyLeaves` |
| `dashboard` | 93,566 | every key against a breakpoint that may be reached at any time: `OneSpeedWriter`, `LadderMatchesClock`, `NoPhantomStepHere` |
| `telemetry` | 277,793 | with and without a T/C thread, clients that come and go: `NoGhosts`, `FileMirrorsDeclared`, `IdentityIsReal`, `RemovalIsWritten`, `TimeNeverRunsBack`, `BeamsOfKnownObjects` |
| `feed` | 181,915 | players that come, leave and return, every sequence of readings: `SlotsAreDistinct`, `LossIsBounded`, `LatencyIsBounded`, `ReaderIsCurrent`, `ArmedOnlyIfHeld` |
| `squadron` | 405,428 | three wingmen on two threads, crashes, frozen frames, resets: `AlertLastsItsHold`, `NobodyRelays`, `SupportsOnlyWhenCalm`; `SyncSpec` (refinement of `SquadronFrame`) |
| `plugins` | 10,073 | every scenario of up to four forms over six plugins, good and bad, in the three programs: `EveryNameReachesItsPlugin`, `OneMakerPerName`, `AssertedNamesAreServed`, `RepeatIsHarmless`; `OwnersSpec` (refinement of `NameOwners`) |
| `pool` | 98,455 | both pools from their creation, threads that are late or were refused, lists that are swapped: `CrashOnlyInFirstPhase`, `UpdatesReadHeldList`, `FramesEnd`; `InLockstep` (refinement of `Lockstep`) |
| `actuation` | 30,118 | three episodes of a training process with crashes and overrules, and a flight of slow rolls: `StaleOnlyAtStart`, `ObservationIsCurrent`, `ThreeFramesLate`, `EndsFullCircle` |

Type invariants are proved for `ClockStation`, `MessageFeed`, `Plugins`,
`SyncPool` and `Actuation`, and are checked by no run. Every property of these
runs has a mutant, an operator next to the definition it replaces
(`Fuse_FirstWins` beside `Fuse`), that makes it fail under the same configuration.
`LadderMatchesClock`, for instance, fails in `dashboard` as soon as a second
arming captures the speed again. That run arms an armed breakpoint only in the
mode it has; the other case is the run `dashboard_rearm`.

Runs in which TLC finds a violation, one property each, are in
[disagreements](#where-the-code-and-its-words-disagree).

Deadlock is checked in `clock`, `feed` and `squadron`. It is off in
`shutdown`, `dashboard` and `telemetry`, which end: main returns, the user
quits, the sinks are closed; in `plugins` and `pool`, where the process may end
by itself (`die()`, a fault); and in `actuation`, where the last frame of the
last episode is the end. In `pool` what a deadlock check would find is covered
by `FramesEnd`.

## Bounds

| Instance | Bounds | Why they are enough |
|---|---|---|
| `MC_ClockStation` | 2 callers; scales 0, 1/2x, 1x, 3/2x, 5x; 2 pending steps; idle ticks saturate at 2 | two callers are the least that interleave two calls, and each may be at any point of any of them; the arguments hit both ends of the range and the rounding of the integer slot; nobody tells more idle ticks than two apart |
| `MC_Shutdown` | 2 pool threads, 2 phases, 2 records | with two workers one can be last; with two phases a signal can be taken for the next phase's; the queue only has to be empty, shorter or longer |
| `MC_Dashboard` | ladder 1/2x, 1x, 2x; 1 pending step | both ends, slow motion and fast-forward; the real ladder has more of the same |
| `MC_Telemetry` | 1 aircraft, 1 weapon, 3 frames, 3 records | a list is swapped while a frame holds the old one; a weapon is released, seen and removed |
| `MC_FeedHistory` | 3 names, 2 slots, 3 messages, hold 2, intervals 0, 1 and 4, 3 values, flush and health every 2 cycles | one name more than slots; 4 is the least interval in which an alarm that needs both thresholds, one of them held for 2, can be deferred at all |
| `MC_Plugins` | 4 names, 6 files, 2 search paths, blocks in both orders, 4 forms, 2 builds | one file for each way a load may go: plain, overlapping another, a name of the application, a name its factory does not build, unrelated, unsound; two files that swap places when the paths do; a link; one form more than a collision needs |
| `MC_SyncPool` | T/C pool of 2 threads and the driver, 4 phases; background pool of 1 and the driver, 1 phase; lists of 4 and of 1 player | shares of two, one and no player; a thread ahead of and behind another; a phase after the first |
| `MC_Actuation` | 3 episodes, 9 frames, intervals 1 and 2, timeout 5, turns of 4 quarters | three frames of delay and a frame to notice it; a full roll takes 4 ticks after its start and a timeout 5; three episodes because the first one finds nothing |
| `MC_Squadron` | 3 aircraft, 2 threads, 2 ranges, hold 2, 6 worlds | one thread has two aircraft and the other one; two senders to one receiver with a nearer, a farther and an equal contact; a receiver out of range; an overruled sender; an aircraft under an arbiter; one that may crash |

`StepBound`, `IdleBound`, `QueueBound`, `MaxTime`, `LongAgo`, `MaxForms`,
`MaxBuilds`, `MaxEpisode` and `MaxFrame` are the only bounds that stand for something
unbounded or wider in the code. The last four are guards of the actions that
would pass them. `StepBound`
is a guard of `RequestStep`, `QueueBound` and `MaxTime` are guards of the
producer's step in `Telemetry` and a saturation in `Shutdown`; `IdleBound` and `LongAgo`
saturate a count whose larger values no formula tells apart.

## Fairness

* The T/C thread is periodic and its loop has no blocking call but the wait for
  the pool: weak fairness on its steps taken together (`TcNext`, `TcFrame`).
* A pool thread blocks only on its start signal: weak fairness per thread.
* A call into the clock that was begun runs to its end: `WF(FinishCall(c))`.
  Which calls are made is not assumed.
* `SyncPool`: a frame in progress goes on (`WF(FrameNext(q))`: its thread has no
  other work) and every pool thread runs (`WF(ThreadNext(q, w))`, as above). That a
  frame begins is not assumed, nor that a refused thread ever exists.
* Main goes through its teardown: `WF(MainNext)`. The user's signal, the keys,
  the clients of the socket, the frames of the telemetry run and the end of a
  run get no fairness: they may never come.
* `EverybodyLeaves` says *with waits long enough* (`~slow`): on a slow machine
  the code itself gives up (2 s, 3 s) and reports it.

`Dashboard`, `FeedHistory`, `Squadron`, `Plugins` and `Actuation` are checked for
safety only.

## What is proved

By the TLA+ proof system, for every value of the constants that satisfies the
named assumptions; TLC evaluates those assumptions in every run.

| Theorem | Says | Assumptions |
|---|---|---|
| `Dashboard_proofs!TypeCorrect` | `Spec => []TypeOK` (the clock's) | `ScaleAssumption`, `BoundAssumption` |
| `Dashboard_proofs!QuiesceSafe` | `Spec => []QuiesceIsProof` | the same |
| `Dashboard_proofs!StepBounded` | `Spec => []StepNeverStretched` | the same |
| `Dashboard_proofs!GateRefined` | `Spec => GateSpec` | the same |
| `Dashboard_proofs!DashboardUsesClock` | `DSpec => Spec`: the dashboard is a behaviour of the clock | the same, `DashboardAssumption` |
| `Dashboard_proofs!DashTypeCorrect` | `DSpec => []DashTypeOK` | the same |
| `Dashboard_proofs!OneWriter` | `DSpec => []OneSpeedWriter` | the same |
| `Dashboard_proofs!SpeedComesBack` | `DSpec => []LadderMatchesClock` | the same, `~MayChangeMode` |
| `Dashboard_proofs!NoStepOutlivesPause` | `DSpec => NoPhantomStepHere` | as `OneWriter` |
| `Shutdown_proofs!TypeCorrect` | `Spec => []TypeOK` | `ShutdownAssumption` |
| `Shutdown_proofs!PlayersAlone` | `Spec => []PlayersShutDownAlone` | the same |
| `Shutdown_proofs!AllRecorded` | `Spec => []NothingUnrecorded` | the same |
| `Shutdown_proofs!DestroyedByMain` | `Spec => StationDestroyedByMain` | the same |
| `Telemetry_proofs!TypeCorrect` | `Spec => []TypeOK` | `TelemetryAssumption` |
| `Telemetry_proofs!GhostsNever` | `Spec => []NoGhosts` | the same |
| `Telemetry_proofs!FileMirrors` | `Spec => []FileMirrorsDeclared` | the same |
| `Telemetry_proofs!FileHasIdentities` | the file is never shown an object without a name | the same |
| `Telemetry_proofs!IdentitiesReal` | `Spec => []IdentityIsReal` | the same |
| `Telemetry_proofs!TimeRunsOn` | `Spec => TimeNeverRunsBack` | the same |
| `Telemetry_proofs!BeamsKnown` | `Spec => BeamsOfKnownObjects` | the same |
| `FeedHistory_proofs!SlotsAreOwn` | `Spec => []SlotsAreDistinct` | `FeedAssumption` |
| `FeedHistory_proofs!LossBounded` | `Spec => []LossIsBounded` | the same |
| `FeedHistory_proofs!LatencyBounded` | `FSpec => []LatencyIsBounded` | the same |
| `FeedHistory_proofs!ArmedIsHeld` | `FSpec => ArmedOnlyIfHeld` | the same, `OwnConditions` |
| `FeedHistory_proofs!ReaderKnows` | `FSpec => []ReaderIsCurrent` | the same |
| `Squadron_proofs!FusionIsNearest` | folding one more alert into the nearest gives the nearest of all | `AlertAssumption` |
| `Squadron_proofs!FrameFollows` | `Spec => []FrameInv`: every thread's share of a frame is as in the synchronous one | `SquadronAssumption`, `AlertAssumption` |
| `Squadron_proofs!FrameImplementsSync` | `Spec => SyncSpec` | the same |
| `Squadron_proofs!AlertIsHeld` | `Spec => []AlertLastsItsHold` | the same |
| `Squadron_proofs!NobodyPassesItOn` | `Spec => []NobodyRelays` | the same |
| `Squadron_proofs!SupportWaitsForCalm` | `Spec => []SupportsOnlyWhenCalm` | the same |
| `Plugins_proofs!TypeCorrect` | `Spec => []TypeOK` | `PluginsAssumption` |
| `Plugins_proofs!PluginsReached` | `Spec => []EveryNameReachesItsPlugin` | the same |
| `Plugins_proofs!MadeByOne` | `Spec => []OneMakerPerName` | the same |
| `Plugins_proofs!Served` | `Spec => []AssertedNamesAreServed` | the same |
| `Plugins_proofs!RepeatsAreHarmless` | `Spec => RepeatIsHarmless` | the same |
| `Plugins_proofs!ImplementsOwners` | `Spec => OwnersSpec` | the same |
| `SyncPool_proofs!TypeCorrect` | `Spec => []TypeOK` | `SyncPoolAssumption` |
| `SyncPool_proofs!CrashesEarly` | `Spec => []CrashOnlyInFirstPhase` | the same |
| `SyncPool_proofs!ReadsHeldList` | `Spec => []UpdatesReadHeldList` | the same |
| `SyncPool_proofs!ImplementsLockstep` | `Spec => InLockstep` | the same |
| `Actuation_proofs!TypeCorrect` | `Spec => []TypeOK` | `PlanAssumption`, `ActuationAssumption` |
| `Actuation_proofs!StaleNoLonger` | `Spec => []StaleOnlyAtStart` | the same |
| `Actuation_proofs!ObservesItsFrame` | `Spec => []ObservationIsCurrent` | the same |
| `Actuation_proofs!DelaysByThree` | `Spec => []ThreeFramesLate` | the same |
| `Actuation_proofs!FullCircle` | `Spec => EndsFullCircle` | the same |

So every safety property of a passing run, invariant, action property or
refinement, is also a theorem. What the assumptions ask, beyond types and ranges:
the ladder has only whole speeds from 1x up (`Kept`; `SpeedLadder.cpp:9-12`), since
`setTimeScale()` would round any other and no property could give it back; the players
of a telemetry run are finitely many (`TelemetryAssumption`); a condition of the feed
belongs to one message and is either a threshold or a change (`OwnConditions`).

**Clock.** `TypeOK` is not inductive: leaving a frame goes back to the branch it
was begun from, so `TypeInv` adds that the branch is known while a frame runs.
`QuiesceIsProof` is not inductive either: it does not forbid a frame to begin
*after* the answer. `QuiesceInv` adds the missing link: an idle tick is counted only
with the stop request set and the thread outside every frame, and neither is
ever undone; an answer means two such ticks. `GateRefined` takes each step to
`BeginFrame`, `EndFrame`, `Confirm` or a stutter of `TcGate`. `StepBounded` uses
that `slowFactor` is in `1 .. RealTime` at every instant, not only between calls:
that is why reading it twice does no harm.

**Dashboard.** The properties speak of moments at rest; `DashInv` says what holds
on the way there. `ListInv`: the shape of the calls a thread still has to make --
a speed comes before the mutex is released and before the stop, a step last and only
after a pause, the release of a hit last. Every list a key starts has that shape
(`KeyLists`, `HitLists`, put together call by call), and making one call keeps it
(`TailUiShape`, `TailSimShape`). `MutexInv`: whoever has a speed left to write holds
`bpMutex`, or the mutex is free and no breakpoint is armed to be reached; after the
teardown began, its stop is still to come. `OneWriter` is read off it. `SpeedInv`: there is
one speed `s` such that every call still to be made asks for `s`, every half-made
one has written the first half of it, and if nobody is about to write, the clock
runs at `s` (`Heading`). Where the mode of an armed breakpoint does not change, `s` is
the top of the ladder while a fast breakpoint is armed and the user's speed
otherwise, and the captured speed is the user's: `arm()` captures it under the mutex
with both threads at rest, when the clock has arrived (`Arrived`). Without that
hypothesis it fails, which is `dashboard_rearm`. `PauseInv`: a pending
step means frozen, and a thread that is about to unfreeze has thrown it away.
`DashboardUsesClock` needs of `ListInv` that only speeds of the ladder are asked for.

**Shutdown.** `QuietInv` is the clock's argument again. `SignalInv`: until main wakes
the pool, a pool thread is signalled, at work or has completed, one of them at a time
and only with the phase open. Main only gets to the players after two idle ticks, so
the T/C thread is outside of a frame and no pool thread is at work: `PlayersAlone`.
`RecorderInv` orders the last drain before the recorder closes. `RefInv` counts who holds a reference at
each line of main and of the T/C thread; the count is zero only after both gave theirs
back, and main, which waits for the other, is last.

**Telemetry.** What a reader is shown depends on what was queued before a player
left, so the invariants are about the queue. `GoneInv`: behind the last sample of a player
that left there is the record of its removal, or it has been written; the player is
off the list when the removal is queued, so no sample follows. `MirrorInv`: the file
has no clients that come late, so what it knows is `declared`. `LoopInv`, for a run
without a T/C thread: the queue holds the samples of one frame, stamped with its
time and of players whose name is published, then the removals of the list that
was swapped. `SeqOfSet`: the removals are queued in some order of that set, and each of
them once.

**Feed.** `SlotInv`: given slots are distinct *and below* `nextSlot`, present or
absent; a new name takes `nextSlot`. `FlushInv`: a record is never older than the
count that leads to the next flush, plus one. `WaitInv` ties history to gate: who
waits is in the list, its gate is pending and has counted at least as long, and a
pending gate has not reached its interval; that a visit leaves the waits of other
players alone is exactly `SlotsAreDistinct`, so the two proofs meet there. `RuleInv`: a
threshold that counts has counted no more cycles than the field was beyond it in this
presence of its player, and the rules of a slot nobody was given yet are as new. `TellInv`:
what the record shows is near the reference a dead band measures from. The attempt to prove
`ReaderIsCurrent` for `By[c]` alone failed with a reason: another condition of the same message
writes a record and leaves the reference where it was, so for a message with
several conditions the bound is `2 * By[c] - 1`, and that is what is stated and proved.

**Alerts.** `Closer` is a strict total order on alerts of different senders; the
alert staged after any set of deliveries is the least of them, hence the same in
every order.

**Squadron.** `FrameInv` says of every aircraft how far the frame has come: what its
thread has done is what `SquadronFrame` does to it, what is left is as the last frame
ended, and the alert staged with a receiver is the nearest of those delivered so far
(`FusionIsNearest`). Shares are disjoint and cover everybody, so when all threads have passed
the last phase that is the synchronous frame: `FrameImplementsSync`. The three safety
properties are about whole frames: `HistoryInv` ties the hold and the timer to how long
ago a contact was heard of or seen, and that an alert's sender saw its contact itself.

**Plugins.** `RegistryInv` has four parts. `Open`: while a scenario is read the
registry is not sealed and the application's factory is set. `Owned`: the names of
a loaded file are registered to it, and only loaded files have names. `NoShadow`:
no plugin owns a name of the application. `History`: whatever was made or
asserted has its owner still. One load keeps all four because a registration
overwrites no name that had a maker; that is also the step of `NameOwners`.
`RepeatsAreHarmless` adds that a place and a name resolve to one file, and that no
module is pending outside a parse.

**Pools.** `HandInv` is a baton between the driver and each of its threads: at any
instant at most one of the start signal, the thread's work and the completed
signal carries it, exactly when the driver has started the thread in this phase
and not yet joined it, and the thread's list is then the frame's. The join at the end of a phase proves
that every thread has its signals, so no later phase can miss one. `ServedInv`:
of a share not yet taken nobody was updated, of one in progress the players left in
`todo` were not, of one that is done all were. Shares cover the list and are disjoint
(`SharesCover`, `SharesDisjoint`, from `k % n` over `1 .. n`), so at the barrier
everyone has been updated exactly once, which is `Lockstep`'s `EndPhase`.

**Actuation.** `Line` shifts along the chain: what the model holds is the decision
before the last, what JSBSim holds the one before that, what it flew the third.
`Current` says from which frame of an episode each stage belongs to that episode.
`BridgeHolds`: a reset comes only where the heading is held, so the heading that
`Autopilot::reset()` takes is the one it pushes. `Turning`: during a roll the plan's
integral is the true turn and its reference the true bank; `wrap180()` of two
banks a quarter apart is that quarter (`WrapStep`).

**Only model-checked.** Liveness (`StopIsConfirmed`, `StepsAreServed`,
`EverybodyLeaves`, `RemovalIsWritten`, `FramesEnd`), which needs fairness and `ENABLED`, out of
the reach of the prover. The three violated properties below are not true and have no
theorem but the one `SpeedComesBack` states under its hypothesis. TLC's instance of the
feed has one condition per message in the messages `ReaderIsCurrent` covers: the bound
for several is only proved.

## Where the code and its words disagree

Three runs check one property each, which a comment or a document states and TLC
finds violated.

| Run | Property | What happens |
|---|---|---|
| `shutdown_leak` | `LeakedOnlyIfHeld` | the reference count to wait for is read after `SHUTDOWN_EVENT` already let the T/C thread leave (`app/Shutdown.cpp:139`, `Run.cpp:189`): if it has left by then, main waits 3 s for a release that already happened, reports that the thread did not release the Station, and never destroys it |
| `dashboard_rearm` | `LadderMatchesClock` | armed fast, armed again in normal mode: the clock stays at the top speed for good |
| `actuation_stick` | `StickIsReleased` | the end of a roll sets the autopilot's stick to zero and heading hold on in one call, and with heading hold on the stick is never pushed: JSBSim keeps the aileron of the roll, which `A4.xml:244-253` adds to the autopilot's |

Seen in the code while modelling, without a run of their own:

* Arming a breakpoint releases `bpMutex` before it resumes
  (`DashboardFleetTab.cpp:95`): a hit in between is undone by that resume, with
  "PAUSADO" on the screen (`app/README.md:229-231`).
* `declared` is one set for both sinks (`TacviewOutput.cpp:425-437`): a client that
  connects late gets positions without names, against `TacviewOutput.cpp:260-261`.
* The teardown returns to 1x (`app/Shutdown.cpp:58`) while the background loop still
  runs: a breakpoint reached there may interleave its own `setTimeScale()` or give the
  user's speed back after it, and the shutdown waits at up to 64x, which that line is
  there to avoid. `OneSpeedWriter` exempts the teardown for this reason.
* A deferred event is forgotten when its player leaves the list for one cycle
  (`MsgFeed.cpp:212`), though a gate "adia, nunca descarta" (`xmsg/README.md:108`).
* `Agent::reset()` does not get past an arbiter (`Agent.cpp:36`): an aircraft
  begins the new episode evading a contact of the old one, against
  `NativeSimulation.cpp:61-63`.
* The priming frame and the first step of an episode fly what the last one
  commanded (`JSBSimModel::reset()`), more than the "pequena deriva numerica" of
  `NativeSimulation.hpp:41-46`.
* The bridge's documents speak of one frame between a command and its effect:
  `src/rl/README.md:263-267`, "**Latencia de atuacao de um frame**: [...] o atual so
  comeca a manifestar fisicamente no proximo `tcFrame()`", repeated by
  `libs/xrlbridge/README.md:109-114` and `poc/rl-training/README.md:177-178`. In the
  code it is three: the decision is taken in the last phase of frame N
  (`FlightAction` writes to the autopilot), the autopilot pushes it in N+1, before
  the agent decides again, `JSBSimModel::dynamics()` of N+2 writes it to JSBSim after
  its `Run()` (`JSBSimModel.cpp:675`, `743-765`), and the `Run()` of N+3 flies it. So what
  `step()` returns shows the command of three steps before. `ThreeFramesLate` states what
  the code does and passes; "flown by the next frame" is false.
* After a crash `step()` returns the observation of the frame before
  (`NativeSimulation.hpp:65-66` promises the one of "NESTE tcFrame()").
* A roll that ends in a tick without steering executes no action, and the stick
  stays in the autopilot as well.
* `wrap180(180)` is -180, where its comment says (-180, 180] (`geometry.hpp:14`).
* `reset()` creates the pool threads and `primeStation()` runs a frame at once: the
  fault that `CrashOnlyInFirstPhase` confines is reachable in every start. A
  refused `pthread_create()` (`AbstractThread_linux.cpp:112`) leads to it for sure, and
  `tcThreadsFailed` (`Simulation.cpp:275`) never sees it.
* The `FILE_ID` record is delivered by the thread that calls `sendDataRecord()`, so
  the sinks may be opened by two threads at once (`TacviewOutput.cpp:355`).
* A sink that does not open silences the whole feed and leaves the earlier sinks
  open (`MsgFeed.cpp:146`); a window of more than 256 samples becomes a shorter one
  without a word (`RateWindow.cpp:26`).
* `processQueue()` runs until the queue is empty, and nobody bounds the queue
  (`OutputHandler.cpp:116`).
* The freeze flag is read at the top of a period and again in
  `Simulation::updateTC()` (`ClockStation.cpp:155`): a frame of dt = 0 may fall
  between. `tcDt0` is that second reading.
* `setTimeScale()` is two writes the T/C thread may read between
  (`ClockStation.cpp:51-63`, `165`, `173`): one period may run its native loop short or
  long, or one frame at 1x between a slow and a fast scale. `StepNeverStretched`
  excludes the mixes that stretch the step and no other.
* A manual step runs `tcFrame()` with the freeze flag set, so `execTime` advances
  and the world gets dt = 0 (`ClockStation.cpp:161`, `Simulation.cpp:462,498`;
  `ClockStation.hpp:91` calls it one frame of simulation). `tcDt` and `tcDt0` keep
  the two apart.
* The API keeps a step asked for while running until the next pause
  (`ClockStation.hpp:108-109` says it has no effect). The dashboard cannot reach
  this (`NoPhantomStepHere`).
* A slow pool thread may drop the last reference of the Simulation and destroy the
  players after main went on (`AbstractThread_linux.cpp:28`, against
  `app/Shutdown.cpp:93-97`).
* `ReportAndEvadeAction.cpp:39-41`, `FlightAction.hpp:43` and `flight_tree.xml:29`
  say alerts are sent in phase 1 of a frame; `FlightAction::execute()` sends them in
  phase 3 of the frame that decides. `Squadron` follows the code.
* With `every` set, the reference of a dead band moves at the edge while the record
  shows the value of a later cycle, so the reader may be off by more than `by`
  (`ReaderIsCurrent` covers messages without `every`). Of a message with several
  conditions it may be off by up to `2 * by - 1` even so, where `xmsg/README.md:37-39`
  speaks of `by`.
* A message with `match: all` needs the edges of all its conditions in the same cycle.
* Slots are never given back: names that come and go exhaust `maxPlayers`, and later
  players are ignored for good. The code means to (`MsgFeed.cpp:198-201`);
  `SlotsAreDistinct` says nothing of it, only that no slot serves two names.
* With a T/C thread the telemetry stream does run back (radar beams are stamped
  later than records still queued) and a weapon may be declared under a guessed
  identity; `TimeNeverRunsBack` and `IdentityIsReal` cover the runner without one.

## What is not modelled

*In the modelled parts.*

* Clock: the shortcut of `waitForTcQuiesced()` without a T/C thread; guards
  against a missing Simulation.
* Shutdown: the watchdog's `_Exit()`, which only cuts a behaviour short; a Station
  that is not a `ClockStation`; the background pool.
* Pools: scheduling priorities, clocks, counters of frames; the exit, which is in
  `Shutdown`.
* Plugins: the guards on the descriptor's ABI are one Boolean per file; the list of
  MetaObjects that `plugininfo` prints.
* Bridge and actuation: the clipping of a command, the contract of observation
  fields, `step()` before `reset()`; the seed of an interval, the smoothing of a heading,
  other modes of the autopilot, the joystick, the launch of a missile.
* Dashboard: drawing, mouse, map, trails; a restart is a quit and a new process.
* Telemetry: records no scenario enables (`WEAPON_*`, `TRACK`, `MARKER`), the text
  of a line, the opening of the sinks.
* Feed: the window that computes a rate (its value is a threshold's input, invalid
  until ready), health counters, the filter of a sink, a second sink, the content
  of a record.
* Squadron: the branch of the radar warning receiver, which no scenario arms; the
  second delivery of an alert by `EID_ALERT`, which no A-4 consumes; counters and
  the board; commands to the autopilot and the launch of missiles. Fuel and the
  safety behaviour are one input, `overruled`. Time is counted in frames. Engaged
  is "the timer is positive" and contact live is "the timer is full", which is what
  `ThreatPolicy::update()` keeps. Positions do not move between phase 0 and the end
  of the frame, so being within range is a property of the frame. A crash is chosen
  in phase 0.

*Components.* The board, the log, the joystick, terrain, tracks
and random streams keep a last value or are pure functions. Python and ONNX compute
what is outside the repository. Navigation is floating-point geometry of one aircraft. Panels, editor, scenario parsing and respawn are text and drawing. The
rest of MIXR and BehaviorTree.CPP is third-party; what this program depends on is
modelled with its users.

## Plan

Done: steps 1 to 8. The order is by what a wrong answer costs: first the clock and
the end of a run, on which everything else relies, then the state shared by
threads, then the pure algorithms.

1. `TcGate`, `ClockStation`, their theorems.
2. `Shutdown`.
3. `Dashboard`, composed with `ClockStation`.
4. `MessageFeed`, `FeedHistory`, their theorems; `Telemetry`.
5. `TacticalAlert`, `SquadronFrame`, `Squadron`, refinement; order-independence proved.
6. `Lockstep`, `SyncPool`, refinement; all of its safety proved.
7. `NameOwners`, `Plugins`, refinement; all of it proved.
8. `AerobaticPlan`, `Actuation`; all of its passing run proved.
9. `RateWindow`: the ring as a pure algorithm against its definition, with the
   silent truncation at 256 samples.
10. `Detonation`: a missile in phase 0, its target on another thread; the radar
    warning branch with `EvasionReactionPlan`.
11. Who destroys the Simulation, in `Shutdown`; opening of the sinks, in `Telemetry`.

Proofs: every safety property of a passing run is proved. What is left is to
prove of the operators what the later steps of the plan will need -- the ring of
`RateWindow`, the hand-over of a detonation between threads.
