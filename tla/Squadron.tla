------------------------------ MODULE Squadron ------------------------------
(* The frame of the squadron as the pool of time-critical threads computes  *)
(* it: two phases that matter, receive and process, each split among the    *)
(* threads and closed by a barrier. A thread that decides to evade delivers *)
(* its alert into the datalinks of the others, while their own threads are  *)
(* deciding (Simulation.cpp, FlightAgentTC.cpp, FlightAction.cpp,           *)
(* AlertDatalink.cpp).                                                      *)
EXTENDS TacticalAlert

CONSTANTS NumThreads,  \* T/C threads, the caller of updateTC() included
          Worlds, MayCrash, Arbitrated

Threads == 1 .. NumThreads

ASSUME SquadronAssumption ==
  /\ NumThreads \in Nat \ {0}
  /\ Worlds \subseteq World
  /\ MayCrash \subseteq Pilots /\ Arbitrated \subseteq Pilots

VARIABLES
  phase,    \* phase of the frame in progress, "idle" between frames
  running,  \* FALSE in a frame of a frozen simulation (dt = 0)
  world,    \* what is perceived in the frame in progress
  index,    \* next player of each thread in updateTcPlayerList()
  walk,     \* next receiver of the alert a thread is sending, 0 when none
  staged, current, hold,  \* AlertDatalink of each aircraft
  timer,    \* ThreatPolicy of each aircraft
  label,    \* behaviour each aircraft last acted
  up,       \* aircraft that have not crashed
  last,     \* history: the state the last frame ended with
  heard,    \* history: frames since an alert was accepted
  saw       \* history: frames since a contact was seen
threadVars == <<index, walk>>
modelVars  == <<staged, current, hold, timer, label, up>>
history    == <<last, heard, saw>>
vars == <<phase, running, world, threadVars, modelVars, history>>

\* Bound of the two counters of frames: past it they say "long ago".
LongAgo == HoldTime + EvadeHold + 1
Older(n) == IF n < LongAgo THEN n + 1 ELSE n

Snapshot == [staged |-> staged, current |-> current, hold |-> hold,
             timer |-> timer, label |-> label, up |-> up]

Init ==
  /\ phase = "idle" /\ running = FALSE /\ world = Nothing
  /\ index = [t \in Threads |-> t] /\ walk = [t \in Threads |-> 0]
  /\ staged  = [p \in Pilots |-> NoAlert]
  /\ current = [p \in Pilots |-> NoAlert]
  /\ hold    = [p \in Pilots |-> 0]
  /\ timer   = [p \in Pilots |-> 0]
  /\ label   = [p \in Pilots |-> "PATROL"]
  /\ up      = Pilots
  /\ last = Snapshot
  /\ heard = [p \in Pilots |-> LongAgo] /\ saw = [p \in Pilots |-> LongAgo]

\* Phases 0 and 1: the aircraft move, and may hit the ground; the radars look.
BeginFrame ==
  /\ phase = "idle" /\ phase' = "receive"
  /\ running' = TRUE
  /\ world' \in Worlds
  /\ \E crashed \in SUBSET (up \cap MayCrash) : up' = up \ crashed
  /\ UNCHANGED <<threadVars, staged, current, hold, timer, label, history>>

\* A frame of a frozen simulation goes through the same phases with dt = 0.
BeginFrozenFrame ==
  /\ phase = "idle" /\ phase' = "receive"
  /\ running' = FALSE
  /\ UNCHANGED <<world, threadVars, modelVars, history>>

\* The player thread t is on, and its step to the next of its share.
Own(t)     == index[t]
Advance(t) == index' = [index EXCEPT ![t] = @ + NumThreads]
Acts(t)    == running /\ Own(t) \in up

\* AlertDatalink::receive(), phase 2.
Receive(t) ==
  /\ phase = "receive" /\ Own(t) \in Pilots
  /\ LET p == Own(t) IN
       IF Acts(t)
       THEN /\ current' = [current EXCEPT ![p] = Promoted(staged[p], @, hold[p])]
            /\ hold'    = [hold EXCEPT ![p] = HoldAfter(staged[p], @)]
            /\ staged'  = [staged EXCEPT ![p] = NoAlert]
       ELSE UNCHANGED <<current, hold, staged>>
  /\ Advance(t)
  /\ UNCHANGED <<phase, running, world, walk, timer, label, up, history>>

\* What p makes of the frame: its hysteresis, fed before the tree is ticked, the
\* arbiter's preference for another behaviour, the action that comes out.
After(p)     == ThreatUpdate(timer[p], world.sees[p])
Overruled(p) == p \in world.overruled
Choice(p)    == Decision(Overruled(p), After(p), world.sees[p], current[p])

\* FlightAction::execute(): with the contact in sight the action goes on to
\* broadcast; the thread is done with the player else.
Execute(t, p) ==
  IF Choice(p) = "EVADE"
  THEN walk' = [walk EXCEPT ![t] = 1] /\ UNCHANGED index
  ELSE Advance(t) /\ UNCHANGED walk

\* FlightAgentTC::controller(), phase 3: perceive, decide, act.
Decide(t) ==
  /\ phase = "process" /\ Own(t) \in Pilots /\ walk[t] = 0
  /\ LET p == Own(t) IN
       IF Acts(t)
       THEN /\ timer' = [timer EXCEPT ![p] = After(p)]
            /\ label' = [label EXCEPT ![p] = Choice(p)]
            /\ Execute(t, p)
       ELSE Advance(t) /\ UNCHANGED <<timer, label, walk>>
  /\ UNCHANGED <<phase, running, world, staged, current, hold, up, history>>

\* One step of the walk of broadcastAlert() over the player list: the alert
\* is staged by the sender's thread, under the receiver's mutex.
Deliver(t) ==
  /\ walk[t] # 0
  /\ LET s == Own(t)
         r == walk[t]
         alert == [sender |-> s, range |-> world.sees[s]]
     IN /\ staged' = IF r # s /\ r \in up /\ Accepts(r, s, world)
                     THEN [staged EXCEPT ![r] = Fuse(@, alert)] ELSE staged
        /\ IF r = NumPilots
           THEN walk' = [walk EXCEPT ![t] = 0] /\ Advance(t)
           ELSE walk' = [walk EXCEPT ![t] = r + 1] /\ UNCHANGED index
  /\ UNCHANGED <<phase, running, world, current, hold, timer, label, up, history>>

\* SyncThread::waitForAllCompleted(): every thread has done its share.
PhaseDone == \A t \in Threads : index[t] > NumPilots

EndReceive ==
  /\ phase = "receive" /\ PhaseDone
  /\ phase' = "process"
  /\ index' = [t \in Threads |-> t]
  /\ UNCHANGED <<running, world, walk, modelVars, history>>

EndFrame ==
  /\ phase = "process" /\ PhaseDone
  /\ phase' = "idle" /\ running' = FALSE /\ world' = Nothing
  /\ index' = [t \in Threads |-> t]
  /\ last' = Snapshot
  /\ IF running
     THEN /\ heard' = [p \in Pilots |-> IF staged[p] # NoAlert THEN 0 ELSE Older(heard[p])]
          /\ saw'   = [p \in Pilots |-> IF p \in up /\ world.sees[p] # 0 THEN 0 ELSE Older(saw[p])]
     ELSE UNCHANGED <<heard, saw>>
  /\ UNCHANGED <<walk, modelVars>>

\* Agent::reset() resets the behaviour it holds: the tree, or an arbiter, which
\* does not pass the call on.
TimersAfterReset == [p \in Pilots |-> IF p \in Arbitrated THEN timer[p] ELSE 0]

\* NativeSimulation::reset() on a Station already built, between two frames.
Reset ==
  /\ phase = "idle"
  /\ staged'  = [p \in Pilots |-> NoAlert]
  /\ current' = [p \in Pilots |-> NoAlert]
  /\ hold'    = [p \in Pilots |-> 0]
  /\ timer'   = TimersAfterReset
  /\ up'      = Pilots
  /\ last' = [last EXCEPT !.staged = staged', !.current = current', !.hold = hold',
                          !.timer = timer', !.up = up']
  /\ heard' = [p \in Pilots |-> LongAgo] /\ saw' = [p \in Pilots |-> LongAgo]
  /\ UNCHANGED <<phase, running, world, threadVars, label>>

ThreadNext(t) == Receive(t) \/ Decide(t) \/ Deliver(t)
Next == BeginFrame \/ BeginFrozenFrame \/ EndReceive \/ EndFrame \/ Reset \/ \E t \in Threads : ThreadNext(t)
Spec == Init /\ [][Next]_vars

----------------------------------------------------------------------------

\* The frame the threads compute, in any order of their steps, is the frame of
\* the synchronous specification: the result does not depend on how many
\* threads there are nor on which alert arrives first (the claim of
\* README.md:113 and of AlertDatalink.hpp:70-77).
Sync == INSTANCE SquadronFrame WITH
          staged <- last.staged, current <- last.current, hold <- last.hold,
          timer <- last.timer, label <- last.label, up <- last.up
SyncSpec == Sync!SSpec

\* An alert is held for exactly HoldTime frames, from the frame after the one
\* it was sent in: never on the very frame, never one frame more.
AlertLastsItsHold ==
  phase = "idle" =>
    \A p \in up : /\ heard[p] \in 1 .. HoldTime => current[p] # NoAlert
                  /\ heard[p] > HoldTime => current[p] = NoAlert

\* Nobody relays: the sender of an alert saw the contact itself, no longer ago
\* than the alert is old (ReportAndEvadeAction.cpp:44-47, only what is in sight
\* is told).
NobodyRelays ==
  phase = "idle" =>
    \A r \in up :
      /\ staged[r] # NoAlert => saw[staged[r].sender] <= heard[r]
      /\ current[r] # NoAlert /\ staged[r] = NoAlert => saw[current[r].sender] <= heard[r]

\* The two branches of the tree never alternate around a flickering track: an
\* aircraft supports an alert only when its own contact is EvadeHold frames old
\* (flight_tree.xml, "os dois ramos alternam para sempre").
SupportsOnlyWhenCalm ==
  phase = "idle" => \A p \in up : label[p] = "SUPPORT" => saw[p] >= EvadeHold

=============================================================================
