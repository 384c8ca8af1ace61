----------------------------- MODULE Actuation -----------------------------
(***************************************************************************)
(* From a decision to the surfaces: one A-4 flown by commands that a        *)
(* training process leaves in libs/xrlbridge, or by the behaviour tree that *)
(* alternates slow rolls and navigation.  In the last phase of a frame the  *)
(* autopilot hands its modes to the dynamics model and then the agent       *)
(* decides; in the first phase of the next one the dynamics model runs      *)
(* JSBSim and only then writes it what it has.  A decision is identified by *)
(* its episode and frame.                                                   *)
(***************************************************************************)
EXTENDS AerobaticPlan

CONSTANTS
  Sources,      \* who decides: "bridge", "tree"
  MaxEpisode,   \* bound: calls of reset()
  MaxFrame      \* bound: frames of an episode, the priming one included

ASSUME ActuationAssumption ==
  /\ Sources \subseteq {"bridge", "tree"}
  /\ MaxEpisode \in Nat \ {0} /\ MaxFrame \in Nat \ {0}

VARIABLES
  source,   \* who decides in this process
  episode,  \* calls of reset() so far
  frame,    \* frames the aircraft has flown since
  mode,     \* "off" before the first reset, "active", "crashed"
  pending,  \* g_command
  obs,      \* g_observation: the frame it shows
  pilot,    \* Autopilot: cmdHdg, cmdAlt and cmdSpd, hdgHoldOn, stickRollPos
  model,    \* JSBSimModel: commanded heading, altitude and speed, heading hold
  fdm,      \* JSBSim: ap/* and fcs/aileron-cmd-norm
  flown,    \* history: what JSBSim last ran with
  recent,   \* history: what was decided in the last four frames, latest first
  plan,     \* AerobaticPlan
  bank,     \* rollDeg
  turned    \* history: how far the aircraft turned since the roll began

chainVars == <<pilot, model, fdm, flown, recent>>
rollVars  == <<plan, bank, turned>>
vars == <<source, episode, frame, mode, pending, obs, chainVars, rollVars>>

Moments   == (0 .. MaxEpisode) \X (0 .. MaxFrame)
NoCommand == <<>>
Now       == <<episode', frame'>>

Held     == [heading : Moments, rest : Moments, hold : BOOLEAN]
Pilots   == [heading : Moments, rest : Moments, hold : BOOLEAN, stick : {0, Stick}]
Surfaces == [heading : Moments, rest : Moments, hold : BOOLEAN, aileron : {0, Stick}]

\* What the members hold before anything is commanded.
Unset == <<0, 0>>

Decided(p) == [heading |-> p.heading, rest |-> p.rest, hold |-> p.hold]
After(past, p) == [k \in 1 .. 4 |-> IF k = 1 THEN Decided(p) ELSE past[k - 1]]

Init ==
  /\ source \in Sources
  /\ episode = 0 /\ frame = 0 /\ mode = "off"
  /\ pending = NoCommand
  /\ obs = Unset
  /\ pilot = [heading |-> Unset, rest |-> Unset, hold |-> TRUE, stick |-> 0]
  /\ model = [heading |-> Unset, rest |-> Unset, hold |-> FALSE]
  /\ fdm   = [heading |-> Unset, rest |-> Unset, hold |-> FALSE, aileron |-> 0]
  /\ flown = fdm
  /\ recent = [k \in 1 .. 4 |-> Decided(pilot)]
  /\ plan \in {Fresh(n) : n \in Intervals}
  /\ bank = 0 /\ turned = 0

-----------------------------------------------------------------------------
(* Frames of the aircraft, as functions of what the stages hold.             *)

\* JSBSimModel::dynamics(), after Run(): what the next frame will fly.
Written(f, m) == [f EXCEPT !.heading = m.heading, !.rest = m.rest, !.hold = m.hold]

\* Mutant: the properties are written before Run().
Flown_WrittenFirst(f, m) == Written(f, m)

\* JSBSimModel::dynamics(): Run() takes the properties as it finds them.
Flown(f, m) == f

\* Autopilot::process(): the heading, or the stick, but never both; altitude
\* and velocity are always on hold.
Pushed(p, m) ==
  IF p.hold THEN [heading |-> p.heading, rest |-> p.rest, hold |-> TRUE]
            ELSE [m EXCEPT !.rest = p.rest, !.hold = FALSE]

\* setControlStickRollInput(): FGFCS::SetDaCmd() keeps what it was last given.
Stuck(p, f) == IF p.hold THEN f ELSE [f EXCEPT !.aileron = p.stick]

\* FlightAction::execute(), its two branches, and a frame without an action.
Execute(p, action) ==
  CASE action.kind = "roll" -> [p EXCEPT !.hold = FALSE, !.stick = Stick, !.rest = action.of]
    [] action.kind = "fly"  -> [heading |-> action.of, rest |-> action.of, hold |-> TRUE, stick |-> 0]
    [] action.kind = "none" -> p

Fly(of) == [kind |-> "fly", of |-> of]
Nothing == [kind |-> "none", of |-> Unset]

\* The four phases of one frame: dynamics, autopilot, agent. p is the autopilot as
\* the frame finds it, past what was decided until then.
PlayerFrame(past, p, action) ==
  /\ flown'  = Flown(fdm, model)
  /\ fdm'    = Stuck(p, Written(fdm, model))
  /\ model'  = Pushed(p, model)
  /\ pilot'  = Execute(p, action)
  /\ recent' = After(past, pilot')

\* Player::dynamics() finds the aircraft below the ground: the phases left of
\* this frame pass it by, and so does every later frame.
CrashFrame ==
  /\ mode' = "crashed"
  /\ frame' = frame + 1
  /\ flown' = Flown(fdm, model)
  /\ fdm' = Written(fdm, model)
  /\ recent' = After(recent, pilot)
  /\ UNCHANGED <<source, episode, obs, pilot, model, rollVars>>

-----------------------------------------------------------------------------
(* Decisions.                                                                *)

\* The arbiter: AltitudeSafetyBehavior outvotes RLBridgeBehavior, which has an
\* action only when a command is pending.
BridgeAction(command, low) ==
  IF low THEN Fly(Now) ELSE IF command = NoCommand THEN Nothing ELSE Fly(command)

\* The Fallback of flight_tree_random.xml: SlowRoll, then Navigate, which needs
\* the steering of the route.
TreeAction(rolling, steering) ==
  IF rolling THEN [kind |-> "roll", of |-> Now] ELSE IF steering THEN Fly(Now) ELSE Nothing

\* RLBridgeBehavior::genAction() in a frame; rolls are none of its business.
BridgeDecides(past, p, command) ==
  /\ \E low \in BOOLEAN : PlayerFrame(past, p, BridgeAction(command, low))
  /\ obs' = Now
  /\ UNCHANGED rollVars

\* BtBehavior::genAction() in a frame, in which the aircraft banks by delta.
TreeDecides(past, p) ==
  \E delta \in {-1, 0, 1}, margin, steering \in BOOLEAN, interval \in Intervals :
    /\ bank' = (bank + delta) % Turn
    /\ plan' = Update(plan, bank', margin, interval)
    /\ turned' = IF plan.phase = "Idle" THEN 0 ELSE turned + delta
    /\ PlayerFrame(past, p, TreeAction(plan'.phase = "Rolling", steering))
    /\ UNCHANGED obs

Decides(past, p, command) ==
  \/ source = "bridge" /\ BridgeDecides(past, p, command)
  \/ source = "tree"   /\ TreeDecides(past, p)

\* Autopilot::reset(): what is on hold becomes what the aircraft does. The
\* dynamics model and JSBSim keep what they were told.
Rearmed(p, now) == [p EXCEPT !.heading = IF p.hold THEN now ELSE @, !.rest = now]

\* Mutants: the command of the last episode is still pending; the frame that
\* primes the station is left out.
Reset_KeepsCommand ==
  /\ source = "bridge" \/ episode = 0
  /\ episode < MaxEpisode
  /\ episode' = episode + 1 /\ frame' = 1 /\ mode' = "active"
  /\ LET p == Rearmed(pilot, <<episode', 0>>)
     IN Decides(After(recent, p), p, pending)
  /\ UNCHANGED <<source, pending>>
Reset_WithoutFrame ==
  /\ source = "bridge" \/ episode = 0
  /\ episode < MaxEpisode
  /\ episode' = episode + 1 /\ frame' = 1 /\ mode' = "active"
  /\ pending' = NoCommand
  /\ pilot' = Rearmed(pilot, <<episode', 0>>)
  /\ recent' = After(After(recent, pilot'), pilot')
  /\ UNCHANGED <<source, obs, model, fdm, flown, rollVars>>

\* NativeSimulation::reset(): no command is pending, RESET_EVENT, one frame.
\* The tree's run has one of them, at its start.
Reset ==
  /\ source = "bridge" \/ episode = 0
  /\ episode < MaxEpisode
  /\ episode' = episode + 1 /\ frame' = 1 /\ mode' = "active"
  /\ pending' = NoCommand
  /\ LET p == Rearmed(pilot, <<episode', 0>>)
     IN Decides(After(recent, p), p, NoCommand)
  /\ UNCHANGED source

\* NativeSimulation::step() leaves a command; the tree's frames have none.
Command == IF source = "bridge" THEN <<episode, frame + 1>> ELSE NoCommand

Step ==
  /\ mode = "active" /\ frame < MaxFrame
  /\ frame' = frame + 1
  /\ pending' = Command
  /\ UNCHANGED <<source, episode, mode>>
  /\ Decides(recent, pilot, pending')

StepCrashes ==
  /\ mode = "active" /\ frame < MaxFrame
  /\ pending' = Command
  /\ CrashFrame

\* step() after a crash: the command is left, nobody flies it.
StepCrashed ==
  /\ mode = "crashed" /\ source = "bridge" /\ frame < MaxFrame
  /\ pending' = Command
  /\ UNCHANGED <<source, episode, frame, mode, obs, chainVars, rollVars>>

Next == Reset \/ Step \/ StepCrashes \/ StepCrashed

Spec == Init /\ [][Next]_vars

-----------------------------------------------------------------------------

\* Types: every stage of the chain holds a moment, a mode and a stick.
TypeOK ==
  /\ source \in Sources
  /\ episode \in 0 .. MaxEpisode /\ frame \in 0 .. MaxFrame
  /\ mode \in {"off", "active", "crashed"}
  /\ obs \in Moments
  /\ pilot \in Pilots /\ model \in Held /\ fdm \in Surfaces /\ flown \in Surfaces
  /\ recent \in [1 .. 4 -> Held]
  /\ plan \in Plans /\ bank \in Banks /\ turned \in Int

\* RESET_EVENT does not reach what the dynamics model and JSBSim were told, so
\* an episode begins by flying commands of the one before -- in the frame that
\* primes the station and in the first step, and never after.
StaleOnlyAtStart ==
  frame >= 3 => flown.heading[1] = episode /\ flown.rest[1] = episode

\* What step() and reset() return is of the frame they ran; the answer of the
\* step that crashed, and of all that follow, shows the frame before it.
ObservationIsCurrent ==
  source = "bridge" /\ mode # "off" =>
    obs = <<episode, IF mode = "active" THEN frame ELSE frame - 1>>

\* Autopilot, dynamics model and JSBSim delay a decision by three frames, and
\* lose or mix none: altitude and velocity always, the heading when it is held.
\* src/rl/README.md:263-267 speaks of one frame, "Latencia de atuacao de um frame":
\* that is only the first of the three, from the decision to the autopilot's push.
ThreeFramesLate ==
  frame >= 3 => /\ flown.rest = recent[4].rest
                /\ flown.hold = recent[4].hold
                /\ recent[4].hold => flown.heading = recent[4].heading

\* A roll ends with the tick in which the aircraft has gone full circle, in
\* either direction, or the time is over -- however often the bank it reads
\* jumps from one end of its range to the other.
EndsFullCircle ==
  [][plan.phase = "Rolling" =>
       (plan'.phase = "Idle" <=> \/ Magnitude(turned') >= Turn
                                \/ plan'.elapsed >= Timeout)]_rollVars

\* FlightAction.cpp:192-197: the stick is zeroed on every way out of a roll, for
\* JSBSim keeps the last one. Here: three decisions later it flies without it.
StickIsReleased ==
  frame >= 4 /\ (\A k \in 2 .. 4 : recent[k].hold) => flown.aileron = 0
=============================================================================
