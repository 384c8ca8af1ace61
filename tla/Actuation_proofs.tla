-------------------------- MODULE Actuation_proofs --------------------------
(***************************************************************************)
(* Proofs about Actuation, for any intervals, timeout and number of frames  *)
(* and episodes.  The delay is carried by Line: each stage of the chain     *)
(* holds what was decided one frame before the stage ahead of it.           *)
(***************************************************************************)
EXTENDS Actuation, TLAPS

ActionSet == [kind : {"roll", "fly", "none"}, of : Moments]

\* A stage holds a decision; a heading only matters when it is held.
Follows(stage, d) ==
  /\ stage.rest = d.rest
  /\ stage.hold = d.hold
  /\ d.hold => stage.heading = d.heading

Started == IF mode = "off" THEN frame = 0 ELSE episode >= 1 /\ frame >= 1

\* Only the tree, and only in its one episode, lets go of the heading.
BridgeHolds == source = "bridge" \/ episode = 0 => pilot.hold

Line ==
  /\ mode = "active" => Follows(model, recent[2]) /\ Decided(pilot) = recent[1]
  /\ mode # "off" /\ frame >= 2 => Follows(fdm, recent[3])
  /\ mode # "off" /\ frame >= 3 => Follows(flown, recent[4])

OfEpisode(stage) == stage.heading[1] = episode /\ stage.rest[1] = episode

Current ==
  mode # "off" => /\ OfEpisode(pilot)
                  /\ OfEpisode(model)
                  /\ frame >= 2 => OfEpisode(fdm)
                  /\ frame >= 3 => OfEpisode(flown)

Turning ==
  plan.phase = "Rolling" => Stick # 0 /\ plan.lastRoll = bank /\ plan.accumulated = turned

Inv == TypeOK /\ Started /\ BridgeHolds /\ Line /\ Current /\ Turning /\ ObservationIsCurrent

-----------------------------------------------------------------------------
\* One quarter of a turn more or less, whatever the bank it starts from, is
\* integrated as one quarter (wrap180() of the difference).
LEMMA WrapStep ==
  ASSUME NEW b \in Banks, NEW delta \in {-1, 0, 1}
  PROVE  /\ (b + delta) % Turn \in Banks
         /\ Wrap(((b + delta) % Turn) - b) = delta
<1>1. CASE b = 0  BY <1>1 DEF Banks, Turn, Wrap
<1>2. CASE b = 1  BY <1>2 DEF Banks, Turn, Wrap
<1>3. CASE b = 2  BY <1>3 DEF Banks, Turn, Wrap
<1>4. CASE b = 3  BY <1>4 DEF Banks, Turn, Wrap
<1> QED BY <1>1, <1>2, <1>3, <1>4 DEF Banks, Turn

\* AerobaticPlan::update() keeps its types.
LEMMA UpdateType ==
  ASSUME NEW q \in Plans, NEW b \in Banks, NEW margin \in BOOLEAN, NEW n \in Intervals
  PROVE  Update(q, b, margin, n) \in Plans
<1>1. Wrap(b - q.lastRoll) \in Int
  BY DEF Plans, Banks, Turn, Wrap
<1>2. [q EXCEPT !.elapsed = @ + 1,
                !.accumulated = @ + Wrap(b - q.lastRoll),
                !.lastRoll = b] \in Plans
  <2>1. q.elapsed + 1 \in Nat /\ q.accumulated + Wrap(b - q.lastRoll) \in Int
    BY <1>1 DEF Plans
  <2>2. \A x \in Nat, y \in Int :
          [q EXCEPT !.elapsed = x, !.accumulated = y, !.lastRoll = b] \in Plans
    BY DEF Plans
  <2> QED BY <2>1, <2>2
<1>3. n \in Int
  BY PlanAssumption
<1>4. \A r \in Plans : [r EXCEPT !.phase = "Idle", !.timer = n] \in Plans
  BY <1>3 DEF Plans
<1>5. Roll(q, b, n) \in Plans
  BY <1>2, <1>4 DEF Roll
<1>6. Wait(q, b, margin) \in Plans
  BY DEF Wait, Plans
<1> QED BY <1>5, <1>6 DEF Update, Plans

\* A rolling plan integrates this tick's quarter of a turn, and ends if that
\* makes a full circle or the time is over.
LEMMA RollStep ==
  ASSUME NEW q \in Plans, NEW delta \in {-1, 0, 1}, NEW b,
         NEW margin \in BOOLEAN, NEW n \in Intervals,
         q.phase = "Rolling", Stick # 0, b = (q.lastRoll + delta) % Turn
  PROVE  /\ Update(q, b, margin, n).accumulated = q.accumulated + delta
         /\ Update(q, b, margin, n).lastRoll = b
         /\ Update(q, b, margin, n).elapsed = q.elapsed + 1
         /\ Update(q, b, margin, n).phase = "Idle"
              <=> (Magnitude(q.accumulated + delta) >= Turn \/ q.elapsed + 1 >= Timeout)
<1>1. Wrap(b - q.lastRoll) = delta
  BY WrapStep DEF Plans
<1>2. Update(q, b, margin, n) = Roll(q, b, n)
  BY DEF Update
<1> DEFINE rolled == [q EXCEPT !.elapsed = @ + 1,
                               !.accumulated = @ + Wrap(b - q.lastRoll),
                               !.lastRoll = b]
           ends   == Magnitude(rolled.accumulated) >= Turn \/ rolled.elapsed >= Timeout
<1>3. Roll(q, b, n) = IF ends THEN [rolled EXCEPT !.phase = "Idle", !.timer = n] ELSE rolled
  BY DEF Roll
<1>4. /\ rolled.accumulated = q.accumulated + delta
      /\ rolled.lastRoll = b
      /\ rolled.phase = "Rolling"
      /\ rolled.elapsed = q.elapsed + 1
  BY <1>1 DEF Plans
<1>5. DOMAIN rolled = {"phase", "timer", "elapsed", "accumulated", "lastRoll"}
  BY DEF Plans
<1> HIDE DEF rolled
<1>6. CASE ends      BY <1>2, <1>3, <1>4, <1>5, <1>6
<1>7. CASE ~ends     BY <1>2, <1>3, <1>4, <1>7
<1> QED BY <1>6, <1>7

\* A roll begins with nothing integrated and the bank of its first tick.
LEMMA WaitStep ==
  ASSUME NEW q \in Plans, NEW b \in Banks, NEW margin \in BOOLEAN, NEW n \in Intervals,
         q.phase = "Idle", Update(q, b, margin, n).phase = "Rolling"
  PROVE  /\ Stick # 0
         /\ Update(q, b, margin, n).lastRoll = b
         /\ Update(q, b, margin, n).accumulated = 0
  BY DEF Update, Wait, Plans

-----------------------------------------------------------------------------
(* What one frame does to the stages, whatever was decided in it.            *)

\* The stages keep their types.
LEMMA FrameType ==
  ASSUME TypeOK, NEW p \in Pilots, NEW past \in [1 .. 4 -> Held], NEW action \in ActionSet,
         PlayerFrame(past, p, action)
  PROVE  /\ flown' \in Surfaces /\ fdm' \in Surfaces
         /\ model' \in Held /\ pilot' \in Pilots
         /\ recent' \in [1 .. 4 -> Held]
<1> USE DEF TypeOK, PlayerFrame
<1>1. flown' \in Surfaces
  BY DEF Flown
<1>2. fdm' \in Surfaces
  <2>1. Written(fdm, model) \in Surfaces
    BY DEF Written, Held, Surfaces
  <2>2. p.stick \in {0, Stick}
    BY DEF Pilots
  <2> QED BY <2>1, <2>2 DEF Stuck, Surfaces
<1>3. model' \in Held
  BY DEF Pushed, Held, Pilots
<1>4. pilot' \in Pilots
  BY DEF Execute, Pilots, ActionSet
<1>5. Decided(pilot') \in Held
  BY <1>4 DEF Decided, Pilots, Held
<1>6. recent' = [k \in 1 .. 4 |-> IF k = 1 THEN Decided(pilot') ELSE past[k - 1]]
  BY DEF After
<1>7. \A k \in 1 .. 4 : k # 1 => past[k - 1] \in Held
  OBVIOUS
<1> QED BY <1>1, <1>2, <1>3, <1>4, <1>5, <1>6, <1>7

\* What was decided moves on by one frame, and every stage by one decision.
LEMMA FrameFollows ==
  ASSUME TypeOK, NEW p \in Pilots, NEW past \in [1 .. 4 -> Held], NEW action \in ActionSet,
         PlayerFrame(past, p, action)
  PROVE  /\ recent'[1] = Decided(pilot')
         /\ recent'[2] = past[1] /\ recent'[3] = past[2] /\ recent'[4] = past[3]
         /\ Follows(model', Decided(p))
         /\ \A d : Follows(model, d) => Follows(fdm', d)
         /\ \A d : Follows(fdm, d) => Follows(flown', d)
<1> USE DEF TypeOK, PlayerFrame
<1>1. /\ recent'[1] = Decided(pilot')
      /\ recent'[2] = past[1] /\ recent'[3] = past[2] /\ recent'[4] = past[3]
  BY DEF After
<1>2. Follows(model', Decided(p))
  BY DEF Pushed, Held, Pilots, Follows, Decided
<1>3. fdm'.heading = model.heading /\ fdm'.rest = model.rest /\ fdm'.hold = model.hold
  BY DEF Stuck, Written, Surfaces
<1>4. \A d : Follows(model, d) => Follows(fdm', d)
  BY <1>3 DEF Follows
<1>5. \A d : Follows(fdm, d) => Follows(flown', d)
  BY DEF Flown
<1> QED BY <1>1, <1>2, <1>4, <1>5

\* A frame hands the episode of a decision on from stage to stage.
LEMMA FrameEpisode ==
  ASSUME TypeOK, NEW p \in Pilots, NEW past \in [1 .. 4 -> Held], NEW action \in ActionSet,
         PlayerFrame(past, p, action),
         NEW e, p.heading[1] = e, p.rest[1] = e,
         action.kind # "none" => action.of[1] = e
  PROVE  /\ pilot'.heading[1] = e /\ pilot'.rest[1] = e
         /\ model'.rest[1] = e
         /\ p.hold \/ model.heading[1] = e => model'.heading[1] = e
         /\ fdm'.heading = model.heading /\ fdm'.rest = model.rest
         /\ flown' = fdm
         /\ p.hold /\ action.kind # "roll" => pilot'.hold
<1> USE DEF TypeOK, PlayerFrame
<1>1. pilot'.heading[1] = e /\ pilot'.rest[1] = e
  BY DEF Execute, Pilots, ActionSet
<1>2. model'.rest[1] = e /\ (p.hold \/ model.heading[1] = e => model'.heading[1] = e)
  BY DEF Pushed, Held, Pilots
<1>3. fdm'.heading = model.heading /\ fdm'.rest = model.rest
  BY DEF Stuck, Written, Surfaces
<1>4. p.hold /\ action.kind # "roll" => pilot'.hold
  BY DEF Execute, Pilots, ActionSet
<1> QED BY <1>1, <1>2, <1>3, <1>4 DEF Flown

\* Whoever decides, the frame has one action, of this frame; the tree's is the
\* only one that rolls, and the bridge's is seen by the training process.
LEMMA DecidesFacts ==
  ASSUME TypeOK, Turning, NEW p, NEW past, NEW command,
         Now \in Moments, command \in {NoCommand, Now},
         Decides(past, p, command)
  PROVE  /\ \E action \in ActionSet :
              /\ PlayerFrame(past, p, action)
              /\ action.kind # "none" => action.of = Now
              /\ source = "bridge" => action.kind # "roll"
         /\ plan' \in Plans /\ bank' \in Banks /\ turned' \in Int
         /\ Turning'
         /\ IF source = "bridge" THEN obs' = Now ELSE obs' = obs
<1>1. CASE source = "bridge" /\ BridgeDecides(past, p, command)
  <2>1. PICK low \in BOOLEAN : PlayerFrame(past, p, BridgeAction(command, low))
    BY <1>1 DEF BridgeDecides
  <2>2. /\ BridgeAction(command, low) \in ActionSet
        /\ BridgeAction(command, low).kind # "none" => BridgeAction(command, low).of = Now
        /\ BridgeAction(command, low).kind # "roll"
    <3>1. Unset \in Moments
      BY ActuationAssumption DEF Unset, Moments
    <3>2. Fly(Now) \in ActionSet /\ Fly(Now).of = Now /\ Fly(Now).kind = "fly"
      BY DEF Fly, ActionSet
    <3>3. Nothing \in ActionSet /\ Nothing.kind = "none"
      BY <3>1 DEF Nothing, ActionSet
    <3> QED BY <3>2, <3>3 DEF BridgeAction
  <2> QED BY <1>1, <2>1, <2>2 DEF BridgeDecides, TypeOK, rollVars, Turning
<1>2. CASE source = "tree" /\ TreeDecides(past, p)
  <2>1. PICK delta \in {-1, 0, 1}, margin \in BOOLEAN, steering \in BOOLEAN, n \in Intervals :
          /\ bank' = (bank + delta) % Turn
          /\ plan' = Update(plan, bank', margin, n)
          /\ turned' = IF plan.phase = "Idle" THEN 0 ELSE turned + delta
          /\ PlayerFrame(past, p, TreeAction(plan'.phase = "Rolling", steering))
          /\ UNCHANGED obs
    BY <1>2 DEF TreeDecides
  <2> DEFINE action == TreeAction(plan'.phase = "Rolling", steering)
  <2>2. action \in ActionSet /\ (action.kind # "none" => action.of = Now)
    <3>1. Unset \in Moments
      BY ActuationAssumption DEF Unset, Moments
    <3> QED BY <3>1 DEF TreeAction, Fly, Nothing, ActionSet
  <2>3. bank' \in Banks
    BY <2>1, WrapStep DEF TypeOK
  <2>4. plan' \in Plans
    BY <2>1, <2>3, UpdateType DEF TypeOK
  <2>5. turned' \in Int
    BY <2>1 DEF TypeOK
  <2>6. Turning'
    <3>1. CASE plan.phase = "Idle"
      <4>1. plan'.phase = "Rolling" => /\ Stick # 0
                                       /\ plan'.lastRoll = bank'
                                       /\ plan'.accumulated = 0
        BY <2>1, <2>3, <3>1, WaitStep DEF TypeOK
      <4> QED BY <2>1, <3>1, <4>1 DEF Turning
    <3>2. CASE plan.phase = "Rolling"
      <4>1. plan'.accumulated = turned + delta /\ plan'.lastRoll = bank'
        <5>1. /\ plan \in Plans /\ Stick # 0
              /\ bank' = (plan.lastRoll + delta) % Turn /\ plan.accumulated = turned
          BY <2>1, <3>2 DEF Turning, TypeOK
        <5>2. /\ Update(plan, bank', margin, n).accumulated = plan.accumulated + delta
              /\ Update(plan, bank', margin, n).lastRoll = bank'
          BY <3>2, <5>1, RollStep
        <5> QED BY <2>1, <5>1, <5>2
      <4> QED BY <2>1, <3>2, <4>1 DEF Turning
    <3> QED BY <3>1, <3>2 DEF TypeOK, Plans
  <2> QED BY <1>2, <2>1, <2>2, <2>3, <2>4, <2>5, <2>6
<1> QED BY <1>1, <1>2 DEF Decides

-----------------------------------------------------------------------------
(* The invariant.                                                            *)

LEMMA InitInv == Init => Inv
<1> SUFFICES ASSUME Init PROVE Inv
  OBVIOUS
<1> USE DEF Init
<1>1. Unset \in Moments
  BY ActuationAssumption DEF Unset, Moments
<1>2. PICK n \in Intervals : plan = Fresh(n)
  OBVIOUS
<1>3. plan \in Plans /\ plan.phase = "Idle"
  BY <1>2, PlanAssumption DEF Fresh, Plans, Banks, Turn
<1>4. pilot \in Pilots /\ model \in Held /\ fdm \in Surfaces /\ flown \in Surfaces
  BY <1>1 DEF Pilots, Held, Surfaces
<1>5. recent \in [1 .. 4 -> Held]
  BY <1>1 DEF Decided, Held
<1>6. TypeOK
  BY <1>1, <1>3, <1>4, <1>5, ActuationAssumption DEF TypeOK, Banks, Turn
<1> QED
  BY <1>3, <1>6 DEF Inv, Started, BridgeHolds, Line, Current, Turning, ObservationIsCurrent

\* reset() and the frame it runs.
LEMMA ResetInv == Inv /\ Reset => Inv'
<1> SUFFICES ASSUME Inv, Reset PROVE Inv'
  OBVIOUS
<1> DEFINE p == Rearmed(pilot, <<episode', 0>>)
           past == After(recent, p)
<1>1. /\ episode' = episode + 1 /\ frame' = 1 /\ mode' = "active" /\ source' = source
      /\ episode' \in 1 .. MaxEpisode /\ 1 \in 0 .. MaxFrame
      /\ Decides(past, p, NoCommand)
      /\ source = "bridge" \/ episode = 0
  BY ActuationAssumption DEF Reset, Inv, TypeOK
<1>2. Now \in Moments /\ Now = <<episode', frame'>> /\ <<episode', 0>> \in Moments
  <2>1. episode' \in 0 .. MaxEpisode /\ frame' \in 0 .. MaxFrame /\ 0 \in 0 .. MaxFrame
    BY <1>1, ActuationAssumption
  <2> QED BY <2>1 DEF Now, Moments
<1>3. /\ pilot.hold /\ p.hold
      /\ p \in Pilots
      /\ p.heading[1] = episode' /\ p.rest[1] = episode'
  BY <1>1, <1>2 DEF Rearmed, Inv, TypeOK, Pilots, BridgeHolds
<1>4. past \in [1 .. 4 -> Held] /\ past[1] = Decided(p)
  BY <1>3 DEF After, Decided, Held, Pilots, Inv, TypeOK
<1> HIDE DEF p, past
<1>5. /\ \E action \in ActionSet : /\ PlayerFrame(past, p, action)
                                   /\ action.kind # "none" => action.of = Now
                                   /\ source = "bridge" => action.kind # "roll"
      /\ plan' \in Plans /\ bank' \in Banks /\ turned' \in Int
      /\ Turning'
      /\ IF source = "bridge" THEN obs' = Now ELSE obs' = obs
  BY <1>1, <1>2, DecidesFacts DEF Inv
<1>6. PICK action \in ActionSet : /\ PlayerFrame(past, p, action)
                                  /\ action.kind # "none" => action.of = Now
                                  /\ source = "bridge" => action.kind # "roll"
  BY <1>5
<1>7. action.kind # "none" => action.of[1] = episode'
  BY <1>2, <1>6
<1>8. TypeOK'
  <2>1. /\ flown' \in Surfaces /\ fdm' \in Surfaces
        /\ model' \in Held /\ pilot' \in Pilots
        /\ recent' \in [1 .. 4 -> Held]
    BY <1>3, <1>4, <1>6, FrameType DEF Inv
  <2> QED BY <1>1, <1>2, <1>5, <2>1 DEF Inv, TypeOK
<1>9. /\ recent'[1] = Decided(pilot') /\ recent'[2] = past[1]
      /\ Follows(model', Decided(p))
  BY <1>3, <1>4, <1>6, FrameFollows DEF Inv
<1>10. /\ pilot'.heading[1] = episode' /\ pilot'.rest[1] = episode'
       /\ model'.heading[1] = episode' /\ model'.rest[1] = episode'
       /\ action.kind # "roll" => pilot'.hold
  <2>1. PlayerFrame(past, p, action)
    BY <1>6
  <2> QED BY <1>3, <1>4, <1>7, <2>1, FrameEpisode DEF Inv
<1>11. Started'
  BY <1>1 DEF Started
<1>12. BridgeHolds'
  BY <1>1, <1>6, <1>10 DEF BridgeHolds
<1>13. Line'
  BY <1>1, <1>4, <1>9 DEF Line
<1>14. Current'
  BY <1>1, <1>10 DEF Current, OfEpisode
<1>15. ObservationIsCurrent'
  BY <1>1, <1>2, <1>5 DEF ObservationIsCurrent
<1> QED BY <1>5, <1>8, <1>11, <1>12, <1>13, <1>14, <1>15 DEF Inv

\* step(), or a frame of the tree.
LEMMA StepInv == Inv /\ Step => Inv'
<1> SUFFICES ASSUME Inv, Step PROVE Inv'
  OBVIOUS
<1>1. /\ episode' = episode /\ frame' = frame + 1 /\ mode' = "active" /\ source' = source
      /\ mode = "active" /\ episode >= 1 /\ frame >= 1
      /\ episode' \in 0 .. MaxEpisode /\ frame' \in 0 .. MaxFrame
      /\ Decides(recent, pilot, pending') /\ pending' = Command
  BY ActuationAssumption DEF Step, Inv, TypeOK, Started
<1>2. Now \in Moments /\ Now = <<episode', frame'>> /\ pending' \in {NoCommand, Now}
  BY <1>1 DEF Now, Moments, Command
<1>3. pilot \in Pilots /\ recent \in [1 .. 4 -> Held] /\ episode \in Int /\ frame \in Int
  BY DEF Inv, TypeOK
<1>4. /\ \E action \in ActionSet : /\ PlayerFrame(recent, pilot, action)
                                   /\ action.kind # "none" => action.of = Now
                                   /\ source = "bridge" => action.kind # "roll"
      /\ plan' \in Plans /\ bank' \in Banks /\ turned' \in Int
      /\ Turning'
      /\ IF source = "bridge" THEN obs' = Now ELSE obs' = obs
  BY <1>1, <1>2, DecidesFacts DEF Inv
<1>5. PICK action \in ActionSet : /\ PlayerFrame(recent, pilot, action)
                                  /\ action.kind # "none" => action.of = Now
                                  /\ source = "bridge" => action.kind # "roll"
  BY <1>4
<1>6. action.kind # "none" => action.of[1] = episode
  BY <1>1, <1>2, <1>5
<1>7. TypeOK'
  <2>1. /\ flown' \in Surfaces /\ fdm' \in Surfaces
        /\ model' \in Held /\ pilot' \in Pilots
        /\ recent' \in [1 .. 4 -> Held]
    BY <1>3, <1>5, FrameType DEF Inv
  <2> QED BY <1>1, <1>2, <1>4, <2>1 DEF Inv, TypeOK
<1>8. /\ recent'[1] = Decided(pilot')
      /\ recent'[2] = recent[1] /\ recent'[3] = recent[2] /\ recent'[4] = recent[3]
      /\ Follows(model', Decided(pilot))
      /\ \A d : Follows(model, d) => Follows(fdm', d)
      /\ \A d : Follows(fdm, d) => Follows(flown', d)
  BY <1>3, <1>5, FrameFollows DEF Inv
<1>9. OfEpisode(pilot) /\ OfEpisode(model)
  BY <1>1 DEF Inv, Current
<1>10. /\ pilot'.heading[1] = episode /\ pilot'.rest[1] = episode
       /\ model'.heading[1] = episode /\ model'.rest[1] = episode
       /\ fdm'.heading = model.heading /\ fdm'.rest = model.rest
       /\ flown' = fdm
       /\ pilot.hold /\ action.kind # "roll" => pilot'.hold
  <2>1. PlayerFrame(recent, pilot, action)
    BY <1>5
  <2> QED BY <1>3, <1>6, <1>9, <2>1, FrameEpisode DEF Inv, OfEpisode
<1>11. Started'
  BY <1>1, <1>3 DEF Started
<1>12. BridgeHolds'
  BY <1>1, <1>5, <1>10 DEF Inv, BridgeHolds
<1>13. Line'
  <2>1. Follows(model, recent[2]) /\ Decided(pilot) = recent[1]
    BY <1>1 DEF Inv, Line
  <2>2. frame' >= 3 => Follows(fdm, recent[3])
    BY <1>1, <1>3 DEF Inv, Line
  <2> QED BY <1>1, <1>8, <2>1, <2>2 DEF Line
<1>14. Current'
  <2>1. frame' >= 3 => OfEpisode(fdm)
    BY <1>1, <1>3 DEF Inv, Current
  <2> QED BY <1>1, <1>9, <1>10, <2>1 DEF Current, OfEpisode
<1>15. ObservationIsCurrent'
  BY <1>1, <1>2, <1>4 DEF ObservationIsCurrent
<1> QED BY <1>4, <1>7, <1>11, <1>12, <1>13, <1>14, <1>15 DEF Inv

\* The frame in which the aircraft crashes.
LEMMA CrashInv == Inv /\ StepCrashes => Inv'
<1> SUFFICES ASSUME Inv, StepCrashes PROVE Inv'
  OBVIOUS
<1>1. /\ mode = "active" /\ mode' = "crashed" /\ frame' = frame + 1
      /\ frame \in Int /\ frame' \in 0 .. MaxFrame /\ frame >= 1 /\ episode >= 1
      /\ flown' = fdm /\ fdm' = Written(fdm, model) /\ recent' = After(recent, pilot)
      /\ UNCHANGED <<source, episode, obs, pilot, model, plan, bank, turned>>
  BY ActuationAssumption DEF StepCrashes, CrashFrame, Flown, rollVars, Inv, TypeOK, Started
<1>2. /\ fdm'.heading = model.heading /\ fdm'.rest = model.rest /\ fdm'.hold = model.hold
      /\ fdm' \in Surfaces
  BY <1>1 DEF Written, Inv, TypeOK, Surfaces, Held
<1>3. /\ recent' \in [1 .. 4 -> Held]
      /\ recent'[3] = recent[2] /\ recent'[4] = recent[3]
  BY <1>1 DEF After, Decided, Inv, TypeOK, Pilots, Held
<1>4. TypeOK'
  BY <1>1, <1>2, <1>3 DEF Inv, TypeOK
<1>5. Line'
  <2>1. Follows(model, recent[2]) /\ (frame' >= 3 => Follows(fdm, recent[3]))
    BY <1>1 DEF Inv, Line
  <2> QED BY <1>1, <1>2, <1>3, <2>1 DEF Line, Follows
<1>6. Current'
  <2>1. OfEpisode(pilot) /\ OfEpisode(model) /\ (frame' >= 3 => OfEpisode(fdm))
    BY <1>1 DEF Inv, Current
  <2> QED BY <1>1, <1>2, <2>1 DEF Current, OfEpisode
<1>7. Started' /\ BridgeHolds' /\ Turning' /\ ObservationIsCurrent'
  BY <1>1 DEF Inv, Started, BridgeHolds, Turning, ObservationIsCurrent
<1> QED BY <1>4, <1>5, <1>6, <1>7 DEF Inv

LEMMA NextInv == Inv /\ [Next]_vars => Inv'
<1> SUFFICES ASSUME Inv, [Next]_vars PROVE Inv'
  OBVIOUS
<1>1. CASE StepCrashed
  BY <1>1 DEF StepCrashed, chainVars, rollVars, Inv, TypeOK, Started, BridgeHolds, Line,
    Current, OfEpisode, Turning, ObservationIsCurrent
<1>2. CASE UNCHANGED vars
  BY <1>2 DEF vars, chainVars, rollVars, Inv, TypeOK, Started, BridgeHolds, Line,
    Current, OfEpisode, Turning, ObservationIsCurrent
<1> QED BY <1>1, <1>2, ResetInv, StepInv, CrashInv DEF Next

LEMMA Invariance == Spec => []Inv
  BY InitInv, NextInv, PTL DEF Spec

-----------------------------------------------------------------------------
(* The theorems.                                                             *)

\* Every stage of the chain holds a moment, a mode and a stick.
THEOREM TypeCorrect == Spec => []TypeOK
<1>1. Inv => TypeOK
  BY DEF Inv
<1> QED BY <1>1, Invariance, PTL

\* Commands of the episode before are flown in the frame that primes the
\* station and in the first step, and never after.
THEOREM StaleNoLonger == Spec => []StaleOnlyAtStart
<1>1. Inv => StaleOnlyAtStart
  <2> SUFFICES ASSUME Inv, frame >= 3 PROVE flown.heading[1] = episode /\ flown.rest[1] = episode
    BY DEF StaleOnlyAtStart
  <2>1. CASE mode = "off"
    BY <2>1 DEF Inv, Started
  <2>2. CASE mode # "off"
    BY <2>2 DEF Inv, Current, OfEpisode
  <2> QED BY <2>1, <2>2
<1> QED BY <1>1, Invariance, PTL

\* What step() and reset() return is of the frame they ran, or of the one before
\* the crash.
THEOREM ObservesItsFrame == Spec => []ObservationIsCurrent
<1>1. Inv => ObservationIsCurrent
  BY DEF Inv
<1> QED BY <1>1, Invariance, PTL

\* Autopilot, dynamics model and JSBSim delay a decision by three frames.
THEOREM DelaysByThree == Spec => []ThreeFramesLate
<1>1. Inv => ThreeFramesLate
  <2> SUFFICES ASSUME Inv, frame >= 3 PROVE Follows(flown, recent[4])
    BY DEF ThreeFramesLate, Follows
  <2>1. mode # "off"
    BY DEF Inv, Started
  <2> QED BY <2>1 DEF Inv, Line
<1> QED BY <1>1, Invariance, PTL

\* A roll ends with a full circle or with the time, whatever the bank reads.
THEOREM FullCircle == Spec => EndsFullCircle
<1> DEFINE Fair == plan.phase = "Rolling" =>
                     (plan'.phase = "Idle" <=> (Magnitude(turned') >= Turn \/ plan'.elapsed >= Timeout))
<1>1. Inv /\ [Next]_vars => [Fair]_rollVars
  <2> SUFFICES ASSUME Inv, [Next]_vars, plan.phase = "Rolling"
               PROVE  UNCHANGED rollVars \/ Fair
    OBVIOUS
  <2>1. CASE \E past, p : TreeDecides(past, p)
    <3>1. PICK delta \in {-1, 0, 1}, margin \in BOOLEAN, n \in Intervals :
            /\ bank' = (bank + delta) % Turn
            /\ plan' = Update(plan, bank', margin, n)
            /\ turned' = turned + delta
      BY <2>1 DEF TreeDecides
    <3>2. /\ plan \in Plans /\ Stick # 0 /\ plan.accumulated = turned
          /\ bank' = (plan.lastRoll + delta) % Turn
      BY <3>1 DEF Inv, TypeOK, Turning
    <3>3. /\ Update(plan, bank', margin, n).elapsed = plan.elapsed + 1
          /\ Update(plan, bank', margin, n).phase = "Idle"
              <=> (Magnitude(plan.accumulated + delta) >= Turn \/ plan.elapsed + 1 >= Timeout)
      BY <3>2, RollStep
    <3> QED BY <3>1, <3>2, <3>3
  <2>2. CASE UNCHANGED rollVars
    BY <2>2
  <2> QED
    BY <2>1, <2>2 DEF Next, Reset, Step, StepCrashes, StepCrashed, CrashFrame, Decides, BridgeDecides,
      vars
<1> QED BY <1>1, Invariance, PTL DEF Spec, EndsFullCircle
=============================================================================
