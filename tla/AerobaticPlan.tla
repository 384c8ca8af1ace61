--------------------------- MODULE AerobaticPlan ---------------------------
(***************************************************************************)
(* AerobaticPlan: when an A-4 starts a slow roll and when it ends it.  Time *)
(* is counted in ticks of the behaviour tree, the bank in quarters of a     *)
(* turn; between two ticks an aircraft banks by a quarter at most.          *)
(***************************************************************************)
EXTENDS Integers

CONSTANTS
  Intervals,  \* what drawNextInterval() may draw, in ticks
  Timeout,    \* timeoutSec_, in ticks
  Stick       \* stickCommand_; zero turns the manoeuvre off

ASSUME PlanAssumption ==
  /\ Intervals \subseteq Nat
  /\ Timeout \in Nat \ {0}
  /\ Stick \in {-1, 0, 1}

Turn  == 4
Banks == 0 .. (Turn - 1)
Magnitude(x) == IF x < 0 THEN -x ELSE x

\* wrap180(): the difference of two banks as a turn to the left or the right.
Wrap(d) == ((d + Turn \div 2) % Turn) - Turn \div 2

Plans == [phase : {"Idle", "Rolling"}, timer : Int, elapsed : Nat, accumulated : Int, lastRoll : Banks]

\* reset(); the caller draws the interval.
Fresh(interval) ==
  [phase |-> "Idle", timer |-> interval, elapsed |-> 0, accumulated |-> 0, lastRoll |-> 0]

\* Mutant: the first tick does not take the bank as its reference.
Wait_NotAnchored(plan, bank, margin) ==
  LET timer == IF plan.timer > 1 THEN plan.timer - 1 ELSE 0
  IN IF timer = 0 /\ margin
     THEN [plan EXCEPT !.phase = "Rolling", !.timer = 0, !.elapsed = 0, !.accumulated = 0]
     ELSE [plan EXCEPT !.timer = timer]

\* update() while idle: the countdown, and the start of a roll, which without
\* a margin of altitude is put off and not drawn again.
Wait(plan, bank, margin) ==
  LET timer == IF plan.timer > 1 THEN plan.timer - 1 ELSE 0
  IN IF timer = 0 /\ margin
     THEN [phase |-> "Rolling", timer |-> 0, elapsed |-> 0, accumulated |-> 0, lastRoll |-> bank]
     ELSE [plan EXCEPT !.timer = timer]

\* update() while rolling: integrates the turn, and ends it after a full one or
\* at the timeout, drawing the next interval.
Roll(plan, bank, interval) ==
  LET rolled == [plan EXCEPT !.elapsed = @ + 1,
                             !.accumulated = @ + Wrap(bank - plan.lastRoll),
                             !.lastRoll = bank]
      over   == Magnitude(rolled.accumulated) >= Turn \/ rolled.elapsed >= Timeout
  IN IF over THEN [rolled EXCEPT !.phase = "Idle", !.timer = interval] ELSE rolled

Update(plan, bank, margin, interval) ==
  IF Stick = 0 THEN [plan EXCEPT !.phase = "Idle"]
  ELSE IF plan.phase = "Idle" THEN Wait(plan, bank, margin)
  ELSE Roll(plan, bank, interval)
=============================================================================
