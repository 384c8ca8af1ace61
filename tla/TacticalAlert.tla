--------------------------- MODULE TacticalAlert ---------------------------
(* What one A-4 does with a contact and with an alert, as functions: the    *)
(* fusion of alerts (AlertDatalink), the hysteresis of the evasion          *)
(* (ThreatPolicy) and the choice the behaviour tree makes between evading,  *)
(* supporting and patrolling. Time is counted in frames of the simulation.  *)
EXTENDS Integers

CONSTANTS NumPilots,   \* A-4s of the scenario, in the order of the player list
          Side,        \* side of each A-4
          MaxRange,    \* ranges of a contact are 1..MaxRange, 0 is no contact
          HoldTime,    \* frames a received alert stays valid (slot holdTime)
          EvadeHold    \* frames an evasion outlives its contact (slot evadeHold)

Pilots == 1 .. NumPilots

ASSUME AlertAssumption ==
  /\ NumPilots \in Nat /\ MaxRange \in Nat
  /\ HoldTime \in Nat \ {0} /\ EvadeHold \in Nat \ {0}
  /\ DOMAIN Side = Pilots

Ranges == 0 .. MaxRange
Alert  == [sender : Pilots, range : Ranges]

\* The default-constructed Alert, whose flag "valid" is false.
NoAlert == [sender |-> 0, range |-> 0]

\* The order of the fusion: the nearer contact, then the lower sender.
Closer(a, b) == \/ a.range < b.range
                \/ a.range = b.range /\ a.sender < b.sender

\* Mutant: a tie goes to whoever arrives first.
Fuse_FirstWins(old, new) == IF old = NoAlert \/ new.range < old.range THEN new ELSE old

\* AlertDatalink::onDatalinkMessageEvent() on an alert it accepts.
Fuse(old, new) == IF old = NoAlert \/ Closer(new, old) THEN new ELSE old

\* The alert that beats all the others of a set of alerts.
Nearest(alerts) ==
  IF alerts = {} THEN NoAlert
  ELSE CHOOSE a \in alerts : \A b \in alerts \ {a} : Closer(a, b)

\* What the aircraft perceive in one frame: the range of the contact each one
\* sees, the pairs within range of a datalink, and those that something of a
\* higher priority (fuel, the safety behaviour) keeps from evading.
World == [sees : [Pilots -> 0 .. MaxRange], near : SUBSET SUBSET Pilots, overruled : SUBSET Pilots]
Nothing == [sees |-> [p \in Pilots |-> 0], near |-> {}, overruled |-> {}]

\* The receiver keeps alerts of its own side, sent from within its range.
Accepts(receiver, sender, world) ==
  /\ Side[receiver] = Side[sender]
  /\ {receiver, sender} \in world.near

\* Mutant: the alert stays a frame too long.
Promoted_Late(staged, current, hold) ==
  CASE staged # NoAlert             -> staged
    [] staged = NoAlert /\ hold > 0 -> current
    [] OTHER                        -> NoAlert

\* AlertDatalink::receive(): the staged alert becomes the current one, or the
\* current one grows a frame older.
Promoted(staged, current, hold) ==
  CASE staged # NoAlert             -> staged
    [] staged = NoAlert /\ hold > 1 -> current
    [] OTHER                        -> NoAlert
HoldAfter(staged, hold) ==
  CASE staged # NoAlert             -> HoldTime
    [] staged = NoAlert /\ hold > 0 -> hold - 1
    [] OTHER                        -> 0

\* Mutant: without the hysteresis, the evasion ends with the contact.
ThreatUpdate_Bare(timer, contact) == IF contact # 0 THEN EvadeHold ELSE 0

\* ThreatPolicy::update(). The state is the hysteresis timer alone: the
\* aircraft is engaged while it is positive, and contactLive exactly when it
\* is full, since a contact fills it and its absence lowers it.
ThreatUpdate(timer, contact) ==
  CASE contact # 0              -> EvadeHold
    [] contact = 0 /\ timer > 0 -> timer - 1
    [] OTHER                    -> 0

\* Mutant: the alert is sent during the drag of the hysteresis too.
Decision_Relays(overruled, timer, contact, alert) ==
  CASE overruled                                -> "OTHER"
    [] ~overruled /\ timer > 0                  -> "EVADE"
    [] ~overruled /\ timer = 0 /\ alert # NoAlert -> "SUPPORT"
    [] OTHER                                    -> "PATROL"

\* The tree and the arbiter: fuel and safety first, then the evasion, then the
\* support of an alert, then the patrol. Only EVADE sends an alert.
Decision(overruled, timer, contact, alert) ==
  CASE overruled                            -> "OTHER"
    [] ~overruled /\ timer > 0 /\ contact # 0 -> "EVADE"
    [] ~overruled /\ timer > 0 /\ contact = 0 -> "BREAK"
    [] ~overruled /\ timer = 0 /\ alert # NoAlert -> "SUPPORT"
    [] OTHER                                -> "PATROL"
Labels == {"OTHER", "EVADE", "BREAK", "SUPPORT", "PATROL"}
=============================================================================
