----------------------------- MODULE NameOwners -----------------------------
(* What the registry of plugins promises to a scenario: a factory name is    *)
(* claimed once, for good, and only while the scenario is read; whatever is  *)
(* made under a name is made by its one owner. Nothing of files, search      *)
(* paths, descriptors, probes or the order of loads.                         *)
CONSTANTS Names, Owners, Nobody

VARIABLES owner,   \* who answers for each name
          made,    \* <<name, maker>> of every object made so far
          frozen   \* the reading is over

ownersVars == <<owner, made, frozen>>

OInit ==
  /\ owner \in [Names -> Owners \cup {Nobody}]
  /\ made = {}
  /\ frozen = FALSE

Claim(p, names) ==
  /\ ~frozen
  /\ \A n \in names : owner[n] = Nobody
  /\ owner' = [n \in Names |-> IF n \in names THEN p ELSE owner[n]]
  /\ UNCHANGED <<made, frozen>>

Make(n) ==
  /\ ~frozen
  /\ owner[n] # Nobody
  /\ made' = made \cup {<<n, owner[n]>>}
  /\ UNCHANGED <<owner, frozen>>

Freeze == frozen' = TRUE /\ UNCHANGED <<owner, made>>

ONext ==
  \/ \E p \in Owners, names \in SUBSET Names : Claim(p, names)
  \/ \E n \in Names : Make(n)
  \/ Freeze

OwnersSpec == OInit /\ [][ONext]_ownersVars
=============================================================================
