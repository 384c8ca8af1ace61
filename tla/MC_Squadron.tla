----------------------------- MODULE MC_Squadron -----------------------------
(* Three wingmen on two threads. The first sees the intruder far away, the    *)
(* second near, as far as the first (a tie), or not at all; the third only    *)
(* hears, once from out of the reach of the first. Something overrides the    *)
(* tree of the second while it sees the intruder.                             *)
EXTENDS Squadron

MCSide == [p \in Pilots |-> "blue"]
Pairs == {{p, q} : p \in Pilots, q \in Pilots}
Sight(a, b, near, overruled) ==
  [sees |-> [p \in Pilots |-> CASE p = 1 -> a [] p = 2 -> b [] OTHER -> 0],
   near |-> near, overruled |-> overruled]
MCWorlds == {Sight(0, 0, Pairs, {}), Sight(0, 1, Pairs, {}),
             Sight(2, 0, Pairs \ {{1, 3}}, {}), Sight(2, 1, Pairs, {}),
             Sight(2, 2, Pairs, {}), Sight(2, 2, Pairs, {2})}
=============================================================================
