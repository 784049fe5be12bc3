--------------------------- MODULE CombatRoundsMC ---------------------------
(* Small fights told in two or three rounds: two palms and a talisman, on  *)
(* two NPCs.                                                               *)
EXTENDS CombatRounds

CONSTANTS p1, p2, t1, n1, n2

Targets == [i \in Palms \cup Talismans |-> IF i = p1 THEN n1 ELSE n2]
=============================================================================
