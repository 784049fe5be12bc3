---------------------------- MODULE CombatTurnsMC ----------------------------
(* Small fights: two players and an NPC who sorts between them, of         *)
(* different speed, thresholds they reach at different and at equal times, *)
(* one modifier in force.                                                  *)
EXTENDS CombatTurns

\* A quick and a slow one who meet at the threshold of 4, and one between.
Speeds == [a \in Players \cup Npcs |-> IF a = 1 THEN 2 ELSE IF a = 2 THEN 3 ELSE 5]

Quicken == {[delta |-> 2, remaining |-> 2], [delta |-> -1, remaining |-> 1]}
Slow    == {[delta |-> -3, remaining |-> 2]}

Ordered  == [kind |-> "ordered", overflow |-> "carry", consume |-> "reset"]
Carrying == [kind |-> "threshold", overflow |-> "carry", consume |-> "carry"]
Clamping == [kind |-> "threshold", overflow |-> "clamp", consume |-> "reset"]
Fights   == {Ordered, Carrying, Clamping}
Default  == {[Carrying EXCEPT !.consume = "reset"]}
=============================================================================
