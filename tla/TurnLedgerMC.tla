---------------------------- MODULE TurnLedgerMC ----------------------------
(* Small fights whose history is kept for a few turns.                     *)
EXTENDS TurnLedger

\* 1 and 3 get full at the same time, 2 a third of a moment later.
Speeds  == [a \in Players \cup Npcs |-> IF a = 1 THEN 4 ELSE IF a = 2 THEN 3 ELSE 9]
Quicken == {[delta |-> 2, remaining |-> 2], [delta |-> -1, remaining |-> 1]}

Ordered == [kind |-> "ordered", overflow |-> "carry", consume |-> "reset"]
Gauges  == {c \in SchedulerConfig : c.kind = "threshold"}
Fights  == {Ordered} \cup {c \in Gauges : c.overflow = "carry" \/ c.consume = "carry"}
=============================================================================
