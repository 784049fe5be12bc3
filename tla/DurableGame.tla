---------------------------- MODULE DurableGame ----------------------------
(***************************************************************************)
(* What saving a game promises, whatever the files do in between: a        *)
(* restart finds the save that was acknowledged last, or one that was      *)
(* begun after it, and never a run that was already replaced.  SaveFiles   *)
(* is shown to keep this promise.                                          *)
(***************************************************************************)
EXTENDS Integers, Sequences

VARIABLES
    live,        \* the game in memory: a set of one, empty while the process is down
    durable,     \* what a restart finds, a run and the last rounds of its log:
                 \* a set of one, empty until something was saved
    submitted    \* what was given to be saved since the last acknowledgement

vars == <<live, durable, submitted>>

EndsWith(log, tail) ==
    /\ Len(tail) <= Len(log)
    /\ \A i \in 1..Len(tail) : log[Len(log) - Len(tail) + i] = tail[i]

SameRun == live' # {} /\ \A game \in live, next \in live' : next.run = game.run

Init == live # {} /\ durable = {} /\ submitted = {}

\* The story changes; the run does not.
Play == live # {} /\ SameRun /\ UNCHANGED <<durable, submitted>>

\* A game is given to be saved: the one in memory, or the one to replace it.
Submit ==
    /\ live # {} /\ SameRun
    /\ submitted \subseteq submitted'
    /\ \A game \in live, v \in submitted' \ submitted : v.run >= game.run
    /\ UNCHANGED durable

\* What was submitted becomes what a restart finds, at one instant.
Put ==
    /\ \E v \in submitted : durable' = {v}
    /\ UNCHANGED <<live, submitted>>

\* The save is acknowledged.  If it was a new run, that run is now the game.
Acknowledge ==
    /\ durable # {} /\ durable \subseteq submitted
    /\ live' # {}
    /\ live' = live \/ \A v \in durable, next \in live' : next.run = v.run
    /\ submitted' = {}
    /\ UNCHANGED durable

Crash ==
    /\ live # {} /\ live' = {}
    /\ UNCHANGED <<durable, submitted>>

Restart ==
    /\ live = {} /\ live' # {}
    /\ \E v \in durable : \A next \in live' :
          next.run = v.run /\ EndsWith(next.log, v.tail)
    /\ submitted' = durable
    /\ UNCHANGED durable

Next == Play \/ Submit \/ Put \/ Acknowledge \/ Crash \/ Restart

Spec == Init /\ [][Next]_vars

=============================================================================
