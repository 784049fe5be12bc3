----------------------------- MODULE CombatTurns -----------------------------
(***************************************************************************)
(* Whose turn it is in a fight run by the combat extension of a rule.      *)
(*                                                                         *)
(*   src/src/engine/combat_scheduler.py            who may act             *)
(*   src/src/engine/combat_effects.py              timed modifiers         *)
(*   src/src/webui/services/combat_extension.py    the two requests        *)
(*                                                                         *)
(* Two requests drive a fight: the GM moves time on (scheduler_advance),   *)
(* and somebody acts (resolve_combat_action).  Under "threshold" everybody *)
(* fills a gauge at a speed of his own and acts when it is full; under     *)
(* "ordered", which stands for round_robin and for initiative, the turn    *)
(* goes round.  (The actors are handed over without an "initiative", so    *)
(* that both kinds sort by identity alone.)                                *)
(*                                                                         *)
(* Between two requests the narrative, a rest or an edit may fell somebody *)
(* or bring him back.  Hit points are abstracted to being alive.  What an  *)
(* action costs, its retries, and what the story and a rollback make of it *)
(* are the matter of CombatRounds.  Nobody leaves the table, and the rule  *)
(* is not edited during the fight.                                         *)
(***************************************************************************)
EXTENDS Integers, Sequences, FiniteSets, FiniteSetsExt, SequencesExt, Subsequences

CONSTANTS
    Players, Npcs,  \* numbers, in the order of their identities
    Configs,        \* the schedulers a rule may name, with their policies
    BaseSpeed,      \* what the speed formula yields for each
    Threshold,
    Effects,        \* what actions do: "strike", "mend", "modify"
    Modifiers,      \* the timed changes of speed that actions apply
    MaxBuffs,       \* at most so many in force at once
    Mortal          \* those the narrative may fell and bring back

ASSUME ActorsAssumption ==
    /\ Players \cup Npcs \subseteq Nat \ {0} /\ Players \cap Npcs = {}
    /\ IsFiniteSet(Players \cup Npcs)
    /\ Mortal \subseteq Players \cup Npcs

\* Overflow says what becomes of a gauge that runs over, consume of one whose
\* turn is used; "ordered" looks at neither.
SchedulerConfig == [kind     : {"threshold", "ordered"},
                    overflow : {"carry", "clamp"},
                    consume  : {"reset", "carry"}]

ASSUME ConfigAssumption ==
    /\ Configs \subseteq SchedulerConfig
    /\ Threshold \in Nat \ {0}
    /\ Effects \subseteq {"strike", "mend", "modify"}

ASSUME SpeedAssumption ==
    /\ BaseSpeed \in [Players \cup Npcs -> Int]
    /\ Modifiers \subseteq [delta : Int, remaining : Nat \ {0}]
    /\ MaxBuffs \in Nat

VARIABLES
    config,   \* what the rule of this game names; it stays
    living,   \* hit points left, and not declared dead
    engaged,  \* those with resource pools: players, and NPCs met in the fight
    started,  \* the GM has started the scheduler
    order, turn,    \* "ordered": the round, and the place of the turn in it
    gauges, ready,  \* "threshold": the gauges, and the queue of the full ones
    buffs     \* the modifiers in force

table    == <<living, engaged>>
rotation == <<order, turn>>
bars     == <<gauges, ready>>
vars     == <<config, table, started, rotation, bars, buffs>>

Actors   == Players \cup Npcs
Fighting == living \cap engaged

Init ==
    /\ config \in Configs
    /\ living = Actors /\ engaged = Players /\ started = FALSE
    /\ order = <<>> /\ turn = 0
    /\ gauges = [a \in Actors |-> 0] /\ ready = <<>>
    /\ buffs = <<>>

----------------------------------------------------------------------------
(***************************************************************************)
(* Modifiers, of which only those of the speed are followed.               *)
(***************************************************************************)
Pace(a) ==
    LET sum == FoldSeq(LAMBDA b, s : IF b.of = a THEN s + b.delta ELSE s, BaseSpeed[a], buffs)
    IN  IF sum > 0 THEN sum ELSE 0

Ticked == SelectSeq([i \in DOMAIN buffs |-> [buffs[i] EXCEPT !.remaining = @ - 1]],
                    LAMBDA b : b.remaining > 0)

----------------------------------------------------------------------------
(***************************************************************************)
(* "threshold": time passes until somebody's gauge is full.                *)
(***************************************************************************)
Pending == {a \in Fighting : gauges[a] < Threshold}

FullAfter(a, t) == gauges[a] + Pace(a) * t >= Threshold

Filled(a, t) ==
    LET g == gauges[a] + Pace(a) * t
    IN  IF config.overflow = "clamp" /\ g > Threshold THEN Threshold ELSE g

\* Mutant of Before: who runs further over is taken to have been first.
BeforeByOverflow(a, b) ==
    LET ga == gauges[a] + Pace(a)
        gb == gauges[b] + Pace(b)
    IN  ga > gb \/ (ga = gb /\ a < b)

\* The exact times at which two gauges get full, compared as fractions; then
\* the faster goes first, and then the smaller identity.
Before(a, b) ==
    LET ta == (Threshold - gauges[a]) * Pace(b)
        tb == (Threshold - gauges[b]) * Pace(a)
    IN  \/ ta < tb
        \/ ta = tb /\ Pace(a) > Pace(b)
        \/ ta = tb /\ Pace(a) = Pace(b) /\ a < b

Arrangements(S) == {q \in [1..Cardinality(S) -> S] : Range(q) = S}

\* All who get full in the whole moment t join the queue, in that order.
PassTime(t) ==
    LET full == {a \in Pending : FullAfter(a, t)}
    IN  /\ full # {}
        /\ \A u \in 1..t - 1 : \A a \in Pending : ~FullAfter(a, u)
        /\ gauges' = [a \in Actors |-> IF a \in Pending THEN Filled(a, t) ELSE gauges[a]]
        /\ \E q \in Arrangements(full) :
              /\ \A i, j \in DOMAIN q : i < j => Before(q[i], q[j])
              /\ ready' = ready \o q

\* Mutant of MoveTime: time stands still until everybody ready has acted.
MoveTimeWhenIdle ==
    /\ config.kind = "threshold" /\ ready = <<>>
    /\ \A a \in Pending : Pace(a) \in Nat \ {0}
    /\ \E t \in 1..Threshold : PassTime(t)
    /\ started' = TRUE /\ buffs' = Ticked
    /\ UNCHANGED <<config, table, rotation>>

\* Refused when somebody who waits does not move at all.  The first call
\* starts the scheduler and passes time at once.
MoveTime ==
    /\ config.kind = "threshold"
    /\ \A a \in Pending : Pace(a) \in Nat \ {0}
    /\ \E t \in 1..Threshold : PassTime(t)
    /\ started' = TRUE /\ buffs' = Ticked
    /\ UNCHANGED <<config, table, rotation>>

----------------------------------------------------------------------------
(***************************************************************************)
(* "ordered": the turn goes round among the living, sorted by identity.    *)
(***************************************************************************)
\* Mutant of PlaceOf: the place of the turn is kept instead of its holder.
SamePlace(q) == IF turn \in DOMAIN q THEN turn ELSE 0

\* _reconcile_scheduler_state: the round is made anew; the one who has the
\* turn keeps it, and if he is gone nobody has it.
PlaceOf(q) == IF turn \in DOMAIN order /\ order[turn] \in Range(q)
              THEN CHOOSE i \in DOMAIN q : q[i] = order[turn] ELSE 0

\* The place of the next one alive after place i.
NextPlace(q, i, alive) ==
    LET Place(k) == ((i + k - 1) % Len(q)) + 1
        steps    == {k \in 1..Len(q) : q[Place(k)] \in alive}
    IN  Place(IF steps = {} THEN Len(q) ELSE Min(steps))

\* The first call gives the turn to the first, the others to the next one.
MoveTurn ==
    /\ config.kind = "ordered" /\ Fighting # {}
    /\ LET q == Sorted(Fighting)
       IN  /\ order' = q
           /\ IF started
              THEN turn' = NextPlace(q, PlaceOf(q), Fighting) /\ buffs' = Ticked
              ELSE turn' = 1 /\ UNCHANGED buffs
    /\ started' = TRUE
    /\ UNCHANGED <<config, table, bars>>

----------------------------------------------------------------------------
(***************************************************************************)
(* Somebody acts on a target, and uses his turn if there are turns.        *)
(***************************************************************************)

\* apply_combat_action: a blow may or may not be the last one.  An actor who
\* does not survive his own action cannot pay for it with his turn.
Effect(kind, target) ==
    \/ kind = "strike" /\ living' \in {living, living \ {target}} /\ UNCHANGED buffs
    \/ kind = "mend"   /\ living' \in {living, living \cup {target}} /\ UNCHANGED buffs
    \/ /\ kind = "modify" /\ Len(buffs) < MaxBuffs
       /\ \E m \in Modifiers :
             buffs' = Append(buffs, [of |-> target, delta |-> m.delta, remaining |-> m.remaining])
       /\ UNCHANGED living

\* The queue without a.
Others(a) == Subsequence(ready, {i \in DOMAIN ready : ready[i] # a})

\* Mutants of UseGauge: who still has a full gauge is not queued again; a
\* turn costs nothing when gauges are carried over.
UseGaugeOnce(a) ==
    LET left == IF config.consume = "carry" THEN gauges[a] - Threshold ELSE 0
    IN  /\ a \in Range(ready) /\ a \in living'
        /\ gauges' = [gauges EXCEPT ![a] = left]
        /\ ready' = Others(a)
        /\ UNCHANGED rotation

UseNothing(a) ==
    LET left == IF config.consume = "carry" THEN gauges[a] ELSE 0
    IN  /\ a \in Range(ready) /\ a \in living'
        /\ gauges' = [gauges EXCEPT ![a] = left]
        /\ ready' = IF left >= Threshold THEN Append(Others(a), a) ELSE Others(a)
        /\ UNCHANGED rotation

\* ThresholdScheduler.consume_turn
UseGauge(a) ==
    LET left == IF config.consume = "carry" THEN gauges[a] - Threshold ELSE 0
    IN  /\ a \in Range(ready) /\ a \in living'
        /\ gauges' = [gauges EXCEPT ![a] = left]
        /\ ready' = IF left >= Threshold THEN Append(Others(a), a) ELSE Others(a)
        /\ UNCHANGED rotation

\* RoundRobinScheduler.consume_turn, after the round has been made anew
UsePlace(a) ==
    \E q \in {Sorted(living \cap engaged')}, alive \in {living' \cap engaged'} :
        /\ PlaceOf(q) # 0 /\ q[PlaceOf(q)] = a /\ alive # {}
        /\ order' = q /\ turn' = NextPlace(q, PlaceOf(q), alive)
        /\ UNCHANGED bars

Act(a, target, kind) ==
    /\ a \in living
    /\ engaged' = engaged \cup {a, target}
    /\ Effect(kind, target)
    /\ \/ ~started /\ UNCHANGED <<rotation, bars>>
       \/ started /\ config.kind = "threshold" /\ UseGauge(a)
       \/ started /\ config.kind = "ordered" /\ UsePlace(a)
    /\ UNCHANGED <<config, started>>

----------------------------------------------------------------------------
(***************************************************************************)
(* The narrative, a rest or an edit of a sheet changes who is alive.       *)
(***************************************************************************)
Fall(a) ==
    /\ a \in living /\ living' = living \ {a}
    /\ UNCHANGED <<config, engaged, started, rotation, bars, buffs>>

Rise(a) ==
    /\ a \notin living /\ living' = living \cup {a}
    /\ UNCHANGED <<config, engaged, started, rotation, bars, buffs>>

Next ==
    \/ MoveTime \/ MoveTurn
    \/ \E a, target \in Actors, kind \in Effects : Act(a, target, kind)
    \/ \E a \in Mortal : Fall(a) \/ Rise(a)

Spec == Init /\ [][Next]_vars

\* The GM goes on moving time; nobody is obliged to act.
FairSpec == Spec /\ WF_vars(MoveTime) /\ WF_vars(MoveTurn)

----------------------------------------------------------------------------
CombatTypeOK ==
    /\ config \in Configs
    /\ living \subseteq Actors /\ engaged \subseteq Actors /\ Players \subseteq engaged
    /\ started \in BOOLEAN
    /\ order \in Seq(Actors) /\ turn \in 0..Len(order)
    /\ gauges \in [Actors -> Nat] /\ ready \in Seq(Actors)
    /\ buffs \in Seq([of : Actors, delta : Int, remaining : Nat \ {0}])

(***************************************************************************)
(* The queue and the gauges say the same: whoever is in the queue has a    *)
(* full gauge and is in it once, and whoever has a full gauge is in it.    *)
(* The queue is extended only with those who were pending, so that a full  *)
(* gauge outside it could never act again, and would make every later      *)
(* advance fail on a speed that was not looked up.                         *)
(***************************************************************************)
ReadyIffCharged ==
    /\ \A a \in Actors : a \in Range(ready) <=> gauges[a] >= Threshold
    /\ \A i, j \in DOMAIN ready : ready[i] = ready[j] => i = j

(***************************************************************************)
(* Whoever is alive in a fight under way comes to a turn, or falls: under  *)
(* "threshold" he gets into the queue however many others act before, or   *)
(* are quicker, or join; under "ordered" he gets the turn, unless the one  *)
(* who has it falls outside of the fight, when the round starts over.  The *)
(* GM's advance is all that is needed.                                     *)
(***************************************************************************)
HasTurn(a) == \/ a \in Range(ready)
              \/ turn \in DOMAIN order /\ order[turn] = a

HolderFallen == turn \in DOMAIN order /\ order[turn] \notin Fighting

EveryoneGetsATurn ==
    \A a \in Actors : (started /\ a \in Fighting)
                        ~> (HasTurn(a) \/ a \notin Fighting \/ HolderFallen)

(***************************************************************************)
(* scheduler_advance: the gauges fill "until somebody is ready".  As long  *)
(* as somebody is alive, the GM's advance brings somebody into the queue.  *)
(***************************************************************************)
SomebodyGetsReady ==
    (started /\ Fighting # {}) ~> (Fighting \cap Range(ready) # {} \/ Fighting = {})
=============================================================================
