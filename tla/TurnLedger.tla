----------------------------- MODULE TurnLedger -----------------------------
(***************************************************************************)
(* The books of a fight: CombatTurns with the history a table would need   *)
(* to check that the turns were given fairly.  Nothing here decides        *)
(* anything; every step is a step of CombatTurns that is written down.     *)
(*                                                                         *)
(* Under "threshold" an actor earns his speed for every moment that he     *)
(* waits, and a turn costs the threshold.  Whoever joins the queue has     *)
(* arrived at an exact time, a fraction of a moment.  Under "ordered" a    *)
(* turn is counted when it is given, used or not.                          *)
(***************************************************************************)
EXTENDS CombatTurns

CONSTANTS MaxClock, MaxTurns  \* how long the books are kept

ASSUME LedgerAssumption == MaxClock \in Nat /\ MaxTurns \in Nat

VARIABLES
    clock,    \* whole moments passed
    earned,   \* what each has earned by waiting
    taken,    \* turns used ("threshold") or given ("ordered")
    arrival,  \* when each of the queue arrived, as a fraction
    cut,      \* the one who had the turn has fallen outside of the fight
    steady    \* alive and in the fight ever since it was started

books == <<clock, earned, taken, arrival, cut, steady>>
lvars == <<vars, books>>

LInit ==
    /\ Init
    /\ clock = 0 /\ earned = [a \in Actors |-> 0] /\ taken = [a \in Actors |-> 0]
    /\ arrival = [a \in Actors |-> [num |-> 0, den |-> 1]]
    /\ cut = FALSE /\ steady = Players

Counts(a) == taken[a] < MaxTurns /\ taken' = [taken EXCEPT ![a] = @ + 1]

\* The moments that pass: PassTime has but one way to go.
Moments == CHOOSE t \in 1..Threshold :
              /\ \E a \in Pending : FullAfter(a, t)
              /\ \A u \in 1..t - 1 : \A a \in Pending : ~FullAfter(a, u)

TimeMoves ==
    /\ MoveTime
    /\ clock + Moments <= MaxClock
    /\ clock' = clock + Moments
    /\ earned' = [a \in Actors |-> IF a \in Pending THEN earned[a] + Pace(a) * Moments
                                   ELSE earned[a]]
    /\ arrival' = [a \in Actors |->
          IF a \in Pending /\ FullAfter(a, Moments)
          THEN [num |-> clock * Pace(a) + Threshold - gauges[a], den |-> Pace(a)]
          ELSE arrival[a]]
    /\ UNCHANGED taken

TurnMoves ==
    /\ MoveTurn /\ Counts(order'[turn'])
    /\ UNCHANGED <<clock, earned, arrival>>

\* Whoever keeps a full gauge after his turn arrives again at that moment.
ActorActs(a, target, kind) ==
    /\ Act(a, target, kind)
    /\ IF ~started THEN UNCHANGED taken
       ELSE IF config.kind = "threshold" THEN Counts(a) ELSE Counts(order'[turn'])
    /\ arrival' = IF started /\ config.kind = "threshold" /\ a \in Range(ready')
                  THEN [arrival EXCEPT ![a] = [num |-> clock, den |-> 1]] ELSE arrival
    /\ UNCHANGED <<clock, earned>>

Narrated == /\ \E a \in Mortal : Fall(a) \/ Rise(a)
            /\ UNCHANGED <<clock, earned, taken, arrival>>

LNext ==
    /\ \/ TimeMoves \/ TurnMoves \/ Narrated
       \/ \E a, target \in Actors, kind \in Effects : ActorActs(a, target, kind)
    /\ cut' = (cut \/ HolderFallen')
    /\ steady' = (IF started THEN steady ELSE engaged') \cap living'

LSpec == LInit /\ [][LNext]_lvars

----------------------------------------------------------------------------
LedgerTypeOK ==
    /\ clock \in 0..MaxClock
    /\ earned \in [Actors -> Nat] /\ taken \in [Actors -> Nat]
    /\ arrival \in [Actors -> [num : Nat, den : Nat \ {0}]]
    /\ steady \subseteq Actors

(***************************************************************************)
(* Nobody acts on credit: the turns an actor has used and what is left in  *)
(* his gauge never exceed what he has earned by waiting, whatever policy   *)
(* the rule names, however often he is quickened, falls and comes back.    *)
(* And nothing is lost when the rule carries gauges over.                  *)
(***************************************************************************)
Spent(a) == taken[a] * Threshold + gauges[a]

TurnsAreEarned ==
    config.kind = "threshold" =>
        \A a \in Actors :
            IF config.overflow = "carry" /\ config.consume = "carry"
            THEN Spent(a) = earned[a] ELSE Spent(a) <= earned[a]

(***************************************************************************)
(* The queue is in the order of the exact times of arrival, across every   *)
(* advance: whoever was first to fill his gauge is offered the turn first, *)
(* also when both filled it within one whole moment, when one of them runs *)
(* further over, or when speeds have changed in between.                   *)
(***************************************************************************)
Earlier(x, y) == x.num * y.den <= y.num * x.den

FirstComeFirstServed ==
    \A i, j \in DOMAIN ready : i < j => Earlier(arrival[ready[i]], arrival[ready[j]])

(***************************************************************************)
(* "round_robin", the fixed order that goes round: two actors who have     *)
(* been in the fight from the start, and alive, have been given the turn   *)
(* equally often, but for the round that is under way.  Whoever joins or   *)
(* dies in the meantime costs nobody a turn, as long as the narrative does *)
(* not fell the one whose turn it is.                                      *)
(***************************************************************************)
EvenTurns ==
    config.kind = "ordered" /\ ~cut => \A a, b \in steady : taken[a] <= taken[b] + 1
=============================================================================
