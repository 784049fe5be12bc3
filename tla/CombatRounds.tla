---------------------------- MODULE CombatRounds ----------------------------
(***************************************************************************)
(* What the rounds of the story make of a fight.                           *)
(*                                                                         *)
(*   src/src/webui/services/combat_extension.py       settling an action   *)
(*   src/src/engine/combat_narrative.py               telling it           *)
(*   src/src/engine/modules/combat_extension_state.py its round snapshots  *)
(*   src/src/engine/round_recovery.py, round_snapshots.py, economy.py and  *)
(*   src/src/commands/swipe_generator.py              what restores what   *)
(*                                                                         *)
(* Combat actions are settled at once, in the action phase, before the     *)
(* round's own snapshots are taken.  The module therefore keeps a snapshot *)
(* of its own per round: its payload before the round's first action, and  *)
(* each field of a sheet or an NPC as it was before the first action that  *)
(* touched it.  Four parties restore overlapping parts of the same         *)
(* records: the players' snapshot, the ledger's before-images, the NPCs'   *)
(* snapshot of the judgment's entry, and this one.                         *)
(*                                                                         *)
(* One player strikes NPCs, with his qi or with talismans from his bag,    *)
(* which he can also buy.  Whose turn it is, is the matter of CombatTurns. *)
(* A narrative changes nothing by itself here.  A crash loses or keeps an  *)
(* aggregate as a whole (SaveFiles) and is left out.                       *)
(***************************************************************************)
EXTENDS Integers, Sequences, FiniteSets

CONSTANTS
    Palms, Talismans,  \* intents the client may submit, with their cost
    Npcs,
    Target,            \* whom each intent strikes
    None,
    Plenty,            \* what everything starts with
    MaxRound,          \* rounds followed
    MaxBuys, MaxFailures, MaxRewinds,
    SwipeBack,         \* how many entries back the GM narrates anew
    MidJudgment        \* whether he does so during a judgment, too

Intents == Palms \cup Talismans
Carried == {"bag", "gold"}  \* what snapshot_players takes; qi is not in it
Fields  == {"qi"} \cup Carried \cup Npcs
Rounds  == 1..MaxRound + 1

Payload   == [intents : SUBSET Intents, pending : SUBSET Intents]
Values(S) == [S -> Int]
Partial   == UNION {Values(S) : S \in SUBSET Fields}
Snapshot  == [payload : Payload, fields : Partial]

ASSUME NamesAssumption ==
    /\ IsFiniteSet(Intents) /\ Palms \cap Talismans = {}
    /\ Target \in [Intents -> Npcs]
    /\ Npcs \cap ({"qi"} \cup Carried) = {}
    /\ None \notin Snapshot

ASSUME BoundsAssumption ==
    /\ Plenty \in Nat /\ Plenty >= Cardinality(Intents) + MaxBuys
    /\ {MaxRound, MaxBuys, MaxFailures, MaxRewinds, SwipeBack} \subseteq Nat
    /\ MidJudgment \in BOOLEAN

VARIABLES
    world,      \* qi, bag and gold of the player, and hit points of the NPCs
    payload,    \* the intents settled, and those the story has still to tell
    snapshots,  \* per round, the module's snapshot while the round is open
    phase, round,
    entry,      \* what the judgment's entry has captured of players and NPCs
    log,        \* per round told: its number, what it told, its snapshots
    purchases,  \* settled purchases with their before-images
    failures, rewinds   \* bounds

fight == <<world, payload, snapshots>>
story == <<phase, round, entry, log>>
vars  == <<fight, story, purchases, failures, rewinds>>

Part(f, S) == [x \in S \cap DOMAIN f |-> f[x]]

\* f laid over g.
Over(f, g) == [x \in DOMAIN f \cup DOMAIN g |-> IF x \in DOMAIN f THEN f[x] ELSE g[x]]

NoFields == Part(world, {})

Init ==
    /\ world = [f \in Fields |-> Plenty]
    /\ payload = [intents |-> {}, pending |-> {}]
    /\ snapshots = [r \in Rounds |-> None]
    /\ phase = "action" /\ round = 1 /\ entry = None /\ log = <<>>
    /\ purchases = <<>> /\ failures = 0 /\ rewinds = 0

----------------------------------------------------------------------------
(***************************************************************************)
(* Acting and buying, in the action phase.                                 *)
(***************************************************************************)

\* What pays for an intent, and what its settlement may change: the declared
\* fields of the actor and the target, and the bag if an item is consumed.
Payment(i) == IF i \in Palms THEN "qi" ELSE "bag"
\* Mutant of Touched: the target is not put aside.
TouchedActor(i) == {"qi", Payment(i)}

Touched(i) == {"qi", Target[i], Payment(i)}

\* capture_combat_extension_snapshot: only what is not yet in it.
Captured(S) ==
    IF snapshots[round] = None
    THEN [payload |-> payload, fields |-> Part(world, S)]
    ELSE [snapshots[round] EXCEPT !.fields = Over(@, Part(world, S))]

\* An intent already settled is answered from the record: nothing happens.
Act(i) ==
    /\ phase = "action" /\ i \notin payload.intents
    /\ world[Payment(i)] > 0
    /\ snapshots' = [snapshots EXCEPT ![round] = Captured(Touched(i))]
    /\ world' = [world EXCEPT ![Payment(i)] = @ - 1, ![Target[i]] = @ - 1]
    /\ payload' = [intents |-> payload.intents \cup {i}, pending |-> payload.pending \cup {i}]
    /\ UNCHANGED <<story, purchases, failures, rewinds>>

\* resolve_payment, for a purchase offered and settled in this round.
Buy ==
    /\ phase = "action" /\ Len(purchases) < MaxBuys /\ world["gold"] > 0
    /\ purchases' = Append(purchases, [round |-> round, reversed |-> FALSE,
                                       before |-> Part(world, Carried)])
    /\ world' = [world EXCEPT !["gold"] = @ - 1, !["bag"] = @ + 1]
    /\ UNCHANGED <<payload, snapshots, story, failures, rewinds>>

----------------------------------------------------------------------------
(***************************************************************************)
(* The judgment of a round.                                                *)
(***************************************************************************)
Judge ==
    /\ phase = "action" /\ round <= MaxRound /\ Len(log) < MaxRound
    /\ phase' = "judgment"
    /\ entry' = [players |-> Part(world, Carried), npcs |-> Part(world, Npcs)]
    /\ UNCHANGED <<fight, round, log, purchases, failures, rewinds>>

\* commit_round: without a snapshot of this round, the payload as it is now.
StartOfRound == IF snapshots[round] = None THEN [payload |-> payload, fields |-> NoFields]
                ELSE snapshots[round]

\* current_combat_extension_snapshot: the fields followed, as they are now.
EndOfRound == [payload |-> payload, fields |-> Part(world, DOMAIN StartOfRound.fields)]

\* The narrative tells what is pending, which is then forgotten.
Commit ==
    /\ phase = "judgment"
    /\ log' = Append(log, [round |-> round, told |-> payload.pending,
                           players |-> entry.players, prePlayers |-> Part(world, Carried),
                           start |-> StartOfRound, pre |-> EndOfRound])
    /\ payload' = [payload EXCEPT !.pending = {}]
    /\ snapshots' = [snapshots EXCEPT ![round] = None]
    /\ phase' = "action" /\ round' = round + 1 /\ entry' = None
    /\ UNCHANGED <<world, purchases, failures, rewinds>>

\* Mutants of Abort: only the payload is restored; nothing is restored, and
\* what was pending counts as told.
AbortKeepsFields ==
    /\ phase = "judgment" /\ failures < MaxFailures
    /\ world' = Over(entry.npcs, Over(entry.players, world))
    /\ payload' = StartOfRound.payload
    /\ phase' = "action" /\ entry' = None
    /\ failures' = failures + 1
    /\ UNCHANGED <<snapshots, round, log, purchases, rewinds>>

AbortDropsPending ==
    /\ phase = "judgment" /\ failures < MaxFailures
    /\ world' = Over(entry.npcs, Over(entry.players, world))
    /\ payload' = [payload EXCEPT !.pending = {}]
    /\ phase' = "action" /\ entry' = None
    /\ failures' = failures + 1
    /\ UNCHANGED <<snapshots, round, log, purchases, rewinds>>

\* abort_round_processing: the players, then the module, then the NPCs.
Abort ==
    /\ phase = "judgment" /\ failures < MaxFailures
    /\ LET open == snapshots[round] # None
       IN  /\ world' = Over(entry.npcs, Over(StartOfRound.fields, Over(entry.players, world)))
           /\ payload' = IF open THEN snapshots[round].payload ELSE payload
    /\ phase' = "action" /\ entry' = None
    /\ failures' = failures + 1
    /\ UNCHANGED <<snapshots, round, log, purchases, rewinds>>

----------------------------------------------------------------------------
(***************************************************************************)
(* Rewriting history.                                                      *)
(***************************************************************************)

\* rewind_begin: the round that is open goes first.
OpenUndone == Over(StartOfRound.fields, world)

Withdrawn(r) == [i \in DOMAIN purchases |->
                    [purchases[i] EXCEPT !.reversed = @ \/ purchases[i].round >= r]]

\* reconcile_rollback_snapshot: before-images go over the snapshot, the
\* oldest of the round last.
Reconciled(players, r) ==
    LET undone == {i \in DOMAIN purchases : purchases[i].round = r}
    IN  IF undone = {} THEN players
        ELSE purchases[CHOOSE i \in undone : \A j \in undone : i <= j].before

DiscardedFrom(r) == [n \in Rounds |-> IF n >= r THEN None ELSE snapshots[n]]

\* Both rewrites restore the players first, then the module's own fields.
RewoundTo(r, players, snapshot) ==
    /\ world' = Over(snapshot.fields, Over(Reconciled(players, r), OpenUndone))
    /\ purchases' = Withdrawn(r)
    /\ snapshots' = DiscardedFrom(r)
    /\ round' = r
    /\ rewinds < MaxRewinds /\ rewinds' = rewinds + 1
    /\ UNCHANGED failures

\* rollback_last_round
Rollback ==
    /\ log # <<>>
    /\ LET last == log[Len(log)]
       IN  /\ RewoundTo(last.round, last.players, last.start)
           /\ payload' = last.start.payload
    /\ log' = SubSeq(log, 1, Len(log) - 1)
    /\ phase' = "action" /\ entry' = None

\* The log is in story order, so that its entries up to round r are a prefix.
BranchCut(r) == SubSeq(log, 1, Cardinality({j \in DOMAIN log : log[j].round <= r}))

\* A swipe of the first entry of round r: what was pending then is told anew.
Swipe(i) ==
    /\ i \in DOMAIN log /\ Len(log) - i < SwipeBack
    /\ phase = "action" \/ MidJudgment
    /\ \A j \in 1..i - 1 : log[j].round # log[i].round
    /\ LET e == log[i]
       IN  /\ RewoundTo(e.round, e.prePlayers, e.pre)
           /\ payload' = [e.pre.payload EXCEPT !.pending = {}]
           /\ log' = [BranchCut(e.round) EXCEPT ![i].told = e.pre.payload.pending]
    /\ UNCHANGED <<phase, entry>>

Next ==
    \/ \E i \in Intents : Act(i)
    \/ Buy
    \/ Judge \/ Commit \/ Abort
    \/ Rollback
    \/ \E i \in 1..MaxRound : Swipe(i)

Spec == Init /\ [][Next]_vars

----------------------------------------------------------------------------
IsPayload(p)  == p.pending \subseteq p.intents /\ p.intents \subseteq Intents
IsSnapshot(s) == IsPayload(s.payload) /\ s.fields \in [DOMAIN s.fields \cap Fields -> Nat]

RoundsTypeOK ==
    /\ world \in [Fields -> Nat]
    /\ IsPayload(payload)
    /\ \A r \in Rounds : snapshots[r] # None => IsSnapshot(snapshots[r])
    /\ phase \in {"action", "judgment"} /\ round \in Rounds
    /\ entry = None <=> phase = "action"
    /\ \A i \in DOMAIN log : IsSnapshot(log[i].start) /\ IsSnapshot(log[i].pre)

Settled(S) == Cardinality(payload.intents \cap S)

(***************************************************************************)
(* An action is paid for exactly once as long as the server remembers it,  *)
(* and not at all when it has forgotten it, so that its intent could be    *)
(* settled again: whatever fails, is rolled back or narrated anew.         *)
(***************************************************************************)
PaidOnce == world["qi"] + Settled(Palms) = Plenty

(***************************************************************************)
(* The same of what it does to its target, as long as no judgment has      *)
(* failed.                                                                 *)
(***************************************************************************)
HitOnce ==
    \A n \in Npcs : world[n] + Settled({i \in Intents : Target[i] = n}) = Plenty

HitUnlessFailed == failures = 0 => HitOnce

(***************************************************************************)
(* combat_narrative: the story tells every settled action exactly once.    *)
(* What is settled is pending or told by one entry of the log that stands, *)
(* and the log tells nothing that has been undone.                         *)
(***************************************************************************)
ToldOnce ==
    /\ payload.intents = payload.pending \cup UNION {log[i].told : i \in DOMAIN log}
    /\ \A i \in DOMAIN log :
          /\ log[i].told \cap payload.pending = {}
          /\ \A j \in DOMAIN log : i # j => log[i].told \cap log[j].told = {}

(***************************************************************************)
(* ADR 0003: a rewind withdraws purchases exactly.  The bag and the gold   *)
(* are those of the purchases and the consumed talismans that stand.       *)
(***************************************************************************)
GoodsAddUp ==
    LET bought == Cardinality({i \in DOMAIN purchases : ~purchases[i].reversed})
    IN  /\ world["gold"] + bought = Plenty
        /\ world["bag"] + Settled(Talismans) = Plenty + bought
=============================================================================
