# DiceFrame: a TLA+ model of its tables, from the turn barrier to the save files

DiceFrame runs tabletop role-playing games whose game master is a language
model. A *table* (one `GameInstance`) moves through rounds: players submit
actions, the AI acts for the seats nobody plays, the round is *judged* (checks
are planned and the story narrated, both by slow model calls), and the next
round opens. On the way the table keeps an authoritative economy: offers,
instalments, rewards, a ledger, and effects of the story that wait until every
offer made with them is settled. The GM may take rounds back, or have an old
round narrated anew, and then story, money, items, effects and long-term memory
must all return to the same point. In the end the GM freezes the run, reviews
its epilogue, and carries the characters into a new game. All of it is saved to
files that must survive a crash at any moment.

Almost every operation awaits a model, a store or a disk in its middle, and
other operations run meanwhile. That is what is hard about this program, and
what the modules here are about.

Paths below are relative to the repository; the Python package is `src/src/`.

## 1. Inventory

`PROJECT.json` lists every component with its files, and the hazards of the code
at their lines. The components that matter for correctness:

| Component | State it keeps | Operations | Hard because |
|---|---|---|---|
| **Economy** `engine/economy.py` | proposals, transactions (the ledger), effect groups, outcomes | queue an offer or a reward, accept (deposit, tail, whole), refuse, cancel, reverse an era | an offer is settled rounds after it was made, perhaps in two instalments, and either round may be taken back |
| **Memory outbox** `engine/memory_outbox.py` | deliveries to the memory store | queue, deliver, supersede, revive, request and make a reversal | the store is outside the aggregate; it may fail, and the process may die between the store and the save |
| **Memory store** `memory/delta.py` | rows, a journal of deliveries with before and after | apply once, reverse what still matches | undoing several changes of one key; identities that come back |
| **Round engine** `turn_state.py`, `round_recovery.py`, `round_snapshots.py` | phase, round number, log with snapshots, snapshot of the judgment | open, finish, abort, roll back | three snapshots with different dates; settlements in between |
| **Swipe** `commands/swipe_generator.py` | none; a staged copy of the aggregate | narrate a round of the log anew | cuts the branch behind that round; the copy is published after the model's calls, over whatever the aggregate has become |
| **Round processor** `commands/round_processor.py` | running coroutine, prepared checks | plan, narrate, commit, discard, recover | state is read before a model call and used after it |
| **Turn service** `webui/services/turns.py` | none | submit, advance, resume a hung judgment | several requests may carry the same round |
| **Turn barrier, control, AI seats** `turn_state.py`, `player_control.py`, `commands/ai_player.py` | ready players, queued actions, who plays each seat, with a revision | act, leave, return, claim, hand over, fill the AI seats | the AI answers for a seat long after it was asked |
| **Settlement service** `webui/services/characters.py` | none; a staged copy | settle, refuse, charge, delete a character, drain the outbox | several stores change together or not at all |
| **Aggregate root** `engine/game_instance.py` | state lock, process lock, authority gate | authoritative write, historical rewrite | each lock is held by some writers only |
| **Luck** `engine/luck_resolver.py` | pending luck decisions, timers | decide, time out, force | the timer races the player and the GM |
| **Persistence, registry** `engine/persistence.py`, `game_registry.py` | `state.json`, its backup, `chatlog.jsonl`; the registered aggregate | save, load, replace a run | three files written one after the other; coroutines of the run before |
| **Finale, growth, carry** `modules/run_finale.py`, `modules/skill_growth.py`, `webui/services/run_story.py` | frozen job, archive, deliveries; marks, receipts, entropy | prepare, review, cancel, commit, carry; settle growth | a write barrier beside the gate; saves refused in the middle; retries |
| **Combat extension** `engine/combat_scheduler.py`, `combat_effects.py`, `modules/combat_extension_state.py`, `webui/services/combat_extension.py` | gauges or order of turns, timed modifiers, settled intents, snapshots per round | move time, act; capture, restore, discard | settled before its round is told; four parties restore parts of the same sheets |
| **Adventures, assistant agent, rulesets** | progress, plans, encounters | schedule, apply, approve | not modelled, see section 6 |

How they interact. A request handler calls the turn service; that fills the AI
seats, puts the aggregate into judgment under the state lock, releases it, and
awaits the round processor, which calls the economy (through the state applier)
and the round engine when the narrative arrives. Meanwhile the settlement
service and the GM's operations work on the same aggregate from other
coroutines, the luck timer and scene images from tasks of their own. Only these
order them:

* the **state lock** makes single operations atomic, and is never held over a
  narrative call;
* the **process lock** is held from the last planning of a round to its commit,
  and by a swipe;
* the **authority gate** is entered by settlements, GM writes, rollback and
  swipe. A request of the web client about a game holds it from beginning to end
  (`webui/run_write_admission.py:66`); an action submitted by the assistant
  agent, whose requests name no game, the resumption after a game is created or
  hosted, and a luck timer progress the table outside it;
* **`run_writable`** refuses most writes once a run is frozen or over.

What makes each component correct:

* *Economy*: proposals and ledger tell the same story; nothing is settled twice;
  a refusal is final; effects wait for all their offers, and no group waits for
  an offer nobody can decide.
* *Rewinding*: nothing that counts is dated after the round the story went back
  to; sheets hold what the ledger says.
* *Outbox*: memory is queued, delivered or withdrawn exactly with its group.
* *Rounds*: concurrent rounds and swipes look like atomic ones; a story told of an
  erased branch is dropped; a judgment ends.
* *Barrier*: a round waits for its humans, the AI acts last, once, and never over
  a human; a table of AI seats goes on.
* *Files*: what was acknowledged is what a restart finds; a replaced run stays
  replaced.
* *Combat*: queue and gauges agree, turns are earned and given in order, everybody
  comes to one; an action that stands is paid, felt and told once, and one that is
  taken back not at all.
* *Finale*: what was reviewed is what is archived, and for good; growth is
  settled and rolled once; a carried game is neither lost nor taken back.

## 2. Modules

    Economy        the aggregate, one action per operation
     |- EconomyMC          instances for TLC
     `- RoundTable         several coroutines carry rounds through Economy
         |- RoundTableMC   instances for TLC
         `- EconomyProofs  types, branches, effect groups, memory, ledger,
                           sheets; of RoundTable ledger and atomicity

    MemoryOutbox   the outbox against the store, saves, crashes, a swipe's copy
     |- MemoryOutboxMC     instances for TLC
     `- MemoryProofs       types, what is settled is remembered, reversals can be made

    DurableGame    what saving a game promises
    SaveFiles      the files, the registry, runs that replace each other;
     |             it implements DurableGame
     |- SaveFilesMC        instances for TLC
     `- SaveFilesProofs    durability, replaced runs, the refinement

    Seats          who acts for a seat, whom the round waits for, the AI
     |- SeatsMC            instances for TLC
     `- SeatsProofs        types, the barrier, the AI's answers

    RunFinale      growth, freeze, review, archive, carry
     |- RunFinaleMC        instances for TLC
     `- FinaleProofs       frozen and archived runs, carried games, growth

    CombatTurns    whose turn it is, on gauges or in a fixed order
     |- CombatTurnsMC      instances for TLC
     `- TurnLedger         the same with its history
         |- TurnLedgerMC   instances for TLC
         `- TurnProofs     queue, turns earned, order of arrival, even turns

    CombatRounds   what the rounds of the story make of a fight
     |- CombatRoundsMC     instances for TLC
     `- CombatProofs       actions paid, felt and told exactly once

    Subsequences   what a filter leaves of a list, for MemoryOutbox, SaveFiles and
                   CombatTurns, with its lemmas

The modules meet where one takes for a step what another opens: a round is one
step of `Economy`, a coroutine in `RoundTable`; the turn barrier is in the guard
of `Advance` there, and is `Seats` in full; a delivery is one step of `Economy`,
a transaction with the store and a save in `MemoryOutbox`; a save is part of
each step everywhere, or refused as a whole, and is `SaveFiles` in full.

### Economy

`Economy` takes each operation of the aggregate as one step: all of them run
inside one lock region, or on a staged copy published at the end. (A swipe does not
look whether the aggregate still is what it copied; that is the business of
`RoundTable`, and there `CanSwipe` and `Swiped`, the guard and the copy, are apart
from `Publish`.) Its variables
are fields of the aggregate:

| Variable | Code |
|---|---|
| `phase`, `round`, `log`, `startSnapshot` | `state` (action or judgment), the round counter, `instance.log`, `round_safety` |
| `seated`, `sheets` | `instance.players`; balance, items and marks of narrative effects in their sheets |
| `proposals`, `transactions`, `groups`, `outbox` | the lists of the module `economy` |
| `rewinds`, `aborts` | no counterpart: they bound the model |

| Action | Code |
|---|---|
| `QueueCharge` | `create_payment_proposal`; the planner's quote through `queue_purchase_offer` |
| `PayDeposit`, `Settle`, `RejectForFunds`, `Refuse` | `resolve_payment` with `resolve_proposal`, `_settle_effect_group`, `complete_effect_group` |
| `DeleteCharacter` | `delete_character`, `cancel_proposals_for_player`, `_refund_installment_deposit` |
| `DeliverMemory` | `_deliver_memory_outbox_locked` |
| `BeginJudgment`, `FinishJudgment`, `AbortJudgment` | `do_advance_locked`, `finish_judgment` with the rewards of the response, `abort_round_processing_locked` |
| `RecoverJudgment`, `ResumeGame` | `recover_all`, `_resume_game` |
| `RollbackLastRound`, `SwipeRound`, `SwipeOpening` | `rollback_last_round_locked`, `_generate_locked`, both through `reverse_round_economy` and `reconcile_rollback_snapshot` |

A few of the code's decisions are worth seeing in the model:

* An era is cut by the round an offer was *made* in and the round it was
  *settled* in (`OriginIn`, `SettledIn`). An older offer settled in the era is
  open again; how much of an instalment is then paid is read off the ledger
  (`Resynced`).
* Before-images are absolute. A rewind restores a snapshot and then writes the
  before-image of the first reversed settlement of that round over it
  (`Reconciled`, `FirstOf`).
* A character that is deleted gets its deposit back in the ledger, but no
  account is left to credit (`Refund`).
* The round engine does not ask for the phase when it records a round
  (`RecordRound`); its callers do.

Abstractions. An item is named by the offer that grants it; narrative effects by
their group, and their mark on the sheets by membership in `sheets.effects`;
texts, times, health events, wording of outcomes are left out. Offers and groups
are never queued twice under one identity, so the index of sources appears only
as the guard `Fresh`. Saving is part of each step: the code holds the state lock
while it saves, and puts the old state back if a settlement's save fails.

### RoundTable

`RoundTable` extends `Economy` with coroutines. A task submits or resumes a
round, plans it, asks for the narrative, commits or discards it, and between
any two of these steps everything else may happen. Its variables are `task` (the
stage of each coroutine, the economy fingerprint its running call was given, and
how many rewinds the table had seen then), `prepared`, `luck`, and `swipe`, the
two copies a swipe under way has made of the aggregate, as it was and as the model
has rewritten it. `swipes` has no counterpart: it bounds the model.

| Action | Code |
|---|---|
| `Advance` | `submit_action`, `advance_round` in the action phase |
| `Resume` | `advance_round` in a judgment; `_luck_timeout`, a luck decision |
| `Plan`, `Replan`, `LockedPlan` | the three places that prepare checks: before `process_round`, in it, and under the process lock |
| `Call` | the guards of `process_round` |
| `Commit`, `Discard` | `process_round_impl` from the test of the fingerprint on |
| `Fail` | an exception, or the GM's preempting cancellation: `_recover_failed_round` |
| `Restart` | process death and `recover_all` |
| `StageSwipe` | `SwipeGenerator.generate` up to its first await: gate, process lock, copies |
| `PublishSwipe`, `RevertSwipe` | `replace_persisted_state_from` with the rewritten copy; a save that is refused, and the copy from before |
| `DropSwipe` | no narrative came |
| `Manage`, `Drain`, `Rollback`, `DecideLuck` | the other writers, each with the locks it takes |

`Gated` is the set of coroutines that hold the authority gate throughout: the
requests of the web client. The code has both kinds, so the runs use both
extremes, and what needs the gate is proved for `Gated = Tasks`.

What the copy becomes is fixed in `StageSwipe`: it depends on the copied state and
on what the model says, and nobody sees it before it is published. Between
`StageSwipe` and the end of the swipe all runs that ask for neither the gate nor the
process lock: drains always, and outside the gate luck, plannings, aborts, advances.

`Spec` of `Economy` is the abstract specification of `RoundTable`, whose variables
are a superset. The refinement mapping is the identity but for one variable: while a
swipe is under way, `outbox` is taken as the swipe copied it (`SeenOutbox`), and the
property is `RoundsAreAtomic == Atomic!Spec`. So a drain in the middle of a swipe is
a stutter, and what it noted shows when the swipe is dropped, as one `DeliverMemory`.
If the swipe is published, it never happened in the aggregate, although it did in
the store (item 6 of section 4). Without the mapping the refinement is false: a
delivery that was noted turns superseded, which is no step of `Economy`.

### MemoryOutbox

`Economy` takes the memory store for a box that answers. `MemoryOutbox` opens it,
and reduces the economy to which effect groups are settled. It keeps three
aggregates, the live one, the saved one and the copy a swipe works on, since it is
between these that memory gets lost or left behind.

| Variable | Code |
|---|---|
| `live` | the aggregate: `round`, `judging` and `prepared` (phase, prepared checks), `world` (what happened), `entry` (the world in the entity snapshot), `settled` (the groups), `log`, `box` (`external_effects_outbox`) |
| `disk` | `state.json` |
| `staged` | the copy in `SwipeGenerator.generate` |
| `drain` | what a running `_deliver_memory_outbox_locked` has yet to do |
| `planning` | a `prepare_round_checks_ai` that waits for its model |
| `rows`, `journal` | the tables `memory_entries` and the deliveries with their before and after |
| `spent` | no counterpart: bounds the model |

| Action | Code |
|---|---|
| `Settle` | `resolve_payment` with `queue_memory_delivery` and the save |
| `BeginJudgment`, `FinishJudgment`, `AbortJudgment` | `do_advance_locked`, `finish_judgment`, `abort_round_processing_locked` |
| `Plan`, `Observe`, `PlanFails` | `prepare_round_checks_ai` before and after its model answers; `queue_world_memory` |
| `RollbackLastRound` | `rollback_round`: rollback, then save |
| `StageSwipe`, `PublishSwipe`, `DropSwipe` | `generate`: copy and rewind; `replace_persisted_state`; no narrative |
| `DrainBegin`, `DrainStep`, `DrainFail`, `DrainEnd` | the drain, each call of the store a step: `apply_economy_delta`, `reverse_economy_delta` |
| `Save` | `save`, by any other writer |
| `Crash` | process death and `recover_all` |

What is atomic: an operation of the store is one transaction of its database;
settling and rolling back save before anything else can run. The drain is cut at
every call of the store, for the store may raise and the process may die there;
the state lock it holds keeps out those who ask for that lock, and a swipe does
not. A settlement drains at once under its own lock; here its drain is a step
like any other, which allows more. The planner asks, when it is back, only
whether the economy still is the one it began with (`StillPlanned`), so it may
report events to a round that was taken back meanwhile.

Abstractions. A delivery adds one row under one key; its text is its source.
Updates and forgets inside a delta, edits of the GM, and other writers of the
store (summaries) are left out. A group may be settled once any round of the log
told of it. That identities come back is the point of `Events`: a redone round meets the
same events, as the code says event ids are made (`world/receipts.py`).

### SaveFiles and DurableGame

`DurableGame` says what a player may rely on: a game is submitted, put at one
instant, acknowledged; a crash loses nothing that was acknowledged; a run that
was replaced does not return. `SaveFiles` is the code: three files, touched one
after the other.

| Variable | Code |
|---|---|
| `live`, `stale`, `candidate` | the registered aggregate; the one a coroutine of the run before still holds; the successor `reset_game` and `restart_game` prepare |
| `state`, `backup`, `chatlog` | `state.json`, `state.backup.json`, `chatlog.jsonl` by lines |
| `writing` | how far a running `save` is |
| `acked`, `unacked` | no counterpart: what `save` has promised, and what it was given since |
| `spent` | no counterpart: bounds the model |

| Action | Code |
|---|---|
| `AppendRound`, `TakeBackRound`, `ChangeRound` | a round finishes, is rolled back, is told anew |
| `PrepareRun`, `DropCandidate` | `reset_game`, `restart_game` up to the save, and their failure |
| `BeginSave`, `BreakAppend` | `GameRegistry.save` with `assert_saveable`, `_append_chatlog`, whole or torn |
| `KeepBackup`, `PutState`, `SwapHistory` | the rename to the backup, the put of `state.json`, the history of a new run |
| `FinishSave`, `FailSave` | the return, with `replace_current` for a candidate; an `OSError` |
| `Crash`, `Load` | process death; `recover_all`, `load`, `_restore_chatlog` |

Refinement mapping: `durable <- Kept` (what `load` would take, `state.json` or
else the backup), `submitted <- unacked`, `live` is itself. The writes between the
begin of a save and its put are stutters; `KeepBackup` is one as well, since what
it moves is still what a restart finds.

Abstractions. An entry is its run, round and version. No coroutine runs while a
save writes (`save` does not await), so the steps of one save are cut only by
faults and crashes. Lines that do not parse are skipped by the code, and by
`Readable`; a cut inside a multi-byte character is not in the model (section 4).

### Seats

The turn barrier of one table. A seat is played by a human, by the AI, or by
nobody; `control` holds that with a revision which counts the changes.

| Variable | Code |
|---|---|
| `players`, `control`, `dead`, `away` | `instance.players`, the records of `player_control`, `alive`, `away_players` |
| `ready`, `queue`, `pending` | `ready_players`, `action_queue`, `pending_actions`, with who declared each |
| `phase`, `round`, `blocked`, `tries` | the phase, the round, an economy decision that keeps the table from advancing, failed judgments of this round |
| `task` | how far each coroutine is: with which seat, asked under which revision, in which round |
| `aiActs`, `changes` | no counterpart: a history variable, a bound |

| Action | Code |
|---|---|
| `Submit`, `Add` | `submit_action` before its awaits; `add_action` |
| `Enter`, `AskModel`, `ModelAnswers`, `ModelFails`, `Commit` | `fill_ai_seats`, `_fill_one`, `_fallback_or_skip`, `commit_ai_player_action_locked` |
| `TryAdvance`, `Judge`, `Continue`, `Finish`, `Abort` | `try_advance` and `do_advance_locked`; the judgment and who takes it up; `finish_judgment`; `abort_round_processing_locked` |
| `PressAdvance`, `ForceAdvance`, `Retry`, `Settle`, `Rollback` | the GM: `advance_round` without and with force, the retry of an AI seat, a decision, `rollback_last_round` |
| `SetControl`, `LeaveSeat`, `ReturnToSeat`, `Claim`, `Remove`, `ResumeCreated` | `set_player_control`, away with either policy, return, `claim_seat`, `remove_player`, the resumption after creation |

One coroutine, `Web`, holds the gate from beginning to end; those of `Ungated`
enter it only where they write (`MayWrite`). `Commit` has all the rechecks of the
code (`Current`); `Add` has the ones the code has, which do not include who plays
the seat.

### RunFinale

How a run ends. A round is reduced to what the finale meets of it: its phases,
the marks its checks leave for growth, the log entry that may be rewound. One
skill of one character stands for all: marks and rolls are made skill by skill.

| Variable | Code |
|---|---|
| `live`, `disk` | the aggregate and its last save: phase, log, sheets' growth, the slot of `skill_growth` (`pending`, `receipts`, `entropy`), what a round put aside (`before`), `job`, `archive`, deliveries (`out`) |
| `telling`, `drawing` | a round being processed; a scene image under way |
| `screen` | what each window of the GM shows |
| `delivering`, `carried`, `library` | the carry in progress; carried games in the registry and in their save directories |
| `confirmed`, `rolled`, `spent` | no counterpart: history, and a bound |

| Action | Code |
|---|---|
| `Advance`, `BeginProcessing`, `Mark`, `FinishRound`, `AbortRound` | a round with `begin_round_processing`, `mark_checks`, `_commit`, `_abort` of `skill_growth` |
| `RollbackRound`, `SwipeRound` | with `rewind_preflight` |
| `Resume`, `RemoveActors`, `Save` | what else may write: a submission at a paused table, `remove_player`, any save |
| `DrawPicture`, `DropPicture` | `_generate_scene_image` when it is back |
| `Intermission` | `reserve_entropy`, then `settle` |
| `Prepare`, `Look`, `Materials`, `Cancel`, `CommitFinale` | the operations of `run_story.py` on `run_finale.py` |
| `CarryBegin`, `CarryCreate`, `CarryRegister`, `CarryRecord`, `CarryFails` | `carry`, cut at each of its saves |
| `PlayCarried`, `RestartCarried` | someone plays or restarts the carried game before a retry |
| `Crash`, `Load` | process death; `recover_all` |

A window sends with its request the job and the revision it shows (`Reviewed`).
`Digest` is the fingerprint of everything but the finale; a job that no longer
matches it can only be cancelled. A save that is refused puts the old state back
(`staged_transaction`), so `Publish` or nothing happens; a round's save only logs
its failure (`Keep`).

### CombatTurns and TurnLedger

Two requests drive a fight. `scheduler_advance`, of the GM, is `MoveTime` under
`threshold` and `MoveTurn` under the kinds with a fixed order; `resolve_combat_action`
is `Act`, with `UseGauge` or `UsePlace` for the turn it uses. `Fall` and `Rise` are
what anything else does to hit points: each request reads them from the records
again (`_seed_pools`).

| Variable | Code |
|---|---|
| `config` | `SchedulerConfig` of the rule, chosen at the start |
| `living`, `engaged` | hit points and death in the records; the entities that have resource pools |
| `started`, `order`, `turn`, `gauges`, `ready` | `SchedulerState` in the module's payload |
| `buffs` | modifiers of the speed, with their remaining advances |

Actors are numbers in the order of their identities; `ordered` stands for
`round_robin` and `initiative`, which are one here, because the service hands over
no `initiative`. `PassTime` and `Before` compare exact times of arrival as the code
does with `Fraction`. The order is made anew in each request (`PlaceOf`). A first
`Act` may come before the GM has started the scheduler: nobody's turn is asked for.

`TurnLedger` adds what a table would have to write down to check its scheduler: the
moments passed, what each actor earned, the turns, the exact time at which each
joined the queue. Its steps are steps of `CombatTurns`.

### CombatRounds

| Variable | Code |
|---|---|
| `world` | fields of one sheet (qi, bag, gold) and hit points of the NPCs |
| `payload`, `snapshots` | `current` (settled intents, events to tell) and `round_snapshots` of the module `combat_extension` |
| `phase`, `round`, `log`, `entry` | phase, round, log entries with their snapshots; what the entry of a judgment puts aside |
| `purchases` | transactions with their before-images |

| Action | Code |
|---|---|
| `Act`, `Buy` | `resolve_combat_action`; `resolve_payment` of a purchase |
| `Judge`, `Commit`, `Abort` | `do_advance_locked`, `finish_judgment_locked` with `commit_round` and `consume_pending_events`, `abort_round_processing_locked` with `abort_round` |
| `Rollback`, `Swipe` | `rollback_last_round_locked`, `_generate_locked`, with `rewind_begin`, `reconcile_rollback_snapshot` and `rewind_restore` |

The order in which parties restore is the order of the operands of `Over`, the last
restored first. The turn of an action is left to `CombatTurns`, what a narrative
changes to `Economy`.

## 3. Runs

| Run | Expected | What it asks |
|---|---|---|
| `books` | pass | two offers, one group, three rounds, one rewind: money, items, effects and memory follow the ledger, nothing is dated in a cut branch, no group waits for nobody |
| `ledger` | pass | one offer behind an opening narration, two rewinds, one failed judgment: ledger agreement, no double settlement, finality |
| `table` | pass | two coroutines outside the gate and a swipe, with fairness: types, ledger agreement, every judgment ends |
| `table_gated` | pass | two coroutines inside the gate, two swipes with drains in their middle: refinement of `Economy`, stale stories dropped |
| `outbox` | pass | one settlement and one event, a window of one, a rewind, an abort and a fault, with fairness: standing settlements are remembered, reversals can be made, the outbox clears |
| `saves` | pass | two runs, a log of three rounds, a torn append or a refused write, two crashes: acknowledged saves are found again, replaced runs never, and the files implement `DurableGame` |
| `seats` | pass | two seats, a web request and a coroutine outside the gate, three changes of hands, presence or roster, a failed judgment: the barrier and the AI's answers |
| `finale` | pass | two windows, an intermission, a finale, a carry, a late scene image, a rewind, two mishaps: all properties of `RunFinale` |
| `combat_turns` | pass | three actors in a fixed order or on gauges, with modifiers, deaths and revivals: queue and gauges agree, everybody comes to a turn (liveness) |
| `turn_ledger` | pass | the same with history: turns are earned and nothing is lost, the queue is in the order of arrival, a fixed order is even |
| `combat_rounds` | pass | three rounds, three rewinds, a failed judgment, a purchase, swipes during a judgment: actions that stand are paid and told once, and felt once if nothing failed |
| `stale_snapshot` | violation | a rewind leaves the books balanced: swipe during a judgment, rollback after it |

Section 4 has more configurations, each of which shows one thing go wrong. The type
invariants `MemoryTypeOK`, `FilesTypeOK`, `CombatTypeOK` and `LedgerTypeOK` can be
added to the configurations of their modules, where they hold; `CombatRoundsGoods.cfg`
checks `RoundsTypeOK`, and that gold and items add up (`GoodsAddUp`) where purchases
and failed judgments meet blows, but neither talismans nor a second rewind;
`SeatsServed.cfg` that a table of AI seats goes on though the model never answers, if
the GM retries its seats (`AITableGoesOn`).

Each property of a passing run comes with a mutant of the code (`Mutant of ...`
in the modules, next to the definition it changes) under which it fails.

### Bounds, and why they suffice

**books, ledger.** The terms are one purchase in two instalments (1
and 1, of a purse of 2), and one reward of money and an item, for the same
player: enough that a player cannot always pay, that a settlement has a
deposit and a tail in different rounds, that a reward pays what a charge then
spends, and that before-images of several settlements must be undone in order.
Two offers can be one group, two groups, or one of each kind; with one player
paying and another seated, deletion of either is possible. Three rounds give an
offer made in round 1, settled in round 2 and rewound from round 3. `MaxRewinds`
is 1 because with two of them `BooksBalance` fails for the reasons of items 1 and 17
of section 4; `MaxAborts` is 0 and the opening is absent for the reasons of items 2
and 3. `ledger` has both, and two rewinds, which reverse what was settled again
after a reversal; it has no effect groups, which do not touch the ledger. Deadlock is not checked, here and below: a run that has
used up its bounds stops.

**table, table_gated.** `table` adds to the terms a payment, which blocks the
table, and has two rounds, since the liveness check is costly; `table_gated` has
three, behind an opening narration, which may be told anew. `MaxSwipes` bounds the swipes that are begun: 1 in `table`, for the same
reason; 2 in `table_gated`, so that one may be dropped or its publication taken back
before another is published (`MaxRewinds` allows one publication). A swipe holds the
gate, so a table at which swipes are begun and fail for ever would keep a judgment
from being taken up; that is not what `JudgmentEnds` is about.

**outbox.** The window is one, so that a delivery and a settlement already push
each other out of it, as 51 deliveries would; three rounds let a rewind keep one
round and erase another; a fault is a store that raises or a process that dies.

**saves.** `Window` is 2 for the 100 rounds of the code, and the log may reach 3,
so that a round leaves the window; two runs, so that one replaces the other and a
coroutine holds the old one; one edit tells two versions of a round apart; one
fault meets each step of a save, and two crashes let a second save meet what the
first left behind.

**seats.** Two seats are a human and the AI, two humans, two of the AI, with
deaths, removals and new claims from all of them; three changes are enough to
hand a seat over and back while the AI is thinking and have a human join, two
rounds for an answer that comes a round late. With a fourth change and a failed
judgment `HumanActionStands` fails for the reason of item 13, with a second
coroutine outside the gate for that of item 12. `SeatsServed.cfg` has one change and no failed
judgment, since the liveness check is costly.

**finale.** Two windows (symmetric) are what review needs; two checks and two
seeds, so that a second check may meet the receipt of the first and a second
attempt a second seed; one rewind, one picture. With a third mishap
`GrowthSettledOnce` and `NoRerolls` fail for the reason of item 8. The theorems of
section 5 have no such bound.

**combat_turns, turn_ledger.** Speeds and threshold are such that two gauges get full
at one exact time, two within one moment at different times, and one runs over by
more than a threshold, so that its owner is queued again. One modifier at a time,
which quickens for two advances or slows for one, but never to zero (item 15 of
section 4 does that). The scheduler and its policies are chosen in the initial state:
a fixed order, gauges that carry over, and, for `combat_turns`, gauges that clamp and
reset; for `turn_ledger` every pair of policies but that. `Mortal` are those the
narrative may fell; actions fell and mend anybody. The NPC, met on the way, sorts
between the two players. What happens when the narrative fells the one who has the
turn of a fixed order is excepted in `EvenTurns` and `EveryoneGetsATurn` (item 14 of
section 4). `MaxClock` and `MaxTurns` end the books.

**combat_rounds.** Two palms and a talisman on two targets meet each other in one
field, in another, and across rounds. Three rewinds redo and undo a round again.
The run keeps apart what section 4 shows to fail: `HitOnce` after a failed judgment;
`GoodsAddUp`, with a talisman and a purchase, with two rewinds and purchases, and with
a swipe during a judgment; `PaidOnce`, with a swipe of an older round (`SwipeBack`).

### Fairness

*`FairSpec` of `CombatTurns`.* Weak fairness for `MoveTime` and `MoveTurn`: the GM
goes on moving time, with a button that is always there. Nobody is obliged to act.

*`FairTableSpec`.* Weak fairness for each task's own steps: a model
call has a timeout and returns or raises. For `DecideLuck`: each pending
decision has a timer (`_luck_timeout`). For `Drain`: the store comes back and
every progression retries the outbox first. For decisions: the payer or the GM
answers what they are asked while the gate is free. For the end of a swipe
(`EndSwipe`): its model calls return or raise. For `Resume`, of some task:
the GM presses *advance* while the table hangs, for which `advance_round` has a
branch of its own ("检测到卡死状态，自动恢复"). Without this last assumption
`JudgmentEnds` fails, since a discarded narrative leaves the table in judgment,
and that is the point of the property: one press must always be enough in the
end. Nothing is assumed of failures, rollbacks or swipes. A luck timer may be
disabled by configuration; then the assumption is that the player decides. A decision
that a published swipe brings back with its copy has no timer any more; it is made by
its player, or declined for them by the GM's forced advance (`turns.py:1230`).

*`FairSpec` of `MemoryOutbox`.* Of the drain's own steps. Every
progression, every new connection of a client (`routes/sse.py`) and the GM's
rollback drain the outbox first, and a call of the store returns or raises; that
it raises is bounded.

*`Served` of `Seats` (`SeatsServed.cfg`).* Weak fairness for a coroutine's own steps: a model call
returns or fails. Strong fairness for the two steps of a coroutine outside the gate
that need it (`Add`, `Commit`): the gate is an `asyncio.Lock`, which is handed on
in the order it was asked for. Weak fairness for `Continue`, the luck timer. Strong
fairness for what the GM does: `Settle`, `PressAdvance`, `ForceAdvance`, and in
`RetriedSpec` the retry of each seat; a GM who keeps pressing meets each of them
enabled sooner or later. Nothing is assumed of players, of the model's
answers, of failures or changes.

## 4. What the runs found

Places where the code does not do what its documents say. Item 1 is a run of
`PROJECT.json`, which quotes the lines. Each of the others, but 14, 20 and 21, has a
configuration of its own beside the modules; `tlc -config <configuration>
<module>` shows it.

1. **Swipe during a judgment** (run `stale_snapshot`, `EconomySwipe.cfg`). The
   judgment's snapshot survives the swipe and comes back with the next rollback.
2. **Abort after a settlement** (`EconomyAbort.cfg`, `EconomyMC`). A judgment
   fails after a payer settled something during it: the sheet returns to the entry
   of the judgment, the ledger keeps the payment (`round_recovery.py:125`).
3. **Rolling back the opening** (`EconomyOpening.cfg`, `EconomyMC`). Log entry
   number 0 is read as "no number"; settlements of the current round are reversed,
   no money is returned (`round_recovery.py:61`).
4. **Group committed in a later round** (`EconomyBarrier.cfg`, `EconomyMC`).
   Taking back only the later round reopens the offer and keeps the group's
   effects; a refusal no longer discards them (`economy.py:1370`).
5. **Rollback during a narrative** (`RoundTableRollback.cfg`, `RoundTableMC`).
   The fingerprint test cannot see a rollback that decided no offer
   (`round_processor.py:1456`). Inside the gate this cannot happen, which is proved.
6. **Reversals oldest first** (`MemoryOutboxGhost.cfg`, `MemoryOutboxMC`). Of two
   memories under one key the later reversal restores the row the earlier one was
   to remove. The same holds for two settlements under one key, and for two rounds
   erased by one swipe. With `MaxSwiped = 1` TLC finds a second way: what is queued
   when a swipe copies the aggregate is superseded in the copy, delivered by a
   drain meanwhile, and forgotten when the copy is published. `RoundTable` has this
   for effect groups, too: a delivery noted during a swipe is overwritten by its
   publication, or by the copy from before if the save is refused
   (`swipe_generator.py:99`), which is why its refinement needs `SeenOutbox`.
   `AbortJudgment`, which leaves the outbox alone, is a third.
7. **A redone event** (`MemoryOutboxMissing.cfg`, `MemoryOutboxMC`). Its delivery
   is known as being reversed, or as reversed, and is not revived; only a
   superseded one is (`memory_outbox.py:42`). In the run the planner reports after
   the rollback and before the reversal; a round judged again after it meets the
   same entry.
8. **Growth earned twice** (`RunFinaleGrowth.cfg`, `RunFinaleMC`). A round begins
   and puts its marks aside; its actors are removed and the process restarts in it,
   which keeps what was put aside; an intermission settles the marks; the next
   judgment fails and restores them (`skill_growth.py:198`). ADR 0008, line 29:
   "A settled check cannot earn a second mark."
9. **An old version returns** (`SaveFilesRestored.cfg`, `SaveFilesMC`).
   A round told anew is right as long as `state.json` holds it; the file behind it
   keeps the first version. Torn and partial appends, a crash between append and
   `state.json`, and a run replaced while `state.json` is missing lead there too
   (`persistence.py:281`; `tests/test_game_instance.py:742` promises that the old
   version does not come back to life).
10. **A table of AI seats waits** (`SeatsForced.cfg`, `SeatsMC`). Neither
    advancing nor forcing fills a seat; in round 2 only the retry of a seat helps
    (`turns.py:1276`; `ai_player.py:317` names the owner's explicit advance as one way).
11. **Attempts after the first** (`SeatsAborted.cfg`, `SeatsMC`). A failed judgment
    keeps everyone ready, so a human who takes a seat after it is not waited for
    (`round_recovery.py:107`; `turn_state.py:60` promises to wait for all).
12. **A human's action replaced** (`SeatsTwoAgents.cfg`, `SeatsMC`). An action is
    submitted, the seat is handed to the AI, the AI is asked, the human's action
    lands without a second look at who plays the seat, and the AI's late answer
    takes its place. It takes two coroutines outside the gate
    (`ai_player.py:35`: "A seat that already declared an action this round is never
    filled again").
13. **A revision that comes again** (`SeatsRecreated.cfg`, `SeatsMC`). A seat that is
    removed and claimed anew counts its revisions from 0, so that an answer asked for
    before may be taken for a current one.
14. **The turn holder felled** (`cut` in `TurnLedger`). In a fixed
    order the turn goes back to the first when the narrative fells the one who has
    it, so that those behind are passed over and,
    if it happens again and again, starve (`combat_extension.py:571` means it so;
    `combat_scheduler.py:251` promises a fixed order that goes round).
15. **A fight that stands still** (`CombatTurnsSlowed.cfg`,
    `CombatTurnsMC`). An
    actor slowed to speed 0 makes every advance fail, and only advances end the
    slowing (`combat_scheduler.py:419`; `combat_extension.py:581`: gauges fill "until
    somebody is ready").
16. **Wounds of a failed judgment** (`CombatRoundsAborted.cfg`,
    `CombatRoundsMC`). The
    sheet and the settled intents go back to the time before the round's actions, the
    NPCs to the time after them (`round_recovery.py:131`; `docs/ARCHITECTURE_EN.md:1174`:
    "restore the snapshot from before this round entered judgment").
17. **Before-images of another branch** (`CombatRoundsReplayed.cfg`,
    `CombatRoundsMC`). A rewind projects every reversed settlement that
    carries the round's number, also those an earlier rewind reversed
    (`economy.py:1470`; `docs/adr/0003-whole-round-economy-rollback.md:47`: "Inside one
    erased era that replay is exact").
18. **The bag of the first talisman** (`CombatRoundsBought.cfg`, `CombatRoundsMC`). A
    talisman and a purchase in one round: after a swipe or a failed judgment the
    gold is refunded, and the item comes back with the module's copy of the bag.
19. **An older round told anew** (`CombatRoundsOlder.cfg`, `CombatRoundsMC`). The intents
    of the rounds behind it are forgotten, and their qi stays spent: the module
    restores the fields of one round only, and the sheets' snapshot has no special
    stats (`combat_extension_state.py:411`).
20. **Effects older than their round's snapshot** (`CleanRewind` in `EconomyProofs`).
    The opening's group is dated in round 1, and so is what settles it before round 1
    is judged; the group of a swiped narrative is dated in the current round likewise.
    The snapshot of that round then has the group's effects. Rolling the round back
    supersedes the group (`economy.py:1370`), but before-images take back gold and items
    only, and the effects come back with the snapshot. This was met while looking for
    the invariant of `SheetsFollowTheBooks`: without the condition that excludes it TLC
    finds six states that break `SheetsMatchBooks`, with an opening and one rollback.

21. **A seat taken over after the AI has acted for it** (`Declares` in `Seats`). The AI
    acts for a seat, which is ready then; a human claims it, and the claim looks at
    neither readiness nor queue (`characters.py:1690`). The seat stays ready with the
    AI's action, so that the round may be judged, and the other AI seats filled,
    without anything from that human: at a table of AI seats, say, when the AI has
    acted for one and a human joins there. `AIActsLast` and `FirstAttemptWaits` except
    exactly these seats, the ones the AI has acted for in this round; of every
    other human they require an action that is not the AI's.

Smaller observations, from reading and from the traces:

* Outside the gate, whatever happens to a table during a swipe is lost when the swipe
  is published: a luck decision that was made or timed out waits again, now without a
  timer; a judgment that was opened or aborted is as it was.
* An action declared during a judgment is queued in the next round without making
  its seat ready. A human is waited for; an AI seat with such an entry has
  "already declared" and is never filled.
* Stepping away with the pausing policy, and being removed, do not advance a round
  that waited for nobody else. `add_action` takes an action for a player who was
  removed meanwhile.
* A late scene image writes a frozen or ended run, without lock, gate or
  `run_writable` (`round_processor.py:1284`); the digest then refuses the reviewed
  job, which must be cancelled and prepared anew.
* A carried game that is restarted before its delivery is noted can never be noted
  as delivered ("carry target identity conflict"), although the log says the
  delivery can be retried (`run_story.py:190`).
* `initiative` and `round_robin` are the same order: the service hands over no
  `initiative`, only an `initiative_modifier` of 0 (`combat_extension.py:516`).
* An NPC without a maximum can be healed up to its present hit points only: the cap
  "encounter-start HP" is taken anew in each request (`combat_extension.py:136`).
* In a fixed order modifiers run down when the GM moves the turn on, and not when an
  action does. With 51 actions between two narratives the first is never told.
* A swipe drops the marks of its round although the round's checks stand.
* A cut inside a multi-byte character of `chatlog.jsonl` raises
  `UnicodeDecodeError`, which the loader does not catch.

## 5. Proofs

All for every value of the constants, from the assumptions named in the modules:
in `Economy` `TermsAssumption` (terms are as `queue_proposal` admits them),
`PurseAssumption`, `BoundsAssumption`, `OpeningAssumption`, `OffersAssumption`
(finitely many offers, for the sequence of refunds) and `NoneAssumption`; in
`RoundTable` `GatedAssumption` and `SwipesAssumption`; in `MemoryOutbox` `NamesAssumption` (finitely many
events, none named like an effect group) and `BoundsAssumption`; in `SaveFiles`
`WindowAssumption`; in `Seats` and `RunFinale` `BoundsAssumption`, and `NamesAssumption` in `Seats`; both of these
in `CombatRounds`; in `CombatTurns` `ActorsAssumption` (finitely many actors, with
numbers in the order of their identities), `ConfigAssumption` and `SpeedAssumption`
(any whole speeds, also negative ones), and in `TurnLedger` `LedgerAssumption`.

| Theorem | Property |
|---|---|
| `EconomyProofs!TypeCorrect` | `TypeOK` |
| `EconomyProofs!NothingOutlivesItsBranch` | `NothingFromTheFuture` |
| `EconomyProofs!LogStaysOrdered` | `HistoryOrdered` |
| `EconomyProofs!BarrierNeverOrphaned` | `NoOrphanBarrier` |
| `EconomyProofs!MemoryAlwaysFollows` | `MemoryFollowsGroup` |
| `EconomyProofs!EffectsWaitForAll` | `EffectBarrier` |
| `EconomyProofs!LedgerAgrees` | `LedgerMatchesProposals` |
| `EconomyProofs!NeverSettledTwice` | `SettledOnce` |
| `EconomyProofs!SheetsFollowTheBooks` | `SheetsMatchBooks`, under the conditions of `CarefulSpec` |
| `EconomyProofs!RefusalsAreFinal` | `TerminalIsFinal` |
| `EconomyProofs!TableTypes` | `TableTypeOK` |
| `EconomyProofs!OverlappingRoundsKeepBooks` | `LedgerMatchesProposals`, of overlapping rounds |
| `EconomyProofs!GatedRoundsAreAtomic` | `RoundsAreAtomic`, with the outbox as a swipe copied it, if all hold the gate |
| `EconomyProofs!GatedStoriesAreCurrent` | `RolledBackStoryIsDropped`, if all hold the gate |
| `MemoryProofs!SettlementsAreRemembered` | `SettledIsRemembered` |
| `MemoryProofs!MemoryTypes` | `MemoryTypeOK`, with one entry for each identity |
| `MemoryProofs!ReversalsCanBeMade` | `ReversalsAreVerifiable` |
| `SaveFilesProofs!AckedSavesAreDurable` | `AckedIsDurable` |
| `SaveFilesProofs!ReplacedRunsStayReplaced` | `NoRunReturns` |
| `SaveFilesProofs!FilesKeepThePromise` | `SavesAreDurable`, the refinement |
| `SeatsProofs!SeatsTypes` | `SeatsTypeOK` |
| `SeatsProofs!HumansAreWaitedFor` | `FirstAttemptWaits` |
| `SeatsProofs!AIWaitsForHumans` | `AIActsLast` |
| `SeatsProofs!AIActsOnce` | `OneAIAction`, of `GrowingSpec` with one agent |
| `SeatsProofs!HumansAreNotReplaced` | `HumanActionStands`, under the same conditions |
| `FinaleProofs!FinaleTypes` | `FinaleTypeOK` |
| `FinaleProofs!FrozenRunStays` | `FrozenRunStands` |
| `FinaleProofs!ReviewedMaterials` | `ReviewedIsArchived` |
| `FinaleProofs!ArchiveIsFinal` | `ArchiveStands` |
| `FinaleProofs!DeliveriesAreDurable` | `DeliveredIsDurable` |
| `FinaleProofs!CarriesKeepProgress` | `CarryKeepsProgress` |
| `FinaleProofs!GrowthIsSettledOnce` | `GrowthSettledOnce`, if no actor is removed from a round that is judged or was begun |
| `FinaleProofs!ChecksAreRolledOnce` | `NoRerolls`, under the same condition |
| `TurnProofs!QueueIsTheFullGauges` | `ReadyIffCharged` |
| `TurnProofs!TurnsEarned` | `TurnsAreEarned` |
| `TurnProofs!QueueInOrderOfArrival` | `FirstComeFirstServed` |
| `TurnProofs!TurnsGoRound` | `EvenTurns` |
| `CombatProofs!PaidExactlyOnce` | `PaidOnce`, if only the last entry is narrated anew |
| `CombatProofs!ToldExactlyOnce` | `ToldOnce`, under the same condition |
| `CombatProofs!FeltExactlyOnce` | `HitUnlessFailed`, under the same condition |

The inductive invariants, and why the properties alone are not inductive:

* *Economy.* `TypeInv` adds to `TypeOK` that a proposal names only a group that
  exists: without it a decision could "settle" a group that is `None`, and the
  update would leave the type. `Chronicle` joins the two history properties: a
  swipe goes back to the round of some log entry, and that the log behind it is a
  prefix needs the order; the order of a new entry needs that nothing in the log is
  later than now. `Barrier` adds to `NoOrphanBarrier` that a group's members and the
  group have the same round, so that a rewind erases both or neither. `Books`
  replaces `LedgerMatchesProposals` and `SettledOnce` by a story per offer: what may
  stand in the ledger for each status and stage, at most once each, the deposit
  before the tail and with the earlier date, and refunds only of cancelled
  contracts. The date is what makes a rewind safe: an era that erases a deposit
  erases the tail paid after it.
* *Sheets and books* (`BooksInv`). That gold, items and effects are what the books say
  does not survive a rewind by itself: the sheets come from a snapshot, less what the
  before-images of the reversed entries restore. So every snapshot the log or a judgment
  holds must be what the books say of the time before its round (`LogRemembers`,
  `JudgmentRemembers`), unless an entry of the round itself has a before-image that puts
  it right; before-images are the sums of what stands ahead of them (`ImagesAreTrue`);
  and standing entries are in the order of their rounds (`StandingInOrder`), so that the
  first image restored is the sum of what remains. It fails in general, for the reasons of
  section 4, and the theorem is of `CarefulSpec`, which excludes exactly these steps: an
  abort that takes back a settlement (item 2), a rollback of the opening (3), a
  swipe during a judgment (1), and rewinds that are not clean, with entries of the round
  that an earlier rewind reversed (17) or with effects in the snapshot of groups that go
  with the round (20). Everything else may be done in any order and number:
  rollbacks, swipes, failed judgments, settlements during judgments.
* *RoundTable.* Outside the gate a coroutine may come too late: it then quotes an
  offer or records a round in a phase where `Economy` does neither. `UnguardedNext`
  is `Next` with these two steps in any phase; `TypeInv`, `Chronicle` and `Books` are
  proved for it. A swipe publishes a copy made some time ago, over an aggregate that
  has become another one: so the invariants are said of copies as well (`CopyType`,
  `CopyDated`, `BooksOf`), both copies of a swipe satisfy them (`CopySound`,
  `SwipeInv`), and every step of the table is a step of `UnguardedNext`, a stutter, or
  the publication of a sound copy.
  With all coroutines in the gate `GateInv` holds: at most one is at work (`Alone`),
  and while it is, its judgment stands, nothing blocks it, and the table has seen no
  rewind since its call (`Undisturbed`). So what it commits is a step of `Economy`.
  While a swipe is under way nobody is at work (`Quiet`), the aggregate is the copied
  one but for deliveries noted meanwhile (`Drained`), and the rewritten copy is what a
  swipe of `Economy` would publish (`Promised`): so publishing it is that step under the
  mapping. Lemmas of their own (`SameReading`, `SameDecisions`, `SameRounds`,
  `SameSwipe` and others) say that a step of `Economy` with no swipe under way before or after
  is one of the mapped instance.
* *MemoryOutbox.* `MemoryInv` (`MemoryIsKept`). An aggregate is `Sound` if its outbox
  fits the journal of the store: an effect group that stands has one kind of entry,
  dated in the round it is told of, which waits as long as the group is not
  journaled; what was delivered or is to be taken back is journaled. The live
  aggregate must be sound, and so must the save and a swipe's copy, since a crash
  or the end of the swipe makes one of them the live one while the store stays.
  `Retold` says what a copy may differ in: settlements that it erases. Hence a drain
  that was begun before a swipe is published takes back only what is erased
  (`Asked`), and delivers at most what is no longer wanted and is in the journal.
  `Stored` keeps a reversal from making another source's row disappear: a row that
  was absent before a delivery is absent after it, but for its own.
  `Single`: no identity is in an outbox twice. Looking it up before queuing it is not the
  whole of it; the trim puts the active entries ahead of the resolved ones, and keeps
  each at most once because the two filters pick disjoint positions.
* *SaveFiles.* `FilesInv`: a save in progress is of an aggregate that somebody holds
  (`Owned`), what it puts was submitted and the old version is kept until then
  (`Begun`), and nothing that waits to be written is of an earlier run (`Later`).
  For the refinement `Logged`: logs, the tails in `state.json` and the chat log are
  lists, of entries or of lines that do not parse. So what a start puts together from
  them ends in the rounds that `state.json` has, whatever the file holds.
* *Seats.* For the barrier, that whoever is marked ready has declared an action
  (`Acted`; a failed judgment breaks it, hence `tries = 0` in the properties): something
  that is not the AI's, unless the AI has acted for the seat in this round (item 21). For the
  AI's answers `Answers`: an answer under way that could still be accepted belongs to
  a seat that nobody has acted for since it was asked (`InFlight`), which needs that
  revisions only grow (`AskedBefore`) and that a human's action meets a web request
  that excludes the others (`WebAdds`). The two conditions of these theorems are
  where the code needs them: items 12 and 13 of section 4.
* *RunFinale.* `FinaleInv`: a job's digest is the run as it is, without pictures, and
  its source the story in that digest; memory and disk agree on job, archive and
  deliveries (`Twins`: play may be saved or not, the finale always is); what a window
  shows is the job or an older revision of it, equal texts for equal revisions; a
  round is processed only of a run that is not frozen. Three lemmas carry all
  actions: `PlayStep`, `RewriteStep`, `OtherStep`. `CarryInv`: while the process runs,
  the registry knows every carried game that was played, so that a delivery which
  does not find its game overwrites at most the one it noted; a registered game is
  never behind its files. `GrowthInv`: no marks that anything could bring back have been
  settled. An abort brings back what the round put aside (`PutAside`), and as long as
  that is there the round's actions are in the queue, which is what keeps an
  intermission and the finale away; a rollback or a swipe brings back what the log
  holds (`Remembered`), unless a receipt of that round or a later one forbids it, and
  rounds only grow along the log. The seed is one, and the same in memory and on the
  disk, from before the first roll on (`Seeded`). A removal of actors empties the queue
  of a round that was begun (item 8 of section 4): hence the condition `CarefulSpec`.
* *TurnLedger.* `Gauged`: whole gauges, and the queue holds exactly those whose gauge
  is full, each once. It makes the account of `TurnsAreEarned` exact, since a gauge
  that runs over is the only one a policy may cut. `Arrived`: those in the queue
  came no later than now, so that who is full only later belongs behind them; within
  one advance the code orders by a fraction of time, compared by cross products.
  `Rotating`, for the fixed order: of those who stand unhindered, the ones up to the
  holder of the turn (`Had`) have had exactly one turn more than the rest. That no two
  differ by more than one does not say who comes next, and is not inductive.
* *CombatRounds.* A rewind restores a payload and, from another snapshot or from none,
  the qi; a property of each kind is about one restore only if these fit. In
  `CombatInv` every payload put aside fits the log before it (`Recorded`), a snapshot
  that follows qi has the qi of its payload (`Faithful`), and each round's payload
  begins where the one before ends (`Linked`, `Open`), so that a round without a
  snapshot of its own may keep the qi of the next. A swipe of an older entry breaks
  the last (item 19 of section 4): hence the theorems' condition `SwipeBack <= 1`.
  For the NPCs `WoundsInv`: unlike qi, an NPC is in the snapshot of a round only if
  it was struck then, so one that is not there must have met the same blows where the
  round began. A failed judgment breaks that (item 16): hence `failures = 0`.

Filters and folds. Of `SelectSeq` the prover's library has no theorem, and one by
induction over sequences is out of its reach. `Subsequences` therefore says what a
filter keeps by position and rank, and proves that this is a list of exactly the
entries asked for, in their order (`Ranks`, `SortedIs`, `SubsequenceIs`). What is done
for one entry of a list after the other is a recursive function (`QueuedAll`); that it
exists, and what each of its values has, is shown by a least counterexample
(`LeastOf`, `QueuedAllIs`), for numbers are well ordered in the library.

Only model-checked: `JudgmentEnds`, `OutboxClears`, `AITableGoesOn` and
`EveryoneGetsATurn` (liveness under fairness is out of the prover's reach). So are
the type invariants `FilesTypeOK`, `CombatTypeOK`, `LedgerTypeOK` and `RoundsTypeOK`, of
which the proofs use only what their own invariants state. Without the conditions of
`CarefulSpec` `SheetsMatchBooks` holds within the bounds of its run, and not beyond.

## 6. Not modelled

* Automatic grants of small rewards, the windows of 50 outcomes and groups, and
  purchase offers rewritten under a known source.
* Recall and embeddings, edits of the memory by the GM, world time that passes
  in rests, facts and revisions of the world.
* The await between the snapshot of a round and its record; the opening narration
  of an instance that is already published.
* World, combat and adventure state in the snapshots; batches of rests.
* Solo and scene tables, dice that wait to be rolled, structured combat, the
  settings and the budget of AI seats, tokens and passwords.
* Deletion of a game (`webui/services/game_lifecycle.py:63` takes no lock, and the
  registry saves an aggregate under a key it does not hold), imports, migrations of
  old saves.
* The text of actions, prompts, epilogues and story plans; parsing, protocol repair,
  matching of background lore: data with no interplay, which unit tests reach.
* In fights: formulas and dice, barriers, several costs at once, the caps of 50
  events and 256 intents, a rule edited during a fight, players who leave.
* Rulesets, adventures, the assistant's plans: sequential algorithms and validation; a project beside them would check each against a
  reference definition. They are most of the lines the map does not cover.
* Edges: model clients, images, speech, bots, plug-ins, launcher, front end. They
  read the aggregate and decide nothing about rounds, money or files.

The hazards in `PROJECT.json` that no property covers say which of these they
wait for.

## 7. What to do next

1. `RoundTable`: split `Commit` at its await; the preempting cancellation; the
   opening on a published instance.
2. `Economy`: offers with sources.
3. `MemoryOutbox`: a run for what a failed judgment leaves behind.
4. `Seats` composed with `RoundTable`: the barrier in place of the guard of
   `Advance`.
5. The assistant's plans (approval, staleness, replay).
6. The remaining type invariants proved (section 5).
