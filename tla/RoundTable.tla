---------------------------- MODULE RoundTable -----------------------------
(***************************************************************************)
(* The narrative rounds of one table, with the model calls they wait for.  *)
(*                                                                         *)
(*   src/src/commands/round_processor.py   planning and narrating a round  *)
(*   src/src/webui/services/turns.py       submitting, advancing           *)
(*   src/src/engine/game_instance.py       the authority gate              *)
(*                                                                         *)
(* Economy takes every round as one step.  Here a task carries it through  *)
(* a planning call and a narrative call, and at every await another task,  *)
(* a player, the GM or a timer may act.  Three locks keep them apart, none *)
(* of them everywhere: the state lock (each action here is one holding of  *)
(* it), the process lock, held from the last planning to the commit, and   *)
(* the authority gate.  Settlements, GM writes and rewinds enter it, and a *)
(* request of the web client about a game holds it from beginning to end   *)
(* (run_write_admission.py).  An action submitted by the assistant agent,  *)
(* whose requests name no game, and a luck timer progress the table        *)
(* outside it.                                                             *)
(*                                                                         *)
(* A swipe rewrites a copy of the aggregate during its model calls and     *)
(* then publishes the copy: whatever else was written in between is lost.  *)
(***************************************************************************)
EXTENDS Economy

CONSTANTS
    Tasks,    \* the coroutines that may progress the table
    Gated,    \* those that hold the authority gate while they do: web requests
    MaxSwipes \* bound: swipes begun

ASSUME GatedAssumption  == Gated \subseteq Tasks
ASSUME SwipesAssumption == MaxSwipes \in Nat

VARIABLES
    task,      \* the progress of each coroutine
    prepared,  \* round_checks_prepared
    luck,      \* a luck decision is awaited before the round is narrated
    swipe,     \* the swipe under way: the aggregate as it was copied and as it
               \* is rewritten, with the round's checks; or None
    swipes     \* bound counter

swiping == <<swipe, swipes>>
table   == <<task, prepared, luck, swiping>>
allVars == <<vars, table>>

Fingerprint(props) ==
    [o \in Offers |-> IF props[o] = None THEN "none" ELSE props[o].status]

\* view is the economy as the running model call was shown it, born the
\* number of rewinds the table had seen by then.
Stages == {"idle", "planning", "calling", "replanning", "locked planning", "telling"}
Task   == [stage : Stages, view : [Offers -> OfferStatus \cup {"none"}], born : Nat]

Fresh0 == Fingerprint([o \in Offers |-> None])
Idle   == [stage |-> "idle", view |-> Fresh0, born |-> 0]
Entering(stage, props) == [stage |-> stage, view |-> Fingerprint(props), born |-> rewinds]

(***************************************************************************)
(* economy_changes_are_resolutions_only: since the call was made, offers   *)
(* it knew were decided and nothing else happened to any offer.            *)
(***************************************************************************)
Current(t) ==
    \A o \in Offers :
        LET before == task[t].view[o]
            after  == Fingerprint(proposals)[o]
        IN  \/ after = before
            \/ before = "pending" /\ after \in {"committed", "declined", "cancelled", "rejected"}

\* A swipe holds both from its copy to its end.
AuthorityFree == swipe = None /\ \A t \in Gated : task[t].stage = "idle"
ProcessLocked == \/ swipe # None
                 \/ \E t \in Tasks : task[t].stage \in {"locked planning", "telling"}

----------------------------------------------------------------------------
(***************************************************************************)
(* Starting.                                                               *)
(***************************************************************************)

\* The last action of the round comes in, or the GM forces the round.
Advance(t) ==
    /\ task[t].stage = "idle" /\ (t \in Gated => AuthorityFree)
    /\ round < MaxRound
    /\ BeginJudgment
    /\ prepared' = FALSE /\ luck' = FALSE
    /\ task' = [task EXCEPT ![t] = Entering("planning", proposals)]
    /\ UNCHANGED swiping

\* Mutants of Resume: a round whose checks are made is not taken up again;
\* the gate is not entered.
ResumeUnprepared(t) ==
    /\ task[t].stage = "idle" /\ (t \in Gated => AuthorityFree)
    /\ phase = "judgment" /\ ~BlockingDecision /\ ~prepared
    /\ task' = [task EXCEPT ![t] = Entering("planning", proposals)]
    /\ UNCHANGED <<vars, prepared, luck, swiping>>

ResumeUngated(t) ==
    /\ task[t].stage = "idle"
    /\ phase = "judgment" /\ ~BlockingDecision /\ ~(prepared /\ luck)
    /\ task' = [task EXCEPT ![t] = Entering(IF prepared THEN "calling" ELSE "planning",
                                            proposals)]
    /\ UNCHANGED <<vars, prepared, luck, swiping>>

(***************************************************************************)
(* A judgment nobody is working on, or so it seems, is taken up again: by  *)
(* the GM, or once the last luck decision is made or has timed out.        *)
(***************************************************************************)
Resume(t) ==
    /\ task[t].stage = "idle" /\ (t \in Gated => AuthorityFree)
    /\ phase = "judgment" /\ ~BlockingDecision /\ ~(prepared /\ luck)
    /\ task' = [task EXCEPT ![t] = Entering(IF prepared THEN "calling" ELSE "planning",
                                            proposals)]
    /\ UNCHANGED <<vars, prepared, luck, swiping>>

\* A luck decision: by the player, by the timer, or by the GM's force.
DecideLuck ==
    /\ luck /\ luck' = FALSE
    /\ UNCHANGED <<vars, task, prepared, swiping>>

----------------------------------------------------------------------------
(***************************************************************************)
(* Planning.                                                               *)
(***************************************************************************)

\* The check planner's answer: discarded if the economy moved under it, and
\* otherwise the checks are made, perhaps with an offer to a player.
PlanOutcome(t) ==
    \/ /\ ~Current(t)
       /\ prepared' = FALSE /\ luck' = FALSE
       /\ UNCHANGED vars
    \/ /\ Current(t)
       /\ prepared' = TRUE /\ luck' \in BOOLEAN
       /\ \/ UNCHANGED vars
          \/ \E o \in Offers, c \in Terms :
                /\ c.kind = "purchase"
                /\ QueueOffer(o, c)

\* The planning a progression does before it asks for the narrative.
Plan(t) ==
    /\ task[t].stage = "planning"
    /\ PlanOutcome(t)
    /\ task' = [task EXCEPT ![t].stage = "calling"]
    /\ UNCHANGED swiping

\* process_round refuses a table that is not judging, waits for a decision
\* or for luck, or is already narrating; a round not prepared is planned.
Call(t) ==
    /\ task[t].stage = "calling"
    /\ task' = [task EXCEPT ![t] =
                  IF phase # "judgment" \/ BlockingDecision THEN Idle
                  ELSE IF ~prepared THEN Entering("replanning", proposals)
                  ELSE IF luck \/ ProcessLocked THEN Idle
                  ELSE Entering("telling", proposals)]
    /\ UNCHANGED <<vars, prepared, luck, swiping>>

\* The planning inside process_round, before the process lock is taken.
Replan(t) ==
    /\ task[t].stage = "replanning"
    /\ PlanOutcome(t)
    /\ task' = [task EXCEPT ![t] =
                  IF luck' \/ ProcessLocked THEN Idle
                  ELSE Entering(IF prepared' THEN "telling" ELSE "locked planning",
                                proposals')]
    /\ UNCHANGED swiping

\* The last planning, under the process lock; the narrative follows anyway.
LockedPlan(t) ==
    /\ task[t].stage = "locked planning"
    /\ PlanOutcome(t)
    /\ task' = [task EXCEPT ![t] = Entering("telling", proposals')]
    /\ UNCHANGED swiping

----------------------------------------------------------------------------
(***************************************************************************)
(* Narrating.                                                              *)
(***************************************************************************)

\* The narrative arrives and the economy is still the one it was told of.
Commit(t, news, g) ==
    /\ task[t].stage = "telling" /\ Current(t)
    /\ RecordRound(news, g)
    /\ prepared' = FALSE /\ luck' = FALSE
    /\ task' = [task EXCEPT ![t] = Idle]
    /\ UNCHANGED swiping

\* The narrative arrives and the economy is another one: it is dropped, and
\* the table stays as it is.
Discard(t) ==
    /\ task[t].stage = "telling" /\ ~Current(t)
    /\ task' = [task EXCEPT ![t] = Idle]
    /\ UNCHANGED <<vars, prepared, luck, swiping>>

\* A call fails, or the GM cancels it: the judgment is aborted, unless the
\* table has left it already.
Fail(t) ==
    /\ task[t].stage \in {"planning", "replanning", "locked planning", "telling"}
    /\ IF phase = "judgment"
       THEN AbortJudgment /\ prepared' = FALSE /\ luck' = FALSE
       ELSE UNCHANGED <<vars, prepared, luck>>
    /\ task' = [task EXCEPT ![t] = Idle]
    /\ UNCHANGED swiping

\* The process dies with its tasks.  A round that waits for luck is kept.
\* (A death in the middle of a swipe is its DropSwipe and then this.)
Restart ==
    /\ swipe = None
    /\ task' = [t \in Tasks |-> Idle]
    /\ IF phase = "judgment" /\ ~(prepared /\ luck) THEN RecoverJudgment
                                                     ELSE UNCHANGED vars
    /\ UNCHANGED <<prepared, luck, swiping>>

----------------------------------------------------------------------------
(***************************************************************************)
(* What happens meanwhile.                                                 *)
(***************************************************************************)

\* Writers that enter the authority gate and leave the tasks alone.
Manage ==
    /\ AuthorityFree
    /\ \/ \E o \in Offers, c \in Terms : c.deposit = 0 /\ QueueCharge(o, c)
       \/ Decision
       \/ \E u \in Players : DeleteCharacter(u)
    /\ UNCHANGED table

\* Draining the outbox takes the state lock only.
Drain ==
    /\ \E done \in SUBSET Groups : DeliverMemory(done)
    /\ UNCHANGED table

\* Mutants of Rollback: it does not enter the gate; it forgets the luck
\* decision that was awaited.
RollbackUngated ==
    /\ RollbackLastRound
    /\ prepared' = FALSE /\ luck' = FALSE
    /\ UNCHANGED <<task, swiping>>
RollbackKeepsLuck ==
    /\ AuthorityFree /\ RollbackLastRound
    /\ prepared' = FALSE
    /\ UNCHANGED <<task, luck, swiping>>

\* A rollback does not ask for the process lock.
Rollback ==
    /\ AuthorityFree /\ RollbackLastRound
    /\ prepared' = FALSE /\ luck' = FALSE
    /\ UNCHANGED <<task, swiping>>

(***************************************************************************)
(* A swipe does ask for the process lock, copies the aggregate and lets    *)
(* the model rewrite the copy.  The state lock is free meanwhile: those    *)
(* who ask for that lock alone go on with the aggregate itself.            *)
(***************************************************************************)
BeginSwipe(copy) ==
    /\ AuthorityFree /\ ~ProcessLocked /\ swipes < MaxSwipes
    /\ swipe' = [before |-> Aggregate, after |-> copy, prepared |-> prepared, luck |-> luck]
    /\ swipes' = swipes + 1
    /\ UNCHANGED <<vars, task, prepared, luck>>

StageSwipe ==
    \E news \in Responses, g \in Groups \cup {None} :
        \/ \E i \in DOMAIN log : CanSwipe(i, news, g) /\ BeginSwipe(Swiped(i, news, g))
        \/ CanSwipeOpening(news, g) /\ BeginSwipe(SwipedOpening(news, g))

\* The narrative has come: the copy replaces the aggregate, which nobody
\* compares with what it was when it was copied.
PublishSwipe ==
    /\ swipe # None /\ swipe' = None
    /\ Publish(swipe.after) /\ prepared' = swipe.prepared /\ luck' = swipe.luck
    /\ rewinds' = rewinds + 1
    /\ UNCHANGED <<aborts, task, swipes>>

\* The copy is published and cannot be saved: the aggregate as it was when
\* it was copied replaces it.
RevertSwipe ==
    /\ swipe # None /\ swipe' = None
    /\ Publish(swipe.before) /\ prepared' = swipe.prepared /\ luck' = swipe.luck
    /\ UNCHANGED <<bounds, task, swipes>>

\* No narrative comes: the copy is dropped.
DropSwipe ==
    /\ swipe # None /\ swipe' = None
    /\ UNCHANGED <<vars, task, prepared, luck, swipes>>

EndSwipe == PublishSwipe \/ RevertSwipe \/ DropSwipe

TableInit ==
    /\ Init
    /\ task = [t \in Tasks |-> Idle]
    /\ prepared = FALSE /\ luck = FALSE
    /\ swipe = None /\ swipes = 0

Progress(t) ==
    \/ Plan(t)
    \/ Call(t)
    \/ Replan(t)
    \/ LockedPlan(t)
    \/ \E news \in Responses, g \in Groups \cup {None} : Commit(t, news, g)
    \/ Discard(t)

TableNext ==
    \/ \E t \in Tasks : Advance(t) \/ Resume(t) \/ Progress(t) \/ Fail(t)
    \/ DecideLuck
    \/ Restart
    \/ Manage
    \/ Drain
    \/ Rollback
    \/ StageSwipe
    \/ EndSwipe

TableSpec == TableInit /\ [][TableNext]_allVars

(***************************************************************************)
(* Every call returns, the memory store comes back, those at the table     *)
(* decide what they are asked, and the GM presses "advance" as long as the *)
(* table hangs in a judgment.  A luck decision is made by its timer; one   *)
(* that a published swipe brings back has no timer any more, and is made   *)
(* by the GM's forced advance.                                             *)
(***************************************************************************)
Fairness ==
    /\ \A t \in Tasks : WF_allVars(Progress(t))
    /\ WF_allVars(\E t \in Tasks : Resume(t))
    /\ WF_allVars(DecideLuck)
    /\ WF_allVars(Drain)
    /\ WF_allVars(EndSwipe)
    /\ WF_allVars(AuthorityFree /\ Decision /\ UNCHANGED table)

FairTableSpec == TableSpec /\ Fairness

----------------------------------------------------------------------------
(***************************************************************************)
(* Properties.                                                             *)
(***************************************************************************)

Copies == [phase : {"action", "judgment"}, round : Nat, log : Seq(LogEntry),
           startSnapshot : Sheets \cup {None}, seated : SUBSET Players,
           sheets : Sheets, proposals : [Offers -> Proposal \cup {None}],
           transactions : Seq(Transaction), groups : [Groups -> Group \cup {None}],
           outbox : [Groups -> Delivery]]

\* The records of the tasks and of a swipe are as described; luck is awaited
\* of a prepared round.
TableTypeOK ==
    /\ TypeOK
    /\ task \in [Tasks -> Task]
    /\ prepared \in BOOLEAN /\ luck \in BOOLEAN
    /\ luck => prepared
    /\ swipes \in Nat
    /\ swipe # None => /\ swipe.before \in Copies /\ swipe.after \in Copies
                       /\ swipe.luck => swipe.prepared

Committing(t) == task[t].stage = "telling" /\ Len(log') > Len(log)

(***************************************************************************)
(* A narrative told of a table the GM has rolled back since is dropped.    *)
(***************************************************************************)
RolledBackStoryIsDropped ==
    [][\A t \in Tasks : Committing(t) => task[t].born = rewinds]_allVars

(***************************************************************************)
(* With every progression behind the authority gate, the rounds and the    *)
(* swipes are the atomic ones of Economy, but for one thing: what a drain  *)
(* notes while a swipe is under way counts only once the swipe has ended   *)
(* without being published, and is forgotten otherwise.  Until the end of  *)
(* the swipe the outbox is taken as it was copied.                         *)
(***************************************************************************)
SeenOutbox == IF swipe = None THEN outbox ELSE swipe.before.outbox

Atomic == INSTANCE Economy WITH outbox <- SeenOutbox

RoundsAreAtomic == Atomic!Spec

(***************************************************************************)
(* A table never hangs in a judgment for good: it comes back to the action *)
(* phase, with the round narrated, aborted or taken back.                  *)
(***************************************************************************)
JudgmentEnds == phase = "judgment" ~> phase = "action"

=============================================================================
