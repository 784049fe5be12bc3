------------------------------ MODULE Economy ------------------------------
(***************************************************************************)
(* The authoritative economy of one DiceFrame table, together with the     *)
(* round engine that opens, judges, aborts, rolls back and rewrites the    *)
(* rounds the economy is dated by.                                         *)
(*                                                                         *)
(*   src/src/engine/economy.py          proposals, ledger, effect groups   *)
(*   src/src/engine/memory_outbox.py    the outbox of memory side effects  *)
(*   src/src/engine/turn_state.py       opening and judging a round        *)
(*   src/src/engine/round_recovery.py   finish, abort, rollback, swipe     *)
(*   src/src/engine/round_snapshots.py  player snapshots                   *)
(*   src/src/webui/services/characters.py  the settlement service          *)
(*                                                                         *)
(* Every operation here runs under the aggregate's lock, so each is one    *)
(* action.  What happens between the lock regions of one narrative round,  *)
(* the model call, is the subject of RoundTable.                           *)
(*                                                                         *)
(* Data is abstracted to what the properties tell apart: an item is named  *)
(* by the offer that grants it, the narrative effects of a response by     *)
(* their effect group, and ids are never reused.                           *)
(***************************************************************************)
EXTENDS Integers, Sequences, FiniteSets, SequencesExt

CONSTANTS
    Players,      \* the seats of the table
    GM,           \* gm_uid; it may hold a seat or not
    Offers,       \* identities of economy proposals
    Groups,       \* identities of effect groups
    None,         \* "no proposal", "no group", "no snapshot"
    Terms,        \* the terms a proposal may be queued with
    Purse,        \* the gold every character starts the run with
    HasOpening,   \* the log starts with the opening narration (round 0)
    MaxRound,     \* bound: rounds opened
    MaxRewinds,   \* bound: rollbacks and swipes
    MaxAborts     \* bound: judgments that fail or die with the process

Kinds == {"payment", "purchase", "reward"}

(***************************************************************************)
(* The terms of a proposal: who pays or receives, how much, the deposit    *)
(* of an instalment (0: paid in full) and whether an item comes with it.   *)
(* These are the checks of queue_proposal and queue_purchase_offer: only a *)
(* reward may be free of charge, and then it must carry an item; only a    *)
(* purchase has instalments, and always an item.                           *)
(***************************************************************************)
ValidTerms ==
    {t \in [kind : Kinds, uid : Players, amount : Nat, deposit : Nat,
            goods : BOOLEAN] :
        /\ t.kind # "reward" => t.amount > 0
        /\ t.amount = 0 => t.goods
        /\ t.kind = "purchase" <=> (t.goods /\ t.kind # "reward")
        /\ t.kind # "purchase" => t.deposit = 0
        /\ t.kind = "purchase" => t.deposit < t.amount}

ASSUME TermsAssumption   == Terms \subseteq ValidTerms
ASSUME PurseAssumption   == Purse \in Nat
ASSUME BoundsAssumption  == /\ MaxRound \in Nat
                            /\ MaxRewinds \in Nat
                            /\ MaxAborts \in Nat
ASSUME OpeningAssumption == HasOpening \in BOOLEAN
ASSUME OffersAssumption  == IsFiniteSet(Offers)

VARIABLES
    phase,         \* GameState: "action" or "judgment"
    round,         \* the round counter, which is also the settlement era
    log,           \* the round log: number and snapshots of each entry
    startSnapshot, \* players at the entry of this judgment, or None
    seated,        \* instance.players
    sheets,        \* what of the character sheets can be rolled back
    proposals,     \* economy.proposals
    transactions,  \* economy.transactions, in commit order
    groups,        \* economy.effect_groups
    outbox,        \* economy.external_effects_outbox, one entry per group
    rewinds,       \* bound counter
    aborts         \* bound counter

ledger   == <<proposals, transactions, groups, outbox>>
progress == <<phase, round, log, startSnapshot, seated>>
bounds   == <<rewinds, aborts>>
vars     == <<progress, sheets, ledger, bounds>>

\* All of it that is saved, as a copy of the aggregate has it.
Aggregate == [phase |-> phase, round |-> round, log |-> log,
              startSnapshot |-> startSnapshot, seated |-> seated, sheets |-> sheets,
              proposals |-> proposals, transactions |-> transactions,
              groups |-> groups, outbox |-> outbox]

----------------------------------------------------------------------------
(***************************************************************************)
(* Values.                                                                 *)
(***************************************************************************)

\* The part of the character sheets a snapshot covers: the balance, the
\* items, and the marks left by the narrative effects of committed groups.
Sheets == [gold : [Players -> Int], bag : [Players -> SUBSET Offers],
           effects : SUBSET Groups]

OfferStatus == {"pending", "committed", "declined", "cancelled", "rejected",
                "superseded", "reversed"}

Proposal == [terms : Terms, status : OfferStatus, round : Nat,
             stage : {"full", "deposit_pending", "deposit_paid"},
             group : Groups \cup {None}]

\* A ledger entry.  uid = None: the character account is not touched.
\* before and bag are the before-images of the balance and of the items.
Transaction == [offer : Offers, stage : {"deposit", "final", "refund"},
                uid : Players \cup {None}, delta : Int, before : Int,
                goods : BOOLEAN, bag : SUBSET Offers, round : Nat,
                status : {"committed", "reversed"}]

Group == [status : {"pending", "committed", "discarded", "superseded"},
          members : SUBSET Offers, round : Nat]

Delivery == {"none", "pending", "delivered", "superseded",
             "reversal_pending", "reversed"}

LogEntry == [round : Nat, start : Sheets \cup {None}, pre : Sheets \cup {None}]

\* "None" is none of the things it stands in for.
ASSUME NoneAssumption == /\ None \notin Groups \cup Players \cup Sheets
                         /\ None \notin Proposal
                         /\ None \notin Group

----------------------------------------------------------------------------
(***************************************************************************)
(* Reading the economy.                                                    *)
(***************************************************************************)

Known == {o \in Offers : proposals[o] # None}

\* Offers whose proposal has this status.
WithStatus(s) == {o \in Known : proposals[o].status = s}

(***************************************************************************)
(* A purchase the payer approves, of an item for the payer alone, with no  *)
(* deferred effects: the only proposal the table may leave open.           *)
(***************************************************************************)
NonblockingPurchase(o) == /\ proposals[o].terms.kind = "purchase"
                          /\ proposals[o].group = None

(***************************************************************************)
(* What stops every narrative progression: a pending proposal that is not  *)
(* a personal purchase, a pending effect group, or memory still to be      *)
(* delivered or taken back.                                                *)
(***************************************************************************)
BlockingDecision ==
    \/ \E o \in WithStatus("pending") : ~NonblockingPurchase(o)
    \/ \E g \in Groups : groups[g] # None /\ groups[g].status = "pending"
    \/ \E g \in Groups : outbox[g] \in {"pending", "reversal_pending"}

\* Who may settle or refuse proposal o.  A reward is the GM's to decide, a
\* charge the payer's; the GM may also withdraw a charge.
MayAccept(o, actor) == actor = IF proposals[o].terms.kind = "reward"
                               THEN GM ELSE proposals[o].terms.uid
MayRefuse(o, actor) == actor = GM \/ MayAccept(o, actor)

\* Positions in ledger txs of the committed transactions of offer o.
Committed(txs, o, stages) ==
    {i \in DOMAIN txs : /\ txs[i].offer = o
                        /\ txs[i].status = "committed"
                        /\ txs[i].stage \in stages}

\* What accepting o charges now: the deposit, the tail, or the whole price.
Due(p) == CASE p.stage = "deposit_pending" -> p.terms.deposit
            [] p.stage = "deposit_paid"    -> p.terms.amount - p.terms.deposit
            [] OTHER                       -> p.terms.amount

IsCharge(t) == t.kind \in {"payment", "purchase"}
----------------------------------------------------------------------------
(***************************************************************************)
(* Effects of a decision.                                                  *)
(***************************************************************************)

\* Mutant of SettledGroups: a cancellation is forgotten.
CancelKeepsGroup(props, o) ==
    LET g == props[o].group IN
    IF g = None \/ groups[g].status # "pending" THEN groups
    ELSE IF props[o].status \in {"declined", "rejected"}
         THEN [groups EXCEPT ![g].status = "discarded"]
    ELSE IF \A m \in groups[g].members : props[m].status = "committed"
         THEN [groups EXCEPT ![g].status = "committed"]
    ELSE groups

(***************************************************************************)
(* The effect groups once the proposals are props and offer o has just     *)
(* been decided: a refusal discards the group, the last commitment         *)
(* releases it.  The code marks a released group "ready" and completes it  *)
(* in the same staged transaction, so "ready" is never published.          *)
(***************************************************************************)
SettledGroups(props, o) ==
    LET g == props[o].group IN
    IF g = None \/ groups[g].status # "pending" THEN groups
    ELSE IF props[o].status \in {"declined", "cancelled", "rejected"}
         THEN [groups EXCEPT ![g].status = "discarded"]
    ELSE IF \A m \in groups[g].members : props[m].status = "committed"
         THEN [groups EXCEPT ![g].status = "committed"]
    ELSE groups

\* The groups that these new effect groups newly release.
Released(gs) == {g \in Groups : /\ groups[g] # None
                                /\ groups[g].status = "pending"
                                /\ gs[g].status = "committed"}

\* Every released group is applied to the sheets and its memory queued.
WithEffects(sh, gs) == [sh EXCEPT !.effects = @ \cup Released(gs)]
WithMemory(gs)      == [g \in Groups |-> IF g \in Released(gs) THEN "pending"
                                         ELSE outbox[g]]

\* The state of offer o becomes s, with the effects that has on its group.
Decide(o, s) ==
    /\ proposals' = [proposals EXCEPT ![o].status = s]
    /\ groups' = SettledGroups(proposals', o)
    /\ outbox' = WithMemory(groups')

Refund(o) == [offer |-> o, stage |-> "refund", uid |-> None, delta |-> 0,
              before |-> 0, goods |-> FALSE, bag |-> {}, round |-> round,
              status |-> "committed"]

(***************************************************************************)
(* The ledger entry of accepting o.  The before-images are the balance and *)
(* the items immediately before the settlement.                            *)
(***************************************************************************)
Receipt(o, stage) ==
    LET t == proposals[o].terms IN
    [offer  |-> o,
     stage  |-> stage,
     uid    |-> t.uid,
     delta  |-> IF IsCharge(t) THEN -Due(proposals[o]) ELSE t.amount,
     before |-> sheets.gold[t.uid],
     goods  |-> t.goods /\ stage = "final",
     bag    |-> sheets.bag[t.uid],
     round  |-> round,
     status |-> "committed"]

\* The sheets after ledger entry x.
Booked(x) ==
    [sheets EXCEPT !.gold[x.uid] = @ + x.delta,
                   !.bag[x.uid]  = IF x.goods THEN @ \cup {x.offer} ELSE @]

----------------------------------------------------------------------------
(***************************************************************************)
(* Queueing proposals.                                                     *)
(***************************************************************************)

NewProposal(t, g, r) ==
    [terms  |-> t, status |-> "pending", round |-> r, group |-> g,
     stage  |-> IF t.deposit > 0 THEN "deposit_pending" ELSE "full"]

QueueOffer(o, t) ==
    /\ o \notin Known
    /\ IsCharge(t) /\ t.uid \in seated
    /\ proposals' = [proposals EXCEPT ![o] = NewProposal(t, None, round)]
    /\ UNCHANGED <<progress, sheets, transactions, groups, outbox, bounds>>

(***************************************************************************)
(* A charge: the GM's manual order at any time, always in full, or the     *)
(* check planner's quote, with or without a deposit, while a round is      *)
(* being judged.                                                           *)
(***************************************************************************)
QueueCharge(o, t) ==
    /\ t.deposit > 0 => phase = "judgment"
    /\ QueueOffer(o, t)

(***************************************************************************)
(* The rewards one narrative response of round r proposes, news[o] being   *)
(* the terms of reward o, and the one effect group g that holds back the   *)
(* response's other effects until all of them are decided (None: there are *)
(* no other effects).  An emission equal to one already decided in round r *)
(* finds that proposal again and queues nothing: it is not among the news. *)
(***************************************************************************)
Fresh(news, g) ==
    /\ \A o \in DOMAIN news : /\ o \notin Known
                              /\ news[o].kind = "reward"
                              /\ news[o].uid \in seated
    /\ g # None => DOMAIN news # {} /\ groups[g] = None

WithRewards(props, news, g, r) ==
    [o \in Offers |-> IF o \in DOMAIN news THEN NewProposal(news[o], g, r)
                                           ELSE props[o]]

WithGroup(gs, news, g, r) ==
    [h \in Groups |-> IF h = g THEN [status |-> "pending",
                                     members |-> DOMAIN news, round |-> r]
                              ELSE gs[h]]

----------------------------------------------------------------------------
(***************************************************************************)
(* Deciding a proposal: the settlement service.  It publishes and saves    *)
(* the settlement, then tries the outbox; as the delivery may fail and be  *)
(* retried, the attempt is DeliverMemory below.                            *)
(***************************************************************************)

\* The first payment of an instalment: a ledger entry, and still pending.
PayDeposit(o, actor) ==
    /\ o \in WithStatus("pending") /\ MayAccept(o, actor)
    /\ proposals[o].terms.uid \in seated
    /\ proposals[o].stage = "deposit_pending"
    /\ sheets.gold[proposals[o].terms.uid] >= Due(proposals[o])
    /\ sheets' = Booked(Receipt(o, "deposit"))
    /\ transactions' = Append(transactions, Receipt(o, "deposit"))
    /\ proposals' = [proposals EXCEPT ![o].stage = "deposit_paid"]
    /\ UNCHANGED <<progress, groups, outbox, bounds>>

\* The payment that completes a charge, or the grant of a reward.
Settle(o, actor) ==
    /\ o \in WithStatus("pending") /\ MayAccept(o, actor)
    /\ proposals[o].terms.uid \in seated
    /\ proposals[o].stage # "deposit_pending"
    /\ IsCharge(proposals[o].terms) =>
         sheets.gold[proposals[o].terms.uid] >= Due(proposals[o])
    /\ Decide(o, "committed")
    /\ transactions' = Append(transactions, Receipt(o, "final"))
    /\ sheets' = WithEffects(Booked(Receipt(o, "final")), groups')
    /\ UNCHANGED <<progress, bounds>>

\* The payer accepts and cannot pay.  An unpaid tail stays open instead, so
\* that the deposit keeps its contract.
RejectForFunds(o, actor) ==
    /\ o \in WithStatus("pending") /\ MayAccept(o, actor)
    /\ proposals[o].terms.uid \in seated
    /\ IsCharge(proposals[o].terms)
    /\ proposals[o].stage # "deposit_paid"
    /\ sheets.gold[proposals[o].terms.uid] < Due(proposals[o])
    /\ Decide(o, "rejected")
    /\ UNCHANGED <<progress, sheets, transactions, bounds>>

\* A refusal by the payer declines the proposal, one by the GM cancels it.
Refuse(o, actor) ==
    /\ o \in WithStatus("pending") /\ MayRefuse(o, actor)
    /\ proposals[o].stage # "deposit_paid"
    /\ LET payer == IsCharge(proposals[o].terms) /\ actor = proposals[o].terms.uid
       IN  Decide(o, IF actor = GM /\ ~payer THEN "cancelled" ELSE "declined")
    /\ UNCHANGED <<progress, sheets, transactions, bounds>>

(***************************************************************************)
(* The GM deletes character u: the seat and its sheet go, and every        *)
(* pending proposal it pays or receives is cancelled.  A paid deposit is   *)
(* given back by a ledger entry that finds no account left to credit.      *)
(***************************************************************************)
DeleteCharacter(u) ==
    LET gone     == {o \in WithStatus("pending") : proposals[o].terms.uid = u}
        refunded == {o \in gone : /\ proposals[o].stage = "deposit_paid"
                                  /\ Committed(transactions, o, {"deposit"}) # {}}
    IN
    /\ u \in seated /\ seated # {u}
    /\ seated' = seated \ {u}
    /\ sheets' = [sheets EXCEPT !.gold[u] = 0, !.bag[u] = {}]
    /\ proposals' = [o \in Offers |-> IF o \in gone
                                      THEN [proposals[o] EXCEPT !.status = "cancelled"]
                                      ELSE proposals[o]]
    /\ groups' = [g \in Groups |->
                    IF /\ groups[g] # None
                       /\ groups[g].status = "pending"
                       /\ groups[g].members \cap gone # {}
                    THEN [groups[g] EXCEPT !.status = "discarded"]
                    ELSE groups[g]]
    /\ transactions' = transactions \o SetToSeq({Refund(o) : o \in refunded})
    /\ UNCHANGED <<phase, round, log, startSnapshot, outbox, bounds>>

(***************************************************************************)
(* A drain of the outbox.  Reversals come first and the first failure ends *)
(* the drain, so deliveries happen only when no reversal is left; done is  *)
(* what the memory store accepted.                                         *)
(***************************************************************************)
DeliverMemory(done) ==
    LET reversals == {g \in Groups : outbox[g] = "reversal_pending"}
        pending   == {g \in Groups : outbox[g] = "pending"}
    IN
    /\ done # {} /\ done \subseteq reversals \cup pending
    /\ done \cap pending # {} => reversals \subseteq done
    /\ outbox' = [g \in Groups |->
                    CASE g \in done /\ g \in reversals -> "reversed"
                      [] g \in done /\ g \in pending   -> "delivered"
                      [] OTHER                         -> outbox[g]]
    /\ UNCHANGED <<progress, sheets, proposals, transactions, groups, bounds>>
----------------------------------------------------------------------------
(***************************************************************************)
(* The course of a round.                                                  *)
(***************************************************************************)

\* The sheets of the seated players as in snapshot snap; nobody else has one.
Restored(snap) ==
    [gold    |-> [u \in Players |-> IF u \in seated THEN snap.gold[u] ELSE 0],
     bag     |-> [u \in Players |-> IF u \in seated THEN snap.bag[u] ELSE {}],
     effects |-> snap.effects]

\* Every player is ready: the round is judged, and the sheets remembered.
BeginJudgment ==
    /\ phase = "action" /\ ~BlockingDecision
    /\ phase' = "judgment"
    /\ startSnapshot' = sheets
    /\ UNCHANGED <<round, log, seated, sheets, ledger, bounds>>

(***************************************************************************)
(* A narrative is committed: its log entry is written, its rewards are     *)
(* queued, and the next round is open.  The round engine does not ask      *)
(* whether a judgment is under way; its callers do.                        *)
(***************************************************************************)
RecordRound(news, g) ==
    /\ round < MaxRound
    /\ Fresh(news, g)
    /\ proposals' = WithRewards(proposals, news, g, round)
    /\ groups' = WithGroup(groups, news, g, round)
    /\ log' = Append(log, [round |-> round,
                           start |-> IF startSnapshot = None THEN sheets
                                                             ELSE startSnapshot,
                           pre   |-> sheets])
    /\ round' = round + 1
    /\ phase' = "action"
    /\ startSnapshot' = None
    /\ UNCHANGED <<seated, sheets, transactions, outbox, bounds>>

FinishJudgment(news, g) ==
    /\ phase = "judgment" /\ ~BlockingDecision
    /\ RecordRound(news, g)

\* The judgment failed: back to the action phase, to be tried again.
AbortJudgment ==
    /\ phase = "judgment" /\ aborts < MaxAborts
    /\ sheets' = IF startSnapshot = None THEN sheets ELSE Restored(startSnapshot)
    /\ phase' = "action"
    /\ startSnapshot' = None
    /\ aborts' = aborts + 1
    /\ UNCHANGED <<round, log, seated, ledger, rewinds>>

\* The process restarts during a judgment; the table comes back paused, and
\* the next action resumes the round it was in.
RecoverJudgment ==
    /\ phase = "judgment" /\ aborts < MaxAborts
    /\ phase' = "action"
    /\ aborts' = aborts + 1
    /\ UNCHANGED <<round, log, startSnapshot, seated, sheets, ledger, rewinds>>

\* Resuming a paused table narrates a recap and opens the next round: no log
\* entry stands for the round it left.
ResumeGame ==
    /\ round < MaxRound
    /\ round' = round + 1
    /\ phase' = "action"
    /\ startSnapshot' = None
    /\ UNCHANGED <<log, seated, sheets, ledger, bounds>>

----------------------------------------------------------------------------
(***************************************************************************)
(* Rewinding the story to round r: reverse_round_economy.                  *)
(***************************************************************************)

\* Mutant of OriginIn: only the round itself is withdrawn, and not what came
\* after it.
OriginAt(r) == {o \in Known : proposals[o].round = r}

OriginIn(r) == {o \in Known : proposals[o].round >= r}

\* Positions of the committed transactions the era from r on contains.
SettledIn(r) ==
    {i \in DOMAIN transactions :
        /\ transactions[i].status = "committed"
        /\ \/ transactions[i].round >= r
           \/ transactions[i].offer \in OriginIn(r)}

\* Mutant of ReversedLedger: the ledger is left alone.
StandingLedger(r) == transactions

ReversedLedger(r) ==
    [i \in DOMAIN transactions |->
        IF i \in SettledIn(r) THEN [transactions[i] EXCEPT !.status = "reversed"]
                              ELSE transactions[i]]

\* Mutant of Resynced: the stage is reset although an earlier deposit stands.
StageReset(o, p, txs) == IF p.stage = "full" THEN p
                         ELSE [p EXCEPT !.stage = "deposit_pending"]

\* The stage of an instalment is read off the deposits still in the ledger.
Resynced(o, p, txs) ==
    IF p.stage = "full" THEN p
    ELSE [p EXCEPT !.stage = IF Committed(txs, o, {"deposit"}) # {}
                             THEN "deposit_paid" ELSE "deposit_pending"]

\* Mutant of RewoundProposal: whatever was settled in the era is reopened,
\* whatever has become of it since.
AllReopened(o, r) ==
    LET p == proposals[o] IN
    IF o \in OriginIn(r)
    THEN CASE p.status = "committed" -> [p EXCEPT !.status = "reversed"]
           [] p.status = "pending"   -> [p EXCEPT !.status = "superseded"]
           [] OTHER                  -> p
    ELSE IF \E i \in SettledIn(r) : transactions[i].offer = o
    THEN Resynced(o, [p EXCEPT !.status = "pending"], ReversedLedger(r))
    ELSE p

(***************************************************************************)
(* An offer made in the era goes with it.  An older offer settled in the   *)
(* era is open again: its payer decides once more on the new branch.       *)
(***************************************************************************)
RewoundProposal(o, r) ==
    LET p == proposals[o] IN
    IF o \in OriginIn(r)
    THEN CASE p.status = "committed" -> [p EXCEPT !.status = "reversed"]
           [] p.status = "pending"   -> [p EXCEPT !.status = "superseded"]
           [] OTHER                  -> p
    ELSE IF \E i \in SettledIn(r) : transactions[i].offer = o
    THEN Resynced(o, IF p.status = "committed" THEN [p EXCEPT !.status = "pending"]
                                               ELSE p,
                  ReversedLedger(r))
    ELSE p

RewoundProposals(r) ==
    [o \in Offers |-> IF o \in Known THEN RewoundProposal(o, r) ELSE None]

GroupIn(g, r) == groups[g] # None /\ groups[g].round >= r

\* Mutant of RewoundGroups: the word of the proposals is used.
ReversedGroups(r) ==
    [g \in Groups |-> IF GroupIn(g, r) THEN [groups[g] EXCEPT !.status = "reversed"]
                                       ELSE groups[g]]

RewoundGroups(r) ==
    [g \in Groups |-> IF GroupIn(g, r)
                      THEN [groups[g] EXCEPT !.status = "superseded"]
                      ELSE groups[g]]

\* Mutant of RewoundOutbox: what was delivered is not taken back.
DeliveredStays(r) ==
    [g \in Groups |-> IF GroupIn(g, r) /\ outbox[g] = "pending" THEN "superseded"
                                                               ELSE outbox[g]]

RewoundOutbox(r) ==
    [g \in Groups |->
        CASE GroupIn(g, r) /\ outbox[g] = "pending"   -> "superseded"
          [] GroupIn(g, r) /\ outbox[g] = "delivered" -> "reversal_pending"
          [] OTHER                                    -> outbox[g]]

(***************************************************************************)
(* The before-image that makes snapshot snap forget the reversed           *)
(* settlements of round r.  The code writes before-images back from the    *)
(* last settlement to the first, so the first one stands.                  *)
(***************************************************************************)
FirstOf(S) == CHOOSE i \in S : \A j \in S : i <= j

\* Mutant of Reconciled: the items of the snapshot are kept.
GoldReconciled(snap, r, txs) ==
    LET paid(u) == {i \in DOMAIN txs : /\ txs[i].status = "reversed"
                                       /\ txs[i].round = r
                                       /\ txs[i].uid = u
                                       /\ txs[i].delta # 0}
    IN [snap EXCEPT
          !.gold = [u \in Players |-> IF paid(u) = {} THEN snap.gold[u]
                                      ELSE txs[FirstOf(paid(u))].before]]

Reconciled(snap, r, txs) ==
    LET undone(u) == {i \in DOMAIN txs : /\ txs[i].status = "reversed"
                                         /\ txs[i].round = r
                                         /\ txs[i].uid = u}
        paid(u)   == {i \in undone(u) : txs[i].delta # 0}
        given(u)  == {i \in undone(u) : txs[i].goods}
    IN [snap EXCEPT
          !.gold = [u \in Players |-> IF paid(u) = {} THEN snap.gold[u]
                                      ELSE txs[FirstOf(paid(u))].before],
          !.bag  = [u \in Players |-> IF given(u) = {} THEN snap.bag[u]
                                      ELSE txs[FirstOf(given(u))].bag]]

\* The economy is withdrawn first, then the snapshot, freed of what was
\* settled in round r, is restored.
RewoundSheets(r, snap) ==
    IF snap = None THEN sheets
    ELSE Restored(Reconciled(snap, r, ReversedLedger(r)))

(***************************************************************************)
(* The GM takes back the last round of the log.  The opening narration has *)
(* number 0, for which the code uses the current round, and no snapshot.   *)
(***************************************************************************)
RollbackLastRound ==
    /\ log # <<>> /\ rewinds < MaxRewinds
    /\ LET last == log[Len(log)]
           r    == IF last.round = 0 THEN round ELSE last.round
       IN  /\ round' = r
           /\ proposals' = RewoundProposals(r)
           /\ transactions' = ReversedLedger(r)
           /\ groups' = RewoundGroups(r)
           /\ outbox' = RewoundOutbox(r)
           /\ sheets' = RewoundSheets(r, last.start)
    /\ log' = SubSeq(log, 1, Len(log) - 1)
    /\ phase' = "action"
    /\ startSnapshot' = None
    /\ rewinds' = rewinds + 1
    /\ UNCHANGED <<seated, aborts>>

\* The log up to round r, which is a prefix of it: the log is in story order.
BranchCut(r) == SubSeq(log, 1, Cardinality({i \in DOMAIN log : log[i].round <= r}))

(***************************************************************************)
(* The GM has log entry i narrated anew.  The branch after it is cut and   *)
(* the economy withdrawn to it; the new narrative's rewards belong to the  *)
(* same round; the phase of the table stays as it was.  The code rewrites  *)
(* a copy of the aggregate and publishes it in one assignment; here both   *)
(* are one step, and RoundTable has what happens between the two.          *)
(***************************************************************************)
CanSwipe(i, news, g) ==
    /\ i \in DOMAIN log /\ rewinds < MaxRewinds
    /\ \A j \in 1..(i - 1) : log[j].round # log[i].round
    /\ log[i].pre # None
    /\ Fresh(news, g)

Swiped(i, news, g) ==
    LET r == log[i].round IN
    [phase         |-> phase,
     round         |-> r,
     log           |-> BranchCut(r),
     startSnapshot |-> startSnapshot,
     seated        |-> seated,
     sheets        |-> RewoundSheets(r, log[i].pre),
     proposals     |-> WithRewards(RewoundProposals(r), news, g, r),
     transactions  |-> ReversedLedger(r),
     groups        |-> WithGroup(RewoundGroups(r), news, g, r),
     outbox        |-> RewoundOutbox(r)]

\* The opening narration has no snapshot: it is narrated anew in place, and
\* what it grants belongs to the round that is open.
CanSwipeOpening(news, g) ==
    /\ log # <<>> /\ log[1].pre = None
    /\ rewinds < MaxRewinds
    /\ Fresh(news, g)

SwipedOpening(news, g) ==
    [Aggregate EXCEPT !.proposals = WithRewards(proposals, news, g, round),
                      !.groups    = WithGroup(groups, news, g, round)]

\* The table becomes what the copy is.
Publish(copy) ==
    /\ phase' = copy.phase
    /\ round' = copy.round
    /\ log' = copy.log
    /\ startSnapshot' = copy.startSnapshot
    /\ seated' = copy.seated
    /\ sheets' = copy.sheets
    /\ proposals' = copy.proposals
    /\ transactions' = copy.transactions
    /\ groups' = copy.groups
    /\ outbox' = copy.outbox

SwipeRound(i, news, g) ==
    /\ CanSwipe(i, news, g)
    /\ Publish(Swiped(i, news, g))
    /\ rewinds' = rewinds + 1
    /\ UNCHANGED aborts

SwipeOpening(news, g) ==
    /\ CanSwipeOpening(news, g)
    /\ Publish(SwipedOpening(news, g))
    /\ rewinds' = rewinds + 1
    /\ UNCHANGED aborts

----------------------------------------------------------------------------
(***************************************************************************)
(* The table.                                                              *)
(***************************************************************************)

\* The rewards a narrative response may propose, the opening one if any.
Responses == UNION {[S -> {t \in Terms : t.kind = "reward"}] : S \in SUBSET Offers}
Openings  == {news \in Responses : HasOpening \/ DOMAIN news = {}}

\* A run starts in round 1, behind the opening narration; the rewards that
\* one proposes already belong to round 1.
Init ==
    /\ phase = "action" /\ round = 1
    /\ log = IF HasOpening THEN <<[round |-> 0, start |-> None, pre |-> None]>>
                           ELSE <<>>
    /\ startSnapshot = None
    /\ seated = Players
    /\ sheets = [gold |-> [u \in Players |-> Purse],
                 bag |-> [u \in Players |-> {}], effects |-> {}]
    /\ transactions = <<>>
    /\ \E news \in Openings, g \in Groups \cup {None} :
          /\ g # None => DOMAIN news # {}
          /\ proposals = WithRewards([o \in Offers |-> None], news, g, 1)
          /\ groups = WithGroup([h \in Groups |-> None], news, g, 1)
    /\ outbox = [g \in Groups |-> "none"]
    /\ rewinds = 0 /\ aborts = 0

Actors == Players \cup {GM}

Decision == \E o \in Offers, a \in Actors :
                \/ PayDeposit(o, a)
                \/ Settle(o, a)
                \/ RejectForFunds(o, a)
                \/ Refuse(o, a)

Rewind == \/ RollbackLastRound
          \/ \E news \in Responses, g \in Groups \cup {None} :
                \/ \E i \in DOMAIN log : SwipeRound(i, news, g)
                \/ SwipeOpening(news, g)

Next == \/ \E o \in Offers, t \in Terms : QueueCharge(o, t)
        \/ Decision
        \/ \E u \in Players : DeleteCharacter(u)
        \/ \E done \in SUBSET Groups : DeliverMemory(done)
        \/ BeginJudgment
        \/ \E news \in Responses, g \in Groups \cup {None} : FinishJudgment(news, g)
        \/ AbortJudgment
        \/ RecoverJudgment
        \/ ResumeGame
        \/ Rewind

Spec == Init /\ [][Next]_vars

----------------------------------------------------------------------------
(***************************************************************************)
(* Properties.                                                             *)
(***************************************************************************)

\* Every variable keeps the shape the persisted aggregate has.
TypeOK ==
    /\ phase \in {"action", "judgment"} /\ round \in Nat
    /\ log \in Seq(LogEntry)
    /\ startSnapshot \in Sheets \cup {None}
    /\ seated \in SUBSET Players
    /\ sheets \in Sheets
    /\ proposals \in [Offers -> Proposal \cup {None}]
    /\ transactions \in Seq(Transaction)
    /\ groups \in [Groups -> Group \cup {None}]
    /\ outbox \in [Groups -> Delivery]
    /\ rewinds \in Nat /\ aborts \in Nat

Paid(o, stage) == Committed(transactions, o, {stage}) # {}

(***************************************************************************)
(* The ledger and the proposals tell the same story, however often rounds  *)
(* are taken back: exactly the committed offers have a final entry that    *)
(* stands, an open instalment has a standing deposit exactly when its      *)
(* stage says so, and an offer that was erased or turned down has nothing  *)
(* standing.  (A deposit whose contract was cancelled stands beside its    *)
(* refund.)                                                                *)
(***************************************************************************)
LedgerMatchesProposals ==
    /\ \A i \in DOMAIN transactions : transactions[i].offer \in Known
    /\ \A o \in Known : LET p == proposals[o] IN
        /\ Paid(o, "final") <=> p.status = "committed"
        /\ CASE p.status \in {"pending", "committed"} ->
                   Paid(o, "deposit") <=> p.stage = "deposit_paid"
             [] p.status = "cancelled" ->
                   Paid(o, "deposit") => p.stage = "deposit_paid"
             [] OTHER -> ~Paid(o, "deposit")

(***************************************************************************)
(* Nobody is charged or rewarded twice for one offer: of its deposits and  *)
(* of its final entries at most one stands.                                *)
(***************************************************************************)
SettledOnce ==
    \A i, j \in DOMAIN transactions :
        /\ transactions[i].status = "committed"
        /\ transactions[j].status = "committed"
        /\ transactions[i].offer = transactions[j].offer
        /\ transactions[i].stage = transactions[j].stage
        /\ transactions[i].stage # "refund"
        => i = j

\* The parts of NothingFromTheFuture.
LedgerInThePast ==
    \A i \in DOMAIN transactions :
        transactions[i].status = "committed" => transactions[i].round <= round
OffersInThePast ==
    \A o \in Known :
        proposals[o].status \in {"pending", "committed"} => proposals[o].round <= round
GroupsInThePast ==
    \A g \in Groups :
        groups[g] # None /\ groups[g].status \in {"pending", "committed"}
           => groups[g].round <= round
LogInThePast == \A i \in DOMAIN log : log[i].round <= round

(***************************************************************************)
(* Once the story is back in a round, nothing that counts is dated later:  *)
(* no standing ledger entry, no open or settled offer, no live effect      *)
(* group and no log entry belongs to a branch that was cut.                *)
(***************************************************************************)
NothingFromTheFuture ==
    LedgerInThePast /\ OffersInThePast /\ GroupsInThePast /\ LogInThePast

(***************************************************************************)
(* The log is in story order, however often branches were cut, so that the *)
(* last entry is always the latest round, the one a rollback takes back.   *)
(***************************************************************************)
HistoryOrdered ==
    \A i, j \in DOMAIN log : i <= j => log[i].round <= log[j].round

(***************************************************************************)
(* An effect group that stops the table is one somebody can release: all   *)
(* its offers are open or committed, and one of them is open.              *)
(***************************************************************************)
NoOrphanBarrier ==
    \A g \in Groups :
        groups[g] # None /\ groups[g].status = "pending" =>
            /\ \A o \in groups[g].members :
                  /\ o \in Known /\ proposals[o].group = g
                  /\ proposals[o].status \in {"pending", "committed"}
            /\ \E o \in groups[g].members : proposals[o].status = "pending"

(***************************************************************************)
(* The memory side effect of a group follows the group: queued or          *)
(* delivered while the group is committed, and withdrawn, or on its way    *)
(* back, once the group is superseded.                                     *)
(***************************************************************************)
MemoryFollowsGroup ==
    \A g \in Groups :
        IF groups[g] # None /\ groups[g].status = "committed"
        THEN outbox[g] \in {"pending", "delivered"}
        ELSE outbox[g] \notin {"pending", "delivered"}

\* Effects are released only when every offer of their group is committed.
EffectBarrier ==
    [][\A g \in Groups :
         groups[g] # None /\ groups[g].status # "committed"
         /\ groups'[g].status = "committed"
         => \A o \in groups[g].members : proposals'[o].status = "committed"]_vars

(***************************************************************************)
(* A refusal, a cancellation or an erasure is final: no rewind resurrects  *)
(* the offer, and no new ledger entry is ever written for it but the       *)
(* refund of its deposit.                                                  *)
(***************************************************************************)
TerminalIsFinal ==
    [][\A o \in Known :
         proposals[o].status \notin {"pending", "committed"} =>
            /\ proposals'[o].status = proposals[o].status
            /\ \A i \in DOMAIN transactions' :
                  transactions'[i].offer = o => i \in DOMAIN transactions]_vars

-----------------------------------------------------------------------------
\* Positions of the entries that count for player u.
Standing(u) == {i \in DOMAIN transactions : /\ transactions[i].status = "committed"
                                            /\ transactions[i].uid = u}

\* The sum of a sequence of amounts, and of the entries at positions I.
Total(amounts) ==
    LET sum[n \in 0..Len(amounts)] == IF n = 0 THEN 0 ELSE sum[n - 1] + amounts[n]
    IN sum[Len(amounts)]

Sum(txs, I) == Total([i \in DOMAIN txs |-> IF i \in I THEN txs[i].delta ELSE 0])

(***************************************************************************)
(* The books balance: what a player at the table holds is the purse of the *)
(* start and the sum of the player's standing ledger entries.              *)
(***************************************************************************)
BooksBalance ==
    \A u \in seated : sheets.gold[u] = Purse + Sum(transactions, Standing(u))

\* A player at the table has exactly the items of the standing entries.
GoodsMatchLedger ==
    \A u \in seated :
        sheets.bag[u] = {transactions[i].offer :
                            i \in {j \in Standing(u) : transactions[j].goods}}

\* The sheets bear the marks of exactly the committed effect groups.
EffectsMatchGroups ==
    sheets.effects = {g \in Groups : groups[g] # None /\ groups[g].status = "committed"}

(***************************************************************************)
(* However branches are cut and told anew, the sheets carry what the books *)
(* say: the money and the items of the entries that stand, and the effects *)
(* of the groups that are committed.                                       *)
(***************************************************************************)
SheetsMatchBooks == BooksBalance /\ GoodsMatchLedger /\ EffectsMatchGroups

(***************************************************************************)
(* A refusal discards the effects of its whole group: no committed group   *)
(* has an offer that was turned down.                                      *)
(***************************************************************************)
RefusalDiscardsEffects ==
    \A g \in Groups :
        groups[g] # None /\ groups[g].status = "committed" =>
            \A o \in groups[g].members :
                proposals[o].status \notin {"declined", "cancelled", "rejected"}

(***************************************************************************)
(* A failed judgment has settled nothing and takes nothing back: it leaves *)
(* the books as balanced as they were.                                     *)
(***************************************************************************)
AbortPreservesBooks ==
    [][aborts' # aborts /\ BooksBalance => BooksBalance']_vars

(***************************************************************************)
(* A rewind charges nobody for fiction that was erased and keeps what was  *)
(* settled before it: it leaves the books balanced.                        *)
(***************************************************************************)
RewindPreservesBooks ==
    [][rewinds' # rewinds /\ BooksBalance => BooksBalance']_vars

=============================================================================
