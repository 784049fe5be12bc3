---------------------------- MODULE MemoryOutbox ----------------------------
(***************************************************************************)
(* The memory outbox of a table and the long-term memory store.            *)
(*                                                                         *)
(* What a settled effect group or an event of the world is to be           *)
(* remembered by is queued in the aggregate (engine/memory_outbox.py),     *)
(* saved with it, and delivered later to a store with a database of its    *)
(* own (memory/delta.py).  When the story goes back, what was delivered is *)
(* taken back by means of a journal the store keeps per delivery.  Between *)
(* the two lie failures of the store, crashes of the process, and a swipe  *)
(* that works on a copy of the aggregate.                                  *)
(*                                                                         *)
(* Economy takes the store for a box that answers; here the store is open, *)
(* and the economy is reduced to which groups are settled.                 *)
(***************************************************************************)
EXTENDS Integers, Sequences, FiniteSets, SequencesExt, Subsequences

CONSTANTS
    Settlements,    \* effect groups with a memory, each settled once at most
    Events,         \* world events, whose ids come back when a round is redone
    Subject,        \* the key (entity, relation) under which each is remembered
    None,
    Window,         \* MAX_EXTERNAL_EFFECT_DELIVERIES
    \* bounds of the model
    MaxRound, MaxRewinds, MaxAborts, MaxFaults,
    MaxSwiped       \* how many entries of the log a swipe may go back to

Sources == Settlements \cup Events

VARIABLES
    live,           \* the aggregate in memory
    disk,           \* the aggregate as saved last
    staged,         \* the copy a swipe works on, or None
    drain,          \* what the running drain has yet to do, or None
    planning,       \* whether a planner waits for its model
    rows,           \* of each source, the row its delivery wrote in the store
    journal,        \* of each source, the store's record of its delivery, or None
    spent           \* how much of its bounds the model has used

vars  == <<live, disk, staged, drain, planning, rows, journal, spent>>
store == <<rows, journal>>

Statuses == {"pending", "delivered", "superseded", "reversal_pending", "reversed"}
Delivery == [id : Sources, round : 1..MaxRound, status : Statuses]

\* An effect group is not settled (Open), settled and told of by a round, or
\* erased with that round and never offered again.
Open   == 0
Erased == -1

Row == {"absent", "active", "forgotten"}

\* The sources remembered under the key of s, and the journal entry of its
\* delivery: their rows before it and after it.
Peers(s)   == {t \in Sources : Subject[t] = Subject[s]}
Receipt(s) == [status : {"applied", "reversed"},
               before : [Peers(s) -> Row], after : [Peers(s) -> Row]]

\* A delivery is named after its effect group, or after its world event.
ASSUME NamesAssumption ==
    /\ Settlements \cap Events = {} /\ IsFiniteSet(Events)
    /\ \A s \in Sources : None \notin Receipt(s)

ASSUME BoundsAssumption == Window \in Nat /\ MaxRound \in Nat \ {0}

----------------------------------------------------------------------------
(***************************************************************************)
(* The outbox, a field of the aggregate.                                   *)
(***************************************************************************)

IsActive(d) == d.status \in {"pending", "reversal_pending"}

Unresolved(a) == \E i \in DOMAIN a.box : IsActive(a.box[i])

\* Mutant of Trimmed: the oldest entries go, whatever became of them.
TrimmedByAge(box) ==
    IF Len(box) <= Window THEN box
    ELSE SubSeq(box, Len(box) - Window + 1, Len(box))

\* Beyond the window the oldest resolved deliveries are dropped.  Active ones
\* stay, and move to the front.
Trimmed(box) ==
    LET active   == Subsequence(box, {i \in DOMAIN box : IsActive(box[i])})
        resolved == Subsequence(box, {i \in DOMAIN box : ~IsActive(box[i])})
        budget   == Window - Len(active)
        from     == IF Len(resolved) > budget THEN Len(resolved) - budget + 1
                                              ELSE 1
    IN  IF Len(box) <= Window THEN box
        ELSE IF budget <= 0   THEN active
        ELSE active \o SubSeq(resolved, from, Len(resolved))

\* Queue what source s of round r is remembered by.  A delivery superseded by
\* a rewind is revived; of any other known identity nothing changes.
Queued(box, s, r) ==
    IF \E i \in DOMAIN box : box[i].id = s
    THEN [i \in DOMAIN box |->
            IF box[i].id = s /\ box[i].status = "superseded"
            THEN [id |-> s, round |-> r, status |-> "pending"]
            ELSE box[i]]
    ELSE Trimmed(Append(box, [id |-> s, round |-> r, status |-> "pending"]))

\* The sources es, queued one after the other.
QueuedAll(box, es, r) ==
    LET after[k \in 0..Len(es)] == IF k = 0 THEN box ELSE Queued(after[k - 1], es[k], r)
    IN  after[Len(es)]

\* The receipt of a delivery or a reversal, for an entry that waits for it.
Completed(box, s, undo) ==
    [i \in DOMAIN box |->
        IF box[i].id # s THEN box[i]
        ELSE IF undo /\ box[i].status = "reversal_pending"
             THEN [box[i] EXCEPT !.status = "reversed"]
        ELSE IF ~undo /\ box[i].status = "pending"
             THEN [box[i] EXCEPT !.status = "delivered"]
        ELSE box[i]]

\* Mutant of RewoundBox: what waits for delivery is to be taken back as well.
RewoundUnseen(box, r) ==
    [i \in DOMAIN box |->
        IF box[i].round >= r /\ box[i].status \in {"pending", "delivered"}
        THEN [box[i] EXCEPT !.status = "reversal_pending"] ELSE box[i]]

\* The story goes back to round r: what was not delivered never will be, and
\* what was is to be taken back.
RewoundBox(box, r) ==
    [i \in DOMAIN box |->
        IF box[i].round < r THEN box[i]
        ELSE IF box[i].status = "pending"
             THEN [box[i] EXCEPT !.status = "superseded"]
        ELSE IF box[i].status = "delivered"
             THEN [box[i] EXCEPT !.status = "reversal_pending"]
        ELSE box[i]]

----------------------------------------------------------------------------
(***************************************************************************)
(* The store.  Each operation is one transaction of its database.          *)
(***************************************************************************)

\* The rows under the key of s, as a delivery journals them.
Snapshot(rs, s) == [t \in Peers(s) |-> rs[t]]

\* The memory of s is added; of the active rows under its key one is
\* forgotten, the first the database returns.
Inserted(s) ==
    LET active == {t \in Peers(s) : rows[t] = "active"}
    IN  IF active = {} THEN {[rows EXCEPT ![s] = "active"]}
        ELSE {[rows EXCEPT ![t] = "forgotten", ![s] = "active"] : t \in active}

\* apply_economy_delta: an identity with a journal entry is not applied again,
\* not even if that entry has been reversed since.
Apply(s) ==
    IF journal[s] # None THEN UNCHANGED store
    ELSE \E rs \in Inserted(s) :
            /\ rows' = rs
            /\ journal' = [journal EXCEPT ![s] =
                              [status |-> "applied", before |-> Snapshot(rows, s),
                                                     after  |-> Snapshot(rs, s)]]

\* Mutant of Verifiable: a reversal made before is not recognised.
VerifiableOnce(s) == journal[s] # None /\ journal[s].status = "applied"

\* Without a journal entry the store refuses to take anything back.
Verifiable(s) == journal[s] # None

\* reverse_economy_delta: each row that is still as the delivery left it is
\* put back to what it was before; a row changed since is left alone.
TakeBack(s) ==
    IF journal[s].status = "reversed" THEN UNCHANGED store
    ELSE /\ rows' = [t \in Sources |->
                        IF t \in Peers(s) /\ journal[s].after[t] # "absent"
                                          /\ rows[t] = journal[s].after[t]
                        THEN journal[s].before[t] ELSE rows[t]]
         /\ journal' = [journal EXCEPT ![s].status = "reversed"]

----------------------------------------------------------------------------
(***************************************************************************)
(* The table.  Its state lock is held by a drain from its beginning to its *)
(* end; a swipe excludes the writers that enter the authority gate and the *)
(* commit of a round, and nobody else.                                     *)
(***************************************************************************)

StateLockFree == drain = None
GateFree      == staged = None

Spend(what, max) == spent[what] < max /\ spent' = [spent EXCEPT ![what] = @ + 1]

\* The last offer of group s, told of by a round of the log, is settled.  The
\* aggregate is saved with the delivery before the store is called.
Settle(s, i) ==
    /\ StateLockFree /\ GateFree
    /\ live.settled[s] = Open /\ i \in DOMAIN live.log
    /\ LET r == live.log[i].round
       IN  live' = [live EXCEPT !.settled[s] = r, !.box = Queued(@, s, r)]
    /\ disk' = live'
    /\ UNCHANGED <<staged, drain, planning, store, spent>>

\* Everything outside is resolved and the round is judged; the world is
\* remembered as it is at its entry.
BeginJudgment ==
    /\ StateLockFree
    /\ ~live.judging /\ ~Unresolved(live)
    /\ live' = [live EXCEPT !.judging = TRUE, !.prepared = FALSE,
                            !.entry = live.world]
    /\ UNCHANGED <<disk, staged, drain, planning, store, spent>>

\* A judged round whose checks are not prepared is given to the planner, which
\* asks its model.
Plan ==
    /\ live.judging /\ ~live.prepared /\ ~planning
    /\ planning' = TRUE
    /\ UNCHANGED <<live, disk, staged, drain, store, spent>>

\* What may happen in one lapse of time, in what order.
Batches(events) == UNION {SetToSeqs(es) : es \in SUBSET events}

\* The planner is back.  It lets time pass in the world, and the events es
\* happen, one after the other.  No lock is held, nobody asks whether the round
\* is still judged, and the events are saved when somebody saves.
Observe(es) ==
    /\ planning /\ planning' = FALSE
    /\ live' = [live EXCEPT !.world    = @ \cup ToSet(es),
                            !.box      = QueuedAll(@, es, live.round),
                            !.prepared = TRUE]
    /\ UNCHANGED <<disk, staged, drain, store, spent>>

\* The planner fails.
PlanFails ==
    /\ planning /\ planning' = FALSE
    /\ UNCHANGED <<live, disk, staged, drain, store, spent>>

\* The narrative is committed, under the process lock: the round enters the
\* log with the world of its entry, and the next one is open.
FinishJudgment ==
    /\ StateLockFree /\ GateFree
    /\ live.judging /\ live.round < MaxRound
    /\ live' = [live EXCEPT !.log   = Append(@, [round |-> live.round,
                                                 world |-> live.entry]),
                            !.round = @ + 1, !.judging = FALSE, !.entry = {}]
    /\ UNCHANGED <<disk, staged, drain, planning, store, spent>>

\* The judgment failed: the world goes back to its entry.  The outbox does not.
AbortJudgment ==
    /\ StateLockFree
    /\ live.judging
    /\ live' = [live EXCEPT !.world = live.entry, !.judging = FALSE,
                            !.prepared = FALSE, !.entry = {}]
    /\ Spend("aborts", MaxAborts)
    /\ UNCHANGED <<disk, staged, drain, planning, store>>

\* Aggregate a with its story taken back to entry i of its log, of which the
\* first n are kept.
Rewound(a, i, n) ==
    LET r == a.log[i].round
    IN  [a EXCEPT !.round   = r,
                  !.world   = a.log[i].world,
                  !.log     = SubSeq(@, 1, n),
                  !.settled = [s \in Settlements |-> IF @[s] >= r THEN Erased ELSE @[s]],
                  !.box     = RewoundBox(@, r)]

\* A plan is void once a settlement has been taken back: the planner compares
\* the economy, and nothing else, with the one it began with.
StillPlanned(a) == planning /\ a.settled = live.settled

\* The GM takes back the last round of the log; saved before anything else runs.
RollbackLastRound ==
    /\ StateLockFree /\ GateFree
    /\ live.log # <<>>
    /\ LET n == Len(live.log)
       IN  live' = [Rewound(live, n, n - 1) EXCEPT
                        !.judging = FALSE, !.prepared = FALSE, !.entry = {}]
    /\ disk' = live'
    /\ planning' = StillPlanned(live')
    /\ Spend("rewinds", MaxRewinds)
    /\ UNCHANGED <<staged, drain, store>>

\* The GM has a round of the log narrated anew.  The rewind is made on a copy,
\* and the copy waits for the narrative.
StageSwipe(i) ==
    /\ GateFree
    /\ i \in DOMAIN live.log /\ i <= MaxSwiped
    /\ \A j \in 1..(i - 1) : live.log[j].round # live.log[i].round
    /\ LET r == live.log[i].round
       IN  staged' = Rewound(live, i, Cardinality({j \in DOMAIN live.log :
                                                      live.log[j].round <= r}))
    /\ Spend("rewinds", MaxRewinds)
    /\ UNCHANGED <<live, disk, drain, planning, store>>

\* The narrative is there: the copy replaces the aggregate and is saved.  The
\* state lock is not asked for.
PublishSwipe ==
    /\ staged # None
    /\ live' = staged /\ disk' = staged /\ staged' = None
    /\ planning' = StillPlanned(staged)
    /\ UNCHANGED <<drain, store, spent>>

\* No narrative: the copy is dropped.
DropSwipe ==
    /\ staged # None /\ staged' = None
    /\ UNCHANGED <<live, disk, drain, planning, store, spent>>

\* Some other writer saves the aggregate.
Save ==
    /\ disk # live /\ disk' = live
    /\ UNCHANGED <<live, staged, drain, planning, store, spent>>

----------------------------------------------------------------------------
(***************************************************************************)
(* The drain: reversals first, then deliveries, each in the order of the   *)
(* outbox as it was when the drain began.                                  *)
(***************************************************************************)

Waiting(status, undo) ==
    LET ds == Subsequence(live.box, {i \in DOMAIN live.box : live.box[i].status = status})
    IN  [i \in DOMAIN ds |-> [id |-> ds[i].id, undo |-> undo]]

DrainBegin ==
    /\ StateLockFree /\ Unresolved(live)
    /\ drain' = Waiting("reversal_pending", TRUE) \o Waiting("pending", FALSE)
    /\ UNCHANGED <<live, disk, staged, planning, store, spent>>

\* The store does its part and the receipt is noted in whatever aggregate is
\* live by then.  A reversal the store cannot verify ends the drain.
DrainStep ==
    /\ drain # None /\ drain # <<>>
    /\ LET d == Head(drain)
       IN  IF d.undo /\ ~Verifiable(d.id)
           THEN drain' = None /\ UNCHANGED <<live, store>>
           ELSE /\ IF d.undo THEN TakeBack(d.id) ELSE Apply(d.id)
                /\ live' = [live EXCEPT !.box = Completed(@, d.id, d.undo)]
                /\ drain' = Tail(drain)
    /\ UNCHANGED <<disk, staged, planning, spent>>

\* The store raises: the drain gives up, and what it has noted so far is not
\* saved.
DrainFail ==
    /\ drain # None /\ drain # <<>> /\ drain' = None
    /\ Spend("faults", MaxFaults)
    /\ UNCHANGED <<live, disk, staged, planning, store>>

DrainEnd ==
    /\ drain = <<>> /\ drain' = None
    /\ disk' = live
    /\ UNCHANGED <<live, staged, planning, store, spent>>

\* The process dies.  It comes back with what was saved: paused in its round,
\* or still judging if it waits for luck.
Crash ==
    /\ Spend("faults", MaxFaults)
    /\ \E j \in {FALSE, disk.judging /\ disk.prepared} :
          live' = [disk EXCEPT !.judging = j]
    /\ staged' = None /\ drain' = None /\ planning' = FALSE
    /\ UNCHANGED <<disk, store>>

----------------------------------------------------------------------------
Init ==
    /\ live = [round |-> 1, judging |-> FALSE, prepared |-> FALSE,
               world |-> {}, entry |-> {}, log |-> <<>>, box |-> <<>>,
               settled |-> [s \in Settlements |-> Open]]
    /\ disk = live /\ staged = None /\ drain = None /\ planning = FALSE
    /\ rows = [s \in Sources |-> "absent"] /\ journal = [s \in Sources |-> None]
    /\ spent = [what \in {"rewinds", "aborts", "faults"} |-> 0]

Next == \/ \E s \in Settlements, i \in DOMAIN live.log : Settle(s, i)
        \/ Plan \/ PlanFails
        \/ \E es \in Batches(Events \ live.world) : Observe(es)
        \/ BeginJudgment \/ FinishJudgment \/ AbortJudgment
        \/ RollbackLastRound \/ PublishSwipe \/ DropSwipe
        \/ \E i \in DOMAIN live.log : StageSwipe(i)
        \/ DrainBegin \/ DrainStep \/ DrainFail \/ DrainEnd
        \/ Save \/ Crash

Spec == Init /\ [][Next]_vars

\* Every progression, and the start of the process, drains the outbox first,
\* and a call of the store returns.  The store does not fail for ever: its
\* failures are bounded.
FairSpec == Spec /\ WF_vars(DrainBegin) /\ WF_vars(DrainStep) /\ WF_vars(DrainEnd)

----------------------------------------------------------------------------
(***************************************************************************)
(* Properties.                                                             *)
(***************************************************************************)

Aggregate(a) ==
    /\ DOMAIN a = {"round", "judging", "prepared", "world", "entry",
                   "settled", "log", "box"}
    /\ a.round \in 1..MaxRound /\ a.judging \in BOOLEAN /\ a.prepared \in BOOLEAN
    /\ a.world \subseteq Events /\ a.entry \subseteq Events
    /\ a.settled \in [Settlements -> Erased..MaxRound]
    /\ a.log \in Seq([round : 1..MaxRound, world : SUBSET Events])
    /\ a.box \in Seq(Delivery)
    /\ \A i, j \in DOMAIN a.box : a.box[i].id = a.box[j].id => i = j

\* Each copy of the aggregate is a well-formed save with one entry per delivery
\* identity, by which receipts find their entry; the store's records are records.
MemoryTypeOK ==
    /\ Aggregate(live) /\ Aggregate(disk) /\ (staged # None => Aggregate(staged))
    /\ drain # None => drain \in Seq([id : Sources, undo : BOOLEAN])
    /\ planning \in BOOLEAN
    /\ rows \in [Sources -> Row]
    /\ \A s \in Sources : journal[s] \in Receipt(s) \cup {None}

\* No drain runs and the table is free to go on, as far as memory goes.
Quiet == drain = None /\ staged = None /\ ~Unresolved(live)

\* Once the outbox is clear, what a standing settlement is remembered by is in
\* the store, through crashes, failures, drains during a swipe and the window.
SettledIsRemembered ==
    Quiet => \A s \in Settlements :
                live.settled[s] > Open => /\ journal[s] # None
                                          /\ journal[s].status = "applied"
                                          /\ rows[s] # "absent"

\* A reversal is only ever asked for, in memory, on disk or in a swipe's copy,
\* of a delivery the store has a record of: otherwise the store would refuse
\* it each time, and the barrier would close the table for good.
ReversalsAreVerifiable ==
    \A a \in {live, disk} \cup ({staged} \ {None}) :
        \A i \in DOMAIN a.box :
            a.box[i].status = "reversal_pending" => journal[a.box[i].id] # None

\* The barrier opens again: every delivery and reversal is made in the end.
OutboxClears == Unresolved(live) ~> ~Unresolved(live)

\* What the sources of the standing story are.
Standing == live.world \cup {s \in Settlements : live.settled[s] > Open}

\* "No ghost memory": once the outbox is clear, nothing is recalled that the
\* story no longer contains (tests/test_world_memory_reversal.py).
NoGhostMemory == Quiet => \A s \in Sources : rows[s] = "active" => s \in Standing

\* "No missing memory": once the outbox is clear, every event of the world has
\* been remembered; a redone event regains its memory (engine/memory_outbox.py).
NoMissingMemory == Quiet => \A e \in live.world : rows[e] # "absent"
=============================================================================
