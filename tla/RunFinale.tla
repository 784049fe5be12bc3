----------------------------- MODULE RunFinale -----------------------------
(***************************************************************************)
(* How a run ends: skills grow in an intermission, the GM freezes the run, *)
(* reviews its epilogue, confirms it, and carries the characters into a    *)
(* new game.                                                               *)
(*                                                                         *)
(*   src/src/webui/services/run_story.py     the GM's operations           *)
(*   src/src/engine/modules/run_finale.py    job, archive, deliveries      *)
(*   src/src/engine/modules/skill_growth.py  marks, receipts, entropy      *)
(*   src/src/engine/staged_transaction.py    publish, save or put back     *)
(*                                                                         *)
(* A round is reduced to what these meet of it: its phases, the marks its  *)
(* checks leave, the log entry that can be rolled back or told anew.  The  *)
(* GM's operations hold the authority gate and the state lock throughout,  *)
(* so each is a step, cut where a save may fail or the process may die.    *)
(*                                                                         *)
(* One character with one skill that may grow stands for all: marks and    *)
(* rolls are made skill by skill.  What may be missing, the aggregate, a   *)
(* job, an archive, is a set of at most one.                               *)
(***************************************************************************)
EXTENDS Integers, Sequences, FiniteSets

CONSTANTS
    Windows,        \* in which the GM has the finale open
    Intermissions,  \* the receipt ids of intermissions
    Deliveries,     \* the ids of carry deliveries
    \* bounds of the model
    MaxRound, MaxChecks, MaxSeeds, MaxJobs, MaxEdits, MaxPictures, MaxRewinds, MaxMishaps

ASSUME BoundsAssumption == MaxRound \in Nat \ {0}

VARIABLES
    live,       \* the aggregate; none while the process is down
    disk,       \* as it was last saved
    telling,    \* a coroutine has begun to process the round
    drawing,    \* the scene image a background task has under way
    screen,     \* the materials each window shows
    delivering, \* the carry in progress
    carried,    \* the games carried so far, in the registry
    library,    \* and in their own save directories
    confirmed,  \* what the window showed that confirmed the end
    rolled,     \* every growth roll that was ever evaluated, with its seed
    spent       \* how much of its bounds the model has used

aggregate == <<live, disk>>
tasks     == <<telling, drawing>>
carry     == <<delivering, carried, library>>
ghosts    == <<confirmed, rolled>>
vars      == <<aggregate, tasks, screen, carry, ghosts, spent>>

Spend(what, max) == spent[what] < max /\ spent' = [spent EXCEPT ![what] = @ + 1]
Mishap == Spend("mishaps", MaxMishaps)

----------------------------------------------------------------------------
(***************************************************************************)
(* The aggregate.                                                          *)
(*   log       rounds: told is the version of the narrative, pending what  *)
(*             was marked when the round began (pre_skill_growth)          *)
(*   grown     growth on the sheet: the check, and the seed it was rolled  *)
(*             with                                                        *)
(*   before    what _begin put aside (_before_round)                       *)
(***************************************************************************)

Growth(g) == [pending |-> g.pending, receipts |-> g.receipts, entropy |-> g.entropy]

\* Mutant of Writable: only the end of the run is asked for.
NotEnded(g) == g.phase # "ended"

\* run_writable
Writable(g) == g.phase # "ended" /\ g.job = {} /\ g.archive = {}

\* public_source: what the archive holds of the story.
Public(log) == [i \in DOMAIN log |-> [round |-> log[i].round, told |-> log[i].told]]

\* fingerprint: the whole aggregate but the finale itself and the entropy.
Digest(g) == [g EXCEPT !.job = {}, !.archive = {}, !.out = {}, !.entropy = {}]

\* Mutant of AtBoundary: queued actions do not count.
AnyBoundary(g) == g.phase \in {"action", "paused"} /\ ~telling

\* blockers
AtBoundary(g) == g.phase \in {"action", "paused"} /\ ~g.queued /\ ~telling

\* Mutant of Publish: what the GM's operation writes is not saved.
LiveOnly(next) == live' = {next} /\ UNCHANGED disk

\* A staged copy is published and saved.  If the save is refused the old state
\* is put back, and nothing has happened.
Publish(next) == live' = {next} /\ disk' = {next}

\* A save whose failure is only logged: the game goes on in memory.
Keep(next) == live' = {next} /\ disk' \in {disk, {next}}

----------------------------------------------------------------------------
(***************************************************************************)
(* Play.                                                                   *)
(***************************************************************************)

\* do_advance_locked, once actions are in.
Advance ==
    /\ \E g \in live :
          /\ Writable(g) /\ g.phase = "action"
          /\ live' = {[g EXCEPT !.phase = "judgment", !.queued = TRUE]}
    /\ UNCHANGED <<disk, tasks, screen, carry, ghosts, spent>>

\* process_round_impl, when the checks are planned: begin_round_processing.
BeginProcessing ==
    /\ ~telling
    /\ \E g \in live :
          /\ g.phase = "judgment"
          /\ live' = {[g EXCEPT !.before = {Growth(g)}]}
    /\ telling' = TRUE
    /\ UNCHANGED <<disk, drawing, screen, carry, ghosts, spent>>

\* mark_checks: a check of the round succeeded with the skill, and none of an
\* earlier one is marked.
Mark ==
    /\ telling
    /\ \E g \in live :
          /\ g.pending = {}
          /\ live' = {[g EXCEPT !.pending = {spent.checks + 1}]}
    /\ Spend("checks", MaxChecks)
    /\ UNCHANGED <<disk, tasks, screen, carry, ghosts>>

\* The log entry of the round, with what _commit takes out of the slot.
Told(g) ==
    [round |-> g.round, told |-> spent.rewinds, pic |-> FALSE,
     pending |-> IF g.before = {} THEN g.pending ELSE UNION {b.pending : b \in g.before}]

\* finish_judgment, and the next round opens.  The narrative may ask for a
\* scene image.
FinishRound ==
    /\ telling
    /\ \E g \in live :
          /\ Writable(g) /\ g.round < MaxRound
          /\ Keep([g EXCEPT !.phase = "action", !.round = @ + 1, !.queued = FALSE,
                            !.log = Append(@, Told(g)), !.before = {}])
          /\ \/ UNCHANGED <<drawing, spent>>
             \/ /\ drawing = {} /\ Spend("pictures", MaxPictures)
                /\ drawing' = {[round |-> g.round, told |-> spent.rewinds]}
    /\ telling' = FALSE
    /\ UNCHANGED <<screen, carry, ghosts>>

\* _abort: the slot goes back to what was put aside.
Aborted(g) ==
    IF g.before = {} THEN [g EXCEPT !.phase = "action"]
    ELSE LET b == CHOOSE b \in g.before : TRUE
         IN  [g EXCEPT !.phase = "action", !.pending = b.pending, !.receipts = b.receipts,
                       !.entropy = b.entropy, !.before = {}]

\* _recover_failed_round: planning or the narrative failed.  The actions stay.
AbortRound ==
    /\ \E g \in live :
          /\ Writable(g) /\ (telling \/ g.phase = "judgment")
          /\ Keep(IF g.phase = "judgment" THEN Aborted(g) ELSE g)
    /\ telling' = FALSE
    /\ Mishap
    /\ UNCHANGED <<drawing, screen, carry, ghosts>>

\* Mutant of MayRewind: a settled intermission is no obstacle.
AnyRewind(g, r) == TRUE

\* rewind_preflight
MayRewind(g, r) == \A receipt \in g.receipts : receipt.round < r

\* rollback_last_round, which does not ask whether a round is processed.
RollbackRound ==
    /\ \E g \in live :
          /\ Writable(g) /\ g.log # <<>>
          /\ LET last == g.log[Len(g.log)]
             IN  /\ MayRewind(g, last.round)
                 /\ Keep([g EXCEPT !.phase = "action", !.round = last.round, !.queued = FALSE,
                                   !.pending = last.pending, !.before = {},
                                   !.log = SubSeq(@, 1, Len(@) - 1)])
    /\ Spend("rewinds", MaxRewinds)
    /\ UNCHANGED <<tasks, screen, carry, ghosts>>

\* Entry i is told anew, and the branch behind its round is cut.
Retold(log, i) ==
    [SubSeq(log, 1, Cardinality({j \in DOMAIN log : log[j].round <= log[i].round}))
     EXCEPT ![i].told = spent.rewinds + 1]

\* A swipe, under the process lock.
SwipeRound(i) ==
    /\ ~telling
    /\ \E g \in live :
          /\ Writable(g) /\ i \in DOMAIN g.log
          /\ \A j \in 1..(i - 1) : g.log[j].round # g.log[i].round
          /\ MayRewind(g, g.log[i].round)
          /\ Publish([g EXCEPT !.round = g.log[i].round, !.pending = g.log[i].pending,
                               !.before = {}, !.log = Retold(@, i)])
    /\ Spend("rewinds", MaxRewinds)
    /\ UNCHANGED <<tasks, screen, carry, ghosts>>

\* submit_action at a paused table.
Resume ==
    /\ \E g \in live :
          /\ Writable(g) /\ g.phase = "paused"
          /\ live' = {[g EXCEPT !.phase = "action", !.queued = TRUE]}
    /\ UNCHANGED <<disk, tasks, screen, carry, ghosts, spent>>

\* remove_player takes the actions of a character out of the queue; those of
\* the others, if all of them are.
RemoveActors ==
    /\ \E g \in live :
          /\ Writable(g) /\ g.queued
          /\ Publish([g EXCEPT !.queued = FALSE])
    /\ Mishap
    /\ UNCHANGED <<tasks, screen, carry, ghosts>>

\* The background task is back.  It asks for the run and for the version of
\* the round, for no lock, no gate, and not whether the run may be written.
DrawPicture ==
    /\ \E g \in live, d \in drawing :
          \E i \in DOMAIN g.log :
             /\ g.log[i].round = d.round /\ g.log[i].told = d.told
             /\ Publish([g EXCEPT !.log[i].pic = TRUE])
    /\ drawing' = {}
    /\ UNCHANGED <<telling, screen, carry, ghosts, spent>>

\* It failed, or the round is no longer the one it was asked to draw.
DropPicture ==
    /\ drawing # {} /\ drawing' = {}
    /\ UNCHANGED <<aggregate, telling, screen, carry, ghosts, spent>>

\* Whoever else writes, saves the aggregate as it is.
Save ==
    /\ live # {} /\ disk' = live
    /\ UNCHANGED <<live, tasks, screen, carry, ghosts, spent>>
----------------------------------------------------------------------------
(***************************************************************************)
(* Growth is settled.                                                      *)
(***************************************************************************)

\* reserve_entropy: the seed of the rolls, saved before any of them is made.
\* It is the first half of an intermission and of the commit of the finale.
Reserve(g) ==
    /\ g.pending # {} /\ g.entropy = {}
    /\ Publish([g EXCEPT !.entropy = {spent.seeds + 1}])
    /\ Spend("seeds", MaxSeeds)

Ready(g) == g.pending = {} \/ g.entropy # {}

\* Mutant of Seeds: every attempt draws its own.
FreshSeeds(g) == {Cardinality(rolled) + 1}

Seeds(g) == g.entropy

\* settle: what the marked checks are rolled, and the receipt of it.
Rolls(g) == g.pending \X Seeds(g)

Settled(g, id) ==
    [g EXCEPT !.pending = {}, !.grown = @ \cup Rolls(g),
              !.receipts = @ \cup {[id |-> id, round |-> g.round, changes |-> Rolls(g)]}]

\* The rolls are evaluated before the save that may be refused.
Settling(g, next) ==
    /\ Publish(next) \/ UNCHANGED aggregate
    /\ rolled' = rolled \cup Rolls(g)

MayIntermit(g, id) ==
    /\ Writable(g) /\ AtBoundary(g)
    /\ \A receipt \in g.receipts : receipt.id # id

Intermission(id) ==
    /\ \E g \in live :
          /\ MayIntermit(g, id)
          /\ \/ Reserve(g) /\ UNCHANGED rolled
             \/ Ready(g) /\ Settling(g, Settled(g, id)) /\ UNCHANGED spent
    /\ UNCHANGED <<tasks, screen, carry, confirmed>>

----------------------------------------------------------------------------
(***************************************************************************)
(* The finale.                                                             *)
(***************************************************************************)

\* The GM's operations wait until no round is processed.
Administrative(g) == g.phase # "ended" /\ ~telling

Prepare ==
    /\ \E g \in live :
          /\ Administrative(g) /\ g.job = {} /\ AtBoundary(g)
          /\ Publish([g EXCEPT !.job = {[id |-> spent.jobs + 1, revision |-> 0, text |-> 0,
                                         source |-> Public(g.log), digest |-> Digest(g)]}])
    /\ Spend("jobs", MaxJobs)
    /\ UNCHANGED <<tasks, screen, carry, ghosts>>

\* A window loads the finale.
Look(w) ==
    /\ \E g \in live : \E job \in g.job :
          screen' = [screen EXCEPT ![w] = {[id |-> job.id, revision |-> job.revision, text |-> job.text]}]
    /\ UNCHANGED <<aggregate, tasks, carry, ghosts, spent>>

\* Mutant of Reviewed: the job need only be the same.
SameJob(w, job) == \E s \in screen[w] : s.id = job.id

\* The request carries the job and the revision its window shows.
Reviewed(w, job) == \E s \in screen[w] : s.id = job.id /\ s.revision = job.revision

\* require_job
Unchanged(g, job) == job.digest = Digest(g)

\* New materials; the window shows what it has saved.
Materials(w) ==
    /\ \E g \in live : \E job \in g.job :
          /\ Administrative(g) /\ Unchanged(g, job) /\ Reviewed(w, job)
          /\ LET next == [job EXCEPT !.revision = @ + 1, !.text = spent.edits + 1]
             IN  /\ Publish([g EXCEPT !.job = {next}])
                 /\ screen' = [screen EXCEPT ![w] = {[id |-> next.id, revision |-> next.revision,
                                                      text |-> next.text]}]
    /\ Spend("edits", MaxEdits)
    /\ UNCHANGED <<tasks, carry, ghosts>>

Cancel ==
    /\ \E g \in live :
          /\ Administrative(g) /\ g.job # {}
          /\ Publish([g EXCEPT !.job = {}])
    /\ UNCHANGED <<tasks, screen, carry, ghosts, spent>>

\* commit: growth is settled under the id of the job, the characters are
\* copied, and the run ends, all in one save.
Ended(g, job) ==
    LET done == Settled(g, job.id)
    IN  [done EXCEPT !.phase = "ended", !.job = {},
                     !.archive = {[id |-> job.id, text |-> job.text, source |-> job.source,
                                   grown |-> done.grown]}]

CommitFinale(w) ==
    /\ \E g \in live : \E job \in g.job :
          /\ Administrative(g) /\ Unchanged(g, job) /\ Reviewed(w, job) /\ job.text # 0
          /\ \/ Reserve(g) /\ UNCHANGED ghosts
             \/ /\ Ready(g) /\ UNCHANGED spent
                /\ Settling(g, Ended(g, job))
                /\ confirmed' = IF live' = live THEN confirmed ELSE screen[w]
    /\ UNCHANGED <<tasks, screen, carry>>
----------------------------------------------------------------------------
(***************************************************************************)
(* Carrying the characters into a game of their own: the delivery is       *)
(* noted, the game made from it is saved, registered, and the delivery     *)
(* noted as made.  Any of these may fail, and the GM may ask again.        *)
(***************************************************************************)

\* The game a delivery noted: its run, before anything was played.
Candidate == [run |-> 1, played |-> 0]

At(d, step) == delivering = {[id |-> d, at |-> step]}

CarryBegin(d) ==
    /\ delivering = {}
    /\ \E g \in live :
          /\ g.phase = "ended" /\ g.out[d] # "delivered"
          /\ Publish([g EXCEPT !.out[d] = "pending"])
    /\ delivering' = {[id |-> d, at |-> "create"]}
    /\ UNCHANGED <<tasks, screen, carried, library, ghosts, spent>>

\* Mutant of Existing: the registry is not asked.
Forgotten(d) == {}

Existing(d) == carried[d]

\* Mutant of Created: the game is only registered.
OnlyRegistered(d) == UNCHANGED library

Created(d) == library' = [library EXCEPT ![d] = {Candidate}]

\* A game that is there already is taken, if it still is of the run that was
\* noted.  It is saved without being registered: GameRegistry.save lets it.
CarryCreate(d) ==
    /\ At(d, "create")
    /\ IF Existing(d) = {}
       THEN /\ Created(d)
            /\ delivering' = {[id |-> d, at |-> "register"]}
       ELSE /\ UNCHANGED library
            /\ delivering' = IF Candidate.run \in {c.run : c \in Existing(d)}
                             THEN {[id |-> d, at |-> "record"]} ELSE {}
    /\ UNCHANGED <<aggregate, tasks, screen, carried, ghosts, spent>>

\* The content library is bound to it, and the registry learns of it.
CarryRegister(d) ==
    /\ At(d, "register")
    /\ carried' = [carried EXCEPT ![d] = {Candidate}]
    /\ delivering' = {[id |-> d, at |-> "record"]}
    /\ UNCHANGED <<aggregate, tasks, screen, library, ghosts, spent>>

CarryRecord(d) ==
    /\ At(d, "record")
    /\ \E g \in live : Publish([g EXCEPT !.out[d] = "delivered"])
    /\ delivering' = {}
    /\ UNCHANGED <<tasks, screen, carried, library, ghosts, spent>>

\* A save is refused, or the content cannot be bound.
CarryFails ==
    /\ delivering # {} /\ delivering' = {}
    /\ Mishap
    /\ UNCHANGED <<aggregate, tasks, screen, carried, library, ghosts>>

\* Someone plays the carried game; its save may fail.
PlayCarried(d) ==
    /\ \E c \in carried[d] :
          /\ c.played = 0
          /\ carried' = [carried EXCEPT ![d] = {[c EXCEPT !.played = 1]}]
          /\ library' \in {library, [library EXCEPT ![d] = {[c EXCEPT !.played = 1]}]}
    /\ UNCHANGED <<aggregate, tasks, screen, delivering, ghosts, spent>>

\* Or restarts it: the run is replaced when its successor is saved.
RestartCarried(d) ==
    /\ \E c \in carried[d] :
          /\ c.run = Candidate.run
          /\ carried' = [carried EXCEPT ![d] = {[run |-> c.run + 1, played |-> 0]}]
          /\ library' = [library EXCEPT ![d] = carried'[d]]
    /\ UNCHANGED <<aggregate, tasks, screen, delivering, ghosts, spent>>

----------------------------------------------------------------------------
(***************************************************************************)
(* The process dies, and is started again.                                 *)
(***************************************************************************)

NoGames == [d \in Deliveries |-> {}]

Crash ==
    /\ live # {}
    /\ live' = {} /\ telling' = FALSE /\ drawing' = {} /\ delivering' = {} /\ carried' = NoGames
    /\ Mishap
    /\ UNCHANGED <<disk, screen, library, ghosts>>

\* recover_all: a game that may be written is paused, a frozen or ended one
\* keeps its phase.
Load ==
    /\ live = {}
    /\ \E g \in disk : live' = {IF Writable(g) THEN [g EXCEPT !.phase = "paused"] ELSE g}
    /\ carried' = library
    /\ UNCHANGED <<disk, tasks, screen, delivering, library, ghosts, spent>>

NewGame ==
    [phase |-> "action", round |-> 1, queued |-> FALSE, log |-> <<>>, grown |-> {},
     pending |-> {}, receipts |-> {}, entropy |-> {}, before |-> {},
     job |-> {}, archive |-> {}, out |-> [d \in Deliveries |-> "none"]]

Init ==
    /\ live = {NewGame} /\ disk = {NewGame}
    /\ telling = FALSE /\ drawing = {}
    /\ screen = [w \in Windows |-> {}]
    /\ delivering = {} /\ carried = NoGames /\ library = NoGames
    /\ confirmed = {} /\ rolled = {}
    /\ spent = [checks |-> 0, seeds |-> 0, jobs |-> 0, edits |-> 0, pictures |-> 0,
                rewinds |-> 0, mishaps |-> 0]

Play ==
    \/ Advance \/ BeginProcessing \/ Mark \/ FinishRound \/ AbortRound
    \/ RollbackRound \/ (\E i \in 1..(MaxRound + MaxRewinds) : SwipeRound(i))
    \/ Resume \/ RemoveActors \/ DrawPicture \/ DropPicture \/ Save

Finale ==
    \/ \E id \in Intermissions : Intermission(id)
    \/ Prepare \/ Cancel
    \/ \E w \in Windows : Look(w) \/ Materials(w) \/ CommitFinale(w)

Carry ==
    \/ CarryFails
    \/ \E d \in Deliveries :
          \/ CarryBegin(d) \/ CarryCreate(d) \/ CarryRegister(d) \/ CarryRecord(d)
          \/ PlayCarried(d) \/ RestartCarried(d)

Next == Play \/ Finale \/ Carry \/ Crash \/ Load

Spec == Init /\ [][Next]_vars

----------------------------------------------------------------------------
(***************************************************************************)
(* Properties.                                                             *)
(***************************************************************************)

\* The aggregate has its shape: a frozen run waits at an action boundary with
\* nothing queued, an ended one has its archive and no job, and a window shows
\* materials that were saved.
FinaleTypeOK ==
    /\ \A g \in live \cup disk :
          /\ g.phase \in {"action", "judgment", "paused", "ended"}
          /\ g.round \in 1..MaxRound
          /\ Cardinality(g.pending) <= 1
          /\ g.job # {} => g.phase \in {"action", "paused"} /\ ~g.queued /\ g.archive = {}
          /\ g.phase = "ended" <=> g.archive # {}
    /\ \A w \in Windows, s \in UNION {screen[v] : v \in Windows} :
          s.id \in 1..spent.jobs /\ s.text \in 0..spent.edits

\* Without the scene images.
Unpictured(g) == [g EXCEPT !.log = Public(g.log)]

\* From its preparation on nobody but the finale writes the run: not a round,
\* not a rollback, not a restart.  The one exception is a scene image that was
\* under way, which the digest then refuses.
FrozenRunStands ==
    \A g \in live \cup disk : \A job \in g.job : Unpictured(job.digest) = Unpictured(Digest(g))

\* What the archive holds is what the window showed in which the GM confirmed
\* the end, and it is the run: its story, and its characters as they are.
ReviewedIsArchived ==
    \A g \in live \cup disk : \A a \in g.archive :
        /\ \E c \in confirmed : c.id = a.id /\ c.text = a.text
        /\ a.source = Public(g.log)
        /\ a.grown = g.grown

\* An archive the GM has been shown is there for good, also after a crash.
ArchiveStands ==
    [][\A g \in live : g.archive # {} =>
          \A next \in live' \cup disk' : next.archive = g.archive]_vars

\* A settled check cannot earn a second mark.
NoSecondMark == \A g \in live : \A c \in g.grown : c[1] \notin g.pending

\* Nor is it in two receipts, and no growth is on the sheet without one.
GrowthSettledOnce ==
    /\ NoSecondMark
    /\ \A g \in live :
        /\ g.grown = UNION {receipt.changes : receipt \in g.receipts}
        /\ \A r1, r2 \in g.receipts : r1 # r2 => r1.changes \cap r2.changes = {}

\* However often a settlement is tried, refused, cancelled or lost in a crash,
\* a check is rolled with one seed.
NoRerolls == \A c1, c2 \in rolled : c1[1] = c2[1] => c1[2] = c2[2]

\* Asking again for a delivery never takes a carried game back to where it
\* began.
CarryKeepsProgress ==
    [][\A d \in Deliveries : \A c \in library[d] :
          \E next \in library'[d] :
             next.run > c.run \/ (next.run = c.run /\ next.played >= c.played)]_vars

\* A delivery that is noted as made has its game on the disk.
DeliveredIsDurable ==
    \A g \in live \cup disk, d \in Deliveries : g.out[d] = "delivered" => library[d] # {}

=============================================================================
