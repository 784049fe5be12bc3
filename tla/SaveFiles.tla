----------------------------- MODULE SaveFiles -----------------------------
(***************************************************************************)
(* The files one game is saved in, and the registry that owns the game.    *)
(*                                                                         *)
(*   src/src/engine/persistence.py         save, load, _restore_chatlog    *)
(*   src/src/engine/game_registry.py       who may save, replace_current   *)
(*   src/src/commands/game_lifecycle.py    a run replaced by the next one  *)
(*                                                                         *)
(* state.json holds the aggregate with the last Window rounds of its log,  *)
(* state.backup.json the one before it, chatlog.jsonl every round, one to  *)
(* a line, only ever appended to.  A save touches the three one after the  *)
(* other.  No coroutine runs meanwhile, but the disk may refuse and the    *)
(* process may die between any two of them.                                *)
(*                                                                         *)
(* What may be missing, an aggregate or a file, is a set of at most one.   *)
(***************************************************************************)
EXTENDS Integers, Sequences, FiniteSetsExt, Subsequences

CONSTANTS
    Torn,       \* the end of chatlog.jsonl, when the last line has no newline
    Garbled,    \* a line that is not valid JSON
    Window,     \* the rounds of the log kept in state.json
    \* bounds of the model
    MaxRun, MaxLog, MaxEdits, MaxFaults, MaxCrashes

ASSUME WindowAssumption == Window \in Nat \ {0}

VARIABLES
    live,       \* the aggregate the registry holds; none while the process is down
    stale,      \* one it held before, which some coroutine still has in hand
    candidate,  \* the run that is prepared to replace the live one
    state,      \* state.json
    backup,     \* state.backup.json
    chatlog,    \* chatlog.jsonl, by lines
    writing,    \* the save in progress
    acked,      \* the run and the log of the last save that succeeded
    unacked,    \* what later saves, failed or in progress, wanted to keep
    spent       \* how much of its bounds the model has used

memory == <<live, stale, candidate>>
files  == <<state, backup, chatlog>>
saves  == <<writing, acked, unacked>>
vars   == <<memory, files, saves, spent>>

\* A round of a log.  edit tells the versions of a round apart: a round told
\* anew, or played again after it was taken back, is a different entry.
Entry == [run : 1..MaxRun, round : 1..MaxLog, edit : 0..MaxEdits]
Line  == Entry \cup {Torn, Garbled}

Spend(what, max) == spent[what] < max /\ spent' = [spent EXCEPT ![what] = @ + 1]

----------------------------------------------------------------------------
(***************************************************************************)
(* The chat log.                                                           *)
(***************************************************************************)

\* Lines at the end of a file.  After a torn line the first of them is written
\* into it, and lost with it.
Appended(file, lines) ==
    IF lines = <<>> THEN file
    ELSE IF file = <<>> \/ file[Len(file)] # Torn THEN file \o lines
    ELSE IF Head(lines) = Torn THEN file
    ELSE SubSeq(file, 1, Len(file) - 1) \o <<Garbled>> \o Tail(lines)

Truncated(file, keep) == IF Len(file) <= keep THEN file ELSE SubSeq(file, 1, keep)

\* What _append_chatlog has to write for inst.
Unwritten(inst) == SubSeq(inst.log, inst.saved + 1, Len(inst.log))

\* Rounds taken back are cut off the file, if the log is shorter now than when
\* it was last written.
Extended(file, inst) ==
    IF inst.saved > Len(inst.log) THEN Truncated(file, Len(inst.log))
                                  ELSE Appended(file, Unwritten(inst))

Persisted(inst) == [inst EXCEPT !.saved = Len(inst.log)]

\* to_dict: the last rounds of the log.
LastRounds(log) == SubSeq(log, Max({1, Len(log) - Window + 1}), Len(log))

Record(inst) == [run |-> inst.run, tail |-> LastRounds(inst.log)]

\* Lines that do not parse are skipped.
Readable(file) ==
    Subsequence(file, {i \in DOMAIN file : file[i] \notin {Torn, Garbled}})

\* Where a log read from the file meets the one of state.json.
Anchors(history, tail) == {i \in DOMAIN history : tail # <<>> /\ history[i] = tail[1]}

\* Mutant of Restored: where the window does not begin in the file, the file
\* is taken as it is.
RestoredFromFile(kept) ==
    LET history == Readable(chatlog)
        anchors == Anchors(history, kept.tail)
    IN  IF kept.tail = <<>> THEN history
        ELSE IF history = <<>> THEN kept.tail
        ELSE IF anchors # {} THEN SubSeq(history, 1, Max(anchors) - 1) \o kept.tail
        ELSE history

\* _restore_chatlog: the rounds of state.json are right, what the file has
\* before the first of them is the older history.  If the first is not to be
\* found, as many lines are kept as the counts leave.
Restored(kept) ==
    LET history == Readable(chatlog)
        anchors == Anchors(history, kept.tail)
    IN  IF kept.tail = <<>> THEN history
        ELSE IF history = <<>> THEN kept.tail
        ELSE IF anchors # {} THEN SubSeq(history, 1, Max(anchors) - 1) \o kept.tail
        ELSE SubSeq(history, 1, Len(history) - Len(kept.tail)) \o kept.tail

\* load takes state.json, and the backup if it is missing.
Kept == IF state # {} THEN state ELSE backup

----------------------------------------------------------------------------
(***************************************************************************)
(* Play.  No coroutine runs while a save writes, and the locks of the live *)
(* run are held while its successor is prepared.                           *)
(***************************************************************************)

Playing == writing = {} /\ candidate = {}

\* finish_judgment, or the opening: one more round is in the log.
AppendRound ==
    /\ Playing
    /\ \E game \in live :
          /\ Len(game.log) < MaxLog
          /\ live' = {[game EXCEPT !.log = Append(@, [run |-> game.run, round |-> Len(@) + 1,
                                                    edit |-> spent.edits])]}
    /\ UNCHANGED <<stale, candidate, files, saves, spent>>

\* rollback_last_round
TakeBackRound ==
    /\ Playing
    /\ \E game \in live :
          /\ game.log # <<>>
          /\ live' = {[game EXCEPT !.log = SubSeq(@, 1, Len(@) - 1)]}
    /\ Spend("edits", MaxEdits)
    /\ UNCHANGED <<stale, candidate, files, saves>>

\* A swipe, another of its versions, or a recap: some round is told anew.
ChangeRound(i) ==
    /\ Playing
    /\ \E game \in live :
          /\ i \in DOMAIN game.log
          /\ live' = {[game EXCEPT !.log = [@ EXCEPT ![i].edit = spent.edits + 1]]}
    /\ Spend("edits", MaxEdits)
    /\ UNCHANGED <<stale, candidate, files, saves>>

\* reset_game and restart_game: the next run is made and its opening told.
\* The runtime of a ruleset begins without an opening.
PrepareRun ==
    /\ Playing
    /\ \E game \in live :
          /\ game.run < MaxRun
          /\ \E log \in {<<>>, <<[run |-> game.run + 1, round |-> 1, edit |-> spent.edits]>>} :
                candidate' = {[run |-> game.run + 1, log |-> log, saved |-> 0]}
    /\ UNCHANGED <<live, stale, files, saves, spent>>

\* Its initialisation fails; the live run goes on.
DropCandidate ==
    /\ candidate # {} /\ writing = {} /\ candidate' = {}
    /\ UNCHANGED <<live, stale, files, saves, spent>>

----------------------------------------------------------------------------
(***************************************************************************)
(* Saving.                                                                 *)
(***************************************************************************)

\* Mutant of MaySave: whoever has an aggregate in hand may save it.
MaySaveAny(inst) == TRUE

\* The registry refuses an aggregate that is no longer its own.  A candidate
\* is let through by replace_current, which asks for the run it replaces.
MaySave(inst) == inst \in live \cup candidate

\* The file on the disk is of another run: its history is to be replaced.
NextRun(inst) == \E kept \in state : kept.run # inst.run

\* The cursor of the aggregate that is saved moves on.
Marked(held, inst) == {IF game = inst THEN Persisted(game) ELSE game : game \in held}

\* The history of a new run is written beside the old one; otherwise what is
\* new in the log is appended, or what is gone from it is cut off.
BeginSave ==
    /\ live # {} /\ writing = {}
    /\ \E inst \in live \cup stale \cup candidate :
          /\ MaySave(inst)
          /\ writing' = {[inst |-> Persisted(inst), swap |-> NextRun(inst), at |-> "backup"]}
          /\ chatlog' = IF NextRun(inst) THEN chatlog ELSE Extended(chatlog, inst)
          /\ unacked' = unacked \cup {Record(inst)}
          /\ live' = Marked(live, inst)
          /\ candidate' = Marked(candidate, inst)
    /\ UNCHANGED <<stale, state, backup, acked, spent>>

\* The append itself fails half way: some lines are in the file, the last of
\* them perhaps cut off, and the cursor has not moved.
BreakAppend ==
    /\ live # {} /\ writing = {}
    /\ \E inst \in live \cup candidate :
          /\ ~NextRun(inst)
          /\ inst.saved <= Len(inst.log)
          /\ \E k \in 0..(Len(Unwritten(inst)) - 1), end \in {<<>>, <<Torn>>} :
                chatlog' = Appended(chatlog, SubSeq(Unwritten(inst), 1, k) \o end)
          /\ candidate' = candidate \ {inst}
    /\ Spend("faults", MaxFaults)
    /\ UNCHANGED <<live, stale, state, backup, saves>>

\* The save in progress goes on from step "at" to the next.
Step(at, next) == \E w \in writing : w.at = at /\ writing' = {[w EXCEPT !.at = next]}

\* Mutant of KeepBackup: the old file is removed.
RemoveState ==
    /\ Step("backup", "state")
    /\ state' = {}
    /\ UNCHANGED <<memory, backup, chatlog, acked, unacked, spent>>

\* state.json becomes the backup; if there is none, the backup stays.
KeepBackup ==
    /\ Step("backup", "state")
    /\ IF state # {} THEN backup' = state /\ state' = {}
                     ELSE UNCHANGED <<state, backup>>
    /\ UNCHANGED <<memory, chatlog, acked, unacked, spent>>

PutState ==
    /\ \E w \in writing :
          /\ Step("state", IF w.swap THEN "history" ELSE "done")
          /\ state' = {Record(w.inst)}
    /\ UNCHANGED <<memory, backup, chatlog, acked, unacked, spent>>

SwapHistory ==
    /\ Step("history", "done")
    /\ \E w \in writing : chatlog' = w.inst.log
    /\ UNCHANGED <<memory, state, backup, acked, unacked, spent>>

\* save returns.  A candidate is registered in place of the live run.
FinishSave ==
    /\ \E w \in writing :
          /\ w.at = "done"
          /\ acked' = {[run |-> w.inst.run, log |-> w.inst.log]}
          /\ IF w.inst \in candidate
             THEN live' = {w.inst} /\ stale' = live /\ candidate' = {}
             ELSE UNCHANGED memory
    /\ writing' = {} /\ unacked' = {}
    /\ UNCHANGED <<files, spent>>

\* The disk refuses: save raises, and a candidate is given up.
FailSave ==
    /\ \E w \in writing : w.at # "done" /\ candidate' = candidate \ {w.inst}
    /\ writing' = {}
    /\ Spend("faults", MaxFaults)
    /\ UNCHANGED <<live, stale, files, acked, unacked>>

----------------------------------------------------------------------------
(***************************************************************************)
(* The process dies, and is started again.                                 *)
(***************************************************************************)

Crash ==
    /\ live # {}
    /\ live' = {} /\ stale' = {} /\ candidate' = {} /\ writing' = {}
    /\ Spend("crashes", MaxCrashes)
    /\ UNCHANGED <<files, acked, unacked>>

\* recover_all, load.  A file without history is written from state.json.
Load ==
    /\ live = {}
    /\ \E kept \in Kept :
          /\ live' = {[run |-> kept.run, log |-> Restored(kept), saved |-> Len(Restored(kept))]}
          /\ chatlog' = IF Readable(chatlog) = <<>> THEN Appended(chatlog, kept.tail)
                                                   ELSE chatlog
    /\ unacked' = Kept
    /\ UNCHANGED <<stale, candidate, state, backup, writing, acked, spent>>

Init ==
    /\ live = {[run |-> 1, log |-> <<>>, saved |-> 0]}
    /\ stale = {} /\ candidate = {}
    /\ state = {} /\ backup = {} /\ chatlog = <<>>
    /\ writing = {} /\ acked = {} /\ unacked = {}
    /\ spent = [edits |-> 0, faults |-> 0, crashes |-> 0]

Next ==
    \/ AppendRound \/ TakeBackRound \/ (\E i \in 1..MaxLog : ChangeRound(i))
    \/ PrepareRun \/ DropCandidate
    \/ BeginSave \/ BreakAppend \/ KeepBackup \/ PutState \/ SwapHistory
    \/ FinishSave \/ FailSave
    \/ Crash \/ Load

Spec == Init /\ [][Next]_vars

----------------------------------------------------------------------------
(***************************************************************************)
(* Properties.                                                             *)
(***************************************************************************)

\* Every file, and every aggregate, is what its format says: state.json never
\* holds more rounds than the window, and a save in progress is of an
\* aggregate that somebody holds.
FilesTypeOK ==
    /\ \A inst \in live \cup stale \cup candidate : inst.run \in 1..MaxRun
    /\ \A kept \in state \cup backup \cup unacked :
          kept.run \in 1..MaxRun /\ Len(kept.tail) <= Window
    /\ \A i \in DOMAIN chatlog : chatlog[i] \in Line
    /\ \A w \in writing : w.inst \in live \cup candidate

\* A save that returned without an error is what a restart finds, unless a
\* later one, which failed or is not yet finished, has come to be.
AckedIsDurable ==
    \A a \in acked : Kept = {Record(a)} \/ (Kept # {} /\ Kept \subseteq unacked)

\* The disk never holds a run older than the one that is played: neither a
\* coroutine that still has the aggregate of the run before, nor a save that
\* failed half way, brings it back.
NoRunReturns == \A kept \in Kept, game \in live : kept.run >= game.run

\* The promise of saving: whenever the process dies, a restart finds the last
\* acknowledged save, or one begun since, with its last rounds as they were;
\* and a run that was replaced is not found again.
Promise == INSTANCE DurableGame WITH durable <- Kept, submitted <- unacked

SavesAreDurable == Promise!Spec

\* A save that succeeded is what a restart restores, round by round, also the
\* rounds older than the window of state.json.
RestoredAsSaved ==
    writing = {} /\ unacked = {} =>
        \A a \in acked, kept \in Kept : Restored(kept) = a.log

=============================================================================
