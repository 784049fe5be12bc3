------------------------------- MODULE Seats -------------------------------
(***************************************************************************)
(* The turn barrier of one table: who acts for a seat, whom the round      *)
(* waits for, and the AI that plays the seats nobody plays.                *)
(*                                                                         *)
(*   src/src/engine/turn_state.py      readiness, the queue of actions     *)
(*   src/src/engine/player_control.py  human, AI, away, claimed            *)
(*   src/src/commands/ai_player.py     filling the AI seats of a round     *)
(*   src/src/webui/services/turns.py   the one boundary that advances      *)
(*                                                                         *)
(* A seat is played by a human or by the AI of the server, or is unclaimed.*)
(* A round is judged once every human who is here has acted; before that   *)
(* the AI acts for its seats, one model call each.  The calls are made     *)
(* outside every lock, so that what comes back is checked again when it is *)
(* written.  A request of the web client holds the authority gate from     *)
(* beginning to end; the assistant's requests, the resumption after a game *)
(* is created and the luck timers enter it only where they write, and      *)
(* neither the advance nor the judging does.                               *)
(*                                                                         *)
(* What a round tells and costs is the matter of Economy and RoundTable.   *)
(* The texts of actions, how often one may be changed and dice still to be *)
(* rolled are left out, as are solo and scene tables, which advance on any *)
(* action, and combat.                                                     *)
(***************************************************************************)
EXTENDS Integers, Sequences, FiniteSets

CONSTANTS
    Seats,       \* the seats that may be at the table
    Web,         \* the request of the web client that holds the gate
    Ungated,     \* coroutines that progress the table outside the gate
    None,
    MaxRound,    \* rounds followed
    MaxChanges,  \* changes of roster, control, presence, and blocking offers
    MaxTries     \* judgments of one round that fail

ASSUME BoundsAssumption ==
    MaxRound \in Nat \ {0} /\ MaxChanges \in Nat /\ MaxTries \in Nat

ASSUME NamesAssumption == Web \notin Ungated /\ None \notin Seats

Tasks   == Ungated \cup {Web}
Modes   == {"human", "ai", "unclaimed"}
Sources == {"human", "ai", "wait"}
Control == [mode : Modes, revision : Nat, temporary : BOOLEAN]
Stages  == {"idle", "adding", "entering", "filling", "calling", "committing",
            "judging", "telling"}

VARIABLES
    players,  \* the seats of the table
    control,  \* who plays each
    dead, away, ready,
    queue,    \* the actions of the round, by seat, with who declared them
    pending,  \* those declared during a judgment, for the next round
    phase,    \* "action", "judgment"; "over" beyond the last round followed
    round,
    blocked,  \* an economy decision keeps the table from advancing
    task,     \* the progress of each coroutine
    tries,    \* judgments of this round that failed
    aiActs,   \* history: how often the AI has acted for each seat this round
    changes   \* bound

seats   == <<players, control, dead, away>>
actions == <<ready, queue, pending, aiActs>>
course  == <<phase, round, blocked, tries>>
vars    == <<seats, actions, course, task, changes>>

Idle    == [at |-> "idle", seat |-> None, todo |-> {}, revision |-> 0, round |-> 0]
Default == [mode |-> "human", revision |-> 0, temporary |-> FALSE]
NoActions == [s \in Seats |-> <<>>]
NoneDone  == [s \in Seats |-> 0]

Alive    == players \ dead
Here     == Alive \ away
Humans   == {s \in Here : control[s].mode = "human"}
AISeats  == {s \in players : control[s].mode = "ai"}
AIHere   == AISeats \cap Here
ProcessLocked == \E t \in Tasks : task[t].at = "telling"

\* The gate, for the short time a coroutine outside it needs it to write.
MayWrite(t) == t = Web \/ task[Web].at = "idle"

(***************************************************************************)
(* all_alive_ready, human_actions_ready and _ai_fill_gate_open: a table    *)
(* with humans waits for them, one without for its AI seats.  Ready means  *)
(* marked as having acted.                                                 *)
(***************************************************************************)
ShouldAdvance ==
    IF Humans # {} THEN Humans \subseteq ready
    ELSE AIHere # {} /\ AIHere \subseteq ready

FillGateOpen == IF Humans # {} THEN Humans \subseteq ready ELSE AISeats # {}

\* A new action of a seat takes the place of its first one.
Declared(q, source) == IF q = <<>> THEN <<source>> ELSE [q EXCEPT ![1] = source]

At(t, stage) == task' = [task EXCEPT ![t].at = stage]
Ends(t)      == task' = [task EXCEPT ![t] = Idle]
Change       == changes < MaxChanges /\ changes' = changes + 1

Init ==
    /\ players \in (SUBSET Seats) \ {{}}
    /\ \E mode \in [Seats -> Modes] :
          control = [s \in Seats |-> IF s \in players THEN [Default EXCEPT !.mode = mode[s]]
                                     ELSE Default]
    /\ dead = {} /\ away = {} /\ ready = {}
    /\ queue = NoActions /\ pending = NoActions /\ aiActs = NoneDone
    /\ phase = "action" /\ round = 1 /\ blocked = FALSE /\ tries = 0
    /\ task = [t \in Tasks |-> Idle] /\ changes = 0

----------------------------------------------------------------------------
(***************************************************************************)
(* A player declares an action.                                            *)
(***************************************************************************)

\* submit_action checks who plays the seat, and that the table is not
\* judging; then it retries what is owed and waits for the locks.
Submit(t, s) ==
    /\ task[t].at = "idle"
    /\ s \in Alive /\ control[s].mode = "human"
    /\ ~blocked /\ phase = "action"
    /\ task' = [task EXCEPT ![t] = [Idle EXCEPT !.at = "adding", !.seat = s]]
    /\ UNCHANGED <<seats, actions, course, changes>>

\* add_action checks the process lock and whether the character lives, but
\* not again who plays the seat, nor that there still is one.
Add(t) ==
    LET s == task[t].seat
    IN  /\ task[t].at = "adding" /\ MayWrite(t)
        /\ IF ProcessLocked
           THEN Ends(t) /\ UNCHANGED <<seats, actions>>
           ELSE /\ At(t, "entering")
                /\ IF s \in players \cap dead
                   THEN UNCHANGED <<seats, actions>>
                   ELSE /\ away' = away \ {s}
                        /\ IF phase = "action"
                           THEN /\ queue' = [queue EXCEPT ![s] = Declared(@, "human")]
                                /\ ready' = ready \cup {s}
                                /\ UNCHANGED pending
                           ELSE /\ pending' = [pending EXCEPT ![s] = Append(@, "human")]
                                /\ UNCHANGED <<queue, ready>>
                        /\ UNCHANGED <<players, control, dead, aiActs>>
        /\ UNCHANGED <<course, changes>>

----------------------------------------------------------------------------
(***************************************************************************)
(* The boundary that fills the AI seats and advances.                      *)
(***************************************************************************)

Enter(t) ==
    /\ task[t].at = "entering"
    /\ task' = [task EXCEPT ![t] =
                  [Idle EXCEPT !.at = "filling",
                     !.todo = IF phase = "action" /\ FillGateOpen THEN AISeats ELSE {}]]
    /\ UNCHANGED <<seats, actions, course, changes>>

\* A seat that is dead or gone, or has declared an action, is passed over.
Wanting(t) == {s \in task[t].todo : s \in Alive /\ queue[s] = <<>>}

\* _fill_one remembers the round and the revision of the control, and asks
\* the model.  The order of the seats is left open.
AskModel(t, s) ==
    /\ task[t].at = "filling" /\ s \in Wanting(t)
    /\ task' = [task EXCEPT ![t] =
                  [at |-> "calling", seat |-> s, todo |-> @.todo \ {s},
                   revision |-> control[s].revision, round |-> round]]
    /\ UNCHANGED <<seats, actions, course, changes>>

ModelAnswers(t) ==
    /\ task[t].at = "calling"
    /\ At(t, "committing")
    /\ UNCHANGED <<seats, actions, course, changes>>

\* _fallback_or_skip: with humans here the seat goes without an action,
\* otherwise it declares that it waits, in the same way as an answer.
ModelFails(t) ==
    /\ task[t].at = "calling"
    /\ At(t, IF Humans # {} THEN "filling" ELSE "committing")
    /\ UNCHANGED <<seats, actions, course, changes>>

\* Mutants of Current: the revision is not compared; the humans are not
\* asked for again; neither is an action of the AI.
AnyRevision(t) ==
    LET s == task[t].seat
    IN  /\ ~ProcessLocked /\ task[t].round = round
        /\ s \in Alive /\ control[s].mode = "ai"
        /\ phase = "action" /\ (Humans # {} => Humans \subseteq ready)
        /\ ~ \E i \in DOMAIN queue[s] : queue[s][i] = "ai"

NoHumanGate(t) ==
    LET s == task[t].seat
    IN  /\ ~ProcessLocked /\ task[t].round = round
        /\ s \in Alive /\ control[s].mode = "ai"
        /\ control[s].revision = task[t].revision
        /\ phase = "action"
        /\ ~ \E i \in DOMAIN queue[s] : queue[s][i] = "ai"

Repeated(t) ==
    LET s == task[t].seat
    IN  /\ ~ProcessLocked /\ task[t].round = round
        /\ s \in Alive /\ control[s].mode = "ai"
        /\ control[s].revision = task[t].revision
        /\ phase = "action" /\ (Humans # {} => Humans \subseteq ready)

(***************************************************************************)
(* commit_ai_player_action_locked: the same round, the seat still played   *)
(* by the AI under the same revision, the humans still done, and no action *)
(* of the AI for this seat.                                                *)
(***************************************************************************)
Current(t) ==
    LET s == task[t].seat
    IN  /\ ~ProcessLocked /\ task[t].round = round
        /\ s \in Alive /\ control[s].mode = "ai"
        /\ control[s].revision = task[t].revision
        /\ phase = "action" /\ (Humans # {} => Humans \subseteq ready)
        /\ ~ \E i \in DOMAIN queue[s] : queue[s][i] = "ai"

Commit(t) ==
    LET s == task[t].seat
    IN  /\ task[t].at = "committing" /\ MayWrite(t)
        /\ At(t, "filling")
        /\ IF Current(t)
           THEN /\ queue' = [queue EXCEPT ![s] = Declared(@, "ai")]
                /\ aiActs' = [aiActs EXCEPT ![s] = @ + 1]
                /\ ready' = ready \cup {s} /\ away' = away \ {s}
                /\ UNCHANGED <<players, control, dead, pending>>
           ELSE UNCHANGED <<seats, actions>>
        /\ UNCHANGED <<course, changes>>

\* do_advance_locked: everyone alive counts as having acted.
DoAdvance ==
    /\ phase' = "judgment" /\ ready' = ready \cup Alive
    /\ UNCHANGED <<seats, queue, pending, aiActs, round, blocked, tries>>

\* try_advance takes the state lock, not the gate.
TryAdvance(t) ==
    /\ task[t].at = "filling" /\ Wanting(t) = {}
    /\ IF phase = "action" /\ ~blocked /\ ShouldAdvance
       THEN DoAdvance /\ task' = [task EXCEPT ![t] = [Idle EXCEPT !.at = "judging"]]
       ELSE Ends(t) /\ UNCHANGED <<seats, actions, course>>
    /\ UNCHANGED changes

----------------------------------------------------------------------------
(***************************************************************************)
(* The judgment.                                                           *)
(***************************************************************************)

\* With the checks planned, the round is narrated unless another coroutine
\* does so or has done so, or it is left to a luck decision.
Judge(t) ==
    /\ task[t].at = "judging"
    /\ \/ Ends(t)
       \/ phase = "judgment" /\ ~blocked /\ ~ProcessLocked /\ At(t, "telling")
    /\ UNCHANGED <<seats, actions, course, changes>>

\* A luck decision, its timer or the GM takes the judgment up again.
Continue(t) ==
    /\ task[t].at = "idle"
    /\ phase = "judgment" /\ ~blocked /\ ~ProcessLocked
    /\ At(t, "telling")
    /\ UNCHANGED <<seats, actions, course, changes>>

\* Mutant of StartRound: those who are ready stay so.
StartReady ==
    /\ queue' = pending /\ pending' = NoActions
    /\ aiActs' = NoneDone /\ tries' = 0
    /\ round' = IF round = MaxRound THEN round ELSE round + 1
    /\ phase' = IF round = MaxRound THEN "over" ELSE "action"
    /\ UNCHANGED ready

\* start_round_locked: what was declared during the judgment is queued, and
\* nobody is ready.
StartRound ==
    /\ queue' = pending /\ pending' = NoActions /\ ready' = {}
    /\ aiActs' = NoneDone /\ tries' = 0
    /\ round' = IF round = MaxRound THEN round ELSE round + 1
    /\ phase' = IF round = MaxRound THEN "over" ELSE "action"

\* finish_judgment: the story may kill a character, or leave an offer that
\* keeps the table from advancing.
Finish(t) ==
    /\ task[t].at = "telling"
    /\ StartRound /\ Ends(t)
    /\ \/ UNCHANGED <<dead, blocked, changes>>
       \/ Change /\ UNCHANGED dead /\ blocked' = TRUE
       \/ Change /\ UNCHANGED blocked /\ \E s \in Alive : dead' = dead \cup {s}
    /\ UNCHANGED <<players, control, away>>

\* abort_round_processing_locked keeps the queue and who is ready.  It also
\* follows a planning whose model is not configured, and the GM's force.
Abort(t) ==
    /\ task[t].at \in {"judging", "telling"}
    /\ phase = "judgment" /\ (task[t].at = "telling" \/ ~ProcessLocked)
    /\ tries < MaxTries /\ tries' = tries + 1
    /\ phase' = "action" /\ Ends(t)
    /\ UNCHANGED <<seats, actions, round, blocked, changes>>

----------------------------------------------------------------------------
(***************************************************************************)
(* The GM's hand on the round.  These requests hold the gate.              *)
(***************************************************************************)

\* advance_round without force is a try_advance: it fills no seat.
PressAdvance ==
    /\ task[Web].at = "idle" /\ phase = "action" /\ ~blocked
    /\ At(Web, "filling")
    /\ UNCHANGED <<seats, actions, course, changes>>

\* With force the humans who are waited for declare that they wait.
ForceAdvance ==
    LET waiting == IF ShouldAdvance THEN {} ELSE Humans \ ready
    IN  /\ task[Web].at = "idle" /\ phase = "action" /\ ~blocked
        /\ ShouldAdvance \/ \E s \in Seats : queue[s] # <<>>
        /\ queue' = [s \in Seats |-> IF s \in waiting THEN Declared(queue[s], "wait")
                                     ELSE queue[s]]
        /\ phase' = "judgment" /\ ready' = ready \cup Alive
        /\ At(Web, "judging")
        /\ UNCHANGED <<seats, pending, aiActs, round, blocked, tries, changes>>

\* The retry of an AI seat (ai_seats.retry) enters the boundary.
Retry(s) ==
    /\ task[Web].at = "idle" /\ phase = "action"
    /\ s \in AISeats /\ queue[s] = <<>>
    /\ Humans # {} => Humans \subseteq ready
    /\ At(Web, "entering")
    /\ UNCHANGED <<seats, actions, course, changes>>

\* The decision a blocking offer waits for.
Settle ==
    /\ task[Web].at = "idle" /\ blocked /\ blocked' = FALSE
    /\ UNCHANGED <<seats, actions, phase, round, tries, task, changes>>

\* rollback_last_round_locked: the round before is played again.
Rollback ==
    /\ task[Web].at = "idle" /\ phase # "over" /\ round > 1 /\ ~ProcessLocked
    /\ Change /\ round' = round - 1 /\ phase' = "action"
    /\ queue' = NoActions /\ pending' = NoActions /\ ready' = {}
    /\ aiActs' = NoneDone /\ tries' = 0
    /\ UNCHANGED <<seats, blocked, task>>

----------------------------------------------------------------------------
(***************************************************************************)
(* Who plays a seat.                                                       *)
(***************************************************************************)

\* Mutant of SetTo: the mark of a temporary hosting stays.
SetKeepsMark(c, mode, temporary) ==
    IF c.mode = mode /\ c.temporary = temporary THEN c
    ELSE [mode |-> mode, revision |-> c.revision + 1, temporary |-> temporary \/ c.temporary]

\* set_control: the revision counts the changes that are any.
SetTo(c, mode, temporary) ==
    IF c.mode = mode /\ c.temporary = temporary THEN c
    ELSE [mode |-> mode, revision |-> c.revision + 1, temporary |-> temporary]

\* control_change_block.
AtBoundary == phase = "action" /\ ~ProcessLocked

\* set_player_control, by the GM or by the assistant: a seat given to the AI
\* enters the boundary at once.
SetControl(t, s, mode) ==
    /\ task[t].at = "idle" /\ MayWrite(t)
    /\ s \in players /\ AtBoundary /\ Change
    /\ control' = [control EXCEPT ![s] = SetTo(@, mode, FALSE)]
    /\ IF mode = "ai" THEN At(t, "entering") ELSE UNCHANGED task
    /\ UNCHANGED <<players, dead, away, actions, course>>

\* A player steps away.  Where the table's policy is to hand over, the AI
\* plays the seat for the time being.
LeaveSeat(s, handover) ==
    /\ task[Web].at = "idle" /\ s \in Alive /\ Change
    /\ handover => AtBoundary
    /\ away' = away \cup {s} /\ ready' = ready \ {s}
    /\ control' = IF handover /\ control[s].mode = "human"
                  THEN [control EXCEPT ![s] = SetTo(@, "ai", TRUE)] ELSE control
    /\ IF control'[s].mode = "ai" THEN At(Web, "entering") ELSE UNCHANGED task
    /\ UNCHANGED <<players, dead, queue, pending, aiActs, course>>

ReturnToSeat(s) ==
    /\ task[Web].at = "idle" /\ s \in Alive /\ AtBoundary /\ Change
    /\ s \in away \/ control[s].temporary
    /\ away' = away \ {s}
    /\ control' = IF control[s].temporary
                  THEN [control EXCEPT ![s] = SetTo(@, "human", FALSE)] ELSE control
    /\ UNCHANGED <<players, dead, actions, course, task>>

\* A human joins: a seat of the AI or of nobody, or a new one.
Claim(s) ==
    /\ task[Web].at = "idle" /\ phase # "over" /\ Change
    /\ s \notin players \/ control[s].mode # "human"
    /\ players' = players \cup {s}
    /\ control' = [control EXCEPT ![s] = IF s \in players THEN SetTo(@, "human", FALSE)
                                         ELSE Default]
    /\ dead' = IF s \in players THEN dead ELSE dead \ {s}
    /\ UNCHANGED <<away, actions, course, task>>

\* remove_player; one seat remains.
Remove(s) ==
    /\ task[Web].at = "idle" /\ phase # "over" /\ Change
    /\ s \in players /\ players # {s}
    /\ players' = players \ {s}
    /\ ready' = ready \ {s} /\ away' = away \ {s}
    /\ queue' = [queue EXCEPT ![s] = <<>>] /\ pending' = [pending EXCEPT ![s] = <<>>]
    /\ aiActs' = [aiActs EXCEPT ![s] = 0]
    /\ UNCHANGED <<control, dead, course, task>>

\* A table of AI seats is progressed once when it is created.
ResumeCreated(t) ==
    /\ task[t].at = "idle" /\ round = 1 /\ phase = "action"
    /\ Humans = {} /\ AIHere # {}
    /\ At(t, "entering")
    /\ UNCHANGED <<seats, actions, course, changes>>

----------------------------------------------------------------------------
Step(t) ==
    \/ Add(t) \/ Enter(t) \/ ModelAnswers(t) \/ ModelFails(t) \/ Commit(t)
    \/ TryAdvance(t) \/ Judge(t) \/ Finish(t) \/ Abort(t)
    \/ \E s \in Seats : AskModel(t, s)

Table ==
    \/ \E t \in Tasks : Continue(t)
    \/ \E t \in Tasks, s \in Seats :
          Submit(t, s) \/ \E mode \in {"human", "ai"} : SetControl(t, s, mode)
    \/ \E t \in Ungated : ResumeCreated(t)
    \/ PressAdvance \/ ForceAdvance \/ Settle \/ Rollback
    \/ \E s \in Seats : \/ Retry(s) \/ ReturnToSeat(s) \/ Claim(s) \/ Remove(s)
                        \/ \E handover \in BOOLEAN : LeaveSeat(s, handover)

Next == Table \/ \E t \in Tasks : Step(t)
Spec == Init /\ [][Next]_vars

(***************************************************************************)
(* A seat that was removed and is created again has its revisions start    *)
(* from 0, so that an old answer may meet a revision that looks like its   *)
(* own.  This is the program as long as that does not happen.              *)
(***************************************************************************)
RevisionsGrow == \A s \in Seats : control'[s].revision >= control[s].revision
GrowingSpec   == Init /\ [][Next /\ RevisionsGrow]_vars

(***************************************************************************)
(* A coroutine goes on, and a model call returns or fails; the gate is     *)
(* handed on in the order in which coroutines came to it (asyncio.Lock); a *)
(* judgment left to a luck decision is taken up by its timer; the GM       *)
(* decides the offers, and asks again and again for what the client has a  *)
(* button for.                                                             *)
(***************************************************************************)
Served ==
    /\ \A t \in Tasks : WF_vars(Step(t))
    /\ \A t \in Ungated : SF_vars(Add(t)) /\ SF_vars(Commit(t))
    /\ WF_vars(\E t \in Tasks : Continue(t))
    /\ SF_vars(Settle) /\ SF_vars(PressAdvance) /\ SF_vars(ForceAdvance)

RetriedSpec == Spec /\ Served /\ \A s \in Seats : SF_vars(Retry(s))

\* The GM presses every button but the retry of a seat.
ForcedSpec  == Spec /\ Served /\ \A t \in Ungated : WF_vars(ResumeCreated(t))

----------------------------------------------------------------------------
(***************************************************************************)
(* Properties.                                                             *)
(***************************************************************************)

SeatsShape ==
    /\ players \in (SUBSET Seats) \ {{}} /\ dead \subseteq Seats /\ away \subseteq Seats
    /\ control \in [Seats -> Control]
    /\ \A s \in Seats : control[s].temporary => control[s].mode = "ai"

ActionsShape ==
    /\ ready \subseteq Seats /\ aiActs \in [Seats -> Nat]
    /\ queue \in [Seats -> Seq(Sources)] /\ pending \in [Seats -> Seq({"human"})]

CourseShape ==
    /\ phase \in {"action", "judgment", "over"} /\ blocked \in BOOLEAN
    /\ round \in 1..MaxRound /\ tries \in 0..MaxTries /\ changes \in 0..MaxChanges

TasksShape ==
    /\ task \in [Tasks -> [at : Stages, seat : Seats \cup {None}, todo : SUBSET Seats,
                          revision : Nat, round : 0..MaxRound]]
    /\ \A t \in Tasks : task[t].at \in {"adding", "calling", "committing"}
                            => task[t].seat \in Seats

\* The shape of the table: only a seat of the AI is temporary, a removed
\* player is away no more, and a coroutine that adds, asks or commits does so
\* for a seat.
SeatsTypeOK == SeatsShape /\ ActionsShape /\ CourseShape /\ TasksShape

\* However many coroutines fill the seats of a round at once, hand them over
\* and take them back, the AI acts for a seat at most once in it.
OneAIAction == \A s \in Seats : aiActs[s] <= 1

\* What a human has declared is never replaced by an action of the AI, even
\* by an answer that was under way when the seat changed hands.
HumanActionStands ==
    [][\A s \in Seats :
          queue[s] # <<>> /\ Head(queue[s]) = "human" /\ queue'[s] # <<>>
              => Head(queue'[s]) # "ai"]_vars

(***************************************************************************)
(* The actions q declare something for seat s: one of them is not the      *)
(* AI's.  But where the AI acted for the seat in this round, before the    *)
(* human who has it now took it, that action counts, and the human is not  *)
(* waited for until the next round.                                        *)
(***************************************************************************)
Declares(q, s) == IF aiActs[s] = 0 THEN \E i \in DOMAIN q : q[i] # "ai" ELSE q # <<>>

\* The AI acts last: when it does before a round is first judged, the seat of
\* every human who is here has declared an action other than the AI's, whoever
\* came or came back while it was thinking.  Only a seat the AI has already
\* played in this round may have no other action than that.
AIActsLast ==
    [][\A s \in Seats :
          tries = 0 /\ aiActs'[s] > aiActs[s]
              => \A h \in Humans : Declares(queue[h], h)]_vars

\* A round is judged for the first time only with an action for the seat of
\* every human who is here: a human's, or the one that the GM's force declares,
\* or, where the AI has played the seat in this round, the AI's.
FirstAttemptWaits ==
    [][phase = "action" /\ phase' = "judgment" /\ tries = 0
          => \A s \in Humans : Declares(queue'[s], s)]_vars

\* The same for every attempt.
EveryAttemptWaits ==
    [][phase = "action" /\ phase' = "judgment"
          => \A s \in Humans : Declares(queue'[s], s)]_vars

\* A table without humans does not wait for ever: its round is judged,
\* whether or not the model ever answers, unless a human joins it.
AITableWaits   == phase = "action" /\ Humans = {} /\ AIHere # {}
AITableGoesOn  == AITableWaits ~> ~AITableWaits
=============================================================================
