---------------------------- MODULE SeatsProofs ----------------------------
(***************************************************************************)
(* What Seats promises of the turn barrier, proved for any table, any      *)
(* number of rounds, changes and failed judgments.                         *)
(***************************************************************************)
EXTENDS Seats, TLAPS

----------------------------------------------------------------------------
(***************************************************************************)
(* The queue of a seat.                                                    *)
(***************************************************************************)

LEMMA DeclaredFacts ==
    ASSUME NEW q \in Seq(Sources), NEW source \in Sources
    PROVE  /\ Declared(q, source) \in Seq(Sources)
           /\ Declared(q, source) # <<>>
           /\ 1 \in DOMAIN Declared(q, source)
           /\ Declared(q, source)[1] = source
           /\ Head(Declared(q, source)) = source
           /\ \A i \in DOMAIN Declared(q, source) :
                 i # 1 => i \in DOMAIN q /\ Declared(q, source)[i] = q[i]
<1>1. CASE q = <<>>
  BY <1>1 DEF Declared
<1>2. CASE q # <<>>
  <2>1. Len(q) >= 1
    BY <1>2
  <2> QED
    BY <1>2, <2>1 DEF Declared
<1> QED
  BY <1>1, <1>2

LEMMA QueuedFacts ==
    ASSUME NEW q \in Seq({"human"})
    PROVE  /\ q \in Seq(Sources) /\ Append(q, "human") \in Seq({"human"})
           /\ Append(q, "human") # <<>>
           /\ q # <<>> => Head(q) = "human"
<1>1. q \in Seq(Sources)
  BY DEF Sources
<1>2. Append(q, "human") \in Seq({"human"}) /\ Append(q, "human") # <<>>
  OBVIOUS
<1>3. q # <<>> => Head(q) = "human"
  OBVIOUS
<1> QED
  BY <1>1, <1>2, <1>3

----------------------------------------------------------------------------
(***************************************************************************)
(* Types.                                                                  *)
(***************************************************************************)

LEMMA InitTypes == Init => SeatsTypeOK
<1> SUFFICES ASSUME Init PROVE SeatsTypeOK
  OBVIOUS
<1>1. PICK mode \in [Seats -> Modes] :
         control = [s \in Seats |-> IF s \in players THEN [Default EXCEPT !.mode = mode[s]]
                                    ELSE Default]
  BY DEF Init
<1>2. \A s \in Seats : control[s] \in Control /\ ~control[s].temporary
  BY <1>1 DEF Default, Control, Modes
<1>3. task \in [Tasks -> [at : Stages, seat : Seats \cup {None}, todo : SUBSET Seats,
                          revision : Nat, round : 0..MaxRound]]
  BY BoundsAssumption DEF Init, Idle, Stages
<1>4. queue \in [Seats -> Seq(Sources)] /\ pending \in [Seats -> Seq({"human"})]
  BY DEF Init, NoActions
<1>5. \A t \in Tasks : task[t].at = "idle"
  BY DEF Init, Idle
<1>6. players \in (SUBSET Seats) \ {{}} /\ dead \subseteq Seats /\ away \subseteq Seats
      /\ ready \subseteq Seats
  BY DEF Init
<1>7. aiActs \in [Seats -> Nat] /\ round \in 1..MaxRound /\ tries \in 0..MaxTries
      /\ changes \in 0..MaxChanges
  BY BoundsAssumption DEF Init, NoneDone
<1>8. phase \in {"action", "judgment", "over"} /\ blocked \in BOOLEAN
  BY DEF Init
<1>9. control \in [Seats -> Control]
  BY <1>1, <1>2
<1> QED
  BY <1>2, <1>3, <1>4, <1>5, <1>6, <1>7, <1>8, <1>9 
     DEF SeatsTypeOK, SeatsShape, ActionsShape, CourseShape, TasksShape

LEMMA StageShape ==
    ASSUME TasksShape, NEW t \in Tasks, NEW stage \in Stages, At(t, stage),
           stage \in {"adding", "calling", "committing"} => task[t].seat \in Seats
    PROVE  TasksShape'
BY DEF TasksShape, At

LEMMA EndShape == ASSUME TasksShape, NEW t \in Tasks, Ends(t) PROVE TasksShape'
BY BoundsAssumption DEF TasksShape, Ends, Idle, Stages

\* A task is put to a stage for a seat.
LEMMA EntryShape ==
    ASSUME TasksShape, NEW t \in Tasks, NEW s \in Seats,
           task' = [task EXCEPT ![t] = [Idle EXCEPT !.at = "adding", !.seat = s]]
    PROVE  TasksShape'
<1> DEFINE R == [at : Stages, seat : Seats \cup {None}, todo : SUBSET Seats,
                 revision : Nat, round : 0..MaxRound]
<1>1. Idle \in R
  BY BoundsAssumption DEF Idle, Stages
<1>2. [Idle EXCEPT !.at = "adding", !.seat = s] \in R
  BY <1>1 DEF Stages
<1>3. [Idle EXCEPT !.at = "adding", !.seat = s].seat = s
  BY <1>1
<1> QED
  BY <1>2, <1>3 DEF TasksShape

LEMMA ControlShape ==
    ASSUME NEW c \in Control, c.temporary => c.mode = "ai", NEW mode \in Modes,
           NEW temporary \in BOOLEAN, temporary => mode = "ai"
    PROVE  /\ SetTo(c, mode, temporary) \in Control
           /\ SetTo(c, mode, temporary).temporary => SetTo(c, mode, temporary).mode = "ai"
           /\ SetTo(c, mode, temporary).mode = mode
           /\ SetTo(c, mode, temporary).temporary = temporary
           /\ SetTo(c, mode, temporary).revision >= c.revision
           /\ c.mode # mode => SetTo(c, mode, temporary).revision > c.revision
BY DEF SetTo, Control

\* An action is declared for a seat.
LEMMA QueueShape ==
    ASSUME ActionsShape, NEW s \in Seats, NEW source \in Sources,
           queue' = [queue EXCEPT ![s] = Declared(@, source)]
    PROVE  queue' \in [Seats -> Seq(Sources)]
BY DeclaredFacts DEF ActionsShape

\* The next round, or the same one again.
LEMMA RoundShape ==
    ASSUME ActionsShape, CourseShape, StartRound
    PROVE  /\ ActionsShape'
           /\ phase' \in {"action", "over"} /\ round' \in 1..MaxRound /\ tries' = 0
<1>1. queue' \in [Seats -> Seq(Sources)] /\ pending' \in [Seats -> Seq({"human"})]
  BY QueuedFacts DEF ActionsShape, StartRound, NoActions
<1>2. aiActs' \in [Seats -> Nat] /\ ready' \subseteq Seats
  BY DEF StartRound, NoneDone
<1>3. phase' \in {"action", "over"} /\ round' \in 1..MaxRound /\ tries' = 0
  BY BoundsAssumption DEF CourseShape, StartRound
<1> QED
  BY <1>1, <1>2, <1>3 DEF ActionsShape

\* The steps of a coroutine.
LEMMA StepTypes ==
    ASSUME SeatsTypeOK, NEW t \in Tasks, Step(t)
    PROVE  SeatsTypeOK'
<1> USE DEF SeatsTypeOK
<1>1. CASE Add(t)
  <2> DEFINE s == task[t].seat
  <2>1. s \in Seats
    BY <1>1 DEF Add, TasksShape
  <2>2. TasksShape'
    BY <1>1, <2>1, StageShape, EndShape DEF Add, Stages
  <2>3. SeatsShape'
    BY <1>1 DEF Add, SeatsShape, seats
  <2>4. CourseShape'
    BY <1>1 DEF Add, CourseShape, course
  <2>5. ActionsShape'
    <3>1. CASE UNCHANGED actions
      BY <3>1 DEF ActionsShape, actions
    <3>2. CASE queue' = [queue EXCEPT ![s] = Declared(@, "human")]
               /\ ready' = ready \cup {s} /\ UNCHANGED <<pending, aiActs>>
      BY <2>1, <3>2, QueueShape DEF ActionsShape, Sources
    <3>3. CASE pending' = [pending EXCEPT ![s] = Append(@, "human")]
               /\ UNCHANGED <<queue, ready, aiActs>>
      BY <2>1, <3>3, QueuedFacts DEF ActionsShape
    <3> QED
      BY <1>1, <3>1, <3>2, <3>3 DEF Add
  <2> QED
    BY <2>2, <2>3, <2>4, <2>5
<1>2. CASE Enter(t)
  <2>1. AISeats \subseteq Seats
    BY DEF SeatsShape, AISeats
  <2>2. PICK todo \in SUBSET Seats :
           task' = [task EXCEPT ![t] = [Idle EXCEPT !.at = "filling", !.todo = todo]]
    BY <1>2, <2>1 DEF Enter
  <2>3. TasksShape'
    <3> DEFINE R == [at : Stages, seat : Seats \cup {None}, todo : SUBSET Seats,
                     revision : Nat, round : 0..MaxRound]
    <3>1. Idle \in R
      BY BoundsAssumption DEF Idle, Stages
    <3>2. [Idle EXCEPT !.at = "filling", !.todo = todo] \in R
      BY <3>1 DEF Stages
    <3>3. [Idle EXCEPT !.at = "filling", !.todo = todo].at = "filling"
      BY <3>1
    <3> QED
      BY <2>2, <3>2, <3>3 DEF TasksShape
  <2> QED
    BY <1>2, <2>3
       DEF Enter, seats, actions, course, SeatsShape, ActionsShape, CourseShape
<1>3. CASE \E s \in Seats : AskModel(t, s)
  <2>1. PICK s \in Seats : AskModel(t, s)
    BY <1>3
  <2>2. control[s].revision \in Nat /\ round \in 0..MaxRound /\ task[t].todo \ {s} \subseteq Seats
    BY BoundsAssumption DEF SeatsShape, Control, CourseShape, TasksShape
  <2>3. TasksShape'
    BY <2>1, <2>2 DEF AskModel, TasksShape, Stages
  <2> QED
    BY <2>1, <2>3
       DEF AskModel, seats, actions, course, SeatsShape, ActionsShape, CourseShape
<1>4. CASE ModelAnswers(t) \/ ModelFails(t)
  <2>1. task[t].seat \in Seats
    BY <1>4 DEF ModelAnswers, ModelFails, TasksShape
  <2>2. TasksShape'
    BY <1>4, <2>1, StageShape DEF ModelAnswers, ModelFails, Stages
  <2> QED
    BY <1>4, <2>2 DEF ModelAnswers, ModelFails, seats, actions, course, SeatsShape,
                      ActionsShape, CourseShape
<1>5. CASE Commit(t)
  <2> DEFINE s == task[t].seat
  <2>1. s \in Seats
    BY <1>5 DEF Commit, TasksShape
  <2>2. TasksShape'
    BY <1>5, StageShape DEF Commit, Stages
  <2>3. SeatsShape' /\ CourseShape'
    BY <1>5 DEF Commit, SeatsShape, seats, CourseShape, course
  <2>4. ActionsShape'
    <3>1. CASE UNCHANGED actions
      BY <3>1 DEF ActionsShape, actions
    <3>2. CASE Current(t)
      <4>1. queue' \in [Seats -> Seq(Sources)]
        BY <1>5, <2>1, <3>2, QueueShape DEF Commit, Sources
      <4>2. aiActs' \in [Seats -> Nat]
        <5>1. aiActs' = [aiActs EXCEPT ![s] = aiActs[s] + 1]
          BY <1>5, <3>2 DEF Commit
        <5>2. aiActs[s] + 1 \in Nat
          BY <2>1 DEF ActionsShape
        <5> QED
          BY <5>1, <5>2 DEF ActionsShape
      <4>3. ready' \subseteq Seats /\ pending' = pending
        BY <1>5, <2>1, <3>2 DEF Commit, ActionsShape
      <4> QED
        BY <4>1, <4>2, <4>3 DEF ActionsShape
    <3> QED
      BY <1>5, <3>1, <3>2 DEF Commit
  <2> QED
    BY <2>2, <2>3, <2>4
<1>6. CASE TryAdvance(t)
  <2>1. TasksShape'
    BY <1>6, EndShape, BoundsAssumption DEF TryAdvance, TasksShape, Idle, Stages
  <2>2. SeatsShape'
    BY <1>6 DEF TryAdvance, DoAdvance, SeatsShape, seats
  <2>3. ActionsShape' /\ CourseShape'
    BY <1>6 DEF TryAdvance, DoAdvance, ActionsShape, CourseShape, SeatsShape, Alive,
                actions, course
  <2> QED
    BY <2>1, <2>2, <2>3
<1>7. CASE Judge(t)
  <2>1. TasksShape'
    BY <1>7, StageShape, EndShape DEF Judge, Stages
  <2> QED
    BY <1>7, <2>1
       DEF Judge, seats, actions, course, SeatsShape, ActionsShape, CourseShape
<1>8. CASE Finish(t)
  <2>1. TasksShape'
    BY <1>8, EndShape DEF Finish
  <2>2. ActionsShape' /\ phase' \in {"action", "over"} /\ round' \in 1..MaxRound /\ tries' = 0
    BY <1>8, RoundShape DEF Finish
  <2>3. SeatsShape'
    BY <1>8 DEF Finish, SeatsShape, Alive
  <2>4. blocked' \in BOOLEAN
    BY <1>8 DEF Finish, CourseShape
  <2>5. changes' \in 0..MaxChanges
    BY <1>8, BoundsAssumption DEF Finish, CourseShape, Change
  <2>6. CourseShape'
    BY <2>2, <2>4, <2>5, BoundsAssumption DEF CourseShape
  <2> QED
    BY <2>1, <2>2, <2>3, <2>6
<1>9. CASE Abort(t)
  <2>1. TasksShape'
    BY <1>9, EndShape DEF Abort
  <2>2. CourseShape'
    BY <1>9, BoundsAssumption DEF Abort, CourseShape
  <2> QED
    BY <1>9, <2>1, <2>2 DEF Abort, seats, actions, SeatsShape, ActionsShape
<1> QED
  BY <1>1, <1>2, <1>3, <1>4, <1>5, <1>6, <1>7, <1>8, <1>9 DEF Step

\* What the players and the GM ask for during a round.
LEMMA RoundTypes ==
    ASSUME SeatsTypeOK,
           \/ \E t \in Tasks : Continue(t)
           \/ \E t \in Tasks, s \in Seats : Submit(t, s)
           \/ \E t \in Ungated : ResumeCreated(t)
           \/ PressAdvance \/ ForceAdvance \/ Settle \/ Rollback
           \/ \E s \in Seats : Retry(s)
    PROVE  SeatsTypeOK'
<1> USE DEF SeatsTypeOK
<1>0. Web \in Tasks /\ Ungated \subseteq Tasks
  BY DEF Tasks
<1>1. ASSUME NEW t \in Tasks, Continue(t) \/ ResumeCreated(t)
      PROVE  SeatsTypeOK'
  <2>1. TasksShape'
    BY <1>1, StageShape DEF Continue, ResumeCreated, Stages
  <2> QED
    BY <1>1, <2>1 DEF Continue, ResumeCreated, seats, actions, course,
                      SeatsShape, ActionsShape, CourseShape
<1>2. ASSUME NEW t \in Tasks, NEW s \in Seats, Submit(t, s)
      PROVE  SeatsTypeOK'
  <2>1. TasksShape'
    BY <1>2, EntryShape DEF Submit
  <2> QED
    BY <1>2, <2>1 DEF Submit, seats, actions, course, SeatsShape, ActionsShape, CourseShape
<1>3. CASE PressAdvance \/ \E s \in Seats : Retry(s)
  <2>1. TasksShape'
    BY <1>0, <1>3, StageShape DEF PressAdvance, Retry, Stages
  <2> QED
    BY <1>3, <2>1 DEF PressAdvance, Retry, seats, actions, course,
                      SeatsShape, ActionsShape, CourseShape
<1>4. CASE ForceAdvance
  <2>1. Humans \subseteq Seats /\ Alive \subseteq Seats
    BY DEF Humans, Here, Alive, SeatsShape
  <2>2. PICK waiting \in SUBSET Seats :
           queue' = [s \in Seats |-> IF s \in waiting THEN Declared(queue[s], "wait")
                                     ELSE queue[s]]
    BY <1>4, <2>1 DEF ForceAdvance
  <2>3. queue' \in [Seats -> Seq(Sources)]
    <3>1. \A s \in Seats : Declared(queue[s], "wait") \in Seq(Sources)
      BY DeclaredFacts DEF ActionsShape, Sources
    <3> QED
      BY <2>2, <3>1 DEF ActionsShape
  <2>4. /\ At(Web, "judging") /\ UNCHANGED <<seats, pending, aiActs, round, blocked, tries, changes>>
        /\ phase' = "judgment" /\ ready' = ready \cup Alive
    BY <1>4 DEF ForceAdvance
  <2>5. ActionsShape'
    BY <2>1, <2>3, <2>4 DEF ActionsShape
  <2>6. TasksShape'
    BY <1>0, <2>4, StageShape DEF Stages
  <2> QED
    BY <2>4, <2>5, <2>6 DEF seats, SeatsShape, CourseShape
<1>5. CASE Settle
  <2>1. SeatsShape' /\ ActionsShape' /\ TasksShape'
    BY <1>5 DEF Settle, seats, actions, SeatsShape, ActionsShape, TasksShape
  <2>2. CourseShape'
    BY <1>5 DEF Settle, CourseShape
  <2> QED
    BY <2>1, <2>2
<1>6. CASE Rollback
  <2>1. SeatsShape' /\ TasksShape'
    BY <1>6 DEF Rollback, seats, SeatsShape, TasksShape
  <2>2. ActionsShape'
    BY <1>6 DEF Rollback, ActionsShape, NoActions, NoneDone
  <2>3. CourseShape'
    BY <1>6, BoundsAssumption DEF Rollback, CourseShape, Change
  <2> QED
    BY <2>1, <2>2, <2>3
<1> QED
  BY <1>0, <1>1, <1>2, <1>3, <1>4, <1>5, <1>6

\* What changes who plays a seat.
LEMMA HandTypes ==
    ASSUME SeatsTypeOK, NEW s \in Seats,
           \/ \E t \in Tasks, mode \in {"human", "ai"} : SetControl(t, s, mode)
           \/ ReturnToSeat(s) \/ Claim(s) \/ Remove(s)
           \/ \E handover \in BOOLEAN : LeaveSeat(s, handover)
    PROVE  SeatsTypeOK'
<1> USE DEF SeatsTypeOK
<1>0. /\ Web \in Tasks
      /\ control[s] \in Control /\ (control[s].temporary => control[s].mode = "ai")
  BY DEF Tasks, SeatsShape
<1>1. ASSUME NEW t \in Tasks, NEW mode \in {"human", "ai"}, SetControl(t, s, mode)
      PROVE  SeatsTypeOK'
  <2>1. TasksShape'
    BY <1>1, StageShape DEF SetControl, Stages, TasksShape
  <2>2. SeatsShape'
    <3>1. /\ SetTo(control[s], mode, FALSE) \in Control
          /\ ~SetTo(control[s], mode, FALSE).temporary
      BY <1>0, ControlShape DEF Modes
    <3> QED
      BY <1>1, <3>1 DEF SetControl, SeatsShape
  <2>3. ActionsShape' /\ CourseShape'
    BY <1>1, BoundsAssumption
       DEF SetControl, actions, course, ActionsShape, CourseShape, Change
  <2> QED
    BY <2>1, <2>2, <2>3
<1>2. CASE ReturnToSeat(s)
  <2>1. SeatsShape'
    <3>1. /\ SetTo(control[s], "human", FALSE) \in Control
          /\ ~SetTo(control[s], "human", FALSE).temporary
      BY <1>0, ControlShape DEF Modes
    <3> QED
      BY <1>2, <3>1 DEF ReturnToSeat, SeatsShape
  <2> QED
    BY <1>2, <2>1, BoundsAssumption
       DEF ReturnToSeat, actions, course, ActionsShape, CourseShape, TasksShape, Change
<1>3. CASE Claim(s)
  <2>1. SeatsShape'
    <3>1. /\ SetTo(control[s], "human", FALSE) \in Control
          /\ ~SetTo(control[s], "human", FALSE).temporary
      BY <1>0, ControlShape DEF Modes
    <3>2. Default \in Control /\ ~Default.temporary
      BY DEF Default, Control, Modes
    <3> QED
      BY <1>3, <3>1, <3>2 DEF Claim, SeatsShape
  <2> QED
    BY <1>3, <2>1, BoundsAssumption
       DEF Claim, actions, course, ActionsShape, CourseShape, TasksShape, Change
<1>4. CASE Remove(s)
  <2>1. SeatsShape'
    BY <1>4 DEF Remove, SeatsShape
  <2>2. ActionsShape'
    BY <1>4 DEF Remove, ActionsShape
  <2> QED
    BY <1>4, <2>1, <2>2, BoundsAssumption
       DEF Remove, course, CourseShape, TasksShape, Change
<1>5. ASSUME NEW handover \in BOOLEAN, LeaveSeat(s, handover)
      PROVE  SeatsTypeOK'
  <2>1. SeatsShape'
    <3>1. /\ SetTo(control[s], "ai", TRUE) \in Control
          /\ SetTo(control[s], "ai", TRUE).mode = "ai"
      BY <1>0, ControlShape DEF Modes
    <3> QED
      BY <1>5, <3>1 DEF LeaveSeat, SeatsShape
  <2>2. TasksShape'
    BY <1>0, <1>5, StageShape DEF LeaveSeat, Stages, TasksShape
  <2>3. ActionsShape' /\ CourseShape'
    BY <1>5, BoundsAssumption
       DEF LeaveSeat, course, ActionsShape, CourseShape, Change
  <2> QED
    BY <2>1, <2>2, <2>3
<1> QED
  BY <1>1, <1>2, <1>3, <1>4, <1>5

LEMMA NextTypes == SeatsTypeOK /\ [Next]_vars => SeatsTypeOK'
<1> SUFFICES ASSUME SeatsTypeOK, [Next]_vars PROVE SeatsTypeOK'
  OBVIOUS
<1>1. CASE \E t \in Tasks : Step(t)
  BY <1>1, StepTypes
<1>2. CASE Table
  BY <1>2, RoundTypes, HandTypes DEF Table
<1>3. CASE UNCHANGED vars
  BY <1>3 DEF vars, seats, actions, course, SeatsTypeOK, SeatsShape, ActionsShape,
              CourseShape, TasksShape
<1> QED
  BY <1>1, <1>2, <1>3 DEF Next

\* The shape of the table, of its queue and of what coroutines have in hand.
THEOREM SeatsTypes == Spec => []SeatsTypeOK
BY InitTypes, NextTypes, PTL DEF Spec

----------------------------------------------------------------------------
(***************************************************************************)
(* Whom the round waits for.                                               *)
(***************************************************************************)

\* In a round that was not judged yet, who is ready has declared something.
\* After a failed judgment this is lost: everyone alive then is ready.
Acted == tries = 0 /\ phase = "action" => \A s \in ready : Declares(queue[s], s)

\* The steps that leave the round and its actions alone.
Quiet ==
    \/ \E t \in Tasks : \/ Enter(t) \/ ModelAnswers(t) \/ ModelFails(t) \/ Judge(t)
                        \/ Continue(t) \/ ResumeCreated(t)
                        \/ \E s \in Seats : \/ AskModel(t, s) \/ Submit(t, s)
                                            \/ \E mode \in {"human", "ai"} :
                                                  SetControl(t, s, mode)
    \/ PressAdvance \/ Settle
    \/ \E s \in Seats : Retry(s) \/ ReturnToSeat(s) \/ Claim(s)

LEMMA QuietSteps == Quiet => UNCHANGED <<ready, queue, pending, aiActs, phase, round, tries>>
BY DEF Quiet, Enter, ModelAnswers, ModelFails, Judge, Continue, ResumeCreated, AskModel,
       Submit, SetControl, PressAdvance, Settle, Retry, ReturnToSeat, Claim, actions, course

\* All steps but these.
Acting ==
    \/ \E t \in Tasks : Add(t) \/ Commit(t) \/ TryAdvance(t) \/ Finish(t) \/ Abort(t)
    \/ ForceAdvance \/ Rollback
    \/ \E s \in Seats : Remove(s) \/ \E handover \in BOOLEAN : LeaveSeat(s, handover)

LEMMA StepsAre == [Next]_vars => Quiet \/ Acting \/ UNCHANGED vars
<1> SUFFICES ASSUME Next PROVE Quiet \/ Acting
  OBVIOUS
<1>1. Ungated \subseteq Tasks
  BY DEF Tasks
<1>2. ASSUME NEW t \in Tasks, Step(t) PROVE Quiet \/ Acting
  BY <1>2 DEF Step, Quiet, Acting
<1>3. ASSUME Table PROVE Quiet \/ Acting
  BY <1>1, <1>3 DEF Table, Quiet, Acting
<1> QED
  BY <1>2, <1>3 DEF Next

\* What an action declared for a seat does to the queue.
LEMMA AddQueues ==
    ASSUME SeatsTypeOK, NEW t \in Tasks, Add(t)
    PROVE  LET s == task[t].seat
           IN  /\ s \in Seats /\ UNCHANGED <<players, control, aiActs, course>>
               /\ \/ UNCHANGED <<ready, queue, pending>>
                  \/ /\ phase = "action" /\ UNCHANGED pending
                     /\ ready' = ready \cup {s}
                     /\ queue' = [queue EXCEPT ![s] = Declared(@, "human")]
                  \/ /\ phase # "action" /\ UNCHANGED <<ready, queue>>
                     /\ pending' = [pending EXCEPT ![s] = Append(@, "human")]
<1>1. task[t].seat \in Seats
  BY DEF Add, SeatsTypeOK, TasksShape
<1> QED
  BY <1>1 DEF Add, seats, actions

LEMMA CommitQueues ==
    ASSUME SeatsTypeOK, NEW t \in Tasks, Commit(t)
    PROVE  LET s == task[t].seat
           IN  /\ s \in Seats /\ UNCHANGED <<players, control, pending, course>>
               /\ \/ UNCHANGED <<ready, queue, aiActs>>
                  \/ /\ Current(t)
                     /\ ready' = ready \cup {s}
                     /\ queue' = [queue EXCEPT ![s] = Declared(@, "ai")]
                     /\ aiActs' = [aiActs EXCEPT ![s] = @ + 1]
<1>1. task[t].seat \in Seats
  BY DEF Commit, SeatsTypeOK, TasksShape
<1> QED
  BY <1>1 DEF Commit, seats, actions

LEMMA NextActed == SeatsTypeOK /\ Acted /\ [Next]_vars => Acted'
<1> SUFFICES ASSUME SeatsTypeOK, Acted, [Next]_vars PROVE Acted'
  OBVIOUS
<1>1. CASE Quiet \/ UNCHANGED vars
  BY <1>1, QuietSteps DEF Acted, Declares, vars, actions, course
<1>2. ASSUME NEW t \in Tasks, Add(t) \/ Commit(t) PROVE Acted'
  <2>1. ASSUME UNCHANGED <<ready, queue, aiActs, phase, tries>> PROVE Acted'
    BY <2>1 DEF Acted, Declares
  <2>2. ASSUME NEW s \in Seats, NEW source \in {"human", "ai"}, UNCHANGED <<phase, tries>>,
               ready' = ready \cup {s},
               queue' = [queue EXCEPT ![s] = Declared(@, source)],
               aiActs' = IF source = "ai" THEN [aiActs EXCEPT ![s] = @ + 1] ELSE aiActs
        PROVE  Acted'
    <3>1. ASSUME NEW r \in ready, r # s, Declares(queue[r], r) PROVE Declares(queue[r], r)'
      <4>1. queue'[r] = queue[r] /\ aiActs'[r] = aiActs[r]
        BY <2>2, <3>1 DEF SeatsTypeOK, ActionsShape
      <4> QED
        BY <3>1, <4>1 DEF Declares
    <3>2. Declares(queue[s], s)'
      <4>1. queue'[s] = Declared(queue[s], source)
        BY <2>2 DEF SeatsTypeOK, ActionsShape
      <4>2. Declared(queue[s], source) # <<>> /\ 1 \in DOMAIN Declared(queue[s], source)
              /\ Declared(queue[s], source)[1] = source
        BY DeclaredFacts DEF SeatsTypeOK, ActionsShape, Sources
      <4>3. source = "ai" => aiActs'[s] # 0
        BY <2>2 DEF SeatsTypeOK, ActionsShape
      <4> QED
        BY <4>1, <4>2, <4>3 DEF Declares
    <3> QED
      BY <2>2, <3>1, <3>2 DEF Acted
  <2>3. UNCHANGED <<phase, tries>>
    BY <1>2, AddQueues, CommitQueues DEF course
  <2>4. CASE Add(t)
    BY <2>1, <2>2, <2>3, <2>4, AddQueues
  <2>5. CASE Commit(t)
    BY <2>1, <2>2, <2>3, <2>5, CommitQueues
  <2> QED
    BY <1>2, <2>4, <2>5
<1>3. ASSUME NEW t \in Tasks, TryAdvance(t) PROVE Acted'
  BY <1>3 DEF TryAdvance, DoAdvance, Acted, Declares, actions, course
<1>4. ASSUME NEW t \in Tasks, Finish(t) PROVE Acted'
  BY <1>4 DEF Finish, StartRound, Acted
<1>5. ASSUME NEW t \in Tasks, Abort(t) PROVE Acted'
  BY <1>5 DEF Abort, Acted, SeatsTypeOK, CourseShape
<1>6. CASE ForceAdvance
  BY <1>6 DEF ForceAdvance, Acted
<1>7. CASE Rollback
  BY <1>7 DEF Rollback, Acted
<1>8. ASSUME NEW s \in Seats, Remove(s) PROVE Acted'
  BY <1>8 DEF Remove, Acted, Declares, SeatsTypeOK, ActionsShape, course
<1>9. ASSUME NEW s \in Seats, NEW handover \in BOOLEAN, LeaveSeat(s, handover) PROVE Acted'
  BY <1>9 DEF LeaveSeat, Acted, Declares, course
<1> QED
  BY <1>1, <1>2, <1>3, <1>4, <1>5, <1>6, <1>7, <1>8, <1>9, StepsAre DEF Acting

LEMMA NextWaits ==
    SeatsTypeOK /\ Acted /\ [Next]_vars
        => (phase = "action" /\ phase' = "judgment" /\ tries = 0
               => \A s \in Humans : Declares(queue'[s], s))
<1> SUFFICES ASSUME SeatsTypeOK, Acted, [Next]_vars,
                    phase = "action", phase' = "judgment", tries = 0,
                    NEW s \in Humans
             PROVE  Declares(queue'[s], s)
  OBVIOUS
<1>0. s \in Seats /\ \A r \in ready : Declares(queue[r], r)
  BY DEF Humans, Here, Alive, SeatsTypeOK, SeatsShape, Acted
<1>1. CASE Quiet \/ UNCHANGED vars
  BY <1>1, QuietSteps DEF vars, course
<1>2. ASSUME NEW t \in Tasks, Add(t) \/ Commit(t) PROVE FALSE
  BY <1>2, AddQueues, CommitQueues DEF course
<1>3. ASSUME NEW t \in Tasks, TryAdvance(t) PROVE Declares(queue'[s], s)
  <2>1. ShouldAdvance /\ queue' = queue
    BY <1>3 DEF TryAdvance, DoAdvance, actions, course
  <2> QED
    BY <1>0, <2>1 DEF ShouldAdvance
<1>4. ASSUME NEW t \in Tasks, Finish(t) \/ Abort(t) PROVE FALSE
  BY <1>4 DEF Finish, StartRound, Abort
<1>5. CASE ForceAdvance
  <2> DEFINE waiting == IF ShouldAdvance THEN {} ELSE Humans \ ready
  <2>1. queue' = [r \in Seats |-> IF r \in waiting THEN Declared(queue[r], "wait")
                                  ELSE queue[r]]
    BY <1>5 DEF ForceAdvance
  <2>2. s \in waiting \/ s \in ready
    BY DEF ShouldAdvance
  <2>3. Declares(Declared(queue[s], "wait"), s)
    BY <1>0, DeclaredFacts DEF Declares, SeatsTypeOK, ActionsShape, Sources
  <2> HIDE DEF waiting
  <2> QED
    BY <1>0, <2>1, <2>2, <2>3
<1>6. CASE Rollback
  BY <1>6 DEF Rollback
<1>7. ASSUME NEW r \in Seats, Remove(r) \/ \E handover \in BOOLEAN : LeaveSeat(r, handover)
      PROVE  FALSE
  BY <1>7 DEF Remove, LeaveSeat, course
<1> QED
  BY <1>1, <1>2, <1>3, <1>4, <1>5, <1>6, <1>7, StepsAre DEF Acting

LEMMA NextActsLast ==
    SeatsTypeOK /\ Acted /\ [Next]_vars
        => \A s \in Seats : tries = 0 /\ aiActs'[s] > aiActs[s]
                                => \A h \in Humans : Declares(queue[h], h)
<1> SUFFICES ASSUME SeatsTypeOK, Acted, [Next]_vars, NEW s \in Seats,
                    tries = 0, aiActs'[s] > aiActs[s], NEW h \in Humans
             PROVE  Declares(queue[h], h)
  OBVIOUS
<1>0. aiActs[s] \in Nat
  BY DEF SeatsTypeOK, ActionsShape
<1>1. CASE Quiet \/ UNCHANGED vars
  BY <1>0, <1>1, QuietSteps DEF vars, actions
<1>2. ASSUME NEW t \in Tasks, Add(t) PROVE FALSE
  BY <1>0, <1>2, AddQueues
<1>3. ASSUME NEW t \in Tasks, Commit(t) PROVE Declares(queue[h], h)
  <2>1. Current(t)
    BY <1>0, <1>3, CommitQueues
  <2> QED
    BY <2>1 DEF Current, Acted
<1>4. ASSUME NEW t \in Tasks, TryAdvance(t) \/ Finish(t) \/ Abort(t) PROVE FALSE
  BY <1>0, <1>4 DEF TryAdvance, DoAdvance, Finish, StartRound, Abort, actions, NoneDone
<1>5. CASE ForceAdvance \/ Rollback
  BY <1>0, <1>5 DEF ForceAdvance, Rollback, NoneDone
<1>6. ASSUME NEW r \in Seats, Remove(r) \/ \E handover \in BOOLEAN : LeaveSeat(r, handover)
      PROVE  FALSE
  <2>1. aiActs'[s] \in {0, aiActs[s]}
    BY <1>6 DEF Remove, LeaveSeat, SeatsTypeOK, ActionsShape
  <2> QED
    BY <1>0, <2>1
<1> QED
  BY <1>1, <1>2, <1>3, <1>4, <1>5, <1>6, StepsAre DEF Acting

LEMMA InitActed == Init => Acted
BY DEF Init, Acted

\* A round is judged for the first time with an action for the seat of every
\* human who is here, and not the AI's unless it played the seat before the
\* human did, whatever coroutines enter the boundary, are refused or fail.
THEOREM HumansAreWaitedFor == Spec => FirstAttemptWaits
BY InitTypes, NextTypes, InitActed, NextActed, NextWaits, PTL DEF Spec, FirstAttemptWaits

\* No answer of the model is written in a round not judged yet before every
\* human who is here has acted, whoever came or came back while it was under
\* way, but for those whose seat the AI had already played in the round.
THEOREM AIWaitsForHumans == Spec => AIActsLast
BY InitTypes, NextTypes, InitActed, NextActed, NextActsLast, PTL DEF Spec, AIActsLast

----------------------------------------------------------------------------
(***************************************************************************)
(* Answers that come late.  An answer of the model is written only under   *)
(* the revision of the control it was asked for, and this is enough as     *)
(* long as no revision comes back and only one coroutine outside the gate  *)
(* is at work.  SeatsRecreated.cfg and SeatsTwoAgents.cfg show that both   *)
(* are needed.                                                             *)
(***************************************************************************)

OneAgent == \A t, u \in Ungated : t = u

NoHuman(q) == \A i \in DOMAIN q : q[i] # "human"
HasAI(q)   == \E i \in DOMAIN q : q[i] = "ai"

ActsQueued == \A s \in Seats : aiActs[s] > 0 => queue[s] # <<>>
OverIsLast == phase = "over" => round = MaxRound

\* While a request of the client waits to write, nobody takes the seat away.
WebAdds ==
    task[Web].at = "adding" =>
        /\ task[Web].seat \in players
        /\ control[task[Web].seat].mode = "human"

\* The model was asked, and what it was asked for still stands.
Asked(t) == task[t].at \in {"calling", "committing"}
Stands(t) ==
    LET s == task[t].seat
    IN  /\ Asked(t) /\ s \in players /\ control[s].mode = "ai"
        /\ control[s].revision = task[t].revision

AskedBefore == \A t \in Tasks : Asked(t) => task[t].revision <= control[task[t].seat].revision

\* As long as it does, no human acts for the seat: in the round of the
\* question, or in one before it to which a rollback went.
Unanswered(s, asked) ==
    /\ round = asked => NoHuman(queue[s]) /\ (aiActs[s] > 0 => HasAI(queue[s]))
    /\ round < asked => NoHuman(queue[s]) /\ pending[s] = <<>>

InFlight ==
    \A t \in Tasks : Stands(t) /\ phase # "over" => Unanswered(task[t].seat, task[t].round)

Answers == ActsQueued /\ OverIsLast /\ WebAdds /\ AskedBefore /\ InFlight /\ OneAIAction

LEMMA InitAnswers == Init => Answers
BY DEF Init, Answers, ActsQueued, OverIsLast, WebAdds, AskedBefore, InFlight, Stands, Asked,
       OneAIAction, NoneDone, Idle, Tasks

LEMMA NextQueued == SeatsTypeOK /\ ActsQueued /\ [Next]_vars => ActsQueued'
<1> SUFFICES ASSUME SeatsTypeOK, ActsQueued, [Next]_vars PROVE ActsQueued'
  OBVIOUS
<1>1. CASE Quiet \/ UNCHANGED vars
  BY <1>1, QuietSteps DEF ActsQueued, vars, actions
<1>2. ASSUME NEW t \in Tasks, Add(t) \/ Commit(t) PROVE ActsQueued'
  <2>1. PICK s \in Seats, source \in Sources :
           /\ \A r \in Seats : r # s => queue'[r] = queue[r] /\ aiActs'[r] = aiActs[r]
           /\ \/ queue'[s] = queue[s] /\ aiActs'[s] = aiActs[s]
              \/ queue'[s] = Declared(queue[s], source)
    <3>1. CASE Add(t)
      BY <3>1, AddQueues DEF Sources, SeatsTypeOK, ActionsShape
    <3>2. CASE Commit(t)
      BY <3>2, CommitQueues DEF Sources, SeatsTypeOK, ActionsShape
    <3> QED
      BY <1>2, <3>1, <3>2
  <2>2. Declared(queue[s], source) # <<>>
    BY DeclaredFacts DEF SeatsTypeOK, ActionsShape
  <2> QED
    BY <2>1, <2>2 DEF ActsQueued
<1>3. ASSUME NEW t \in Tasks, TryAdvance(t) \/ Abort(t) PROVE ActsQueued'
  BY <1>3 DEF TryAdvance, DoAdvance, Abort, ActsQueued, actions
<1>4. ASSUME NEW t \in Tasks, Finish(t) PROVE ActsQueued'
  BY <1>4 DEF Finish, StartRound, ActsQueued, NoneDone
<1>5. CASE ForceAdvance
  <2>1. PICK waiting :
           queue' = [r \in Seats |-> IF r \in waiting THEN Declared(queue[r], "wait")
                                     ELSE queue[r]]
    BY <1>5 DEF ForceAdvance
  <2>2. \A r \in Seats : Declared(queue[r], "wait") # <<>>
    BY DeclaredFacts DEF SeatsTypeOK, ActionsShape, Sources
  <2>3. aiActs' = aiActs
    BY <1>5 DEF ForceAdvance
  <2> QED
    BY <2>1, <2>2, <2>3 DEF ActsQueued
<1>6. CASE Rollback
  BY <1>6 DEF Rollback, ActsQueued, NoneDone
<1>7. ASSUME NEW s \in Seats, Remove(s) PROVE ActsQueued'
  BY <1>7 DEF Remove, ActsQueued, SeatsTypeOK, ActionsShape
<1>8. ASSUME NEW s \in Seats, NEW handover \in BOOLEAN, LeaveSeat(s, handover)
      PROVE  ActsQueued'
  BY <1>8 DEF LeaveSeat, ActsQueued
<1> QED
  BY <1>1, <1>2, <1>3, <1>4, <1>5, <1>6, <1>7, <1>8, StepsAre DEF Acting

LEMMA NextOver ==
    SeatsTypeOK /\ OverIsLast /\ [Next]_vars
        => OverIsLast' /\ (phase' # "over" => phase # "over")
<1> SUFFICES ASSUME SeatsTypeOK, OverIsLast, [Next]_vars
             PROVE  OverIsLast' /\ (phase' # "over" => phase # "over")
  OBVIOUS
<1>1. CASE Quiet \/ UNCHANGED vars
  BY <1>1, QuietSteps DEF OverIsLast, vars, course
<1>2. ASSUME NEW t \in Tasks, Add(t) \/ Commit(t)
      PROVE  UNCHANGED <<phase, round>>
  BY <1>2, AddQueues, CommitQueues DEF course
<1>3. ASSUME NEW t \in Tasks, TryAdvance(t) \/ Abort(t)
      PROVE  OverIsLast' /\ (phase' # "over" => phase # "over")
  BY <1>3 DEF TryAdvance, DoAdvance, Abort, OverIsLast, course
<1>4. ASSUME NEW t \in Tasks, Finish(t)
      PROVE  OverIsLast' /\ (phase' # "over" => phase # "over")
  BY <1>4 DEF Finish, StartRound, OverIsLast
<1>5. CASE ForceAdvance \/ Rollback
  BY <1>5 DEF ForceAdvance, Rollback, OverIsLast
<1>6. ASSUME NEW s \in Seats, Remove(s) \/ \E handover \in BOOLEAN : LeaveSeat(s, handover)
      PROVE  UNCHANGED <<phase, round>>
  BY <1>6 DEF Remove, LeaveSeat, course
<1> QED
  BY <1>1, <1>2, <1>3, <1>4, <1>5, <1>6, StepsAre DEF Acting, OverIsLast

\* What a step does to what a coroutine has in hand.
LEMMA TaskSteps ==
    ASSUME SeatsTypeOK, [Next]_vars, NEW u \in Tasks
    PROVE  \/ task'[u] = task[u]
           \/ task'[u].at \notin {"adding", "calling", "committing"}
           \/ \E s \in Seats : Submit(u, s)
           \/ \E s \in Seats : AskModel(u, s)
           \/ Asked(u) /\ UNCHANGED <<players, control>>
                /\ \E stage \in {"filling", "committing"} :
                         task'[u] = [task[u] EXCEPT !.at = stage]
<1> DEFINE Free(t) == /\ \A v \in Tasks : v # t => task'[v] = task[v]
                      /\ \/ task'[t] = task[t]
                         \/ task'[t].at \notin {"adding", "calling", "committing"}
<1>0. task \in [Tasks -> [at : Stages, seat : Seats \cup {None}, todo : SUBSET Seats,
                          revision : Nat, round : 0..MaxRound]]
  BY DEF SeatsTypeOK, TasksShape
<1>1. Web \in Tasks /\ Ungated \subseteq Tasks
  BY DEF Tasks
<1>2. ASSUME NEW t \in Tasks, NEW stage, stage \notin {"adding", "calling", "committing"},
             At(t, stage)
      PROVE  Free(t)
  BY <1>0, <1>2 DEF At
<1>3. ASSUME NEW t \in Tasks, Ends(t) PROVE Free(t)
  BY <1>0, <1>3 DEF Ends, Idle
<1>4. ASSUME NEW t \in Tasks, UNCHANGED task PROVE Free(t)
  BY <1>4
<1>5. ASSUME NEW t \in Tasks,
             \/ Add(t) \/ Commit(t) \/ Judge(t) \/ Finish(t) \/ Abort(t) \/ Continue(t)
             \/ ResumeCreated(t)
      PROVE  Free(t)
  BY <1>2, <1>3, <1>5 DEF Add, Commit, Judge, Finish, Abort, Continue, ResumeCreated
<1>6. ASSUME NEW t \in Tasks, NEW s \in Seats, NEW mode \in {"human", "ai"},
             SetControl(t, s, mode)
      PROVE  Free(t)
  BY <1>2, <1>4, <1>6 DEF SetControl
<1>7. ASSUME NEW s \in Seats,
             \/ Retry(s) \/ ReturnToSeat(s) \/ Claim(s) \/ Remove(s)
             \/ \E handover \in BOOLEAN : LeaveSeat(s, handover)
      PROVE  Free(Web)
  BY <1>1, <1>2, <1>4, <1>7 DEF Retry, ReturnToSeat, Claim, Remove, LeaveSeat
<1>8. ASSUME PressAdvance \/ ForceAdvance \/ Settle \/ Rollback PROVE Free(Web)
  BY <1>1, <1>2, <1>4, <1>8 DEF PressAdvance, ForceAdvance, Settle, Rollback
<1>9. ASSUME NEW t \in Tasks, TryAdvance(t) \/ Enter(t) PROVE Free(t)
  <2>1. \/ Ends(t)
        \/ \E todo : task' = [task EXCEPT ![t] = [Idle EXCEPT !.at = "filling", !.todo = todo]]
        \/ task' = [task EXCEPT ![t] = [Idle EXCEPT !.at = "judging"]]
    BY <1>9 DEF TryAdvance, Enter
  <2>2. \A todo : [Idle EXCEPT !.at = "filling", !.todo = todo].at = "filling"
    BY DEF Idle
  <2>3. [Idle EXCEPT !.at = "judging"].at = "judging"
    BY DEF Idle
  <2> QED
    BY <1>0, <1>3, <2>1, <2>2, <2>3
<1>10. ASSUME NEW t \in Tasks, NEW s \in Seats, AskModel(t, s) \/ Submit(t, s), t # u
       PROVE  task'[u] = task[u]
  BY <1>0, <1>10 DEF AskModel, Submit
<1>11. ASSUME NEW t \in Tasks, ModelAnswers(t) \/ ModelFails(t)
       PROVE  \/ task'[u] = task[u]
              \/ Asked(u) /\ UNCHANGED <<players, control>>
                   /\ \E stage \in {"filling", "committing"} :
                         task'[u] = [task[u] EXCEPT !.at = stage]
  <2>1. PICK stage \in {"filling", "committing"} : At(t, stage)
    BY <1>11 DEF ModelAnswers, ModelFails
  <2>2. Asked(t) /\ UNCHANGED <<players, control>>
    BY <1>11 DEF ModelAnswers, ModelFails, Asked, seats
  <2> QED
    BY <1>0, <2>1, <2>2 DEF At
<1> HIDE DEF Free
<1>12. CASE \E t \in Tasks : Free(t)
  BY <1>12 DEF Free
<1>13. CASE \E t \in Tasks, s \in Seats : AskModel(t, s) \/ Submit(t, s)
  BY <1>10, <1>13
<1>14. CASE \E t \in Tasks : ModelAnswers(t) \/ ModelFails(t)
  BY <1>11, <1>14
<1>15. CASE UNCHANGED vars
  BY <1>15 DEF vars
<1>16. CASE Quiet
  BY <1>1, <1>5, <1>6, <1>7, <1>8, <1>9, <1>12, <1>13, <1>14, <1>16 DEF Quiet
<1>17. CASE Acting
  BY <1>1, <1>5, <1>6, <1>7, <1>8, <1>9, <1>12, <1>17 DEF Acting
<1> QED
  BY <1>15, <1>16, <1>17, StepsAre

\* Who plays a seat changes while no request of the client is under way.
LEMMA HandSteps ==
    ASSUME SeatsTypeOK, [Next]_vars
    PROVE  \/ UNCHANGED <<players, control>>
           \/ /\ task[Web].at = "idle"
              /\ \E s \in Seats :
                    \/ /\ UNCHANGED players /\ s \in players
                       /\ \E mode \in Modes, temporary \in BOOLEAN :
                             control' = [control EXCEPT ![s] = SetTo(@, mode, temporary)]
                    \/ /\ players' = players \cup {s} /\ s \notin players
                       /\ control' = [control EXCEPT ![s] = Default]
                    \/ UNCHANGED control /\ players' = players \ {s}
<1>1. CASE UNCHANGED vars
  BY <1>1 DEF vars, seats
<1>2. ASSUME NEW t \in Tasks, Step(t) PROVE UNCHANGED <<players, control>>
  <2>1. ASSUME Add(t) \/ Commit(t) PROVE UNCHANGED <<players, control>>
    BY <2>1, AddQueues, CommitQueues
  <2> QED
    BY <1>2, <2>1 DEF Step, Enter, ModelAnswers, ModelFails, TryAdvance, DoAdvance, Judge,
                      Finish, Abort, AskModel, seats
<1>3. ASSUME NEW t \in Tasks, Continue(t) \/ ResumeCreated(t)
      PROVE  UNCHANGED <<players, control>>
  BY <1>3 DEF Continue, ResumeCreated, seats
<1>4. ASSUME PressAdvance \/ ForceAdvance \/ Settle \/ Rollback
      PROVE  UNCHANGED <<players, control>>
  BY <1>4 DEF PressAdvance, ForceAdvance, Settle, Rollback, seats
<1>5. ASSUME NEW t \in Tasks, NEW s \in Seats, Submit(t, s) \/ Retry(s)
      PROVE  UNCHANGED <<players, control>>
  BY <1>5 DEF Submit, Retry, seats
<1>6. ASSUME NEW t \in Tasks, NEW s \in Seats, NEW mode \in {"human", "ai"},
             SetControl(t, s, mode)
      PROVE  /\ task[Web].at = "idle" /\ UNCHANGED players /\ s \in players
             /\ mode \in Modes
             /\ control' = [control EXCEPT ![s] = SetTo(@, mode, FALSE)]
  BY <1>6 DEF SetControl, MayWrite, Modes
<1>7. ASSUME NEW s \in Seats,
             ReturnToSeat(s) \/ \E handover \in BOOLEAN : LeaveSeat(s, handover)
      PROVE  /\ task[Web].at = "idle" /\ UNCHANGED players /\ s \in players
             /\ \/ UNCHANGED control
                \/ control' = [control EXCEPT ![s] = SetTo(@, "human", FALSE)]
                \/ control' = [control EXCEPT ![s] = SetTo(@, "ai", TRUE)]
  BY <1>7 DEF ReturnToSeat, LeaveSeat, Alive
<1>8. ASSUME NEW s \in Seats, Claim(s)
      PROVE  /\ task[Web].at = "idle"
             /\ \/ /\ UNCHANGED players /\ s \in players
                   /\ control' = [control EXCEPT ![s] = SetTo(@, "human", FALSE)]
                \/ /\ players' = players \cup {s} /\ s \notin players
                   /\ control' = [control EXCEPT ![s] = Default]
  BY <1>8 DEF Claim, SeatsTypeOK, SeatsShape
<1>9. ASSUME NEW s \in Seats, Remove(s)
      PROVE  task[Web].at = "idle" /\ UNCHANGED control /\ players' = players \ {s}
  BY <1>9 DEF Remove
<1>10. {"human", "ai"} \subseteq Modes /\ Ungated \subseteq Tasks /\ Web \in Tasks
  BY DEF Modes, Tasks
<1>11. CASE \E s \in Seats : Claim(s)
  BY <1>8, <1>10, <1>11
<1>12. CASE \E s \in Seats : ReturnToSeat(s) \/ \E handover \in BOOLEAN : LeaveSeat(s, handover)
  <2>1. PICK s \in Seats : /\ task[Web].at = "idle" /\ UNCHANGED players /\ s \in players
                           /\ \/ UNCHANGED control
                              \/ control' = [control EXCEPT ![s] = SetTo(@, "human", FALSE)]
                              \/ control' = [control EXCEPT ![s] = SetTo(@, "ai", TRUE)]
    BY <1>7, <1>12
  <2>2. CASE UNCHANGED control
    BY <2>1, <2>2
  <2>3. CASE \E mode \in Modes, temporary \in BOOLEAN :
                control' = [control EXCEPT ![s] = SetTo(@, mode, temporary)]
    BY <2>1, <2>3
  <2>4. "human" \in Modes /\ "ai" \in Modes /\ TRUE \in BOOLEAN /\ FALSE \in BOOLEAN
    BY DEF Modes
  <2> QED
    BY <2>1, <2>2, <2>3, <2>4
<1>13. CASE \E t \in Tasks, s \in Seats, mode \in {"human", "ai"} : SetControl(t, s, mode)
  <2>1. PICK s \in Seats, mode \in Modes :
           /\ task[Web].at = "idle" /\ UNCHANGED players /\ s \in players
           /\ control' = [control EXCEPT ![s] = SetTo(@, mode, FALSE)]
    BY <1>6, <1>13
  <2> QED
    BY <2>1
<1>14. CASE \E s \in Seats : Remove(s)
  BY <1>9, <1>14
<1>15. CASE Table
  BY <1>3, <1>4, <1>5, <1>10, <1>11, <1>12, <1>13, <1>14, <1>15 DEF Table
<1> QED
  BY <1>1, <1>2, <1>15 DEF Next

\* Under the same revision the seat is in the same hands.
LEMMA SameHands ==
    ASSUME SeatsTypeOK, [Next]_vars, NEW s \in Seats,
           s \in players', control'[s].mode = "ai",
           control'[s].revision = control[s].revision
    PROVE  s \in players /\ control[s].mode = "ai"
<1>0. control \in [Seats -> Control] /\ \A r \in Seats : control[r].temporary => control[r].mode = "ai"
  BY DEF SeatsTypeOK, SeatsShape
<1>1. CASE UNCHANGED <<players, control>>
  BY <1>1
<1>2. ASSUME NEW r \in Seats, UNCHANGED players, r \in players,
             NEW mode \in Modes, NEW temporary \in BOOLEAN,
             control' = [control EXCEPT ![r] = SetTo(@, mode, temporary)]
      PROVE  s \in players /\ control[s].mode = "ai"
  <2>1. CASE r = s
    BY <1>0, <1>2, <2>1 DEF SetTo, Control
  <2> QED
    BY <1>0, <1>2, <2>1
<1>3. ASSUME NEW r \in Seats, players' = players \cup {r}, r \notin players,
             control' = [control EXCEPT ![r] = Default]
      PROVE  s \in players /\ control[s].mode = "ai"
  BY <1>0, <1>3 DEF Default
<1>4. ASSUME NEW r \in Seats, UNCHANGED control, players' = players \ {r}
      PROVE  s \in players /\ control[s].mode = "ai"
  BY <1>4
<1> QED
  BY <1>1, <1>2, <1>3, <1>4, HandSteps

LEMMA NextWebAdds == SeatsTypeOK /\ WebAdds /\ [Next]_vars => WebAdds'
<1> SUFFICES ASSUME SeatsTypeOK, WebAdds, [Next]_vars, task'[Web].at = "adding"
             PROVE  task'[Web].seat \in players' /\ control'[task'[Web].seat].mode = "human"
  BY DEF WebAdds
<1>0. Web \in Tasks
      /\ task \in [Tasks -> [at : Stages, seat : Seats \cup {None}, todo : SUBSET Seats,
                             revision : Nat, round : 0..MaxRound]]
  BY DEF SeatsTypeOK, TasksShape, Tasks
<1>1. CASE task'[Web] = task[Web]
  BY <1>1, HandSteps DEF WebAdds
<1>2. ASSUME NEW s \in Seats, Submit(Web, s)
      PROVE  task'[Web].seat \in players' /\ control'[task'[Web].seat].mode = "human"
  <2>1. task'[Web].seat = s
    BY <1>0, <1>2 DEF Submit, Idle
  <2> QED
    BY <1>2, <2>1 DEF Submit, Alive, seats
<1>3. ASSUME NEW s \in Seats, AskModel(Web, s) PROVE FALSE
  BY <1>0, <1>3 DEF AskModel
<1>4. ASSUME NEW stage \in {"filling", "committing"},
             task'[Web] = [task[Web] EXCEPT !.at = stage]
      PROVE  FALSE
  BY <1>0, <1>4
<1> QED
  BY <1>0, <1>1, <1>2, <1>3, <1>4, TaskSteps

\* A coroutine that waits for an answer after a step has just asked, or waited
\* before for the same one.
LEMMA AskedSteps ==
    ASSUME SeatsTypeOK, [Next]_vars, NEW u \in Tasks, Asked(u)'
    PROVE  /\ task'[u].seat \in Seats
           /\ \/ /\ Asked(u) /\ task'[u].seat = task[u].seat
                 /\ task'[u].revision = task[u].revision /\ task'[u].round = task[u].round
              \/ /\ \E s \in Seats : AskModel(u, s)
                 /\ task'[u].revision = control[task'[u].seat].revision
                 /\ task'[u].round = round /\ queue[task'[u].seat] = <<>>
<1>0. task \in [Tasks -> [at : Stages, seat : Seats \cup {None}, todo : SUBSET Seats,
                          revision : Nat, round : 0..MaxRound]]
  BY DEF SeatsTypeOK, TasksShape
<1>1. task'[u].seat \in Seats
  BY NextTypes DEF SeatsTypeOK, TasksShape, Asked
<1>2. CASE task'[u] = task[u]
  BY <1>1, <1>2 DEF Asked
<1>3. ASSUME NEW s \in Seats, Submit(u, s) PROVE FALSE
  BY <1>0, <1>3 DEF Submit, Idle, Asked
<1>4. ASSUME NEW s \in Seats, AskModel(u, s)
      PROVE  /\ task'[u].revision = control[task'[u].seat].revision
             /\ task'[u].round = round /\ queue[task'[u].seat] = <<>>
  BY <1>0, <1>4 DEF AskModel, Wanting
<1>5. ASSUME Asked(u), NEW stage \in {"filling", "committing"},
             task'[u] = [task[u] EXCEPT !.at = stage]
      PROVE  /\ task'[u].seat = task[u].seat /\ task'[u].revision = task[u].revision
             /\ task'[u].round = task[u].round
  BY <1>0, <1>5
<1> QED
  BY <1>1, <1>2, <1>3, <1>4, <1>5, TaskSteps DEF Asked

LEMMA NextAsked ==
    SeatsTypeOK /\ AskedBefore /\ [Next]_vars /\ RevisionsGrow => AskedBefore'
<1> SUFFICES ASSUME SeatsTypeOK, AskedBefore, [Next]_vars, RevisionsGrow,
                    NEW u \in Tasks, Asked(u)'
             PROVE  task'[u].revision <= control'[task'[u].seat].revision
  BY DEF AskedBefore
<1>1. /\ task'[u].seat \in Seats
      /\ task'[u].revision <= control[task'[u].seat].revision
  <2>1. \A s \in Seats : control[s].revision \in Nat
    BY DEF SeatsTypeOK, SeatsShape, Control
  <2> QED
    BY <2>1, AskedSteps DEF AskedBefore
<1>2. \A s \in Seats : control[s].revision \in Nat /\ control'[s].revision \in Nat
  BY NextTypes DEF SeatsTypeOK, SeatsShape, Control
<1>3. task'[u].revision \in Nat
  BY NextTypes DEF SeatsTypeOK, TasksShape
<1> QED
  BY <1>1, <1>2, <1>3 DEF RevisionsGrow

\* What stands after a step stood before it, or was asked in it.
LEMMA StandsSteps ==
    ASSUME SeatsTypeOK, AskedBefore, [Next]_vars, RevisionsGrow,
           NEW u \in Tasks, Stands(u)'
    PROVE  \/ /\ Stands(u) /\ task'[u].seat = task[u].seat /\ task'[u].round = task[u].round
           \/ /\ \E s \in Seats : AskModel(u, s)
              /\ task'[u].round = round /\ queue[task'[u].seat] = <<>>
<1> DEFINE s == task'[u].seat
<1>1. CASE /\ Asked(u) /\ task'[u].seat = task[u].seat
           /\ task'[u].revision = task[u].revision /\ task'[u].round = task[u].round
  <2>1. s \in Seats /\ s \in players' /\ control'[s].mode = "ai"
        /\ control'[s].revision = task[u].revision
    BY <1>1, AskedSteps DEF Stands
  <2>2. control[s].revision \in Nat /\ control'[s].revision \in Nat /\ task[u].revision \in Nat
    BY <2>1, NextTypes DEF SeatsTypeOK, SeatsShape, Control, TasksShape
  <2>3. task[u].revision <= control[s].revision /\ control[s].revision <= control'[s].revision
    BY <1>1, <2>1 DEF AskedBefore, RevisionsGrow
  <2>4. control'[s].revision = control[s].revision
    BY <2>1, <2>2, <2>3
  <2>5. s \in players /\ control[s].mode = "ai"
    BY <2>1, <2>4, SameHands
  <2> QED
    BY <1>1, <2>1, <2>4, <2>5 DEF Stands
<1> QED
  BY <1>1, AskedSteps DEF Stands

LEMMA NextInFlight ==
    ASSUME OneAgent, SeatsTypeOK, Answers, [Next]_vars, RevisionsGrow
    PROVE  InFlight'
<1> USE DEF Answers
<1> SUFFICES ASSUME NEW u \in Tasks, Stands(u)', phase' # "over"
             PROVE  Unanswered(task[u].seat, task[u].round)'
  BY DEF InFlight
<1>1. phase # "over"
  BY NextOver
<1>2. ASSUME NEW s \in Seats, AskModel(u, s), task'[u].round = round,
             queue[task'[u].seat] = <<>>
      PROVE  Unanswered(task[u].seat, task[u].round)'
  <2>1. UNCHANGED <<queue, pending, aiActs, round>>
    BY <1>2 DEF AskModel, actions, course
  <2>2. task'[u].seat \in Seats /\ round \in Nat
    BY NextTypes, BoundsAssumption DEF SeatsTypeOK, TasksShape, CourseShape, Stands, Asked
  <2>3. ~(aiActs[task'[u].seat] > 0)
    BY <1>2, <2>2 DEF ActsQueued
  <2> QED
    BY <1>2, <2>1, <2>2, <2>3 DEF Unanswered, NoHuman
<1>3. CASE Stands(u) /\ task'[u].seat = task[u].seat /\ task'[u].round = task[u].round
  <2> DEFINE s == task[u].seat
             asked == task[u].round
  <2>0. /\ s \in Seats /\ s \in players' /\ s \in players /\ control[s].mode = "ai"
        /\ asked \in Nat /\ round \in 1..MaxRound /\ round' \in 1..MaxRound /\ MaxRound \in Nat
        /\ queue[s] \in Seq(Sources) /\ aiActs[s] \in Nat
    BY <1>3, NextTypes, BoundsAssumption
       DEF SeatsTypeOK, TasksShape, CourseShape, ActionsShape, Stands, Asked
  <2>1. Unanswered(s, asked)
    BY <1>1, <1>3 DEF InFlight
  <2>2. SUFFICES Unanswered(s, asked)'
    BY <1>3
  <2> DEFINE Same == queue'[s] = queue[s] /\ aiActs'[s] = aiActs[s]
                     /\ pending'[s] = pending[s] /\ round' = round
  <2>3. ASSUME Same PROVE Unanswered(s, asked)'
    BY <1>3, <2>1, <2>3 DEF Unanswered
  <2>4. ASSUME queue'[s] = <<>>, pending'[s] = <<>>, aiActs'[s] = 0
        PROVE  Unanswered(s, asked)'
    BY <1>3, <2>4 DEF Unanswered, NoHuman
  <2>5. CASE Quiet \/ UNCHANGED vars
    BY <2>3, <2>5, QuietSteps DEF vars, actions, course
  <2>6. ASSUME NEW t \in Tasks, Add(t) PROVE Same
    <3>1. CASE task[t].seat = s
      <4>1. task[t].at = "adding" /\ MayWrite(t)
        BY <2>6 DEF Add
      <4>2. t # Web
        BY <3>1, <2>0, <4>1 DEF WebAdds
      <4>3. task[Web].at = "idle" /\ u # Web /\ u # t
        BY <1>3, <4>1, <4>2 DEF MayWrite, Stands, Asked
      <4> QED
        BY <4>2, <4>3 DEF OneAgent, Tasks
    <3>2. CASE task[t].seat # s
      BY <2>0, <2>6, <3>2, AddQueues DEF course, SeatsTypeOK, ActionsShape
    <3> QED
      BY <3>1, <3>2
  <2>7. ASSUME NEW t \in Tasks, Commit(t) PROVE Unanswered(s, asked)'
    <3>1. CASE queue' = queue /\ aiActs' = aiActs
      BY <2>3, <2>7, <3>1, CommitQueues DEF course
    <3>2. CASE /\ queue' = [queue EXCEPT ![task[t].seat] = Declared(@, "ai")]
               /\ aiActs' = [aiActs EXCEPT ![task[t].seat] = @ + 1]
      <4>1. UNCHANGED <<round, pending>>
        BY <2>7, CommitQueues DEF course
      <4>2. CASE task[t].seat # s
        BY <2>0, <2>3, <3>2, <4>1, <4>2 DEF SeatsTypeOK, ActionsShape
      <4>3. CASE task[t].seat = s
        <5>1. queue'[s] = Declared(queue[s], "ai")
          BY <2>0, <3>2, <4>3 DEF SeatsTypeOK, ActionsShape
        <5>2. HasAI(queue'[s])
          BY <2>0, <5>1, DeclaredFacts DEF HasAI, Sources
        <5>3. NoHuman(queue[s]) => NoHuman(queue'[s])
          BY <2>0, <5>1, DeclaredFacts DEF NoHuman, Sources
        <5> QED
          BY <1>3, <2>1, <4>1, <5>2, <5>3 DEF Unanswered
      <4> QED
        BY <4>2, <4>3
    <3> QED
      BY <2>7, <3>1, <3>2, CommitQueues
  <2>8. ASSUME NEW t \in Tasks, TryAdvance(t) \/ Abort(t) PROVE Same
    BY <2>8 DEF TryAdvance, DoAdvance, Abort, actions, course
  <2>9. ASSUME NEW t \in Tasks, Finish(t) PROVE Unanswered(s, asked)'
    <3>1. queue'[s] = pending[s] /\ pending'[s] = <<>> /\ aiActs'[s] = 0 /\ round' = round + 1
      BY <2>0, <2>9 DEF Finish, StartRound, NoActions, NoneDone
    <3>2. CASE round < asked
      BY <2>1, <2>4, <3>1, <3>2 DEF Unanswered
    <3>3. CASE ~(round < asked)
      BY <1>3, <2>0, <3>1, <3>3 DEF Unanswered
    <3> QED
      BY <3>2, <3>3
  <2>10. CASE ForceAdvance
    <3> DEFINE waiting == IF ShouldAdvance THEN {} ELSE Humans \ ready
    <3>1. /\ queue' = [r \in Seats |-> IF r \in waiting THEN Declared(queue[r], "wait")
                                       ELSE queue[r]]
          /\ UNCHANGED <<pending, aiActs, round>>
      BY <2>10 DEF ForceAdvance
    <3>2. s \notin waiting
      BY <2>0 DEF Humans
    <3> HIDE DEF waiting
    <3> QED
      BY <2>0, <2>3, <3>1, <3>2
  <2>11. CASE Rollback
    BY <2>0, <2>4, <2>11 DEF Rollback, NoActions, NoneDone
  <2>12. ASSUME NEW r \in Seats, Remove(r) PROVE Same
    BY <2>0, <2>12 DEF Remove, course, SeatsTypeOK, ActionsShape
  <2>13. ASSUME NEW r \in Seats, NEW handover \in BOOLEAN, LeaveSeat(r, handover) PROVE Same
    BY <2>13 DEF LeaveSeat, course
  <2> QED
    BY <2>3, <2>5, <2>6, <2>7, <2>8, <2>9, <2>10, <2>11, <2>12, <2>13, StepsAre DEF Acting
<1> QED
  BY <1>2, <1>3, StandsSteps

\* An answer that is written is one that stands.
LEMMA CurrentStands ==
    ASSUME SeatsTypeOK, Answers, NEW t \in Tasks, Commit(t), Current(t)
    PROVE  NoHuman(queue[task[t].seat]) /\ aiActs[task[t].seat] = 0
<1>1. task[t].seat \in Seats
  BY DEF Commit, SeatsTypeOK, TasksShape
<1>2. Stands(t) /\ phase # "over" /\ round = task[t].round
  BY DEF Commit, Current, Stands, Asked, Alive
<1>3. Unanswered(task[t].seat, task[t].round)
  BY <1>2 DEF Answers, InFlight
<1>4. ~HasAI(queue[task[t].seat])
  BY DEF Current, HasAI
<1>5. aiActs[task[t].seat] \in Nat
  BY <1>1 DEF SeatsTypeOK, ActionsShape
<1> QED
  BY <1>2, <1>3, <1>4, <1>5 DEF Unanswered

LEMMA NextOnce == SeatsTypeOK /\ Answers /\ [Next]_vars => OneAIAction'
<1> SUFFICES ASSUME SeatsTypeOK, Answers, [Next]_vars PROVE OneAIAction'
  OBVIOUS
<1>0. \A s \in Seats : aiActs[s] <= 1
  BY DEF Answers, OneAIAction
<1>1. CASE Quiet \/ UNCHANGED vars
  BY <1>0, <1>1, QuietSteps DEF OneAIAction, vars, actions
<1>2. ASSUME NEW t \in Tasks, Add(t) PROVE OneAIAction'
  BY <1>0, <1>2, AddQueues DEF OneAIAction
<1>3. ASSUME NEW t \in Tasks, Commit(t) PROVE OneAIAction'
  <2>1. CASE aiActs' = aiActs
    BY <1>0, <2>1 DEF OneAIAction
  <2>2. CASE Current(t) /\ aiActs' = [aiActs EXCEPT ![task[t].seat] = @ + 1]
    BY <1>0, <1>3, <2>2, CurrentStands DEF OneAIAction, SeatsTypeOK, ActionsShape
  <2> QED
    BY <1>3, <2>1, <2>2, CommitQueues
<1>4. ASSUME NEW t \in Tasks, TryAdvance(t) \/ Abort(t) PROVE OneAIAction'
  BY <1>0, <1>4 DEF TryAdvance, DoAdvance, Abort, actions, OneAIAction
<1>5. ASSUME NEW t \in Tasks, Finish(t) PROVE OneAIAction'
  BY <1>5 DEF Finish, StartRound, OneAIAction, NoneDone
<1>6. CASE ForceAdvance
  BY <1>0, <1>6 DEF ForceAdvance, OneAIAction
<1>7. CASE Rollback
  BY <1>7 DEF Rollback, OneAIAction, NoneDone
<1>8. ASSUME NEW s \in Seats, Remove(s) \/ \E handover \in BOOLEAN : LeaveSeat(s, handover)
      PROVE  OneAIAction'
  <2>1. \A r \in Seats : aiActs'[r] \in {0, aiActs[r]}
    BY <1>8 DEF Remove, LeaveSeat, SeatsTypeOK, ActionsShape
  <2> QED
    BY <1>0, <2>1 DEF OneAIAction
<1> QED
  BY <1>1, <1>2, <1>3, <1>4, <1>5, <1>6, <1>7, <1>8, StepsAre DEF Acting

LEMMA NextStands ==
    ASSUME SeatsTypeOK, Answers, [Next]_vars, NEW s \in Seats,
           queue[s] # <<>>, Head(queue[s]) = "human", queue'[s] # <<>>
    PROVE  Head(queue'[s]) # "ai"
<1>0. queue[s] \in Seq(Sources) /\ pending[s] \in Seq({"human"})
  BY DEF SeatsTypeOK, ActionsShape
<1>1. CASE queue'[s] = queue[s]
  BY <1>1
<1>2. ASSUME NEW source \in {"human", "wait"}, queue'[s] = Declared(queue[s], source)
      PROVE  Head(queue'[s]) # "ai"
  BY <1>0, <1>2, DeclaredFacts DEF Sources
<1>3. CASE Quiet \/ UNCHANGED vars
  BY <1>1, <1>3, QuietSteps DEF vars, actions
<1>4. ASSUME NEW t \in Tasks, Add(t) PROVE Head(queue'[s]) # "ai"
  <2>1. queue'[s] = queue[s] \/ queue'[s] = Declared(queue[s], "human")
    BY <1>4, AddQueues DEF SeatsTypeOK, ActionsShape
  <2> QED
    BY <1>1, <1>2, <2>1
<1>5. ASSUME NEW t \in Tasks, Commit(t) PROVE queue'[s] = queue[s]
  <2>1. CASE Current(t) /\ task[t].seat = s
    <3>1. NoHuman(queue[s])
      BY <1>5, <2>1, CurrentStands
    <3>2. 1 \in DOMAIN queue[s] /\ queue[s][1] = "human"
      BY <1>0
    <3> QED
      BY <3>1, <3>2 DEF NoHuman
  <2> QED
    BY <1>5, <2>1, CommitQueues DEF SeatsTypeOK, ActionsShape
<1>6. ASSUME NEW t \in Tasks, TryAdvance(t) \/ Abort(t) PROVE queue'[s] = queue[s]
  BY <1>6 DEF TryAdvance, DoAdvance, Abort, actions
<1>7. ASSUME NEW t \in Tasks, Finish(t) PROVE Head(queue'[s]) # "ai"
  BY <1>0, <1>7, QueuedFacts DEF Finish, StartRound
<1>8. CASE ForceAdvance
  <2>1. PICK waiting :
           queue' = [r \in Seats |-> IF r \in waiting THEN Declared(queue[r], "wait")
                                     ELSE queue[r]]
    BY <1>8 DEF ForceAdvance
  <2> QED
    BY <1>1, <1>2, <2>1
<1>9. CASE Rollback
  BY <1>9 DEF Rollback, NoActions
<1>10. ASSUME NEW r \in Seats, Remove(r) \/ \E handover \in BOOLEAN : LeaveSeat(r, handover)
       PROVE  queue'[s] = queue[s]
  BY <1>10 DEF Remove, LeaveSeat, SeatsTypeOK, ActionsShape
<1> QED
  BY <1>1, <1>3, <1>4, <1>5, <1>6, <1>7, <1>8, <1>9, <1>10, StepsAre DEF Acting

LEMMA NextAnswers ==
    ASSUME OneAgent
    PROVE  SeatsTypeOK /\ Answers /\ [Next /\ RevisionsGrow]_vars => Answers'
<1> SUFFICES ASSUME SeatsTypeOK, Answers, [Next /\ RevisionsGrow]_vars PROVE Answers'
  OBVIOUS
<1>1. RevisionsGrow
  <2>1. \A s \in Seats : control[s].revision \in Nat
    BY DEF SeatsTypeOK, SeatsShape, Control
  <2> QED
    BY <2>1 DEF RevisionsGrow, vars, seats
<1>2. ActsQueued' /\ OverIsLast' /\ WebAdds'
  BY NextQueued, NextOver, NextWebAdds DEF Answers
<1>3. AskedBefore'
  BY <1>1, NextAsked DEF Answers
<1>4. InFlight'
  BY <1>1, NextInFlight
<1>5. OneAIAction'
  BY NextOnce
<1> QED
  BY <1>2, <1>3, <1>4, <1>5 DEF Answers

\* With one coroutine outside the gate, however many answers are under way and
\* whoever takes the seat meanwhile, the AI acts for a seat once in a round.
THEOREM AIActsOnce == ASSUME OneAgent PROVE GrowingSpec => []OneAIAction
<1>1. Answers => OneAIAction
  BY DEF Answers
<1>2. [Next /\ RevisionsGrow]_vars => [Next]_vars
  OBVIOUS
<1> QED
  BY <1>1, <1>2, InitTypes, NextTypes, InitAnswers, NextAnswers, PTL DEF GrowingSpec

\* Under the same conditions an answer of the model never takes the place of
\* what a human declared, in this round or in one that a rollback repeats.
THEOREM HumansAreNotReplaced == ASSUME OneAgent PROVE GrowingSpec => HumanActionStands
<1>1. SeatsTypeOK /\ Answers /\ [Next /\ RevisionsGrow]_vars
         => \A s \in Seats :
               queue[s] # <<>> /\ Head(queue[s]) = "human" /\ queue'[s] # <<>>
                  => Head(queue'[s]) # "ai"
  BY NextStands
<1>2. [Next /\ RevisionsGrow]_vars => [Next]_vars
  OBVIOUS
<1> QED
  BY <1>1, <1>2, InitTypes, NextTypes, InitAnswers, NextAnswers, PTL
     DEF GrowingSpec, HumanActionStands

=============================================================================
