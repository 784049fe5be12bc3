--------------------------- MODULE SaveFilesProofs ---------------------------
(***************************************************************************)
(* What SaveFiles promises of the files, proved for any window, any length *)
(* of the log and any number of runs, faults and crashes.                  *)
(*                                                                         *)
(* Neither property is inductive alone: a save is acknowledged for what it *)
(* put in place several steps before, and what it put there must not be    *)
(* older than the run that is played by then.                              *)
(***************************************************************************)
EXTENDS SaveFiles, FiniteSetTheorems, SequenceTheorems, WellFoundedInduction, TLAPS

----------------------------------------------------------------------------
(***************************************************************************)
(* Logs and files are lists.  A list is a sequence of its own entries: what *)
(* a round of a log looks like is of no account here.                      *)
(***************************************************************************)

Listed(s) == s \in Seq({s[i] : i \in DOMAIN s})

LEMMA SequenceListed ==
    ASSUME NEW S, NEW s \in Seq(S)
    PROVE  Listed(s)
<1>1. Len(s) \in Nat /\ s \in [1..Len(s) -> S] /\ DOMAIN s = 1..Len(s)
  BY LenProperties
<1>2. s \in [1..Len(s) -> {s[i] : i \in DOMAIN s}]
  BY <1>1
<1> QED
  BY <1>1, <1>2, SeqDef DEF Listed

LEMMA ListedLength ==
    ASSUME NEW s, Listed(s)
    PROVE  Len(s) \in Nat /\ DOMAIN s = 1..Len(s)
BY LenProperties DEF Listed

LEMMA EmptyListed == Listed(<<>>) /\ Len(<<>>) = 0
BY EmptySeq, SequenceListed

LEMMA OneListed ==
    ASSUME NEW e
    PROVE  Listed(<<e>>) /\ Len(<<e>>) = 1
<1>1. <<e>> \in Seq({e}) /\ Len(<<e>>) = 1
  OBVIOUS
<1> QED
  BY <1>1, SequenceListed

\* Any function on 1..n is one.
LEMMA FunctionListed ==
    ASSUME NEW n \in Nat, NEW s, s = [i \in 1..n |-> s[i]]
    PROVE  Listed(s)
<1>1. DOMAIN s = 1..n /\ s \in [1..n -> {s[i] : i \in DOMAIN s}]
  OBVIOUS
<1> QED
  BY <1>1, SeqDef DEF Listed

LEMMA ConcatListed ==
    ASSUME NEW s, NEW t, Listed(s), Listed(t)
    PROVE  /\ Listed(s \o t)
           /\ Len(s \o t) = Len(s) + Len(t)
           /\ \A i \in 1..Len(t) : (s \o t)[Len(s) + i] = t[i]
<1> DEFINE S == {s[i] : i \in DOMAIN s} \cup {t[i] : i \in DOMAIN t}
<1>1. s \in Seq(S) /\ t \in Seq(S)
  <2>1. {s[i] : i \in DOMAIN s} \subseteq S /\ {t[i] : i \in DOMAIN t} \subseteq S
    OBVIOUS
  <2> HIDE DEF S
  <2> QED
    BY <2>1, SeqMonotonic DEF Listed
<1> HIDE DEF S
<1>2. /\ s \o t \in Seq(S)
      /\ Len(s \o t) = Len(s) + Len(t)
      /\ \A i \in 1..Len(s) + Len(t) :
            (s \o t)[i] = IF i <= Len(s) THEN s[i] ELSE t[i - Len(s)]
  BY <1>1, ConcatProperties
<1>3. Len(s) \in Nat /\ Len(t) \in Nat
  BY ListedLength
<1>4. ASSUME NEW i \in 1..Len(t) PROVE (s \o t)[Len(s) + i] = t[i]
  <2>1. Len(s) + i \in 1..Len(s) + Len(t) /\ ~(Len(s) + i <= Len(s))
        /\ Len(s) + i - Len(s) = i
    BY <1>3
  <2> QED
    BY <1>2, <2>1
<1> QED
  BY <1>2, <1>4, SequenceListed

LEMMA PartListed ==
    ASSUME NEW s, Listed(s), NEW m \in Nat \ {0}, NEW n \in Int, n <= Len(s)
    PROVE  Listed(SubSeq(s, m, n))
<1> DEFINE S == {s[i] : i \in DOMAIN s}
<1>1. \A i \in m..n : s[i] \in S
  BY ListedLength
<1>2. SubSeq(s, m, n) \in Seq(S)
  <2> HIDE DEF S
  <2> QED
    BY <1>1, SubSeqProperties
<1> QED
  BY <1>2, SequenceListed

LEMMA AppendListed ==
    ASSUME NEW s, Listed(s), NEW e
    PROVE  Listed(Append(s, e))
<1> DEFINE S == {s[i] : i \in DOMAIN s} \cup {e}
<1>1. s \in Seq(S)
  <2>1. {s[i] : i \in DOMAIN s} \subseteq S
    OBVIOUS
  <2> HIDE DEF S
  <2> QED
    BY <2>1, SeqMonotonic DEF Listed
<1>2. e \in S
  OBVIOUS
<1> HIDE DEF S
<1>3. Append(s, e) \in Seq(S)
  BY <1>1, <1>2
<1> QED
  BY <1>3, SequenceListed

LEMMA ExceptListed ==
    ASSUME NEW s, Listed(s), NEW i, NEW e
    PROVE  Listed([s EXCEPT ![i] = e])
<1>1. Len(s) \in Nat /\ DOMAIN s = 1..Len(s)
  BY ListedLength
<1> QED
  BY <1>1, FunctionListed

LEMMA TailListed ==
    ASSUME NEW s, Listed(s), s # <<>>
    PROVE  Listed(Tail(s))
<1> DEFINE S == {s[i] : i \in DOMAIN s}
<1>1. s \in Seq(S)
  BY DEF Listed
<1> HIDE DEF S
<1>2. Tail(s) \in Seq(S)
  BY <1>1, HeadTailProperties
<1> QED
  BY <1>2, SequenceListed

\* What a filter leaves is a list.
LEMMA SubsequenceListed ==
    ASSUME NEW s, NEW I, IsFiniteSet(I)
    PROVE  Listed(Subsequence(s, I))
<1>1. Cardinality(I) \in Nat
  BY FS_CardinalityType
<1> QED
  BY <1>1, FunctionListed DEF Subsequence

LEMMA GreatestExists ==
    ASSUME NEW n \in Nat, NEW I \in SUBSET (1..n), I # {}
    PROVE  Max(I) \in I
<1> DEFINE D == {n - i : i \in I}
<1>1. D \subseteq Nat /\ D # {}
  <2>1. ASSUME NEW i \in I PROVE n - i \in Nat
    <3>1. i \in 1..n
      OBVIOUS
    <3> QED
      BY <3>1
  <2>2. D \subseteq Nat
    BY <2>1, Zenon
  <2>3. D # {}
    BY Zenon
  <2> QED
    BY <2>2, <2>3
<1>2. PICK d \in D : \A e \in D : ~(<<e, d>> \in OpToRel(<, Nat))
  <2> HIDE DEF D
  <2> QED
    BY <1>1, NatLessThanWellFounded, WFMin
<1>3. PICK i \in I : d = n - i
  OBVIOUS
<1>4. ASSUME NEW j \in I PROVE i >= j
  <2>1. n - j \in D /\ <<n - j, d>> \in Nat \X Nat
    BY <1>1, <1>3
  <2>2. ~(n - j < d)
    BY <1>2, <2>1 DEF OpToRel
  <2> QED
    BY <1>3, <2>2
<1> QED
  BY <1>4 DEF Max

----------------------------------------------------------------------------
Shaped(inst) == inst = [run |-> inst.run, log |-> inst.log, saved |-> inst.saved]

\* One aggregate is live at most, and its successor is of a later run.
Owned ==
    /\ \A inst \in live \cup candidate : Shaped(inst) /\ inst.run \in Int
    /\ \A inst, other \in live : inst = other
    /\ \A inst \in live, next \in candidate : next.run > inst.run
    /\ live = {} => candidate = {} /\ writing = {}

\* A save in progress is of one of the two, and was begun since the last that
\* succeeded; once past state.json, that is what it wrote.
Begun ==
    /\ \A w, other \in writing : w = other
    /\ \A w \in writing :
          /\ w = [inst |-> w.inst, swap |-> w.swap, at |-> w.at]
          /\ w.inst \in live \cup candidate
          /\ Record(w.inst) \in unacked
          /\ w.at \in {"history", "done"} => state = {Record(w.inst)}

\* Nothing that waits to be written is of an earlier run, and a file holds one
\* aggregate at most.
Later ==
    /\ \A kept \in state \cup backup \cup unacked : kept.run \in Int
    /\ \A kept \in unacked, inst \in live : kept.run >= inst.run
    /\ \A kept, other \in state : kept = other
    /\ \A kept, other \in backup : kept = other

FilesInv == Owned /\ Begun /\ Later /\ AckedIsDurable /\ NoRunReturns

\* The cursor is all that saving changes of an aggregate.
LEMMA PersistedKeeps ==
    ASSUME NEW inst, Shaped(inst)
    PROVE  /\ Shaped(Persisted(inst))
           /\ Persisted(inst).run = inst.run
           /\ Record(Persisted(inst)) = Record(inst)
BY DEF Shaped, Persisted, Record

LEMMA RecordRun == \A inst : Record(inst).run = inst.run
BY DEF Record

LEMMA InitFiles == Init => FilesInv
BY DEF Init, FilesInv, Owned, Begun, Later, AckedIsDurable, NoRunReturns, Kept, Shaped

\* The story changes: nothing about the files does.
LEMMA PlayFiles ==
    ASSUME FilesInv, Playing, NEW game \in live, NEW log,
           live' = {[game EXCEPT !.log = log]},
           UNCHANGED <<stale, candidate, files, saves>>
    PROVE  FilesInv'
<1>1. Shaped([game EXCEPT !.log = log]) /\ [game EXCEPT !.log = log].run = game.run
  BY DEF FilesInv, Owned, Shaped
<1>2. Owned'
  BY <1>1 DEF FilesInv, Owned, Playing, saves
<1>3. Begun'
  BY DEF FilesInv, Begun, Playing, saves
<1>4. Later'
  BY <1>1 DEF FilesInv, Later, files, saves
<1>5. AckedIsDurable'
  BY DEF FilesInv, AckedIsDurable, Kept, Record, files, saves
<1>6. NoRunReturns'
  BY <1>1 DEF FilesInv, NoRunReturns, Kept, files, saves
<1> QED
  BY <1>2, <1>3, <1>4, <1>5, <1>6 DEF FilesInv

LEMMA BeginSaveFiles == FilesInv /\ BeginSave => FilesInv'
<1> SUFFICES ASSUME FilesInv, BeginSave PROVE FilesInv'
  OBVIOUS
<1>1. PICK inst \in live \cup candidate :
         /\ writing' = {[inst |-> Persisted(inst), swap |-> NextRun(inst), at |-> "backup"]}
         /\ unacked' = unacked \cup {Record(inst)}
         /\ live' = Marked(live, inst)
         /\ candidate' = Marked(candidate, inst)
  BY DEF BeginSave, MaySave
<1>2. UNCHANGED <<stale, state, backup, acked>> /\ live # {}
  BY DEF BeginSave
<1>3. \A game \in live \cup candidate :
         /\ Shaped(Persisted(game))
         /\ Persisted(game).run = game.run
         /\ Record(Persisted(game)) = Record(game)
  BY PersistedKeeps DEF FilesInv, Owned
<1>4. \A next \in live' : \E game \in live :
         \/ game = inst /\ next = Persisted(game)
         \/ game # inst /\ next = game
  BY <1>1 DEF Marked
<1>5. \A next \in candidate' : \E game \in candidate :
         \/ game = inst /\ next = Persisted(game)
         \/ game # inst /\ next = game
  BY <1>1 DEF Marked
<1>6. live' # {}
  BY <1>1, <1>2 DEF Marked
<1>7. Owned'
  <2>1. \A next \in live' \cup candidate' : Shaped(next) /\ next.run \in Int
    BY <1>3, <1>4, <1>5 DEF FilesInv, Owned
  <2>2. \A next, other \in live' : next = other
    BY <1>4 DEF FilesInv, Owned
  <2>3. \A next \in live', later \in candidate' : later.run > next.run
    BY <1>3, <1>4, <1>5 DEF FilesInv, Owned
  <2> QED
    BY <2>1, <2>2, <2>3, <1>6 DEF Owned
<1>8. Persisted(inst) \in live' \cup candidate'
  BY <1>1 DEF Marked
<1>9. Begun'
  BY <1>1, <1>3, <1>8 DEF Begun
<1>10. Later'
  <2>1. Record(inst).run \in Int /\ \A game \in live : Record(inst).run >= game.run
    BY RecordRun DEF FilesInv, Owned
  <2>2. \A next \in live' : \E game \in live : next.run = game.run
    BY <1>3, <1>4
  <2>3. \A kept \in unacked', next \in live' : kept.run >= next.run
    BY <1>1, <2>1, <2>2 DEF FilesInv, Later
  <2>4. \A kept \in state' \cup backup' \cup unacked' : kept.run \in Int
    BY <1>1, <1>2, <2>1 DEF FilesInv, Later
  <2> QED
    BY <1>2, <2>3, <2>4 DEF FilesInv, Later
<1>11. AckedIsDurable'
  BY <1>1, <1>2 DEF FilesInv, AckedIsDurable, Kept, Record
<1>12. NoRunReturns'
  <2>1. \A next \in live' : \E game \in live : next.run = game.run
    BY <1>3, <1>4
  <2> QED
    BY <1>2, <2>1 DEF FilesInv, NoRunReturns, Kept
<1> QED
  BY <1>7, <1>9, <1>10, <1>11, <1>12 DEF FilesInv

\* The save in progress goes on, from where state.json is not yet written.
LEMMA StepFiles ==
    ASSUME FilesInv, NEW at, NEW next, Step(at, next)
    PROVE  /\ \E w \in writing : w.at = at /\ \A other \in writing' :
                 other.inst = w.inst /\ other.at = next
           /\ writing' # {}
           /\ \A w \in writing' : w = [inst |-> w.inst, swap |-> w.swap, at |-> w.at]
           /\ \A w, other \in writing' : w = other
BY DEF FilesInv, Begun, Step

LEMMA KeepBackupFiles == FilesInv /\ KeepBackup => FilesInv'
<1> SUFFICES ASSUME FilesInv, KeepBackup PROVE FilesInv'
  OBVIOUS
<1>1. /\ Step("backup", "state")
      /\ UNCHANGED <<live, stale, candidate, acked, unacked>>
  BY DEF KeepBackup, memory
<1>2. Kept' = Kept
  BY DEF KeepBackup, Kept
<1>3. Owned'
  BY <1>1 DEF FilesInv, Owned, Step
<1>4. Begun'
  <2>1. PICK w \in writing : \A other \in writing' : other.inst = w.inst /\ other.at = "state"
    BY <1>1, StepFiles
  <2>2. w.inst \in live \cup candidate /\ Record(w.inst) \in unacked
    BY DEF FilesInv, Begun
  <2> QED
    BY <1>1, <2>1, <2>2, StepFiles DEF Begun, Record
<1>5. Later'
  BY <1>1 DEF FilesInv, Later, KeepBackup
<1>6. AckedIsDurable'
  BY <1>1, <1>2 DEF FilesInv, AckedIsDurable, Record
<1>7. NoRunReturns'
  BY <1>1, <1>2 DEF FilesInv, NoRunReturns
<1> QED
  BY <1>3, <1>4, <1>5, <1>6, <1>7 DEF FilesInv

LEMMA PutStateFiles == FilesInv /\ PutState => FilesInv'
<1> SUFFICES ASSUME FilesInv, PutState PROVE FilesInv'
  OBVIOUS
<1>1. PICK w \in writing : /\ Step("state", IF w.swap THEN "history" ELSE "done")
                           /\ state' = {Record(w.inst)}
  BY DEF PutState
<1>2. UNCHANGED <<live, stale, candidate, backup, acked, unacked>>
  BY DEF PutState, memory
<1>3. /\ w.inst \in live \cup candidate /\ Record(w.inst) \in unacked
      /\ \A other \in writing : other = w
  BY DEF FilesInv, Begun
<1>4. Kept' = {Record(w.inst)}
  BY <1>1 DEF Kept
<1>5. Owned'
  BY <1>1, <1>2 DEF FilesInv, Owned, Step
<1>6. Begun'
  <2>1. \A other \in writing' : other.inst = w.inst
    BY <1>1, <1>3, StepFiles
  <2> QED
    BY <1>1, <1>2, <1>3, <2>1, StepFiles DEF Begun, Record
<1>7. Later'
  BY <1>1, <1>2, <1>3 DEF FilesInv, Later
<1>8. AckedIsDurable'
  BY <1>2, <1>3, <1>4 DEF AckedIsDurable
<1>9. NoRunReturns'
  BY <1>2, <1>3, <1>4 DEF FilesInv, Later, NoRunReturns
<1> QED
  BY <1>5, <1>6, <1>7, <1>8, <1>9 DEF FilesInv

LEMMA SwapHistoryFiles == FilesInv /\ SwapHistory => FilesInv'
<1> SUFFICES ASSUME FilesInv, SwapHistory PROVE FilesInv'
  OBVIOUS
<1>1. /\ Step("history", "done")
      /\ UNCHANGED <<live, stale, candidate, state, backup, acked, unacked>>
  BY DEF SwapHistory, memory
<1>2. Owned'
  BY <1>1 DEF FilesInv, Owned, Step
<1>3. Begun'
  <2>1. PICK w \in writing : /\ w.at = "history"
                             /\ \A other \in writing' : other.inst = w.inst
    BY <1>1, StepFiles
  <2>2. /\ w.inst \in live \cup candidate /\ Record(w.inst) \in unacked
        /\ state = {Record(w.inst)}
    BY <2>1 DEF FilesInv, Begun
  <2> QED
    BY <1>1, <2>1, <2>2, StepFiles DEF Begun, Record
<1>4. Later' /\ AckedIsDurable' /\ NoRunReturns'
  BY <1>1 DEF FilesInv, Later, AckedIsDurable, NoRunReturns, Kept, Record
<1> QED
  BY <1>2, <1>3, <1>4 DEF FilesInv

LEMMA FinishSaveFiles == FilesInv /\ FinishSave => FilesInv'
<1> SUFFICES ASSUME FilesInv, FinishSave PROVE FilesInv'
  OBVIOUS
<1>1. PICK w \in writing :
         /\ w.at = "done"
         /\ acked' = {[run |-> w.inst.run, log |-> w.inst.log]}
         /\ IF w.inst \in candidate
            THEN live' = {w.inst} /\ stale' = live /\ candidate' = {}
            ELSE UNCHANGED memory
  BY DEF FinishSave
<1>2. writing' = {} /\ unacked' = {} /\ UNCHANGED <<state, backup>>
  BY DEF FinishSave, files
<1>3. state = {Record(w.inst)} /\ w.inst \in live \cup candidate
  BY <1>1 DEF FilesInv, Begun
<1>4. (live' = {w.inst} /\ candidate' = {}) \/ UNCHANGED <<live, candidate>>
  BY <1>1 DEF memory
<1>5. Kept' = {Record(w.inst)}
  BY <1>2, <1>3 DEF Kept
<1>6. Owned'
  BY <1>2, <1>3, <1>4 DEF FilesInv, Owned
<1>7. Begun'
  BY <1>2 DEF Begun
<1>8. Later'
  BY <1>2 DEF FilesInv, Later
<1>9. AckedIsDurable'
  <2>1. \A a \in acked' : a.run = w.inst.run /\ a.log = w.inst.log
    BY <1>1
  <2>2. \A a \in acked' : Record(a)' = Record(w.inst)
    BY <2>1 DEF Record
  <2> QED
    BY <1>5, <2>2 DEF AckedIsDurable
<1>10. NoRunReturns'
  <2>1. CASE live' = {w.inst}
    BY <1>5, <2>1, <1>3, RecordRun DEF NoRunReturns, FilesInv, Owned
  <2>2. CASE UNCHANGED live
    BY <1>2, <2>2 DEF NoRunReturns, FilesInv, Kept
  <2> QED
    BY <1>4, <2>1, <2>2
<1> QED
  BY <1>6, <1>7, <1>8, <1>9, <1>10 DEF FilesInv

\* What gives the candidate up, and what ends a save, leave the promise alone.
LEMMA GiveUpFiles ==
    ASSUME FilesInv, candidate' \subseteq candidate, writing' = {} \/ UNCHANGED writing,
           \A w \in writing' : w.inst \in live \cup candidate',
           UNCHANGED <<live, state, backup, acked, unacked>>
    PROVE  FilesInv'
<1>1. Owned'
  BY DEF FilesInv, Owned
<1>2. Begun'
  BY DEF FilesInv, Begun, Record
<1>3. Later' /\ AckedIsDurable' /\ NoRunReturns'
  BY DEF FilesInv, Later, AckedIsDurable, NoRunReturns, Kept, Record
<1> QED
  BY <1>1, <1>2, <1>3 DEF FilesInv

LEMMA CrashFiles == FilesInv /\ Crash => FilesInv'
<1> SUFFICES ASSUME FilesInv, Crash PROVE FilesInv'
  OBVIOUS
<1>1. /\ live' = {} /\ candidate' = {} /\ writing' = {}
      /\ UNCHANGED <<state, backup, acked, unacked>>
  BY DEF Crash, files
<1> QED
  BY <1>1 DEF FilesInv, Owned, Begun, Later, AckedIsDurable, NoRunReturns, Kept, Record

LEMMA LoadFiles == FilesInv /\ Load => FilesInv'
<1> SUFFICES ASSUME FilesInv, Load PROVE FilesInv'
  OBVIOUS
<1>1. PICK kept \in Kept :
         live' = {[run |-> kept.run, log |-> Restored(kept), saved |-> Len(Restored(kept))]}
  BY DEF Load
<1>2. /\ unacked' = Kept /\ live = {} /\ candidate = {} /\ writing = {}
      /\ UNCHANGED <<stale, candidate, state, backup, writing, acked>>
  BY DEF Load, FilesInv, Owned
<1>3. Kept' = Kept /\ Kept \subseteq state \cup backup
  BY <1>2 DEF Kept
<1>4. Kept = {kept} /\ kept.run \in Int
  BY <1>3 DEF FilesInv, Later, Kept
<1>5. Owned'
  BY <1>1, <1>2, <1>4 DEF Owned, Shaped
<1>6. Begun'
  BY <1>2 DEF Begun
<1>7. Later'
  BY <1>1, <1>2, <1>3, <1>4 DEF FilesInv, Later
<1>8. AckedIsDurable'
  BY <1>2, <1>3, <1>4 DEF AckedIsDurable
<1>9. NoRunReturns'
  BY <1>1, <1>3, <1>4 DEF NoRunReturns
<1> QED
  BY <1>5, <1>6, <1>7, <1>8, <1>9 DEF FilesInv

LEMMA NextFiles == FilesInv /\ [Next]_vars => FilesInv'
<1> SUFFICES ASSUME FilesInv, [Next]_vars PROVE FilesInv'
  OBVIOUS
<1>1. CASE AppendRound
  BY <1>1, PlayFiles DEF AppendRound
<1>2. CASE TakeBackRound
  BY <1>2, PlayFiles DEF TakeBackRound, saves
<1>3. ASSUME NEW i \in 1..MaxLog, ChangeRound(i) PROVE FilesInv'
  BY <1>3, PlayFiles DEF ChangeRound, saves
<1>4. CASE PrepareRun
  <2>1. PICK game \in live :
           \E log \in {<<>>, <<[run |-> game.run + 1, round |-> 1, edit |-> spent.edits]>>} :
              candidate' = {[run |-> game.run + 1, log |-> log, saved |-> 0]}
    BY <1>4 DEF PrepareRun
  <2>2. UNCHANGED <<live, state, backup, writing, acked, unacked>> /\ writing = {}
    BY <1>4 DEF PrepareRun, Playing, files, saves
  <2>3. Owned'
    BY <2>1, <2>2 DEF FilesInv, Owned, Shaped
  <2>4. Begun'
    BY <2>2 DEF Begun
  <2>5. Later' /\ AckedIsDurable' /\ NoRunReturns'
    BY <2>2 DEF FilesInv, Later, AckedIsDurable, NoRunReturns, Kept, Record
  <2> QED
    BY <2>3, <2>4, <2>5 DEF FilesInv
<1>5. CASE DropCandidate
  BY <1>5, GiveUpFiles DEF DropCandidate, files, saves
<1>6. CASE BeginSave
  BY <1>6, BeginSaveFiles
<1>7. CASE BreakAppend
  BY <1>7, GiveUpFiles DEF BreakAppend, saves
<1>8. CASE KeepBackup
  BY <1>8, KeepBackupFiles
<1>9. CASE PutState
  BY <1>9, PutStateFiles
<1>10. CASE SwapHistory
  BY <1>10, SwapHistoryFiles
<1>11. CASE FinishSave
  BY <1>11, FinishSaveFiles
<1>12. CASE FailSave
  BY <1>12, GiveUpFiles DEF FailSave, files
<1>13. CASE Crash
  BY <1>13, CrashFiles
<1>14. CASE Load
  BY <1>14, LoadFiles
<1>15. CASE UNCHANGED vars
  BY <1>15, GiveUpFiles DEF vars, memory, files, saves, FilesInv, Begun
<1> QED
  BY <1>1, <1>2, <1>3, <1>4, <1>5, <1>6, <1>7, <1>8, <1>9, <1>10, <1>11, <1>12,
     <1>13, <1>14, <1>15 DEF Next

\* A save that returned without an error is what a restart finds, unless a
\* later save, failed or unfinished, came to be; whatever the disk refused and
\* whenever the process died.
THEOREM AckedSavesAreDurable == Spec => []AckedIsDurable
<1>1. FilesInv => AckedIsDurable
  BY DEF FilesInv
<1> QED
  BY <1>1, InitFiles, NextFiles, PTL DEF Spec

\* A run that was replaced is never brought back, by a coroutine that still
\* has it in hand or by the files.
THEOREM ReplacedRunsStayReplaced == Spec => []NoRunReturns
<1>1. FilesInv => NoRunReturns
  BY DEF FilesInv
<1> QED
  BY <1>1, InitFiles, NextFiles, PTL DEF Spec

----------------------------------------------------------------------------
(***************************************************************************)
(* The refinement: every step of the files is a step of the promise, or    *)
(* leaves what it speaks of alone.  What FilesInv lacks for it is that a    *)
(* restart ends in the rounds of state.json, and these are lists.          *)
(***************************************************************************)

Logged ==
    /\ Listed(chatlog)
    /\ \A inst \in live \cup candidate : Listed(inst.log) /\ inst.saved \in Nat
    /\ \A kept \in state \cup backup \cup unacked : Listed(kept.tail)

LEMMA LastRoundsListed ==
    ASSUME NEW log, Listed(log)
    PROVE  Listed(LastRounds(log))
<1>1. Len(log) \in Nat /\ Window \in Nat \ {0}
  BY ListedLength, WindowAssumption
<1>2. Max({1, Len(log) - Window + 1}) \in Nat \ {0}
  <2> DEFINE k == Len(log) - Window + 1
  <2>1. k \in Int
    BY <1>1
  <2>2. \E m \in {1, k} : \A y \in {1, k} : m >= y
    BY <2>1
  <2>3. Max({1, k}) \in {1, k} /\ Max({1, k}) >= 1
    <3> HIDE DEF k
    <3> QED
      BY <2>1, <2>2 DEF Max
  <2> QED
    BY <2>1, <2>3
<1> QED
  BY <1>1, <1>2, PartListed DEF LastRounds

LEMMA AppendedListed ==
    ASSUME NEW file, NEW lines, Listed(file), Listed(lines)
    PROVE  Listed(Appended(file, lines))
<1>1. CASE lines = <<>> \/ file = <<>> \/ file[Len(file)] # Torn \/ Head(lines) = Torn
  BY <1>1, ConcatListed DEF Appended
<1>2. CASE lines # <<>> /\ file # <<>> /\ file[Len(file)] = Torn /\ Head(lines) # Torn
  <2>1. Listed(SubSeq(file, 1, Len(file) - 1))
    BY ListedLength, PartListed
  <2>2. Listed(<<Garbled>>) /\ Listed(Tail(lines))
    BY <1>2, OneListed, TailListed
  <2>3. Listed(SubSeq(file, 1, Len(file) - 1) \o <<Garbled>>)
    BY <2>1, <2>2, ConcatListed
  <2>4. Listed(SubSeq(file, 1, Len(file) - 1) \o <<Garbled>> \o Tail(lines))
    BY <2>2, <2>3, ConcatListed
  <2> QED
    BY <1>2, <2>4 DEF Appended
<1> QED
  BY <1>1, <1>2

LEMMA UnwrittenListed ==
    ASSUME NEW inst, Listed(inst.log), inst.saved \in Nat
    PROVE  Listed(Unwritten(inst))
<1>1. Len(inst.log) \in Nat /\ inst.saved + 1 \in Nat \ {0}
  BY ListedLength
<1> QED
  BY <1>1, PartListed DEF Unwritten

LEMMA ExtendedListed ==
    ASSUME NEW file, NEW inst, Listed(file), Listed(inst.log), inst.saved \in Nat
    PROVE  Listed(Extended(file, inst))
<1>1. Len(file) \in Nat /\ Len(inst.log) \in Nat
  BY ListedLength
<1>2. Listed(Truncated(file, Len(inst.log)))
  BY <1>1, PartListed DEF Truncated
<1> QED
  BY <1>2, UnwrittenListed, AppendedListed DEF Extended

LEMMA ReadableListed ==
    ASSUME NEW file, Listed(file)
    PROVE  Listed(Readable(file))
<1> DEFINE I == {i \in DOMAIN file : file[i] \notin {Torn, Garbled}}
<1>1. IsFiniteSet(DOMAIN file)
  BY ListedLength, FS_Interval
<1>2. IsFiniteSet(I)
  BY <1>1, FS_Subset
<1> QED
  BY <1>2, SubsequenceListed DEF Readable

\* What is restored is a list, and ends in the rounds of state.json.
LEMMA RestoredEnds ==
    ASSUME Listed(chatlog), NEW kept, Listed(kept.tail)
    PROVE  Listed(Restored(kept)) /\ Promise!EndsWith(Restored(kept), kept.tail)
<1> DEFINE history == Readable(chatlog)
           tail == kept.tail
           anchors == Anchors(history, tail)
<1>1. Listed(history) /\ Len(history) \in Nat /\ DOMAIN history = 1..Len(history)
  BY ReadableListed, ListedLength
<1>2. Len(tail) \in Nat
  BY ListedLength
<1>3. ASSUME NEW n \in Int, n <= Len(history)
      PROVE  /\ Listed(SubSeq(history, 1, n) \o tail)
             /\ Promise!EndsWith(SubSeq(history, 1, n) \o tail, tail)
  <2> DEFINE first == SubSeq(history, 1, n)
  <2>1. Listed(first)
    BY <1>1, <1>3, PartListed
  <2>2. Len(first) \in Nat
    BY <2>1, ListedLength
  <2> HIDE DEF first, history, tail
  <2>3. /\ Listed(first \o tail) /\ Len(first \o tail) = Len(first) + Len(tail)
        /\ \A i \in 1..Len(tail) : (first \o tail)[Len(first) + i] = tail[i]
    BY <2>1, ConcatListed DEF tail
  <2>4. Len(first) + Len(tail) - Len(tail) = Len(first)
    BY <1>2, <2>2
  <2> QED
    BY <1>2, <2>2, <2>3, <2>4 DEF Promise!EndsWith, first
<1>4. CASE tail = <<>>
  <2>1. Restored(kept) = history
    BY <1>4 DEF Restored
  <2>2. Len(tail) = 0
    BY <1>4, EmptyListed
  <2> QED
    BY <1>1, <2>1, <2>2 DEF Promise!EndsWith
<1>5. CASE tail # <<>> /\ history = <<>>
  <2>1. Restored(kept) = tail
    BY <1>5 DEF Restored
  <2> QED
    BY <1>2, <2>1 DEF Promise!EndsWith
<1>6. CASE tail # <<>> /\ history # <<>> /\ anchors # {}
  <2>1. Restored(kept) = SubSeq(history, 1, Max(anchors) - 1) \o tail
    BY <1>6 DEF Restored
  <2>2. Max(anchors) \in 1..Len(history)
    <3>1. anchors \subseteq 1..Len(history)
      BY <1>1 DEF Anchors
    <3> HIDE DEF anchors
    <3> QED
      BY <1>1, <1>6, <3>1, GreatestExists
  <2> HIDE DEF anchors, history
  <2> QED
    BY <1>1, <1>3, <2>1, <2>2
<1>7. CASE tail # <<>> /\ history # <<>> /\ anchors = {}
  <2>1. Restored(kept) = SubSeq(history, 1, Len(history) - Len(tail)) \o tail
    BY <1>7 DEF Restored
  <2> HIDE DEF history
  <2> QED
    BY <1>1, <1>2, <1>3, <2>1
<1> QED
  BY <1>4, <1>5, <1>6, <1>7

LEMMA InitLogged == Init => Logged
BY EmptyListed DEF Init, Logged

\* The story changes to another list.
LEMMA PlayLogged ==
    ASSUME FilesInv, Logged, Playing, NEW game \in live, NEW log, Listed(log),
           live' = {[game EXCEPT !.log = log]},
           UNCHANGED <<stale, candidate, files, saves>>
    PROVE  Logged'
<1>1. /\ [game EXCEPT !.log = log].log = log
      /\ [game EXCEPT !.log = log].saved = game.saved
  BY DEF FilesInv, Owned, Shaped
<1>2. UNCHANGED <<chatlog, state, backup, unacked, candidate>>
  BY DEF files, saves
<1>3. game.saved \in Nat
  BY DEF Logged
<1> QED
  BY <1>1, <1>2, <1>3 DEF Logged

LEMMA BeginSaveLogged == FilesInv /\ Logged /\ BeginSave => Logged'
<1> SUFFICES ASSUME FilesInv, Logged, BeginSave PROVE Logged'
  OBVIOUS
<1>1. PICK inst \in live \cup candidate :
         /\ chatlog' = IF NextRun(inst) THEN chatlog ELSE Extended(chatlog, inst)
         /\ unacked' = unacked \cup {Record(inst)}
         /\ live' = Marked(live, inst)
         /\ candidate' = Marked(candidate, inst)
  BY DEF BeginSave, MaySave
<1>2. UNCHANGED <<state, backup>>
  BY DEF BeginSave
<1>3. Listed(inst.log) /\ inst.saved \in Nat
  BY DEF Logged
<1>4. Listed(chatlog')
  BY <1>1, <1>3, ExtendedListed DEF Logged
<1>5. ASSUME NEW next \in live' \cup candidate'
      PROVE  Listed(next.log) /\ next.saved \in Nat
  <2>1. PICK game \in live \cup candidate : next = Persisted(game) \/ next = game
    BY <1>1 DEF Marked
  <2>2. Listed(game.log) /\ game.saved \in Nat /\ Len(game.log) \in Nat /\ Shaped(game)
    BY ListedLength DEF Logged, FilesInv, Owned
  <2>3. Persisted(game).log = game.log /\ Persisted(game).saved = Len(game.log)
    BY <2>2 DEF Persisted, Shaped
  <2> QED
    BY <2>1, <2>2, <2>3
<1>6. Listed(Record(inst).tail)
  BY <1>3, LastRoundsListed DEF Record
<1> QED
  BY <1>1, <1>2, <1>4, <1>5, <1>6 DEF Logged

LEMMA NextLogged == FilesInv /\ Logged /\ [Next]_vars => Logged'
<1> SUFFICES ASSUME FilesInv, Logged, [Next]_vars PROVE Logged'
  OBVIOUS
<1>1. CASE AppendRound
  <2>1. PICK game \in live :
           live' = {[game EXCEPT !.log = Append(@, [run |-> game.run, round |-> Len(@) + 1,
                                                  edit |-> spent.edits])]}
    BY <1>1 DEF AppendRound
  <2>2. Listed(Append(game.log, [run |-> game.run, round |-> Len(game.log) + 1,
                                 edit |-> spent.edits]))
    BY AppendListed DEF Logged
  <2> QED
    BY <1>1, <2>1, <2>2, PlayLogged DEF AppendRound
<1>2. CASE TakeBackRound
  <2>1. PICK game \in live :
           /\ game.log # <<>>
           /\ live' = {[game EXCEPT !.log = SubSeq(@, 1, Len(@) - 1)]}
    BY <1>2 DEF TakeBackRound
  <2>2. Listed(game.log)
    BY DEF Logged
  <2>3. Listed(SubSeq(game.log, 1, Len(game.log) - 1))
    BY <2>2, ListedLength, PartListed
  <2> QED
    BY <1>2, <2>1, <2>3, PlayLogged DEF TakeBackRound
<1>3. ASSUME NEW i \in 1..MaxLog, ChangeRound(i) PROVE Logged'
  <2>1. PICK game \in live :
           live' = {[game EXCEPT !.log = [@ EXCEPT ![i].edit = spent.edits + 1]]}
    BY <1>3 DEF ChangeRound
  <2>2. Listed([game.log EXCEPT ![i] = [game.log[i] EXCEPT !.edit = spent.edits + 1]])
    BY ExceptListed DEF Logged
  <2>3. [game.log EXCEPT ![i].edit = spent.edits + 1]
          = [game.log EXCEPT ![i] = [game.log[i] EXCEPT !.edit = spent.edits + 1]]
    OBVIOUS
  <2> QED
    BY <1>3, <2>1, <2>2, <2>3, PlayLogged DEF ChangeRound
<1>4. CASE PrepareRun
  <2>1. PICK game \in live :
           \E log \in {<<>>, <<[run |-> game.run + 1, round |-> 1, edit |-> spent.edits]>>} :
              candidate' = {[run |-> game.run + 1, log |-> log, saved |-> 0]}
    BY <1>4 DEF PrepareRun
  <2>2. UNCHANGED <<live, state, backup, chatlog, unacked>>
    BY <1>4 DEF PrepareRun, files, saves
  <2>3. \A next \in candidate' : Listed(next.log) /\ next.saved = 0
    BY <2>1, EmptyListed, OneListed
  <2> QED
    BY <2>2, <2>3 DEF Logged
<1>5. CASE DropCandidate
  BY <1>5 DEF DropCandidate, Logged, files, saves
<1>6. CASE BeginSave
  BY <1>6, BeginSaveLogged
<1>7. CASE BreakAppend
  <2>1. PICK inst \in live \cup candidate :
           /\ \E k \in 0..(Len(Unwritten(inst)) - 1), end \in {<<>>, <<Torn>>} :
                 chatlog' = Appended(chatlog, SubSeq(Unwritten(inst), 1, k) \o end)
           /\ candidate' = candidate \ {inst}
    BY <1>7 DEF BreakAppend
  <2>2. PICK k \in 0..(Len(Unwritten(inst)) - 1), end \in {<<>>, <<Torn>>} :
           chatlog' = Appended(chatlog, SubSeq(Unwritten(inst), 1, k) \o end)
    BY <2>1
  <2>3. UNCHANGED <<live, state, backup, unacked>>
    BY <1>7 DEF BreakAppend, saves
  <2>4. Listed(Unwritten(inst))
    BY UnwrittenListed DEF Logged
  <2>5. Listed(SubSeq(Unwritten(inst), 1, k))
    BY <2>4, ListedLength, PartListed
  <2>6. Listed(end)
    BY EmptyListed, OneListed
  <2>7. Listed(chatlog')
    BY <2>2, <2>5, <2>6, ConcatListed, AppendedListed DEF Logged
  <2> QED
    BY <2>1, <2>3, <2>7 DEF Logged
<1>8. CASE KeepBackup
  BY <1>8 DEF KeepBackup, Logged, memory
<1>9. CASE PutState
  <2>1. PICK w \in writing : state' = {Record(w.inst)}
    BY <1>9 DEF PutState
  <2>2. Record(w.inst) \in unacked
    BY DEF FilesInv, Begun
  <2> QED
    BY <1>9, <2>1, <2>2 DEF PutState, Logged, memory
<1>10. CASE SwapHistory
  <2>1. PICK w \in writing : chatlog' = w.inst.log
    BY <1>10 DEF SwapHistory
  <2>2. w.inst \in live \cup candidate
    BY DEF FilesInv, Begun
  <2> QED
    BY <1>10, <2>1, <2>2 DEF SwapHistory, Logged, memory
<1>11. CASE FinishSave
  <2>1. /\ live' \cup candidate' \subseteq live \cup candidate
        /\ unacked' = {} /\ UNCHANGED <<state, backup, chatlog>>
    BY <1>11 DEF FinishSave, memory, files, FilesInv, Begun
  <2> QED
    BY <2>1 DEF Logged
<1>12. CASE FailSave
  BY <1>12 DEF FailSave, Logged, files
<1>13. CASE Crash
  BY <1>13 DEF Crash, Logged, files
<1>14. CASE Load
  <2>1. PICK kept \in Kept :
           /\ live' = {[run |-> kept.run, log |-> Restored(kept), saved |-> Len(Restored(kept))]}
           /\ chatlog' = IF Readable(chatlog) = <<>> THEN Appended(chatlog, kept.tail)
                                                    ELSE chatlog
    BY <1>14 DEF Load
  <2>2. unacked' = Kept /\ UNCHANGED <<candidate, state, backup>> /\ candidate = {}
    BY <1>14 DEF Load, FilesInv, Owned
  <2>3. Kept \subseteq state \cup backup
    BY DEF Kept
  <2>4. Listed(kept.tail) /\ Listed(chatlog)
    BY <2>3 DEF Logged
  <2>5. Listed(Restored(kept)) /\ Len(Restored(kept)) \in Nat
    BY <2>4, RestoredEnds, ListedLength
  <2>6. Listed(chatlog')
    BY <2>1, <2>4, AppendedListed
  <2> QED
    BY <2>1, <2>2, <2>3, <2>5, <2>6 DEF Logged
<1>15. CASE UNCHANGED vars
  BY <1>15 DEF vars, memory, files, saves, Logged
<1> QED
  BY <1>1, <1>2, <1>3, <1>4, <1>5, <1>6, <1>7, <1>8, <1>9, <1>10, <1>11, <1>12,
     <1>13, <1>14, <1>15 DEF Next

----------------------------------------------------------------------------
LEMMA InitPromise == Init => Promise!Init
BY DEF Init, Promise!Init, Kept

\* The story changes.
LEMMA PlayPromise ==
    ASSUME FilesInv, NEW game \in live, NEW log,
           live' = {[game EXCEPT !.log = log]},
           UNCHANGED <<stale, candidate, files, saves>>
    PROVE  Promise!Play
<1>1. [game EXCEPT !.log = log].run = game.run
  BY DEF FilesInv, Owned, Shaped
<1>2. Promise!SameRun
  BY <1>1 DEF Promise!SameRun, FilesInv, Owned
<1>3. Kept' = Kept /\ unacked' = unacked
  BY DEF Kept, files, saves
<1> QED
  BY <1>2, <1>3 DEF Promise!Play

LEMMA BeginSavePromise == FilesInv /\ BeginSave => Promise!Submit
<1> SUFFICES ASSUME FilesInv, BeginSave PROVE Promise!Submit
  OBVIOUS
<1>1. PICK inst \in live \cup candidate :
         /\ unacked' = unacked \cup {Record(inst)}
         /\ live' = Marked(live, inst)
  BY DEF BeginSave, MaySave
<1>2. Kept' = Kept /\ live # {}
  BY DEF BeginSave, Kept
<1>3. \A next \in live' : \E game \in live : next = Persisted(game) \/ next = game
  BY <1>1 DEF Marked
<1>4. \A game \in live : Persisted(game).run = game.run
  BY PersistedKeeps DEF FilesInv, Owned
<1>5. live' # {}
  BY <1>1, <1>2 DEF Marked
<1>6. Promise!SameRun
  BY <1>3, <1>4, <1>5 DEF Promise!SameRun, FilesInv, Owned
<1>7. \A game \in live : Record(inst).run >= game.run
  BY RecordRun DEF FilesInv, Owned
<1>8. \A game \in live, v \in unacked' \ unacked : v.run >= game.run
  BY <1>1, <1>7
<1> QED
  BY <1>1, <1>2, <1>6, <1>8 DEF Promise!Submit

LEMMA PutStatePromise == FilesInv /\ PutState => Promise!Put
<1> SUFFICES ASSUME FilesInv, PutState PROVE Promise!Put
  OBVIOUS
<1>1. PICK w \in writing : state' = {Record(w.inst)}
  BY DEF PutState
<1>2. Record(w.inst) \in unacked
  BY DEF FilesInv, Begun
<1>3. Kept' = {Record(w.inst)}
  BY <1>1 DEF Kept
<1>4. UNCHANGED <<live, unacked>>
  BY DEF PutState, memory
<1> QED
  BY <1>2, <1>3, <1>4 DEF Promise!Put

LEMMA FinishSavePromise == FilesInv /\ FinishSave => Promise!Acknowledge
<1> SUFFICES ASSUME FilesInv, FinishSave PROVE Promise!Acknowledge
  OBVIOUS
<1>1. PICK w \in writing :
         /\ w.at = "done"
         /\ IF w.inst \in candidate
            THEN live' = {w.inst} /\ stale' = live /\ candidate' = {}
            ELSE UNCHANGED memory
  BY DEF FinishSave
<1>2. unacked' = {} /\ Kept' = Kept
  BY DEF FinishSave, files, Kept
<1>3. state = {Record(w.inst)} /\ Record(w.inst) \in unacked
  BY <1>1 DEF FilesInv, Begun
<1>4. Kept = {Record(w.inst)}
  BY <1>3 DEF Kept
<1>5. live # {}
  BY <1>1 DEF FilesInv, Owned
<1>6. live' = {w.inst} \/ live' = live
  BY <1>1 DEF memory
<1>7. live' = live \/ \A v \in Kept, next \in live' : next.run = v.run
  BY <1>4, <1>6, RecordRun
<1>8. live' # {}
  BY <1>5, <1>6
<1> QED
  BY <1>2, <1>3, <1>4, <1>7, <1>8 DEF Promise!Acknowledge

LEMMA LoadPromise == FilesInv /\ Logged /\ Load => Promise!Restart
<1> SUFFICES ASSUME FilesInv, Logged, Load PROVE Promise!Restart
  OBVIOUS
<1>1. PICK kept \in Kept :
         live' = {[run |-> kept.run, log |-> Restored(kept), saved |-> Len(Restored(kept))]}
  BY DEF Load
<1>2. live = {} /\ unacked' = Kept /\ Kept' = Kept
  BY DEF Load, Kept
<1>3. Listed(kept.tail) /\ Listed(chatlog)
  BY DEF Logged, Kept
<1>4. Promise!EndsWith(Restored(kept), kept.tail)
  BY <1>3, RestoredEnds
<1>5. \A next \in live' : next.run = kept.run /\ Promise!EndsWith(next.log, kept.tail)
  BY <1>1, <1>4
<1> QED
  BY <1>1, <1>2, <1>5 DEF Promise!Restart

LEMMA StepPromise == FilesInv /\ Logged /\ [Next]_vars => [Promise!Next]_(Promise!vars)
<1> SUFFICES ASSUME FilesInv, Logged, [Next]_vars
             PROVE  Promise!Next \/ UNCHANGED <<live, Kept, unacked>>
  BY DEF Promise!vars
<1>1. CASE AppendRound
  BY <1>1, PlayPromise DEF AppendRound, Promise!Next
<1>2. CASE TakeBackRound
  BY <1>2, PlayPromise DEF TakeBackRound, Promise!Next, saves
<1>3. ASSUME NEW i \in 1..MaxLog, ChangeRound(i) PROVE Promise!Next
  BY <1>3, PlayPromise DEF ChangeRound, Promise!Next, saves
<1>4. CASE PrepareRun \/ DropCandidate
  BY <1>4 DEF PrepareRun, DropCandidate, Kept, files, saves
<1>5. CASE BeginSave
  BY <1>5, BeginSavePromise DEF Promise!Next
<1>6. CASE BreakAppend
  BY <1>6 DEF BreakAppend, Kept, saves
<1>7. CASE KeepBackup
  BY <1>7 DEF KeepBackup, Kept, memory
<1>8. CASE PutState
  BY <1>8, PutStatePromise DEF Promise!Next
<1>9. CASE SwapHistory
  BY <1>9 DEF SwapHistory, Kept, memory
<1>10. CASE FinishSave
  BY <1>10, FinishSavePromise DEF Promise!Next
<1>11. CASE FailSave
  BY <1>11 DEF FailSave, Kept, files
<1>12. CASE Crash
  BY <1>12 DEF Crash, Promise!Crash, Promise!Next, Kept, files
<1>13. CASE Load
  BY <1>13, LoadPromise DEF Promise!Next
<1>14. CASE UNCHANGED vars
  BY <1>14 DEF vars, memory, files, saves, Kept
<1> QED
  BY <1>1, <1>2, <1>3, <1>4, <1>5, <1>6, <1>7, <1>8, <1>9, <1>10, <1>11, <1>12,
     <1>13, <1>14 DEF Next

\* The three files, a backup and a log that is only appended to behave like one
\* durable copy that changes at an instant: whenever the process dies and
\* whatever the disk refuses, a restart finds the acknowledged save or a later
\* one, with its last rounds as they were, and no run that was replaced.
THEOREM FilesKeepThePromise == Spec => SavesAreDurable
<1> DEFINE Inv == FilesInv /\ Logged
<1>1. Init => Inv
  BY InitFiles, InitLogged
<1>2. Inv /\ [Next]_vars => Inv'
  BY NextFiles, NextLogged
<1>3. Inv /\ [Next]_vars => [Promise!Next]_(Promise!vars)
  BY StepPromise
<1> QED
  BY <1>1, <1>2, <1>3, InitPromise, PTL DEF Spec, SavesAreDurable, Promise!Spec

=============================================================================
